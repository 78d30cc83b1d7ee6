SPECIFICATION Spec
CONSTANTS
  r1 = r1
  r2 = r2
  r3 = r3
  a1 = a1
  None = None
  Repos = {r1}
  Scope = {r1}
  Admin = {r1}
  Actors = {a1}
  Profiles <- MCProfiles
  MaxApplies = 2
  MaxFaults = 1
  MaxEdits = 1
INVARIANTS
  TypeOK
  Recoverable
  BootstrapFirst
  ConfiguredIsEnforced
  RestoredIsBefore
  RollbackCompletes
PROPERTIES
  WriteAhead
