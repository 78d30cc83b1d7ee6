SPECIFICATION Spec
CONSTANTS
  r1 = r1
  r2 = r2
  r3 = r3
  a1 = a1
  None = None
  Repos = {r1, r2, r3}
  Scope = {r1, r2}
  Admin = {r1, r2, r3}
  Actors = {a1}
  Profiles <- MCFleetProfiles
  MaxApplies = 1
  MaxFaults = 1
  MaxEdits = 0
SYMMETRY ScopeSymmetry
INVARIANTS
  ConfiguredIsEnforced
PROPERTIES
  WriteAhead
