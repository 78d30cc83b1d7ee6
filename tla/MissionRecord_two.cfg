SPECIFICATION Spec
SYMMETRY Either
CONSTANTS
  None = None
  Removed = Removed
  b1 = b1
  b2 = b2
  r1 = r1
  r2 = r2
  Signals = {"s1", "s2"}
  Missions = {"m1", "m2"}
  Runs = {r1, r2}
  Branches = {b1, b2}
  Proposals <- MCProposals
  Decidable = {"s2"}
  Overtaken = {"m1"}
  Forgotten = {"m1"}
  Closings = {"completed"}
INVARIANTS
  OneVerdict
  OverrideNamesTheAssessment
  OnlyRejectionsRace
  RunsCanClose
  SettledSignalsReopen
CHECK_DEADLOCK FALSE
