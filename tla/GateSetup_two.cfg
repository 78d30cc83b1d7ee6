SPECIFICATION FairSpec
CONSTANTS
  Apps = {a1, a2}
  Ids = {i1, i2}
  Commands = {c1, c2}
  None = None
  Torn = Torn
  MaxEvents = 5
INVARIANTS
  PairsBelong
PROPERTIES
  SetupSucceeds
CHECK_DEADLOCK FALSE
