SPECIFICATION FairSpec
CONSTANTS
  Peers = {p1, p2}
  Users = {u1}
  Cap = 3
  MaxFaults = 1
  Stale = TRUE
INVARIANTS
  GreenMeansHeard
  OneCopyPending
PROPERTIES
  RelayGoesOn
  JobsTurnGreen
