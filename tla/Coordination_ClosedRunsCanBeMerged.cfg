SPECIFICATION Spec
CONSTANTS
  None = None
  MaxTasks = 5
  MaxHead = 0
  MaxMail = 1
  Late = FALSE
INVARIANT ClosedRunsCanBeMerged
