SPECIFICATION Spec
CONSTANTS
  None = None
  MaxTasks = 7
  MaxHead = 1
  MaxMail = 1
  Late = TRUE
INVARIANTS
  RecordKeepsUp
  SentBackIsNotApproved
PROPERTIES
  FollowsThePipeline
