SPECIFICATION Spec
SYMMETRY Either
CONSTANTS
  None = None
  c1 = c1
  c2 = c2
  Commands = {c1, c2}
  Args <- MCArgs
  Types <- MCTypes
  PullRequest = "pull_request"
  OrgRules = {}
  Classics <- MCClassics
  OwnRulesets <- MCOwnRulesets
  Topics = {"agent-federation-node", "other"}
  FederationTopic = "agent-federation-node"
  MaxRulesets = 3
  MaxFaults = 1
  MaxEdits = 1
INVARIANTS
  TypeOK
PROPERTIES
  ConformantWasTrue
  RegistrationWasTrue
  OnlyAdditions
  DuplicateNeedsOverlap
  QuietApplyProtects
