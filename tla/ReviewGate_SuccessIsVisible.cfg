SPECIFICATION Spec
CONSTANTS
  p1 = p1
  p2 = p2
  None = None
  Malformed = Malformed
  Runs = {"r1", "r10"}
  Repos = {"hq"}
  PRRepo = "hq"
  Heads = {"h1", "h2"}
  base = base
  other = other
  Baselines = {base, other}
  Ids = {"a", "b"}
  Prefix <- TextPrefix
  Bundles <- TwoRuns
  PRs = {p1}
  MaxChecks = 2
  MaxFaults = 0
  MaxWrites = 0
  MaxMoves = 0
PROPERTIES
  SuccessIsVisible
