SPECIFICATION Spec
CONSTANTS
  p1 = p1
  p2 = p2
  None = None
  Malformed = Malformed
  Runs = {"r1"}
  Repos = {"hq", "hr"}
  PRRepo = "hq"
  Heads = {"h1", "h2"}
  base = base
  other = other
  Baselines = {base, other}
  Ids = {"a", "b"}
  Prefix <- TextPrefix
  Bundles <- MCBundles
  PRs = {p1, p2}
  MaxChecks = 2
  MaxFaults = 1
  MaxWrites = 2
  MaxMoves = 1
SYMMETRY PRSymmetry
INVARIANTS
  TypeOK
  SuccessIsEarned
  AttestedHeadWasProposed
  DuplicateNeedsFailedLookup
