SPECIFICATION FairSpec
CONSTANTS
  w1 = w1
  w2 = w2
  w3 = w3
  l1 = l1
  l2 = l2
  None = None
  Wrappers = {w1, w2}
  Runs <- MCRuns
  Locks = {l1, l2}
  LockOf <- MCLockOf
  ChildCodes <- MCChildCodes
INVARIANTS
  TypeOK
  LeaseOutlivesCommand
  HeldByTheLiving
PROPERTIES
  OneHeavyCommand
  WrapperReturns
