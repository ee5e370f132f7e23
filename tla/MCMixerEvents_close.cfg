SPECIFICATION FairSpec
CONSTANTS
  HasHw = FALSE
  Shared = FALSE
  Wrap = 8
  MaxQueued = 0
  MaxCredit = 1
INVARIANTS MutexAlive
CHECK_DEADLOCK FALSE
