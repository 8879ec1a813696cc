SPECIFICATION FairSpec
CONSTANTS
  THREAD_MAX = 2
  MAX_WAKE_ITERS = 3
  Commands <- OnlyB
  MayFail = {}
INVARIANTS
  BroadcastReachesAll
CHECK_DEADLOCK FALSE
