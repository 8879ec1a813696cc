SPECIFICATION FairSpec
CONSTANTS
  THREAD_MAX = 2
  MAX_WAKE_ITERS = 2
  Commands <- CommandLines
  MayFail = {"create", "wait", "requeue", "lock"}
INVARIANTS
  RequeueTypeOK
  OwnershipExact
  NoWaiterLeftBehind
  FrameOutlivesThreads
  VerdictSound
PROPERTIES
  ConcludesOrGivesUp
CHECK_DEADLOCK FALSE
