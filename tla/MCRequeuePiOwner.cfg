SPECIFICATION FairSpec
CONSTANTS
  THREAD_MAX = 2
  MAX_WAKE_ITERS = 2
  Commands <- OnlyO
  MayFail = {}
PROPERTIES
  TestReturnsOnceAllWoken
CHECK_DEADLOCK FALSE
