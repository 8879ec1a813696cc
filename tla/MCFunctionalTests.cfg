SPECIFICATION FairSpec
CONSTANTS
  Word = 4
  NSEC = 10
  Commands <- CommandLines
  MayFail = {"mmap", "create", "wait", "requeue", "wake", "detection", "zero_page", "kernel"}
INVARIANTS
  TestsTypeOK
  MessagesAgree
  WokenChildHasNoError
  PassIsEarned
PROPERTIES
  ImplementsTestProtocol
  TestsEnd
CHECK_DEADLOCK FALSE
