SPECIFICATION FairSpec
CONSTANTS
  Commands <- CommandLines
  MayFail = {"sigaction", "create", "wait", "requeue", "lock"}
INVARIANTS
  SignalTypeOK
  UnlockAfterDetection
  PassMeansInterrupted
PROPERTIES
  ImplementsTestProtocol
  ReturnsOnceRequeued
  DelayEndsTest
