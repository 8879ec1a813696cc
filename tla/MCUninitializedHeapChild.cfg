SPECIFICATION FairSpec
CONSTANTS
  Word = 4
  Commands <- Plain
  MayFail = {"wait"}
INVARIANTS
  ChildErrorIsReported
CHECK_DEADLOCK FALSE
