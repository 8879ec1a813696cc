SPECIFICATION FairSpec
CONSTANTS
  Commands <- Plain
  MayFail = {}
INVARIANTS
  CorrectKernelPasses
