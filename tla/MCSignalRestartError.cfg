SPECIFICATION FairSpec
CONSTANTS
  Commands <- Plain
  MayFail = {"requeue"}
PROPERTIES
  ErrorBreaksOut
