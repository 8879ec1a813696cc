SPECIFICATION FairSpec
CONSTANTS
  Threads = {t1, t2, t3}
  Loops = 2
  Word = 4
  None = None
INVARIANTS
  TypeOK
  MutualExclusion
  WordTracksHolder
  NoLostWakeup
PROPERTIES
  Termination
  ImplementsLockService
