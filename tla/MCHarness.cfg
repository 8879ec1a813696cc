SPECIFICATION HarnessFairSpec
CONSTANTS
  N = 3
  Word = 8
INVARIANTS
  HarnessTypeOK
  MeasuredWindow
  NoUseAfterReturn
  CounterExact
  NoSleeperForgotten
PROPERTIES
  HarnessTermination
  ImplementsRendezvous
