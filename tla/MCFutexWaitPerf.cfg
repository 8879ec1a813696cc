SPECIFICATION Spec
CONSTANTS
  N = 3
  Iterations = 5
  Word = 8
INVARIANTS
  ResultCountsAllWork
PROPERTIES
  DischargesHarness
  ProgramTermination
