SPECIFICATION FairSpec
CONSTANTS
  NSEC = 10
  LONG_MAX = 21
  Timeouts <- Some
  MaxClock = 35
INVARIANTS
  TimeoutTypeOK
  DeadlineExact
  NeverLate
  NotRefused
PROPERTIES
  TimesOut
CHECK_DEADLOCK FALSE
