SPECIFICATION FairSpec
CONSTANTS
  Runs = 2
  Budget <- MCOneEach
INVARIANTS
  ClientTypeOK
PROPERTIES
  CallsSpec
  EveryRunReturns
CHECK_DEADLOCK FALSE
