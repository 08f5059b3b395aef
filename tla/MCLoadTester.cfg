SPECIFICATION FairSpec
CONSTANTS
  w1 = w1
  w2 = w2
  Workers <- MCWorkers
  Requested = 7
  WithinDuration = 6
CHECK_DEADLOCK FALSE
INVARIANTS
  EveryRequestRecorded
PROPERTIES
  RunReturns
