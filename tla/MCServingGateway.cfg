SPECIFICATION MCSpec
CONSTANTS
  r1 = r1
  r2 = r2
  Requests <- MCRequests
  Scores <- MCScores
  DenyScore = 1
  Timeout = 2
  FeatureTimeout = 1
  ShutdownTimeout = 3
  MaxQueue = 1
  MaxBatch = 2
  MaxDelay = 1
  MaxClock = 4
  Unbounded = Unbounded
  MaxCancels = 1
CHECK_DEADLOCK FALSE
INVARIANTS
  FailClosed
  QueueReasonTrue
  StopDrains
PROPERTIES
  NothingHangs
