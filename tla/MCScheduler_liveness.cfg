SPECIFICATION MCFairSpec
CONSTANTS
  i1 = i1
  i2 = i2
  Items = {i1, i2}
  MaxQueue = 2
  MaxBatch = 2
  MaxDelay = 1
  MaxClock = 2
  Unbounded = Unbounded
  Deadlines = {Unbounded}
  MaxCancels = 1

CHECK_DEADLOCK FALSE
PROPERTIES
  SubmitReturns
  CloseDrains
