SPECIFICATION MCSpec
CONSTANTS
  i1 = i1
  i2 = i2
  Items = {i1, i2}
  MaxQueue = 2
  MaxBatch = 2
  MaxDelay = 1
  MaxClock = 1
  Unbounded = Unbounded
  Deadlines = {Unbounded}
  MaxCancels = 0

CHECK_DEADLOCK FALSE
INVARIANT
  RequestIdentityPreserved
