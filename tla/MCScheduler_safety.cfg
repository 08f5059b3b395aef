SPECIFICATION MCSpec
CONSTANTS
  i1 = i1
  i2 = i2
  i3 = i3
  Items = {i1, i2, i3}
  MaxQueue = 2
  MaxBatch = 2
  MaxDelay = 1
  MaxClock = 2
  Unbounded = Unbounded
  Deadlines = {1, 2, Unbounded}
  MaxCancels = 1
SYMMETRY ItemSymmetry
CHECK_DEADLOCK FALSE
INVARIANTS
  AnsweredOnce
  HandledInOrder
  ValueIsOwn
  AdmittedNotClosed
  BatchOutlivesCallers
