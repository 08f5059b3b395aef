SPECIFICATION CrewSpec
CONSTANTS
  p1 = p1
  p2 = p2
  Producers = {p1, p2}
  Capacity = 4
  MaxBatch = 2
  ReadyModulus = 8
  MaxRequests = 5
  SharedRequests = 3
  MayStop = FALSE
SYMMETRY ThreadSymmetry
INVARIANTS
  OneOwner
  ResponseIsOwn
  ReadyCountAccurate
  ReclaimBounded
  IInv
