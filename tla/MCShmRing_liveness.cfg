SPECIFICATION CrewGatewaySpec
CONSTANTS
  p1 = p1
  p2 = p2
  Producers = {p1, p2}
  Capacity = 4
  MaxBatch = 2
  ReadyModulus = 8
  MaxRequests = 2
  SharedRequests = 2
  MayStop = TRUE
INVARIANT
  NothingStagedAtExit
PROPERTIES
  ImplementsLifecycle
  SubmitReturns
  ClaimedIsReleased
