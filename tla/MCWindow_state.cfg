SPECIFICATION Spec
CONSTANTS
  Duration = 1
  MaxEntities = 2
  MaxEvents = 3
  MaxTotal = 2
  MaxTrackedPartitions = 2
  EventIds = {"a", "b", "c"}
  EventEntities = {1, 2, 3}
  EventTimes = {1, 2, 3}
  EventOffsets = {0, 1}
  MaxUnsynced = 1
  Inputs <- MCInputs
INVARIANTS
  IndexesAgree
  WindowExact
  SinkAgrees
