SPECIFICATION MCSpec
CONSTANTS
  Setups <- MCSetups
  MaxAttempts = 2
  MaxFaults = 2
  MaxStops = 1
  LongTrouble = 1
  ShortTrouble = 2
  Duration = 1
  MaxEntities = 2
  MaxEvents = 4
  MaxTotal = 9
  MaxTrackedPartitions = 3
  MaxUnsynced = 1
  EventOf <- MCEventOf
CHECK_DEADLOCK FALSE
INVARIANTS
  SinkReflectsHandled
  CommittedSettled
  HandlerAtCommitted
  StateTells
  CleanExit
PROPERTIES
  ProcessExits
  AllCommitted
