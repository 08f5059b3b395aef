SPECIFICATION FairSpec
CONSTANTS
  c1 = c1
  c2 = c2
  Calls <- MCCalls
  Batches <- MCBatches
  MaxBatchSize = 2
  ServerToken = "worker"
  ClientTokens = {"", "worker"}
  CallerTokens = {"", "worker", "caller"}
  ShutdownBudget = 2
CHECK_DEADLOCK FALSE
INVARIANTS
  OwnAnswer
  StopDrainsCalls
PROPERTIES
  StopExits
