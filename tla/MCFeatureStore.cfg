SPECIFICATION Spec
CONSTANTS
  c1 = c1
  c2 = c2
  v1 = v1
  v2 = v2
  Callers <- MCCallers
  Vectors <- MCVectors
  Stores <- MCStores
  Keys = {"k"}
  Absent = Absent
  Garbled = Garbled
  Deadlines = {0, 1, 2, 5}
  Timeout = 2
  MaxWrites = 2
CHECK_DEADLOCK FALSE
INVARIANTS
  BudgetDivided
  ValueWasStored
