SPECIFICATION MCSpec
CONSTANTS
  N = 2
  c1 = c1
  c2 = c2
  Callers <- MCCallers
  Ops = {"infer", "healthy"}
  NoDeadline = NoDeadline
  Deadlines = {NoDeadline, 2}
  AttemptTime = 1
  ProbeEvery = 1
  MaxRate = 2
  MaxCancels = 1
  MaxChanges = 1
INVARIANTS
  SteadyWorkerServes
  BlameDeserved
PROPERTIES
  Recovers
