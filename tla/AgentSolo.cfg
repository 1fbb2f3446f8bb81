SPECIFICATION Spec
CONSTANTS
  c1 = c1
  c2 = c2
  c3 = c3
  c4 = c4
  o1 = o1
  o2 = o2
  Procs = {p1}
  Calls = {c1, c2, c3, c4}
  Ops = {o1, o2}
  OpOf <- SameTwice
  Invalid = {c4}
  Gone = Gone
  MaxBatch = 2
  MaxIterations = 2
  MaxToolCalls = 2
  MaxAttempts = 2
  MaxCrashes = 1
  MaxResumes = 1
  MaxCancels = 1
  MaxFaults = 1
  MaxLapses = 1
CHECK_DEADLOCK FALSE
INVARIANTS
  BudgetRespected
  CompletedMeansDone
PROPERTIES
  FailsForAReason
  EveryCallEnds
