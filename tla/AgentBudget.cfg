SPECIFICATION Spec
CONSTANTS
  c1 = c1
  c2 = c2
  c3 = c3
  c4 = c4
  o1 = o1
  o2 = o2
  Procs = {p1, p2}
  Calls = {c1, c2}
  Ops = {o1}
  OpOf <- SameTwice
  Invalid = {}
  Gone = Gone
  MaxBatch = 1
  MaxIterations = 2
  MaxToolCalls = 1
  MaxAttempts = 2
  MaxCrashes = 0
  MaxResumes = 1
  MaxCancels = 0
  MaxFaults = 0
  MaxLapses = 1
SYMMETRY Symmetry
CHECK_DEADLOCK FALSE
INVARIANT BudgetRespected
