SPECIFICATION Spec
CONSTANTS
  Runs = {r1, r2}
  Workers = {w1, w2}
  NoWorker = NoWorker
  Offered <- SomeEvents
  TornTails = {"partial"}
  ClockSteps <- ForthAndBack
  MaxTime = 1
  MaxLines = 4
SYMMETRY Symmetry
INVARIANT AckedEventsDurable
