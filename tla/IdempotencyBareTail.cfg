SPECIFICATION Spec
CONSTANTS
  Keys = {k1, k2}
  Workers = {w1, w2}
  Owners = {w1, w2}
  OwnerOf <- OwnOwner
  NoWorker = NoWorker
  TTL = 1
  ClockSteps = {1}
  TornTails = {"partial", "bare"}
  MaxTime = 2
  MaxLines = 3
  MaxAttempts = 2
SYMMETRY Symmetry
PROPERTY NoReopening
