CONSTANTS
  Procs = {p1}
  Executors = {codex, antigravity}
  Codex = codex
  NoAuth = NoAuth
  Orphans = FALSE
  MaxLeases = 3
  MaxEdits = 2
  MaxCrashes = 0
  MaxFaults = 0
SPECIFICATION Spec
CHECK_DEADLOCK FALSE
PROPERTIES HandoffStartsClean
