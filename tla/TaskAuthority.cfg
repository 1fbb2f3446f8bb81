CONSTANTS
  Procs = {p1}
  Executors = {codex, antigravity}
  Codex = codex
  NoAuth = NoAuth
  Orphans = FALSE
  MaxLeases = 2
  MaxEdits = 2
  MaxCrashes = 1
  MaxFaults = 1
SPECIFICATION Spec
CHECK_DEADLOCK FALSE
INVARIANTS ConsumedMeansPublished HolderWorksAlone
PROPERTIES RunPublishesOwnWork CommitsInScope FailedCommandUndone
