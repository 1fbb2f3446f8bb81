SPECIFICATION Spec
CONSTANTS
  Terminals = {t1, t2}
  Nobody = nobody
  ObservedStates = {"AVAILABLE", "QUOTA_EXHAUSTED"}
  GrantTTL = 1
  CapacityTTL = 1
  MaxGrants = 1
  MaxTime = 1
  MaxEdits = 2
  Tokens <- MCTokens
  MaxInputTokens = 1
  MaxObservations = 2
  MaxCrashes = 1
  MaxFaults = 1
INVARIANTS SpendOnce ProofIsEvidence NoCallReportIsTrue
PROPERTY EveryCommandEnds
CHECK_DEADLOCK FALSE
