SPECIFICATION Spec
CONSTANTS
  None = None
  Pending = Pending
  Budget = 4
  MaxUsageInt = 6
INVARIANTS OneAttempt FailoverKeepsTheWork DiagnosticIsSound BrainContextIsSound PaidIsLastResort
CHECK_DEADLOCK FALSE
