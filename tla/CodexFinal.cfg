SPECIFICATION Spec
CONSTANTS
  None = None
  Pending = Pending
  Budget = 4
  MaxUsageInt = 6
INVARIANT ObservedMessageIsFinal
CHECK_DEADLOCK FALSE
