SPECIFICATION Spec
CONSTANTS
  None = None
  Refused = Refused
  Pending = Pending
INVARIANTS MilestonesOpenInOrder FixIsVerified HeaderIsUnambiguous NothingUnowned
CHECK_DEADLOCK FALSE
