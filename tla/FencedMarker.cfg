SPECIFICATION Spec
CONSTANTS
  None = None
  Refused = Refused
  Pending = Pending
INVARIANT FencedMarkerIgnored
CHECK_DEADLOCK FALSE
