SPECIFICATION Spec
CONSTANTS
  None = None
  Refused = Refused
  Tasks = {t1, t2}
  MaxVersion = 3
  MaxCommit = 3
SYMMETRY Symmetry
INVARIANTS LaneFollowsManifest
CHECK_DEADLOCK FALSE
