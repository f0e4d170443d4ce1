CONSTANTS
  d = d
  w = w
  Thread = {d, w}
  Director = d
  RunCap = 1
  MaxLost = 2
SPECIFICATION SidecarSpec
INVARIANT NeverReadInPart
CHECK_DEADLOCK FALSE
