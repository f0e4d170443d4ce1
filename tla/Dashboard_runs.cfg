CONSTANTS
  r1 = r1
  r2 = r2
  d = d
  Req = {r1, r2}
  MaxId = 1
  MaxLaunch = 2
  MaxEvents = 2
  Thread = {d}
  Director = d
  RunCap = 1
  MaxLost = 1
SPECIFICATION Spec
INVARIANTS
  ManagerTypeOK
  ManagedIsReachable
  StatusIsTruth
  SidecarTypeOK
  NeverReadInPart
  IdleShowsNoCall
  TerminalStays
PROPERTIES
  StopEnds
  StreamCatchesUp
CHECK_DEADLOCK FALSE
