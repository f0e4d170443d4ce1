CONSTANTS
  u1 = u1
  u2 = u2
  Unit = {u1, u2}
  Place = {"work"}
  SynthRetries = 1
  MaxRuns = 2
  StallRetries = 1
  MaxLines = 2
  MaxTurns = 2
  MaxUnits = 2
  MaxCalls = 2
  Manifests = 1
SPECIFICATION Spec
INVARIANTS
  PreparationTypeOK
  ReuseOnlyVerified
  ContractIsCarried
  NothingUnapproved
  CodexTypeOK
  AnswerIsOfItsAttempt
  OneCodexAtATime
  LocalTypeOK
  ReportedSpend
  GreenIsGreenAtTheGate
  GateTypeOK
  NoFakePass
  HollowHarnessIsCaught
  FailedInstallIsRetried
PROPERTIES
  BarIsSettled
  CallEnds
CHECK_DEADLOCK FALSE
