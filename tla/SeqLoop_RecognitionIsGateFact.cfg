CONSTANTS
  NumUnits = 2
  Deps <- MCDeps
  NumSigs = 2
  Digests = {1}
  MaxIters = 4
  ReplanRetries = 1
  DecompRetries = 1
  RenameBound = 1
  FixationEscalate = 2
  MaxTokens = 12
  MaxRuns = 1
  MaxFaults = 0
SPECIFICATION Spec
CHECK_DEADLOCK FALSE
INVARIANT RecognitionIsGateFact
