CONSTANTS
  NumUnits = 2
  Deps <- MCDeps
  NumSigs = 2
  Digests = {1}
  MaxIters = 3
  ReplanRetries = 1
  DecompRetries = 1
  RenameBound = 1
  FixationEscalate = 2
  MaxTokens = 2
  MaxRuns = 2
  MaxFaults = 1
SPECIFICATION Spec
CHECK_DEADLOCK FALSE
INVARIANT ReplanAccountedOnce
