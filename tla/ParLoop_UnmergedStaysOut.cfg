CONSTANTS
  NumUnits = 3
  Deps <- ForkDeps
  Scope <- SharedScope
  MaxParallel = 2
  Burst = 0
  MaxIters = 4
  UnitRetries = 0
  OrAlternatives = 0
  AttemptBudget = 9
  TokenBudget = FALSE
  MaxRefFaults = 0
SPECIFICATION Spec
INVARIANT UnmergedStaysOut
CHECK_DEADLOCK FALSE
