CONSTANTS
  NumUnits = 2
  Deps <- ApartDeps
  Scope <- OwnScope
  MaxParallel = 2
  Burst = 0
  MaxIters = 9
  UnitRetries = 1
  OrAlternatives = 1
  AttemptBudget = 1
  TokenBudget = FALSE
  MaxRefFaults = 0
SPECIFICATION Spec
INVARIANT CeilingHolds
CHECK_DEADLOCK FALSE
