CONSTANTS
  NumUnits = 2
  Deps <- ApartDeps
  Scope <- ApartScope
  MaxParallel = 2
  Burst = 0
  MaxIters = 9
  UnitRetries = 0
  OrAlternatives = 2
  AttemptBudget = 9
  TokenBudget = FALSE
  MaxRefFaults = 0
SPECIFICATION Spec
PROPERTY UnmergeGoesBack
CHECK_DEADLOCK FALSE
