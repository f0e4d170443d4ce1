CONSTANTS
  NumUnits = 4
  Deps <- MCDeps
  Scope <- MCScope
  MaxParallel = 1
  Burst = 2
  MaxIters = 4
  UnitRetries = 1
  OrAlternatives = 1
  AttemptBudget = 2
  TokenBudget = TRUE
  MaxRefFaults = 1
SPECIFICATION Spec
INVARIANTS
  TypeOK
  BurstIsDisjoint
  InProgressIsInFlight
  DoneIsOnMain
  DependenciesInBase
  DispatchesAreBounded
CHECK_DEADLOCK FALSE
PROPERTY Ends
