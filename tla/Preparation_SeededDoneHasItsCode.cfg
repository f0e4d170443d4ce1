CONSTANTS
  u1 = u1
  u2 = u2
  Unit = {u1, u2}
  Place = {"elsewhere"}
  SynthRetries = 1
SPECIFICATION PreparationSpec
INVARIANT SeededDoneHasItsCode
CHECK_DEADLOCK FALSE
