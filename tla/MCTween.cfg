SPECIFICATION Spec
CONSTANTS
  StepCounts = {0, 1, 3}
  MaxCalls = 4
INVARIANTS NeverBeyondUnderWay CompletesOnce
CHECK_DEADLOCK FALSE
