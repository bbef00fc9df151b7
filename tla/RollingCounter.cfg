SPECIFICATION Spec
CONSTANTS
  MaxTick = 5
  Window = 2
  Amounts = {1, 2}
  MaxTotal = 2
  StepBacks = 1
INVARIANTS SumExact
CHECK_DEADLOCK FALSE
