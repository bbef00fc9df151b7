CONSTANTS
  MaxPieces = 3
  BodyLimit <- MCBodyLimit
SPECIFICATION Spec
INVARIANTS
  RequestInspected
  InterventionReplaces
  PhasesOnceInOrder
PROPERTIES
  HeldMovesOn
CHECK_DEADLOCK FALSE
