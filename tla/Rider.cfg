SPECIFICATION Spec
CONSTANTS
  Plugins <- MCPlugins
  Gates <- MCGates
  MaxData = 2
  MaxCalls = 2
INVARIANTS IterationRespected BodyWhole AnswerFindsHandler
PROPERTIES MessageMovesOn
CHECK_DEADLOCK FALSE
