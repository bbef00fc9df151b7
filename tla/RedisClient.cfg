SPECIFICATION Spec
CONSTANTS
  MaxReconnect = 2
  MaxCommands = 3
  MaxDrops = 6
INVARIANTS AnsweredOnce
PROPERTIES EveryGetAnswered ComesBackOrGivesUp
CHECK_DEADLOCK FALSE
