SPECIFICATION Spec
CONSTANTS
  MaxRequests = 2
  MaxHeartbeats = 2
INVARIANTS AnswersOwnRequest ReleasedSettled
PROPERTIES SentRequestEnds
CHECK_DEADLOCK FALSE
