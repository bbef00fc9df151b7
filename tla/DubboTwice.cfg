SPECIFICATION Spec
CONSTANTS
  MaxRequests = 2
  MaxHeartbeats = 2
INVARIANT RespondsOnce
CHECK_DEADLOCK FALSE
