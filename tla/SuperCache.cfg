SPECIFICATION Spec
CONSTANTS
  s1 = s1
  s2 = s2
  k1 = k1
  Streams = {s1, s2}
  Keys = {k1}
  Kinds <- MCKinds
  Responses <- MCResponses
  TTL <- MCTTL
  LowLevelFill = TRUE
  LargestBody = 1
  MaxTime = 1
INVARIANTS CallbackOnlyWhileHeld StoredSound StalenessBounded
PROPERTIES HeldStreamResumes
