SPECIFICATION Spec
CONSTANTS
  Streams = {s1}
  MaxPieces = 3
  MaxRequest = 2
  MaxStatic = 2
INVARIANTS CallbackOwedWhileHeld OneWholeResponse StoredOriginals
