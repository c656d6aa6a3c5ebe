CONSTANTS
  Windows = {1, 2, 3}
  StreamId = StreamId
  MaxBytes = 3
  MaxPiece = 2
  MaxLoad = 2
SPECIFICATION FairSpec
INVARIANTS CancelsAreMeant
PROPERTIES IsByteStream WriteReturns EndIsSeen
CHECK_DEADLOCK FALSE
