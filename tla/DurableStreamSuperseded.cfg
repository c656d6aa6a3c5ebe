CONSTANTS
  MaxSize = 1
  CwndSize = 1
  MaxPacketSize = 1
  StreamIds = {1, 2}
  NoStream = 0
  RwndSizes = {0, 1}
  MaxTotal = 2
  Window = 1
  MaxConns = 2
  MaxCrashes = 0
SPECIFICATION Spec
INVARIANTS SupersededIsSilent
CHECK_DEADLOCK FALSE
