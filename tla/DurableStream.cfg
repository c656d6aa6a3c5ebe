CONSTANTS
  MaxSize = 1
  CwndSize = 1
  MaxPacketSize = 1
  StreamIds = {1, 2}
  NoStream = 0
  RwndSizes = {0, 1}
  MaxTotal = 2
  Window = 1
  MaxConns = 2
  MaxCrashes = 1
SPECIFICATION Spec
INVARIANTS FileIsStream LoopFollowsFile EofMeansWhole Corked
CHECK_DEADLOCK FALSE
