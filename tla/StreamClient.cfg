CONSTANTS
  MaxSize = 3
  CwndSize = 2
  MaxPacketSize = 2
  s1 = s1
  s2 = s2
  StreamIds = {s1, s2}
  NoStream = NoStream
  RwndSizes = {0, 3}
  MaxTotal = 4
SPECIFICATION FairSpec
INVARIANTS BufferOK NoLostWakeup OneRun TerminalIsLast
PROPERTIES ActsAsDropOldestQueue NothingDroppedWhileConnected SenderStops BlockedWriterResumes
CHECK_DEADLOCK FALSE
