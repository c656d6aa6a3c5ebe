CONSTANTS
  x = x
  y = y
  Sessions = {x, y}
  NoSession = NoSession
  SeqNums = {0, 1, 2, 3}
  Restarts = {2}
  Cap = 3
  Timeout = 2
  MaxArrivals = 4
SPECIFICATION FairSpec
INVARIANTS NeverBlocks NothingLost KeepsOrder
PROPERTY HeldItemsGoOut
CHECK_DEADLOCK FALSE
