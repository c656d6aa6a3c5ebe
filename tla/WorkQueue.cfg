CONSTANTS
  WorkItems = {1, 2, 3}
  Waiters = {v, w}
SPECIFICATION FairWorkSpec
INVARIANTS InOrder
PROPERTY WaitReturnsAtLast
CHECK_DEADLOCK FALSE
