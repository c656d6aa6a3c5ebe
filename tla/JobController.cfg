CONSTANTS
  Conns = {c1}
  Home = c1
  MaxEvents = 3
  MaxPanics = 1
  j1 = j1
  j2 = j2
  Jobs = {j1, j2}
  Blocks = {b1}
  None = None
  Scenes <- MCScenes
SPECIFICATION JobFairSpec
INVARIANTS LinksAgree EndIsNoticed NeverForgotten
PROPERTIES RunningIsKept Settles
CHECK_DEADLOCK FALSE
