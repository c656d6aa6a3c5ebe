CONSTANTS
  l1 = l1
  l2 = l2
  r1 = r1
  r2 = r2
  Leaves = {l1, l2}
  Up = Up
  Routes = {r1, r2}
  None = None
  Scenes <- TwoScenes
  Requests = {q1}
  q1 = q1
  ChanSize = 1
  InputSize = 1
  MaxAnswers = 2
SPECIFICATION FairSpec
INVARIANT AnswersArrive
PROPERTIES IsLinkQueue BacklogDrains HolderKeeps BoundIsKnownUpstream
CHECK_DEADLOCK FALSE
