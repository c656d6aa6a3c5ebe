SPECIFICATION FairSpec
CONSTANTS
  Calls = {}
  Streams = {s1}
  Commands = {m1}
  NoId = NoId
  OutputChSize = 1
  InputChSize = 1
  CtxDoneChSize = 1
  RespChSize = 1
  MaxResponses = 3
  MayCancel = TRUE
  MayClose = TRUE
INVARIANTS TimeoutIsOwn EndIsWhole ReturnedIsForgotten
 
CHECK_DEADLOCK FALSE
