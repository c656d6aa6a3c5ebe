SPECIFICATION Spec
CONSTANTS
  Calls = {}
  Streams = {s1}
  Commands = {}
  NoId = NoId
  OutputChSize = 1
  InputChSize = 1
  CtxDoneChSize = 1
  RespChSize = 1
  MaxResponses = 3
  MayCancel = TRUE
  MayClose = FALSE
INVARIANT OutputClosesWithInput
CHECK_DEADLOCK FALSE
