------------------------ MODULE MCQuickReorderQueue ------------------------
(* Model-checking instance of QuickReorderQueue.                             *)
EXTENDS QuickReorderQueue, TLC

CONSTANTS x, y
=============================================================================
