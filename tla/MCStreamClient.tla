--------------------------- MODULE MCStreamClient ---------------------------
(* Model-checking instance of StreamClient.                                  *)
EXTENDS StreamClient, TLC

CONSTANTS s1, s2
=============================================================================
