------------------------------- MODULE MCWshRpc -------------------------------
(* Model-checking instance of WshRpc.                                        *)
EXTENDS WshRpc, TLC
=============================================================================
