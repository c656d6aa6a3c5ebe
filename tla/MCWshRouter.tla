------------------------------ MODULE MCWshRouter ------------------------------
(* Model-checking instance of WshRouter: two connections that want the same   *)
(* route, or each its own; and, with a request, one that has the route        *)
(* another comes for.                                                         *)
EXTENDS WshRouter, TLC

CONSTANTS l1, l2, r1, r2, q1

Same == l1 :> r1 @@ l2 :> r1
Each == l1 :> r1 @@ l2 :> r2

TwoScenes == {[wants |-> w, here |-> {}, asks |-> {}] : w \in {Same, Each}}
             \cup {[wants |-> Same, here |-> {l1}, asks |-> {q1}]}
=============================================================================
