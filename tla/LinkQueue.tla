------------------------------ MODULE LinkQueue ------------------------------
(* What a router promises about each of its links: what it hands to a link    *)
(* stands in one queue, of any length, and reaches the other end in the order *)
(* it was handed over. Only of a link that is gone may it forget anything,    *)
(* and then what came last.                                                   *)
EXTENDS Naturals, Sequences

CONSTANTS Links, Message

VARIABLES queue,            \* of each link, what is on its way, oldest first
          gone              \* the links that are gone

vars == <<queue, gone>>

Init == queue = [l \in Links |-> << >>] /\ gone = {}

Put(l, m) == queue' = [queue EXCEPT ![l] = Append(@, m)] /\ UNCHANGED gone

Take(l) ==
  /\ queue[l] # << >>
  /\ queue' = [queue EXCEPT ![l] = Tail(@)] /\ UNCHANGED gone

Leave(l) == gone' = gone \cup {l} /\ UNCHANGED queue

Forget ==
  /\ queue' \in [Links -> Seq(Message)]
  /\ \A l \in Links : \E n \in 0 .. Len(queue[l]) :
       /\ queue'[l] = SubSeq(queue[l], 1, n)
       /\ l \in gone \/ n = Len(queue[l])
  /\ UNCHANGED gone

Next ==
  \/ \E l \in Links : \E m \in Message : Put(l, m)
  \/ \E l \in Links : Take(l)
  \/ \E l \in Links : Leave(l)
  \/ Forget

Spec == Init /\ [][Next]_vars
=============================================================================
