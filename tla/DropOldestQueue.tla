--------------------------- MODULE DropOldestQueue ---------------------------
(* What the job manager's output buffer promises, without a ring: a queue of *)
(* bytes that either refuses input beyond its limit (blocking) or makes room *)
(* by forgetting the oldest bytes.                                           *)
EXTENDS Integers, Sequences

CONSTANT MaxChunk           \* most bytes offered in one write

VARIABLES queue,            \* the bytes held, oldest first
          limit,            \* most bytes it may hold
          blocking,         \* refuse input rather than forget bytes
          next              \* the number of the next byte to arrive

vars == <<queue, limit, blocking, next>>

Newest(q, n) == IF Len(q) <= n THEN q ELSE SubSeq(q, Len(q) - n + 1, Len(q))

Fitting(n) ==
  IF ~blocking THEN n
  ELSE IF Len(queue) >= limit THEN 0
  ELSE IF n < limit - Len(queue) THEN n ELSE limit - Len(queue)

Init == queue = << >> /\ next = 0 /\ blocking = TRUE /\ limit \in Nat

Put(n) ==
  LET taken  == Fitting(n)
      longer == queue \o [i \in 1 .. taken |-> next + i - 1]
  IN  /\ queue' = IF blocking THEN longer ELSE Newest(longer, limit)
      /\ next'  = next + taken
      /\ UNCHANGED <<limit, blocking>>

(* The consumer is done with the n oldest bytes and, with the same call,     *)
(* sets what the queue may hold and whether it blocks.                       *)
Release(n) ==
  LET left == SubSeq(queue, n + 1, Len(queue))
  IN  /\ limit' \in Nat
      /\ blocking' \in BOOLEAN
      /\ queue' = IF blocking' THEN left ELSE Newest(left, limit')
      /\ UNCHANGED next

Next == \/ \E n \in 1 .. MaxChunk : Put(n)
        \/ \E n \in 0 .. Len(queue) : Release(n)

Spec == Init /\ [][Next]_vars
=============================================================================
