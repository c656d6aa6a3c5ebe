----------------------------- MODULE StreamReader -----------------------------
(* The receiving end of a stream (pkg/streamclient/streamreader.go).  Every  *)
(* method is one critical section of r.lock, so each is an operator from the *)
(* reader it finds to the reader it leaves.  A reader is a record with the   *)
(* fields of the Go struct and acks, the acknowledgements it has queued in   *)
(* its broker's send queue (SendAck is an Enqueue and never blocks).         *)
(*                                                                           *)
(* A packet is [id, seq, data, end], with end "none", "eof" or "error".      *)
(* base64 is left out: a sender's data always decodes.                       *)
EXTENDS Integers, Sequences, FiniteSets

NewReader(id, readWindow, startSeq) ==
  [id |-> id, readWindow |-> readWindow, nextSeq |-> startSeq, buffer |-> << >>,
   eof |-> FALSE, err |-> "none", closed |-> FALSE, lastRwndSent |-> readWindow,
   oooPackets |-> {}, acks |-> << >>]

Rwnd(r) == IF r.readWindow > Len(r.buffer) THEN r.readWindow - Len(r.buffer) ELSE 0

SendAck(r, fin, cancel) ==
  [r EXCEPT !.acks = Append(@, [id |-> r.id, seq |-> r.nextSeq, rwnd |-> Rwnd(r),
                                fin |-> fin, cancel |-> cancel]),
            !.lastRwndSent = Rwnd(r)]

RecvDataOrdered(r, p) ==
  [r EXCEPT !.buffer = @ \o p.data, !.nextSeq = @ + Len(p.data),
            !.eof = @ \/ p.end = "eof"]

AddOOOPacket_DataOnly(r, p) ==
  IF p.data = << >> THEN r ELSE [r EXCEPT !.oooPackets = @ \cup {p}]
AddOOOPacket(r, p) ==
  IF \E q \in r.oooPackets : q.seq = p.seq
  THEN r ELSE [r EXCEPT !.oooPackets = @ \cup {p}]

\* One round of the loop over the sorted out-of-order packets.  It stops at
\* the first one that is not next, also when that one is old.
OOORound_KeepsEarly(r) ==
  LET first == CHOOSE p \in r.oooPackets : \A q \in r.oooPackets : p.seq <= q.seq
  IN  IF r.oooPackets = {} THEN r
      ELSE RecvDataOrdered([r EXCEPT !.oooPackets = @ \ {first}], first)
OOORound(r) ==
  LET first == CHOOSE p \in r.oooPackets : \A q \in r.oooPackets : p.seq <= q.seq
  IN  IF r.oooPackets = {} THEN r
      ELSE IF r.eof THEN [r EXCEPT !.oooPackets = {}]
      ELSE IF first.seq # r.nextSeq THEN r
      ELSE RecvDataOrdered([r EXCEPT !.oooPackets = @ \ {first}], first)

ProcessOOOPackets(r) ==
  LET after[n \in 0 .. Cardinality(r.oooPackets)] ==
        IF n = 0 THEN r ELSE OOORound(after[n - 1])
  IN  after[Cardinality(r.oooPackets)]

Receiving(r) == ~r.closed /\ ~r.eof /\ r.err = "none"

\* A packet that was received before; an error needs no valid seq.
Old_Never(r, p) == FALSE
Old(r, p) == p.end # "error" /\ p.seq < r.nextSeq

RecvData(r, p) ==
  IF ~Receiving(r) \/ p.id # r.id \/ Old(r, p) THEN r
  ELSE IF p.end = "error" THEN SendAck([r EXCEPT !.err = "stream"], TRUE, FALSE)
  ELSE IF p.seq > r.nextSeq THEN AddOOOPacket(r, p)
  ELSE LET s == ProcessOOOPackets(RecvDataOrdered(r, p))
       IN  SendAck(s, s.eof, FALSE)

\* What a Read that does not wait returns: bytes, or how the stream ended.
CanRead(r) == r.buffer # << >> \/ ~Receiving(r)
ReadEnds_EofFirst(r) ==
  IF r.closed THEN "closed" ELSE IF r.err # "none" THEN "error"
  ELSE IF r.eof THEN "eof" ELSE "none"
ReadEnds(r) ==
  IF r.closed THEN "closed" ELSE IF r.err # "none" THEN "error"
  ELSE IF r.buffer = << >> THEN "eof" ELSE "none"

\* Whether a Read is worth an acknowledgement.
Announces(r) ==
  r.buffer = << >> \/ Rwnd(r) - r.lastRwndSent >= r.readWindow \div 5

\* A Read of n bytes that ends with none of the above.
Read(r, n) ==
  LET s == [r EXCEPT !.buffer = SubSeq(@, n + 1, Len(@))]
  IN  IF Announces(s) THEN SendAck(s, FALSE, FALSE) ELSE s

UpdateNextSeq(r, newSeq) == [r EXCEPT !.nextSeq = newSeq]

CloseReader(r) ==
  IF r.closed THEN r
  ELSE SendAck([r EXCEPT !.closed = TRUE, !.err = IF @ = "none" THEN "closed" ELSE @],
               FALSE, TRUE)
=============================================================================
