----------------------------- MODULE StreamWriter -----------------------------
(* The sending end of a stream (pkg/streamclient/streamwriter.go): operators *)
(* from the writer a critical section of w.lock finds to the one it leaves.  *)
(* The condition variable is the field waiting: "a Write waits and nobody    *)
(* has broadcast since".  out holds the packets the section sent.            *)
EXTENDS Integers, Sequences

NewWriter(id, readWindow) ==
  [id |-> id, readWindow |-> readWindow, nextSeq |-> 0, buffer |-> << >>,
   sentNotAcked |-> 0, maxAckedSeq |-> 0, maxAckedRwnd |-> 0, finAcked |-> FALSE,
   canceled |-> FALSE, err |-> "none", closed |-> FALSE, waiting |-> FALSE,
   out |-> {}]

Broadcast(w) == [w EXCEPT !.waiting = FALSE]

StaleAck_SeqOnly(w, ack) == ack.seq <= w.maxAckedSeq
StaleAck(w, ack) ==
  \/ ack.seq < w.maxAckedSeq
  \/ ack.seq = w.maxAckedSeq /\ ack.rwnd <= w.maxAckedRwnd

\* How many of the bytes in flight the ack covers.
NewlyAcked(w, ack) ==
  LET n == ack.seq - (w.nextSeq - w.sentNotAcked)
  IN  IF n < 0 THEN 0 ELSE IF n > w.sentNotAcked THEN w.sentNotAcked ELSE n

RecvAck(w, ack) ==
  IF ack.id # w.id THEN w
  ELSE IF ack.fin THEN [w EXCEPT !.finAcked = TRUE, !.maxAckedSeq = ack.seq]
  ELSE IF ack.cancel /\ ~w.canceled
  THEN IF w.closed THEN [w EXCEPT !.canceled = TRUE]
       ELSE Broadcast([w EXCEPT !.canceled = TRUE, !.err = "canceled"])
  ELSE IF StaleAck(w, ack) THEN w
  ELSE LET s == [w EXCEPT !.maxAckedSeq = ack.seq, !.maxAckedRwnd = ack.rwnd]
       IN  IF w.closed THEN s
           ELSE Broadcast([s EXCEPT !.sentNotAcked = @ - NewlyAcked(w, ack),
                                    !.readWindow = ack.rwnd])

AvailWindow_Unsent(w) == w.readWindow
AvailWindow(w) == w.readWindow - w.sentNotAcked

\* The loop of Write, for what the window lets out: it returns with the
\* buffer empty, or waits.
TrySendData(w) ==
  LET n == IF Len(w.buffer) < AvailWindow(w) THEN Len(w.buffer) ELSE AvailWindow(w)
  IN  IF w.buffer = << >> THEN w
      ELSE IF n <= 0 THEN [w EXCEPT !.waiting = TRUE]
      ELSE [w EXCEPT !.out = {[id |-> w.id, seq |-> w.nextSeq,
                               data |-> SubSeq(w.buffer, 1, n), end |-> "none"]},
                     !.buffer = SubSeq(@, n + 1, Len(@)),
                     !.nextSeq = @ + n, !.sentNotAcked = @ + n,
                     !.waiting = n < Len(w.buffer)]

CloseWithError(w, end) ==
  Broadcast([w EXCEPT !.closed = TRUE, !.err = IF @ = "none" THEN "closed" ELSE @,
                      !.out = {[id |-> w.id, seq |-> w.nextSeq, data |-> << >>,
                                end |-> end]}])
=============================================================================
