------------------------------ MODULE StreamPipe ------------------------------
(* A writer and a reader of one stream, joined by their brokers              *)
(* (pkg/streamclient/streambroker.go) and a network that loses nothing but   *)
(* delivers packets and acknowledgements in any order, and packets more than *)
(* once: the ends have code for each.                                        *)
EXTENDS StreamReader

CONSTANTS Windows,            \* what the read window may be, StreamMeta.RWnd
          StreamId,
          MaxBytes,           \* bound: bytes written
          MaxPiece,           \* bound: bytes of one Write or Read
          MaxLoad             \* bound: the read window and the packets delivered once more

ASSUME PipeAssumption ==
  /\ Windows \subseteq Nat \ {0} /\ MaxBytes \in Nat /\ MaxPiece \in Nat \ {0}
  /\ MaxLoad \in Nat

W == INSTANCE StreamWriter

VARIABLES w, r,               \* the two ends
          writing,            \* a call of Write is in progress
          packets, acks,      \* in the network
          repeats,            \* how often a packet delivered stayed in it
          closedWith,         \* how the writer was closed, "open" if it was not
          readerKnown, writerKnown,  \* registered with their brokers
          got,                \* bytes read
          ended               \* how the stream ended for the consumer

vars == <<w, r, writing, packets, acks, repeats, closedWith, readerKnown,
          writerKnown, got, ended>>

Init ==
  /\ \E n \in Windows : w = W!NewWriter(StreamId, n) /\ r = NewReader(StreamId, n, 0)
  /\ writing = FALSE
  /\ packets = {} /\ acks = {} /\ repeats = 0 /\ closedWith = "open"
  /\ readerKnown = TRUE /\ writerKnown = TRUE
  /\ got = << >> /\ ended = "none"

\* w becomes v, whose packets go out.
WriterStep(v) ==
  /\ w' = [v EXCEPT !.out = {}]
  /\ packets' = packets \cup v.out

\* The bytes written so far, all of which went out or are in the buffer.
Written == w.nextSeq + Len(w.buffer)

Write(n) ==
  LET v == W!TrySendData([w EXCEPT !.buffer =
                            [i \in 1 .. n |-> w.nextSeq + i - 1]])
  IN  /\ ~writing /\ ~w.closed /\ w.err = "none"
      /\ Written + n <= MaxBytes
      /\ WriterStep(v)
      /\ writing' = v.waiting
      /\ UNCHANGED <<r, acks, repeats, closedWith, readerKnown, writerKnown, got,
                     ended>>

\* A Write that waited goes on, or gives up because the stream has ended.
ResumeWrite ==
  LET v == IF w.err # "none" THEN w ELSE W!TrySendData(w)
  IN  /\ writing /\ ~w.waiting
      /\ WriterStep(v)
      /\ writing' = v.waiting
      /\ UNCHANGED <<r, acks, repeats, closedWith, readerKnown, writerKnown, got,
                     ended>>

CloseWriter(end) ==
  /\ ~w.closed
  /\ WriterStep(W!CloseWithError(w, end))
  /\ closedWith' = end
  /\ UNCHANGED <<r, writing, acks, repeats, readerKnown, writerKnown, got, ended>>

\* An acknowledgement after which the brokers forget the reader and the writer.
Final_NoWindow(ack) == ack.fin \/ ack.cancel \/ ack.rwnd = 0
Final(ack) == ack.fin \/ ack.cancel

\* processRecvData.  For a reader that is gone it sends a cancel, at most one
\* a second.
NotFound(p) == [id |-> p.id, seq |-> p.seq, rwnd |-> 0, fin |-> FALSE, cancel |-> TRUE]
DeliverData(p) ==
  /\ IF readerKnown THEN r' = RecvData(r, p)
     ELSE r' \in {r, [r EXCEPT !.acks = Append(@, NotFound(p))]}
  /\ \/ packets' = packets \ {p} /\ UNCHANGED repeats
     \/ r.readWindow + repeats < MaxLoad /\ repeats' = repeats + 1 /\ UNCHANGED packets
  /\ UNCHANGED <<w, writing, acks, closedWith, readerKnown, writerKnown, got, ended>>

\* processSendAck: the writer's route stays known.
SendNextAck ==
  LET ack == Head(r.acks)
  IN  /\ r.acks # << >>
      /\ r' = [r EXCEPT !.acks = Tail(@)]
      /\ acks' = acks \cup {ack}
      /\ readerKnown' = (readerKnown /\ ~Final(ack))
      /\ UNCHANGED <<w, writing, packets, repeats, closedWith, writerKnown, got, ended>>

\* processRecvAck
DeliverAck(ack) ==
  /\ w' = IF writerKnown THEN W!RecvAck(w, ack) ELSE w
  /\ writerKnown' = (writerKnown /\ ~Final(ack))
  /\ acks' = acks \ {ack}
  /\ UNCHANGED <<r, writing, packets, repeats, closedWith, readerKnown, got, ended>>

Deliver == (\E p \in packets : DeliverData(p)) \/ (\E ack \in acks : DeliverAck(ack))

ReadBytes(n) ==
  /\ ended = "none" /\ ReadEnds(r) = "none"
  /\ n \in 1 .. Len(r.buffer)
  /\ r' = Read(r, n)
  /\ got' = got \o SubSeq(r.buffer, 1, n)
  /\ UNCHANGED <<w, writing, packets, acks, repeats, closedWith, readerKnown,
                 writerKnown, ended>>

ReadEnd ==
  /\ ended = "none" /\ CanRead(r) /\ ReadEnds(r) # "none"
  /\ ended' = ReadEnds(r)
  /\ UNCHANGED <<w, r, writing, packets, acks, repeats, closedWith, readerKnown,
                 writerKnown, got>>

Consumer == ReadEnd \/ \E n \in 1 .. MaxPiece : ReadBytes(n)

Cancel ==
  /\ ~r.closed
  /\ r' = CloseReader(r)
  /\ UNCHANGED <<w, writing, packets, acks, repeats, closedWith, readerKnown,
                 writerKnown, got, ended>>

Next == \/ \E n \in 1 .. MaxPiece : Write(n)
        \/ \E end \in {"eof", "error"} : CloseWriter(end)
        \/ ResumeWrite \/ Deliver \/ SendNextAck \/ Consumer \/ Cancel

Spec == Init /\ [][Next]_vars

(* The network delivers what it was given, the send queue is worked off, a   *)
(* woken Write runs, and the consumer reads whenever there is something.     *)
FairSpec == /\ Spec /\ WF_vars(Deliver) /\ WF_vars(SendNextAck)
            /\ WF_vars(ResumeWrite) /\ WF_vars(Consumer)
-----------------------------------------------------------------------------
Packets == [id : {StreamId}, seq : Nat, data : Seq(Nat), end : {"none", "eof", "error"}]
Acks == [id : {StreamId}, seq : Nat, rwnd : 0 .. r.readWindow, fin : BOOLEAN, cancel : BOOLEAN]

TypeOK ==
  /\ w.readWindow \in 0 .. r.readWindow /\ w.sentNotAcked \in 0 .. r.readWindow
  /\ w.buffer \in Seq(Nat) /\ w.nextSeq \in Nat /\ w.out = {}
  /\ r.buffer \in Seq(Nat) /\ r.nextSeq \in Nat /\ r.lastRwndSent \in 0 .. r.readWindow
  /\ r.oooPackets \subseteq Packets /\ r.acks \in Seq(Acks)
  /\ packets \subseteq Packets /\ acks \subseteq Acks
  /\ closedWith \in {"open", "eof", "error"}
  /\ writing \in BOOLEAN /\ readerKnown \in BOOLEAN /\ writerKnown \in BOOLEAN
  /\ got \in Seq(Nat) /\ ended \in {"none", "eof", "error", "closed"}

(* What is read is what was written, in order, whatever the network does     *)
(* with the packets (streamreader.go:48-130); never more than the window is  *)
(* received, waiting out of order or on its way, and not read; and nobody    *)
(* sees the end before everything that precedes it.                          *)
Stream == INSTANCE ByteStream WITH
  window <- r.readWindow,
  sentBytes <- w.nextSeq,
  readBytes <- got,
  writerEnd <- closedWith,
  readerEnd <- IF ended = "none" THEN "open" ELSE ended
IsByteStream == Stream!SSpec

(* A stream is reported cancelled to a Write only if its reader was closed:  *)
(* the cancel that answers late packets never reaches an open writer         *)
(* (streambroker.go:160-205).                                                *)
CancelsAreMeant == w.err = "canceled" => r.closed

(* A consumer that keeps reading never leaves a Write waiting: the window    *)
(* the reader reports opens it again (streamreader.go:171-184).              *)
WriteReturns == writing ~> ~writing

(* The writer learns what became of its stream, and the consumer sees it end. *)
EndIsSeen == w.closed ~> ended # "none" /\ (w.finAcked \/ w.canceled)

(* Only a Close that interrupts a Write may discard bytes, say the comments  *)
(* of the writer (streamwriter.go:170, 175).  The reader discards what it    *)
(* has received and acknowledged when an error comes (streamreader.go:61-66, *)
(* 161-163).                                                                 *)
ReceivedIsRead == ended = "error" /\ w.buffer = << >> => r.buffer = << >>
=============================================================================
