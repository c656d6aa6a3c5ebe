---------------------------- MODULE StreamClient ----------------------------
(* The stream manager under the most general client that keeps to the        *)
(* protocol: it connects with a fresh stream id and a position no further    *)
(* than what it has been sent, acknowledges positions it has reached with    *)
(* whatever window it likes, in any order and as often as it likes, changes  *)
(* its window, and goes away at any time.                                    *)
EXTENDS StreamManager

VARIABLES sent,         \* packets given to SendData on the current stream
          positions,    \* positions the client of this stream has been at
          startSeq,     \* what the last ClientConnected returned
          reached,      \* the furthest position any client has been at
          usedIds       \* stream ids already used

envVars == <<sent, positions, startSeq, reached, usedIds>>
vars == <<smVars, envVars>>

End(p) == p.seq + Len(p.data)

Init == /\ SMInit
        /\ sent = << >> /\ positions = {} /\ startSeq = 0 /\ reached = 0
        /\ usedIds = {}

Connect ==
  \E id \in StreamIds \ usedIds, rwnd \in RwndSizes, seq \in 0 .. reached :
    /\ ClientConnected(id, rwnd, seq)
    /\ usedIds' = usedIds \cup {id}
    /\ UNCHANGED <<sent, positions, startSeq, reached>>

Opened ==
  /\ OpenClient
  /\ sent' = << >>
  /\ positions' = {connecting.clientSeq, StartSeq}
  /\ startSeq' = StartSeq
  /\ UNCHANGED <<reached, usedIds>>

Send ==
  /\ SendData
  /\ IF packet.id = streamId
     THEN /\ sent' = Append(sent, packet)
          /\ positions' = positions \cup {End(packet)}
     ELSE UNCHANGED <<sent, positions>>
  /\ reached' = IF End(packet) > reached THEN End(packet) ELSE reached
  /\ UNCHANGED <<startSeq, usedIds>>

Acknowledge ==
  /\ \E seq \in positions, rwnd \in RwndSizes :
       RecvAck([id |-> streamId, seq |-> seq, rwnd |-> rwnd, fin |-> FALSE])
  /\ UNCHANGED envVars

AcknowledgeEnd ==
  /\ \E i \in DOMAIN sent : sent[i].end # "none"
  /\ RecvAck([id |-> streamId, seq |-> 0, rwnd |-> 0, fin |-> TRUE])
  /\ UNCHANGED envVars

ClientStep == \/ Connect \/ Acknowledge \/ AcknowledgeEnd
              \/ /\ \/ ClientDisconnected
                    \/ \E rwnd \in RwndSizes : SetRwndSize(rwnd)
                    \/ Close
                 /\ UNCHANGED envVars

ConnectStep == Opened \/ ((ConsumeClientSeq \/ RereadHead) /\ UNCHANGED envVars)

ReadStep == (AttachReader \/ ReadLoop) /\ UNCHANGED envVars

SendStep == \/ Send
            \/ /\ SenderReturns \/ SenderWaits \/ PrepareData \/ PrepareTerminal
               /\ UNCHANGED envVars

Next == ReadStep \/ SendStep \/ ConnectStep \/ ClientStep

(* The goroutines run: the sender loop, the read loop once the PTY has given *)
(* it something, and a ClientConnected that has begun.  A client need not do *)
(* anything.                                                                 *)
ReadLoopRuns == (ReadLoop /\ readPc # "reading") /\ UNCHANGED envVars

Fairness == WF_vars(SendStep) /\ WF_vars(ConnectStep) /\ WF_vars(ReadLoopRuns)

Spec == Init /\ [][Next]_vars
FairSpec == Spec /\ Fairness
-----------------------------------------------------------------------------
Packets == [id : StreamIds \cup {NoStream}, seq : Nat, data : Seq(Nat),
            end : {"none", "eof", "error"}]

Connects == [step : {"none", "consuming", "rereading", "opening"},
             id : StreamIds \cup {NoStream}, rwnd : Nat, clientSeq : Nat,
             head : Nat]

ClientTypes ==
  /\ rwndSize \in Nat /\ connected \in BOOLEAN
  /\ streamId \in StreamIds \cup {NoStream}
  /\ sentNotAcked \in Nat /\ terminalEventSent \in BOOLEAN
  /\ maxAckedSeq \in Nat /\ maxAckedRwnd \in Nat
  /\ terminalEvent \in {"none", "eof", "error"} /\ eofPos \in Nat \cup {-1}
  /\ terminalEventAcked \in BOOLEAN /\ closed \in BOOLEAN
  /\ connecting \in Connects

LoopTypes ==
  /\ readPc \in {"detached", "checking", "reading", "writing", "signalling",
                 "parked", "ending", "returned"}
  /\ chunk \in Seq(Nat) /\ ptyEnd \in {"open", "eof", "error"}
  /\ sendPc \in {"preparing", "waiting", "sending", "returned"}
  /\ packet \in Packets

HistoryTypes ==
  /\ sent \in Seq(Packets) /\ positions \subseteq Nat
  /\ startSeq \in Nat /\ reached \in Nat /\ usedIds \subseteq StreamIds

TypeOK == cb \in CirBufs /\ ClientTypes /\ LoopTypes /\ HistoryTypes

(* The ring holds the newest bytes in order, and only a full synchronous     *)
(* buffer has a blocked writer (cirbuf.go:58-62, 78-97).                     *)
BufferOK == CirBufOK(cb)

(* The mode of the buffer follows the connection: a connected client has a   *)
(* synchronous buffer, within whose contents everything in flight lies, and  *)
(* once a client has come and gone the PTY is never blocked                  *)
(* (streammanager.go:137, 186).                                              *)
ModeFollowsClient ==
  /\ connected => cb.syncMode /\ sentNotAcked <= cb.count
  /\ ~connected /\ streamId # NoStream => ~cb.syncMode

(* No lost wake-up: a sender loop asleep on drainCond has nothing to do,     *)
(* unless the read loop has just written and is about to signal              *)
(* (streammanager.go:308-318, 359-407).                                      *)
SomethingToDo == Finished \/ (connected /\ (DataToSend \/ TerminalToSend))
NoLostWakeup ==
  sendPc = "waiting" /\ readPc # "signalling" => ~SomethingToDo

(* What goes out on one stream is one run of the PTY's bytes: packets follow *)
(* each other without a hole or a repeat, and each carries the bytes its seq *)
(* says it carries, however acks, writes and window changes interleave.      *)
OneRun ==
  \A i \in DOMAIN sent :
    /\ \A k \in DOMAIN sent[i].data : sent[i].data[k] = sent[i].seq + k - 1
    /\ i > 1 => sent[i].seq = End(sent[i - 1])

(* The terminal packet is the last of its stream, at the end of everything   *)
(* the PTY wrote, and is sent when nothing is left unacknowledged            *)
(* (streammanager.go:374-380).                                               *)
TerminalIsLast ==
  \A i \in DOMAIN sent :
    sent[i].end # "none" =>
      /\ i = Len(sent) /\ sent[i].data = << >>
      /\ sent[i].seq = cb.totalSize /\ sent[i].seq = eofPos
      /\ connected => cb.count = 0

(* What has been sent and not acknowledged is counted right - the next       *)
(* packet starts where the last one ended - and stays within the congestion  *)
(* window (streammanager.go:382-416).                                        *)
InFlightCounted ==
  connected => /\ sentNotAcked <= CwndSize
               /\ sent # << >> /\ sendPc # "sending" =>
                    End(sent[Len(sent)]) = HeadPos(cb) + sentNotAcked

(* While a client is connected no byte leaves the buffer unless that client  *)
(* acknowledged it: the head moves only to a position the client reported.   *)
NothingDroppedWhileConnected ==
  [][connected /\ connected' => \/ HeadPos(cb') = HeadPos(cb)
                                \/ HeadPos(cb') \in positions]_vars

(* A stream starts where ClientConnected said it would: that is where the    *)
(* client puts its reader, and packets further on are out of order for it.   *)
(* The code does not keep this: it reads the head (streammanager.go:113)     *)
(* while the buffer still forgets old bytes, and makes the buffer            *)
(* synchronous only later (streammanager.go:137).                            *)
StreamStartsAtStartSeq == sent # << >> => sent[1].seq = startSeq

(* Under all of this the ring is a drop-oldest queue: no step of either loop *)
(* or of a handler loses, repeats or reorders a byte of it, except that a    *)
(* write to an asynchronous buffer, or making it asynchronous, forgets the   *)
(* oldest ones (cirbuf.go:33-101).                                           *)
Queue == INSTANCE DropOldestQueue WITH
           MaxChunk <- MaxPacketSize,
           queue    <- PeekDataAt(cb, 0, cb.count),
           limit    <- cb.windowSize,
           blocking <- cb.syncMode,
           next     <- cb.totalSize

ActsAsDropOldestQueue == Queue!Spec

(* A stream whose end was acknowledged or that was closed sends no more, and *)
(* its sender loop goes away.                                                *)
SenderStops == (closed \/ terminalEventAcked) ~> sendPc = "returned"

(* The read loop is never left blocked by a client that has gone: once the   *)
(* client disconnects the write goes through, unless another client connects *)
(* (streammanager.go:186, cirbuf.go:58-62).                                  *)
BlockedWriterResumes ==
  (readPc = "parked" /\ ~connected /\ streamId # NoStream) ~> readPc # "parked"
-----------------------------------------------------------------------------
(* What makes the above inductive.                                           *)

\* The read loop holds the bytes that come next, and holds some exactly when
\* it is writing them.
ChunkOK ==
  /\ Len(chunk) <= MaxPacketSize
  /\ \A k \in 1 .. Len(chunk) : chunk[k] = cb.totalSize + k - 1
  /\ readPc \in {"writing", "parked"} => Len(chunk) > 0
  /\ readPc \in {"detached", "checking", "reading", "ending", "returned"} => Len(chunk) = 0
  /\ readPc = "ending" => ptyEnd # "open"

\* ClientConnected runs without a client, and takes no more than it may.
HandlerOK ==
  connecting.step # "none" =>
    /\ ~connected
    /\ connecting.step = "consuming" => connecting.clientSeq > connecting.head

\* The PTY's end is known only after its last byte is in the buffer.
EndOK ==
  terminalEvent # "none" => readPc = "returned" /\ eofPos = cb.totalSize

BaseInv == /\ TypeOK /\ BufferOK /\ ChunkOK /\ EndOK /\ HandlerOK
           /\ ModeFollowsClient

\* Stream ids are used once.
IdsOK ==
  /\ {streamId, packet.id} \subseteq usedIds \cup {NoStream}
  /\ connecting.step # "none" =>
       connecting.id \in usedIds /\ connecting.id \notin {streamId, packet.id}

\* The packet about to be sent continues the stream it belongs to.
InHand == sendPc = "sending" /\ packet.id = streamId
Last == sent[Len(sent)]

PacketOK ==
  /\ \A k \in DOMAIN packet.data : packet.data[k] = packet.seq + k - 1
  /\ InHand /\ sent # << >> => packet.seq = End(Last)
  /\ InHand /\ connected => End(packet) = HeadPos(cb) + sentNotAcked
  /\ sendPc = "sending" /\ packet.id # streamId => sent = << >>

\* The terminal packet, sent or about to be, ends the stream.
IsTerminal(p) ==
  /\ p.data = << >> /\ terminalEvent # "none" /\ p.seq = eofPos
  /\ connected => terminalEventSent /\ cb.count = 0
TerminalOK ==
  /\ InHand /\ packet.end # "none" => IsTerminal(packet)
  /\ \A i \in DOMAIN sent :
       sent[i].end # "none" => i = Len(sent) /\ IsTerminal(sent[i]) /\ ~InHand

RunInv == /\ BaseInv /\ IdsOK /\ PacketOK /\ TerminalOK
          /\ OneRun /\ InFlightCounted
=============================================================================
