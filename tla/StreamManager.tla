---------------------------- MODULE StreamManager ----------------------------
(* The job manager's stream manager (pkg/jobmanager/streammanager.go): the   *)
(* buffer between the PTY of a durable job and the client, if any, that is   *)
(* connected to it.  Three kinds of threads meet here: the read loop, which  *)
(* moves PTY output into the circular buffer; the sender loop, which turns   *)
(* buffered bytes into packets; and the handlers of the client's calls.      *)
(*                                                                           *)
(* Granularity.  sm.lock protects everything but the buffer, which has its   *)
(* own lock, and the read loop writes to the buffer without sm.lock.  While  *)
(* a client is connected the buffer is synchronous, so that a write only     *)
(* adds bytes at the far end and commutes with the buffer calls of a handler:*)
(* those handlers are one step.  ClientConnected starts from the             *)
(* asynchronous mode, in which a write may move the head, and is one step    *)
(* for each buffer call it makes, holding sm.lock throughout.                *)
EXTENDS CirBuf

CONSTANTS CwndSize,         \* the congestion window, cwndSize
          MaxPacketSize,    \* most bytes in a packet and in one PTY read
          StreamIds,        \* stream ids clients connect with
          RwndSizes,        \* receive windows a client may announce
          MaxTotal,         \* bound: bytes the PTY produces
          NoStream          \* the empty stream id

ASSUME StreamAssumption ==
  /\ CwndSize \in Nat \ {0}
  /\ MaxPacketSize \in 1 .. MaxSize
  /\ RwndSizes \subseteq Nat
  /\ MaxTotal \in Nat
  /\ NoStream \notin StreamIds

VARIABLES
  cb,                 \* sm.buf
  terminalEvent,      \* "none", "eof" or "error"
  eofPos,             \* -1 until the PTY ends
  rwndSize, connected, streamId,
  sentNotAcked, terminalEventSent,
  maxAckedSeq, maxAckedRwnd,
  terminalEventAcked, closed,
  connecting,         \* a ClientConnected in progress, which holds sm.lock
  readPc, chunk,      \* the read loop, and the bytes handleReadData still has
  ptyEnd,             \* how the PTY read ended: "open", "eof" or "error"
  sendPc, packet      \* the sender loop, and the packet it is about to send

clientVars == <<rwndSize, connected, streamId, sentNotAcked, maxAckedSeq,
                maxAckedRwnd, terminalEventAcked, connecting>>
terminalVars == <<terminalEvent, eofPos>>
readerVars == <<readPc, chunk, ptyEnd>>
senderVars == <<sendPc, packet>>
smVars == <<cb, clientVars, terminalVars, terminalEventSent, closed, readerVars,
            senderVars>>

NoPacket  == [id |-> NoStream, seq |-> 0, data |-> << >>, end |-> "none"]
NoConnect == [step |-> "none", id |-> NoStream, rwnd |-> 0, clientSeq |-> 0, head |-> 0]

\* No handler is between two of its steps with sm.lock held.
LockFree == connecting.step = "none"

\* drainCond.Signal(): the sender loop is the only thread that ever waits.
Signal == sendPc' = IF sendPc = "waiting" THEN "preparing" ELSE sendPc

EffectiveWindow_RwndOnly(rwnd)   == rwnd
EffectiveWindow(rwnd) == Least(rwnd, CwndSize)

SMInit ==
  /\ cb = MakeCirBuf(TRUE)
  /\ terminalEvent = "none" /\ eofPos = -1
  /\ rwndSize = CwndSize /\ connected = FALSE /\ streamId = NoStream
  /\ sentNotAcked = 0 /\ terminalEventSent = FALSE
  /\ maxAckedSeq = 0 /\ maxAckedRwnd = 0
  /\ terminalEventAcked = FALSE /\ closed = FALSE
  /\ connecting = NoConnect
  /\ readPc = "detached" /\ chunk = << >> /\ ptyEnd = "open"
  /\ sendPc = "preparing" /\ packet = NoPacket
-----------------------------------------------------------------------------
(* The read loop.                                                            *)

AttachReader ==
  /\ LockFree /\ readPc = "detached"
  /\ readPc' = "checking"
  /\ UNCHANGED <<cb, clientVars, terminalVars, terminalEventSent, closed, chunk,
                 ptyEnd, senderVars>>

CheckClosed ==
  /\ LockFree /\ readPc = "checking"
  /\ readPc' = IF closed THEN "returned" ELSE "reading"
  /\ UNCHANGED <<cb, clientVars, terminalVars, terminalEventSent, closed, chunk,
                 ptyEnd, senderVars>>

\* A Read returns bytes, an end or both; nothing read with no end loops.
ReadPty ==
  /\ readPc = "reading"
  /\ \E n \in 0 .. MaxPacketSize, end \in {"open", "eof", "error"} :
       /\ cb.totalSize + n <= MaxTotal
       /\ n > 0 \/ end # "open"
       /\ chunk'  = [i \in 1 .. n |-> cb.totalSize + i - 1]
       /\ ptyEnd' = end
       /\ readPc' = IF n > 0 THEN "writing" ELSE "ending"
  /\ UNCHANGED <<cb, clientVars, terminalVars, terminalEventSent, closed,
                 senderVars>>

\* One WriteAvailable of handleReadData, under cb.lock alone.
WriteChunk ==
  LET n == Writable(cb, Len(chunk))
  IN  /\ readPc = "writing"
      /\ cb'     = WriteAvailable(cb, chunk)
      /\ chunk'  = SubSeq(chunk, n + 1, Len(chunk))
      /\ readPc' = IF n > 0 THEN "signalling" ELSE "parked"
      /\ UNCHANGED <<clientVars, terminalVars, terminalEventSent, closed, ptyEnd,
                     senderVars>>

SignalWritten ==
  /\ LockFree /\ readPc = "signalling"
  /\ readPc' = IF chunk # << >> THEN "writing"
               ELSE IF ptyEnd # "open" THEN "ending" ELSE "checking"
  /\ Signal
  /\ UNCHANGED <<cb, clientVars, terminalVars, terminalEventSent, closed, chunk,
                 ptyEnd, packet>>

\* The channel the writer waits on has been closed.
Unpark ==
  /\ readPc = "parked" /\ ~cb.waiter
  /\ readPc' = "writing"
  /\ UNCHANGED <<cb, clientVars, terminalVars, terminalEventSent, closed, chunk,
                 ptyEnd, senderVars>>

\* handleEOF, and handleError, which differs in the event alone.
HandleEnd ==
  /\ LockFree /\ readPc = "ending"
  /\ terminalEvent' = ptyEnd
  /\ eofPos' = cb.totalSize
  /\ readPc' = "returned"
  /\ Signal
  /\ UNCHANGED <<cb, clientVars, terminalEventSent, closed, chunk, ptyEnd, packet>>

ReadLoop == \/ CheckClosed \/ ReadPty \/ WriteChunk \/ SignalWritten
            \/ Unpark \/ HandleEnd
-----------------------------------------------------------------------------
(* The sender loop.  prepareNextPacket runs under sm.lock: it waits, returns *)
(* for good, or takes the next packet, which SendData sends without the lock.*)

Finished_NotClosed == terminalEventAcked
Finished == closed \/ terminalEventAcked

DataToSend == /\ cb.count > sentNotAcked
              /\ EffectiveWindow(rwndSize) > sentNotAcked

TerminalToSend_AllSent ==
  cb.count = sentNotAcked /\ terminalEvent # "none" /\ ~terminalEventSent
TerminalToSend == cb.count = 0 /\ terminalEvent # "none" /\ ~terminalEventSent

SenderReturns ==
  /\ LockFree /\ sendPc = "preparing" /\ Finished
  /\ sendPc' = "returned"
  /\ UNCHANGED <<cb, clientVars, terminalVars, terminalEventSent, closed,
                 readerVars, packet>>

SenderWaits ==
  /\ LockFree /\ sendPc = "preparing" /\ ~Finished
  /\ connected => ~DataToSend /\ ~TerminalToSend
  /\ sendPc' = "waiting"
  /\ UNCHANGED <<cb, clientVars, terminalVars, terminalEventSent, closed,
                 readerVars, packet>>

PrepareData ==
  LET room == EffectiveWindow(rwndSize) - sentNotAcked
      data == PeekDataAt(cb, sentNotAcked, Least(room, MaxPacketSize))
  IN  /\ LockFree /\ sendPc = "preparing" /\ ~Finished
      /\ connected /\ DataToSend
      /\ packet' = [id |-> streamId, seq |-> HeadPos(cb) + sentNotAcked,
                    data |-> data, end |-> "none"]
      /\ sentNotAcked' = sentNotAcked + Len(data)
      /\ sendPc' = "sending"
      /\ UNCHANGED <<cb, rwndSize, connected, streamId, maxAckedSeq, maxAckedRwnd,
                     terminalEventAcked, connecting, terminalVars,
                     terminalEventSent, closed, readerVars>>

PrepareTerminal ==
  /\ LockFree /\ sendPc = "preparing" /\ ~Finished
  /\ connected /\ TerminalToSend
  /\ packet' = [id |-> streamId, seq |-> eofPos, data |-> << >>,
                end |-> terminalEvent]
  /\ terminalEventSent' = TRUE
  /\ sendPc' = "sending"
  /\ UNCHANGED <<cb, clientVars, terminalVars, closed, readerVars>>

SendData ==
  /\ sendPc = "sending"
  /\ sendPc' = "preparing" /\ packet' = NoPacket
  /\ UNCHANGED <<cb, clientVars, terminalVars, terminalEventSent, closed,
                 readerVars>>
-----------------------------------------------------------------------------
(* The client's calls.                                                       *)

\* ClientConnected up to its first HeadPos; the calls it refuses change
\* nothing.
ClientConnected(id, rwnd, clientSeq) ==
  /\ LockFree /\ ~Finished /\ ~connected
  /\ connecting' = [step      |-> IF clientSeq > HeadPos(cb) THEN "consuming"
                                                              ELSE "opening",
                    id        |-> id,
                    rwnd      |-> rwnd,
                    clientSeq |-> clientSeq,
                    head      |-> HeadPos(cb)]
  /\ UNCHANGED <<cb, rwndSize, connected, streamId, sentNotAcked, maxAckedSeq,
                 maxAckedRwnd, terminalEventAcked, terminalVars,
                 terminalEventSent, closed, readerVars, senderVars>>

\* The client has bytes past the head read: consume them, or refuse a client
\* that claims more than there is.
ConsumeClientSeq ==
  LET n == connecting.clientSeq - connecting.head
  IN  /\ connecting.step = "consuming"
      /\ IF n > cb.count
         THEN connecting' = NoConnect /\ UNCHANGED cb
         ELSE /\ cb' = Consume(cb, n)
              /\ connecting' = [connecting EXCEPT !.step = "rereading"]
      /\ UNCHANGED <<rwndSize, connected, streamId, sentNotAcked, maxAckedSeq,
                     maxAckedRwnd, terminalEventAcked, terminalVars,
                     terminalEventSent, closed, readerVars, senderVars>>

RereadHead ==
  /\ connecting.step = "rereading"
  /\ connecting' = [connecting EXCEPT !.step = "opening", !.head = HeadPos(cb)]
  /\ UNCHANGED <<cb, rwndSize, connected, streamId, sentNotAcked, maxAckedSeq,
                 maxAckedRwnd, terminalEventAcked, terminalVars,
                 terminalEventSent, closed, readerVars, senderVars>>

\* What ClientConnected returns: the seq its client is to expect first.
StartSeq == IF connecting.clientSeq > connecting.head
            THEN connecting.clientSeq ELSE connecting.head

OpenClient ==
  /\ connecting.step = "opening"
  /\ streamId' = connecting.id
  /\ connected' = TRUE
  /\ rwndSize' = connecting.rwnd
  /\ sentNotAcked' = 0
  /\ cb' = SetEffectiveWindow(cb, TRUE, EffectiveWindow(connecting.rwnd))
  /\ connecting' = NoConnect
  /\ Signal
  /\ UNCHANGED <<maxAckedSeq, maxAckedRwnd, terminalEventAcked, terminalVars,
                 terminalEventSent, closed, readerVars, packet>>

ClientDisconnected ==
  /\ LockFree /\ connected
  /\ connected' = FALSE
  /\ sentNotAcked' = 0 /\ maxAckedSeq' = 0 /\ maxAckedRwnd' = 0
  /\ terminalEventSent' = (terminalEventSent /\ terminalEventAcked)
  /\ cb' = SetEffectiveWindow(cb, FALSE, MaxSize)
  /\ Signal
  /\ UNCHANGED <<rwndSize, streamId, terminalEventAcked, connecting,
                 terminalVars, closed, readerVars, packet>>

SetRwndSize(rwnd) ==
  /\ LockFree /\ connected
  /\ rwndSize' = rwnd
  /\ cb' = SetEffectiveWindow(cb, TRUE, EffectiveWindow(rwnd))
  /\ Signal
  /\ UNCHANGED <<connected, streamId, sentNotAcked, maxAckedSeq, maxAckedRwnd,
                 terminalEventAcked, connecting, terminalVars,
                 terminalEventSent, closed, readerVars, packet>>

Close ==
  /\ LockFree
  /\ closed' = TRUE
  /\ Signal
  /\ UNCHANGED <<cb, clientVars, terminalVars, terminalEventSent, readerVars,
                 packet>>
-----------------------------------------------------------------------------
(* RecvAck(ack), ack = [id, seq, rwnd, fin].                                 *)

Stale(ack) == \/ ack.seq < maxAckedSeq
              \/ ack.seq = maxAckedSeq /\ ack.rwnd <= maxAckedRwnd

\* The stream is complete.
RecvFinAck(ack) ==
  /\ LockFree /\ connected /\ ack.id = streamId /\ ack.fin
  /\ terminalEventAcked' = TRUE
  /\ Signal
  /\ UNCHANGED <<cb, rwndSize, connected, streamId, sentNotAcked, maxAckedSeq,
                 maxAckedRwnd, connecting, terminalVars, terminalEventSent,
                 closed, readerVars, packet>>

\* A fresh ack that cannot be of what was sent only moves the maximum.
RecvOddAck(ack) ==
  LET acked == ack.seq - HeadPos(cb)
  IN  /\ LockFree /\ connected /\ ack.id = streamId /\ ~ack.fin /\ ~Stale(ack)
      /\ acked < 0 \/ acked > Least(sentNotAcked, cb.count)
      /\ maxAckedSeq' = ack.seq /\ maxAckedRwnd' = ack.rwnd
      /\ UNCHANGED <<cb, rwndSize, connected, streamId, sentNotAcked,
                     terminalEventAcked, connecting, terminalVars,
                     terminalEventSent, closed, readerVars, senderVars>>

\* Whether the ack lets the sender loop go on.
Unblocks_IfLarger(ack, acked) == ack.rwnd > rwndSize
Unblocks(ack, acked) == ack.rwnd > rwndSize \/ acked > 0

RecvDataAck(ack) ==
  LET acked == ack.seq - HeadPos(cb)
  IN  /\ LockFree /\ connected /\ ack.id = streamId /\ ~ack.fin /\ ~Stale(ack)
      /\ acked \in 0 .. Least(sentNotAcked, cb.count)
      /\ maxAckedSeq' = ack.seq /\ maxAckedRwnd' = ack.rwnd
      /\ cb' = SetEffectiveWindow(IF acked > 0 THEN Consume(cb, acked) ELSE cb,
                                  TRUE, EffectiveWindow(ack.rwnd))
      /\ sentNotAcked' = sentNotAcked - acked
      /\ rwndSize' = ack.rwnd
      /\ IF Unblocks(ack, acked) THEN Signal ELSE UNCHANGED sendPc
      /\ UNCHANGED <<connected, streamId, terminalEventAcked, connecting,
                     terminalVars, terminalEventSent, closed, readerVars, packet>>

RecvAck(ack) == RecvFinAck(ack) \/ RecvOddAck(ack) \/ RecvDataAck(ack)
=============================================================================
