------------------------ MODULE DurableStream_proofs ------------------------
(* That the output file of a durable job is its PTY's output, for any number  *)
(* of connections and of crashes of the main server, any sizes and windows.   *)
EXTENDS DurableStream, FiniteSetTheorems, SequenceTheorems, WellFoundedInduction, TLAPS

\* The stream manager is the one StreamClient_proofs is about, under another client.
SC == INSTANCE StreamClient_proofs
        WITH sent <- << >>, positions <- {}, startSeq <- 0, reached <- 0, usedIds <- {}

\* n bytes of the stream, from byte a on.
Bytes(a, n) == [i \in 1 .. n |-> a + i - 1]

Packets == [id : StreamIds \cup {NoStream}, seq : Nat, data : Seq(Nat),
            end : {"none", "eof", "error"}]

SomeAcks == [id : StreamIds, seq : Nat, rwnd : Nat, fin : BOOLEAN, cancel : BOOLEAN]

Readers ==
  [id : StreamIds, readWindow : Nat, nextSeq : Nat, buffer : Seq(Nat), eof : BOOLEAN,
   err : {"none", "stream", "closed"}, closed : BOOLEAN, lastRwndSent : Nat,
   oooPackets : SUBSET Packets, acks : Seq(SomeAcks)]

LoopStates == [step : {"none", "reading", "checking", "writing"}, hold : Seq(Nat),
               end : {"none", "eof", "error", "closed"}]
Restarts == [step : {"idle", "stat", "create", "preparing", "prepared", "moving", "starting",
                     "started", "done", "failed"},
             id : Nat, seq : Nat, start : Nat, conn : Nat]
Preps == [step : {"none", "detach", "connect", "opening"}, id : Nat, seq : Nat, conn : Nat]
SomeCalls == [op : {"prepare", "start"}, id : StreamIds, seq : Nat, conn : Nat]

NetTyped ==
  /\ conns \in StreamIds /\ conn \in {0, conns} /\ writers \subseteq StreamIds
  /\ pendingId \in StreamIds \cup {NoStream}
  /\ streamConn \in [StreamIds -> Nat] /\ calls \subseteq SomeCalls
  /\ packets \in Seq(Packets) /\ prep \in Preps /\ restart \in Restarts

FileTyped ==
  /\ reader \in [StreamIds -> Readers] /\ loop \in [StreamIds -> LoopStates]
  /\ file \in Seq(Nat) /\ totalGap \in Nat
  /\ saved.file \in Seq(Nat) /\ saved.totalGap \in Nat
  /\ crashes \in Nat

(* Stream ids.  The stream of a connection has the connection's number, and   *)
(* is asked for once and opened once.                                         *)
Opened(id) == streamConn[id] # 0

CallsNumbered ==
  /\ \A id \in StreamIds : streamConn[id] \in {0, id} /\ (Opened(id) => id <= conns)
  /\ \A call \in calls : call.id = call.conn /\ call.id <= conns
  /\ prep.step # "none" => prep.id = prep.conn /\ prep.id \in 1 .. conns /\ ~Opened(prep.id)
  /\ \A a \in calls : a.op = "prepare" =>
       /\ ~Opened(a.id) /\ (prep.step # "none" => prep.id # a.id)
       /\ \A b \in calls : b.op = "prepare" /\ a.id = b.id => a = b

RestartNumbered ==
  /\ restart.step # "idle" => restart.conn = conns
  /\ restart.step \notin {"idle", "stat", "create"} =>
       restart.id = restart.conn /\ jobStream = restart.id
  /\ \A id \in StreamIds : loop[id].step # "none" =>
       id <= conns /\ (restart.step # "idle" => id # restart.conn)

AskedOnce ==
  /\ restart.step \in {"stat", "create"} =>
       /\ ~Opened(restart.conn)
       /\ \A call \in calls : call.id # restart.conn
       /\ prep.step # "none" => prep.id # restart.conn
  /\ restart.step = "preparing" =>
       /\ \A call \in calls : call.op = "start" => call.id # restart.id
       /\ restart.conn = conn => ~Opened(restart.id)
  /\ restart.step \in {"prepared", "moving", "starting", "started"} => Opened(restart.id)

Sending ==
  /\ streamId \in StreamIds /\ Opened(streamId)
  /\ IF sendPc = "sending" THEN packet.id \in StreamIds /\ Opened(packet.id)
                           ELSE packet = NoPacket
  /\ \A k \in DOMAIN packets : packets[k].id = conn /\ conn # 0 /\ Opened(conn)
  /\ \A id \in writers : Opened(id)

(* A ClientConnected in progress, and the corked stream it leaves.            *)
Connecting ==
  /\ connecting.step # "none" <=> prep.step = "opening"
  /\ connecting.step # "none" => connecting.id = prep.id /\ connecting.rwnd = CorkedRwnd
                                 /\ connecting.head <= HeadPos(cb)
  /\ connecting.step = "rereading" => connecting.clientSeq <= HeadPos(cb)
  /\ connecting.step = "opening" => StartSeq <= HeadPos(cb)

CorkedInv ==
  /\ Corked
  /\ pendingId # NoStream =>
       /\ pendingId = streamId /\ pendingId \notin writers
       /\ connected => rwndSize = 0

IdInv == NetTyped /\ CallsNumbered /\ RestartNumbered /\ AskedOnce /\ Sending

(* Every packet is a piece of the PTY's output, and what a reader and its     *)
(* loop hold is a run of it that ends where the reader is.                    *)
Piece(p) ==
  /\ p.data = Bytes(p.seq, Len(p.data)) /\ p.seq + Len(p.data) <= cb.totalSize
  /\ p.end # "none" => p.data = << >>
  /\ p.end = "eof" => terminalEvent # "none" /\ p.seq = eofPos

Pieces ==
  /\ sendPc = "sending" => Piece(packet)
  /\ \A k \in DOMAIN packets : Piece(packets[k])

ReaderFollows(r) ==
  /\ r.nextSeq >= Len(r.buffer)
  /\ r.buffer = Bytes(r.nextSeq - Len(r.buffer), Len(r.buffer))
  /\ r.buffer # << >> => r.nextSeq <= cb.totalSize
  /\ IsFiniteSet(r.oooPackets) /\ \A p \in r.oooPackets : Piece(p)
  /\ r.eof => terminalEvent # "none" /\ r.nextSeq = eofPos

ReaderOK(id) ==
  /\ reader[id].id = id /\ \A k \in DOMAIN reader[id].acks : reader[id].acks[k].id = id
  /\ ReaderFollows(reader[id])

Behind(id) == reader[id].nextSeq - Len(reader[id].buffer)
At(id) == Behind(id) - Len(loop[id].hold)

LoopFollows(l, r) ==
  LET at == r.nextSeq - Len(r.buffer) - Len(l.hold)
  IN  /\ at >= 0 /\ l.hold = Bytes(at, Len(l.hold))
      /\ l.hold # << >> => r.nextSeq <= cb.totalSize
      /\ l.step \in {"none", "reading"} => l.hold = << >> /\ l.end = "none"
      /\ l.end # "none" => l.hold = << >>
      /\ l.end = "eof" => r.eof /\ r.buffer = << >>

BytesInv ==
  /\ FileTyped /\ Pieces
  /\ \A id \in StreamIds : ReaderOK(id) /\ LoopFollows(loop[id], reader[id])

(* restartStreaming.  Before its reader moves past a gap no packet of its     *)
(* stream is of a byte in the gap.                                            *)
Asked ==
  /\ restart.step = "preparing" =>
       /\ reader[restart.id].buffer = << >> /\ reader[restart.id].nextSeq = restart.seq
       /\ ~reader[restart.id].eof
  /\ restart.step \in {"prepared", "moving"} =>
       /\ restart.start <= cb.totalSize /\ Behind(restart.id) = restart.seq
       /\ restart.start > restart.seq =>
            /\ reader[restart.id].buffer = << >> /\ ~reader[restart.id].eof
            /\ streamId = restart.id /\ connected => HeadPos(cb) >= restart.start
            /\ sendPc = "sending" /\ packet.id = restart.id => packet.seq >= restart.start
            /\ \A k \in DOMAIN packets :
                 packets[k].id = restart.id => packets[k].seq >= restart.start

(* The file.                                                                  *)
Position == Len(file) + totalGap

RestartFollows ==
  /\ restart.step \in {"create", "preparing", "prepared"} => Position = restart.seq
  /\ restart.step = "moving" => Position = restart.seq + Gap
  /\ restart.step \in {"starting", "started"} => Position = Behind(restart.id)

Follows == \A id \in StreamIds : jobStream = id /\ loop[id].step # "none" => Position = At(id)

InPlace(f, gap) ==
  /\ \A i, j \in DOMAIN f : i < j => f[i] < f[j]
  /\ \A i \in DOMAIN f : f[i] < Len(f) + gap

AtEnd == terminalEvent # "none" /\ Position = eofPos
Ended ==
  crashes = 0 => /\ streamDone = "eof" => AtEnd
                 /\ \A id \in StreamIds :
                      loop[id].step = "writing" /\ loop[id].end = "eof" => AtEnd

FileInv == ~overtaken =>
  RestartFollows /\ Follows /\ InPlace(file, totalGap) /\ InPlace(saved.file, saved.totalGap) /\ Ended

DurableInv ==
  /\ SC!BaseInv /\ IdInv /\ Connecting /\ CorkedInv /\ BytesInv /\ Asked /\ FileInv
-----------------------------------------------------------------------------
(* The stream manager's steps keep its invariant, and its buffer only goes    *)
(* forward.                                                                   *)
Grows ==
  /\ HeadPos(cb) <= HeadPos(cb') /\ cb.totalSize <= cb'.totalSize
  /\ terminalEvent # "none" => /\ terminalEvent' = terminalEvent /\ eofPos' = eofPos
                               /\ cb'.totalSize = cb.totalSize

Goes == SC!BaseInv' /\ Grows

LEMMA EnvIdle == UNCHANGED SC!envVars
  BY DEF SC!envVars

\* What of the base invariant the proofs need.
LEMMA Base ==
  ASSUME SC!BaseInv
  PROVE  /\ cb \in SC!CirBufs /\ SC!CirBufOK(cb)
         /\ cb.count \in Nat /\ cb.totalSize \in Nat /\ HeadPos(cb) \in Nat
         /\ cb.count <= cb.totalSize /\ HeadPos(cb) = cb.totalSize - cb.count
         /\ HeadPos(cb) <= cb.totalSize
         /\ sentNotAcked \in Nat /\ rwndSize \in Nat /\ connected \in BOOLEAN
         /\ connected => sentNotAcked <= cb.count
         /\ terminalEvent \in {"none", "eof", "error"}
         /\ terminalEvent # "none" => readPc = "returned" /\ eofPos = cb.totalSize
         /\ packet \in Packets /\ streamId \in StreamIds \cup {NoStream}
         /\ connecting \in SC!Connects
<1>1. cb \in SC!CirBufs /\ SC!CirBufOK(cb)
  BY DEF SC!BaseInv, SC!TypeOK, SC!BufferOK
<1>2. /\ cb.count \in Nat /\ cb.totalSize \in Nat /\ cb.count <= cb.totalSize
      /\ SC!HeadPos(cb) \in Nat
  BY <1>1, SC!CirBufFields, StreamAssumption, MaxSizeAssumption
<1>3. HeadPos(cb) = cb.totalSize - cb.count /\ HeadPos(cb) = SC!HeadPos(cb)
  BY DEF HeadPos, SC!HeadPos
<1>4. HeadPos(cb) <= cb.totalSize
  BY <1>2, <1>3
<1>5. packet \in Packets
  BY DEF SC!BaseInv, SC!TypeOK, SC!LoopTypes, Packets, SC!Packets
<1>6. QED
  BY <1>1, <1>2, <1>3, <1>4, <1>5
     DEF SC!BaseInv, SC!TypeOK, SC!ClientTypes, SC!ModeFollowsClient, SC!EndOK

LEMMA Stands ==
  ASSUME SC!BaseInv, cb' = cb, UNCHANGED terminalVars, SC!BaseInv'
  PROVE  Goes
<1>1. HeadPos(cb) \in Nat /\ cb.totalSize \in Nat
  BY Base
<1>2. HeadPos(cb') = HeadPos(cb) /\ cb'.totalSize = cb.totalSize
  OBVIOUS
<1>3. QED BY <1>1, <1>2 DEF Goes, Grows, terminalVars

LEMMA RestGoes ==
  ASSUME SC!BaseInv, UNCHANGED smVars
  PROVE  Goes
<1>1. SC!BaseInv'
  BY DEF SC!BaseInv, SC!TypeOK, SC!ClientTypes, SC!LoopTypes, SC!HistoryTypes, SC!BufferOK,
     SC!ChunkOK, SC!EndOK, SC!HandlerOK, SC!ModeFollowsClient, smVars, clientVars, terminalVars,
     readerVars, senderVars
<1>2. cb' = cb /\ UNCHANGED terminalVars
  BY DEF smVars
<1>3. QED BY <1>1, <1>2, Stands

\* The steps of the loops that leave the buffer alone.
LEMMA QuietGoes ==
  ASSUME SC!BaseInv,
         \/ CheckClosed \/ SignalWritten \/ Unpark \/ HandleEnd
         \/ SenderReturns \/ SenderWaits \/ PrepareTerminal \/ RereadHead
  PROVE  Goes
<1>1. CASE CheckClosed
  <2>1. SC!CheckClosed /\ cb' = cb /\ UNCHANGED terminalVars
    BY <1>1 DEF CheckClosed, SC!CheckClosed, LockFree, SC!LockFree, clientVars, SC!clientVars,
       terminalVars, SC!terminalVars, senderVars, SC!senderVars
  <2>2. QED BY <2>1, EnvIdle, SC!BaseQuiet, Stands, StreamAssumption, MaxSizeAssumption
<1>2. CASE SignalWritten
  <2>1. SC!SignalWritten /\ cb' = cb /\ UNCHANGED terminalVars
    BY <1>2 DEF SignalWritten, SC!SignalWritten, LockFree, SC!LockFree, Signal, SC!Signal,
       clientVars, SC!clientVars, terminalVars, SC!terminalVars
  <2>2. QED BY <2>1, EnvIdle, SC!BaseQuiet, Stands, StreamAssumption, MaxSizeAssumption
<1>3. CASE Unpark
  <2>1. SC!Unpark /\ cb' = cb /\ UNCHANGED terminalVars
    BY <1>3 DEF Unpark, SC!Unpark, clientVars, SC!clientVars,
       terminalVars, SC!terminalVars, senderVars, SC!senderVars
  <2>2. QED BY <2>1, EnvIdle, SC!BaseQuiet, Stands, StreamAssumption, MaxSizeAssumption
<1>4. CASE HandleEnd
  <2>1. SC!HandleEnd /\ cb' = cb /\ readPc = "ending"
    BY <1>4 DEF HandleEnd, SC!HandleEnd, LockFree, SC!LockFree, Signal, SC!Signal,
       clientVars, SC!clientVars
  <2>2. SC!BaseInv'
    BY <2>1, EnvIdle, SC!BaseQuiet, StreamAssumption, MaxSizeAssumption
  <2>3. terminalEvent = "none"
    BY <2>1, Base
  <2>4. HeadPos(cb) \in Nat /\ cb.totalSize \in Nat /\ HeadPos(cb') = HeadPos(cb)
    BY <2>1, Base
  <2>5. QED BY <2>1, <2>2, <2>3, <2>4 DEF Goes, Grows
<1>5. CASE SenderReturns
  <2>1. SC!SenderReturns /\ cb' = cb /\ UNCHANGED terminalVars
    BY <1>5 DEF SenderReturns, SC!SenderReturns, LockFree, SC!LockFree, Finished, SC!Finished,
       clientVars, SC!clientVars, terminalVars, SC!terminalVars, readerVars, SC!readerVars
  <2>2. QED BY <2>1, EnvIdle, SC!BaseQuiet, Stands, StreamAssumption, MaxSizeAssumption
<1>6. CASE SenderWaits
  <2>1. SC!SenderWaits /\ cb' = cb /\ UNCHANGED terminalVars
    BY <1>6 DEF SenderWaits, SC!SenderWaits, LockFree, SC!LockFree, Finished, SC!Finished,
       DataToSend, SC!DataToSend, TerminalToSend, SC!TerminalToSend, EffectiveWindow,
       SC!EffectiveWindow, Least, SC!Least, clientVars, SC!clientVars, terminalVars,
       SC!terminalVars, readerVars, SC!readerVars
  <2>2. QED BY <2>1, EnvIdle, SC!BaseQuiet, Stands, StreamAssumption, MaxSizeAssumption
<1>7. CASE PrepareTerminal
  <2>1. SC!PrepareTerminal /\ cb' = cb /\ UNCHANGED terminalVars
    BY <1>7 DEF PrepareTerminal, SC!PrepareTerminal, LockFree, SC!LockFree, Finished, SC!Finished,
       TerminalToSend, SC!TerminalToSend, clientVars, SC!clientVars, terminalVars,
       SC!terminalVars, readerVars, SC!readerVars
  <2>2. QED BY <2>1, EnvIdle, SC!BaseQuiet, Stands, StreamAssumption, MaxSizeAssumption
<1>8. CASE RereadHead
  <2>1. SC!RereadHead /\ cb' = cb /\ UNCHANGED terminalVars
    BY <1>8 DEF RereadHead, SC!RereadHead, HeadPos, SC!HeadPos, terminalVars, SC!terminalVars,
       readerVars, SC!readerVars, senderVars, SC!senderVars
  <2>2. QED BY <2>1, EnvIdle, SC!BaseQuiet, Stands, StreamAssumption, MaxSizeAssumption
<1>9. QED BY <1>1, <1>2, <1>3, <1>4, <1>5, <1>6, <1>7, <1>8

LEMMA ReadGoes == ASSUME SC!BaseInv, ReadPty PROVE Goes
<1>1. SC!ReadPty /\ cb' = cb /\ UNCHANGED terminalVars
  BY DEF ReadPty, SC!ReadPty, clientVars, SC!clientVars, terminalVars, SC!terminalVars,
     senderVars, SC!senderVars
<1>2. QED BY <1>1, EnvIdle, SC!BaseReadPty, Stands, StreamAssumption, MaxSizeAssumption

LEMMA WriteGoes == ASSUME SC!BaseInv, WriteChunk PROVE Goes
<1> DEFINE n == Writable(cb, Len(chunk))
<1>1. SC!WriteChunk
  BY DEF WriteChunk, SC!WriteChunk, WriteAvailable, SC!WriteAvailable, Writable, SC!Writable,
     Room, SC!Room, Stored, SC!Stored, SlotDistance, SC!SlotDistance, Slots, SC!Slots, Least,
     SC!Least, clientVars, SC!clientVars, terminalVars, SC!terminalVars, senderVars, SC!senderVars
<1>2. SC!BaseInv'
  BY <1>1, EnvIdle, SC!BaseWriteChunk, StreamAssumption, MaxSizeAssumption
<1>3. /\ cb.count \in Nat /\ cb.totalSize \in Nat /\ cb \in SC!CirBufs
      /\ cb'.count \in Nat /\ cb'.totalSize \in Nat /\ readPc = "writing"
      /\ HeadPos(cb) = cb.totalSize - cb.count /\ HeadPos(cb') = cb'.totalSize - cb'.count
  <2>1. (cb.count \in Nat /\ cb.totalSize \in Nat)'
    BY <1>2, Base, PTL
  <2>2. QED BY <2>1, Base DEF WriteChunk, HeadPos
<1>4. n \in Nat /\ Room(cb) \in Nat
  <2>1. chunk \in Seq(Nat) /\ Len(chunk) \in Nat
    BY DEF SC!BaseInv, SC!TypeOK, SC!LoopTypes
  <2>2. cb.windowSize \in Nat /\ cb.syncMode \in BOOLEAN
    BY <1>3, MaxSizeAssumption DEF SC!CirBufs
  <2>3. Room(cb) \in Nat
    BY <1>3, <2>2 DEF Room
  <2>4. QED BY <2>1, <2>2, <2>3 DEF Writable, Least
<1>5. cb'.count = cb.count + Least(n, Room(cb)) /\ cb'.totalSize = cb.totalSize + n
  BY <1>3 DEF WriteChunk, WriteAvailable, SC!CirBufs
<1>6. Least(n, Room(cb)) \in Nat /\ Least(n, Room(cb)) <= n
  BY <1>4 DEF Least
<1> HIDE DEF n
<1>7. HeadPos(cb) <= HeadPos(cb') /\ cb.totalSize <= cb'.totalSize
  BY <1>3, <1>4, <1>5, <1>6
<1>8. terminalEvent = "none"
  BY <1>3, Base
<1>9. QED BY <1>2, <1>7, <1>8 DEF Goes, Grows

LEMMA SendGoes == ASSUME SC!BaseInv, SendData PROVE Goes
<1>1. NoPacket \in SC!Packets
  BY DEF NoPacket, SC!Packets
<1>2. SC!BaseInv'
  BY <1>1 DEF SC!BaseInv, SC!TypeOK, SC!ClientTypes, SC!LoopTypes, SC!HistoryTypes, SC!BufferOK,
     SC!ChunkOK, SC!EndOK, SC!HandlerOK, SC!ModeFollowsClient, SendData, clientVars,
     terminalVars, readerVars
<1>3. QED BY <1>2, Stands DEF SendData

\* What PrepareData takes is a run of the buffered bytes.
LEMMA PrepareGoes ==
  ASSUME SC!BaseInv, PrepareData
  PROVE  /\ Goes /\ packet'.id = streamId /\ packet'.end = "none"
         /\ packet'.seq = HeadPos(cb) + sentNotAcked
         /\ packet'.data = Bytes(packet'.seq, Len(packet'.data))
         /\ packet'.seq + Len(packet'.data) <= cb.totalSize
         /\ connected /\ EffectiveWindow(rwndSize) > sentNotAcked
<1>1. SC!PrepareData /\ cb' = cb /\ UNCHANGED terminalVars /\ connected /\ connected' = connected
      /\ EffectiveWindow(rwndSize) > sentNotAcked
  BY DEF PrepareData, SC!PrepareData, LockFree, SC!LockFree, Finished, SC!Finished, DataToSend,
     SC!DataToSend, EffectiveWindow, SC!EffectiveWindow, Least, SC!Least, PeekDataAt,
     SC!PeekDataAt, HeadPos, SC!HeadPos, terminalVars, SC!terminalVars, readerVars, SC!readerVars
<1>2. /\ SC!BaseInv' /\ packet'.id = streamId /\ packet'.seq = SC!HeadPos(cb) + sentNotAcked
      /\ packet'.end = "none"
      /\ \A k \in 1 .. Len(packet'.data) : packet'.data[k] = packet'.seq + k - 1
      /\ sentNotAcked' = sentNotAcked + Len(packet'.data)
  BY <1>1, EnvIdle, SC!BasePrepareData, StreamAssumption, MaxSizeAssumption
<1>3. SC!HeadPos(cb) = HeadPos(cb)
  BY DEF HeadPos, SC!HeadPos
<1>4. packet'.data \in Seq(Nat)
  BY <1>2 DEF SC!BaseInv, SC!TypeOK, SC!LoopTypes, SC!Packets
<1>5. packet'.data = Bytes(packet'.seq, Len(packet'.data))
  <2>1. \A d \in Seq(Nat) : d = [k \in 1 .. Len(d) |-> d[k]]
    OBVIOUS
  <2>2. packet'.data = [k \in 1 .. Len(packet'.data) |-> packet'.data[k]]
    BY <1>4, <2>1
  <2>3. QED BY <1>2, <2>2, Zenon DEF Bytes
<1>6. sentNotAcked' <= cb'.count
  BY <1>1, <1>2 DEF SC!BaseInv, SC!ModeFollowsClient
<1>7. packet'.seq + Len(packet'.data) <= cb.totalSize
  <2>1. /\ cb.count \in Nat /\ cb.totalSize \in Nat /\ HeadPos(cb) = cb.totalSize - cb.count
        /\ sentNotAcked \in Nat
    BY Base
  <2>2. Len(packet'.data) \in Nat
    BY <1>4
  <2> DEFINE len == Len(packet'.data)
             seq == packet'.seq
  <2>3. /\ len \in Nat /\ sentNotAcked + len <= cb.count
        /\ seq = (cb.totalSize - cb.count) + sentNotAcked
    BY <1>1, <1>2, <1>3, <1>6, <2>1, <2>2
  <2> HIDE DEF len, seq
  <2>4. seq + len <= cb.totalSize
    BY <2>1, <2>3
  <2>5. QED BY <2>4 DEF len, seq
<1>8. Goes
  BY <1>1, <1>2, Stands
<1>9. QED BY <1>1, <1>2, <1>3, <1>5, <1>7, <1>8

\* A client that connects, up to where its stream opens.
LEMMA ConnectedGoes ==
  ASSUME SC!BaseInv, NEW id \in StreamIds, NEW seq \in Nat, ClientConnected(id, CorkedRwnd, seq)
  PROVE  /\ Goes /\ connecting' \in SC!Connects
         /\ connecting'.step \in {"consuming", "opening"} /\ connecting'.id = id
         /\ connecting'.rwnd = CorkedRwnd /\ connecting'.head = HeadPos(cb')
         /\ connecting'.step = "opening" => connecting'.clientSeq <= HeadPos(cb')
<1>1. /\ HeadPos(cb) \in Nat /\ CorkedRwnd = 0 /\ cb' = cb /\ UNCHANGED terminalVars /\ ~connected
      /\ connecting' = [step |-> IF seq > HeadPos(cb) THEN "consuming" ELSE "opening", id |-> id,
                        rwnd |-> CorkedRwnd, clientSeq |-> seq, head |-> HeadPos(cb)]
  BY Base DEF ClientConnected, CorkedRwnd
<1>2. connecting' \in SC!Connects
  BY <1>1 DEF SC!Connects
<1>3. SC!HandlerOK'
  BY <1>1 DEF SC!HandlerOK, ClientConnected
<1>4. SC!BaseInv'
  BY <1>2, <1>3 DEF SC!BaseInv, SC!TypeOK, SC!ClientTypes, SC!LoopTypes, SC!HistoryTypes,
     SC!BufferOK, SC!ChunkOK, SC!EndOK, SC!ModeFollowsClient, ClientConnected, terminalVars,
     readerVars, senderVars
<1>5. connecting'.step = "opening" => seq <= HeadPos(cb)
  BY <1>1
<1>6. HeadPos(cb') = HeadPos(cb)
  BY <1>1
<1>7. QED BY <1>1, <1>2, <1>4, <1>5, <1>6, Stands

\* Consuming what the client has is consuming up to its position.
LEMMA ConsumeGoes ==
  ASSUME SC!BaseInv, ConsumeClientSeq, connecting.head <= HeadPos(cb)
  PROVE  /\ Goes
         /\ \/ connecting'.step = "none"
            \/ /\ connecting' = [connecting EXCEPT !.step = "rereading"]
               /\ connecting.clientSeq <= HeadPos(cb')
<1> DEFINE n == connecting.clientSeq - connecting.head
<1>1. SC!ConsumeClientSeq
  BY DEF ConsumeClientSeq, SC!ConsumeClientSeq, Consume, SC!Consume, Advance, SC!Advance,
     NoConnect, SC!NoConnect, terminalVars, SC!terminalVars, readerVars, SC!readerVars,
     senderVars, SC!senderVars
<1>2. SC!BaseInv'
  BY <1>1, EnvIdle, SC!BaseConsumeClientSeq, StreamAssumption, MaxSizeAssumption
<1>3. /\ cb \in SC!CirBufs /\ cb.count \in Nat /\ cb.totalSize \in Nat
      /\ HeadPos(cb) = cb.totalSize - cb.count
      /\ connecting.clientSeq \in Nat /\ connecting.head \in Nat
      /\ connecting.clientSeq > connecting.head /\ UNCHANGED terminalVars
      /\ HeadPos(cb) \in Nat
  BY Base DEF ConsumeClientSeq, SC!BaseInv, SC!HandlerOK, SC!Connects
<1>4. CASE n > cb.count
  <2>1. cb' = cb /\ connecting' = NoConnect
    BY <1>4 DEF ConsumeClientSeq
  <2>2. connecting'.step = "none"
    BY <2>1 DEF NoConnect
  <2>3. QED BY <1>2, <1>3, <2>1, <2>2, Stands
<1>5. CASE ~(n > cb.count)
  <2>1. cb' = Consume(cb, n) /\ connecting' = [connecting EXCEPT !.step = "rereading"]
    BY <1>5 DEF ConsumeClientSeq
  <2>2. cb'.count = cb.count - n /\ cb'.totalSize = cb.totalSize
    BY <1>3, <2>1 DEF Consume, Advance, SC!CirBufs
  <2>3. HeadPos(cb') = cb.totalSize - (cb.count - n)
    BY <2>2 DEF HeadPos
  <2>4. n \in Nat
    BY <1>3
  <2>5. connecting.clientSeq = connecting.head + n
    BY <1>3
  <2> HIDE DEF n
  <2>6. HeadPos(cb') = HeadPos(cb) + n
    BY <1>3, <2>3, <2>4
  <2>7. HeadPos(cb) <= HeadPos(cb') /\ connecting.clientSeq <= HeadPos(cb')
    BY <1>3, <2>4, <2>5, <2>6
  <2>8. QED BY <1>2, <1>3, <2>1, <2>2, <2>7 DEF Goes, Grows, terminalVars
<1>6. QED BY <1>4, <1>5

\* A synchronous buffer drops nothing whatever its window.
LEMMA WindowGoes ==
  ASSUME SC!BaseInv, SC!BaseInv', UNCHANGED terminalVars, NEW sync \in BOOLEAN, NEW size \in Nat,
         cb' = SetEffectiveWindow(cb, sync, size)
  PROVE  Goes /\ (sync => HeadPos(cb') = HeadPos(cb))
<1>1. SetEffectiveWindow(cb, sync, size) = SC!SetEffectiveWindow(cb, sync, size)
  BY DEF SetEffectiveWindow, SC!SetEffectiveWindow, Advance, SC!Advance, Excess, SC!Excess,
     Wakes, SC!Wakes, Least, SC!Least
<1> DEFINE s == SC!SetEffectiveWindow(cb, sync, size)
<1>2. /\ cb'.totalSize = cb.totalSize /\ cb'.count <= cb.count
      /\ sync => cb'.count = cb.count
  <2>1. cb \in SC!CirBufs /\ SC!CirBufOK(cb)
    BY Base
  <2>2. /\ s.totalSize = cb.totalSize /\ s.count <= cb.count
        /\ sync => s.count = cb.count
    BY <2>1, SC!SetEffectiveWindowOK, StreamAssumption, MaxSizeAssumption, Zenon
  <2>3. cb' = s
    BY <1>1
  <2> HIDE DEF s
  <2>4. QED BY <2>2, <2>3
<1>3. (cb.count \in Nat)'
  BY Base, PTL
<1>4. /\ cb.count \in Nat /\ cb.totalSize \in Nat /\ HeadPos(cb) = cb.totalSize - cb.count
      /\ HeadPos(cb') = cb'.totalSize - cb'.count
  BY Base DEF HeadPos
<1>5. HeadPos(cb) <= HeadPos(cb') /\ (sync => HeadPos(cb') = HeadPos(cb))
  BY <1>2, <1>3, <1>4
<1>6. QED BY <1>2, <1>4, <1>5 DEF Goes, Grows, terminalVars

LEMMA OpenGoes ==
  ASSUME SC!BaseInv, OpenClient
  PROVE  Goes /\ HeadPos(cb') = HeadPos(cb)
<1>1. /\ connecting.rwnd \in Nat /\ connecting.id \in StreamIds \cup {NoStream}
      /\ cb \in SC!CirBufs /\ SC!CirBufOK(cb)
      /\ cb' = SetEffectiveWindow(cb, TRUE, EffectiveWindow(connecting.rwnd))
      /\ connecting' = NoConnect /\ connected' = TRUE /\ sentNotAcked' = 0
  BY Base DEF OpenClient, SC!Connects
<1>2. EffectiveWindow(connecting.rwnd) \in Nat
  BY <1>1, StreamAssumption DEF EffectiveWindow, Least
<1> DEFINE size == EffectiveWindow(connecting.rwnd)
<1>3. SetEffectiveWindow(cb, TRUE, size) = SC!SetEffectiveWindow(cb, TRUE, size)
  BY DEF SetEffectiveWindow, SC!SetEffectiveWindow, Advance, SC!Advance, Excess, SC!Excess,
     Wakes, SC!Wakes, Least, SC!Least
<1> HIDE DEF size
<1>4. /\ cb' \in SC!CirBufs /\ SC!CirBufOK(cb') /\ cb'.syncMode = TRUE
      /\ cb'.totalSize = cb.totalSize
  <2> DEFINE s == SC!SetEffectiveWindow(cb, TRUE, size)
  <2>1. size \in Nat /\ cb' = s
    BY <1>1, <1>2, <1>3 DEF size
  <2>2. s \in SC!CirBufs /\ SC!CirBufOK(s) /\ s.syncMode = TRUE /\ s.totalSize = cb.totalSize
    BY <1>1, <2>1, SC!SetEffectiveWindowOK, StreamAssumption, MaxSizeAssumption, Zenon
  <2> HIDE DEF s
  <2>3. QED BY <2>1, <2>2
<1>5. cb'.count \in Nat
  BY <1>4, SC!CirBufFields, StreamAssumption, MaxSizeAssumption
<1>6. NoConnect \in SC!Connects /\ NoConnect.step = "none"
  BY DEF NoConnect, SC!Connects
<1>7. SC!ChunkOK' /\ SC!EndOK'
  BY <1>4 DEF SC!BaseInv, SC!ChunkOK, SC!EndOK, OpenClient, readerVars, terminalVars
<1>8. SC!HandlerOK' /\ SC!ModeFollowsClient'
  <2>1. 0 <= cb'.count
    BY <1>5
  <2>2. QED BY <1>1, <1>4, <1>6, <2>1 DEF SC!HandlerOK, SC!ModeFollowsClient
<1>9. SC!TypeOK'
  BY <1>1, <1>4, <1>6 DEF SC!BaseInv, SC!TypeOK, SC!ClientTypes, SC!LoopTypes, SC!HistoryTypes,
     OpenClient, Signal, readerVars, terminalVars
<1>10. SC!BaseInv'
  BY <1>4, <1>7, <1>8, <1>9 DEF SC!BaseInv, SC!BufferOK
<1>11. QED BY <1>1, <1>2, <1>10, WindowGoes DEF OpenClient

LEMMA DisconnectGoes ==
  ASSUME SC!BaseInv, ClientDisconnected
  PROVE  Goes
<1>1. SC!ClientDisconnected
  BY DEF ClientDisconnected, SC!ClientDisconnected, LockFree, SC!LockFree, SetEffectiveWindow,
     SC!SetEffectiveWindow, Advance, SC!Advance, Excess, SC!Excess, Wakes, SC!Wakes, Least,
     SC!Least, Signal, SC!Signal, terminalVars, SC!terminalVars, readerVars, SC!readerVars
<1>2. SC!BaseInv'
  BY <1>1, EnvIdle, SC!BaseClientDisconnected, StreamAssumption, MaxSizeAssumption
<1>3. MaxSize \in Nat
  BY MaxSizeAssumption
<1>4. QED BY <1>2, <1>3, WindowGoes DEF ClientDisconnected

LEMMA SetRwndGoes ==
  ASSUME SC!BaseInv, SetRwndSize(Window)
  PROVE  Goes
<1>1. SC!SetRwndSize(Window)
  BY DEF SetRwndSize, SC!SetRwndSize, LockFree, SC!LockFree, SetEffectiveWindow,
     SC!SetEffectiveWindow, Advance, SC!Advance, Excess, SC!Excess, Wakes, SC!Wakes, Least,
     SC!Least, EffectiveWindow, SC!EffectiveWindow, Signal, SC!Signal, terminalVars,
     SC!terminalVars, readerVars, SC!readerVars
<1>2. Window \in RwndSizes /\ Window \in Nat
  BY DurableAssumption, StreamAssumption
<1>3. SC!BaseInv'
  BY <1>1, <1>2, EnvIdle, SC!BaseSetRwndSize, StreamAssumption, MaxSizeAssumption
<1>4. EffectiveWindow(Window) \in Nat
  BY <1>2, StreamAssumption DEF EffectiveWindow, Least
<1>5. QED BY <1>3, <1>4, WindowGoes DEF SetRwndSize

LEMMA AckGoes ==
  ASSUME SC!BaseInv, NEW ack \in SomeAcks, RecvAck(ack)
  PROVE  Goes
<1>1. ack.seq \in Nat /\ ack.rwnd \in Nat
  BY DEF SomeAcks
<1>2. CASE RecvFinAck(ack)
  <2>1. SC!RecvFinAck(ack) /\ cb' = cb /\ UNCHANGED terminalVars
    BY <1>2 DEF RecvFinAck, SC!RecvFinAck, LockFree, SC!LockFree, Signal, SC!Signal,
       terminalVars, SC!terminalVars, readerVars, SC!readerVars
  <2>2. QED BY <1>1, <2>1, EnvIdle, SC!BaseRecvAck, Stands, StreamAssumption, MaxSizeAssumption
<1>3. CASE RecvOddAck(ack)
  <2>1. SC!RecvOddAck(ack) /\ cb' = cb /\ UNCHANGED terminalVars
    BY <1>3 DEF RecvOddAck, SC!RecvOddAck, LockFree, SC!LockFree, Stale, SC!Stale, HeadPos,
       SC!HeadPos, Least, SC!Least, terminalVars, SC!terminalVars, readerVars, SC!readerVars,
       senderVars, SC!senderVars
  <2>2. QED BY <1>1, <2>1, EnvIdle, SC!BaseRecvAck, Stands, StreamAssumption, MaxSizeAssumption
<1>4. CASE RecvDataAck(ack)
  <2>1. SC!RecvDataAck(ack) /\ UNCHANGED terminalVars
    BY <1>4 DEF RecvDataAck, SC!RecvDataAck, LockFree, SC!LockFree, Stale, SC!Stale, HeadPos,
       SC!HeadPos, Least, SC!Least, Consume, SC!Consume, SetEffectiveWindow,
       SC!SetEffectiveWindow, Advance, SC!Advance, Excess, SC!Excess, Wakes, SC!Wakes,
       EffectiveWindow, SC!EffectiveWindow, Unblocks, SC!Unblocks, Signal, SC!Signal,
       terminalVars, SC!terminalVars, readerVars, SC!readerVars
  <2>2. SC!BaseInv'
    BY <1>1, <2>1, EnvIdle, SC!BaseRecvAck, StreamAssumption, MaxSizeAssumption
  <2>3. SC!HeadPos(cb') = ack.seq /\ cb'.totalSize = cb.totalSize
    BY <1>1, <2>1, SC!RecvDataAckEffect, StreamAssumption, MaxSizeAssumption
  <2>4. HeadPos(cb) \in Nat /\ cb.totalSize \in Nat /\ sentNotAcked \in Nat /\ cb.count \in Nat
    BY Base
  <2>5. ack.seq - HeadPos(cb) \in 0 .. Least(sentNotAcked, cb.count)
    BY <1>4 DEF RecvDataAck
  <2>6. HeadPos(cb) <= ack.seq
    BY <1>1, <2>4, <2>5
  <2>7. HeadPos(cb) <= HeadPos(cb') /\ cb.totalSize <= cb'.totalSize
    <3>1. SC!HeadPos(cb') = HeadPos(cb')
      BY DEF HeadPos, SC!HeadPos
    <3>2. QED BY <2>3, <2>4, <2>6, <3>1
  <2>8. QED BY <2>1, <2>2, <2>3, <2>7 DEF Goes, Grows, terminalVars
<1>5. QED BY <1>2, <1>3, <1>4 DEF RecvAck
-----------------------------------------------------------------------------
(* Bytes.                                                                    *)

LEMMA BytesOK ==
  ASSUME NEW a \in Nat, NEW n \in Nat
  PROVE  Bytes(a, n) \in Seq(Nat) /\ Len(Bytes(a, n)) = n
  BY DEF Bytes

LEMMA NoBytes == ASSUME NEW a \in Nat PROVE Bytes(a, 0) = << >>
  BY DEF Bytes

LEMMA BytesJoin ==
  ASSUME NEW a \in Nat, NEW m \in Nat, NEW n \in Nat
  PROVE  Bytes(a, m) \o Bytes(a + m, n) = Bytes(a, m + n)
  BY DEF Bytes

LEMMA BytesCut ==
  ASSUME NEW a \in Nat, NEW n \in Nat, NEW k \in 0 .. n
  PROVE  /\ SubSeq(Bytes(a, n), 1, k) = Bytes(a, k)
         /\ SubSeq(Bytes(a, n), k + 1, n) = Bytes(a + k, n - k)
  BY DEF Bytes
-----------------------------------------------------------------------------
(* The packets a reader holds.                                               *)

LEMMA LeastOf ==
  ASSUME NEW T, T \subseteq Nat, T # {}
  PROVE  \E t \in T : \A u \in T : t <= u
<1>1. PICK t \in T : \A u \in T : ~(<<u, t>> \in OpToRel(<, Nat))
  BY NatLessThanWellFounded, WFMin
<1>2. OpToRel(<, Nat) = {ss \in Nat \X Nat : ss[1] < ss[2]}
  BY DEF OpToRel
<1>3. ASSUME NEW u \in T
      PROVE  t <= u
  <2>1. t \in Nat /\ u \in Nat
    OBVIOUS
  <2>2. <<u, t>> \in Nat \X Nat /\ <<u, t>>[1] = u /\ <<u, t>>[2] = t
    BY <2>1
  <2>3. ~(u < t)
    BY <1>1, <1>2, <2>2
  <2>4. QED BY <2>1, <2>3
<1>4. QED BY <1>3

\* Whatever a round keeps, all rounds keep.
LEMMA RoundsKeep ==
  ASSUME NEW G, NEW s \in G, Cardinality(s.oooPackets) \in Nat,
         \A t \in G : Rd!OOORound(t) \in G
  PROVE  Rd!ProcessOOOPackets(s) \in G
<1> DEFINE N == Cardinality(s.oooPackets)
           Rounds(f) == f = [n \in 0 .. N |-> IF n = 0 THEN s ELSE Rd!OOORound(f[n - 1])]
           Upto(k, f) == f \in [0 .. k -> G] /\ f[0] = s
                         /\ \A n \in 1 .. k : f[n] = Rd!OOORound(f[n - 1])
<1>1. \A k \in 0 .. N : \E f : Upto(k, f)
  <2> DEFINE T == {k \in 0 .. N : ~\E f : Upto(k, f)}
  <2>1. SUFFICES ASSUME T # {} PROVE FALSE
    OBVIOUS
  <2>2. T \subseteq Nat
    OBVIOUS
  <2>3. PICK k \in T : \A l \in T : k <= l
    <3> HIDE DEF T
    <3>1. QED BY <2>1, <2>2, LeastOf
  <2>4. k # 0
    <3>1. Upto(0, [n \in 0 .. 0 |-> s])
      OBVIOUS
    <3>2. QED BY <2>3, <3>1
  <2>5. PICK f : Upto(k - 1, f)
    BY <2>3, <2>4
  <2>6. Upto(k, [n \in 0 .. k |-> IF n = k THEN Rd!OOORound(f[k - 1]) ELSE f[n]])
    BY <2>3, <2>4, <2>5
  <2>7. QED BY <2>3, <2>6
<1>2. PICK f : Upto(N, f)
  BY <1>1
<1>3. Rounds([n \in 0 .. N |-> f[n]])
  BY <1>2
<1>4. ASSUME NEW g, Rounds(g)
      PROVE  g[N] \in G
  <2> DEFINE T == {k \in 0 .. N : g[k] \notin G}
  <2>1. SUFFICES ASSUME T # {} PROVE FALSE
    OBVIOUS
  <2>2. T \subseteq Nat
    OBVIOUS
  <2>3. PICK k \in T : \A l \in T : k <= l
    <3> HIDE DEF T
    <3>1. QED BY <2>1, <2>2, LeastOf
  <2>4. k # 0
    BY <1>4, <2>3
  <2>5. g[k - 1] \in G /\ g[k] = Rd!OOORound(g[k - 1])
    BY <1>4, <2>3, <2>4
  <2>6. QED BY <2>3, <2>5
<1>5. Rd!ProcessOOOPackets(s) = (CHOOSE g : Rounds(g))[N]
  BY DEF Rd!ProcessOOOPackets, Rd!Cardinality, Cardinality
<1> HIDE DEF Rounds
<1>6. QED BY <1>3, <1>4, <1>5
-----------------------------------------------------------------------------
(* The reader's methods.                                                     *)

AcksMine(r) == \A k \in DOMAIN r.acks : r.acks[k].id = r.id

\* t differs from s in what it has acknowledged, if it is closed or failed, and in its window.
Same(s, t) ==
  /\ t \in Readers /\ t.id = s.id /\ t.nextSeq = s.nextSeq /\ t.buffer = s.buffer
  /\ t.eof = s.eof /\ t.oooPackets = s.oooPackets /\ (AcksMine(s) => AcksMine(t))

LEMMA SameFollows ==
  ASSUME NEW s, NEW t, Same(s, t), ReaderFollows(s)
  PROVE  ReaderFollows(t)
  BY DEF Same, ReaderFollows

\* One more acknowledgement.
LEMMA AckKept ==
  ASSUME NEW s \in Readers, NEW ack \in SomeAcks, ack.id = s.id
  PROVE  Same(s, [s EXCEPT !.acks = Append(@, ack)])
<1> DEFINE t == [s EXCEPT !.acks = Append(@, ack)]
<1>1. s.acks \in Seq(SomeAcks)
  BY DEF Readers
<1>2. /\ Append(s.acks, ack) \in Seq(SomeAcks)
      /\ \A k \in DOMAIN Append(s.acks, ack) :
           Append(s.acks, ack)[k] = ack \/ (k \in DOMAIN s.acks /\ Append(s.acks, ack)[k] = s.acks[k])
  BY <1>1
<1>3. t \in Readers /\ t.acks = Append(s.acks, ack)
  BY <1>2 DEF Readers
<1>4. t.id = s.id /\ t.nextSeq = s.nextSeq /\ t.buffer = s.buffer /\ t.eof = s.eof
      /\ t.oooPackets = s.oooPackets
  BY DEF Readers
<1> HIDE DEF t
<1>5. AcksMine(s) => AcksMine(t)
  BY <1>2, <1>3, <1>4 DEF AcksMine
<1>6. QED BY <1>3, <1>4, <1>5 DEF Same, t

\* One less.
LEMMA AckGone ==
  ASSUME NEW s \in Readers, s.acks # << >>
  PROVE  Same(s, [s EXCEPT !.acks = Tail(@)]) /\ Head(s.acks) \in SomeAcks
<1> DEFINE t == [s EXCEPT !.acks = Tail(@)]
<1>1. s.acks \in Seq(SomeAcks)
  BY DEF Readers
<1>2. /\ Tail(s.acks) \in Seq(SomeAcks) /\ Head(s.acks) \in SomeAcks
      /\ \A k \in DOMAIN Tail(s.acks) : k + 1 \in DOMAIN s.acks /\ Tail(s.acks)[k] = s.acks[k + 1]
  BY <1>1
<1>3. t \in Readers /\ t.acks = Tail(s.acks)
  BY <1>2 DEF Readers
<1>4. t.id = s.id /\ t.nextSeq = s.nextSeq /\ t.buffer = s.buffer /\ t.eof = s.eof
      /\ t.oooPackets = s.oooPackets
  BY DEF Readers
<1> HIDE DEF t
<1>5. AcksMine(s) => AcksMine(t)
  BY <1>2, <1>3, <1>4 DEF AcksMine
<1>6. QED BY <1>2, <1>3, <1>4, <1>5 DEF Same, t

LEMMA AckSent ==
  ASSUME NEW s \in Readers, NEW fin \in BOOLEAN, NEW cancel \in BOOLEAN
  PROVE  Same(s, Rd!SendAck(s, fin, cancel))
<1> DEFINE ack == [id |-> s.id, seq |-> s.nextSeq, rwnd |-> Rd!Rwnd(s), fin |-> fin,
                   cancel |-> cancel]
           u == [s EXCEPT !.acks = Append(@, ack)]
           t == Rd!SendAck(s, fin, cancel)
<1>1. /\ s.readWindow \in Nat /\ Len(s.buffer) \in Nat /\ s.nextSeq \in Nat /\ s.id \in StreamIds
  BY DEF Readers
<1>2. Rd!Rwnd(s) \in Nat
  BY <1>1 DEF Rd!Rwnd
<1>3. ack \in SomeAcks /\ ack.id = s.id
  BY <1>1, <1>2 DEF SomeAcks
<1>4. t = [u EXCEPT !.lastRwndSent = Rd!Rwnd(s)]
  BY DEF Rd!SendAck, Readers
<1> HIDE DEF ack
<1>5. Same(s, u)
  BY <1>3, AckKept
<1> HIDE DEF u
<1>6. Same(u, t)
  <2>1. u \in Readers
    BY <1>5 DEF Same
  <2> HIDE DEF t
  <2>2. t \in Readers /\ t.acks = u.acks /\ t.id = u.id /\ t.nextSeq = u.nextSeq
        /\ t.buffer = u.buffer /\ t.eof = u.eof /\ t.oooPackets = u.oooPackets
    BY <1>2, <1>4, <2>1 DEF Readers
  <2>3. QED BY <2>2 DEF Same, AcksMine
<1> HIDE DEF t
<1>7. Same(s, t)
  BY <1>5, <1>6 DEF Same
<1>8. QED BY <1>7 DEF t

LEMMA CloseKept == ASSUME NEW s \in Readers PROVE Same(s, Rd!CloseReader(s))
<1> DEFINE u == [s EXCEPT !.closed = TRUE, !.err = IF @ = "none" THEN "closed" ELSE @]
<1>1. Same(s, s)
  BY DEF Same
<1>2. Same(s, u)
  <2>1. u \in Readers /\ u.acks = s.acks /\ u.id = s.id /\ u.nextSeq = s.nextSeq
        /\ u.buffer = s.buffer /\ u.eof = s.eof /\ u.oooPackets = s.oooPackets
    BY DEF Readers
  <2> HIDE DEF u
  <2>2. QED BY <2>1 DEF Same, AcksMine
<1>3. Rd!CloseReader(s) = IF s.closed THEN s ELSE Rd!SendAck(u, FALSE, TRUE)
  BY DEF Rd!CloseReader
<1> HIDE DEF u
<1>4. Same(u, Rd!SendAck(u, FALSE, TRUE))
  BY <1>2, AckSent DEF Same
<1>5. Same(s, Rd!SendAck(u, FALSE, TRUE))
  BY <1>2, <1>4 DEF Same
<1>6. QED BY <1>1, <1>3, <1>5

\* A reader that differs from q at most in what it has received.
Following(q) ==
  {s \in Readers : /\ ReaderFollows(s) /\ s.acks = q.acks /\ s.id = q.id
                   /\ s.nextSeq - Len(s.buffer) = q.nextSeq - Len(q.buffer)
                   /\ s.nextSeq <= cb.totalSize}

\* The packet that is next is appended.
LEMMA OrderedFollows ==
  ASSUME SC!BaseInv, NEW q, NEW s \in Readers, ReaderFollows(s), NEW p \in Packets, Piece(p),
         p.seq = s.nextSeq, s.acks = q.acks, s.id = q.id,
         s.nextSeq - Len(s.buffer) = q.nextSeq - Len(q.buffer)
  PROVE  Rd!RecvDataOrdered(s, p) \in Following(q)
<1> DEFINE t == Rd!RecvDataOrdered(s, p)
           n == Len(p.data)
           m == Len(s.buffer)
           a == s.nextSeq - m
<1>1. /\ n \in Nat /\ p.data \in Seq(Nat) /\ p.seq \in Nat /\ p.end \in {"none", "eof", "error"}
      /\ s.buffer \in Seq(Nat) /\ m \in Nat /\ s.nextSeq \in Nat /\ s.eof \in BOOLEAN
      /\ cb.totalSize \in Nat
  <2>1. s.buffer \in Seq(Nat) /\ s.nextSeq \in Nat /\ s.eof \in BOOLEAN
    BY DEF Readers
  <2>2. p.data \in Seq(Nat) /\ p.seq \in Nat /\ p.end \in {"none", "eof", "error"}
    BY DEF Packets
  <2>3. QED BY <2>1, <2>2, Base
<1>2. t = [s EXCEPT !.buffer = s.buffer \o p.data, !.nextSeq = s.nextSeq + n,
                    !.eof = s.eof \/ p.end = "eof"]
  BY DEF Rd!RecvDataOrdered
<1>3. /\ t.buffer = s.buffer \o p.data /\ t.nextSeq = s.nextSeq + n
      /\ t.eof = (s.eof \/ p.end = "eof") /\ t.oooPackets = s.oooPackets
      /\ t.acks = s.acks /\ t.id = s.id
  BY <1>1, <1>2 DEF Readers
<1>4. t \in Readers
  <2>1. s.buffer \o p.data \in Seq(Nat) /\ s.nextSeq + n \in Nat /\ (s.eof \/ p.end = "eof") \in BOOLEAN
    BY <1>1
  <2>2. QED BY <1>1, <1>2, <2>1 DEF Readers
<1> HIDE DEF t, n
<1>5. a \in Nat /\ s.buffer = Bytes(a, m) /\ p.data = Bytes(s.nextSeq, n) /\ s.nextSeq = a + m
      /\ s.nextSeq + n <= cb.totalSize
  BY <1>1 DEF ReaderFollows, Piece, n
<1> HIDE DEF m, a
<1>6. t.buffer = Bytes(a, m + n) /\ Len(t.buffer) = m + n
  <2>1. t.buffer = Bytes(a, m) \o Bytes(a + m, n)
    BY <1>3, <1>5
  <2>2. t.buffer = Bytes(a, m + n)
    BY <1>1, <1>5, <2>1, BytesJoin
  <2>3. m + n \in Nat
    BY <1>1
  <2>4. QED BY <1>5, <2>2, <2>3, BytesOK
<1>7. /\ t.nextSeq <= cb.totalSize /\ t.nextSeq - Len(t.buffer) = a /\ t.nextSeq >= Len(t.buffer)
  <2>1. t.nextSeq = (a + m) + n /\ Len(t.buffer) = m + n
    BY <1>3, <1>5, <1>6
  <2>2. QED BY <1>1, <1>3, <1>5, <2>1
<1>8. t.eof => terminalEvent # "none" /\ t.nextSeq = eofPos
  <2>1. CASE p.end = "eof"
    <3>1. terminalEvent # "none" /\ p.seq = eofPos /\ p.data = << >>
      BY <2>1 DEF Piece
    <3>2. n = 0
      BY <3>1 DEF n
    <3>3. QED BY <1>1, <1>3, <3>1, <3>2
  <2>2. CASE p.end # "eof" /\ s.eof
    <3>1. terminalEvent # "none" /\ s.nextSeq = eofPos
      BY <2>2 DEF ReaderFollows
    <3>2. eofPos = cb.totalSize
      BY <3>1, Base
    <3>3. n = 0
      BY <1>1, <1>5, <3>1, <3>2
    <3>4. QED BY <1>1, <1>3, <3>1, <3>3
  <2>3. QED BY <1>3, <2>1, <2>2
<1>9. ReaderFollows(t)
  BY <1>3, <1>6, <1>7, <1>8 DEF ReaderFollows
<1>10. s.nextSeq - Len(s.buffer) = a
  BY DEF a, m
<1>11. QED BY <1>3, <1>4, <1>7, <1>9, <1>10 DEF Following, t

LEMMA RoundFollows ==
  ASSUME SC!BaseInv, NEW q, NEW s \in Following(q)
  PROVE  Rd!OOORound(s) \in Following(q)
<1>1. /\ s \in Readers /\ ReaderFollows(s)
      /\ s.oooPackets \subseteq Packets
  BY DEF Following, Readers
<1> DEFINE first == CHOOSE p \in s.oooPackets : \A o \in s.oooPackets : p.seq <= o.seq
           u == [s EXCEPT !.oooPackets = @ \ {first}]
           d == [s EXCEPT !.oooPackets = {}]
<1>2. CASE s.oooPackets = {}
  BY <1>2 DEF Rd!OOORound
<1>3. CASE s.oooPackets # {} /\ s.eof
  <2>1. Rd!OOORound(s) = d
    BY <1>3 DEF Rd!OOORound
  <2>2. d \in Readers /\ d.oooPackets = {} /\ IsFiniteSet({})
    BY <1>1, FS_EmptySet DEF Readers
  <2>3. d.acks = s.acks /\ d.id = s.id /\ d.nextSeq = s.nextSeq /\ d.buffer = s.buffer
        /\ d.eof = s.eof
    BY <1>1 DEF Readers
  <2> HIDE DEF d
  <2>4. QED BY <1>1, <2>1, <2>2, <2>3 DEF Following, ReaderFollows
<1>4. CASE s.oooPackets # {} /\ ~s.eof
  <2>1. first \in s.oooPackets
    <3> DEFINE T == {p.seq : p \in s.oooPackets}
    <3>1. T \subseteq Nat /\ T # {}
      BY <1>1, <1>4 DEF Packets
    <3>2. PICK n \in T : \A m \in T : n <= m
      <4> HIDE DEF T
      <4>1. QED BY <3>1, LeastOf
    <3>3. PICK p \in s.oooPackets : p.seq = n
      BY <3>2
    <3>4. \A o \in s.oooPackets : p.seq <= o.seq
      BY <3>2, <3>3
    <3>5. QED BY <3>4
  <2> HIDE DEF first
  <2>2. /\ u \in Readers /\ u.oooPackets = s.oooPackets \ {first} /\ u.acks = s.acks
        /\ u.id = s.id /\ u.nextSeq = s.nextSeq /\ u.buffer = s.buffer /\ u.eof = s.eof
    BY <1>1 DEF Readers
  <2>3. first \in Packets /\ Piece(first)
    BY <1>1, <2>1 DEF ReaderFollows
  <2>4. CASE first.seq = s.nextSeq
    <3>1. Rd!OOORound(s) = Rd!RecvDataOrdered(u, first)
      BY <1>4, <2>4 DEF Rd!OOORound, first
    <3> HIDE DEF u
    <3>2. IsFiniteSet(u.oooPackets)
      <4>1. IsFiniteSet(s.oooPackets)
        BY <1>1 DEF ReaderFollows
      <4>2. QED BY <2>2, <4>1, FS_RemoveElement
    <3>3. ReaderFollows(u)
      BY <1>1, <2>2, <3>2 DEF ReaderFollows
    <3>4. u.acks = q.acks /\ u.id = q.id /\ u.nextSeq - Len(u.buffer) = q.nextSeq - Len(q.buffer)
      BY <2>2 DEF Following
    <3>5. QED BY <2>2, <2>3, <2>4, <3>1, <3>3, <3>4, OrderedFollows
  <2>5. CASE first.seq # s.nextSeq
    BY <1>4, <2>5 DEF Rd!OOORound, first
  <2>6. QED BY <2>4, <2>5
<1>5. QED BY <1>2, <1>3, <1>4

\* What a reader becomes when it receives p.
Received(s, t, p) ==
  /\ t \in Readers /\ ReaderFollows(t) /\ t.id = s.id
  /\ AcksMine(s) => AcksMine(t)
  /\ t.nextSeq - Len(t.buffer) = s.nextSeq - Len(s.buffer)
  /\ \/ t.nextSeq = s.nextSeq /\ t.buffer = s.buffer /\ t.eof = s.eof
     \/ p.id = s.id /\ p.seq <= s.nextSeq /\ ~s.eof /\ t.nextSeq <= cb.totalSize

LEMMA SameReceived ==
  ASSUME NEW s, NEW t, NEW p, Same(s, t), ReaderFollows(s)
  PROVE  Received(s, t, p)
  BY SameFollows DEF Same, Received

LEMMA RecvDataOK ==
  ASSUME SC!BaseInv, NEW s \in Readers, ReaderFollows(s), NEW p \in Packets, Piece(p)
  PROVE  Received(s, Rd!RecvData(s, p), p)
<1>0. Same(s, s)
  BY DEF Same
<1>1. CASE ~Rd!Receiving(s) \/ p.id # s.id \/ Rd!Old(s, p)
  <2>1. Rd!RecvData(s, p) = s
    BY <1>1 DEF Rd!RecvData
  <2>2. QED BY <1>0, <2>1, SameReceived
<1>2. CASE Rd!Receiving(s) /\ p.id = s.id /\ ~Rd!Old(s, p) /\ p.end = "error"
  <2> DEFINE u == [s EXCEPT !.err = "stream"]
  <2>1. u \in Readers /\ u.buffer = s.buffer /\ u.nextSeq = s.nextSeq /\ u.id = s.id
        /\ u.oooPackets = s.oooPackets /\ u.eof = s.eof /\ u.acks = s.acks
    BY DEF Readers
  <2>2. Rd!RecvData(s, p) = Rd!SendAck(u, TRUE, FALSE)
    BY <1>2 DEF Rd!RecvData
  <2> HIDE DEF u
  <2>3. Same(u, Rd!SendAck(u, TRUE, FALSE))
    BY <2>1, AckSent
  <2>4. Same(s, Rd!SendAck(u, TRUE, FALSE))
    BY <2>1, <2>3 DEF Same, AcksMine
  <2>5. QED BY <2>2, <2>4, SameReceived
<1>3. CASE Rd!Receiving(s) /\ p.id = s.id /\ ~Rd!Old(s, p) /\ p.end # "error" /\ p.seq > s.nextSeq
  <2>1. Rd!RecvData(s, p) = Rd!AddOOOPacket(s, p)
    BY <1>3 DEF Rd!RecvData
  <2>2. CASE \E q \in s.oooPackets : q.seq = p.seq
    <3>1. Rd!RecvData(s, p) = s
      BY <2>1, <2>2 DEF Rd!AddOOOPacket
    <3>2. QED BY <1>0, <3>1, SameReceived
  <2>3. CASE ~\E q \in s.oooPackets : q.seq = p.seq
    <3> DEFINE u == [s EXCEPT !.oooPackets = @ \cup {p}]
    <3>1. Rd!RecvData(s, p) = u
      BY <2>1, <2>3 DEF Rd!AddOOOPacket
    <3>2. /\ u \in Readers /\ u.buffer = s.buffer /\ u.nextSeq = s.nextSeq /\ u.id = s.id
          /\ u.oooPackets = s.oooPackets \cup {p} /\ u.eof = s.eof /\ u.acks = s.acks
      BY DEF Readers
    <3> HIDE DEF u
    <3>3. IsFiniteSet(u.oooPackets)
      BY <3>2, FS_AddElement DEF ReaderFollows
    <3>4. ReaderFollows(u)
      BY <3>2, <3>3 DEF ReaderFollows
    <3>5. QED BY <3>1, <3>2, <3>4 DEF Received, AcksMine
  <2>4. QED BY <2>2, <2>3
<1>4. CASE Rd!Receiving(s) /\ p.id = s.id /\ ~Rd!Old(s, p) /\ p.end # "error" /\ ~(p.seq > s.nextSeq)
  <2> DEFINE u == Rd!RecvDataOrdered(s, p)
             v == Rd!ProcessOOOPackets(u)
  <2>1. p.seq = s.nextSeq /\ p.seq <= s.nextSeq
    <3>1. p.seq \in Nat /\ s.nextSeq \in Nat /\ ~(p.seq < s.nextSeq)
      BY <1>4 DEF Packets, Readers, Rd!Old
    <3>2. QED BY <1>4, <3>1
  <2>2. u \in Following(s)
    BY <1>4, <2>1, OrderedFollows
  <2>3. Rd!RecvData(s, p) = Rd!SendAck(v, v.eof, FALSE)
    BY <1>4 DEF Rd!RecvData
  <2> HIDE DEF u
  <2>4. Cardinality(u.oooPackets) \in Nat
    BY <2>2, FS_CardinalityType DEF Following, ReaderFollows
  <2>5. v \in Following(s)
    BY <2>2, <2>4, RoundFollows, RoundsKeep
  <2> HIDE DEF v
  <2>6. /\ v \in Readers /\ ReaderFollows(v) /\ v.acks = s.acks /\ v.id = s.id /\ v.eof \in BOOLEAN
        /\ v.nextSeq - Len(v.buffer) = s.nextSeq - Len(s.buffer) /\ v.nextSeq <= cb.totalSize
    BY <2>5 DEF Following, Readers
  <2>7. ~s.eof
    BY <1>4 DEF Rd!Receiving
  <2> DEFINE t == Rd!SendAck(v, v.eof, FALSE)
  <2>8. Same(v, t)
    BY <2>6, AckSent
  <2> HIDE DEF t
  <2>9. ReaderFollows(t)
    BY <2>6, <2>8, SameFollows
  <2>10. AcksMine(s) => AcksMine(t)
    BY <2>6, <2>8 DEF Same, AcksMine
  <2>11. Received(s, t, p)
    BY <1>4, <2>1, <2>6, <2>7, <2>8, <2>9, <2>10 DEF Received, Same
  <2>12. QED BY <2>3, <2>11 DEF t
<1>5. QED BY <1>1, <1>2, <1>3, <1>4

\* A Read takes bytes off the front.
LEMMA ReadOK ==
  ASSUME NEW s \in Readers, ReaderFollows(s), NEW n \in 1 .. Len(s.buffer)
  PROVE  LET t == Rd!Read(s, n)
             h == SubSeq(s.buffer, 1, n)
         IN  /\ t \in Readers /\ ReaderFollows(t) /\ t.id = s.id /\ t.nextSeq = s.nextSeq
             /\ t.eof = s.eof /\ (AcksMine(s) => AcksMine(t))
             /\ Len(t.buffer) = Len(s.buffer) - n /\ Len(h) = n /\ h \in Seq(Nat)
             /\ h = Bytes(s.nextSeq - Len(s.buffer), n)
             /\ s.nextSeq <= cb.totalSize
<1> DEFINE t == Rd!Read(s, n)
           m == Len(s.buffer)
           a == s.nextSeq - m
           b == SubSeq(s.buffer, n + 1, m)
           u == [s EXCEPT !.buffer = SubSeq(@, n + 1, Len(@))]
<1>1. s.buffer \in Seq(Nat) /\ m \in Nat /\ n \in Nat /\ n <= m /\ s.nextSeq \in Nat /\ a \in Nat
      /\ s.buffer = Bytes(a, m) /\ s.nextSeq = a + m /\ s.buffer # << >>
      /\ s.nextSeq <= cb.totalSize
  <2>1. s.buffer \in Seq(Nat) /\ s.nextSeq \in Nat
    BY DEF Readers
  <2>2. m \in Nat /\ n \in Nat /\ n <= m /\ s.buffer # << >>
    BY <2>1
  <2>3. QED BY <2>1, <2>2 DEF ReaderFollows
<1>2. /\ u \in Readers /\ u.buffer = b /\ u.nextSeq = s.nextSeq /\ u.id = s.id
      /\ u.oooPackets = s.oooPackets /\ u.eof = s.eof /\ u.acks = s.acks
  <2>1. b \in Seq(Nat)
    BY <1>1
  <2>2. QED BY <2>1 DEF Readers
<1>3. t = IF Rd!Announces(u) THEN Rd!SendAck(u, FALSE, FALSE) ELSE u
  BY DEF Rd!Read
<1> HIDE DEF u
<1>4. Same(u, t)
  <2>1. Same(u, u)
    BY <1>2 DEF Same
  <2>2. Same(u, Rd!SendAck(u, FALSE, FALSE))
    BY <1>2, AckSent
  <2>3. QED BY <1>3, <2>1, <2>2
<1> HIDE DEF t, m, a
<1>5. SubSeq(s.buffer, 1, n) = Bytes(a, n) /\ b = Bytes(a + n, m - n)
  <2>1. n \in 0 .. m
    BY <1>1
  <2>2. /\ SubSeq(Bytes(a, m), 1, n) = Bytes(a, n)
        /\ SubSeq(Bytes(a, m), n + 1, m) = Bytes(a + n, m - n)
    BY <1>1, <2>1, BytesCut
  <2>3. QED BY <1>1, <2>2
<1>6. /\ Len(b) = m - n /\ Len(SubSeq(s.buffer, 1, n)) = n
      /\ SubSeq(s.buffer, 1, n) \in Seq(Nat)
  <2>1. a + n \in Nat /\ m - n \in Nat
    BY <1>1
  <2>2. QED BY <1>1, <1>5, <2>1, BytesOK
<1> HIDE DEF b
<1>7. ReaderFollows(u)
  <2>1. u.nextSeq >= Len(u.buffer) /\ u.nextSeq - Len(u.buffer) = a + n
    BY <1>1, <1>2, <1>6
  <2>2. u.buffer = Bytes(u.nextSeq - Len(u.buffer), Len(u.buffer))
    BY <1>2, <1>5, <1>6, <2>1
  <2>3. QED BY <1>1, <1>2, <2>1, <2>2 DEF ReaderFollows
<1>8. ReaderFollows(t)
  BY <1>4, <1>7, SameFollows
<1>9. /\ t \in Readers /\ t.id = s.id /\ t.nextSeq = s.nextSeq
      /\ t.eof = s.eof /\ (AcksMine(s) => AcksMine(t)) /\ Len(t.buffer) = m - n
  BY <1>2, <1>4, <1>6 DEF Same, AcksMine
<1>10. a = s.nextSeq - Len(s.buffer) /\ m = Len(s.buffer)
  BY DEF a, m
<1>11. QED BY <1>1, <1>5, <1>6, <1>8, <1>9, <1>10 DEF t
-----------------------------------------------------------------------------
(* What a step that leaves their variables alone keeps.                      *)

LEMMA PiecesStay ==
  ASSUME SC!BaseInv, Goes
  PROVE  \A p \in Packets : Piece(p) => Piece(p)'
<1> SUFFICES ASSUME NEW p \in Packets, Piece(p) PROVE Piece(p)'
  OBVIOUS
<1>1. p.seq + Len(p.data) \in Nat
  BY DEF Packets
<1>2. cb.totalSize \in Nat /\ cb.totalSize <= cb'.totalSize
  BY Base DEF Goes, Grows
<1>3. (cb.totalSize \in Nat)'
  BY Base, PTL DEF Goes
<1>4. p.seq + Len(p.data) <= cb'.totalSize
  <2> DEFINE e == p.seq + Len(p.data)
  <2>1. e \in Nat /\ e <= cb.totalSize
    BY <1>1 DEF Piece
  <2> HIDE DEF e
  <2>2. e <= cb'.totalSize
    BY <1>2, <1>3, <2>1
  <2>3. QED BY <2>2 DEF e
<1>5. p.end = "eof" => terminalEvent' # "none" /\ p.seq = eofPos'
  BY DEF Piece, Goes, Grows
<1>6. QED BY <1>4, <1>5 DEF Piece

LEMMA ReadersStay ==
  ASSUME SC!BaseInv, Goes
  PROVE  \A r \in Readers : /\ ReaderFollows(r) => ReaderFollows(r)'
                            /\ \A l \in LoopStates : LoopFollows(l, r) => LoopFollows(l, r)'
<1> SUFFICES ASSUME NEW r \in Readers
             PROVE  /\ ReaderFollows(r) => ReaderFollows(r)'
                    /\ \A l \in LoopStates : LoopFollows(l, r) => LoopFollows(l, r)'
  OBVIOUS
<1>1. r.nextSeq \in Nat /\ r.oooPackets \subseteq Packets
  BY DEF Readers
<1>2. cb.totalSize \in Nat /\ cb.totalSize <= cb'.totalSize
  BY Base DEF Goes, Grows
<1>3. (cb.totalSize \in Nat)'
  BY Base, PTL DEF Goes
<1>4. r.nextSeq <= cb.totalSize => r.nextSeq <= cb'.totalSize
  BY <1>1, <1>2, <1>3
<1>5. \A p \in r.oooPackets : Piece(p) => Piece(p)'
  BY <1>1, PiecesStay
<1>6. terminalEvent # "none" => terminalEvent' # "none" /\ eofPos' = eofPos
  BY DEF Goes, Grows
<1>7. ReaderFollows(r) => ReaderFollows(r)'
  BY <1>4, <1>5, <1>6 DEF ReaderFollows
<1>8. ASSUME NEW l \in LoopStates, LoopFollows(l, r)
      PROVE  LoopFollows(l, r)'
  BY <1>4, <1>8 DEF LoopFollows
<1>9. QED BY <1>7, <1>8

ReadersOK == \A id \in StreamIds : ReaderOK(id) /\ LoopFollows(loop[id], reader[id])

LEMMA ReadersKept ==
  ASSUME SC!BaseInv, Goes, BytesInv, UNCHANGED <<reader, loop>>
  PROVE  ReadersOK'
<1> SUFFICES ASSUME NEW id \in StreamIds
             PROVE  ReaderOK(id)' /\ LoopFollows(loop[id], reader[id])'
  BY DEF ReadersOK
<1>1. reader[id] \in Readers /\ loop[id] \in LoopStates
  BY DEF BytesInv, FileTyped
<1>2. ReaderOK(id) /\ LoopFollows(loop[id], reader[id])
  BY DEF BytesInv
<1>3. PICK r \in Readers, l \in LoopStates : r = reader[id] /\ l = loop[id]
  BY <1>1
<1>4. ReaderFollows(r)' /\ LoopFollows(l, r)'
  BY <1>2, <1>3, ReadersStay DEF ReaderOK
<1>5. reader'[id] = r /\ loop'[id] = l
  BY <1>3
<1>6. ReaderFollows(reader[id])' /\ LoopFollows(loop[id], reader[id])'
  BY <1>4, <1>5 DEF ReaderFollows, LoopFollows, Piece
<1>7. QED BY <1>2, <1>6 DEF ReaderOK

\* One reader and its loop change.
LEMMA ReaderChanged ==
  ASSUME SC!BaseInv, Goes, BytesInv, NEW id \in StreamIds, NEW r \in Readers, NEW l \in LoopStates,
         r.id = id, AcksMine(r), ReaderFollows(r), LoopFollows(l, r),
         reader' = [reader EXCEPT ![id] = r], loop' = [loop EXCEPT ![id] = l]
  PROVE  ReadersOK' /\ reader' \in [StreamIds -> Readers] /\ loop' \in [StreamIds -> LoopStates]
<1>1. reader \in [StreamIds -> Readers] /\ loop \in [StreamIds -> LoopStates]
  BY DEF BytesInv, FileTyped
<1>2. reader' \in [StreamIds -> Readers] /\ loop' \in [StreamIds -> LoopStates]
  BY <1>1
<1>3. ASSUME NEW j \in StreamIds
      PROVE  ReaderOK(j)' /\ LoopFollows(loop[j], reader[j])'
  <2>1. ReaderOK(j) /\ LoopFollows(loop[j], reader[j])
    BY DEF BytesInv
  <2>2. PICK s \in Readers, m \in LoopStates :
          s = (IF j = id THEN r ELSE reader[j]) /\ m = (IF j = id THEN l ELSE loop[j])
    BY <1>1
  <2>3. s.id = j /\ AcksMine(s) /\ ReaderFollows(s) /\ LoopFollows(m, s)
    BY <2>1, <2>2 DEF ReaderOK, AcksMine
  <2>4. ReaderFollows(s)' /\ LoopFollows(m, s)'
    BY <2>3, ReadersStay
  <2>5. reader'[j] = s /\ loop'[j] = m
    BY <1>1, <2>2
  <2>6. ReaderFollows(reader[j])' /\ LoopFollows(loop[j], reader[j])'
    BY <2>4, <2>5 DEF ReaderFollows, LoopFollows, Piece
  <2>7. QED BY <2>3, <2>5, <2>6 DEF ReaderOK, AcksMine
<1>4. QED BY <1>2, <1>3 DEF ReadersOK

LEMMA PiecesKept ==
  ASSUME SC!BaseInv, Goes, Pieces, packets \in Seq(Packets),
         sendPc' = "sending" => sendPc = "sending" /\ packet' = packet,
         \A k \in DOMAIN packets' : \E j \in DOMAIN packets : packets'[k] = packets[j]
  PROVE  Pieces'
<1>1. sendPc' = "sending" => Piece(packet)'
  <2> SUFFICES ASSUME sendPc' = "sending" PROVE Piece(packet)'
    OBVIOUS
  <2>1. PICK p \in Packets : p = packet
    BY Base
  <2>2. Piece(p)'
    BY <2>1, PiecesStay DEF Pieces
  <2>3. QED BY <2>1, <2>2 DEF Piece
<1>2. ASSUME NEW k \in DOMAIN packets'
      PROVE  Piece(packets[k])'
  <2>1. PICK j \in DOMAIN packets : packets'[k] = packets[j]
    BY <1>2
  <2>2. PICK p \in Packets : p = packets[j]
    OBVIOUS
  <2>3. Piece(p)'
    BY <2>2, PiecesStay DEF Pieces
  <2>4. QED BY <2>1, <2>2, <2>3 DEF Piece
<1>3. QED BY <1>1, <1>2 DEF Pieces

LEMMA BytesKept ==
  ASSUME SC!BaseInv, Goes, BytesInv, packets \in Seq(Packets), sendPc' = "sending" <=> sendPc = "sending",
         UNCHANGED <<reader, loop, file, totalGap, saved, crashes, packet, packets>>
  PROVE  BytesInv'
<1>1. Pieces'
  <2>1. \A k \in DOMAIN packets' : \E j \in DOMAIN packets : packets'[k] = packets[j]
    OBVIOUS
  <2>2. QED BY <2>1, PiecesKept DEF BytesInv
<1>2. FileTyped'
  BY DEF BytesInv, FileTyped
<1>3. QED BY <1>1, <1>2, ReadersKept DEF BytesInv, ReadersOK

LEMMA IdsKept ==
  ASSUME IdInv, sendPc' = "sending" <=> sendPc = "sending", writers' \subseteq writers,
         UNCHANGED <<conns, conn, pendingId, streamConn, calls, packets, prep, restart,
                     loop, jobStream, streamId, packet>>
  PROVE  IdInv'
  BY DEF IdInv, NetTyped, CallsNumbered, RestartNumbered, AskedOnce, Sending, Opened

LEMMA ConnectingKept ==
  ASSUME SC!BaseInv, Goes, Connecting, UNCHANGED <<connecting, prep>>
  PROVE  Connecting'
<1>1. HeadPos(cb) \in Nat /\ HeadPos(cb) <= HeadPos(cb')
  BY Base DEF Goes, Grows
<1>2. (HeadPos(cb) \in Nat)'
  BY Base, PTL DEF Goes
<1>3. connecting \in SC!Connects
  BY Base
<1>4. connecting.head \in Nat /\ connecting.clientSeq \in Nat /\ StartSeq \in Nat
  BY <1>3 DEF SC!Connects, StartSeq
<1>5. \A n \in Nat : n <= HeadPos(cb) => n <= HeadPos(cb')
  BY <1>1, <1>2
<1>6. StartSeq' = StartSeq
  BY DEF StartSeq
<1>7. QED BY <1>4, <1>5, <1>6 DEF Connecting

LEMMA CorkedKept ==
  ASSUME CorkedInv, writers' \subseteq writers, connected' => connected,
         UNCHANGED <<pendingId, packets, packet, streamId, rwndSize>>
  PROVE  CorkedInv'
  BY DEF CorkedInv, Corked

LEMMA AskedKept ==
  ASSUME SC!BaseInv, Goes, Asked, restart \in Restarts,
         sendPc' = "sending" <=> sendPc = "sending", connected' => connected,
         UNCHANGED <<restart, reader, streamId, packet, packets>>
  PROVE  Asked'
<1>1. HeadPos(cb) \in Nat /\ HeadPos(cb) <= HeadPos(cb') /\ cb.totalSize \in Nat
      /\ cb.totalSize <= cb'.totalSize
  BY Base DEF Goes, Grows
<1>2. (HeadPos(cb) \in Nat)' /\ (cb.totalSize \in Nat)'
  BY Base, PTL DEF Goes
<1>3. restart.start \in Nat
  BY DEF Restarts
<1>4. /\ HeadPos(cb) >= restart.start => HeadPos(cb') >= restart.start
      /\ restart.start <= cb.totalSize => restart.start <= cb'.totalSize
  BY <1>1, <1>2, <1>3
<1>5. QED BY <1>4 DEF Asked, Behind

LEMMA FileKept ==
  ASSUME Goes, FileInv, RestartFollows => RestartFollows',
         UNCHANGED <<reader, loop, file, totalGap, jobStream, saved, overtaken, streamDone, crashes>>
  PROVE  FileInv'
<1>1. Position' = Position
  BY DEF Position
<1>2. AtEnd => AtEnd'
  BY <1>1 DEF AtEnd, Goes, Grows
<1>3. Follows => Follows'
  BY <1>1 DEF Follows, At, Behind
<1>4. Ended => Ended'
  BY <1>2 DEF Ended
<1>5. QED BY <1>3, <1>4 DEF FileInv, InPlace

\* restartStreaming is where it was.
LEMMA RestartKept ==
  ASSUME UNCHANGED <<restart, reader, file, totalGap>>
  PROVE  RestartFollows => RestartFollows'
  BY DEF RestartFollows, Behind, Position, Gap
-----------------------------------------------------------------------------
(* The connection.                                                           *)

LEMMA StreamNumbers == 0 \notin StreamIds /\ StreamIds = 1 .. MaxConns /\ StreamIds \subseteq Nat
                       /\ NoStream = 0 /\ Window \in Nat \ {0} /\ 1 \in StreamIds
  BY DurableAssumption, StreamAssumption

LEMMA DropKeeps == ASSUME DurableInv, Drop PROVE DurableInv'
<1>1. /\ conn # 0 /\ conn' = 0 /\ packets' = << >> /\ writers' = {} /\ calls' \subseteq calls
      /\ UNCHANGED <<smVars, conns, jmClient, pendingId, streamConn, prep, reader, known,
                     loop, jobStream, restart, fileVars, crashes, overtaken>>
  BY DEF Drop
<1>2. /\ UNCHANGED <<streamId, sendPc, packet, connected, rwndSize, connecting>>
      /\ UNCHANGED <<file, totalGap, saved, streamDone>>
  BY <1>1 DEF smVars, clientVars, senderVars, fileVars
<1>3. Goes
  BY <1>1, RestGoes DEF DurableInv
<1>4. << >> \in Seq(Packets)
  OBVIOUS
<1>5. IdInv'
  <2>1. NetTyped'
    BY <1>1, <1>4 DEF DurableInv, IdInv, NetTyped
  <2>2. CallsNumbered'
    BY <1>1 DEF DurableInv, IdInv, CallsNumbered, Opened
  <2>3. RestartNumbered'
    BY <1>1 DEF DurableInv, IdInv, RestartNumbered
  <2>4. AskedOnce'
    <3>1. restart.step # "idle" => restart.conn # 0
      BY StreamNumbers DEF DurableInv, IdInv, RestartNumbered, NetTyped
    <3>2. QED BY <1>1, <3>1 DEF DurableInv, IdInv, AskedOnce, Opened
  <2>5. Sending'
    BY <1>1, <1>2 DEF DurableInv, IdInv, Sending, Opened
  <2>6. QED BY <2>1, <2>2, <2>3, <2>4, <2>5 DEF IdInv
<1>6. Connecting'
  BY <1>1, <1>2, <1>3, ConnectingKept DEF DurableInv
<1>7. CorkedInv'
  BY <1>1, <1>2 DEF DurableInv, CorkedInv, Corked
<1>8. BytesInv'
  <2>1. Pieces'
    BY <1>1, <1>2, <1>3, PiecesKept DEF DurableInv, BytesInv, IdInv, NetTyped
  <2>2. ReadersOK'
    BY <1>1, <1>3, ReadersKept DEF DurableInv
  <2>3. QED BY <1>1, <1>2, <2>1, <2>2 DEF DurableInv, BytesInv, FileTyped, ReadersOK
<1>9. Asked'
  BY <1>1, <1>2 DEF DurableInv, Asked, Behind, HeadPos, smVars
<1>10. FileInv'
  BY <1>1, <1>2, <1>3, FileKept, RestartKept DEF DurableInv
<1>11. QED BY <1>3, <1>5, <1>6, <1>7, <1>8, <1>9, <1>10 DEF DurableInv, Goes

LEMMA ReconnectKeeps == ASSUME DurableInv, Reconnect PROVE DurableInv'
<1>1. /\ conn = 0 /\ conns < MaxConns /\ restart.step = "idle" /\ conn' = conns + 1
      /\ conns' = conns + 1
      /\ restart' = [NoRestart EXCEPT !.step = "stat", !.conn = conns + 1]
      /\ UNCHANGED <<smVars, jmVars, calls, packets, reader, known, loop, jobStream,
                     fileVars, crashes, overtaken>>
  BY DEF Reconnect
<1>2. /\ UNCHANGED <<streamId, sendPc, packet, connected, rwndSize, connecting>>
      /\ UNCHANGED <<file, totalGap, saved, streamDone>>
      /\ UNCHANGED <<pendingId, writers, streamConn, prep>>
  BY <1>1 DEF smVars, clientVars, senderVars, fileVars, jmVars
<1>3. Goes
  BY <1>1, RestGoes DEF DurableInv
<1>4. conns + 1 \in StreamIds /\ conns \in Nat /\ StreamIds \subseteq Nat
  BY <1>1, StreamNumbers, DurableAssumption DEF DurableInv, IdInv, NetTyped
<1>5. restart'.step = "stat" /\ restart'.conn = conns' /\ restart' \in Restarts
  BY <1>1, <1>4, StreamNumbers DEF NoRestart, Restarts
<1>6. /\ \A id \in StreamIds : id <= conns => id <= conns' /\ id # conns'
      /\ \A id \in 1 .. conns : id \in 1 .. conns' /\ id # conns'
  BY <1>1, <1>4
<1>7. IdInv'
  <2>1. NetTyped'
    BY <1>1, <1>2, <1>4, <1>5 DEF DurableInv, IdInv, NetTyped
  <2>2. CallsNumbered'
    <3>1. calls \subseteq SomeCalls
      BY DEF DurableInv, IdInv, NetTyped
    <3>2. \A call \in calls : call.id \in StreamIds
      BY <3>1 DEF SomeCalls
    <3>3. QED BY <1>1, <1>2, <1>6, <3>2 DEF DurableInv, IdInv, CallsNumbered, Opened
  <2>3. RestartNumbered'
    BY <1>1, <1>5, <1>6 DEF DurableInv, IdInv, RestartNumbered
  <2>4. AskedOnce'
    <3>1. ~Opened(conns + 1)
      BY <1>1, <1>4, <1>6 DEF DurableInv, IdInv, CallsNumbered
    <3>2. \A call \in calls : call.id # conns + 1
      <4>1. \A call \in calls : call.id \in StreamIds /\ call.id <= conns
        BY DEF DurableInv, IdInv, NetTyped, CallsNumbered, SomeCalls
      <4>2. QED BY <1>1, <1>6, <4>1
    <3>3. prep.step # "none" => prep.id # conns + 1
      BY <1>1, <1>6 DEF DurableInv, IdInv, CallsNumbered
    <3>4. QED BY <1>1, <1>2, <1>5, <3>1, <3>2, <3>3 DEF AskedOnce, Opened
  <2>5. Sending'
    BY <1>1, <1>2 DEF DurableInv, IdInv, Sending, Opened
  <2>6. QED BY <2>1, <2>2, <2>3, <2>4, <2>5 DEF IdInv
<1>8. Connecting'
  BY <1>1, <1>2, <1>3, ConnectingKept DEF DurableInv
<1>9. CorkedInv'
  BY <1>1, <1>2, CorkedKept DEF DurableInv
<1>10. BytesInv'
  BY <1>1, <1>2, <1>3, BytesKept DEF DurableInv, IdInv, NetTyped
<1>11. Asked'
  BY <1>5 DEF Asked
<1>12. FileInv'
  <2>1. Position' = Position
    BY <1>2 DEF Position
  <2>2. RestartFollows'
    BY <1>5 DEF RestartFollows
  <2>3. Follows => Follows'
    BY <1>1, <2>1 DEF Follows, At, Behind
  <2>4. Ended => Ended'
    BY <1>1, <1>2, <1>3, <2>1 DEF Ended, AtEnd, Goes, Grows
  <2>5. QED BY <1>1, <1>2, <2>2, <2>3, <2>4 DEF DurableInv, FileInv, InPlace
<1>13. QED BY <1>3, <1>7, <1>8, <1>9, <1>10, <1>11, <1>12 DEF DurableInv, Goes

\* A reader that has just been made.
LEMMA NewReaderOK ==
  ASSUME NEW id \in StreamIds, NEW seq \in Nat
  PROVE  LET r == Rd!NewReader(id, Window, seq)
         IN  /\ r \in Readers /\ r.id = id /\ AcksMine(r) /\ ReaderFollows(r)
             /\ r.nextSeq = seq /\ r.buffer = << >> /\ ~r.eof
             /\ \A l \in LoopStates : l.hold = << >> /\ l.end = "none" => LoopFollows(l, r)
<1> DEFINE r == Rd!NewReader(id, Window, seq)
<1>1. << >> \in Seq(Nat) /\ << >> \in Seq(SomeAcks) /\ Window \in Nat /\ Len(<< >>) = 0
  BY StreamNumbers
<1>2. /\ r.id = id /\ r.nextSeq = seq /\ r.buffer = << >> /\ r.eof = FALSE /\ r.oooPackets = {}
      /\ r.acks = << >>
  BY DEF Rd!NewReader
<1>3. r \in Readers
  BY <1>1 DEF Rd!NewReader, Readers
<1> HIDE DEF r
<1>4. seq - 0 = seq /\ seq >= 0 /\ Bytes(seq, 0) = << >>
  BY NoBytes
<1>5. ReaderFollows(r)
  BY <1>1, <1>2, <1>4, FS_EmptySet DEF ReaderFollows
<1>6. AcksMine(r)
  BY <1>2 DEF AcksMine
<1>7. ASSUME NEW l \in LoopStates, l.hold = << >>, l.end = "none"
      PROVE  LoopFollows(l, r)
  BY <1>1, <1>2, <1>4, <1>7 DEF LoopFollows
<1>8. QED BY <1>2, <1>3, <1>5, <1>6, <1>7 DEF r

LEMMA NoLoopOK == NoLoop \in LoopStates /\ NoLoop.hold = << >> /\ NoLoop.end = "none"
                  /\ NoLoop.step = "none"
<1>1. << >> \in Seq(Nat)
  OBVIOUS
<1>2. QED BY <1>1 DEF NoLoop, LoopStates

LEMMA CrashKeeps == ASSUME DurableInv, Crash PROVE DurableInv'
<1>1. /\ crashes' = crashes + 1 /\ conn' = 0 /\ packets' = << >> /\ writers' = {}
      /\ calls' \subseteq calls
      /\ reader' = [id \in StreamIds |-> Rd!NewReader(id, Window, 0)]
      /\ loop' = [id \in StreamIds |-> NoLoop]
      /\ jobStream' = NoStream /\ restart' = NoRestart
      /\ file' = saved.file /\ totalGap' = saved.totalGap
      /\ UNCHANGED <<smVars, conns, jmClient, pendingId, streamConn, prep, saved, streamDone,
                     overtaken>>
  BY DEF Crash
<1>2. UNCHANGED <<streamId, sendPc, packet, connected, rwndSize, connecting>>
  BY <1>1 DEF smVars, clientVars, senderVars
<1>3. Goes
  BY <1>1, RestGoes DEF DurableInv
<1>4. << >> \in Seq(Packets) /\ restart' \in Restarts /\ restart'.step = "idle"
  BY <1>1, StreamNumbers DEF NoRestart, Restarts
<1>5. IdInv'
  <2>1. NetTyped'
    BY <1>1, <1>4 DEF DurableInv, IdInv, NetTyped
  <2>2. CallsNumbered'
    BY <1>1 DEF DurableInv, IdInv, CallsNumbered, Opened
  <2>3. RestartNumbered'
    BY <1>1, <1>4, NoLoopOK DEF RestartNumbered
  <2>4. AskedOnce'
    BY <1>4 DEF AskedOnce
  <2>5. Sending'
    BY <1>1, <1>2 DEF DurableInv, IdInv, Sending, Opened
  <2>6. QED BY <2>1, <2>2, <2>3, <2>4, <2>5 DEF IdInv
<1>6. Connecting'
  BY <1>1, <1>2, <1>3, ConnectingKept DEF DurableInv
<1>7. CorkedInv'
  BY <1>1, <1>2 DEF DurableInv, CorkedInv, Corked
<1>8. BytesInv'
  <2>1. Pieces'
    BY <1>1, <1>2, <1>3, PiecesKept DEF DurableInv, BytesInv, IdInv, NetTyped
  <2>2. FileTyped'
    <3>1. crashes + 1 \in Nat
      BY DEF DurableInv, BytesInv, FileTyped
    <3>2. QED BY <1>1, <3>1, NewReaderOK, NoLoopOK DEF DurableInv, BytesInv, FileTyped
  <2>3. ASSUME NEW id \in StreamIds
        PROVE  ReaderOK(id)' /\ LoopFollows(loop[id], reader[id])'
    <3>1. PICK r \in Readers, l \in LoopStates : r = Rd!NewReader(id, Window, 0) /\ l = NoLoop
      BY NewReaderOK, NoLoopOK
    <3>2. r.id = id /\ AcksMine(r) /\ ReaderFollows(r) /\ LoopFollows(l, r)
      BY <3>1, NewReaderOK, NoLoopOK
    <3>3. ReaderFollows(r)' /\ LoopFollows(l, r)'
      BY <1>3, <3>2, ReadersStay DEF DurableInv
    <3>4. reader'[id] = r /\ loop'[id] = l
      BY <1>1, <3>1
    <3>5. ReaderFollows(reader[id])' /\ LoopFollows(loop[id], reader[id])'
      BY <3>3, <3>4 DEF ReaderFollows, LoopFollows, Piece
    <3>6. QED BY <3>2, <3>4, <3>5 DEF ReaderOK, AcksMine
  <2>4. QED BY <2>1, <2>2, <2>3 DEF BytesInv
<1>9. Asked'
  BY <1>4 DEF Asked
<1>10. FileInv'
  <2>1. crashes' # 0
    BY <1>1 DEF DurableInv, BytesInv, FileTyped
  <2>2. RestartFollows'
    BY <1>4 DEF RestartFollows
  <2>3. Follows'
    BY <1>1, StreamNumbers DEF Follows
  <2>4. QED BY <1>1, <2>1, <2>2, <2>3 DEF DurableInv, FileInv, InPlace, Ended
<1>11. QED BY <1>3, <1>5, <1>6, <1>7, <1>8, <1>9, <1>10 DEF DurableInv, Goes

LEMMA FlushKeeps == ASSUME DurableInv, Flush PROVE DurableInv'
<1>1. /\ saved' = FileState
      /\ UNCHANGED <<smVars, conn, conns, jmVars, calls, packets, reader, known, loop,
                     jobStream, restart, file, totalGap, streamDone, crashes, overtaken>>
  BY DEF Flush
<1>2. /\ UNCHANGED <<streamId, sendPc, packet, connected, rwndSize, connecting>>
      /\ UNCHANGED <<pendingId, writers, streamConn, prep>>
  BY <1>1 DEF smVars, clientVars, senderVars, jmVars
<1>3. saved'.file = file /\ saved'.totalGap = totalGap
  BY <1>1 DEF FileState
<1>4. Goes
  BY <1>1, RestGoes DEF DurableInv
<1>5. IdInv'
  BY <1>1, <1>2, IdsKept DEF DurableInv
<1>6. Connecting'
  BY <1>1, <1>2, <1>4, ConnectingKept DEF DurableInv
<1>7. CorkedInv'
  BY <1>1, <1>2, CorkedKept DEF DurableInv
<1>8. BytesInv'
  <2>1. FileTyped'
    BY <1>1, <1>3 DEF DurableInv, BytesInv, FileTyped
  <2>2. Pieces'
    <3>1. \A k \in DOMAIN packets' : \E j \in DOMAIN packets : packets'[k] = packets[j]
      BY <1>1
    <3>2. QED BY <1>1, <1>2, <1>4, <3>1, PiecesKept DEF DurableInv, BytesInv, IdInv, NetTyped
  <2>3. ReadersOK'
    BY <1>1, <1>4, ReadersKept DEF DurableInv
  <2>4. QED BY <2>1, <2>2, <2>3 DEF BytesInv, ReadersOK
<1>9. Asked'
  BY <1>1, <1>2, <1>4, AskedKept DEF DurableInv, IdInv, NetTyped
<1>10. FileInv'
  <2>1. Position' = Position /\ Gap' = Gap
    BY <1>1 DEF Position, Gap
  <2>2. Ended => Ended'
    BY <1>1, <1>4, <2>1 DEF Ended, AtEnd, Goes, Grows
  <2>3. RestartFollows => RestartFollows'
    BY <1>1, <2>1 DEF RestartFollows, Behind
  <2>4. Follows => Follows'
    BY <1>1, <2>1 DEF Follows, At, Behind
  <2>5. QED BY <1>1, <1>3, <2>2, <2>3, <2>4 DEF DurableInv, FileInv, InPlace
<1>11. QED BY <1>4, <1>5, <1>6, <1>7, <1>8, <1>9, <1>10 DEF DurableInv, Goes
-----------------------------------------------------------------------------
(* restartStreaming.                                                         *)

LEMMA StatFileKeeps == ASSUME DurableInv, StatFile PROVE DurableInv'
<1>1. /\ restart.step = "stat"
      /\ restart' = [restart EXCEPT !.step = "create", !.seq = Len(file) + totalGap]
      /\ UNCHANGED <<RestOfServer, calls, reader, known, loop, jobStream, fileVars,
                     crashes, overtaken>>
  BY DEF StatFile
<1>2. /\ UNCHANGED <<streamId, sendPc, packet, connected, rwndSize, connecting>>
      /\ UNCHANGED <<conn, conns, packets, pendingId, writers, streamConn, prep>>
      /\ UNCHANGED <<file, totalGap, saved, streamDone, smVars>>
  BY <1>1 DEF RestOfServer, smVars, clientVars, senderVars, jmVars, fileVars
<1>3. Goes
  BY <1>2, RestGoes DEF DurableInv
<1>4. file \in Seq(Nat) /\ totalGap \in Nat /\ restart \in Restarts
  BY DEF DurableInv, BytesInv, FileTyped, IdInv, NetTyped
<1>5. Position \in Nat
  BY <1>4 DEF Position
<1>6. /\ restart'.step = "create" /\ restart'.seq = Position /\ restart'.conn = restart.conn
      /\ restart' \in Restarts
  BY <1>1, <1>4, <1>5 DEF Restarts, Position
<1>7. IdInv'
  BY <1>1, <1>2, <1>6 DEF DurableInv, IdInv, NetTyped, CallsNumbered, RestartNumbered, AskedOnce,
     Sending, Opened
<1>8. Connecting'
  BY <1>2, <1>3, ConnectingKept DEF DurableInv
<1>9. CorkedInv'
  BY <1>2, CorkedKept DEF DurableInv
<1>10. BytesInv'
  BY <1>1, <1>2, <1>3, BytesKept DEF DurableInv, IdInv, NetTyped
<1>11. Asked'
  BY <1>6 DEF Asked
<1>12. FileInv'
  <2>1. Position' = Position
    BY <1>2 DEF Position
  <2>2. RestartFollows'
    BY <1>6, <2>1 DEF RestartFollows
  <2>3. Follows => Follows'
    BY <1>1, <2>1 DEF Follows, At, Behind
  <2>4. Ended => Ended'
    BY <1>1, <1>2, <1>3, <2>1 DEF Ended, AtEnd, Goes, Grows
  <2>5. QED BY <1>1, <1>2, <2>2, <2>3, <2>4 DEF DurableInv, FileInv, InPlace
<1>13. QED BY <1>3, <1>7, <1>8, <1>9, <1>10, <1>11, <1>12 DEF DurableInv, Goes

LEMMA CreateReaderKeeps == ASSUME DurableInv, CreateReader PROVE DurableInv'
<1> DEFINE id == restart.conn
           r == Rd!NewReader(id, Window, restart.seq)
           c == [op |-> "prepare", id |-> id, seq |-> restart.seq, conn |-> restart.conn]
<1>1. /\ restart.step = "create"
      /\ reader' = [reader EXCEPT ![id] = r] /\ jobStream' = id
      /\ restart' = [restart EXCEPT !.step = "preparing", !.id = id]
      /\ calls' = calls \cup {c}
      /\ UNCHANGED <<RestOfServer, loop, fileVars, crashes, overtaken>>
  BY DEF CreateReader
<1>2. /\ UNCHANGED <<streamId, sendPc, packet, connected, rwndSize, connecting>>
      /\ UNCHANGED <<conn, conns, packets, pendingId, writers, streamConn, prep>>
      /\ UNCHANGED <<file, totalGap, saved, streamDone, smVars>>
  BY <1>1 DEF RestOfServer, smVars, clientVars, senderVars, jmVars, fileVars
<1>3. Goes
  BY <1>2, RestGoes DEF DurableInv
<1>4. /\ restart \in Restarts /\ id \in StreamIds /\ restart.seq \in Nat /\ id \in Nat /\ id = conns
      /\ conns \in Nat
  <2>1. restart \in Restarts /\ id = conns /\ conns \in StreamIds
    BY <1>1 DEF DurableInv, IdInv, NetTyped, RestartNumbered
  <2>2. QED BY <2>1, StreamNumbers DEF Restarts
<1>5. /\ restart'.step = "preparing" /\ restart'.id = id /\ restart'.seq = restart.seq
      /\ restart'.conn = id /\ restart' \in Restarts
  BY <1>1, <1>4 DEF Restarts
<1>6. c \in SomeCalls /\ c.op = "prepare" /\ c.id = id /\ c.conn = id
  BY <1>4 DEF SomeCalls
<1>7. /\ ~Opened(id) /\ (\A call \in calls : call.id # id)
      /\ (prep.step # "none" => prep.id # id)
  BY <1>1 DEF DurableInv, IdInv, AskedOnce
<1>8. loop[id].step = "none" /\ loop[id] \in LoopStates /\ loop[id].hold = << >> /\ loop[id].end = "none"
  <2>1. loop[id].step = "none" /\ loop[id] \in LoopStates
    BY <1>1, <1>4 DEF DurableInv, IdInv, RestartNumbered, BytesInv, FileTyped
  <2>2. QED BY <1>4, <2>1 DEF DurableInv, BytesInv, LoopFollows
<1>9. /\ r \in Readers /\ r.id = id /\ AcksMine(r) /\ ReaderFollows(r)
      /\ r.nextSeq = restart.seq /\ r.buffer = << >> /\ ~r.eof /\ LoopFollows(loop[id], r)
  BY <1>4, <1>8, NewReaderOK
<1> HIDE DEF c, id, r
<1>10. IdInv'
  <2>1. NetTyped'
    BY <1>1, <1>2, <1>5, <1>6 DEF DurableInv, IdInv, NetTyped
  <2>2. CallsNumbered'
    <3>1. id <= conns
      BY <1>4
    <3>2. QED
      BY <1>1, <1>2, <1>6, <1>7, <3>1 DEF DurableInv, IdInv, CallsNumbered, Opened
  <2>3. RestartNumbered'
    BY <1>1, <1>2, <1>4, <1>5 DEF DurableInv, IdInv, RestartNumbered, id
  <2>4. AskedOnce'
    BY <1>1, <1>2, <1>5, <1>6, <1>7 DEF AskedOnce, Opened
  <2>5. Sending'
    BY <1>2 DEF DurableInv, IdInv, Sending, Opened
  <2>6. QED BY <2>1, <2>2, <2>3, <2>4, <2>5 DEF IdInv
<1>11. Connecting'
  BY <1>2, <1>3, ConnectingKept DEF DurableInv
<1>12. CorkedInv'
  BY <1>2, CorkedKept DEF DurableInv
<1>13. reader'[id] = r /\ loop' = loop
  BY <1>1, <1>4 DEF DurableInv, BytesInv, FileTyped
<1>14. BytesInv'
  <2>1. ReadersOK' /\ reader' \in [StreamIds -> Readers] /\ loop' \in [StreamIds -> LoopStates]
    <3>1. loop' = [loop EXCEPT ![id] = loop[id]]
      BY <1>13 DEF DurableInv, BytesInv, FileTyped
    <3>2. QED BY <1>1, <1>3, <1>4, <1>8, <1>9, <3>1, ReaderChanged DEF DurableInv
  <2>2. Pieces'
    <3>1. \A k \in DOMAIN packets' : \E j \in DOMAIN packets : packets'[k] = packets[j]
      BY <1>2
    <3>2. QED BY <1>2, <1>3, <3>1, PiecesKept DEF DurableInv, BytesInv, IdInv, NetTyped
  <2>3. QED BY <1>1, <1>2, <2>1, <2>2 DEF DurableInv, BytesInv, FileTyped, ReadersOK
<1>15. Asked'
  BY <1>5, <1>9, <1>13 DEF Asked
<1>16. FileInv'
  <2>1. Position' = Position
    BY <1>2 DEF Position
  <2>2. RestartFollows => RestartFollows'
    BY <1>1, <1>5, <2>1 DEF RestartFollows
  <2>3. Follows'
    BY <1>1, <1>8, <1>13 DEF Follows
  <2>4. Ended => Ended'
    BY <1>1, <1>2, <1>3, <2>1 DEF Ended, AtEnd, Goes, Grows
  <2>5. QED BY <1>1, <1>2, <2>2, <2>3, <2>4 DEF DurableInv, FileInv, InPlace
<1>17. QED BY <1>3, <1>10, <1>11, <1>12, <1>14, <1>15, <1>16 DEF DurableInv, Goes

\* The stream that is restarted has no loop yet.
LEMMA NoLoopYet ==
  ASSUME DurableInv, restart.step \notin {"idle", "stat", "create"}
  PROVE  /\ restart.id \in StreamIds /\ restart.id = restart.conn /\ jobStream = restart.id
         /\ restart.conn = conns
         /\ loop[restart.id].step = "none" /\ loop[restart.id] \in LoopStates
         /\ loop[restart.id].hold = << >> /\ loop[restart.id].end = "none"
         /\ reader[restart.id] \in Readers /\ ReaderFollows(reader[restart.id])
         /\ AcksMine(reader[restart.id]) /\ reader[restart.id].id = restart.id
<1>1. /\ restart.id = restart.conn /\ jobStream = restart.id /\ restart.conn = conns
      /\ conns \in StreamIds
  BY DEF DurableInv, IdInv, NetTyped, RestartNumbered
<1>2. loop[restart.id].step = "none"
  BY <1>1 DEF DurableInv, IdInv, RestartNumbered
<1>3. loop[restart.id] \in LoopStates /\ reader[restart.id] \in Readers
  BY <1>1 DEF DurableInv, BytesInv, FileTyped
<1>4. QED
  BY <1>1, <1>2, <1>3 DEF DurableInv, BytesInv, LoopFollows, ReaderOK, AcksMine

LEMMA RecordGapKeeps == ASSUME DurableInv, RecordGap PROVE DurableInv'
<1>1. /\ restart.step = "prepared" /\ totalGap' = totalGap + Gap
      /\ restart' = [restart EXCEPT !.step = "moving"]
      /\ UNCHANGED <<RestOfServer, calls, reader, known, loop, jobStream, file, streamDone,
                     saved, crashes, overtaken>>
  BY DEF RecordGap
<1>2. /\ UNCHANGED <<streamId, sendPc, packet, connected, rwndSize, connecting>>
      /\ UNCHANGED <<conn, conns, packets, pendingId, writers, streamConn, prep>>
      /\ UNCHANGED smVars /\ cb' = cb
  BY <1>1 DEF RestOfServer, smVars, clientVars, senderVars, jmVars
<1>3. Goes
  BY <1>2, RestGoes DEF DurableInv
<1>4. file \in Seq(Nat) /\ totalGap \in Nat /\ restart \in Restarts
  BY DEF DurableInv, BytesInv, FileTyped, IdInv, NetTyped
<1>5. restart.start \in Nat /\ restart.seq \in Nat
  BY <1>4 DEF Restarts
<1>6. Gap \in Nat /\ (restart.start > restart.seq => restart.seq + Gap = restart.start)
      /\ (~(restart.start > restart.seq) => Gap = 0)
  BY <1>5 DEF Gap
<1>7. /\ restart'.step = "moving" /\ restart'.seq = restart.seq /\ restart'.conn = restart.conn
      /\ restart'.id = restart.id /\ restart'.start = restart.start /\ restart' \in Restarts
  BY <1>1, <1>4 DEF Restarts
<1>8. totalGap' \in Nat /\ Position' = Position + Gap /\ Gap' = Gap /\ Position \in Nat
  <2>1. Len(file) \in Nat
    BY <1>4
  <2>2. Gap' = Gap
    BY <1>7 DEF Gap
  <2>3. totalGap' \in Nat
    BY <1>1, <1>4, <1>6
  <2>4. Position' = Len(file) + (totalGap + Gap) /\ Position = Len(file) + totalGap
    BY <1>1 DEF Position
  <2>5. QED BY <1>4, <1>6, <2>1, <2>2, <2>3, <2>4
<1>9. IdInv'
  BY <1>1, <1>2, <1>7 DEF DurableInv, IdInv, NetTyped, CallsNumbered, RestartNumbered, AskedOnce,
     Sending, Opened
<1>10. Connecting'
  BY <1>2, <1>3, ConnectingKept DEF DurableInv
<1>11. CorkedInv'
  BY <1>2, CorkedKept DEF DurableInv
<1>12. BytesInv'
  <2>1. Pieces'
    <3>1. \A k \in DOMAIN packets' : \E j \in DOMAIN packets : packets'[k] = packets[j]
      BY <1>2
    <3>2. QED BY <1>2, <1>3, <3>1, PiecesKept DEF DurableInv, BytesInv, IdInv, NetTyped
  <2>2. ReadersOK'
    BY <1>1, <1>3, ReadersKept DEF DurableInv
  <2>3. QED BY <1>1, <1>8, <2>1, <2>2 DEF DurableInv, BytesInv, FileTyped, ReadersOK
<1>13. Asked'
  BY <1>1, <1>2, <1>7 DEF DurableInv, Asked, Behind, HeadPos
<1>14. FileInv'
  <2> SUFFICES ASSUME ~overtaken' PROVE FileInv'
    BY DEF FileInv
  <2>1. RestartFollows /\ Follows /\ InPlace(file, totalGap) /\ InPlace(saved.file, saved.totalGap)
        /\ Ended
    BY <1>1 DEF DurableInv, FileInv
  <2>2. RestartFollows'
    BY <1>1, <1>7, <1>8, <2>1 DEF RestartFollows
  <2>3. Follows'
    BY <1>1, <1>7, NoLoopYet DEF Follows
  <2>4. InPlace(file, totalGap)'
    <3>1. \A i \in DOMAIN file : file[i] < Len(file) + totalGap'
      <4> SUFFICES ASSUME NEW i \in DOMAIN file PROVE file[i] < Len(file) + totalGap'
        OBVIOUS
      <4>1. file[i] \in Nat /\ file[i] < Len(file) + totalGap /\ Len(file) \in Nat
        BY <1>4, <2>1 DEF InPlace
      <4>2. QED BY <1>1, <1>4, <1>6, <4>1
    <3>2. QED BY <1>1, <2>1, <3>1 DEF InPlace
  <2>5. AtEnd => Gap = 0
    <3>1. SUFFICES ASSUME AtEnd PROVE Gap = 0
      OBVIOUS
    <3>2. Position = cb.totalSize /\ cb.totalSize \in Nat
      BY <3>1, Base DEF AtEnd, DurableInv
    <3>3. Position = restart.seq /\ restart.start <= cb.totalSize
      BY <1>1, <2>1 DEF RestartFollows, DurableInv, Asked
    <3>4. QED BY <1>5, <1>6, <3>2, <3>3
  <2>6. AtEnd => AtEnd'
    BY <1>3, <1>8, <2>5 DEF AtEnd, Goes, Grows
  <2>7. Ended'
    BY <1>1, <2>1, <2>6 DEF Ended
  <2>8. QED BY <1>1, <2>1, <2>2, <2>3, <2>4, <2>7 DEF FileInv, InPlace
<1>15. QED BY <1>3, <1>9, <1>10, <1>11, <1>12, <1>13, <1>14 DEF DurableInv, Goes

LEMMA MoveReaderKeeps == ASSUME DurableInv, MoveReader PROVE DurableInv'
<1> DEFINE id == restart.id
           r == Moved(reader[id])
           c == [op |-> "start", id |-> restart.id, seq |-> 0, conn |-> restart.conn]
<1>1. /\ restart.step = "moving"
      /\ reader' = [reader EXCEPT ![id] = Moved(@)]
      /\ restart' = [restart EXCEPT !.step = "starting"]
      /\ calls' = calls \cup {c}
      /\ UNCHANGED <<RestOfServer, known, loop, jobStream, fileVars, crashes, overtaken>>
  BY DEF MoveReader
<1>2. /\ UNCHANGED <<streamId, sendPc, packet, connected, rwndSize, connecting>>
      /\ UNCHANGED <<conn, conns, packets, pendingId, writers, streamConn, prep>>
      /\ UNCHANGED <<file, totalGap, saved, streamDone, smVars>>
  BY <1>1 DEF RestOfServer, smVars, clientVars, senderVars, jmVars, fileVars
<1>3. Goes
  BY <1>2, RestGoes DEF DurableInv
<1>4. /\ id \in StreamIds /\ id \in Nat /\ id = restart.conn /\ id = conns /\ jobStream = id
      /\ loop[id].step = "none" /\ loop[id] \in LoopStates
      /\ loop[id].hold = << >> /\ loop[id].end = "none"
      /\ reader[id] \in Readers /\ ReaderFollows(reader[id])
      /\ AcksMine(reader[id]) /\ reader[id].id = id
  BY <1>1, NoLoopYet, StreamNumbers
<1>5. restart \in Restarts /\ restart.start \in Nat /\ restart.seq \in Nat
  BY DEF DurableInv, IdInv, NetTyped, Restarts
<1>6. /\ restart'.step = "starting" /\ restart'.id = id
      /\ restart'.conn = id /\ restart' \in Restarts
  BY <1>1, <1>4, <1>5 DEF Restarts
<1>7. c \in SomeCalls /\ c.op = "start" /\ c.id = id /\ c.conn = id
  BY <1>4 DEF SomeCalls
<1>8. Behind(id) = restart.seq /\ Opened(id)
      /\ (restart.start > restart.seq => reader[id].buffer = << >> /\ ~reader[id].eof)
  BY <1>1 DEF DurableInv, IdInv, AskedOnce, Asked
<1>9. /\ r \in Readers /\ r.id = id /\ AcksMine(r) /\ ReaderFollows(r) /\ LoopFollows(loop[id], r)
      /\ r.nextSeq - Len(r.buffer) = restart.seq + Gap
  <2>1. CASE restart.start > restart.seq
    <3>1. r = [reader[id] EXCEPT !.nextSeq = restart.start]
      BY <2>1 DEF Moved, Rd!UpdateNextSeq
    <3>2. /\ r \in Readers /\ r.id = id /\ r.nextSeq = restart.start /\ r.buffer = << >>
          /\ r.eof = FALSE /\ r.acks = reader[id].acks /\ r.oooPackets = reader[id].oooPackets
      BY <1>4, <1>5, <1>8, <2>1, <3>1 DEF Readers
    <3> HIDE DEF r
    <3>3. restart.start - 0 = restart.start /\ restart.start >= 0 /\ Len(<< >>) = 0
          /\ Bytes(restart.start, 0) = << >>
      BY <1>5, NoBytes
    <3>4. ReaderFollows(r)
      BY <1>4, <3>2, <3>3 DEF ReaderFollows
    <3>5. LoopFollows(loop[id], r)
      BY <1>4, <3>2, <3>3 DEF LoopFollows
    <3>6. restart.seq + Gap = restart.start
      BY <1>5, <2>1 DEF Gap
    <3>7. QED BY <1>4, <3>2, <3>3, <3>4, <3>5, <3>6 DEF AcksMine
  <2>2. CASE ~(restart.start > restart.seq)
    <3>1. r = reader[id] /\ restart.seq + Gap = restart.seq
      BY <1>5, <2>2 DEF Moved, Gap
    <3>2. LoopFollows(loop[id], reader[id])
      BY <1>4 DEF DurableInv, BytesInv
    <3> HIDE DEF r
    <3>3. QED BY <1>4, <1>8, <3>1, <3>2 DEF Behind
  <2>3. QED BY <2>1, <2>2
<1>10. reader' = [reader EXCEPT ![id] = r] /\ reader'[id] = r
       /\ loop' = [loop EXCEPT ![id] = loop[id]]
  BY <1>1, <1>4 DEF DurableInv, BytesInv, FileTyped
<1> HIDE DEF c, id, r
<1>11. IdInv'
  <2>1. NetTyped'
    BY <1>1, <1>2, <1>6, <1>7 DEF DurableInv, IdInv, NetTyped
  <2>2. CallsNumbered'
    <3>1. id <= conns
      BY <1>4
    <3>2. QED
      BY <1>1, <1>2, <1>7, <3>1 DEF DurableInv, IdInv, CallsNumbered, Opened
  <2>3. RestartNumbered'
    <3>1. restart.id = id
      BY DEF id
    <3>2. QED BY <1>1, <1>2, <1>4, <1>6, <3>1 DEF DurableInv, IdInv, RestartNumbered
  <2>4. AskedOnce'
    BY <1>2, <1>6, <1>8 DEF AskedOnce, Opened
  <2>5. Sending'
    BY <1>2 DEF DurableInv, IdInv, Sending, Opened
  <2>6. QED BY <2>1, <2>2, <2>3, <2>4, <2>5 DEF IdInv
<1>12. Connecting'
  BY <1>2, <1>3, ConnectingKept DEF DurableInv
<1>13. CorkedInv'
  BY <1>2, CorkedKept DEF DurableInv
<1>14. BytesInv'
  <2>1. ReadersOK' /\ reader' \in [StreamIds -> Readers] /\ loop' \in [StreamIds -> LoopStates]
    BY <1>3, <1>4, <1>9, <1>10, ReaderChanged DEF DurableInv
  <2>2. Pieces'
    <3>1. \A k \in DOMAIN packets' : \E j \in DOMAIN packets : packets'[k] = packets[j]
      BY <1>2
    <3>2. QED BY <1>2, <1>3, <3>1, PiecesKept DEF DurableInv, BytesInv, IdInv, NetTyped
  <2>3. QED BY <1>1, <1>2, <2>1, <2>2 DEF DurableInv, BytesInv, FileTyped, ReadersOK
<1>15. Asked'
  BY <1>6 DEF Asked
<1>16. FileInv'
  <2>1. Position' = Position
    BY <1>2 DEF Position
  <2>2. RestartFollows => RestartFollows'
    BY <1>1, <1>6, <1>9, <1>10, <2>1 DEF RestartFollows, Behind
  <2>3. Follows'
    BY <1>1, <1>4 DEF Follows
  <2>4. Ended => Ended'
    BY <1>1, <1>2, <1>3, <2>1 DEF Ended, AtEnd, Goes, Grows
  <2>5. QED BY <1>1, <1>2, <2>2, <2>3, <2>4 DEF DurableInv, FileInv, InPlace
<1>17. QED BY <1>3, <1>11, <1>12, <1>13, <1>14, <1>15, <1>16 DEF DurableInv, Goes

LEMMA StartLoopKeeps == ASSUME DurableInv, StartLoop PROVE DurableInv'
<1> DEFINE id == restart.id
           l == [loop[id] EXCEPT !.step = "reading"]
<1>1. /\ restart.step = "started"
      /\ loop' = [loop EXCEPT ![id].step = "reading"]
      /\ restart' = NoRestart
      /\ UNCHANGED <<RestOfServer, calls, reader, known, jobStream, fileVars, crashes, overtaken>>
  BY DEF StartLoop
<1>2. /\ UNCHANGED <<streamId, sendPc, packet, connected, rwndSize, connecting>>
      /\ UNCHANGED <<conn, conns, packets, pendingId, writers, streamConn, prep>>
      /\ UNCHANGED <<file, totalGap, saved, streamDone, smVars>>
  BY <1>1 DEF RestOfServer, smVars, clientVars, senderVars, jmVars, fileVars
<1>3. Goes
  BY <1>2, RestGoes DEF DurableInv
<1>4. /\ id \in StreamIds /\ id = conns /\ jobStream = id
      /\ loop[id].step = "none" /\ loop[id] \in LoopStates
      /\ loop[id].hold = << >> /\ loop[id].end = "none"
      /\ reader[id] \in Readers /\ ReaderFollows(reader[id])
      /\ AcksMine(reader[id]) /\ reader[id].id = id
      /\ LoopFollows(loop[id], reader[id])
  <2>1. restart.step \notin {"idle", "stat", "create"}
    BY <1>1
  <2>2. id \in StreamIds
    BY <2>1, NoLoopYet
  <2>3. LoopFollows(loop[id], reader[id])
    BY <2>2 DEF DurableInv, BytesInv
  <2>4. QED BY <2>1, <2>3, NoLoopYet
<1>5. /\ l \in LoopStates /\ l.step = "reading" /\ l.hold = << >> /\ l.end = "none"
  BY <1>4 DEF LoopStates
<1>6. loop' = [loop EXCEPT ![id] = l] /\ loop'[id] = l /\ reader' = [reader EXCEPT ![id] = reader[id]]
      /\ \A j \in StreamIds : j # id => loop'[j] = loop[j]
  BY <1>1, <1>4 DEF DurableInv, BytesInv, FileTyped
<1>7. restart'.step = "idle" /\ restart' \in Restarts
  BY <1>1, StreamNumbers DEF NoRestart, Restarts
<1> HIDE DEF id, l
<1>8. LoopFollows(l, reader[id])
  BY <1>4, <1>5 DEF LoopFollows
<1>9. IdInv'
  <2>1. NetTyped'
    BY <1>1, <1>2, <1>7 DEF DurableInv, IdInv, NetTyped
  <2>2. CallsNumbered'
    BY <1>1, <1>2 DEF DurableInv, IdInv, CallsNumbered, Opened
  <2>3. RestartNumbered'
    <3>1. conns <= conns
      BY StreamNumbers DEF DurableInv, IdInv, NetTyped
    <3>2. QED BY <1>2, <1>4, <1>6, <1>7, <3>1 DEF DurableInv, IdInv, RestartNumbered
  <2>4. AskedOnce'
    BY <1>7 DEF AskedOnce
  <2>5. Sending'
    BY <1>2 DEF DurableInv, IdInv, Sending, Opened
  <2>6. QED BY <2>1, <2>2, <2>3, <2>4, <2>5 DEF IdInv
<1>10. Connecting'
  BY <1>2, <1>3, ConnectingKept DEF DurableInv
<1>11. CorkedInv'
  BY <1>2, CorkedKept DEF DurableInv
<1>12. BytesInv'
  <2>1. ReadersOK' /\ reader' \in [StreamIds -> Readers] /\ loop' \in [StreamIds -> LoopStates]
    BY <1>3, <1>4, <1>5, <1>6, <1>8, ReaderChanged DEF DurableInv
  <2>2. Pieces'
    <3>1. \A k \in DOMAIN packets' : \E j \in DOMAIN packets : packets'[k] = packets[j]
      BY <1>2
    <3>2. QED BY <1>2, <1>3, <3>1, PiecesKept DEF DurableInv, BytesInv, IdInv, NetTyped
  <2>3. QED BY <1>1, <1>2, <2>1, <2>2 DEF DurableInv, BytesInv, FileTyped, ReadersOK
<1>13. Asked'
  BY <1>7 DEF Asked
<1>14. FileInv'
  <2>1. Position' = Position
    BY <1>2 DEF Position
  <2>2. RestartFollows'
    BY <1>7 DEF RestartFollows
  <2>3. RestartFollows => Follows'
    <3>1. Behind(id) - 0 = Behind(id)
      <4>1. reader[id].nextSeq \in Nat /\ Len(reader[id].buffer) \in Nat
        BY <1>4 DEF Readers
      <4>2. QED BY <4>1 DEF Behind
    <3>2. RestartFollows => Position = Behind(id)
      BY <1>1 DEF RestartFollows, id
    <3>3. ASSUME RestartFollows, NEW k \in StreamIds, jobStream' = k, loop'[k].step # "none"
          PROVE  Position' = At(k)'
      <4>1. k = id /\ loop'[k].hold = << >> /\ reader'[k] = reader[id] /\ Len(<< >>) = 0
        BY <1>1, <1>4, <1>5, <1>6, <3>3
      <4>2. At(k)' = reader'[k].nextSeq - Len(reader'[k].buffer) - Len(loop'[k].hold)
        BY DEF At, Behind
      <4>3. At(k)' = Behind(id) - 0
        BY <4>1, <4>2 DEF Behind
      <4>4. QED BY <2>1, <3>1, <3>2, <3>3, <4>3
    <3>4. QED BY <3>3 DEF Follows
  <2>4. Ended => Ended'
    BY <1>1, <1>2, <1>3, <1>5, <1>6, <2>1 DEF Ended, AtEnd, Goes, Grows
  <2>5. QED BY <1>1, <1>2, <2>2, <2>3, <2>4 DEF DurableInv, FileInv, InPlace
<1>15. QED BY <1>3, <1>9, <1>10, <1>11, <1>12, <1>13, <1>14 DEF DurableInv, Goes

\* A reader that is only closed, or has other acknowledgements.
LEMMA ReaderSame ==
  ASSUME DurableInv, Goes, NEW id \in StreamIds, NEW r, Same(reader[id], r),
         reader' = [reader EXCEPT ![id] = r], loop' = loop
  PROVE  /\ ReadersOK' /\ reader' \in [StreamIds -> Readers] /\ loop' \in [StreamIds -> LoopStates]
         /\ \A j \in StreamIds : /\ reader'[j].nextSeq = reader[j].nextSeq
                                 /\ reader'[j].buffer = reader[j].buffer
                                 /\ reader'[j].eof = reader[j].eof
<1>1. /\ reader \in [StreamIds -> Readers] /\ loop \in [StreamIds -> LoopStates]
      /\ ReaderOK(id) /\ LoopFollows(loop[id], reader[id])
  BY DEF DurableInv, BytesInv, FileTyped
<1>2. r \in Readers /\ r.id = id /\ AcksMine(r) /\ ReaderFollows(r)
  BY <1>1, SameFollows DEF ReaderOK, Same, AcksMine
<1>3. LoopFollows(loop[id], r)
  BY <1>1 DEF LoopFollows, Same
<1>4. loop' = [loop EXCEPT ![id] = loop[id]] /\ loop[id] \in LoopStates
  BY <1>1
<1>5. ReadersOK' /\ reader' \in [StreamIds -> Readers] /\ loop' \in [StreamIds -> LoopStates]
  BY <1>2, <1>3, <1>4, ReaderChanged DEF DurableInv
<1>6. ASSUME NEW j \in StreamIds
      PROVE  /\ reader'[j].nextSeq = reader[j].nextSeq /\ reader'[j].buffer = reader[j].buffer
             /\ reader'[j].eof = reader[j].eof
  <2>1. reader'[j] = IF j = id THEN r ELSE reader[j]
    BY <1>1
  <2>2. QED BY <2>1 DEF Same
<1>7. QED BY <1>5, <1>6

LEMMA GiveUpKeeps == ASSUME DurableInv, GiveUp PROVE DurableInv'
<1> DEFINE id == restart.id
           r == Rd!CloseReader(reader[id])
<1>1. /\ restart.step \in {"done", "failed", "preparing", "starting"}
      /\ reader' = [reader EXCEPT ![id] = Rd!CloseReader(@)]
      /\ streamDone' = IF streamDone = "no" /\ restart.step = "done" THEN "told" ELSE streamDone
      /\ restart' = NoRestart
      /\ UNCHANGED <<RestOfServer, calls, known, loop, jobStream, file, totalGap, saved,
                     crashes, overtaken>>
  BY DEF GiveUp
<1>2. /\ UNCHANGED <<streamId, sendPc, packet, connected, rwndSize, connecting>>
      /\ UNCHANGED <<conn, conns, packets, pendingId, writers, streamConn, prep, smVars>>
  BY <1>1 DEF RestOfServer, smVars, clientVars, senderVars, jmVars
<1>3. Goes
  BY <1>2, RestGoes DEF DurableInv
<1>4. id \in StreamIds /\ reader[id] \in Readers
  BY <1>1, NoLoopYet
<1>5. Same(reader[id], r) /\ reader' = [reader EXCEPT ![id] = r]
  BY <1>1, <1>4, CloseKept DEF DurableInv, BytesInv, FileTyped
<1>6. restart'.step = "idle" /\ restart' \in Restarts
  BY <1>1, StreamNumbers DEF NoRestart, Restarts
<1> HIDE DEF id, r
<1>7. /\ ReadersOK' /\ reader' \in [StreamIds -> Readers] /\ loop' \in [StreamIds -> LoopStates]
      /\ \A j \in StreamIds : /\ reader'[j].nextSeq = reader[j].nextSeq
                              /\ reader'[j].buffer = reader[j].buffer
  BY <1>1, <1>3, <1>4, <1>5, ReaderSame
<1>8. IdInv'
  <2>1. NetTyped'
    BY <1>1, <1>2, <1>6 DEF DurableInv, IdInv, NetTyped
  <2>2. CallsNumbered'
    BY <1>1, <1>2 DEF DurableInv, IdInv, CallsNumbered, Opened
  <2>3. RestartNumbered'
    BY <1>1, <1>2, <1>6 DEF DurableInv, IdInv, RestartNumbered
  <2>4. AskedOnce'
    BY <1>6 DEF AskedOnce
  <2>5. Sending'
    BY <1>2 DEF DurableInv, IdInv, Sending, Opened
  <2>6. QED BY <2>1, <2>2, <2>3, <2>4, <2>5 DEF IdInv
<1>9. Connecting'
  BY <1>2, <1>3, ConnectingKept DEF DurableInv
<1>10. CorkedInv'
  BY <1>2, CorkedKept DEF DurableInv
<1>11. BytesInv'
  <2>1. Pieces'
    <3>1. \A k \in DOMAIN packets' : \E j \in DOMAIN packets : packets'[k] = packets[j]
      BY <1>2
    <3>2. QED BY <1>2, <1>3, <3>1, PiecesKept DEF DurableInv, BytesInv, IdInv, NetTyped
  <2>2. QED BY <1>1, <1>7, <2>1 DEF DurableInv, BytesInv, FileTyped, ReadersOK
<1>12. Asked'
  BY <1>6 DEF Asked
<1>13. FileInv'
  <2>1. Position' = Position
    BY <1>1 DEF Position
  <2>2. RestartFollows'
    BY <1>6 DEF RestartFollows
  <2>3. Follows => Follows'
    BY <1>1, <1>7, <2>1 DEF Follows, At, Behind
  <2>4. Ended => Ended'
    BY <1>1, <1>2, <1>3, <2>1 DEF Ended, AtEnd, Goes, Grows
  <2>5. QED BY <1>1, <2>2, <2>3, <2>4 DEF DurableInv, FileInv, InPlace
<1>14. QED BY <1>3, <1>8, <1>9, <1>10, <1>11, <1>12, <1>13 DEF DurableInv, Goes
-----------------------------------------------------------------------------
(* The job manager's calls.                                                  *)

RestartSame == restart'.id = restart.id /\ restart'.conn = restart.conn /\ restart'.seq = restart.seq
               /\ restart' \in Restarts

\* restartStreaming has been told that it cannot go on, or nothing.
Refused ==
  \/ restart' = restart
  \/ RestartSame /\ restart'.step \in {"done", "failed"}
     /\ restart.step \in {"preparing", "starting"}

LEMMA Replied ==
  ASSUME restart \in Restarts, NEW c, NEW start \in Nat,
         NEW step \in {"done", "failed", "started", "prepared"}, Reply(c, step, start)
  PROVE  \/ restart' = restart /\ ~(restart.step \in {"preparing", "starting"}
                                      /\ restart.conn = c /\ c = conn)
         \/ /\ restart.step \in {"preparing", "starting"} /\ restart.conn = c /\ c = conn
            /\ RestartSame /\ restart'.step = step /\ restart'.start = start
<1>1. CASE restart.step \in {"preparing", "starting"} /\ restart.conn = c /\ c = conn
  <2>1. restart' = [restart EXCEPT !.step = step, !.start = start]
    BY <1>1 DEF Reply
  <2>2. QED BY <1>1, <2>1 DEF RestartSame, Restarts
<1>2. CASE ~(restart.step \in {"preparing", "starting"} /\ restart.conn = c /\ c = conn)
  BY <1>2 DEF Reply
<1>3. QED BY <1>1, <1>2

\* What a refusal keeps.
LEMMA RefusedKeeps ==
  ASSUME DurableInv, Goes, Refused, connected' => connected,
         sendPc' = "sending" <=> sendPc = "sending",
         UNCHANGED <<reader, loop, jobStream, file, totalGap, saved, overtaken, streamDone, crashes,
                     conns, streamId, packet, packets>>
  PROVE  restart' \in Restarts /\ RestartNumbered' /\ BytesInv' /\ Asked' /\ FileInv'
<1>1. restart \in Restarts /\ packets \in Seq(Packets)
  BY DEF DurableInv, IdInv, NetTyped
<1>2. BytesInv'
  BY <1>1, BytesKept DEF DurableInv
<1>3. CASE restart' = restart
  <2>1. RestartNumbered'
    BY <1>3 DEF DurableInv, IdInv, RestartNumbered
  <2>2. Asked'
    BY <1>1, <1>3, AskedKept DEF DurableInv
  <2>3. FileInv'
    BY <1>3, RestartKept, FileKept DEF DurableInv
  <2>4. QED BY <1>1, <1>2, <1>3, <2>1, <2>2, <2>3
<1>4. CASE restart' # restart
  <2>1. RestartSame /\ restart'.step \in {"done", "failed"}
        /\ restart.step \in {"preparing", "starting"}
    BY <1>4 DEF Refused
  <2>2. RestartNumbered'
    BY <2>1 DEF DurableInv, IdInv, RestartNumbered, RestartSame
  <2>3. Asked'
    BY <2>1 DEF Asked
  <2>4. FileInv'
    <3>1. RestartFollows'
      BY <2>1 DEF RestartFollows
    <3>2. QED BY <3>1, FileKept DEF DurableInv
  <2>5. QED BY <1>2, <2>1, <2>2, <2>3, <2>4 DEF RestartSame
<1>5. QED BY <1>3, <1>4

LEMMA BeginPrepareKeeps ==
  ASSUME DurableInv, NEW call, BeginPrepare(call)
  PROVE  DurableInv'
<1>1. /\ prep.step = "none" /\ call \in calls /\ call.op = "prepare"
      /\ calls' = calls \ {call}
      /\ UNCHANGED <<smVars, RestOfJm, jmClient, pendingId, writers, streamConn>>
      /\ \/ prep' = prep /\ Reply(call.conn, "done", 0)
         \/ /\ prep' = [step |-> "detach", id |-> call.id, seq |-> call.seq, conn |-> call.conn]
            /\ restart' = restart
  BY DEF BeginPrepare
<1>2. /\ UNCHANGED <<streamId, sendPc, packet, connected, rwndSize, connecting>>
      /\ UNCHANGED <<conn, conns, packets, pendingId, writers, streamConn, smVars>>
      /\ UNCHANGED <<reader, loop, jobStream, file, totalGap, saved, overtaken, streamDone, crashes>>
  BY <1>1 DEF RestOfJm, smVars, clientVars, senderVars, fileVars
<1>3. Goes
  BY <1>2, RestGoes DEF DurableInv
<1>4. restart \in Restarts /\ call \in SomeCalls /\ calls \subseteq SomeCalls /\ prep \in Preps
  BY <1>1 DEF DurableInv, IdInv, NetTyped
<1>5. /\ call.id \in StreamIds /\ call.id \in Nat /\ call.seq \in Nat /\ call.conn = call.id
      /\ call.id <= conns /\ ~Opened(call.id) /\ call.id \in 1 .. conns
  <2>1. call.id \in StreamIds /\ call.id \in Nat /\ call.seq \in Nat /\ conns \in Nat
    BY <1>4, StreamNumbers DEF SomeCalls, DurableInv, IdInv, NetTyped
  <2>2. call.conn = call.id /\ call.id <= conns /\ ~Opened(call.id)
    BY <1>1 DEF DurableInv, IdInv, CallsNumbered
  <2>3. 1 <= call.id
    BY <2>1, StreamNumbers
  <2>4. QED BY <2>1, <2>2, <2>3
<1>6. Refused
  BY <1>1, <1>4, Replied DEF Refused
<1>7. RestartNumbered' /\ restart' \in Restarts /\ BytesInv' /\ Asked' /\ FileInv'
  BY <1>2, <1>3, <1>6, RefusedKeeps
<1>8. /\ prep' \in Preps
      /\ \/ prep'.step = "none"
         \/ prep'.step = "detach" /\ prep'.id = call.id /\ prep'.conn = call.conn
  BY <1>1, <1>4, <1>5 DEF Preps
<1>9. \A a \in calls' : a \in calls /\ (a.op = "prepare" => a.id # call.id)
  BY <1>1 DEF DurableInv, IdInv, CallsNumbered
<1>10. IdInv'
  <2>1. NetTyped'
    BY <1>1, <1>2, <1>7, <1>8 DEF DurableInv, IdInv, NetTyped
  <2>2. CallsNumbered'
    <3>1. \A id \in StreamIds : streamConn'[id] \in {0, id} /\ (Opened(id)' => id <= conns')
      BY <1>2 DEF DurableInv, IdInv, CallsNumbered, Opened
    <3>2. \A a \in calls' : a.id = a.conn /\ a.id <= conns'
      BY <1>2, <1>9 DEF DurableInv, IdInv, CallsNumbered
    <3>3. prep'.step # "none" =>
            prep'.id = prep'.conn /\ prep'.id \in 1 .. conns' /\ streamConn'[prep'.id] = 0
      BY <1>2, <1>5, <1>8 DEF Opened
    <3>4. ASSUME NEW a \in calls', a.op = "prepare"
          PROVE  /\ streamConn'[a.id] = 0 /\ (prep'.step # "none" => prep'.id # a.id)
                 /\ \A b \in calls' : b.op = "prepare" /\ a.id = b.id => a = b
      BY <1>2, <1>8, <1>9, <3>4 DEF DurableInv, IdInv, CallsNumbered, Opened
    <3>5. QED BY <3>1, <3>2, <3>3, <3>4 DEF CallsNumbered, Opened
  <2>3. AskedOnce'
    <3>1. restart.step \in {"stat", "create"} => restart' = restart /\ call.id # restart.conn
      BY <1>1, <1>6 DEF Refused, DurableInv, IdInv, AskedOnce
    <3>2. restart'.step \in {"stat", "create"} =>
            /\ streamConn'[restart'.conn] = 0
            /\ \A a \in calls' : a.id # restart'.conn
            /\ prep'.step # "none" => prep'.id # restart'.conn
      BY <1>2, <1>6, <1>8, <1>9, <3>1 DEF Refused, DurableInv, IdInv, AskedOnce, Opened
    <3>3. restart'.step \notin {"stat", "create", "done", "failed"} => restart' = restart
      BY <1>6 DEF Refused
    <3>4. QED
      BY <1>2, <1>9, <3>2, <3>3 DEF DurableInv, IdInv, AskedOnce, Opened
  <2>4. Sending'
    BY <1>2 DEF DurableInv, IdInv, Sending, Opened
  <2>5. QED BY <1>7, <2>1, <2>2, <2>3, <2>4 DEF IdInv
<1>11. Connecting'
  <2>1. prep'.step # "opening" /\ prep.step # "opening"
    BY <1>1, <1>8
  <2>2. QED BY <1>2, <2>1 DEF DurableInv, Connecting
<1>12. CorkedInv'
  BY <1>2, CorkedKept DEF DurableInv
<1>13. QED BY <1>3, <1>7, <1>10, <1>11, <1>12 DEF DurableInv, Goes

\* What a step of PrepareConnect keeps, if it leaves the manager's client as Connecting says.
LEMMA PrepStepKeeps ==
  ASSUME DurableInv, Goes, Connecting', Refused, connected' => connected,
         sendPc' = "sending" <=> sendPc = "sending", writers' \subseteq writers,
         UNCHANGED <<RestOfJm, pendingId, streamConn, calls, streamId, packet, rwndSize>>,
         prep' \in Preps,
         prep'.step = "none" \/ (prep.step # "none" /\ prep'.id = prep.id /\ prep'.conn = prep.conn)
  PROVE  DurableInv'
<1>1. /\ UNCHANGED <<conn, conns, packets, pendingId, streamConn, calls>>
      /\ UNCHANGED <<reader, loop, jobStream, file, totalGap, saved, overtaken, streamDone, crashes>>
  BY DEF RestOfJm, fileVars
<1>2. RestartNumbered' /\ restart' \in Restarts /\ BytesInv' /\ Asked' /\ FileInv'
  BY <1>1, RefusedKeeps
<1>3. IdInv'
  <2>1. NetTyped'
    BY <1>1, <1>2 DEF DurableInv, IdInv, NetTyped
  <2>2. CallsNumbered'
    BY <1>1 DEF DurableInv, IdInv, CallsNumbered, Opened
  <2>3. AskedOnce'
    BY <1>1 DEF DurableInv, IdInv, AskedOnce, Opened, Refused
  <2>4. Sending'
    BY <1>1 DEF DurableInv, IdInv, Sending, Opened
  <2>5. QED BY <1>2, <2>1, <2>2, <2>3, <2>4 DEF IdInv
<1>4. CorkedInv'
  BY <1>1, CorkedKept DEF DurableInv
<1>5. QED BY <1>2, <1>3, <1>4 DEF DurableInv, Goes

LEMMA DetachOldKeeps == ASSUME DurableInv, DetachOld PROVE DurableInv'
<1>1. /\ prep.step = "detach" /\ prep' = [prep EXCEPT !.step = "connect"]
      /\ UNCHANGED <<RestOfJm, pendingId, streamConn, calls, restart>>
  BY DEF DetachOld
<1>2. prep \in Preps
  BY DEF DurableInv, IdInv, NetTyped
<1>3. prep' \in Preps /\ prep'.step = "connect" /\ prep'.id = prep.id /\ prep'.conn = prep.conn
  BY <1>1, <1>2 DEF Preps
<1>4. /\ Goes /\ writers' \subseteq writers /\ (connected' => connected)
      /\ UNCHANGED <<streamId, packet, rwndSize, connecting>>
      /\ (sendPc' = "sending" <=> sendPc = "sending")
  <2>1. CASE jmClient = 0
    <3>1. UNCHANGED <<smVars, writers>>
      BY <2>1 DEF DetachOld
    <3>2. QED BY <3>1, RestGoes DEF DurableInv, smVars, clientVars, senderVars
  <2>2. CASE jmClient # 0
    <3>1. ClientDisconnected /\ writers' \subseteq writers
      BY <2>2 DEF DetachOld
    <3>2. QED BY <3>1, DisconnectGoes DEF DurableInv, ClientDisconnected, Signal
  <2>3. QED BY <2>1, <2>2
<1>5. Connecting'
  <2>1. prep.step # "opening" /\ prep'.step # "opening"
    BY <1>1, <1>3
  <2>2. QED BY <1>4, <2>1 DEF DurableInv, Connecting
<1>6. QED BY <1>1, <1>3, <1>4, <1>5, PrepStepKeeps DEF Refused

LEMMA ConnectCorkedKeeps == ASSUME DurableInv, ConnectCorked PROVE DurableInv'
<1>1. /\ prep.step = "connect"
      /\ UNCHANGED <<RestOfJm, jmClient, pendingId, writers, streamConn, calls>>
  BY DEF ConnectCorked
<1>2. prep \in Preps /\ restart \in Restarts /\ prep.id \in StreamIds /\ prep.seq \in Nat
  <2>1. prep \in Preps /\ restart \in Restarts /\ prep.id \in 1 .. conns /\ conns \in StreamIds
    BY <1>1 DEF DurableInv, IdInv, NetTyped, CallsNumbered
  <2>2. prep.id \in StreamIds
    BY <2>1, StreamNumbers, DurableAssumption
  <2>3. QED BY <2>1, <2>2 DEF Preps
<1>3. CASE Finished
  <2>1. prep' = NoPrep /\ Reply(prep.conn, "failed", 0) /\ UNCHANGED smVars
    BY <1>3 DEF ConnectCorked
  <2>2. Refused
    BY <1>2, <2>1, Replied DEF Refused
  <2>3. prep' \in Preps /\ prep'.step = "none"
    BY <2>1, StreamNumbers DEF NoPrep, Preps
  <2>4. Goes
    BY <2>1, RestGoes DEF DurableInv
  <2>5. UNCHANGED <<streamId, packet, rwndSize, connecting, connected, sendPc>>
    BY <2>1 DEF smVars, clientVars, senderVars
  <2>6. Connecting'
    <3>1. prep.step # "opening" /\ prep'.step # "opening"
      BY <1>1, <2>3
    <3>2. QED BY <2>5, <3>1 DEF DurableInv, Connecting
  <2>7. QED BY <1>1, <2>2, <2>3, <2>4, <2>5, <2>6, PrepStepKeeps
<1>4. CASE ~Finished
  <2>1. /\ ClientConnected(prep.id, CorkedRwnd, prep.seq)
        /\ prep' = [prep EXCEPT !.step = "opening"] /\ restart' = restart
    BY <1>4 DEF ConnectCorked
  <2>2. /\ Goes /\ connecting' \in SC!Connects
        /\ connecting'.step \in {"consuming", "opening"} /\ connecting'.id = prep.id
        /\ connecting'.rwnd = CorkedRwnd /\ connecting'.head = HeadPos(cb')
        /\ connecting'.step = "opening" => connecting'.clientSeq <= HeadPos(cb')
    BY <1>2, <2>1, ConnectedGoes DEF DurableInv
  <2>3. /\ prep' \in Preps /\ prep'.step = "opening" /\ prep'.id = prep.id /\ prep'.conn = prep.conn
    BY <1>2, <2>1 DEF Preps
  <2>4. UNCHANGED <<streamId, packet, rwndSize, connected, sendPc>>
    BY <2>1 DEF ClientConnected, senderVars
  <2>5. Connecting'
    <3>1. (HeadPos(cb) \in Nat)'
      BY <2>2, Base, PTL DEF Goes
    <3>2. connecting'.head <= HeadPos(cb')
      BY <2>2, <3>1
    <3>3. connecting'.step = "opening" => StartSeq' <= HeadPos(cb')
      BY <2>2, <3>2 DEF StartSeq
    <3>4. CorkedRwnd' = CorkedRwnd
      BY DEF CorkedRwnd
    <3>5. QED BY <2>2, <2>3, <3>2, <3>3, <3>4 DEF Connecting
  <2>6. QED BY <1>1, <2>1, <2>2, <2>3, <2>4, <2>5, PrepStepKeeps DEF Refused
<1>5. QED BY <1>3, <1>4

LEMMA SkipKnownBytesKeeps == ASSUME DurableInv, SkipKnownBytes PROVE DurableInv'
<1>1. /\ prep.step = "opening" /\ (ConsumeClientSeq \/ RereadHead)
      /\ UNCHANGED <<RestOfJm, pendingId, writers, streamConn, calls, jmClient>>
      /\ connecting'.step = "none" => prep' = NoPrep /\ Reply(prep.conn, "failed", 0)
      /\ connecting'.step # "none" => prep' = prep /\ restart' = restart
  BY DEF SkipKnownBytes, Opening
<1>2. prep \in Preps /\ restart \in Restarts /\ connecting \in SC!Connects
  BY Base DEF DurableInv, IdInv, NetTyped
<1>3. /\ connecting.id = prep.id /\ connecting.rwnd = CorkedRwnd /\ connecting.head <= HeadPos(cb)
      /\ connecting.step = "rereading" => connecting.clientSeq <= HeadPos(cb)
  BY <1>1 DEF DurableInv, Connecting, ConsumeClientSeq, RereadHead
<1>4. UNCHANGED <<streamId, packet, rwndSize, connected, sendPc>>
  BY <1>1 DEF ConsumeClientSeq, RereadHead, senderVars
<1>5. Goes
  BY <1>1, <1>3, ConsumeGoes, QuietGoes DEF DurableInv
<1>6. HeadPos(cb) \in Nat /\ HeadPos(cb) <= HeadPos(cb') /\ HeadPos(cb') \in Nat
  <2>1. (HeadPos(cb) \in Nat)'
    BY <1>5, Base, PTL DEF Goes
  <2>2. QED BY <1>5, <2>1, Base DEF DurableInv, Goes, Grows
<1>7. CASE connecting'.step = "none"
  <2>1. prep' = NoPrep /\ Reply(prep.conn, "failed", 0)
    BY <1>1, <1>7
  <2>2. Refused
    BY <1>2, <2>1, Replied DEF Refused
  <2>3. prep' \in Preps /\ prep'.step = "none"
    BY <2>1, StreamNumbers DEF NoPrep, Preps
  <2>4. Connecting'
    BY <1>7, <2>3 DEF Connecting
  <2>5. QED BY <1>1, <1>4, <1>5, <2>2, <2>3, <2>4, PrepStepKeeps
<1>8. CASE connecting'.step # "none"
  <2>1. prep' = prep /\ restart' = restart /\ prep.step = "opening"
    BY <1>1, <1>8
  <2>2. Connecting'
    <3>1. CorkedRwnd' = CorkedRwnd
      BY DEF CorkedRwnd
    <3>2. prep'.step = "opening" /\ prep'.id = prep.id
      BY <2>1
    <3>3. CASE ConsumeClientSeq
      <4>1. /\ connecting' = [connecting EXCEPT !.step = "rereading"]
            /\ connecting.clientSeq <= HeadPos(cb')
        BY <1>3, <1>8, <3>3, ConsumeGoes DEF DurableInv
      <4>2. /\ connecting'.step = "rereading" /\ connecting'.id = prep.id
            /\ connecting'.rwnd = CorkedRwnd /\ connecting'.head = connecting.head
            /\ connecting'.clientSeq = connecting.clientSeq /\ connecting.head \in Nat
        BY <1>2, <1>3, <4>1 DEF SC!Connects
      <4>3. connecting.head <= HeadPos(cb')
        BY <1>3, <1>6, <4>2
      <4>4. QED BY <3>1, <3>2, <4>1, <4>2, <4>3 DEF Connecting
    <3>4. CASE RereadHead
      <4>1. cb' = cb /\ connecting' = [connecting EXCEPT !.step = "opening", !.head = HeadPos(cb)]
            /\ connecting.step = "rereading"
        BY <3>4 DEF RereadHead
      <4>2. /\ connecting'.step = "opening" /\ connecting'.id = prep.id
            /\ connecting'.rwnd = CorkedRwnd /\ connecting'.head = HeadPos(cb)
            /\ connecting'.clientSeq = connecting.clientSeq
        BY <1>2, <1>3, <4>1 DEF SC!Connects
      <4>3. StartSeq' <= HeadPos(cb') /\ connecting'.head <= HeadPos(cb')
        <5>1. HeadPos(cb') = HeadPos(cb)
          BY <4>1
        <5>2. StartSeq' \in {connecting.clientSeq, HeadPos(cb)}
          BY <4>2 DEF StartSeq
        <5>3. QED BY <1>3, <1>6, <4>1, <4>2, <5>1, <5>2
      <4>4. QED BY <3>1, <3>2, <4>2, <4>3 DEF Connecting
    <3>5. QED BY <1>1, <3>3, <3>4
  <2>3. QED BY <1>1, <1>2, <1>4, <1>5, <2>1, <2>2, PrepStepKeeps DEF Refused
<1>9. QED BY <1>7, <1>8

LEMMA EndPrepareKeeps == ASSUME DurableInv, EndPrepare PROVE DurableInv'
<1> DEFINE id == prep.id
<1>1. /\ prep.step = "opening" /\ OpenClient /\ prep' = NoPrep /\ pendingId' = id
      /\ streamConn' = [streamConn EXCEPT ![id] = prep.conn]
      /\ Reply(prep.conn, "prepared", StartSeq)
      /\ UNCHANGED <<RestOfJm, writers, calls>>
  BY DEF EndPrepare
<1>2. /\ UNCHANGED <<conn, conns, packets, calls, writers>>
      /\ UNCHANGED <<reader, loop, jobStream, file, totalGap, saved, overtaken, streamDone, crashes>>
  BY <1>1 DEF RestOfJm, fileVars
<1>3. /\ prep \in Preps /\ restart \in Restarts /\ connecting \in SC!Connects
      /\ streamConn \in [StreamIds -> Nat] /\ packets \in Seq(Packets) /\ calls \subseteq SomeCalls
  BY Base DEF DurableInv, IdInv, NetTyped
<1>4. /\ id = prep.conn /\ id \in 1 .. conns /\ ~Opened(id) /\ id \in StreamIds /\ id \in Nat
      /\ id # 0 /\ id <= conns
  <2>1. id = prep.conn /\ id \in 1 .. conns /\ ~Opened(id) /\ conns \in StreamIds
    BY <1>1 DEF DurableInv, IdInv, NetTyped, CallsNumbered
  <2>2. QED BY <2>1, StreamNumbers, DurableAssumption
<1>5. /\ connecting.id = id /\ connecting.rwnd = 0 /\ connecting.step = "opening"
      /\ StartSeq <= HeadPos(cb) /\ StartSeq \in Nat
  BY <1>1, <1>3 DEF DurableInv, Connecting, OpenClient, CorkedRwnd, StartSeq, SC!Connects
<1>6. /\ streamId' = id /\ connected' = TRUE /\ rwndSize' = 0 /\ connecting'.step = "none"
      /\ packet' = packet /\ (sendPc' = "sending" <=> sendPc = "sending")
  BY <1>1, <1>5 DEF OpenClient, NoConnect, Signal
<1>7. Goes /\ HeadPos(cb') = HeadPos(cb)
  BY <1>1, OpenGoes DEF DurableInv
<1>8. prep'.step = "none" /\ prep' \in Preps
  BY <1>1, StreamNumbers DEF NoPrep, Preps
<1>9. \/ restart' = restart /\ ~(restart.step \in {"preparing", "starting"}
                                   /\ restart.conn = id /\ id = conn)
      \/ /\ restart.step \in {"preparing", "starting"} /\ restart.conn = id /\ id = conn
         /\ RestartSame /\ restart'.step = "prepared" /\ restart'.start = StartSeq
  BY <1>1, <1>3, <1>4, <1>5, Replied
<1>10. /\ streamConn' \in [StreamIds -> Nat] /\ streamConn'[id] = id
       /\ \A j \in StreamIds : j # id => streamConn'[j] = streamConn[j]
       /\ \A j \in StreamIds : Opened(j) => streamConn'[j] # 0
  BY <1>1, <1>3, <1>4 DEF Opened
<1> HIDE DEF id
<1>11. restart' # restart => restart.step = "preparing" /\ restart.id = id
  <2>1. restart' # restart => restart.id = id
    BY <1>9 DEF DurableInv, IdInv, RestartNumbered
  <2>2. restart.step = "starting" => Opened(restart.id)
    BY DEF DurableInv, IdInv, AskedOnce
  <2>3. QED BY <1>4, <1>9, <2>1, <2>2
<1>12. restart' \in Restarts
  BY <1>3, <1>9 DEF RestartSame
<1>13. /\ \A k \in DOMAIN packets : packets[k].id # id
       /\ packet.id # id /\ id \notin writers
  <2>1. \A k \in DOMAIN packets : packets[k].id # id
    BY <1>4 DEF DurableInv, IdInv, Sending
  <2>2. packet.id # id
    BY <1>4, StreamNumbers DEF DurableInv, IdInv, Sending, NoPacket
  <2>3. QED BY <1>4, <2>1, <2>2 DEF DurableInv, IdInv, Sending
<1>14. IdInv'
  <2>1. NetTyped'
    BY <1>1, <1>2, <1>4, <1>8, <1>10, <1>12 DEF DurableInv, IdInv, NetTyped
  <2>2. CallsNumbered'
    <3>1. \A j \in StreamIds : streamConn'[j] \in {0, j} /\ (streamConn'[j] # 0 => j <= conns')
      BY <1>2, <1>4, <1>10 DEF DurableInv, IdInv, CallsNumbered, Opened
    <3>2. \A call \in calls' : call.id = call.conn /\ call.id <= conns'
      BY <1>2 DEF DurableInv, IdInv, CallsNumbered
    <3>3. ASSUME NEW a \in calls', a.op = "prepare"
          PROVE  /\ streamConn'[a.id] = 0
                 /\ \A b \in calls' : b.op = "prepare" /\ a.id = b.id => a = b
      <4>1. a.id \in StreamIds
        BY <1>2, <1>3 DEF SomeCalls
      <4>2. a.id # id /\ ~Opened(a.id)
        BY <1>1, <1>2, <3>3 DEF DurableInv, IdInv, CallsNumbered, id
      <4>3. \A b \in calls' : b.op = "prepare" /\ a.id = b.id => a = b
        BY <1>2, <3>3 DEF DurableInv, IdInv, CallsNumbered
      <4>4. QED BY <1>10, <4>1, <4>2, <4>3 DEF Opened
    <3>4. QED BY <1>8, <3>1, <3>2, <3>3 DEF CallsNumbered, Opened
  <2>3. RestartNumbered'
    BY <1>2, <1>9 DEF DurableInv, IdInv, RestartNumbered, RestartSame
  <2>4. AskedOnce'
    <3>1. restart.step # "idle" => restart.conn \in StreamIds
      BY DEF DurableInv, IdInv, NetTyped, RestartNumbered
    <3>2. restart.step \notin {"idle", "stat", "create"} => restart.id = restart.conn
      BY DEF DurableInv, IdInv, RestartNumbered
    <3>3. restart'.step \in {"stat", "create"} =>
            /\ streamConn'[restart'.conn] = 0
            /\ \A call \in calls' : call.id # restart'.conn
      <4> SUFFICES ASSUME restart'.step \in {"stat", "create"}
                   PROVE  /\ streamConn'[restart'.conn] = 0
                          /\ \A call \in calls' : call.id # restart'.conn
        OBVIOUS
      <4>1. restart' = restart
        BY <1>9
      <4>2. id # restart.conn /\ ~Opened(restart.conn)
            /\ \A call \in calls : call.id # restart.conn
        BY <1>1, <4>1 DEF DurableInv, IdInv, AskedOnce, id
      <4>3. QED BY <1>2, <1>10, <3>1, <4>1, <4>2 DEF Opened
    <3>4. restart'.step = "preparing" =>
            /\ \A call \in calls' : call.op = "start" => call.id # restart'.id
            /\ restart'.conn = conn' => streamConn'[restart'.id] = 0
      <4> SUFFICES ASSUME restart'.step = "preparing"
                   PROVE  /\ \A call \in calls' : call.op = "start" => call.id # restart'.id
                          /\ restart'.conn = conn' => streamConn'[restart'.id] = 0
        OBVIOUS
      <4>1. restart' = restart /\ ~(restart.conn = id /\ id = conn)
        BY <1>9
      <4>2. /\ \A call \in calls : call.op = "start" => call.id # restart.id
            /\ restart.conn = conn => ~Opened(restart.id)
        BY <4>1 DEF DurableInv, IdInv, AskedOnce
      <4>3. QED BY <1>2, <1>10, <3>1, <3>2, <4>1, <4>2 DEF Opened
    <3>5. restart'.step \in {"prepared", "moving", "starting", "started"} => streamConn'[restart'.id] # 0
      <4>1. CASE restart' = restart
        BY <1>10, <3>1, <3>2, <4>1 DEF DurableInv, IdInv, AskedOnce
      <4>2. CASE restart' # restart
        BY <1>4, <1>9, <1>10, <1>11, <4>2 DEF RestartSame
      <4>3. QED BY <4>1, <4>2
    <3>6. QED BY <1>8, <3>3, <3>4, <3>5 DEF AskedOnce, Opened
  <2>5. Sending'
    <3>1. \A k \in DOMAIN packets : conn \in StreamIds
      BY StreamNumbers DEF DurableInv, IdInv, NetTyped, Sending
    <3>2. QED BY <1>2, <1>4, <1>6, <1>10, <3>1 DEF DurableInv, IdInv, NetTyped, Sending, Opened
  <2>6. QED BY <2>1, <2>2, <2>3, <2>4, <2>5 DEF IdInv
<1>15. Connecting'
  BY <1>6, <1>8 DEF Connecting
<1>16. CorkedInv'
  BY <1>1, <1>2, <1>6, <1>13 DEF CorkedInv, Corked
<1>17. BytesInv'
  BY <1>2, <1>3, <1>6, <1>7, BytesKept DEF DurableInv
<1>18. HeadPos(cb) <= cb.totalSize /\ cb'.totalSize >= cb.totalSize /\ HeadPos(cb) \in Nat
       /\ cb.totalSize \in Nat /\ cb'.totalSize \in Nat
  <2>1. (cb.totalSize \in Nat)'
    BY <1>7, Base, PTL DEF Goes
  <2>2. QED BY <1>7, <2>1, Base DEF DurableInv, Goes, Grows
<1>19. Asked'
  <2>1. CASE restart' = restart
    <3>1. restart.step \in {"prepared", "moving"} => restart.id # id /\ restart.start \in Nat
      BY <1>3, <1>4 DEF DurableInv, IdInv, AskedOnce, Restarts
    <3>2. restart.step \in {"prepared", "moving"} /\ restart.start <= cb.totalSize
            => restart.start <= cb'.totalSize
      BY <1>18, <3>1
    <3>3. QED BY <1>2, <1>6, <2>1, <3>1, <3>2 DEF DurableInv, Asked, Behind
  <2>2. CASE restart' # restart
    <3>1. /\ reader[id].buffer = << >> /\ reader[id].nextSeq = restart.seq /\ ~reader[id].eof
          /\ restart.seq \in Nat
      BY <1>3, <1>11, <2>2 DEF DurableInv, Asked, Restarts
    <3>2. /\ restart'.id = id /\ restart'.seq = restart.seq /\ restart'.start = StartSeq
          /\ restart'.step = "prepared"
      BY <1>9, <1>11, <2>2 DEF RestartSame
    <3>3. Behind(id) = restart.seq
      <4>1. Len(<< >>) = 0
        OBVIOUS
      <4>2. QED BY <3>1, <4>1 DEF Behind
    <3>4. HeadPos(cb') >= StartSeq /\ StartSeq <= cb'.totalSize
      BY <1>5, <1>7, <1>18
    <3>5. QED BY <1>2, <1>6, <1>13, <3>1, <3>2, <3>3, <3>4 DEF Asked, Behind
  <2>3. QED BY <2>1, <2>2
<1>20. FileInv'
  <2>1. RestartFollows => RestartFollows'
    <3>1. CASE restart' = restart
      BY <1>2, <3>1, RestartKept
    <3>2. CASE restart' # restart
      <4>1. Position' = Position
        BY <1>2 DEF Position
      <4>2. QED BY <1>9, <1>11, <3>2, <4>1 DEF RestartFollows, RestartSame
    <3>3. QED BY <3>1, <3>2
  <2>2. QED BY <1>2, <1>7, <2>1, FileKept DEF DurableInv
<1>21. QED BY <1>7, <1>14, <1>15, <1>16, <1>17, <1>19, <1>20 DEF DurableInv, Goes

LEMMA StartStreamKeeps ==
  ASSUME DurableInv, NEW call, StartStream(call)
  PROVE  DurableInv'
<1>1. /\ prep.step = "none" /\ call \in calls /\ call.op = "start" /\ calls' = calls \ {call}
      /\ UNCHANGED <<RestOfJm, jmClient, streamConn, prep>>
  BY DEF StartStream
<1>2. /\ UNCHANGED <<conn, conns, packets, streamConn, prep>>
      /\ UNCHANGED <<reader, loop, jobStream, file, totalGap, saved, overtaken, streamDone, crashes>>
  BY <1>1 DEF RestOfJm, fileVars
<1>3. /\ restart \in Restarts /\ calls \subseteq SomeCalls /\ packets \in Seq(Packets)
      /\ call.conn = call.id /\ restart.start \in Nat
  BY <1>1 DEF DurableInv, IdInv, NetTyped, CallsNumbered, Restarts
<1>4. /\ Goes /\ UNCHANGED <<streamId, packet, connecting, connected>>
      /\ (sendPc' = "sending" <=> sendPc = "sending")
      /\ writers' \subseteq writers \cup {streamId} /\ pendingId' = NoStream
      /\ pendingId = NoStream => writers' = writers /\ rwndSize' = rwndSize
      /\ \/ Reply(call.conn, "failed", restart.start)
         \/ Reply(call.conn, "started", restart.start)
  <2>1. CASE pendingId = NoStream
    <3>1. UNCHANGED <<smVars, pendingId, writers>> /\ Reply(call.conn, "failed", restart.start)
      BY <2>1 DEF StartStream
    <3>2. QED BY <2>1, <3>1, RestGoes DEF DurableInv, smVars, clientVars, senderVars
  <2>2. CASE pendingId # NoStream
    <3>1. /\ SetRwndSize(Window) /\ writers' \subseteq writers \cup {pendingId}
          /\ pendingId' = NoStream /\ Reply(call.conn, "started", restart.start)
      BY <2>2 DEF StartStream
    <3>2. pendingId = streamId
      BY <2>2 DEF DurableInv, CorkedInv
    <3>3. QED BY <2>2, <3>1, <3>2, SetRwndGoes DEF DurableInv, SetRwndSize, Signal
  <2>3. QED BY <2>1, <2>2
<1>5. \/ restart' = restart
      \/ /\ RestartSame /\ restart'.step \in {"failed", "started"}
         /\ restart.step = "starting" /\ restart.id = call.id
  <2>1. \/ restart' = restart
        \/ /\ restart.step \in {"preparing", "starting"} /\ restart.conn = call.id
           /\ RestartSame /\ restart'.step \in {"failed", "started"}
    BY <1>3, <1>4, Replied
  <2>2. restart.step \in {"preparing", "starting"} => restart.id = restart.conn
    BY DEF DurableInv, IdInv, RestartNumbered
  <2>3. restart.step = "preparing" => call.id # restart.id
    BY <1>1 DEF DurableInv, IdInv, AskedOnce
  <2>4. QED BY <2>1, <2>2, <2>3
<1>6. restart' \in Restarts
  BY <1>3, <1>5 DEF RestartSame
<1>7. IdInv'
  <2>1. NetTyped'
    BY <1>1, <1>2, <1>4, <1>6 DEF DurableInv, IdInv, NetTyped, Sending
  <2>2. CallsNumbered'
    BY <1>1, <1>2 DEF DurableInv, IdInv, CallsNumbered, Opened
  <2>3. RestartNumbered'
    BY <1>2, <1>5 DEF DurableInv, IdInv, RestartNumbered, RestartSame
  <2>4. AskedOnce'
    BY <1>1, <1>2, <1>5 DEF DurableInv, IdInv, AskedOnce, Opened, RestartSame
  <2>5. Sending'
    BY <1>2, <1>4 DEF DurableInv, IdInv, Sending, Opened
  <2>6. QED BY <2>1, <2>2, <2>3, <2>4, <2>5 DEF IdInv
<1>8. Connecting'
  BY <1>2, <1>4, ConnectingKept DEF DurableInv
<1>9. CorkedInv'
  BY <1>4 DEF CorkedInv, Corked
<1>10. BytesInv'
  BY <1>2, <1>3, <1>4, BytesKept DEF DurableInv
<1>11. Asked'
  <2>1. CASE restart' = restart
    BY <1>2, <1>3, <1>4, <2>1, AskedKept DEF DurableInv
  <2>2. CASE restart' # restart
    BY <1>5, <2>2 DEF Asked
  <2>3. QED BY <2>1, <2>2
<1>12. FileInv'
  <2>1. RestartFollows => RestartFollows'
    <3>1. CASE restart' = restart
      BY <1>2, <3>1, RestartKept
    <3>2. CASE restart' # restart
      <4>1. Position' = Position /\ \A j : Behind(j)' = reader[j].nextSeq - Len(reader[j].buffer)
        BY <1>2 DEF Position, Behind
      <4>2. QED BY <1>5, <3>2, <4>1 DEF RestartFollows, RestartSame, Behind
    <3>3. QED BY <3>1, <3>2
  <2>2. QED BY <1>2, <1>4, <2>1, FileKept DEF DurableInv
<1>13. QED BY <1>4, <1>7, <1>8, <1>9, <1>10, <1>11, <1>12 DEF DurableInv, Goes
-----------------------------------------------------------------------------
(* The stream manager's loops.                                               *)

RestOfLoops == <<conn, conns, jmVars, calls, packets, serverVars>>

LEMMA LoopsAlone ==
  ASSUME UNCHANGED RestOfLoops
  PROVE  /\ UNCHANGED <<conn, conns, calls, packets, pendingId, writers, streamConn, prep, restart>>
         /\ UNCHANGED <<reader, loop, jobStream, file, totalGap, saved, overtaken, streamDone, crashes>>
  BY DEF RestOfLoops, jmVars, serverVars, fileVars

QuietLoops == ReadLoop \/ SenderReturns \/ SenderWaits

LEMMA QuietLoopsKeep == ASSUME DurableInv, QuietLoops, UNCHANGED RestOfLoops PROVE DurableInv'
<1>1. /\ UNCHANGED <<conn, conns, calls, packets, pendingId, writers, streamConn, prep, restart>>
      /\ UNCHANGED <<reader, loop, jobStream, file, totalGap, saved, overtaken, streamDone, crashes>>
  BY LoopsAlone
<1>2. Goes
  BY QuietGoes, ReadGoes, WriteGoes DEF DurableInv, QuietLoops, ReadLoop
<1>3. UNCHANGED clientVars /\ packet' = packet /\ (sendPc' = "sending" <=> sendPc = "sending")
  <2>1. CASE ReadLoop
    BY <2>1 DEF ReadLoop, CheckClosed, ReadPty, WriteChunk, SignalWritten, Unpark, HandleEnd, Signal,
       senderVars
  <2>2. CASE SenderReturns \/ SenderWaits
    BY <2>2 DEF SenderReturns, SenderWaits
  <2>3. QED BY <2>1, <2>2 DEF QuietLoops
<1>4. UNCHANGED <<streamId, rwndSize, connected, connecting>>
  BY <1>3 DEF clientVars
<1>5. packets \in Seq(Packets) /\ restart \in Restarts
  BY DEF DurableInv, IdInv, NetTyped
<1>6. IdInv'
  BY <1>1, <1>3, <1>4, IdsKept DEF DurableInv
<1>7. Connecting'
  BY <1>1, <1>2, <1>4, ConnectingKept DEF DurableInv
<1>8. CorkedInv'
  BY <1>1, <1>3, <1>4, CorkedKept DEF DurableInv
<1>9. BytesInv'
  BY <1>1, <1>2, <1>3, <1>5, BytesKept DEF DurableInv
<1>10. Asked'
  BY <1>1, <1>2, <1>3, <1>4, <1>5, AskedKept DEF DurableInv
<1>11. FileInv'
  BY <1>1, <1>2, FileKept, RestartKept DEF DurableInv
<1>12. QED BY <1>2, <1>6, <1>7, <1>8, <1>9, <1>10, <1>11 DEF DurableInv, Goes

\* The packet a step takes is one of the connected stream, at or past the head.
LEMMA PacketTaken ==
  ASSUME DurableInv, PrepareData \/ PrepareTerminal
  PROVE  /\ Goes /\ packet' \in Packets /\ packet'.id = streamId /\ Piece(packet)'
         /\ packet'.seq >= HeadPos(cb) /\ connected
         /\ pendingId = streamId => packet'.data = << >>
         /\ UNCHANGED <<cb, terminalVars, rwndSize, connected, streamId, connecting>>
         /\ sendPc' = "sending"
<1>1. /\ SC!BaseInv /\ HeadPos(cb) \in Nat /\ HeadPos(cb) <= cb.totalSize /\ sentNotAcked \in Nat
      /\ cb.totalSize \in Nat
  BY Base DEF DurableInv
<1>2. CASE PrepareData
  <2>1. /\ Goes /\ packet'.id = streamId /\ packet'.end = "none"
        /\ packet'.seq = HeadPos(cb) + sentNotAcked
        /\ packet'.data = Bytes(packet'.seq, Len(packet'.data))
        /\ packet'.seq + Len(packet'.data) <= cb.totalSize
        /\ connected /\ EffectiveWindow(rwndSize) > sentNotAcked
    BY <1>1, <1>2, PrepareGoes
  <2>2. /\ UNCHANGED <<cb, terminalVars, rwndSize, connected, streamId, connecting>>
        /\ sendPc' = "sending"
    BY <1>2 DEF PrepareData
  <2>3. (packet \in Packets)'
    BY <2>1, Base, PTL DEF Goes
  <2>4. Piece(packet)'
    BY <2>1, <2>2 DEF Piece
  <2>5. packet'.seq >= HeadPos(cb)
    BY <1>1, <2>1
  <2>6. rwndSize # 0
    <3>1. SUFFICES ASSUME rwndSize = 0 PROVE FALSE
      OBVIOUS
    <3>2. EffectiveWindow(rwndSize) <= 0
      BY <3>1, StreamAssumption DEF EffectiveWindow, Least
    <3>3. EffectiveWindow(rwndSize) \in Nat
      BY <3>1, StreamAssumption DEF EffectiveWindow, Least
    <3>4. QED BY <1>1, <2>1, <3>2, <3>3
  <2>7. pendingId # streamId
    BY <2>1, <2>6, StreamNumbers DEF DurableInv, CorkedInv, IdInv, Sending
  <2>8. QED BY <2>1, <2>2, <2>3, <2>4, <2>5, <2>7
<1>3. CASE PrepareTerminal
  <2>1. /\ packet' = [id |-> streamId, seq |-> eofPos, data |-> << >>, end |-> terminalEvent]
        /\ terminalEvent # "none" /\ connected /\ sendPc' = "sending"
        /\ UNCHANGED <<cb, terminalVars, rwndSize, connected, streamId, connecting>>
    BY <1>3 DEF PrepareTerminal, TerminalToSend, clientVars
  <2>2. Goes
    BY <1>1, <1>3, QuietGoes
  <2>3. (packet \in Packets)'
    BY <2>2, Base, PTL DEF Goes
  <2>4. eofPos = cb.totalSize
    BY <1>1, <2>1, Base
  <2>5. packet'.seq >= HeadPos(cb) /\ packet'.seq = cb.totalSize /\ packet'.data = << >>
    BY <1>1, <2>1, <2>4
  <2>6. packet'.data = Bytes(packet'.seq, Len(packet'.data))
        /\ packet'.seq + Len(packet'.data) <= cb'.totalSize
    <3>1. Len(<< >>) = 0 /\ Bytes(cb.totalSize, 0) = << >>
      BY <1>1, NoBytes
    <3>2. QED BY <1>1, <2>1, <2>5, <3>1
  <2>7. Piece(packet)'
    BY <2>1, <2>6 DEF Piece, terminalVars
  <2>8. QED BY <2>1, <2>2, <2>3, <2>5, <2>7
<1>4. QED BY <1>2, <1>3

LEMMA PrepareKeeps ==
  ASSUME DurableInv, PrepareData \/ PrepareTerminal, UNCHANGED RestOfLoops
  PROVE  DurableInv'
<1>1. /\ UNCHANGED <<conn, conns, calls, packets, pendingId, writers, streamConn, prep, restart>>
      /\ UNCHANGED <<reader, loop, jobStream, file, totalGap, saved, overtaken, streamDone, crashes>>
  BY LoopsAlone
<1>2. /\ Goes /\ packet' \in Packets /\ packet'.id = streamId /\ Piece(packet)'
      /\ packet'.seq >= HeadPos(cb) /\ connected
      /\ pendingId = streamId => packet'.data = << >>
      /\ UNCHANGED <<cb, terminalVars, rwndSize, connected, streamId, connecting>>
      /\ sendPc' = "sending"
  BY PacketTaken
<1>3. packets \in Seq(Packets) /\ restart \in Restarts
  BY DEF DurableInv, IdInv, NetTyped
<1>4. IdInv'
  <2>1. NetTyped'
    BY <1>1 DEF DurableInv, IdInv, NetTyped
  <2>2. CallsNumbered'
    BY <1>1 DEF DurableInv, IdInv, CallsNumbered, Opened
  <2>3. RestartNumbered'
    BY <1>1 DEF DurableInv, IdInv, RestartNumbered
  <2>4. AskedOnce'
    BY <1>1 DEF DurableInv, IdInv, AskedOnce, Opened
  <2>5. Sending'
    BY <1>1, <1>2 DEF DurableInv, IdInv, Sending, Opened
  <2>6. QED BY <2>1, <2>2, <2>3, <2>4, <2>5 DEF IdInv
<1>5. Connecting'
  BY <1>1, <1>2, ConnectingKept DEF DurableInv
<1>6. CorkedInv'
  BY <1>1, <1>2 DEF DurableInv, CorkedInv, Corked
<1>7. BytesInv'
  <2>1. ASSUME NEW k \in DOMAIN packets'
        PROVE  Piece(packets[k])'
    <3>1. Piece(packets[k])
      BY <1>1 DEF DurableInv, BytesInv, Pieces
    <3>2. QED BY <1>1, <1>2, <3>1 DEF Piece, terminalVars
  <2>2. Pieces'
    BY <1>2, <2>1 DEF Pieces
  <2>3. ReadersOK'
    BY <1>1, <1>2, ReadersKept DEF DurableInv
  <2>4. QED BY <1>1, <2>2, <2>3 DEF DurableInv, BytesInv, FileTyped, ReadersOK
<1>8. Asked'
  <2>1. restart.start \in Nat /\ HeadPos(cb) \in Nat /\ packet'.seq \in Nat
    BY <1>2, <1>3, Base DEF DurableInv, Restarts, Packets
  <2>2. HeadPos(cb) >= restart.start => packet'.seq >= restart.start
    BY <1>2, <2>1
  <2>3. HeadPos(cb') = HeadPos(cb)
    BY <1>2
  <2>4. QED BY <1>1, <1>2, <2>2, <2>3 DEF DurableInv, Asked, Behind
<1>9. FileInv'
  BY <1>1, <1>2, FileKept, RestartKept DEF DurableInv
<1>10. QED BY <1>2, <1>4, <1>5, <1>6, <1>7, <1>8, <1>9 DEF DurableInv, Goes

LEMMA SendKeeps == ASSUME DurableInv, Send PROVE DurableInv'
<1>1. /\ SendData /\ UNCHANGED <<conn, conns, jmVars, calls, serverVars>>
      /\ packets' = IF streamConn[packet.id] = conn THEN Append(packets, packet) ELSE packets
  BY DEF Send
<1>2. /\ UNCHANGED <<conn, conns, calls, pendingId, writers, streamConn, prep, restart>>
      /\ UNCHANGED <<reader, loop, jobStream, file, totalGap, saved, overtaken, streamDone, crashes>>
  BY <1>1 DEF jmVars, serverVars, fileVars
<1>3. /\ sendPc = "sending" /\ sendPc' = "preparing" /\ packet' = NoPacket /\ cb' = cb
      /\ UNCHANGED <<streamId, rwndSize, connected, connecting, terminalVars>>
  BY <1>1 DEF SendData, clientVars
<1>4. Goes
  BY <1>1, SendGoes DEF DurableInv
<1>5. packets \in Seq(Packets) /\ restart \in Restarts /\ packet \in Packets
  BY Base DEF DurableInv, IdInv, NetTyped
<1>6. /\ packets' \in Seq(Packets)
      /\ \A k \in DOMAIN packets' :
           \/ k \in DOMAIN packets /\ packets'[k] = packets[k]
           \/ packets'[k] = packet /\ streamConn[packet.id] = conn
  <2>1. /\ Append(packets, packet) \in Seq(Packets)
        /\ \A k \in DOMAIN Append(packets, packet) :
             \/ k \in DOMAIN packets /\ Append(packets, packet)[k] = packets[k]
             \/ Append(packets, packet)[k] = packet
    BY <1>5
  <2>2. QED BY <1>1, <1>5, <2>1
<1>7. packet.id \in StreamIds /\ Opened(packet.id) /\ streamConn[packet.id] \in {0, packet.id}
  BY <1>3 DEF DurableInv, IdInv, Sending, CallsNumbered
<1>8. streamConn[packet.id] = conn => packet.id = conn /\ conn # 0 /\ Opened(conn)
  BY <1>7 DEF Opened
<1>9. IdInv'
  <2>1. NetTyped'
    BY <1>2, <1>6 DEF DurableInv, IdInv, NetTyped
  <2>2. CallsNumbered'
    BY <1>2 DEF DurableInv, IdInv, CallsNumbered, Opened
  <2>3. RestartNumbered'
    BY <1>2 DEF DurableInv, IdInv, RestartNumbered
  <2>4. AskedOnce'
    BY <1>2 DEF DurableInv, IdInv, AskedOnce, Opened
  <2>5. Sending'
    BY <1>2, <1>3, <1>6, <1>8 DEF DurableInv, IdInv, Sending, Opened
  <2>6. QED BY <2>1, <2>2, <2>3, <2>4, <2>5 DEF IdInv
<1>10. Connecting'
  BY <1>2, <1>3, <1>4, ConnectingKept DEF DurableInv
<1>11. CorkedInv'
  BY <1>2, <1>3, <1>6 DEF DurableInv, CorkedInv, Corked, NoPacket
<1>12. BytesInv'
  <2>1. ASSUME NEW k \in DOMAIN packets'
        PROVE  Piece(packets[k])'
    <3>1. PICK p : p = packets'[k]
      OBVIOUS
    <3>2. Piece(p)
      BY <1>3, <1>6, <3>1 DEF DurableInv, BytesInv, Pieces
    <3>3. Piece(p)'
      BY <1>3, <3>2 DEF Piece, terminalVars
    <3>4. QED BY <3>1, <3>3 DEF Piece
  <2>2. Pieces'
    BY <1>3, <2>1 DEF Pieces
  <2>3. ReadersOK'
    BY <1>2, <1>4, ReadersKept DEF DurableInv
  <2>4. QED BY <1>2, <2>2, <2>3 DEF DurableInv, BytesInv, FileTyped, ReadersOK
<1>13. Asked'
  <2>1. HeadPos(cb') = HeadPos(cb)
    BY <1>3
  <2>2. QED BY <1>2, <1>3, <1>6, <2>1 DEF DurableInv, Asked, Behind
<1>14. FileInv'
  BY <1>2, <1>4, FileKept, RestartKept DEF DurableInv
<1>15. QED BY <1>4, <1>9, <1>10, <1>11, <1>12, <1>13, <1>14 DEF DurableInv, Goes
-----------------------------------------------------------------------------
(* Packets and acknowledgements.                                             *)

\* A reader that receives stays where its loop has read to.
LEMMA FileStays ==
  ASSUME Goes, FileInv, restart.step \notin {"idle", "stat", "create"} => restart.id \in StreamIds,
         \A id \in StreamIds : reader'[id].nextSeq - Len(reader'[id].buffer) = Behind(id),
         UNCHANGED <<loop, file, totalGap, jobStream, saved, overtaken, streamDone, crashes, restart>>
  PROVE  FileInv'
<1>1. Position' = Position /\ Gap' = Gap
  BY DEF Position, Gap
<1>2. AtEnd => AtEnd'
  BY <1>1 DEF AtEnd, Goes, Grows
<1>3. \A id \in StreamIds : Behind(id)' = Behind(id)
  BY DEF Behind
<1>4. Follows => Follows'
  <2>1. \A id \in StreamIds : At(id)' = Behind(id) - Len(loop[id].hold)
    BY DEF At, Behind
  <2>2. QED BY <1>1, <2>1 DEF Follows, At
<1>5. RestartFollows => RestartFollows'
  BY <1>1, <1>3 DEF RestartFollows
<1>6. Ended => Ended'
  BY <1>2 DEF Ended
<1>7. QED BY <1>4, <1>5, <1>6 DEF FileInv, InPlace

NetAlone == UNCHANGED RestOfNet

LEMMA NetRest ==
  ASSUME NetAlone
  PROVE  /\ UNCHANGED <<conn, conns, calls, pendingId, streamConn, prep, restart>>
         /\ UNCHANGED <<loop, jobStream, file, totalGap, saved, overtaken, streamDone, crashes>>
  BY DEF NetAlone, RestOfNet, fileVars

LEMMA DeliverDataKeeps == ASSUME DurableInv, DeliverData PROVE DurableInv'
<1>1. /\ packets # << >> /\ packets' = Tail(packets) /\ UNCHANGED <<smVars, writers>> /\ NetAlone
  BY DEF DeliverData, NetAlone
<1>2. /\ UNCHANGED <<conn, conns, calls, pendingId, streamConn, prep, restart, writers>>
      /\ UNCHANGED <<loop, jobStream, file, totalGap, saved, overtaken, streamDone, crashes>>
  BY <1>1, NetRest
<1>3. /\ UNCHANGED <<streamId, sendPc, packet, connected, rwndSize, connecting, cb, terminalVars>>
  BY <1>1 DEF smVars, clientVars, senderVars
<1>4. Goes
  BY <1>1, RestGoes DEF DurableInv
<1>5. packets \in Seq(Packets) /\ restart \in Restarts /\ reader \in [StreamIds -> Readers]
      /\ loop \in [StreamIds -> LoopStates]
  BY DEF DurableInv, IdInv, NetTyped, BytesInv, FileTyped
<1>6. /\ packets' \in Seq(Packets)
      /\ \A k \in DOMAIN packets' : k + 1 \in DOMAIN packets /\ packets'[k] = packets[k + 1]
      /\ 1 \in DOMAIN packets /\ Head(packets) = packets[1]
  BY <1>1, <1>5
<1>7. PICK p \in Packets : p = Head(packets)
  BY <1>5, <1>6
<1>8. p.id = conn /\ conn \in StreamIds /\ Opened(conn) /\ Piece(p)
  <2>1. p.id = conn /\ conn # 0 /\ Opened(conn) /\ Piece(p)
    BY <1>6, <1>7 DEF DurableInv, IdInv, Sending, BytesInv, Pieces
  <2>2. QED BY <2>1 DEF DurableInv, IdInv, NetTyped
<1>9. PICK id \in StreamIds : id = p.id
  BY <1>8
<1>10. /\ reader[id] \in Readers /\ ReaderFollows(reader[id]) /\ reader[id].id = id
       /\ AcksMine(reader[id]) /\ LoopFollows(loop[id], reader[id]) /\ loop[id] \in LoopStates
  BY <1>5 DEF DurableInv, BytesInv, ReaderOK, AcksMine
<1>11. PICK r : reader' = [reader EXCEPT ![id] = r] /\ Received(reader[id], r, p)
  <2> DEFINE ack == [id |-> p.id, seq |-> p.seq, rwnd |-> 0, fin |-> FALSE, cancel |-> TRUE]
  <2>1. CASE id \in known
    <3>1. reader' = [reader EXCEPT ![id] = Rd!RecvData(reader[id], p)]
      BY <1>7, <1>9, <2>1 DEF DeliverData
    <3>2. Received(reader[id], Rd!RecvData(reader[id], p), p)
      BY <1>8, <1>10, RecvDataOK DEF DurableInv
    <3>3. QED BY <3>1, <3>2
  <2>2. CASE id \notin known
    <3>1. reader' = [reader EXCEPT ![id] = [reader[id] EXCEPT !.acks = Append(@, ack)]]
      BY <1>7, <1>9, <2>2 DEF DeliverData
    <3>2. ack \in SomeAcks /\ ack.id = id
      BY <1>9 DEF SomeAcks, Packets
    <3> HIDE DEF ack
    <3>3. Same(reader[id], [reader[id] EXCEPT !.acks = Append(@, ack)])
      BY <1>10, <3>2, AckKept
    <3>4. QED BY <1>10, <3>1, <3>3, SameReceived
  <2>3. QED BY <2>1, <2>2
<1>12. /\ r \in Readers /\ ReaderFollows(r) /\ r.id = id /\ AcksMine(r)
       /\ r.nextSeq - Len(r.buffer) = reader[id].nextSeq - Len(reader[id].buffer)
       /\ \/ /\ r.nextSeq = reader[id].nextSeq /\ r.buffer = reader[id].buffer
             /\ r.eof = reader[id].eof
          \/ /\ p.seq <= reader[id].nextSeq /\ ~reader[id].eof /\ r.nextSeq <= cb.totalSize
  BY <1>10, <1>11 DEF Received
<1>13. LoopFollows(loop[id], r)
  BY <1>10, <1>12 DEF LoopFollows
<1>14. /\ reader'[id] = r /\ (\A j \in StreamIds : j # id => reader'[j] = reader[j])
       /\ loop' = [loop EXCEPT ![id] = loop[id]]
  BY <1>2, <1>5, <1>11
<1>15. IdInv'
  <2>1. NetTyped'
    BY <1>2, <1>6 DEF DurableInv, IdInv, NetTyped
  <2>2. CallsNumbered'
    BY <1>2 DEF DurableInv, IdInv, CallsNumbered, Opened
  <2>3. RestartNumbered'
    BY <1>2 DEF DurableInv, IdInv, RestartNumbered
  <2>4. AskedOnce'
    BY <1>2 DEF DurableInv, IdInv, AskedOnce, Opened
  <2>5. Sending'
    BY <1>2, <1>3, <1>6 DEF DurableInv, IdInv, Sending, Opened
  <2>6. QED BY <2>1, <2>2, <2>3, <2>4, <2>5 DEF IdInv
<1>16. Connecting'
  BY <1>2, <1>3, <1>4, ConnectingKept DEF DurableInv
<1>17. CorkedInv'
  BY <1>2, <1>3, <1>6 DEF DurableInv, CorkedInv, Corked
<1>18. BytesInv'
  <2>1. ReadersOK' /\ reader' \in [StreamIds -> Readers] /\ loop' \in [StreamIds -> LoopStates]
    BY <1>4, <1>10, <1>11, <1>12, <1>13, <1>14, ReaderChanged DEF DurableInv
  <2>2. Pieces'
    BY <1>3, <1>4, <1>5, <1>6, PiecesKept DEF DurableInv, BytesInv
  <2>3. QED BY <1>2, <2>1, <2>2 DEF DurableInv, BytesInv, FileTyped, ReadersOK
<1>19. \A j \in StreamIds : reader'[j].nextSeq - Len(reader'[j].buffer) = Behind(j)
  BY <1>12, <1>14 DEF Behind
<1>20. restart.step \notin {"idle", "stat", "create"} => restart.id \in StreamIds
  BY NoLoopYet
<1>21. Asked'
  <2>1. restart.step = "preparing" => restart.id # id /\ restart.id \in StreamIds
    BY <1>8, <1>9, <1>20 DEF DurableInv, IdInv, RestartNumbered, AskedOnce
  <2>2. CASE restart.step = "preparing"
    BY <1>2, <1>14, <2>1, <2>2 DEF DurableInv, Asked
  <2>3. CASE restart.step \in {"prepared", "moving"}
    <3>1. restart.id \in StreamIds /\ Behind(restart.id) = restart.seq
          /\ restart.start <= cb.totalSize /\ restart.start \in Nat /\ restart.seq \in Nat
      BY <1>5, <1>20, <2>3 DEF DurableInv, Asked, Restarts
    <3>2. Behind(restart.id)' = restart.seq
      BY <1>2, <1>19, <3>1 DEF Behind
    <3>3. ASSUME restart.start > restart.seq
          PROVE  /\ reader'[restart.id].buffer = << >> /\ ~reader'[restart.id].eof
                 /\ streamId = restart.id /\ connected => HeadPos(cb) >= restart.start
                 /\ sendPc = "sending" /\ packet.id = restart.id => packet.seq >= restart.start
                 /\ \A k \in DOMAIN packets' :
                      packets'[k].id = restart.id => packets'[k].seq >= restart.start
      <4>1. /\ reader[restart.id].buffer = << >> /\ ~reader[restart.id].eof
            /\ streamId = restart.id /\ connected => HeadPos(cb) >= restart.start
            /\ sendPc = "sending" /\ packet.id = restart.id => packet.seq >= restart.start
            /\ \A k \in DOMAIN packets :
                 packets[k].id = restart.id => packets[k].seq >= restart.start
        BY <2>3, <3>3 DEF DurableInv, Asked
      <4>2. reader'[restart.id].buffer = << >> /\ ~reader'[restart.id].eof
        <5>1. CASE restart.id # id
          BY <1>14, <3>1, <4>1, <5>1
        <5>2. CASE restart.id = id
          <6>1. p.seq >= restart.start /\ p.seq \in Nat
            BY <1>6, <1>7, <1>9, <4>1, <5>2 DEF Packets
          <6>2. reader[id].nextSeq = restart.seq
            <7>1. Len(<< >>) = 0 /\ reader[id].nextSeq \in Nat
              BY <1>10 DEF Readers
            <7>2. reader[id].nextSeq - 0 = restart.seq
              BY <3>1, <4>1, <5>2, <7>1 DEF Behind
            <7>3. QED BY <3>1, <7>1, <7>2
          <6>3. ~(p.seq <= reader[id].nextSeq)
            BY <3>1, <3>3, <6>1, <6>2
          <6>4. QED BY <1>12, <1>14, <4>1, <5>2, <6>3
        <5>3. QED BY <5>1, <5>2
      <4>3. \A k \in DOMAIN packets' :
              packets'[k].id = restart.id => packets'[k].seq >= restart.start
        BY <1>6, <4>1
      <4>4. QED BY <4>1, <4>2, <4>3
    <3>4. HeadPos(cb') = HeadPos(cb) /\ cb'.totalSize = cb.totalSize
      BY <1>3
    <3>5. QED BY <1>2, <1>3, <2>3, <3>1, <3>2, <3>3, <3>4 DEF Asked
  <2>4. CASE restart.step \notin {"preparing", "prepared", "moving"}
    BY <1>2, <2>4 DEF Asked
  <2>5. QED BY <2>2, <2>3, <2>4
<1>22. FileInv'
  BY <1>2, <1>4, <1>19, <1>20, FileStays DEF DurableInv
<1>23. QED BY <1>4, <1>15, <1>16, <1>17, <1>18, <1>21, <1>22 DEF DurableInv, Goes

\* An acknowledgement leaves its reader's queue.
LEMMA AckTaken ==
  ASSUME DurableInv, Goes, CorkedInv', NEW id \in StreamIds, reader[id].acks # << >>,
         reader' = [reader EXCEPT ![id].acks = Tail(@)], writers' \subseteq writers,
         sendPc' = "sending" <=> sendPc = "sending", NetAlone,
         UNCHANGED <<packets, packet, streamId, connected, connecting>>
  PROVE  DurableInv'
<1>1. /\ UNCHANGED <<conn, conns, calls, pendingId, streamConn, prep, restart>>
      /\ UNCHANGED <<loop, jobStream, file, totalGap, saved, overtaken, streamDone, crashes>>
  BY NetRest
<1>2. reader \in [StreamIds -> Readers] /\ packets \in Seq(Packets) /\ restart \in Restarts
  BY DEF DurableInv, BytesInv, FileTyped, IdInv, NetTyped
<1>3. PICK r : r = [reader[id] EXCEPT !.acks = Tail(@)]
  OBVIOUS
<1>4. Same(reader[id], r) /\ reader' = [reader EXCEPT ![id] = r]
  BY <1>2, <1>3, AckGone
<1>5. /\ ReadersOK' /\ reader' \in [StreamIds -> Readers] /\ loop' \in [StreamIds -> LoopStates]
      /\ \A j \in StreamIds : /\ reader'[j].nextSeq = reader[j].nextSeq
                              /\ reader'[j].buffer = reader[j].buffer
                              /\ reader'[j].eof = reader[j].eof
  BY <1>1, <1>4, ReaderSame
<1>6. restart.step \notin {"idle", "stat", "create"} => restart.id \in StreamIds
  BY NoLoopYet
<1>7. IdInv'
  BY <1>1, IdsKept DEF DurableInv
<1>8. Connecting'
  BY <1>1, ConnectingKept DEF DurableInv
<1>9. BytesInv'
  <2>1. Pieces'
    <3>1. \A k \in DOMAIN packets' : \E j \in DOMAIN packets : packets'[k] = packets[j]
      OBVIOUS
    <3>2. QED BY <1>2, <3>1, PiecesKept DEF DurableInv, BytesInv
  <2>2. QED BY <1>1, <1>5, <2>1 DEF DurableInv, BytesInv, FileTyped, ReadersOK
<1>10. Asked'
  <2>1. cb.totalSize \in Nat /\ cb.totalSize <= cb'.totalSize /\ HeadPos(cb) \in Nat
        /\ HeadPos(cb) <= HeadPos(cb')
    BY Base DEF DurableInv, Goes, Grows
  <2>2. (cb.totalSize \in Nat /\ HeadPos(cb) \in Nat)'
    BY Base, PTL DEF Goes
  <2>3. restart.start \in Nat
    BY <1>2 DEF Restarts
  <2>4. /\ HeadPos(cb) >= restart.start => HeadPos(cb') >= restart.start
        /\ restart.start <= cb.totalSize => restart.start <= cb'.totalSize
    BY <2>1, <2>2, <2>3
  <2>5. QED BY <1>1, <1>5, <1>6, <2>4 DEF DurableInv, Asked, Behind
<1>11. FileInv'
  BY <1>1, <1>5, <1>6, FileStays DEF DurableInv, Behind
<1>12. QED BY <1>7, <1>8, <1>9, <1>10, <1>11 DEF DurableInv, Goes

LEMMA LoseAckKeeps == ASSUME DurableInv, NEW id \in StreamIds, LoseAck(id) PROVE DurableInv'
<1>1. /\ reader[id].acks # << >> /\ reader' = [reader EXCEPT ![id].acks = Tail(@)]
      /\ UNCHANGED <<smVars, packets, writers>> /\ NetAlone
  BY DEF LoseAck, NetAlone
<1>2. UNCHANGED <<packet, sendPc, streamId, connected, connecting, rwndSize>>
  BY <1>1 DEF smVars, clientVars, senderVars
<1>3. Goes
  BY <1>1, RestGoes DEF DurableInv
<1>4. pendingId' = pendingId
  BY <1>1, NetRest
<1>5. CorkedInv'
  BY <1>1, <1>2, <1>4, CorkedKept DEF DurableInv
<1>6. QED BY <1>1, <1>2, <1>3, <1>5, AckTaken

LEMMA DeliverAckKeeps == ASSUME DurableInv, NEW id \in StreamIds, DeliverAck(id) PROVE DurableInv'
<1> DEFINE ack == Head(reader[id].acks)
<1>1. /\ reader[id].acks # << >> /\ reader' = [reader EXCEPT ![id].acks = Tail(@)]
      /\ IF id \in writers THEN TakeAck(ack) ELSE UNCHANGED smVars
      /\ writers' \subseteq writers /\ packets' = packets /\ NetAlone
  BY DEF DeliverAck, NetAlone
<1>2. ack \in SomeAcks /\ ack.id = id
  <2>1. reader[id] \in Readers /\ reader[id].acks \in Seq(SomeAcks)
    BY DEF DurableInv, BytesInv, FileTyped, Readers
  <2>2. ack = reader[id].acks[1] /\ 1 \in DOMAIN reader[id].acks
    BY <1>1, <2>1
  <2>3. QED BY <2>1, <2>2 DEF DurableInv, BytesInv, ReaderOK
<1> HIDE DEF ack
<1>3. \/ UNCHANGED smVars
      \/ id \in writers /\ RecvAck(ack)
  BY <1>1 DEF TakeAck
<1>4. Goes
  BY <1>2, <1>3, RestGoes, AckGoes DEF DurableInv
<1>5. /\ UNCHANGED <<packet, streamId, connected, connecting>>
      /\ (sendPc' = "sending" <=> sendPc = "sending")
      /\ rwndSize' # rwndSize => id \in writers /\ id = streamId
  <2>1. CASE UNCHANGED smVars
    BY <2>1 DEF smVars, clientVars, senderVars
  <2>2. CASE id \in writers /\ RecvFinAck(ack)
    BY <2>2 DEF RecvFinAck, Signal
  <2>3. CASE id \in writers /\ RecvOddAck(ack)
    BY <2>3 DEF RecvOddAck, senderVars
  <2>4. CASE id \in writers /\ RecvDataAck(ack)
    BY <1>2, <2>4 DEF RecvDataAck, Signal
  <2>5. QED BY <1>3, <2>1, <2>2, <2>3, <2>4 DEF RecvAck
<1>6. pendingId' = pendingId
  BY <1>1, NetRest
<1>7. CorkedInv'
  BY <1>1, <1>5, <1>6 DEF DurableInv, CorkedInv, Corked
<1>8. QED BY <1>1, <1>4, <1>5, <1>7, AckTaken
-----------------------------------------------------------------------------
(* The output loops.                                                         *)

LEMMA LoopOf ==
  ASSUME DurableInv, NEW id \in StreamIds, loop[id].step # "none"
  PROVE  /\ reader[id] \in Readers /\ ReaderFollows(reader[id]) /\ reader[id].id = id
         /\ AcksMine(reader[id]) /\ loop[id] \in LoopStates /\ LoopFollows(loop[id], reader[id])
         /\ restart.step \notin {"idle", "stat", "create"} =>
              restart.id # id /\ restart.id \in StreamIds /\ jobStream = restart.id
         /\ reader \in [StreamIds -> Readers] /\ loop \in [StreamIds -> LoopStates]
  BY NoLoopYet DEF DurableInv, BytesInv, FileTyped, ReaderOK, AcksMine

LoopAlone == UNCHANGED RestOfLoop

LEMMA LoopRest ==
  ASSUME LoopAlone
  PROVE  /\ UNCHANGED <<conn, conns, calls, packets, pendingId, writers, streamConn, prep>>
         /\ UNCHANGED <<streamId, sendPc, packet, connected, rwndSize, connecting, smVars>>
         /\ UNCHANGED <<jobStream, restart, totalGap, saved, crashes>>
  BY DEF LoopAlone, RestOfLoop, smVars, clientVars, senderVars, jmVars

\* What a step of one loop keeps, if it keeps the file.
LEMMA LoopStepKeeps ==
  ASSUME DurableInv, NEW id \in StreamIds, loop[id].step # "none", NEW r \in Readers,
         NEW l \in LoopStates, r.id = id, AcksMine(r), ReaderFollows(r), LoopFollows(l, r),
         reader' = [reader EXCEPT ![id] = r], loop' = [loop EXCEPT ![id] = l],
         file' \in Seq(Nat), LoopAlone, FileInv'
  PROVE  DurableInv'
<1>1. /\ UNCHANGED <<conn, conns, calls, packets, pendingId, writers, streamConn, prep>>
      /\ UNCHANGED <<streamId, sendPc, packet, connected, rwndSize, connecting, smVars>>
      /\ UNCHANGED <<jobStream, restart, totalGap, saved, crashes>>
  BY LoopRest
<1>2. Goes
  BY <1>1, RestGoes DEF DurableInv
<1>3. /\ reader \in [StreamIds -> Readers] /\ loop \in [StreamIds -> LoopStates]
      /\ restart.step \notin {"idle", "stat", "create"} => restart.id # id /\ restart.id \in StreamIds
  BY LoopOf
<1>4. /\ \A j \in StreamIds : j # id => loop'[j] = loop[j] /\ reader'[j] = reader[j]
      /\ \A j \in StreamIds : loop'[j].step # "none" => loop[j].step # "none"
  BY <1>3
<1>5. IdInv'
  <2>1. NetTyped'
    BY <1>1 DEF DurableInv, IdInv, NetTyped
  <2>2. CallsNumbered'
    BY <1>1 DEF DurableInv, IdInv, CallsNumbered, Opened
  <2>3. RestartNumbered'
    BY <1>1, <1>4 DEF DurableInv, IdInv, RestartNumbered
  <2>4. AskedOnce'
    BY <1>1 DEF DurableInv, IdInv, AskedOnce, Opened
  <2>5. Sending'
    BY <1>1 DEF DurableInv, IdInv, Sending, Opened
  <2>6. QED BY <2>1, <2>2, <2>3, <2>4, <2>5 DEF IdInv
<1>6. Connecting'
  BY <1>1, <1>2, ConnectingKept DEF DurableInv
<1>7. CorkedInv'
  BY <1>1, CorkedKept DEF DurableInv
<1>8. BytesInv'
  <2>1. ReadersOK' /\ reader' \in [StreamIds -> Readers] /\ loop' \in [StreamIds -> LoopStates]
    BY <1>2, ReaderChanged DEF DurableInv
  <2>2. Pieces'
    <3>1. \A k \in DOMAIN packets' : \E j \in DOMAIN packets : packets'[k] = packets[j]
      BY <1>1
    <3>2. QED BY <1>1, <1>2, <3>1, PiecesKept DEF DurableInv, BytesInv, IdInv, NetTyped
  <2>3. QED BY <1>1, <2>1, <2>2 DEF DurableInv, BytesInv, FileTyped, ReadersOK
<1>9. Asked'
  <2>1. HeadPos(cb') = HeadPos(cb) /\ cb'.totalSize = cb.totalSize
    BY <1>1 DEF smVars
  <2>2. QED BY <1>1, <1>3, <1>4, <2>1 DEF DurableInv, Asked, Behind
<1>10. QED BY <1>2, <1>5, <1>6, <1>7, <1>8, <1>9 DEF DurableInv, Goes

\* The file stays, and so does what the loop and its reader hold together.
LEMMA LoopReads ==
  ASSUME DurableInv, NEW id \in StreamIds, loop[id].step # "none", NEW r \in Readers,
         NEW l \in LoopStates,
         reader' = [reader EXCEPT ![id] = r], loop' = [loop EXCEPT ![id] = l],
         UNCHANGED <<file, streamDone, overtaken>>, LoopAlone,
         l.step # "none" => r.nextSeq - Len(r.buffer) - Len(l.hold) = At(id),
         l.step = "writing" /\ l.end = "eof" /\ ~overtaken => AtEnd
  PROVE  FileInv'
<1>1. /\ UNCHANGED <<smVars, jobStream, restart, totalGap, saved, crashes>>
  BY LoopRest
<1>2. Goes
  BY <1>1, RestGoes DEF DurableInv
<1>3. /\ reader \in [StreamIds -> Readers] /\ loop \in [StreamIds -> LoopStates]
      /\ restart.step \notin {"idle", "stat", "create"} => restart.id # id /\ restart.id \in StreamIds
  BY LoopOf
<1>4. /\ \A j \in StreamIds : j # id => loop'[j] = loop[j] /\ reader'[j] = reader[j]
      /\ loop'[id] = l /\ reader'[id] = r
  BY <1>3
<1>5. Position' = Position /\ (AtEnd => AtEnd')
  BY <1>1, <1>2 DEF Position, AtEnd, Goes, Grows
<1>6. RestartFollows => RestartFollows'
  <2>1. Gap' = Gap
    BY <1>1 DEF Gap
  <2>2. QED BY <1>1, <1>3, <1>4, <1>5, <2>1 DEF RestartFollows, Behind
<1>7. Follows => Follows'
  <2>1. ASSUME NEW j \in StreamIds, loop'[j].step # "none"
        PROVE  loop[j].step # "none" /\ At(j)' = At(j)
    <3>1. At(j)' = reader'[j].nextSeq - Len(reader'[j].buffer) - Len(loop'[j].hold)
      BY DEF At, Behind
    <3>2. CASE j = id
      BY <1>4, <2>1, <3>1, <3>2
    <3>3. CASE j # id
      BY <1>4, <2>1, <3>1, <3>3 DEF At, Behind
    <3>4. QED BY <3>2, <3>3
  <2>2. QED BY <1>1, <1>5, <2>1 DEF Follows
<1>8. Ended /\ ~overtaken => Ended'
  <2>1. ASSUME Ended, ~overtaken, crashes' = 0, NEW j \in StreamIds,
               loop'[j].step = "writing", loop'[j].end = "eof"
        PROVE  AtEnd
    <3>1. CASE j = id
      BY <1>4, <2>1, <3>1
    <3>2. CASE j # id
      BY <1>1, <1>4, <2>1, <3>2 DEF Ended
    <3>3. QED BY <3>1, <3>2
  <2>2. QED BY <1>1, <1>5, <2>1 DEF Ended
<1>9. QED BY <1>1, <1>6, <1>7, <1>8 DEF DurableInv, FileInv, InPlace

LEMMA LoopReadKeeps == ASSUME DurableInv, NEW id \in StreamIds, LoopRead(id) PROVE DurableInv'
<1>1. /\ loop[id].step = "reading" /\ Rd!CanRead(reader[id]) /\ LoopAlone
      /\ UNCHANGED <<file, streamDone, overtaken>>
  BY DEF LoopRead, LoopAlone
<1>2. PICK s \in Readers : s = reader[id]
  BY <1>1, LoopOf
<1>3. /\ ReaderFollows(s) /\ s.id = id /\ AcksMine(s) /\ loop[id].hold = << >>
      /\ s.nextSeq \in Nat /\ Len(s.buffer) \in Nat /\ s.nextSeq >= Len(s.buffer)
      /\ reader \in [StreamIds -> Readers]
  <2>1. ReaderFollows(s) /\ s.id = id /\ AcksMine(s) /\ LoopFollows(loop[id], s)
        /\ reader \in [StreamIds -> Readers]
    BY <1>1, <1>2, LoopOf
  <2>2. s.nextSeq \in Nat /\ Len(s.buffer) \in Nat
    BY DEF Readers
  <2>3. QED BY <1>1, <2>1, <2>2 DEF LoopFollows, ReaderFollows
<1>4. At(id) = s.nextSeq - Len(s.buffer)
  <2>1. Len(<< >>) = 0
    OBVIOUS
  <2>2. QED BY <1>2, <1>3, <2>1 DEF At, Behind
<1>5. file \in Seq(Nat)
  BY DEF DurableInv, BytesInv, FileTyped
<1>6. CASE Rd!ReadEnds(s) = "none"
  <2>1. PICK n \in 1 .. Len(s.buffer) :
          /\ reader' = [reader EXCEPT ![id] = Rd!Read(s, n)]
          /\ loop' = [loop EXCEPT ![id] = [step |-> "checking", end |-> "none",
                                           hold |-> SubSeq(s.buffer, 1, n)]]
    BY <1>2, <1>6 DEF LoopRead
  <2>2. PICK t, h : t = Rd!Read(s, n) /\ h = SubSeq(s.buffer, 1, n)
    OBVIOUS
  <2>3. PICK l : l = [step |-> "checking", end |-> "none", hold |-> h]
    OBVIOUS
  <2>4. /\ t \in Readers /\ ReaderFollows(t) /\ t.id = s.id /\ t.nextSeq = s.nextSeq
        /\ AcksMine(t) /\ Len(t.buffer) = Len(s.buffer) - n /\ Len(h) = n /\ h \in Seq(Nat)
        /\ h = Bytes(s.nextSeq - Len(s.buffer), n) /\ s.nextSeq <= cb.totalSize
    BY <1>3, <2>2, ReadOK
  <2>5. /\ l \in LoopStates /\ l.hold = h /\ l.step = "checking" /\ l.end = "none"
    BY <2>3, <2>4 DEF LoopStates
  <2>6. t.nextSeq - Len(t.buffer) - Len(l.hold) = s.nextSeq - Len(s.buffer)
    BY <1>3, <2>4, <2>5
  <2>7. LoopFollows(l, t)
    BY <1>3, <2>4, <2>5, <2>6 DEF LoopFollows
  <2>8. /\ reader' = [reader EXCEPT ![id] = t] /\ loop' = [loop EXCEPT ![id] = l]
    BY <2>1, <2>2, <2>3
  <2>9. FileInv'
    BY <1>1, <1>4, <2>4, <2>5, <2>6, <2>8, LoopReads
  <2>10. QED BY <1>1, <1>3, <1>5, <2>4, <2>5, <2>7, <2>8, <2>9, LoopStepKeeps
<1>7. CASE Rd!ReadEnds(s) # "none"
  <2>1. /\ reader' = reader
        /\ loop' = [loop EXCEPT ![id] = [step |-> "checking", hold |-> << >>,
                                         end |-> Rd!ReadEnds(s)]]
    BY <1>2, <1>7 DEF LoopRead
  <2>2. PICK l : l = [step |-> "checking", hold |-> << >>, end |-> Rd!ReadEnds(s)]
    OBVIOUS
  <2>3. << >> \in Seq(Nat) /\ Len(<< >>) = 0 /\ Rd!ReadEnds(s) \in {"closed", "error", "eof"}
    BY <1>7 DEF Rd!ReadEnds
  <2>4. /\ l \in LoopStates /\ l.hold = << >> /\ l.step = "checking" /\ l.end = Rd!ReadEnds(s)
    BY <2>2, <2>3 DEF LoopStates
  <2>5. l.end = "eof" => s.eof /\ s.buffer = << >>
    BY <1>1, <1>2, <1>7, <2>4 DEF Rd!ReadEnds, Rd!CanRead, Rd!Receiving
  <2>6. s.nextSeq - Len(s.buffer) - Len(l.hold) = s.nextSeq - Len(s.buffer)
    BY <1>3, <2>3, <2>4
  <2>7. LoopFollows(l, s)
    <3>1. Bytes(s.nextSeq - Len(s.buffer), 0) = << >> /\ s.nextSeq - Len(s.buffer) >= 0
      BY <1>3, NoBytes
    <3>2. QED BY <2>3, <2>4, <2>5, <2>6, <3>1 DEF LoopFollows
  <2>8. /\ reader' = [reader EXCEPT ![id] = s] /\ loop' = [loop EXCEPT ![id] = l]
    BY <1>2, <1>3, <2>1, <2>2
  <2>9. FileInv'
    BY <1>1, <1>4, <2>4, <2>6, <2>8, LoopReads
  <2>10. QED BY <1>1, <1>3, <1>5, <2>4, <2>7, <2>8, <2>9, LoopStepKeeps
<1>8. QED BY <1>6, <1>7

\* A loop that has seen the end of its stream has put all before it in the file.
LEMMA SeenEnd ==
  ASSUME DurableInv, ~overtaken, NEW id \in StreamIds, jobStream = id, loop[id].step # "none",
         loop[id].end = "eof"
  PROVE  AtEnd
<1>1. /\ reader[id] \in Readers /\ ReaderFollows(reader[id]) /\ LoopFollows(loop[id], reader[id])
      /\ Position = At(id)
  BY LoopOf DEF DurableInv, FileInv, Follows
<1>2. /\ loop[id].hold = << >> /\ reader[id].buffer = << >> /\ terminalEvent # "none"
      /\ reader[id].nextSeq = eofPos
  BY <1>1 DEF LoopFollows, ReaderFollows
<1>3. Len(<< >>) = 0 /\ reader[id].nextSeq \in Nat
  BY <1>1 DEF Readers
<1>4. At(id) = (reader[id].nextSeq - 0) - 0
  BY <1>2, <1>3 DEF At, Behind
<1>5. QED BY <1>1, <1>2, <1>3, <1>4 DEF AtEnd

LEMMA LoopCheckKeeps == ASSUME DurableInv, NEW id \in StreamIds, LoopCheck(id) PROVE DurableInv'
<1>1. /\ loop[id].step = "checking" /\ LoopAlone
      /\ UNCHANGED <<file, streamDone, overtaken>>
  BY DEF LoopCheck, LoopAlone
<1>2. /\ reader[id] \in Readers /\ ReaderFollows(reader[id]) /\ reader[id].id = id
      /\ AcksMine(reader[id]) /\ loop[id] \in LoopStates /\ LoopFollows(loop[id], reader[id])
      /\ reader \in [StreamIds -> Readers] /\ loop \in [StreamIds -> LoopStates]
      /\ file \in Seq(Nat)
  BY <1>1, LoopOf DEF DurableInv, BytesInv, FileTyped
<1>3. CASE jobStream = id
  <2>1. PICK l : l = [loop[id] EXCEPT !.step = "writing"]
    OBVIOUS
  <2>2. reader' = [reader EXCEPT ![id] = reader[id]] /\ loop' = [loop EXCEPT ![id] = l]
    BY <1>2, <1>3, <2>1 DEF LoopCheck
  <2>3. l \in LoopStates /\ l.step = "writing" /\ l.hold = loop[id].hold /\ l.end = loop[id].end
    BY <1>2, <2>1 DEF LoopStates
  <2>4. LoopFollows(l, reader[id])
    BY <1>2, <2>3 DEF LoopFollows
  <2>5. FileInv'
    <3>1. l.end = "eof" /\ ~overtaken => AtEnd
      BY <1>1, <1>3, <2>3, SeenEnd
    <3>2. reader[id].nextSeq - Len(reader[id].buffer) - Len(l.hold) = At(id)
      BY <2>3 DEF At, Behind
    <3>3. QED BY <1>1, <1>2, <2>2, <2>3, <3>1, <3>2, LoopReads
  <2>6. QED BY <1>1, <1>2, <2>2, <2>3, <2>4, <2>5, LoopStepKeeps
<1>4. CASE jobStream # id
  <2>1. PICK r : r = Rd!CloseReader(reader[id])
    OBVIOUS
  <2>2. reader' = [reader EXCEPT ![id] = r] /\ loop' = [loop EXCEPT ![id] = NoLoop]
    BY <1>2, <1>4, <2>1 DEF LoopCheck
  <2>3. Same(reader[id], r)
    BY <1>2, <2>1, CloseKept
  <2>4. /\ r \in Readers /\ r.id = id /\ AcksMine(r) /\ ReaderFollows(r)
    BY <1>2, <2>3, SameFollows DEF Same
  <2>5. LoopFollows(NoLoop, r)
    <3>1. r.nextSeq \in Nat /\ Len(r.buffer) \in Nat /\ r.nextSeq >= Len(r.buffer)
      BY <2>4 DEF Readers, ReaderFollows
    <3>2. r.nextSeq - Len(r.buffer) - 0 \in Nat /\ Len(<< >>) = 0
      BY <3>1
    <3>3. QED BY <3>2, NoBytes, NoLoopOK DEF LoopFollows
  <2>6. FileInv'
    BY <1>1, <2>2, <2>4, NoLoopOK, LoopReads
  <2>7. QED BY <1>1, <1>2, <2>2, <2>4, <2>5, <2>6, NoLoopOK, LoopStepKeeps
<1>5. QED BY <1>3, <1>4

\* A loop that is not overtaken writes where the file ends.
LEMMA WritesInPlace ==
  ASSUME DurableInv, NEW id \in StreamIds, loop[id].step = "writing", ~overtaken,
         loop[id].hold = << >> \/ ~Overtakes(id)
  PROVE  /\ InPlace(file \o loop[id].hold, totalGap)
         /\ loop[id].hold # << >> => /\ restart.step \in {"idle", "stat"} /\ jobStream = id
                                     /\ Position + Len(loop[id].hold) = Behind(id)
                                     /\ ~AtEnd
<1>1. /\ reader[id] \in Readers /\ ReaderFollows(reader[id]) /\ LoopFollows(loop[id], reader[id])
      /\ loop[id] \in LoopStates
      /\ restart.step \notin {"idle", "stat", "create"} => restart.id # id /\ jobStream = restart.id
  BY LoopOf
<1>2. file \in Seq(Nat) /\ totalGap \in Nat /\ InPlace(file, totalGap) /\ Follows
  BY DEF DurableInv, BytesInv, FileTyped, FileInv
<1>3. CASE loop[id].hold = << >>
  <2>1. file \o << >> = file
    BY <1>2
  <2>2. QED BY <1>2, <1>3, <2>1
<1>4. CASE loop[id].hold # << >>
  <2>1. jobStream = id /\ restart.step # "create"
    BY <1>4 DEF Overtakes
  <2>2. restart.step \in {"idle", "stat"}
    BY <1>1, <2>1
  <2>3. Position = At(id)
    BY <1>2, <2>1 DEF Follows
  <2> DEFINE h == loop[id].hold
             n == Len(h)
             m == Len(file)
             a == reader[id].nextSeq - Len(reader[id].buffer) - n
  <2>4. /\ h \in Seq(Nat) /\ n \in Nat /\ n > 0 /\ m \in Nat
        /\ reader[id].nextSeq \in Nat /\ Len(reader[id].buffer) \in Nat
    <3>1. h \in Seq(Nat)
      BY <1>1 DEF LoopStates
    <3>2. n \in Nat /\ n > 0
      BY <1>4, <3>1
    <3>3. QED BY <1>1, <1>2, <3>1, <3>2 DEF Readers
  <2>5. /\ a >= 0 /\ h = Bytes(a, n) /\ reader[id].nextSeq <= cb.totalSize
    BY <1>1, <1>4 DEF LoopFollows
  <2>6. Position = a /\ m + totalGap = a
    BY <2>3 DEF At, Behind, Position
  <2>7. Behind(id) = a + n
    <3>1. \A x, y \in Nat, z \in Nat : x - y = (x - y - z) + z
      OBVIOUS
    <3> HIDE DEF n
    <3>2. QED BY <2>4, <3>1 DEF Behind
  <2>8. a + n <= cb.totalSize /\ cb.totalSize \in Nat
    <3>1. cb.totalSize \in Nat
      BY Base DEF DurableInv
    <3>2. QED BY <2>4, <2>5, <3>1
  <2> HIDE DEF n, m, a, h
  <2>9. ~AtEnd
    <3>1. AtEnd => Position = cb.totalSize
      BY Base DEF DurableInv, AtEnd
    <3>2. a \in Nat
      BY <1>2, <2>4, <2>6
    <3>3. QED BY <2>4, <2>6, <2>8, <3>1, <3>2
  <2>10. InPlace(file \o h, totalGap)
    <3>1. a \in Nat
      BY <1>2, <2>4, <2>6
    <3>2. h = [i \in 1 .. n |-> a + i - 1]
      BY <2>5 DEF Bytes
    <3>3. /\ DOMAIN file = 1 .. m /\ DOMAIN h = 1 .. n /\ \A i \in 1 .. n : h[i] = a + i - 1
      BY <1>2, <3>2 DEF m
    <3>4. /\ file \o h \in Seq(Nat) /\ Len(file \o h) = m + n /\ DOMAIN (file \o h) = 1 .. (m + n)
          /\ \A i \in 1 .. (m + n) : (file \o h)[i] = IF i <= m THEN file[i] ELSE h[i - m]
      BY <1>2, <2>4 DEF m, n
    <3>5. \A i \in 1 .. m : file[i] \in Nat /\ file[i] < m + totalGap
      BY <1>2, <3>3 DEF InPlace, m
    <3> DEFINE f == file \o h
    <3>6. \A i \in 1 .. (m + n) : /\ i <= m => f[i] = file[i] /\ f[i] \in Nat /\ f[i] < a
                                  /\ i > m => f[i] = a + (i - m) - 1
      <4> SUFFICES ASSUME NEW i \in 1 .. (m + n)
                   PROVE  /\ i <= m => f[i] = file[i] /\ f[i] \in Nat /\ f[i] < a
                          /\ i > m => f[i] = a + (i - m) - 1
        OBVIOUS
      <4>1. i \in Nat /\ i >= 1 /\ i <= m + n
        BY <2>4
      <4>2. CASE i <= m
        <5>1. i \in 1 .. m /\ ~(i > m)
          BY <2>4, <4>1, <4>2
        <5>2. QED BY <2>6, <3>4, <3>5, <4>2, <5>1
      <4>3. CASE i > m
        <5>1. i - m \in 1 .. n /\ ~(i <= m)
          BY <2>4, <4>1, <4>3
        <5>2. QED BY <3>3, <3>4, <5>1
      <4>4. QED BY <2>4, <4>1, <4>2, <4>3
    <3>7. DOMAIN f = 1 .. (m + n) /\ Len(f) = m + n
      BY <3>4
    <3> HIDE DEF f
    <3>8. \A i, j \in DOMAIN f : i < j => f[i] < f[j]
      <4> SUFFICES ASSUME NEW i \in 1 .. (m + n), NEW j \in 1 .. (m + n), i < j
                   PROVE  f[i] < f[j]
        BY <3>7
      <4>1. i \in Nat /\ j \in Nat
        BY <2>4
      <4>2. CASE j <= m
        <5>1. i <= m
          BY <2>4, <4>1, <4>2
        <5>2. file[i] < file[j]
          <6>1. i \in DOMAIN file /\ j \in DOMAIN file
            BY <2>4, <3>3, <4>1, <4>2, <5>1
          <6>2. QED BY <1>2, <6>1 DEF InPlace
        <5>3. QED BY <3>6, <4>2, <5>1, <5>2
      <4>3. CASE i <= m /\ j > m
        <5>1. f[i] \in Nat /\ f[i] < a /\ f[j] = a + (j - m) - 1
          BY <3>6, <4>3
        <5>2. QED BY <2>4, <3>1, <4>1, <4>3, <5>1
      <4>4. CASE i > m
        <5>1. j > m
          BY <2>4, <4>1, <4>4
        <5>2. f[i] = a + (i - m) - 1 /\ f[j] = a + (j - m) - 1
          BY <3>6, <4>4, <5>1
        <5>3. QED BY <2>4, <3>1, <4>1, <5>2
      <4>5. QED BY <2>4, <4>1, <4>2, <4>3, <4>4
    <3>9. \A i \in DOMAIN f : f[i] < Len(f) + totalGap
      <4> SUFFICES ASSUME NEW i \in 1 .. (m + n) PROVE f[i] < Len(f) + totalGap
        BY <3>7
      <4>1. i \in Nat /\ i <= m + n /\ Len(f) + totalGap = a + n
        BY <1>2, <2>4, <2>6, <3>7
      <4>2. CASE i <= m
        <5>1. f[i] \in Nat /\ f[i] < a
          BY <3>6, <4>2
        <5>2. QED BY <2>4, <3>1, <4>1, <5>1
      <4>3. CASE i > m
        <5>1. f[i] = a + (i - m) - 1
          BY <3>6, <4>3
        <5>2. QED BY <2>4, <3>1, <4>1, <4>3, <5>1
      <4>4. QED BY <2>4, <4>1, <4>2, <4>3
    <3>10. QED BY <3>8, <3>9 DEF InPlace, f
  <2>11. QED BY <2>1, <2>2, <2>6, <2>7, <2>9, <2>10 DEF h, n
<1>5. QED BY <1>3, <1>4

LEMMA LoopWriteKeeps == ASSUME DurableInv, NEW id \in StreamIds, LoopWrite(id) PROVE DurableInv'
<1>1. /\ loop[id].step = "writing" /\ LoopAlone /\ file' = file \o loop[id].hold
      /\ overtaken' = (overtaken \/ (loop[id].hold # << >> /\ Overtakes(id)))
  BY DEF LoopWrite, LoopAlone
<1>2. /\ reader[id] \in Readers /\ ReaderFollows(reader[id]) /\ reader[id].id = id
      /\ AcksMine(reader[id]) /\ loop[id] \in LoopStates /\ LoopFollows(loop[id], reader[id])
      /\ reader \in [StreamIds -> Readers] /\ loop \in [StreamIds -> LoopStates]
      /\ file \in Seq(Nat)
      /\ restart.step \notin {"idle", "stat", "create"} => restart.id # id /\ restart.id \in StreamIds
  BY <1>1, LoopOf DEF DurableInv, BytesInv, FileTyped
<1>3. loop[id].hold \in Seq(Nat) /\ file' \in Seq(Nat) /\ Len(file') = Len(file) + Len(loop[id].hold)
      /\ Len(loop[id].hold) \in Nat
  <2>1. loop[id].hold \in Seq(Nat)
    BY <1>2 DEF LoopStates
  <2>2. QED BY <1>1, <1>2, <2>1
<1>4. /\ UNCHANGED <<smVars, jobStream, restart, totalGap, saved, crashes>>
      /\ totalGap \in Nat
  BY <1>1, LoopRest DEF DurableInv, BytesInv, FileTyped
<1>5. PICK r, l :
        /\ reader' = [reader EXCEPT ![id] = r] /\ loop' = [loop EXCEPT ![id] = l]
        /\ Same(reader[id], r) /\ l \in LoopStates /\ l.hold = << >> /\ l.end = "none"
        /\ l.step \in {"none", "reading"}
        /\ l.step = "reading" => loop[id].end = "none"
        /\ streamDone' = streamDone \/ (streamDone' = loop[id].end /\ loop[id].end # "none")
  <2>1. CASE loop[id].end = "none"
    <3>1. PICK l : l = [NoLoop EXCEPT !.step = "reading"]
      OBVIOUS
    <3>2. l \in LoopStates /\ l.hold = << >> /\ l.end = "none" /\ l.step = "reading"
      BY <3>1, NoLoopOK DEF LoopStates
    <3>3. /\ loop' = [loop EXCEPT ![id] = l] /\ reader' = [reader EXCEPT ![id] = reader[id]]
          /\ streamDone' = streamDone
      BY <1>2, <2>1, <3>1 DEF LoopWrite
    <3>4. Same(reader[id], reader[id])
      BY <1>2 DEF Same
    <3>5. QED BY <2>1, <3>2, <3>3, <3>4
  <2>2. CASE loop[id].end # "none"
    <3>1. PICK r : r = Rd!CloseReader(reader[id])
      OBVIOUS
    <3>2. /\ loop' = [loop EXCEPT ![id] = NoLoop] /\ reader' = [reader EXCEPT ![id] = r]
          /\ streamDone' = loop[id].end
      BY <1>2, <2>2, <3>1 DEF LoopWrite
    <3>3. Same(reader[id], r)
      BY <1>2, <3>1, CloseKept
    <3>4. QED BY <2>2, <3>2, <3>3, NoLoopOK
  <2>3. QED BY <2>1, <2>2
<1>6. /\ r \in Readers /\ r.id = id /\ AcksMine(r) /\ ReaderFollows(r)
      /\ r.nextSeq = reader[id].nextSeq /\ r.buffer = reader[id].buffer
  BY <1>2, <1>5, SameFollows DEF Same
<1>7. LoopFollows(l, r)
  <2>1. r.nextSeq \in Nat /\ Len(r.buffer) \in Nat /\ r.nextSeq >= Len(r.buffer)
    BY <1>6 DEF Readers, ReaderFollows
  <2>2. r.nextSeq - Len(r.buffer) - 0 \in Nat /\ Len(<< >>) = 0
    BY <2>1
  <2>3. QED BY <1>5, <2>2, NoBytes DEF LoopFollows
<1>8. Goes
  BY <1>4, RestGoes DEF DurableInv
<1>9. /\ \A j \in StreamIds : j # id => loop'[j] = loop[j] /\ reader'[j] = reader[j]
      /\ loop'[id] = l /\ reader'[id] = r
  BY <1>2, <1>5
<1>10. FileInv'
  <2> SUFFICES ASSUME ~overtaken' PROVE FileInv'
    BY DEF FileInv
  <2>1. ~overtaken /\ (loop[id].hold = << >> \/ ~Overtakes(id))
    BY <1>1
  <2>2. /\ RestartFollows /\ Follows /\ InPlace(saved.file, saved.totalGap) /\ Ended
    BY <2>1 DEF DurableInv, FileInv
  <2>3. /\ InPlace(file \o loop[id].hold, totalGap)
        /\ loop[id].hold # << >> => /\ restart.step \in {"idle", "stat"} /\ jobStream = id
                                    /\ Position + Len(loop[id].hold) = Behind(id)
                                    /\ ~AtEnd
    BY <1>1, <2>1, WritesInPlace
  <2>4. Position' = Position + Len(loop[id].hold)
    <3>1. Len(file) \in Nat /\ Position' = Len(file') + totalGap
      BY <1>2, <1>4 DEF Position
    <3>2. Position = Len(file) + totalGap
      BY DEF Position
    <3>3. \A x, y, z \in Nat : (x + y) + z = (x + z) + y
      OBVIOUS
    <3>4. totalGap \in Nat /\ Len(file') = Len(file) + Len(loop[id].hold) /\ Len(loop[id].hold) \in Nat
      BY <1>3, <1>4
    <3>5. PICK x \in Nat : x = Len(file)
      BY <3>1, Zenon
    <3>6. PICK y \in Nat : y = Len(loop[id].hold)
      BY <3>4, Zenon
    <3>7. PICK z \in Nat : z = totalGap
      BY <3>4, Zenon
    <3>8. Position' = (x + y) + z
      BY <3>1, <3>4, <3>5, <3>6, <3>7, Zenon
    <3>9. Position = x + z
      BY <3>2, <3>5, <3>7, Zenon
    <3>10. (x + y) + z = (x + z) + y
      BY <3>3, <3>5, <3>6, <3>7, Zenon
    <3>11. QED BY <3>6, <3>8, <3>9, <3>10, Zenon
  <2>5. loop[id].hold = << >> => Position' = Position
    <3>1. Position \in Nat /\ Len(<< >>) = 0
      BY <1>2, <1>4 DEF Position
    <3>2. QED BY <2>4, <3>1
  <2>6. RestartFollows'
    <3>1. CASE loop[id].hold = << >>
      <4>1. Gap' = Gap
        BY <1>4 DEF Gap
      <4>2. QED BY <1>2, <1>4, <1>9, <2>2, <2>5, <3>1, <4>1 DEF RestartFollows, Behind
    <3>2. CASE loop[id].hold # << >>
      BY <1>4, <2>3, <3>2 DEF RestartFollows
    <3>3. QED BY <3>1, <3>2
  <2>7. Follows'
    <3> SUFFICES ASSUME NEW j \in StreamIds, jobStream' = j, loop'[j].step # "none"
                 PROVE  Position' = At(j)'
      BY DEF Follows
    <3>1. At(j)' = reader'[j].nextSeq - Len(reader'[j].buffer) - Len(loop'[j].hold)
      BY DEF At, Behind
    <3>2. CASE j = id
      <4>1. Position = At(id)
        BY <1>1, <1>4, <2>2, <3>2 DEF Follows
      <4>2. /\ reader[id].nextSeq \in Nat /\ Len(reader[id].buffer) \in Nat /\ Len(<< >>) = 0
        BY <1>2 DEF Readers
      <4>3. At(j)' = Behind(id) - 0
        BY <1>5, <1>6, <1>9, <3>1, <3>2, <4>2 DEF Behind
      <4>4. Behind(id) - 0 = Behind(id) /\ Position' = Behind(id)
        <5>1. Behind(id) \in Int
          BY <4>2 DEF Behind
        <5>2. Position = Behind(id) - Len(loop[id].hold)
          BY <4>1 DEF At
        <5>3. QED BY <1>3, <2>4, <5>1, <5>2
      <4>5. QED BY <4>3, <4>4
    <3>3. CASE j # id
      <4>1. loop[id].hold = << >> /\ loop[j].step # "none" /\ jobStream = j
        BY <1>4, <1>9, <2>3, <3>3
      <4>2. Position = At(j)
        BY <2>2, <4>1 DEF Follows
      <4>3. QED BY <1>9, <2>5, <3>1, <3>3, <4>1, <4>2 DEF At, Behind
    <3>4. QED BY <3>2, <3>3
  <2>8. AtEnd => AtEnd'
    BY <1>8, <2>3, <2>5 DEF AtEnd, Goes, Grows
  <2>9. Ended'
    <3> SUFFICES ASSUME crashes' = 0
                 PROVE  /\ streamDone' = "eof" => AtEnd
                        /\ \A j \in StreamIds :
                             loop'[j].step = "writing" /\ loop'[j].end = "eof" => AtEnd
      BY <2>8 DEF Ended
    <3>1. /\ streamDone = "eof" => AtEnd
          /\ \A j \in StreamIds : loop[j].step = "writing" /\ loop[j].end = "eof" => AtEnd
      BY <1>4, <2>2 DEF Ended
    <3>2. streamDone' = "eof" => AtEnd
      BY <1>1, <1>5, <3>1
    <3>3. QED BY <1>5, <1>9, <3>1, <3>2
  <2>10. QED BY <1>1, <1>4, <2>2, <2>3, <2>6, <2>7, <2>9 DEF FileInv
<1>11. QED BY <1>1, <1>3, <1>5, <1>6, <1>7, <1>10, LoopStepKeeps
-----------------------------------------------------------------------------
(* The invariant.                                                            *)

LEMMA DurableInit == ASSUME Init PROVE DurableInv
<1> DEFINE size == Least(Window, CwndSize)
           b == MakeCirBuf(TRUE)
<1>1. 1 \in StreamIds /\ Window \in Nat /\ CwndSize \in Nat /\ size \in Nat /\ 0 \in Nat
      /\ NoStream = 0 /\ 0 \notin StreamIds
  BY StreamNumbers, StreamAssumption DEF Least
<1>2. /\ cb = SetEffectiveWindow(b, TRUE, size)
      /\ terminalEvent = "none" /\ eofPos = -1
      /\ rwndSize = Window /\ connected = TRUE /\ streamId = 1
      /\ sentNotAcked = 0 /\ terminalEventSent = FALSE
      /\ maxAckedSeq = 0 /\ maxAckedRwnd = 0 /\ terminalEventAcked = FALSE /\ closed = FALSE
      /\ connecting = NoConnect
      /\ readPc = "checking" /\ chunk = << >> /\ ptyEnd = "open"
      /\ sendPc = "preparing" /\ packet = NoPacket
  BY DEF Init
<1>3. /\ conn = 1 /\ conns = 1 /\ jmClient = 1 /\ pendingId = NoStream /\ writers = {1}
      /\ streamConn = [id \in StreamIds |-> IF id = 1 THEN 1 ELSE 0] /\ prep = NoPrep
      /\ calls = {} /\ packets = << >>
      /\ reader = [id \in StreamIds |-> Rd!NewReader(id, Window, 0)]
      /\ loop = [id \in StreamIds |-> IF id = 1 THEN [NoLoop EXCEPT !.step = "reading"]
                                                ELSE NoLoop]
      /\ jobStream = 1 /\ restart = NoRestart
      /\ file = << >> /\ totalGap = 0 /\ streamDone = "no"
      /\ saved = FileState /\ crashes = 0 /\ overtaken = FALSE
  BY DEF Init
<1>4. cb \in SC!CirBufs /\ SC!CirBufOK(cb) /\ cb.syncMode = TRUE
  <2> DEFINE c == SC!MakeCirBuf(TRUE)
             d == SC!SetEffectiveWindow(c, TRUE, size)
  <2>1. c = b
    BY DEF MakeCirBuf, SC!MakeCirBuf, Slots, SC!Slots
  <2>2. SetEffectiveWindow(b, TRUE, size) = SC!SetEffectiveWindow(b, TRUE, size)
    BY DEF SetEffectiveWindow, SC!SetEffectiveWindow, Advance, SC!Advance, Excess, SC!Excess,
       Wakes, SC!Wakes, Least, SC!Least
  <2>3. c \in SC!CirBufs /\ SC!CirBufOK(c)
    BY SC!MakeCirBufOK, StreamAssumption, MaxSizeAssumption, Zenon
  <2> HIDE DEF c, b, size
  <2>4. d \in SC!CirBufs /\ SC!CirBufOK(d) /\ d.syncMode = TRUE
    BY <1>1, <2>3, SC!SetEffectiveWindowOK, StreamAssumption, MaxSizeAssumption, Zenon
  <2>5. cb = d
    BY <1>2, <2>1, <2>2
  <2> HIDE DEF d
  <2>6. QED BY <2>4, <2>5
<1> HIDE DEF b, size
<1>5. cb.count \in Nat
  BY <1>4, SC!CirBufFields, StreamAssumption, MaxSizeAssumption
<1>6. /\ NoConnect \in SC!Connects /\ NoConnect.step = "none"
      /\ NoPacket \in SC!Packets /\ << >> \in Seq(Nat) /\ << >> \in Seq(Packets)
  BY DEF NoConnect, SC!Connects, NoPacket, SC!Packets
<1>7. SC!BaseInv
  <2>1. Len(<< >>) = 0 /\ MaxPacketSize \in Nat /\ << >> \in Seq(SC!Packets) /\ -1 \in Int
    BY StreamAssumption, MaxSizeAssumption
  <2>2. SC!ChunkOK
    BY <1>2, <2>1 DEF SC!ChunkOK
  <2>3. SC!EndOK /\ SC!HandlerOK
    BY <1>2, <1>6 DEF SC!EndOK, SC!HandlerOK
  <2>4. SC!ModeFollowsClient
    <3>1. connected = TRUE /\ sentNotAcked = 0 /\ cb.syncMode = TRUE
      BY <1>2, <1>4, Zenon
    <3>2. sentNotAcked <= cb.count
      BY <1>5, <3>1
    <3>3. QED BY <3>1, <3>2 DEF SC!ModeFollowsClient
  <2>5. SC!ClientTypes
    BY <1>1, <1>2, <1>6 DEF SC!ClientTypes
  <2>6. SC!LoopTypes
    BY <1>2, <1>6 DEF SC!LoopTypes
  <2>7. SC!HistoryTypes
    BY <2>1 DEF SC!HistoryTypes
  <2>8. QED BY <1>4, <2>2, <2>3, <2>4, <2>5, <2>6, <2>7 DEF SC!BaseInv, SC!BufferOK, SC!TypeOK
<1>8. /\ restart.step = "idle" /\ restart \in Restarts /\ prep.step = "none" /\ prep \in Preps
  BY <1>1, <1>3 DEF NoRestart, Restarts, NoPrep, Preps
<1>9. /\ streamConn[1] = 1 /\ streamConn \in [StreamIds -> Nat]
      /\ \A id \in StreamIds : streamConn[id] = IF id = 1 THEN 1 ELSE 0
  BY <1>1, <1>3
<1>10. ASSUME NEW id \in StreamIds
       PROVE  /\ reader[id] \in Readers /\ ReaderOK(id) /\ reader[id].nextSeq = 0
              /\ reader[id].buffer = << >>
              /\ loop[id] \in LoopStates /\ loop[id].hold = << >> /\ loop[id].end = "none"
              /\ LoopFollows(loop[id], reader[id])
              /\ loop[id].step = IF id = 1 THEN "reading" ELSE "none"
  <2>1. reader[id] = Rd!NewReader(id, Window, 0)
    BY <1>3
  <2>2. PICK r : r = Rd!NewReader(id, Window, 0)
    OBVIOUS
  <2>3. /\ r \in Readers /\ r.id = id /\ AcksMine(r) /\ ReaderFollows(r)
        /\ r.nextSeq = 0 /\ r.buffer = << >>
        /\ \A l \in LoopStates : l.hold = << >> /\ l.end = "none" => LoopFollows(l, r)
    BY <1>1, <2>2, NewReaderOK
  <2>4. loop[id] = IF id = 1 THEN [NoLoop EXCEPT !.step = "reading"] ELSE NoLoop
    BY <1>3
  <2>5. /\ loop[id] \in LoopStates /\ loop[id].hold = << >> /\ loop[id].end = "none"
        /\ loop[id].step = IF id = 1 THEN "reading" ELSE "none"
    BY <2>4, NoLoopOK DEF LoopStates
  <2>6. QED BY <2>1, <2>2, <2>3, <2>5 DEF ReaderOK, AcksMine
<1>11. IdInv
  <2>1. NetTyped
    BY <1>1, <1>3, <1>6, <1>8, <1>9 DEF NetTyped
  <2>2. CallsNumbered
    BY <1>3, <1>8, <1>9 DEF CallsNumbered, Opened
  <2>3. RestartNumbered
    BY <1>3, <1>8, <1>10 DEF RestartNumbered
  <2>4. AskedOnce
    BY <1>8 DEF AskedOnce
  <2>5. Sending
    BY <1>1, <1>2, <1>3, <1>9 DEF Sending, Opened
  <2>6. QED BY <2>1, <2>2, <2>3, <2>4, <2>5 DEF IdInv
<1>12. Connecting
  BY <1>2, <1>6, <1>8 DEF Connecting
<1>13. CorkedInv
  BY <1>3 DEF CorkedInv, Corked
<1>14. BytesInv
  <2>1. reader \in [StreamIds -> Readers] /\ loop \in [StreamIds -> LoopStates]
    BY <1>3, <1>10
  <2>2. FileTyped
    BY <1>1, <1>3, <1>6, <2>1 DEF FileTyped, FileState
  <2>3. Pieces
    BY <1>2, <1>3 DEF Pieces
  <2>4. QED BY <1>10, <2>2, <2>3 DEF BytesInv
<1>15. Asked
  BY <1>8 DEF Asked
<1>16. FileInv
  <2>1. Len(<< >>) = 0 /\ Position = 0
    BY <1>3 DEF Position
  <2>2. RestartFollows
    BY <1>8 DEF RestartFollows
  <2>3. Follows
    BY <1>10, <2>1 DEF Follows, At, Behind
  <2>4. InPlace(file, totalGap) /\ InPlace(saved.file, saved.totalGap)
    BY <1>3 DEF InPlace, FileState
  <2>5. Ended
    BY <1>3, <1>10 DEF Ended
  <2>6. QED BY <2>2, <2>3, <2>4, <2>5 DEF FileInv
<1>17. QED BY <1>7, <1>11, <1>12, <1>13, <1>14, <1>15, <1>16 DEF DurableInv

LEMMA DurableStutters == ASSUME DurableInv, UNCHANGED vars PROVE DurableInv'
<1>1. UNCHANGED smVars /\ UNCHANGED RestOfLoops
  BY DEF vars, RestOfLoops
<1>2. /\ UNCHANGED <<conn, conns, calls, packets, pendingId, writers, streamConn, prep, restart>>
      /\ UNCHANGED <<reader, loop, jobStream, file, totalGap, saved, overtaken, streamDone, crashes>>
      /\ UNCHANGED <<streamId, sendPc, packet, connected, rwndSize, connecting>>
  BY <1>1, LoopsAlone DEF smVars, clientVars, senderVars
<1>3. Goes
  BY <1>1, RestGoes DEF DurableInv
<1>4. packets \in Seq(Packets) /\ restart \in Restarts
  BY DEF DurableInv, IdInv, NetTyped
<1>5. IdInv' /\ CorkedInv'
  BY <1>2, IdsKept, CorkedKept DEF DurableInv
<1>6. Connecting'
  BY <1>2, <1>3, ConnectingKept DEF DurableInv
<1>7. BytesInv'
  BY <1>2, <1>3, <1>4, BytesKept DEF DurableInv
<1>8. Asked'
  BY <1>2, <1>3, <1>4, AskedKept DEF DurableInv
<1>9. FileInv'
  BY <1>2, <1>3, FileKept, RestartKept DEF DurableInv
<1>10. QED BY <1>3, <1>5, <1>6, <1>7, <1>8, <1>9 DEF DurableInv, Goes

LEMMA DurableStep == ASSUME DurableInv, [Next]_vars PROVE DurableInv'
<1>1. CASE Drop
  BY <1>1, DropKeeps
<1>2. CASE Reconnect
  BY <1>2, ReconnectKeeps
<1>3. CASE Crash
  BY <1>3, CrashKeeps
<1>4. CASE Flush
  BY <1>4, FlushKeeps
<1>5. CASE RestartStreaming
  BY <1>5, StatFileKeeps, CreateReaderKeeps, RecordGapKeeps, MoveReaderKeeps, StartLoopKeeps,
     GiveUpKeeps DEF RestartStreaming
<1>6. CASE PrepareConnect
  BY <1>6, BeginPrepareKeeps, DetachOldKeeps, ConnectCorkedKeeps, SkipKnownBytesKeeps,
     EndPrepareKeeps DEF PrepareConnect
<1>7. ASSUME NEW call \in calls, StartStream(call)
      PROVE  DurableInv'
  BY <1>7, StartStreamKeeps
<1>8. CASE Loops
  <2>1. CASE Send
    BY <2>1, SendKeeps
  <2>2. CASE (QuietLoops \/ PrepareData \/ PrepareTerminal) /\ UNCHANGED RestOfLoops
    BY <2>2, QuietLoopsKeep, PrepareKeeps
  <2>3. QED BY <1>8, <2>1, <2>2 DEF Loops, QuietLoops, RestOfLoops
<1>9. CASE Network
  BY <1>9, DeliverDataKeeps, DeliverAckKeeps, LoseAckKeeps DEF Network
<1>10. CASE OutputLoop
  BY <1>10, LoopReadKeeps, LoopCheckKeeps, LoopWriteKeeps DEF OutputLoop
<1>11. CASE UNCHANGED vars
  BY <1>11, DurableStutters
<1>12. QED
  BY <1>1, <1>2, <1>3, <1>4, <1>5, <1>6, <1>7, <1>8, <1>9, <1>10, <1>11 DEF Next

LEMMA DurableInvariant == Spec => []DurableInv
<1>1. Init => DurableInv
  BY DurableInit
<1>2. DurableInv /\ [Next]_vars => DurableInv'
  BY DurableStep
<1>3. QED BY <1>1, <1>2, PTL DEF Spec
-----------------------------------------------------------------------------
(* What it says of the file.                                                 *)

\* The output file holds bytes of the PTY in order, each with as many places
\* before it as the PTY had bytes, however often the connection drops and the
\* main server crashes: restartStreaming asks for the byte after the last.
THEOREM FileHoldsTheStream == Spec => []FileIsStream
<1>1. DurableInv => FileIsStream
  <2> SUFFICES ASSUME DurableInv, ~overtaken
               PROVE  /\ \A i, j \in DOMAIN file : i < j => file[i] < file[j]
                      /\ file # << >> => Len(file) + totalGap > file[Len(file)]
    BY DEF FileIsStream
  <2>1. InPlace(file, totalGap) /\ file \in Seq(Nat) /\ totalGap \in Nat
    BY DEF DurableInv, FileInv, BytesInv, FileTyped
  <2>2. ASSUME file # << >>
        PROVE  Len(file) + totalGap > file[Len(file)]
    <3>1. Len(file) \in DOMAIN file /\ file[Len(file)] \in Nat /\ Len(file) \in Nat
      BY <2>1, <2>2
    <3>2. file[Len(file)] < Len(file) + totalGap
      BY <2>1, <3>1 DEF InPlace
    <3>3. QED BY <2>1, <3>1, <3>2
  <2>3. QED BY <2>1, <2>2 DEF InPlace
<1>2. QED BY <1>1, DurableInvariant, PTL

\* The position restartStreaming asks for, the size of the file and its gaps,
\* is the one the current output loop and its reader have come to.
THEOREM LoopsFollowTheFile == Spec => []LoopFollowsFile
<1>1. DurableInv => LoopFollowsFile
  <2> SUFFICES ASSUME DurableInv, ~overtaken, NEW id \in StreamIds,
                      jobStream = id, loop[id].step # "none"
               PROVE  Len(file) + Len(loop[id].hold) + Len(reader[id].buffer) + totalGap
                        = reader[id].nextSeq
    BY DEF LoopFollowsFile
  <2>1. Position = At(id)
    BY DEF DurableInv, FileInv, Follows
  <2>2. /\ Len(file) \in Nat /\ totalGap \in Nat /\ Len(loop[id].hold) \in Nat
        /\ Len(reader[id].buffer) \in Nat /\ reader[id].nextSeq \in Nat
    <3>1. /\ file \in Seq(Nat) /\ totalGap \in Nat /\ loop[id].hold \in Seq(Nat)
          /\ reader[id].buffer \in Seq(Nat) /\ reader[id].nextSeq \in Nat
      BY DEF DurableInv, BytesInv, FileTyped, Readers, LoopStates
    <3>2. QED BY <3>1
  <2>3. Len(file) + totalGap = (reader[id].nextSeq - Len(reader[id].buffer)) - Len(loop[id].hold)
    BY <2>1 DEF Position, At, Behind
  <2>4. \A a, b, c, d, n \in Nat : a + b = (n - c) - d => a + d + c + b = n
    OBVIOUS
  <2>5. QED BY <2>2, <2>3, <2>4
<1>2. QED BY <1>1, DurableInvariant, PTL

\* An output loop that records that the output has ended has written all of
\* it, or counted what is missing, if the main server has not crashed.
THEOREM RecordedEndIsWhole == Spec => []EofMeansWhole
<1>1. DurableInv => EofMeansWhole
  BY DEF DurableInv, FileInv, Ended, AtEnd, Position, EofMeansWhole
<1>2. QED BY <1>1, DurableInvariant, PTL

\* Between PrepareConnect and StartStream no byte of the new stream is sent,
\* so that the main server can move its reader before the first arrives.
THEOREM NothingBeforeStart == Spec => []Corked
<1>1. DurableInv => Corked
  BY DEF DurableInv, CorkedInv
<1>2. QED BY <1>1, DurableInvariant, PTL
=============================================================================
