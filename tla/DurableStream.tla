---------------------------- MODULE DurableStream ----------------------------
(* The output of a durable job from the PTY to its file, across connections  *)
(* that drop and main servers that crash: the job manager's half is          *)
(* StreamManager and the two calls of pkg/jobmanager/jobmanager.go that      *)
(* connect it, the main server's half is StreamReader and the streaming part *)
(* of pkg/jobcontroller/jobcontroller.go (restartStreaming, runOutputLoop).  *)
(*                                                                           *)
(* The stream with id 1 is the one StartJob opens; the first state is the    *)
(* one StartJob leaves.  Later streams are numbered as they are created.     *)
(* A connection carries packets in order and calls in no order with them.    *)
(* The job manager does not notice that a connection is gone: the deferred   *)
(* disconnectFromStreamHelper runs when handleJobDomainSocketClient returns, *)
(* which is before the connection is ever used (jobmanager.go:425).          *)
EXTENDS StreamManager, FiniteSets

CONSTANTS Window,             \* DefaultStreamRwnd
          MaxConns,           \* bound: connections, the first one included
          MaxCrashes          \* bound: crashes of the main server

ASSUME DurableAssumption ==
  /\ Window \in RwndSizes \ {0} /\ 0 \in RwndSizes
  /\ NoStream = 0 /\ StreamIds = 1 .. MaxConns
  /\ MaxConns \in Nat \ {0} /\ MaxCrashes \in Nat

Rd == INSTANCE StreamReader

VARIABLES
  conn, conns,        \* the connection, 0 if none; how many there have been
  (* the job manager *)
  jmClient,           \* connection of connectedStreamClient, 0 if nil
  pendingId,          \* pendingStreamMeta
  writers,            \* stream ids with a writer at the broker of conn
  streamConn,         \* the connection the packets of a stream go to
  prep,               \* the PrepareConnect that holds jm.lock
  (* between them *)
  calls,              \* calls sent and not yet begun
  packets,
  (* the main server *)
  reader, known,      \* the readers, and those registered with the broker
  loop,               \* the output loop of each stream
  jobStream,          \* jobStreamIds
  restart,            \* restartStreaming
  file, totalGap,     \* the output file and its totalgap metadata
  saved,              \* what of them the file store has flushed
  streamDone,         \* "no", how the output loop saw it end, or "told"
  crashes,
  overtaken           \* history: a loop wrote behind restartStreaming's back

jmVars == <<jmClient, pendingId, writers, streamConn, prep>>
fileVars == <<file, totalGap, saved, streamDone>>
serverVars == <<reader, known, loop, jobStream, restart, fileVars, crashes, overtaken>>
vars == <<smVars, conn, conns, jmVars, calls, packets, serverVars>>

NoPrep    == [step |-> "none", id |-> NoStream, seq |-> 0, conn |-> 0]
NoRestart == [step |-> "idle", id |-> NoStream, seq |-> 0, start |-> 0, conn |-> 0]
NoLoop    == [step |-> "none", hold |-> << >>, end |-> "none"]
FileState == [file |-> file, totalGap |-> totalGap]

Init ==
  /\ cb = SetEffectiveWindow(MakeCirBuf(TRUE), TRUE, Least(Window, CwndSize))
  /\ terminalEvent = "none" /\ eofPos = -1
  /\ rwndSize = Window /\ connected = TRUE /\ streamId = 1
  /\ sentNotAcked = 0 /\ terminalEventSent = FALSE
  /\ maxAckedSeq = 0 /\ maxAckedRwnd = 0
  /\ terminalEventAcked = FALSE /\ closed = FALSE
  /\ connecting = NoConnect
  /\ readPc = "checking" /\ chunk = << >> /\ ptyEnd = "open"
  /\ sendPc = "preparing" /\ packet = NoPacket
  /\ conn = 1 /\ conns = 1
  /\ jmClient = 1 /\ pendingId = NoStream /\ writers = {1}
  /\ streamConn = [id \in StreamIds |-> IF id = 1 THEN 1 ELSE 0] /\ prep = NoPrep
  /\ calls = {} /\ packets = << >>
  /\ reader = [id \in StreamIds |-> Rd!NewReader(id, Window, 0)]
  /\ known = {1}
  /\ loop = [id \in StreamIds |-> IF id = 1 THEN [NoLoop EXCEPT !.step = "reading"]
                                            ELSE NoLoop]
  /\ jobStream = 1 /\ restart = NoRestart
  /\ file = << >> /\ totalGap = 0 /\ streamDone = "no"
  /\ saved = FileState
  /\ crashes = 0 /\ overtaken = FALSE
-----------------------------------------------------------------------------
(* The connection.                                                           *)

\* Calls already read from the connection are still answered to nobody.
Drop ==
  /\ conn # 0
  /\ conn' = 0 /\ packets' = << >> /\ writers' = {}
  /\ calls' \in SUBSET calls
  /\ UNCHANGED <<smVars, conns, jmClient, pendingId, streamConn, prep, reader, known,
                 loop, jobStream, restart, fileVars, crashes, overtaken>>

\* doReconnectJob, up to restartStreaming.
Reconnect ==
  /\ conn = 0 /\ conns < MaxConns /\ restart.step = "idle"
  /\ conn' = conns + 1 /\ conns' = conns + 1
  /\ restart' = [NoRestart EXCEPT !.step = "stat", !.conn = conns + 1]
  /\ UNCHANGED <<smVars, jmVars, calls, packets, reader, known, loop, jobStream,
                 fileVars, crashes, overtaken>>

\* The main server loses what the file store had not flushed.
Crash ==
  /\ crashes < MaxCrashes /\ crashes' = crashes + 1
  /\ conn' = 0 /\ packets' = << >> /\ writers' = {}
  /\ calls' \in SUBSET calls
  /\ reader' = [id \in StreamIds |-> Rd!NewReader(id, Window, 0)]
  /\ known' = {} /\ loop' = [id \in StreamIds |-> NoLoop]
  /\ jobStream' = NoStream /\ restart' = NoRestart
  /\ file' = saved.file /\ totalGap' = saved.totalGap
  /\ UNCHANGED <<smVars, conns, jmClient, pendingId, streamConn, prep, saved, streamDone,
                 overtaken>>

\* Only a later crash can tell a flush.
Flush ==
  /\ crashes < MaxCrashes
  /\ saved # FileState /\ saved' = FileState
  /\ UNCHANGED <<smVars, conn, conns, jmVars, calls, packets, reader, known, loop,
                 jobStream, restart, file, totalGap, streamDone, crashes, overtaken>>
-----------------------------------------------------------------------------
(* restartStreaming                                                          *)

RestOfServer == <<smVars, conn, conns, jmVars, packets>>

StatFile ==
  /\ restart.step = "stat"
  /\ restart' = [restart EXCEPT !.step = "create", !.seq = Len(file) + totalGap]
  /\ UNCHANGED <<RestOfServer, calls, reader, known, loop, jobStream, fileVars,
                 crashes, overtaken>>

CreateReader ==
  LET id == restart.conn
  IN  /\ restart.step = "create"
      /\ reader' = [reader EXCEPT ![id] = Rd!NewReader(id, Window, restart.seq)]
      /\ known' = known \cup {id}
      /\ jobStream' = id
      /\ restart' = [restart EXCEPT !.step = "preparing", !.id = id]
      /\ calls' = calls \cup {[op |-> "prepare", id |-> id, seq |-> restart.seq,
                               conn |-> restart.conn]}
      /\ UNCHANGED <<RestOfServer, loop, fileVars, crashes, overtaken>>

Gap_PastFirst ==
  IF restart.start > restart.seq THEN restart.start - restart.seq - 1 ELSE 0
Gap == IF restart.start > restart.seq THEN restart.start - restart.seq ELSE 0

\* The reply of PrepareConnect: a gap is recorded before the reader moves.
RecordGap ==
  /\ restart.step = "prepared"
  /\ totalGap' = totalGap + Gap
  /\ restart' = [restart EXCEPT !.step = "moving"]
  /\ UNCHANGED <<RestOfServer, calls, reader, known, loop, jobStream, file, streamDone,
                 saved, crashes, overtaken>>

Moved_Stays(r) == r
Moved(r) == IF restart.start > restart.seq THEN Rd!UpdateNextSeq(r, restart.start) ELSE r

MoveReader ==
  /\ restart.step = "moving"
  /\ reader' = [reader EXCEPT ![restart.id] = Moved(@)]
  /\ restart' = [restart EXCEPT !.step = "starting"]
  /\ calls' = calls \cup {[op |-> "start", id |-> restart.id, seq |-> 0,
                           conn |-> restart.conn]}
  /\ UNCHANGED <<RestOfServer, known, loop, jobStream, fileVars, crashes, overtaken>>

StartLoop ==
  /\ restart.step = "started"
  /\ loop' = [loop EXCEPT ![restart.id].step = "reading"]
  /\ restart' = NoRestart
  /\ UNCHANGED <<RestOfServer, calls, reader, known, jobStream, fileVars, crashes,
                 overtaken>>

\* The stream is over already, a call failed, or its connection is gone.
GiveUp ==
  /\ \/ restart.step \in {"done", "failed"}
     \/ restart.step \in {"preparing", "starting"} /\ restart.conn # conn
  /\ reader' = [reader EXCEPT ![restart.id] = Rd!CloseReader(@)]
  /\ streamDone' = IF streamDone = "no" /\ restart.step = "done" THEN "told" ELSE streamDone
  /\ restart' = NoRestart
  /\ UNCHANGED <<RestOfServer, calls, known, loop, jobStream, file, totalGap, saved,
                 crashes, overtaken>>

RestartStreaming == StatFile \/ CreateReader \/ RecordGap \/ MoveReader \/ StartLoop \/ GiveUp
-----------------------------------------------------------------------------
(* The job manager.  jm.lock is held by one call at a time; what a call does *)
(* to the stream manager interleaves with the loops and acknowledgements.    *)

RestOfJm == <<conn, conns, packets, reader, known, loop, jobStream, fileVars, crashes,
              overtaken>>

\* The answer to a call of connection c, which goes nowhere if c is gone.
Reply(c, step, start) ==
  restart' = IF restart.step \in {"preparing", "starting"} /\ restart.conn = c /\ c = conn
             THEN [restart EXCEPT !.step = step, !.start = start] ELSE restart

\* PrepareConnect, up to its question whether the stream is done.
BeginPrepare(call) ==
  /\ prep.step = "none" /\ call \in calls /\ call.op = "prepare"
  /\ LockFree
  /\ calls' = calls \ {call}
  /\ IF terminalEventAcked
     THEN prep' = prep /\ Reply(call.conn, "done", 0)
     ELSE /\ prep' = [step |-> "detach", id |-> call.id, seq |-> call.seq, conn |-> call.conn]
          /\ UNCHANGED restart
  /\ UNCHANGED <<smVars, RestOfJm, jmClient, pendingId, writers, streamConn>>

\* connectToStreamHelper_withlock disconnects the client there is.
DetachOld ==
  /\ prep.step = "detach"
  /\ prep' = [prep EXCEPT !.step = "connect"]
  /\ IF jmClient = 0 THEN UNCHANGED <<smVars, jmClient, writers>>
     ELSE /\ ClientDisconnected
          /\ jmClient' = 0
          /\ writers' = IF prep.conn = conn THEN writers \ {streamId} ELSE writers
  /\ UNCHANGED <<RestOfJm, pendingId, streamConn, calls, restart>>

CorkedRwnd_Open == Window
CorkedRwnd == 0

ConnectCorked ==
  /\ prep.step = "connect" /\ LockFree
  /\ IF Finished
     THEN prep' = NoPrep /\ Reply(prep.conn, "failed", 0) /\ UNCHANGED smVars
     ELSE /\ ClientConnected(prep.id, CorkedRwnd, prep.seq)
          /\ prep' = [prep EXCEPT !.step = "opening"] /\ UNCHANGED restart
  /\ UNCHANGED <<RestOfJm, jmClient, pendingId, writers, streamConn, calls>>

Opening == prep.step = "opening" /\ UNCHANGED <<RestOfJm, pendingId, writers, streamConn, calls, jmClient>>

SkipKnownBytes ==
  /\ Opening /\ (ConsumeClientSeq \/ RereadHead)
  /\ IF connecting'.step = "none" THEN prep' = NoPrep /\ Reply(prep.conn, "failed", 0)
     ELSE UNCHANGED <<prep, restart>>

EndPrepare ==
  /\ prep.step = "opening" /\ OpenClient
  /\ prep' = NoPrep
  /\ jmClient' = prep.conn /\ pendingId' = prep.id
  /\ streamConn' = [streamConn EXCEPT ![prep.id] = prep.conn]
  /\ Reply(prep.conn, "prepared", StartSeq)
  /\ UNCHANGED <<RestOfJm, writers, calls>>

PrepareConnect == (\E call \in calls : BeginPrepare(call)) \/ DetachOld \/ ConnectCorked
                  \/ SkipKnownBytes \/ EndPrepare

\* StartStream attaches whatever stream is pending to the caller's broker.
StartStream(call) ==
  /\ prep.step = "none" /\ call \in calls /\ call.op = "start"
  /\ calls' = calls \ {call}
  /\ IF pendingId = NoStream
     THEN Reply(call.conn, "failed", restart.start) /\ UNCHANGED <<smVars, pendingId, writers>>
     ELSE /\ SetRwndSize(Window)
          /\ writers' = IF call.conn = conn THEN writers \cup {pendingId} ELSE writers
          /\ pendingId' = NoStream
          /\ Reply(call.conn, "started", restart.start)
  /\ UNCHANGED <<RestOfJm, jmClient, streamConn, prep>>

\* A packet of a stream whose connection is gone goes nowhere.
Send ==
  /\ SendData
  /\ packets' = IF streamConn[packet.id] = conn THEN Append(packets, packet) ELSE packets
  /\ UNCHANGED <<conn, conns, jmVars, calls, serverVars>>

Loops == \/ Send
         \/ /\ ReadLoop \/ SenderReturns \/ SenderWaits \/ PrepareData \/ PrepareTerminal
            /\ UNCHANGED <<conn, conns, jmVars, calls, packets, serverVars>>
-----------------------------------------------------------------------------
(* Packets and acknowledgements.                                             *)

RestOfNet == <<conn, conns, jmClient, pendingId, streamConn, prep, calls, loop, jobStream,
               restart, fileVars, crashes, overtaken>>

\* The broker of a main server that has restarted knows no route for an old
\* stream, so it answers only for readers it had.
DeliverData ==
  LET p == Head(packets)
      r == reader[p.id]
      notFound == [id |-> p.id, seq |-> p.seq, rwnd |-> 0, fin |-> FALSE, cancel |-> TRUE]
  IN  /\ packets # << >> /\ packets' = Tail(packets)
      /\ reader' = [reader EXCEPT ![p.id] =
                      IF p.id \in known THEN Rd!RecvData(r, p)
                      ELSE [r EXCEPT !.acks = Append(@, notFound)]]
      /\ UNCHANGED <<smVars, writers, known, RestOfNet>>

\* RecvAck, also of an ack it ignores.
TakeAck(ack) ==
  \/ RecvAck(ack)
  \/ /\ LockFree
     /\ ~connected \/ ack.id # streamId \/ (~ack.fin /\ Stale(ack))
     /\ UNCHANGED smVars

DeliverAck(id) ==
  LET ack == Head(reader[id].acks)
      final == ack.fin \/ ack.cancel
  IN  /\ conn # 0 /\ reader[id].acks # << >>
      /\ reader' = [reader EXCEPT ![id].acks = Tail(@)]
      /\ known' = IF final THEN known \ {id} ELSE known
      /\ IF id \in writers THEN TakeAck(ack) ELSE UNCHANGED smVars
      /\ writers' = IF final THEN writers \ {id} ELSE writers
      /\ UNCHANGED <<packets, RestOfNet>>

\* With no connection there is no route, and the ack is dropped.
LoseAck(id) ==
  LET ack == Head(reader[id].acks)
  IN  /\ conn = 0 /\ reader[id].acks # << >>
      /\ reader' = [reader EXCEPT ![id].acks = Tail(@)]
      /\ known' = IF ack.fin \/ ack.cancel THEN known \ {id} ELSE known
      /\ UNCHANGED <<smVars, packets, writers, RestOfNet>>

Network == DeliverData \/ \E id \in StreamIds : DeliverAck(id) \/ LoseAck(id)
-----------------------------------------------------------------------------
(* runOutputLoop                                                             *)

RestOfLoop == <<smVars, conn, conns, jmVars, calls, packets, known, jobStream, restart,
                totalGap, saved, crashes>>

LoopRead(id) ==
  LET r == reader[id]
  IN  /\ loop[id].step = "reading" /\ Rd!CanRead(r)
      /\ IF Rd!ReadEnds(r) = "none"
         THEN \E n \in 1 .. Len(r.buffer) :
                /\ reader' = [reader EXCEPT ![id] = Rd!Read(r, n)]
                /\ loop' = [loop EXCEPT ![id] = [step |-> "checking", end |-> "none",
                                                 hold |-> SubSeq(r.buffer, 1, n)]]
         ELSE /\ UNCHANGED reader
              /\ loop' = [loop EXCEPT ![id] = [step |-> "checking", hold |-> << >>,
                                               end |-> Rd!ReadEnds(r)]]
      /\ UNCHANGED <<RestOfLoop, file, streamDone, overtaken>>

\* A superseded loop ends, and what it has read is dropped.
LoopCheck(id) ==
  /\ loop[id].step = "checking"
  /\ IF jobStream = id
     THEN loop' = [loop EXCEPT ![id].step = "writing"] /\ UNCHANGED reader
     ELSE /\ loop' = [loop EXCEPT ![id] = NoLoop]
          /\ reader' = [reader EXCEPT ![id] = Rd!CloseReader(@)]
  /\ UNCHANGED <<RestOfLoop, file, streamDone, overtaken>>

\* The file has been measured for another stream, or is just being.
Overtakes(id) == jobStream # id \/ restart.step = "create"

LoopWrite(id) ==
  /\ loop[id].step = "writing"
  /\ file' = file \o loop[id].hold
  /\ overtaken' = (overtaken \/ (loop[id].hold # << >> /\ Overtakes(id)))
  /\ IF loop[id].end = "none"
     THEN /\ loop' = [loop EXCEPT ![id] = [NoLoop EXCEPT !.step = "reading"]]
          /\ UNCHANGED <<reader, streamDone>>
     ELSE /\ loop' = [loop EXCEPT ![id] = NoLoop]
          /\ reader' = [reader EXCEPT ![id] = Rd!CloseReader(@)]
          /\ streamDone' = loop[id].end
  /\ UNCHANGED RestOfLoop

OutputLoop == \E id \in StreamIds : LoopRead(id) \/ LoopCheck(id) \/ LoopWrite(id)

Next == \/ Drop \/ Reconnect \/ Crash \/ Flush \/ RestartStreaming
        \/ PrepareConnect \/ (\E call \in calls : StartStream(call))
        \/ Loops \/ Network \/ OutputLoop

Spec == Init /\ [][Next]_vars
-----------------------------------------------------------------------------
\* The types of what DurableStream adds to StreamManager, and the receive
\* window: a reader never holds more than it announced.
Acks == [id : StreamIds, seq : Nat, rwnd : 0 .. Window,
         fin : BOOLEAN, cancel : BOOLEAN]

TypeOK ==
  /\ cb \in CirBufs /\ cb.totalSize \in 0 .. MaxTotal
  /\ conn \in {0, conns} /\ conns \in 1 .. MaxConns /\ crashes \in 0 .. MaxCrashes
  /\ jmClient \in 0 .. conns /\ pendingId \in StreamIds \cup {NoStream}
  /\ writers \subseteq StreamIds /\ known \subseteq StreamIds
  /\ conn = 0 => writers = {} /\ packets = << >>
  /\ jobStream \in StreamIds \cup {NoStream}
  /\ \A id \in StreamIds :
       /\ reader[id].nextSeq \in Nat
       /\ Len(reader[id].buffer) <= Window
       /\ \A i \in DOMAIN reader[id].acks : reader[id].acks[i] \in Acks
       /\ loop[id].step \in {"none", "reading", "checking", "writing"}
  /\ \A i \in DOMAIN file : file[i] \in 0 .. MaxTotal - 1
  /\ totalGap \in 0 .. MaxTotal /\ streamDone \in {"no", "eof", "error", "told"} /\ overtaken \in BOOLEAN

(* Properties.  overtaken sets aside the runs in which a superseded output   *)
(* loop still writes, which SupersededIsSilent is about.                     *)

\* The file holds bytes of the PTY in order, and has as many places before a
\* byte as the PTY had bytes: those that are missing are counted in the total
\* gap.  Across drops, crashes, replays and bytes pushed out of the buffer.
FileIsStream == ~overtaken =>
  /\ \A i, j \in DOMAIN file : i < j => file[i] < file[j]
  /\ file # << >> => Len(file) + totalGap > file[Len(file)]

\* The position restartStreaming would ask for is the one its loop has read
\* to: what the file has, what the loop holds, what the reader holds and the
\* gaps add up to the reader's next position.
LoopFollowsFile == \A id \in StreamIds :
  jobStream = id /\ loop[id].step # "none" /\ ~overtaken =>
    Len(file) + Len(loop[id].hold) + Len(reader[id].buffer) + totalGap = reader[id].nextSeq

\* An output loop that records the end of the output has put all of it in the
\* file, or counted it in the gap, if the main server has not crashed: a crash
\* loses what was not flushed, and the record of the end is not among it.
EofMeansWhole == streamDone = "eof" /\ ~overtaken /\ crashes = 0 => Len(file) + totalGap = eofPos

\* Between PrepareConnect and StartStream, which lets the main server move its
\* reader, no byte of the new stream is sent.
Corked == pendingId # NoStream =>
  /\ \A i \in DOMAIN packets : packets[i].id = pendingId => packets[i].data = << >>
  /\ packet.id = pendingId => packet.data = << >>

\* The check of runOutputLoop that makes a superseded loop exit: a byte of the
\* PTY is in the file at most once.
SupersededIsSilent == \A i, j \in DOMAIN file : file[i] = file[j] => i = j

\* The packets a reader holds back wait for an earlier one: a packet that is
\* next is delivered.
HeldIsAwaited == \A id \in StreamIds : Rd!Receiving(reader[id]) =>
                   \A p \in reader[id].oooPackets : p.seq > reader[id].nextSeq
=============================================================================
