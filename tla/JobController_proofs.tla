------------------------ MODULE JobController_proofs ------------------------
(* That links between jobs and blocks agree, that no job is deleted that is   *)
(* not over, and that ends are noticed, whatever the connection, the remotes, *)
(* the users and the pruner do: for any jobs, blocks, scenes and events.      *)
EXTENDS JobController, TLAPS
-----------------------------------------------------------------------------
(* The reconciliation of the connections.  TypeOK is inductive, with its      *)
(* account of which handlers run; with it NeverForgotten is inductive too.    *)

Inv == TypeOK /\ NeverForgotten

\* What HandlersOK says of one connection.
HandlerOK(c) ==
  /\ handling[c] # {} => reconciling[c] /\ c \in known /\ handling[c] = {~processed[c]}
  /\ reconciling[c] /\ panics = 0 => handling[c] # {}

LEMMA EachHandlerOK == HandlersOK <=> \A c \in Conns : HandlerOK(c)
  BY DEF HandlersOK, HandlerOK

\* The scan starts one handler for each connection that is behind.
LEMMA ScanKeeps == ASSUME Inv, Scan PROVE Inv'
<1> USE DEF Inv
<1>1. EventsTyped'
  BY DEF Scan, TypeOK, EventsTyped
<1>2. FlagsTyped'
  BY DEF Scan, TypeOK, FlagsTyped, Behind
<1>3. handling' \in [Conns -> SUBSET BOOLEAN]
  BY DEF Scan, TypeOK, FlagsTyped
<1>4. ASSUME NEW c \in Conns PROVE HandlerOK(c)'
  <2>1. HandlerOK(c)
    BY EachHandlerOK DEF TypeOK
  <2>2. /\ actual[c] \in BOOLEAN /\ processed[c] \in BOOLEAN
        /\ UNCHANGED <<processed, known, panics>>
    BY DEF TypeOK, FlagsTyped, Scan
  <2>3. CASE Behind(c)
    <3>1. handling'[c] = handling[c] \cup {actual[c]} /\ reconciling'[c]
      BY <2>3 DEF Scan
    <3>2. handling[c] = {} /\ c \in known /\ actual[c] = ~processed[c]
      BY <2>1, <2>2, <2>3 DEF HandlerOK, Behind
    <3> QED BY <2>2, <3>1, <3>2 DEF HandlerOK
  <2>4. CASE ~Behind(c)
    <3>1. handling'[c] = handling[c] /\ reconciling'[c] = reconciling[c]
      BY <2>4 DEF Scan, TypeOK, FlagsTyped
    <3> QED BY <2>1, <2>2, <3>1 DEF HandlerOK
  <2> QED BY <2>3, <2>4
<1>5. ASSUME NEW c \in Conns PROVE ~Behind(c)'
  BY DEF Scan, Behind, TypeOK, FlagsTyped
<1>6. HandlersOK'
  BY <1>4 DEF HandlersOK, HandlerOK
<1> QED BY <1>1, <1>2, <1>3, <1>5, <1>6 DEF TypeOK, NeverForgotten

\* The end of a handler clears its connection's flag and tells the worker.
LEMMA FinishKeeps ==
  ASSUME Inv, NEW c \in Conns, NEW state \in BOOLEAN, FinishHandler(c, state)
  PROVE  Inv'
<1> USE DEF Inv
<1>1. EventsTyped'
  BY DEF FinishHandler, TokenAfter, TypeOK, EventsTyped
<1>2. FlagsTyped'
  BY DEF FinishHandler, TypeOK, FlagsTyped
<1>3. handling' \in [Conns -> SUBSET BOOLEAN]
  BY DEF FinishHandler, TypeOK
<1>4. ASSUME NEW d \in Conns PROVE HandlerOK(d)'
  <2>1. HandlerOK(d)
    BY EachHandlerOK DEF TypeOK
  <2>2. CASE d = c
    <3>1. handling[c] = {state}
      BY <2>1, <2>2 DEF HandlerOK, FinishHandler
    <3>2. handling'[d] = {} /\ ~reconciling'[d]
      BY <2>2, <3>1 DEF FinishHandler, TypeOK, FlagsTyped
    <3> QED BY <3>2 DEF HandlerOK
  <2>3. CASE d # c
    <3>1. /\ handling'[d] = handling[d] /\ reconciling'[d] = reconciling[d]
          /\ processed'[d] = processed[d] /\ UNCHANGED <<known, panics>>
      BY <2>3 DEF FinishHandler, TypeOK, FlagsTyped
    <3> QED BY <2>1, <3>1 DEF HandlerOK
  <2> QED BY <2>2, <2>3
<1>5. NeverForgotten'
  BY DEF FinishHandler, TokenAfter, NeverForgotten
<1>6. HandlersOK'
  BY <1>4 DEF HandlersOK, HandlerOK
<1> QED BY <1>1, <1>2, <1>3, <1>5, <1>6 DEF TypeOK

\* A handler that panics leaves the flag: the connection is not behind again.
LEMMA PanicKeeps ==
  ASSUME Inv, NEW c \in Conns, NEW state \in BOOLEAN, PanicHandler(c, state)
  PROVE  Inv'
<1> USE DEF Inv
<1>1. EventsTyped' /\ panics' # 0
  BY DEF PanicHandler, TypeOK, EventsTyped
<1>2. FlagsTyped' /\ UNCHANGED stateVars
  BY DEF PanicHandler, stateVars, TypeOK, FlagsTyped
<1>3. handling' \in [Conns -> SUBSET BOOLEAN]
  BY DEF PanicHandler, TypeOK
<1>4. ASSUME NEW d \in Conns PROVE HandlerOK(d)'
  <2>1. HandlerOK(d)
    BY EachHandlerOK DEF TypeOK
  <2>2. handling'[d] # {} => handling'[d] = handling[d]
    <3>1. CASE d = c
      <4>1. handling[c] = {state}
        BY <2>1, <3>1 DEF HandlerOK, PanicHandler
      <4> QED BY <3>1, <4>1 DEF PanicHandler, TypeOK
    <3>2. CASE d # c
      BY <3>2 DEF PanicHandler, TypeOK
    <3> QED BY <3>1, <3>2
  <2> QED BY <1>1, <1>2, <2>1, <2>2 DEF HandlerOK, stateVars
<1>5. NeverForgotten'
  <2>1. ASSUME NEW d \in Conns PROVE Behind(d)' = Behind(d)
    BY <1>2 DEF Behind, stateVars
  <2>2. UNCHANGED <<token, worker, nudging>>
    BY DEF PanicHandler
  <2> QED BY <2>1, <2>2 DEF NeverForgotten
<1>6. HandlersOK'
  BY <1>4 DEF HandlersOK, HandlerOK
<1> QED BY <1>1, <1>2, <1>3, <1>5, <1>6 DEF TypeOK

\* A handled event is about to be followed by its send.
LEMMA HandleEventKeeps == ASSUME Inv, NEW e \in events, HandleEvent(e) PROVE Inv'
<1> USE DEF Inv
<1>1. e \in Events /\ e.conn \in Conns /\ e.connected \in BOOLEAN
  BY DEF TypeOK, EventsTyped, Events
<1>2. EventsTyped'
  BY <1>1 DEF HandleEvent, TypeOK, EventsTyped
<1>3. FlagsTyped'
  BY <1>1 DEF HandleEvent, TypeOK, FlagsTyped
<1>4. ASSUME NEW d \in Conns PROVE HandlerOK(d)'
  <2>1. HandlerOK(d)
    BY EachHandlerOK DEF TypeOK
  <2> QED BY <2>1 DEF HandlerOK, HandleEvent
<1>5. NeverForgotten'
  BY DEF HandleEvent, NeverForgotten
<1>6. HandlersOK'
  BY <1>4 DEF HandlersOK, HandlerOK
<1> QED BY <1>2, <1>3, <1>5, <1>6 DEF HandleEvent, TypeOK

\* The steps that leave the connections' states alone.
LEMMA OthersKeep ==
  ASSUME Inv,
         \/ \E c \in Conns, connected \in BOOLEAN : Publish(c, connected)
         \/ \E e \in nudging : Nudge(e)
         \/ Receive
         \/ UNCHANGED vars
  PROVE  Inv'
<1> USE DEF Inv
<1>1. EventsTyped'
  <2>1. ASSUME NEW c \in Conns, NEW connected \in BOOLEAN, Publish(c, connected)
        PROVE  EventsTyped'
    <3>1. published \in Nat /\ events \subseteq Events
      BY DEF TypeOK, EventsTyped
    <3>2. [n |-> published, conn |-> c, connected |-> connected] \in Events
      BY <3>1 DEF Events
    <3>3. events' \subseteq Events /\ published' \in Nat
      BY <2>1, <3>1, <3>2 DEF Publish
    <3> QED BY <2>1, <3>3 DEF Publish, TypeOK, EventsTyped
  <2>2. ASSUME (\E e \in nudging : Nudge(e)) \/ Receive \/ UNCHANGED vars
        PROVE  EventsTyped'
    BY <2>2 DEF Nudge, Receive, vars, TypeOK, EventsTyped
  <2> QED BY <2>1, <2>2
<1>2. UNCHANGED <<stateVars, handling, panics>>
  BY DEF Publish, Nudge, Receive, vars
<1>3. FlagsTyped' /\ HandlersOK'
  <2>1. ASSUME NEW d \in Conns PROVE HandlerOK(d)'
    <3>1. HandlerOK(d)
      BY EachHandlerOK DEF TypeOK
    <3> QED BY <1>2, <3>1 DEF HandlerOK, stateVars
  <2>2. HandlersOK'
    BY <2>1 DEF HandlersOK, HandlerOK
  <2> QED BY <1>2, <2>2 DEF stateVars, TypeOK, FlagsTyped
<1>4. NeverForgotten'
  <2>1. ASSUME NEW d \in Conns PROVE Behind(d)' = Behind(d)
    BY <1>2 DEF Behind, stateVars
  <2>2. token \/ worker = "scanning" \/ nudging # {}
        => token' \/ worker' = "scanning" \/ nudging' # {}
    BY DEF Publish, Nudge, Receive, vars
  <2> QED BY <2>1, <2>2 DEF NeverForgotten
<1> QED BY <1>1, <1>2, <1>3, <1>4 DEF TypeOK

\* Spec keeps TypeOK and NeverForgotten: no change of a connection is left
\* unnoticed, whatever the order of events, scans and handlers.
THEOREM NoConnIsForgotten == Spec => [](TypeOK /\ NeverForgotten)
<1>1. Init => Inv
  <2> SUFFICES ASSUME Init PROVE Inv
    OBVIOUS
  <2>1. EventsTyped /\ FlagsTyped /\ handling \in [Conns -> SUBSET BOOLEAN]
    BY DEF Init, EventsTyped, FlagsTyped
  <2>2. HandlersOK
    BY DEF Init, HandlersOK
  <2> QED BY <2>1, <2>2 DEF Init, Inv, TypeOK, NeverForgotten, Behind
<1>2. Inv /\ [Next]_vars => Inv'
  BY ScanKeeps, FinishKeeps, PanicKeeps, HandleEventKeeps, OthersKeep
     DEF Next, Worker, Handled
<1> QED BY <1>1, <1>2, PTL DEF Spec, Inv
-----------------------------------------------------------------------------
(* The jobs.                                                                  *)

Records == [status : {"none", "init", "running", "done", "deleted"},
            attached : Blocks \cup {None}, pid : BOOLEAN, exited : BOOLEAN,
            ended : BOOLEAN, quit : BOOLEAN]

Managers == [state : {"none", "runs", "exited", "gone"},
             told : BOOLEAN, link : BOOLEAN, stream : {"none", "read", "acked"}]

Calls == [at : {"no", "call", "mark", "ask", "gone", "route", "prepare", "exit", "end", "stream"},
          pid : BOOLEAN, exited : BOOLEAN, ended : BOOLEAN]

Memories ==
  [connected : BOOLEAN, ups : Nat, downs : Nat, exits : Nat, atEof : BOOLEAN,
   start : {"no", "attach", "remote", "reconnect", "over"}, block : Blocks \cup {None},
   check : BOOLEAN, stop : Calls, closing : {"no", "due", "stop"}, re : Calls,
   auto : BOOLEAN, cooling : BOOLEAN, late : BOOLEAN]

Typed ==
  /\ JobTypeOK
  /\ remote \in [Jobs -> Managers] /\ mem \in [Jobs -> Memories]

\* What there is of a job, r in the database, m in the server's memory and x at the remote:
\* nobody reconnects to it or looks for it before it runs, and while it is attached to the
\* block it is for, only the close of that block ends it.
Unstarted == {"no", "attach", "remote"}
Ending(m) == m.stop.at # "no" \/ m.closing # "no"

StartFits(j, r, m, x) ==
  /\ m.start \in Unstarted =>
       /\ r.status # "running" /\ m.re.at = "no" /\ ~m.auto /\ j \notin todo
       /\ r.status = "init" => ~r.ended
  /\ m.start \in {"no", "attach"} => x.state = "none" /\ ~m.atEof
  /\ m.start = "no" => r.status = "none" /\ ~Ending(m)
  /\ r.status = "none" => m.start = "no" /\ ~r.ended
  /\ m.start = "attach" =>
       /\ m.block \in Blocks /\ r.attached \in {None, m.block}
       /\ r.status # "init" \/ Ending(m) => m.block \in closed

\* What the pruner is deleting is over, unattached, and nobody will change that.
DoomFits(j, r, m) ==
  /\ r.status \in {"none", "deleted"} => r.attached = None
  /\ j \in doomed => r.status = "done" /\ r.attached = None /\ m.start # "remote"

\* Who looks for an end that is noted; and what is being terminated is marked so.
EndFits(r, m) ==
  /\ r.status = "running" /\ r.exited /\ r.ended => r.quit \/ m.check \/ m.late
  /\ m.stop.at # "no" /\ r.status \in {"init", "running"} => r.quit \/ m.late

Fits(j, r, m, x) == StartFits(j, r, m, x) /\ DoomFits(j, r, m) /\ EndFits(r, m)

JobInv == Typed /\ LinksAgree /\ \A j \in Jobs : Fits(j, rec[j], mem[j], remote[j])
-----------------------------------------------------------------------------
(* Steps.                                                                    *)

LEMMA JobIs ==
  ASSUME JobInv, NEW j \in Jobs
  PROVE  /\ Typed
         /\ rec[j] \in Records /\ mem[j] \in Memories /\ remote[j] \in Managers
         /\ rec = [rec EXCEPT ![j] = rec[j]] /\ mem = [mem EXCEPT ![j] = mem[j]]
         /\ remote = [remote EXCEPT ![j] = remote[j]]
         /\ Fits(j, rec[j], mem[j], remote[j])
  BY DEF JobInv, Typed, JobTypeOK, Records

\* A step of one job: the others are as they were.
LEMMA StepKeeps ==
  ASSUME JobInv, NEW j \in Jobs, NEW r \in Records, NEW m \in Memories, NEW x \in Managers,
         rec' = [rec EXCEPT ![j] = r], mem' = [mem EXCEPT ![j] = m],
         remote' = [remote EXCEPT ![j] = x],
         UNCHANGED <<shows, closed, closeNews, pruneVars>>,
         todo' \subseteq todo, visiting' \in Jobs \cup {None, Listing},
         r.attached = rec[j].attached, mem[j].start = "attach" => m.start = "attach",
         Fits(j, r, m, x)
  PROVE  JobInv'
<1>1. Typed'
  BY DEF JobInv, Typed, JobTypeOK, Records, pruneVars
<1>2. ASSUME NEW k \in Jobs PROVE Fits(k, rec'[k], mem'[k], remote'[k])
  <2>1. CASE k = j
    BY <2>1, JobIs DEF Typed, JobTypeOK
  <2>2. CASE k # j
    <3>1. rec'[k] = rec[k] /\ mem'[k] = mem[k] /\ remote'[k] = remote[k]
      BY <2>2, JobIs DEF Typed, JobTypeOK
    <3> QED BY <3>1, JobIs
  <2> QED BY <2>1, <2>2
<1>3. ASSUME NEW k \in Jobs
      PROVE  /\ rec'[k].attached = rec[k].attached
             /\ mem[k].start = "attach" => mem'[k].start = "attach"
             /\ Fits(k, rec[k], mem[k], remote[k])'
  <2>1. /\ rec'[k].attached = rec[k].attached
        /\ mem[k].start = "attach" => mem'[k].start = "attach"
    BY JobIs DEF Typed, JobTypeOK
  <2>2. closed' = closed /\ doomed' = doomed /\ (k \in todo' => k \in todo)
    BY DEF pruneVars
  <2> QED BY <1>2, <2>1, <2>2 DEF Fits, StartFits, DoomFits, EndFits
<1>4. LinksAgree'
  BY <1>3 DEF LinksAgree, JobInv, Typed, JobTypeOK
<1> QED BY <1>1, <1>3, <1>4 DEF JobInv

\* Two states of a job's memory that differ in calls and routes only.
Same(s, m) ==
  /\ s.start = m.start /\ s.block = m.block /\ s.check = m.check /\ s.closing = m.closing
  /\ s.auto = m.auto /\ s.late = m.late /\ s.atEof = m.atEof

\* What the calls that begin and the routes that go do to one job's memory.
LEMMA StoppingOK ==
  ASSUME NEW j \in Jobs, NEW m \in Memories, Typed
  PROVE  LET s == Stopping(j, m)
         IN  /\ s \in Memories
             /\ Same(s, m) /\ s.re = m.re
             /\ s.stop.at # "no" => m.stop.at # "no" \/ Stops(j)
<1> DEFINE c == [NoCall EXCEPT !.at = "call", !.pid = rec[j].pid]
<1>1. c \in Calls /\ c.at = "call"
  BY DEF Calls, NoCall, Typed, JobTypeOK
<1> HIDE DEF c
<1>2. Stopping(j, m) = IF Stops(j) THEN [m EXCEPT !.stop = c] ELSE m
  BY DEF Stopping, c
<1> QED BY <1>1, <1>2 DEF Memories, Same

LEMMA MarkedOK ==
  ASSUME NEW j \in Jobs, Typed
  PROVE  \E r \in Records :
           /\ Marked(j) = [rec EXCEPT ![j] = r]
           /\ r.status = rec[j].status /\ r.attached = rec[j].attached
           /\ r.exited = rec[j].exited /\ r.ended = rec[j].ended
           /\ r.quit <=> rec[j].quit \/ Stops(j)
<1>1. /\ rec[j] \in Records /\ [rec[j] EXCEPT !.quit = TRUE] \in Records
      /\ rec = [rec EXCEPT ![j] = rec[j]]
  BY DEF Records, Typed, JobTypeOK
<1> QED BY <1>1 DEF Marked, Records

LEMMA ReconnectingOK ==
  ASSUME NEW j \in Jobs, NEW m \in Memories, Typed
  PROVE  LET s == Reconnecting(j, m)
         IN  /\ s \in Memories
             /\ Same(s, m) /\ s.stop = m.stop
<1> DEFINE c == [NoCall EXCEPT !.at = IF rec[j].quit THEN "call" ELSE "ask", !.pid = rec[j].pid]
<1>1. c \in Calls
  BY DEF Calls, NoCall, Typed, JobTypeOK
<1> HIDE DEF c
<1>2. \/ Reconnecting(j, m) = m
      \/ Reconnecting(j, m) = [m EXCEPT !.re = c]
  BY DEF Reconnecting, c
<1> QED BY <1>1, <1>2 DEF Memories, Same

LEMMA UnlinkedOK ==
  ASSUME NEW j \in Jobs, NEW m \in Memories
  PROVE  LET s == Unlinked(j, m)
         IN  /\ s \in Memories
             /\ Same(s, m) /\ s.stop = m.stop /\ s.re = m.re
  BY DEF Unlinked, Memories, Same
-----------------------------------------------------------------------------
(* The steps that end a job.                                                 *)

LEMMA RemoteTerminateKeeps ==
  ASSUME JobInv, NEW j \in Jobs, NEW who \in {"stop", "re"},
         RemoteTerminate(j, who) \/ RemoteTerminateFails(j, who)
  PROVE  JobInv'
<1>1. PICK call \in {[NoCall EXCEPT !.at = "mark"], NoCall}, x \in Managers,
           m \in {mem[j], Unlinked(j, mem[j])} :
        /\ mem' = [mem EXCEPT ![j] = [m EXCEPT ![who] = call]]
        /\ remote' = [remote EXCEPT ![j] = x] /\ (remote[j].state = "none" => x.state = "none")
  <2>1. CASE RemoteTerminateFails(j, who)
    BY <2>1, JobIs DEF RemoteTerminateFails
  <2>2. CASE RemoteTerminate(j, who)
    <3>1. Gone(remote[j]) \in Managers
      BY JobIs DEF Gone, Managers
    <3> QED BY <2>2, <3>1, JobIs DEF RemoteTerminate, Alive
  <2> QED BY <2>1, <2>2
<1>2. /\ mem[j][who].at = "call" /\ rec' = rec
      /\ UNCHANGED <<shows, closed, closeNews, upVars, pruneVars>>
  BY DEF RemoteTerminate, RemoteTerminateFails, recVars
<1>3. call \in Calls
  <2>1. NoCall \in Calls
    BY DEF Calls, NoCall
  <2>2. [NoCall EXCEPT !.at = "mark"] \in Calls
    BY <2>1 DEF Calls
  <2> QED BY <2>1, <2>2
<1>4. /\ m \in Memories /\ Same(m, mem[j]) /\ m.stop = mem[j].stop /\ m.re = mem[j].re
  BY JobIs, UnlinkedOK DEF Same
<1>5. [m EXCEPT ![who] = call] \in Memories /\ Fits(j, rec[j], [m EXCEPT ![who] = call], x)
  BY <1>1, <1>2, <1>3, <1>4, JobIs DEF Memories, Fits, StartFits, DoomFits, EndFits, Same, Ending, Unstarted
<1>6. [m EXCEPT ![who] = call].start = mem[j].start
  BY <1>4 DEF Memories, Same
<1> QED BY <1>1, <1>2, <1>5, <1>6, JobIs, StepKeeps DEF upVars, Typed, JobTypeOK

LEMMA UpdateOK ==
  ASSUME NEW j \in Jobs, NEW d \in Records, Typed, Update(j, d)
  PROVE  \E r \in Records :
           /\ rec' = [rec EXCEPT ![j] = r]
           /\ IF Exists(j) THEN r = d ELSE r = rec[j]
<1>1. rec[j] \in Records /\ rec = [rec EXCEPT ![j] = rec[j]]
  BY DEF Records, Typed, JobTypeOK
<1> QED BY <1>1 DEF Update

LEMMA MarkTerminatedKeeps ==
  ASSUME JobInv, NEW j \in Jobs, NEW who \in {"stop", "re"}, MarkTerminated(j, who)
  PROVE  JobInv'
<1> DEFINE d == [rec[j] EXCEPT !.status = "done", !.quit = FALSE, !.ended = TRUE]
           m == [mem[j] EXCEPT ![who] = NoCall]
<1>1. d \in Records /\ d.attached = rec[j].attached /\ d.status = "done"
  BY JobIs DEF Records
<1>2. /\ mem[j][who].at = "mark" /\ mem' = [mem EXCEPT ![j] = m] /\ Update(j, d)
      /\ UNCHANGED <<shows, closed, remote, closeNews, upVars, pruneVars>>
  BY DEF MarkTerminated
<1>3. NoCall \in Calls /\ NoCall.at = "no"
  BY DEF Calls, NoCall
<1> HIDE DEF d
<1>4. PICK r \in Records :
        rec' = [rec EXCEPT ![j] = r] /\ IF Exists(j) THEN r = d ELSE r = rec[j]
  BY <1>1, <1>2, JobIs, UpdateOK
<1>5. m \in Memories /\ m.start = mem[j].start /\ Fits(j, r, m, remote[j])
  BY <1>1, <1>2, <1>3, <1>4, JobIs DEF Exists, Memories, Fits, StartFits, DoomFits, EndFits, Same, Ending, Unstarted
<1>6. r.attached = rec[j].attached
  BY <1>1, <1>4
<1> HIDE DEF m
<1> QED BY <1>2, <1>4, <1>5, <1>6, JobIs, StepKeeps DEF upVars, Typed, JobTypeOK

LEMMA TryTerminateKeeps ==
  ASSUME JobInv, NEW j \in Jobs, tryTerminateJobManager(j) PROVE JobInv'
<1> DEFINE m == [mem[j] EXCEPT !.check = FALSE]
<1>1. /\ m \in Memories /\ m.start = mem[j].start /\ m.block = mem[j].block /\ m.check = FALSE
      /\ m.closing = mem[j].closing /\ m.stop = mem[j].stop /\ m.auto = mem[j].auto
      /\ m.late = mem[j].late /\ m.atEof = mem[j].atEof /\ m.re = mem[j].re
  BY JobIs DEF Memories
<1>2. /\ IF Due(j) THEN rec' = Marked(j) /\ mem' = [mem EXCEPT ![j] = Stopping(j, m)]
         ELSE mem' = [mem EXCEPT ![j] = m] /\ rec' = rec
      /\ UNCHANGED <<shows, closed, remote, closeNews, upVars, pruneVars>>
  BY DEF tryTerminateJobManager
<1> HIDE DEF m
<1>3. CASE Due(j)
  <2>1. PICK r \in Records :
          /\ rec' = [rec EXCEPT ![j] = r]
          /\ r.status = rec[j].status /\ r.attached = rec[j].attached
          /\ r.exited = rec[j].exited /\ r.ended = rec[j].ended
          /\ r.quit <=> rec[j].quit \/ Stops(j)
    BY <1>2, <1>3, JobIs, MarkedOK
  <2> DEFINE s == Stopping(j, m)
  <2>2. /\ s \in Memories /\ Same(s, m) /\ s.re = m.re
        /\ s.stop.at # "no" => m.stop.at # "no" \/ Stops(j)
    BY <1>1, JobIs, StoppingOK
  <2>3. mem' = [mem EXCEPT ![j] = s]
    BY <1>2, <1>3
  <2> HIDE DEF s
  <2>4. s.start = mem[j].start /\ Fits(j, r, s, remote[j])
    BY <1>1, <1>3, <2>1, <2>2, JobIs
       DEF Due, Runs, Stops, Fits, StartFits, DoomFits, EndFits, Same, Ending, Unstarted
  <2> QED BY <1>2, <2>1, <2>2, <2>3, <2>4, JobIs, StepKeeps DEF upVars, Typed, JobTypeOK
<1>4. CASE ~Due(j)
  <2>1. Fits(j, rec[j], m, remote[j])
    BY <1>1, <1>4, JobIs DEF Due, Runs, Fits, StartFits, DoomFits, EndFits, Ending
  <2> QED BY <1>1, <1>2, <1>4, <2>1, JobIs, StepKeeps DEF upVars, Typed, JobTypeOK
<1> QED BY <1>3, <1>4
-----------------------------------------------------------------------------
(* The steps of a start, once the job has its block.                         *)

LEMMA RemoteStartKeeps ==
  ASSUME JobInv, NEW j \in Jobs, RemoteStartJob(j) PROVE JobInv'
<1> DEFINE m == [mem[j] EXCEPT !.ups = @ + 1]
           x == [remote[j] EXCEPT !.state = "runs", !.link = TRUE, !.stream = "read"]
<1>1. /\ mem[j].start = "remote" /\ rec' = rec
      /\ mem' = [mem EXCEPT ![j] = m] /\ remote' = [remote EXCEPT ![j] = x]
      /\ UNCHANGED <<shows, closed, closeNews, upVars, pruneVars>>
  BY DEF RemoteStartJob, recVars
<1>2. x \in Managers
  BY JobIs DEF Managers
<1> HIDE DEF x
<1>3. m \in Memories /\ m.start = "remote" /\ Fits(j, rec[j], m, x)
  BY <1>1, JobIs DEF Memories, Fits, StartFits, DoomFits, EndFits, Same, Ending, Unstarted
<1> HIDE DEF m
<1> QED BY <1>1, <1>2, <1>3, JobIs, StepKeeps DEF upVars, Typed, JobTypeOK

LEMMA StartSucceedsKeeps ==
  ASSUME JobInv, NEW j \in Jobs, StartSucceeds(j) PROVE JobInv'
<1> DEFINE d == [rec[j] EXCEPT !.status = "running", !.pid = TRUE]
           m == [mem[j] EXCEPT !.start = "reconnect", !.late = @ \/ rec[j].status = "done"]
<1>1. /\ d \in Records /\ d.attached = rec[j].attached /\ d.status = "running"
      /\ d.exited = rec[j].exited /\ d.ended = rec[j].ended /\ d.quit = rec[j].quit
  BY JobIs DEF Records
<1>2. /\ mem[j].start = "remote" /\ mem' = [mem EXCEPT ![j] = m] /\ Update(j, d)
      /\ UNCHANGED <<shows, closed, remote, closeNews, upVars, pruneVars>>
  BY DEF StartSucceeds
<1> HIDE DEF d
<1>3. PICK r \in Records :
        rec' = [rec EXCEPT ![j] = r] /\ IF Exists(j) THEN r = d ELSE r = rec[j]
  BY <1>1, <1>2, JobIs, UpdateOK
<1>4. /\ m \in Memories /\ m.start = "reconnect" /\ m.stop = mem[j].stop
      /\ m.late <=> mem[j].late \/ rec[j].status = "done"
  BY JobIs DEF Memories
<1> HIDE DEF m
<1>5. Fits(j, r, m, remote[j])
  BY <1>1, <1>2, <1>3, <1>4, JobIs DEF Exists, Records, Fits, StartFits, DoomFits, EndFits, Ending, Unstarted
<1>6. r.attached = rec[j].attached
  BY <1>1, <1>3
<1> QED BY <1>2, <1>3, <1>4, <1>5, <1>6, JobIs, StepKeeps DEF upVars, Typed, JobTypeOK

LEMMA StartFailsKeeps ==
  ASSUME JobInv, NEW j \in Jobs, StartFails(j) PROVE JobInv'
<1> DEFINE d == [rec[j] EXCEPT !.status = "done"]
           m == [mem[j] EXCEPT !.start = "over", !.atEof = FALSE]
           x == [remote[j] EXCEPT !.stream = IF @ = "read" THEN "none" ELSE @]
<1>1. d \in Records /\ d.attached = rec[j].attached /\ d.status = "done"
  BY JobIs DEF Records
<1>2. /\ mem[j].start = "remote" /\ mem' = [mem EXCEPT ![j] = m] /\ Update(j, d)
      /\ remote' = [remote EXCEPT ![j] = x]
      /\ UNCHANGED <<shows, closed, closeNews, upVars, pruneVars>>
  BY DEF StartFails
<1> HIDE DEF d
<1>3. PICK r \in Records :
        rec' = [rec EXCEPT ![j] = r] /\ IF Exists(j) THEN r = d ELSE r = rec[j]
  BY <1>1, <1>2, JobIs, UpdateOK
<1>4. /\ m \in Memories /\ m.start = "over" /\ m.stop = mem[j].stop /\ x \in Managers
  BY JobIs DEF Memories, Managers
<1> HIDE DEF m, x
<1>5. Fits(j, r, m, x) /\ r.attached = rec[j].attached
  BY <1>1, <1>2, <1>3, <1>4, JobIs DEF Exists, Fits, StartFits, DoomFits, EndFits, Ending, Unstarted
<1> QED BY <1>2, <1>3, <1>4, <1>5, JobIs, StepKeeps DEF upVars, Typed, JobTypeOK

LEMMA ReconnectStartedKeeps ==
  ASSUME JobInv, NEW j \in Jobs, ReconnectStarted(j) PROVE JobInv'
<1> DEFINE o == [mem[j] EXCEPT !.start = "over"]
           m == Reconnecting(j, o)
<1>1. /\ mem[j].start = "reconnect" /\ mem' = [mem EXCEPT ![j] = m] /\ rec' = rec
      /\ UNCHANGED <<remote, shows, closed, closeNews, upVars, pruneVars>>
  BY DEF ReconnectStarted, recVars
<1>2. /\ o \in Memories /\ o.start = "over" /\ o.check = mem[j].check
      /\ o.stop = mem[j].stop /\ o.late = mem[j].late
  BY JobIs DEF Memories
<1> HIDE DEF o
<1>3. m \in Memories /\ Same(m, o) /\ m.stop = o.stop
  BY <1>2, JobIs, ReconnectingOK
<1> HIDE DEF m
<1>4. m.start = "over" /\ Fits(j, rec[j], m, remote[j])
  BY <1>1, <1>2, <1>3, JobIs DEF Memories, Fits, StartFits, DoomFits, EndFits, Same, Ending, Unstarted
<1> QED BY <1>1, <1>3, <1>4, JobIs, StepKeeps DEF upVars, Typed, JobTypeOK
-----------------------------------------------------------------------------
(* The steps that attach and detach.                                         *)

\* A step that may be about any job, and its block.
LEMMA LinkStepKeeps ==
  ASSUME JobInv, Typed', LinksAgree', closed \subseteq closed', doomed' \subseteq doomed,
         todo' \subseteq todo,
         \A k \in Jobs : Fits(k, rec'[k], mem'[k], remote'[k])
  PROVE  JobInv'
<1>1. ASSUME NEW k \in Jobs PROVE Fits(k, rec[k], mem[k], remote[k])'
  BY DEF Fits, StartFits, DoomFits, EndFits
<1> QED BY <1>1 DEF JobInv

\* But for their block, two records agree; and Fits does not mind a job that is detached.
SameJob(r, s) ==
  /\ r.status = s.status /\ r.pid = s.pid /\ r.exited = s.exited /\ r.ended = s.ended
  /\ r.quit = s.quit

LEMMA DetachedFits ==
  ASSUME NEW j, NEW r, NEW s, NEW m, NEW x, Fits(j, r, m, x), SameJob(s, r),
         s.attached \in {r.attached, None}
  PROVE  Fits(j, s, m, x)
  BY DEF Fits, StartFits, DoomFits, EndFits, SameJob

\* The block's old job is detached, and the links agree, this job's too.
LEMMA AttachOK ==
  ASSUME JobInv, NEW j \in Jobs, NEW b \in Blocks, CanAttach(j, b), AttachJobToBlock(j, b)
  PROVE  /\ rec' \in [Jobs -> Records] /\ shows' \in [Blocks -> Jobs \cup {None}]
         /\ \A k \in Jobs \ {j} : /\ SameJob(rec'[k], rec[k])
                                  /\ rec'[k].attached \in {rec[k].attached, None}
         /\ SameJob(rec'[j], rec[j]) /\ rec'[j].attached = b
         /\ \A c \in Blocks \ closed :
              /\ shows'[c] # None => rec'[shows'[c]].attached = c
              /\ \A k \in Jobs : rec'[k].attached = c /\ (mem[k].start # "attach" \/ k = j)
                                 => shows'[c] = k
<1>1. Typed /\ LinksAgree /\ rec \in [Jobs -> Records] /\ shows \in [Blocks -> Jobs \cup {None}]
  BY DEF JobInv, Typed, JobTypeOK, Records
<1>2. b \notin closed /\ rec[j].attached \in {None, b}
  BY DEF CanAttach
<1>3. /\ OldDetached(b) \in [Jobs -> Records]
      /\ \A k \in Jobs : /\ SameJob(OldDetached(b)[k], rec[k])
                         /\ OldDetached(b)[k].attached =
                              IF shows[b] = k /\ rec[k].attached = b THEN None
                              ELSE rec[k].attached
  BY <1>1, JobAssumption DEF OldDetached, Records, SameJob
<1>4. /\ shows' = [shows EXCEPT ![b] = j]
      /\ rec' = [OldDetached(b) EXCEPT ![j] = [@ EXCEPT !.attached = b]]
  BY DEF AttachJobToBlock
<1>5. /\ rec' \in [Jobs -> Records] /\ SameJob(rec'[j], rec[j]) /\ rec'[j].attached = b
      /\ \A k \in Jobs \ {j} : rec'[k] = OldDetached(b)[k]
  BY <1>3, <1>4 DEF Records, SameJob
<1>6. shows' \in [Blocks -> Jobs \cup {None}] /\ shows'[b] = j
      /\ \A c \in Blocks \ {b} : shows'[c] = shows[c]
  BY <1>1, <1>4
<1>7. ASSUME NEW c \in Blocks \ closed
      PROVE  /\ shows'[c] # None => rec'[shows'[c]].attached = c
             /\ \A k \in Jobs : rec'[k].attached = c /\ (mem[k].start # "attach" \/ k = j)
                                => shows'[c] = k
  <2>1. /\ shows[c] # None => rec[shows[c]].attached = c
        /\ \A k \in Jobs : rec[k].attached = c /\ mem[k].start # "attach" => shows[c] = k
    BY <1>1 DEF LinksAgree
  <2>2. CASE c = b
    <3>1. ASSUME NEW k \in Jobs \ {j}, rec'[k].attached = b, mem[k].start # "attach" PROVE FALSE
      <4>1. rec[k].attached = b /\ shows[b] # k
        BY <1>3, <1>5, <3>1, JobAssumption
      <4> QED BY <2>1, <2>2, <3>1, <4>1
    <3> QED BY <1>5, <1>6, <2>2, <3>1
  <2>3. CASE c # b
    <3>1. shows[c] # None => shows[c] \in Jobs \ {j}
      BY <1>1, <1>2, <2>1, <2>3, JobAssumption
    <3>2. shows'[c] # None => rec'[shows'[c]].attached = c
      BY <1>3, <1>5, <1>6, <2>1, <2>3, <3>1
    <3>3. ASSUME NEW k \in Jobs, rec'[k].attached = c, mem[k].start # "attach" \/ k = j
          PROVE  shows'[c] = k
      <4>1. k # j /\ rec[k].attached = c
        BY <1>3, <1>5, <2>3, <3>3, JobAssumption
      <4> QED BY <1>6, <2>1, <2>3, <3>3, <4>1
    <3> QED BY <3>2, <3>3
  <2> QED BY <2>2, <2>3
<1> QED BY <1>3, <1>5, <1>6, <1>7

LEMMA DetachOK ==
  ASSUME JobInv, NEW j \in Jobs, DetachJobFromBlock(j) \/ UNCHANGED <<rec, shows>>,
         mem[j].start = "attach" => mem[j].block \in closed
  PROVE  /\ rec' \in [Jobs -> Records] /\ shows' \in [Blocks -> Jobs \cup {None}]
         /\ \A k \in Jobs : /\ SameJob(rec'[k], rec[k])
                            /\ rec'[k].attached \in {rec[k].attached, None}
         /\ \A c \in Blocks \ closed :
              /\ shows'[c] # None => rec'[shows'[c]].attached = c
              /\ \A k \in Jobs : rec'[k].attached = c /\ mem[k].start # "attach" => shows'[c] = k
<1> DEFINE b == rec[j].attached
<1>1. /\ Typed /\ LinksAgree /\ rec \in [Jobs -> Records] /\ shows \in [Blocks -> Jobs \cup {None}]
      /\ b \in Blocks \cup {None}
  BY DEF JobInv, Typed, JobTypeOK, Records
<1>2. CASE UNCHANGED <<rec, shows>>
  BY <1>1, <1>2 DEF SameJob, LinksAgree
<1>3. CASE /\ b \in Blocks
           /\ rec' = [rec EXCEPT ![j].attached = None]
           /\ shows' = [shows EXCEPT ![b] = IF b \in closed THEN @ ELSE None]
  <2>1. /\ rec' \in [Jobs -> Records] /\ SameJob(rec'[j], rec[j]) /\ rec'[j].attached = None
        /\ \A k \in Jobs \ {j} : rec'[k] = rec[k]
    BY <1>1, <1>3 DEF Records, SameJob
  <2>2. /\ shows' \in [Blocks -> Jobs \cup {None}]
        /\ \A c \in Blocks \ closed : shows'[c] = IF c = b THEN None ELSE shows[c]
    BY <1>1, <1>3
  <2>3. ASSUME NEW c \in Blocks \ closed
        PROVE  /\ shows'[c] # None => rec'[shows'[c]].attached = c
               /\ \A k \in Jobs : rec'[k].attached = c /\ mem[k].start # "attach"
                                  => shows'[c] = k
    <3>1. /\ shows[c] # None => rec[shows[c]].attached = c
          /\ \A k \in Jobs : rec[k].attached = c /\ mem[k].start # "attach" => shows[c] = k
      BY <1>1 DEF LinksAgree
    <3>2. CASE c = b
      <4>1. mem[j].start # "attach"
        BY <3>2, JobIs, JobAssumption DEF Fits, StartFits
      <4>2. ASSUME NEW k \in Jobs, rec'[k].attached = c, mem[k].start # "attach" PROVE FALSE
        <5>1. k # j /\ rec[k].attached = c
          BY <2>1, <4>2, JobAssumption
        <5> QED BY <3>1, <3>2, <4>1, <4>2, <5>1
      <4> QED BY <2>2, <3>2, <4>2
    <3>3. CASE c # b
      <4>1. shows[c] # None => shows[c] \in Jobs \ {j}
        BY <1>1, <3>1, <3>3
      <4>2. ASSUME NEW k \in Jobs, rec'[k].attached = c, mem[k].start # "attach"
            PROVE  shows'[c] = k
        <5>1. k # j /\ rec[k].attached = c
          BY <2>1, <4>2, JobAssumption
        <5> QED BY <2>2, <3>1, <3>3, <4>2, <5>1
      <4> QED BY <2>1, <2>2, <3>1, <3>3, <4>1, <4>2
    <3> QED BY <3>2, <3>3
  <2> QED BY <2>1, <2>2, <2>3 DEF SameJob
<1> QED BY <1>1, <1>2, <1>3 DEF DetachJobFromBlock

\* The record is inserted with the block, which does not show the job yet.
LEMMA InsertKeeps ==
  ASSUME JobInv, NEW j \in Jobs, NEW b \in Blocks, InsertJob(j, b) PROVE JobInv'
<1>1. /\ rec[j].status = "none" /\ b \notin closed
      /\ rec' = [rec EXCEPT ![j] = [@ EXCEPT !.status = "init", !.attached = b]]
      /\ mem' = [mem EXCEPT ![j] = [@ EXCEPT !.start = "attach", !.block = b]]
      /\ UNCHANGED <<shows, closed, remote, closeNews, upVars, pruneVars>>
  BY DEF InsertJob
<1>2. rec[j].attached = None
  BY <1>1, JobIs DEF Fits, DoomFits
<1>3. /\ rec' \in [Jobs -> Records] /\ mem' \in [Jobs -> Memories]
      /\ rec'[j].attached = b /\ rec'[j].status = "init" /\ rec'[j].ended = rec[j].ended
      /\ mem'[j].start = "attach" /\ mem'[j].block = b /\ Same(mem'[j], [mem[j] EXCEPT !.start = "attach", !.block = b])
      /\ mem'[j].stop = mem[j].stop /\ mem'[j].re = mem[j].re
      /\ \A k \in Jobs \ {j} : rec'[k] = rec[k] /\ mem'[k] = mem[k]
  <2>1. /\ [rec[j] EXCEPT !.status = "init", !.attached = b] \in Records
        /\ rec \in [Jobs -> Records] /\ mem \in [Jobs -> Memories]
    BY JobIs DEF Typed, JobTypeOK, Records
  <2>2. [mem[j] EXCEPT !.start = "attach", !.block = b] \in Memories
    BY JobIs DEF Memories
  <2>3. /\ rec' \in [Jobs -> Records] /\ mem' \in [Jobs -> Memories]
        /\ rec'[j] = [rec[j] EXCEPT !.status = "init", !.attached = b]
        /\ mem'[j] = [mem[j] EXCEPT !.start = "attach", !.block = b]
        /\ \A k \in Jobs \ {j} : rec'[k] = rec[k] /\ mem'[k] = mem[k]
    BY <1>1, <2>1, <2>2
  <2> QED BY <2>1, <2>2, <2>3, JobIs DEF Records, Memories, Same
<1>4. Typed'
  BY <1>1, <1>3, JobIs DEF Typed, JobTypeOK, Records, upVars, pruneVars
<1>5. LinksAgree'
  <2>1. shows \in [Blocks -> Jobs \cup {None}] /\ LinksAgree
    BY DEF JobInv, Typed, JobTypeOK
  <2>2. \A c \in Blocks \ closed : shows[c] # None => shows[c] \in Jobs \ {j}
    BY <1>2, <2>1, JobAssumption DEF LinksAgree
  <2> QED BY <1>1, <1>3, <2>1, <2>2 DEF LinksAgree
<1>6. ASSUME NEW k \in Jobs PROVE Fits(k, rec'[k], mem'[k], remote'[k])
  <2>1. CASE k = j
    BY <1>1, <1>3, <2>1, JobIs
       DEF Records, Memories, Same, Fits, StartFits, DoomFits, EndFits, Ending, Unstarted
  <2>2. CASE k # j
    BY <1>1, <1>3, <2>2, JobIs
  <2> QED BY <2>1, <2>2
<1> QED BY <1>1, <1>4, <1>5, <1>6, LinkStepKeeps DEF upVars, pruneVars

LEMMA AttachKeeps ==
  ASSUME JobInv, NEW j \in Jobs, AttachJob(j) PROVE JobInv'
<1> DEFINE b == mem[j].block
<1>1. /\ mem[j].start = "attach"
      /\ \/ CanAttach(j, b) /\ AttachJobToBlock(j, b)
            /\ mem' = [mem EXCEPT ![j] = [@ EXCEPT !.start = "remote"]]
         \/ ~CanAttach(j, b) /\ UNCHANGED <<rec, shows>>
            /\ mem' = [mem EXCEPT ![j] = [@ EXCEPT !.start = "over"]]
      /\ UNCHANGED <<closed, remote, closeNews, upVars, pruneVars>>
  BY DEF AttachJob
<1>2. /\ mem' \in [Jobs -> Memories] /\ mem'[j].start # "attach"
      /\ \A k \in Jobs \ {j} : mem'[k] = mem[k]
  BY <1>1, JobIs DEF Typed, Memories
<1>3. b \in Blocks /\ rec[j].attached \in {None, b} /\ (b \notin closed => rec[j].status = "init" /\ ~Ending(mem[j]))
  BY <1>1, JobIs DEF Fits, StartFits, Memories
<1>4. CASE CanAttach(j, b) /\ AttachJobToBlock(j, b) /\ b \in Blocks
  <2>1. /\ rec' \in [Jobs -> Records] /\ shows' \in [Blocks -> Jobs \cup {None}]
        /\ \A k \in Jobs \ {j} : /\ SameJob(rec'[k], rec[k])
                                 /\ rec'[k].attached \in {rec[k].attached, None}
        /\ SameJob(rec'[j], rec[j])
        /\ \A c \in Blocks \ closed :
             /\ shows'[c] # None => rec'[shows'[c]].attached = c
             /\ \A k \in Jobs : rec'[k].attached = c /\ (mem[k].start # "attach" \/ k = j)
                                => shows'[c] = k
    BY <1>4, AttachOK
  <2>2. Typed' /\ LinksAgree'
    BY <1>1, <1>2, <2>1, JobIs DEF Typed, JobTypeOK, LinksAgree, Records, upVars, pruneVars
  <2>3. mem'[j] = [mem[j] EXCEPT !.start = "remote"] /\ b \notin closed
    BY <1>1, <1>4, JobIs DEF Typed, CanAttach
  <2>4. Fits(j, rec'[j], mem'[j], remote'[j])
    BY <1>1, <1>3, <2>1, <2>3, JobIs
       DEF SameJob, Memories, Fits, StartFits, DoomFits, EndFits, Ending, Unstarted
  <2>5. ASSUME NEW k \in Jobs \ {j} PROVE Fits(k, rec'[k], mem'[k], remote'[k])
    BY <1>1, <1>2, <2>1, JobIs, DetachedFits
  <2> QED BY <1>1, <2>2, <2>4, <2>5, LinkStepKeeps DEF upVars, pruneVars
<1>5. CASE /\ ~CanAttach(j, b) /\ UNCHANGED <<rec, shows>>
           /\ mem' = [mem EXCEPT ![j] = [@ EXCEPT !.start = "over"]]
  <2>1. Typed'
    BY <1>1, <1>2, <1>5, JobIs DEF Typed, JobTypeOK, Records, upVars, pruneVars
  <2>2. mem'[j] = [mem[j] EXCEPT !.start = "over"]
    BY <1>5, JobIs DEF Typed
  <2>3. ASSUME NEW k \in Jobs PROVE Fits(k, rec'[k], mem'[k], remote'[k])
    BY <1>1, <1>2, <1>5, <2>2, JobIs
       DEF Memories, Fits, StartFits, DoomFits, EndFits, Ending, Unstarted
  <2>4. rec[j].attached \notin Blocks \ closed
    BY <1>3, <1>5, JobIs, JobAssumption DEF CanAttach, Exists
  <2>5. LinksAgree'
    BY <1>1, <1>2, <1>5, <2>4 DEF JobInv, LinksAgree
  <2> QED BY <1>1, <2>1, <2>3, <2>5, LinkStepKeeps DEF upVars, pruneVars
<1> QED BY <1>1, <1>3, <1>4, <1>5, JobAssumption DEF CanAttach

LEMMA CommandAttachKeeps ==
  ASSUME JobInv, NEW j \in Jobs, NEW b \in Blocks, CommandAttach(j, b) PROVE JobInv'
<1>1. /\ mem[j].start = "over" /\ rec[j].status # "done"
      /\ CanAttach(j, b) /\ AttachJobToBlock(j, b)
      /\ UNCHANGED <<closed, remote, mem, closeNews, upVars, pruneVars>>
  BY DEF CommandAttach, Started
<1>2. /\ rec' \in [Jobs -> Records] /\ shows' \in [Blocks -> Jobs \cup {None}]
      /\ \A k \in Jobs \ {j} : /\ SameJob(rec'[k], rec[k])
                               /\ rec'[k].attached \in {rec[k].attached, None}
      /\ SameJob(rec'[j], rec[j])
      /\ \A c \in Blocks \ closed :
           /\ shows'[c] # None => rec'[shows'[c]].attached = c
           /\ \A k \in Jobs : rec'[k].attached = c /\ (mem[k].start # "attach" \/ k = j)
                              => shows'[c] = k
  BY <1>1, AttachOK
<1>3. Typed' /\ LinksAgree'
  BY <1>1, <1>2, JobIs DEF Typed, JobTypeOK, LinksAgree, Records, upVars, pruneVars
<1>4. Fits(j, rec'[j], mem'[j], remote'[j])
  BY <1>1, <1>2, JobIs
     DEF CanAttach, Exists, SameJob, Fits, StartFits, DoomFits, EndFits, Ending, Unstarted
<1>5. ASSUME NEW k \in Jobs \ {j} PROVE Fits(k, rec'[k], mem'[k], remote'[k])
  BY <1>1, <1>2, JobIs, DetachedFits
<1> QED BY <1>1, <1>3, <1>4, <1>5, LinkStepKeeps DEF upVars, pruneVars

LEMMA DetachKeeps ==
  ASSUME JobInv, NEW j \in Jobs, DetachTerminated(j) \/ CommandDetach(j) PROVE JobInv'
<1>1. /\ DetachJobFromBlock(j) \/ UNCHANGED <<rec, shows>>
      /\ UNCHANGED <<closed, remote, closeNews, upVars, pruneVars>>
      /\ mem' \in {mem, [mem EXCEPT ![j] = [@ EXCEPT !.closing = "no"]]}
      /\ mem[j].closing = "stop" \/ mem[j].start = "over"
  BY DEF DetachTerminated, CommandDetach, Started
<1>2. mem[j].start = "attach" => mem[j].block \in closed
  BY <1>1, JobIs DEF Fits, StartFits, Ending
<1>3. /\ rec' \in [Jobs -> Records] /\ shows' \in [Blocks -> Jobs \cup {None}]
      /\ \A k \in Jobs : /\ SameJob(rec'[k], rec[k])
                         /\ rec'[k].attached \in {rec[k].attached, None}
      /\ \A c \in Blocks \ closed :
           /\ shows'[c] # None => rec'[shows'[c]].attached = c
           /\ \A k \in Jobs : rec'[k].attached = c /\ mem[k].start # "attach" => shows'[c] = k
  BY <1>1, <1>2, DetachOK
<1>4. /\ mem' \in [Jobs -> Memories]
      /\ \A k \in Jobs : mem'[k] = mem[k] \/ mem'[k] = [mem[k] EXCEPT !.closing = "no"]
  BY <1>1, JobIs DEF Typed, Memories
<1>5. \A k \in Jobs : mem'[k].start = mem[k].start
  BY <1>4, JobIs DEF Memories
<1>6. Typed' /\ LinksAgree'
  BY <1>1, <1>3, <1>4, <1>5, JobIs DEF Typed, JobTypeOK, LinksAgree, Records, upVars, pruneVars
<1>7. ASSUME NEW k \in Jobs PROVE Fits(k, rec'[k], mem'[k], remote'[k])
  <2>1. Fits(k, rec'[k], mem[k], remote[k])
    BY <1>3, JobIs, DetachedFits
  <2> QED BY <1>1, <1>4, <2>1, JobIs DEF Memories, Fits, StartFits, DoomFits, EndFits, Ending
<1> QED BY <1>1, <1>6, <1>7, LinkStepKeeps DEF upVars, pruneVars

LEMMA DeleteKeeps ==
  ASSUME JobInv, NEW j \in Jobs, DeleteJob(j) PROVE JobInv'
<1>1. /\ j \in doomed /\ doomed' = doomed \ {j}
      /\ rec' = [rec EXCEPT ![j] = [NoRecord EXCEPT !.status = "deleted"]]
      /\ mem' = [mem EXCEPT ![j] = [@ EXCEPT !.connected = FALSE]]
      /\ UNCHANGED <<shows, closed, remote, closeNews, upVars, previous>>
  BY DEF DeleteJob
<1>2. rec[j].status = "done" /\ rec[j].attached = None /\ mem[j].start # "remote"
  BY <1>1, JobIs DEF Fits, DoomFits
<1>3. [NoRecord EXCEPT !.status = "deleted"] \in Records
  BY DEF NoRecord, Records
<1>4. /\ rec' \in [Jobs -> Records] /\ mem' \in [Jobs -> Memories]
      /\ rec'[j].attached = None /\ rec'[j].status = "deleted"
      /\ mem'[j] = [mem[j] EXCEPT !.connected = FALSE]
      /\ \A k \in Jobs \ {j} : rec'[k] = rec[k] /\ mem'[k] = mem[k]
  <2>1. rec \in [Jobs -> Records] /\ mem \in [Jobs -> Memories]
    BY JobIs DEF Typed, JobTypeOK, Records
  <2>2. [mem[j] EXCEPT !.connected = FALSE] \in Memories
    BY JobIs DEF Memories
  <2> QED BY <1>1, <1>3, <2>1, <2>2 DEF NoRecord
<1>5. \A k \in Jobs : mem'[k].start = mem[k].start
  BY <1>4, JobIs DEF Memories
<1>6. Typed'
  BY <1>1, <1>4, JobIs DEF Typed, JobTypeOK, Records, upVars
<1>7. LinksAgree'
  <2>1. shows \in [Blocks -> Jobs \cup {None}] /\ LinksAgree
    BY DEF JobInv, Typed, JobTypeOK
  <2>2. \A c \in Blocks \ closed : shows[c] # None => shows[c] \in Jobs \ {j}
    BY <1>2, <2>1, JobAssumption DEF LinksAgree
  <2> QED BY <1>1, <1>4, <1>5, <2>1, <2>2, JobAssumption DEF LinksAgree
<1>8. ASSUME NEW k \in Jobs PROVE Fits(k, rec[k], mem[k], remote[k])'
  <2>1. /\ Same(mem'[k], mem[k]) /\ mem'[k].stop = mem[k].stop /\ mem'[k].re = mem[k].re
        /\ k \in todo' => k \in todo
    BY <1>1, <1>4, JobIs DEF Memories, Same, upVars
  <2>2. CASE k = j
    BY <1>1, <1>2, <1>4, <2>1, <2>2, JobIs
       DEF Same, Fits, StartFits, DoomFits, EndFits, Ending, Unstarted
  <2>3. CASE k # j
    BY <1>1, <1>4, <2>1, <2>3, JobIs
       DEF Same, Fits, StartFits, DoomFits, EndFits, Ending, Unstarted
  <2> QED BY <2>2, <2>3
<1> QED BY <1>6, <1>7, <1>8 DEF JobInv
-----------------------------------------------------------------------------
(* The steps that leave the records alone.                                   *)

\* What may become of the memory of a job, and of its manager.
Calm(j, m, x) ==
  /\ m.start = mem[j].start /\ m.block = mem[j].block /\ m.closing = mem[j].closing
  /\ m.stop = mem[j].stop /\ m.late = mem[j].late /\ m.check = mem[j].check
  /\ m.auto => mem[j].auto \/ Runs(j)
  /\ m.atEof => mem[j].atEof \/ Alive(j)
  /\ m.re.at # "no" => mem[j].re.at # "no" \/ mem[j].start \notin Unstarted
  /\ remote[j].state = "none" => x.state = "none"

LEMMA CalmFits ==
  ASSUME JobInv, NEW j \in Jobs, NEW m, NEW x, Calm(j, m, x)
  PROVE  Fits(j, rec[j], m, x)
  BY JobIs DEF Calm, Alive, Runs, Fits, StartFits, DoomFits, EndFits, Ending, Unstarted

LEMMA CalmKeeps ==
  ASSUME JobInv, NEW j \in Jobs, NEW m \in Memories, NEW x \in Managers, Calm(j, m, x),
         rec' = rec, mem' = [mem EXCEPT ![j] = m], remote' = [remote EXCEPT ![j] = x],
         UNCHANGED <<shows, closed, closeNews, pruneVars>>,
         todo' \subseteq todo, visiting' \in Jobs \cup {None, Listing}
  PROVE  JobInv'
<1>1. Fits(j, rec[j], m, x) /\ m.start = mem[j].start
  BY CalmFits DEF Calm
<1> QED BY <1>1, JobIs, StepKeeps

\* Of what the memory holds, only what the manager's output and the routes say changes.
LEMMA OutputKeeps ==
  ASSUME JobInv, NEW j \in Jobs,
         \/ CommandExits(j) \/ OutputEnds(j) \/ RecvAck(j)
         \/ handleRouteUpEvent(j) \/ handleRouteDownEvent(j)
  PROVE  JobInv'
<1>1. PICK m \in Memories, x \in Managers :
        /\ Calm(j, m, x) /\ mem' = [mem EXCEPT ![j] = m] /\ remote' = [remote EXCEPT ![j] = x]
  <2>1. CASE CommandExits(j)
    <3> DEFINE x == [remote[j] EXCEPT !.state = "exited"]
               m == [mem[j] EXCEPT !.exits = @ + 1]
    <3>1. x \in Managers /\ m \in Memories /\ Calm(j, m, x) /\ Calm(j, mem[j], x)
      BY <2>1, JobIs DEF CommandExits, Memories, Managers, Calm
    <3>2. remote' = [remote EXCEPT ![j] = x] /\ mem' \in {mem, [mem EXCEPT ![j] = m]}
      BY <2>1 DEF CommandExits
    <3> HIDE DEF x, m
    <3> QED BY <3>1, <3>2, JobIs
  <2>2. CASE OutputEnds(j)
    <3> DEFINE x == [remote[j] EXCEPT !.stream = "acked"]
               m == [mem[j] EXCEPT !.atEof = TRUE]
    <3>1. x \in Managers /\ m \in Memories /\ Calm(j, m, x)
      BY <2>2, JobIs DEF OutputEnds, Memories, Managers, Calm
    <3>2. remote' = [remote EXCEPT ![j] = x] /\ mem' = [mem EXCEPT ![j] = m]
      BY <2>2 DEF OutputEnds
    <3> HIDE DEF x, m
    <3> QED BY <3>1, <3>2
  <2>3. CASE handleRouteUpEvent(j)
    <3> DEFINE m == [mem[j] EXCEPT !.ups = @ - 1, !.connected = TRUE]
    <3>3. mem[j].ups \in Nat /\ mem[j].ups - 1 \in Nat
      BY <2>3, JobIs DEF handleRouteUpEvent, Memories
    <3>1. m \in Memories /\ Calm(j, m, remote[j])
      BY <3>3, JobIs DEF Memories, Calm
    <3>2. remote' = remote /\ mem' = [mem EXCEPT ![j] = m]
      BY <2>3 DEF handleRouteUpEvent
    <3> HIDE DEF m
    <3> QED BY <3>1, <3>2, JobIs
  <2>4. CASE handleRouteDownEvent(j)
    <3> DEFINE o == [mem[j] EXCEPT !.downs = @ - 1, !.connected = FALSE]
               m == IF Runs(j) /\ ~o.cooling
                    THEN [o EXCEPT !.auto = TRUE, !.cooling = TRUE] ELSE o
    <3>0. mem[j].downs \in Nat /\ mem[j].downs - 1 \in Nat
      BY <2>4, JobIs DEF handleRouteDownEvent, Memories
    <3> DEFINE p == [o EXCEPT !.auto = TRUE, !.cooling = TRUE]
    <3>3. o \in Memories /\ Calm(j, o, remote[j])
      BY <3>0, JobIs DEF Memories, Calm
    <3>4. Runs(j) => p \in Memories /\ Calm(j, p, remote[j])
      BY <3>0, JobIs DEF Memories, Calm
    <3>1. m \in Memories /\ Calm(j, m, remote[j])
      BY <3>3, <3>4
    <3>2. remote' = remote /\ mem' = [mem EXCEPT ![j] = m]
      BY <2>4 DEF handleRouteDownEvent
    <3> HIDE DEF m
    <3> QED BY <3>1, <3>2, JobIs
  <2>5. CASE RecvAck(j)
    <3> DEFINE x == [remote[j] EXCEPT !.stream = "none", !.told = TRUE]
    <3>1. x \in Managers /\ Calm(j, mem[j], x)
      BY JobIs DEF Managers, Calm
    <3>2. remote' = [remote EXCEPT ![j] = x] /\ mem' = [mem EXCEPT ![j] = mem[j]]
      BY <2>5, JobIs DEF RecvAck
    <3> HIDE DEF x
    <3> QED BY <3>1, <3>2, JobIs
  <2> QED BY <2>1, <2>2, <2>3, <2>4, <2>5
<1>2. UNCHANGED <<recVars, closeNews, upVars, pruneVars>>
  BY DEF CommandExits, OutputEnds, RecvAck, handleRouteUpEvent, handleRouteDownEvent
<1> QED BY <1>1, <1>2, JobIs, CalmKeeps DEF recVars, upVars, Typed, JobTypeOK

\* A route goes, with its link or its manager.
LEMMA RouteGoes ==
  ASSUME JobInv, NEW j \in Jobs, ManagerDies(j) \/ CommandDisconnect(j) PROVE JobInv'
<1> DEFINE m == Unlinked(j, mem[j])
<1>1. m \in Memories /\ Same(m, mem[j]) /\ m.stop = mem[j].stop /\ m.re = mem[j].re
  BY JobIs, UnlinkedOK
<1>2. /\ mem' = [mem EXCEPT ![j] = m]
      /\ UNCHANGED <<recVars, closeNews, upVars, pruneVars>>
  BY DEF ManagerDies, CommandDisconnect
<1>3. PICK x \in Managers :
        remote' = [remote EXCEPT ![j] = x] /\ (remote[j].state = "none" => x.state = "none")
  <2>1. Gone(remote[j]) \in Managers
    BY JobIs DEF Gone, Managers
  <2>2. /\ [remote[j] EXCEPT !.link = FALSE, !.stream = "none"] \in Managers
        /\ [remote[j] EXCEPT !.link = FALSE, !.stream = "none"].state = remote[j].state
    BY JobIs DEF Managers
  <2>3. CASE ManagerDies(j)
    BY <2>1, <2>3 DEF ManagerDies, Alive
  <2>4. CASE CommandDisconnect(j)
    BY <2>2, <2>4 DEF CommandDisconnect
  <2> QED BY <2>3, <2>4
<1> HIDE DEF m
<1>4. Calm(j, m, x)
  BY <1>1, <1>3 DEF Calm, Same
<1> QED BY <1>1, <1>2, <1>3, <1>4, JobIs, CalmKeeps DEF recVars, upVars, Typed, JobTypeOK

\* A reconnection begins: for a job that has begun to run.
LEMMA ReconnectBegins ==
  ASSUME JobInv, NEW j \in Jobs,
         attemptAutoReconnect(j) \/ ReconnectNext(j) \/ CommandReconnect(j)
  PROVE  JobInv'
<1>1. mem[j].start \notin Unstarted
  BY JobIs DEF attemptAutoReconnect, ReconnectNext, CommandReconnect, Started, Unstarted,
               Fits, StartFits
<1>2. PICK o \in Memories :
        /\ Same(o, [mem[j] EXCEPT !.auto = o.auto]) /\ o.stop = mem[j].stop
        /\ o.auto => mem[j].auto
        /\ mem' = [mem EXCEPT ![j] = Reconnecting(j, o)]
  <2> DEFINE q == [mem[j] EXCEPT !.auto = FALSE]
  <2>1. /\ q \in Memories /\ Same(q, [mem[j] EXCEPT !.auto = q.auto]) /\ q.stop = mem[j].stop
        /\ ~q.auto /\ Same(mem[j], [mem[j] EXCEPT !.auto = mem[j].auto])
    BY JobIs DEF Memories, Same
  <2>2. CASE attemptAutoReconnect(j)
    <3>1. mem' = [mem EXCEPT ![j] = Reconnecting(j, q)]
      BY <2>2 DEF attemptAutoReconnect
    <3> HIDE DEF q
    <3> QED BY <2>1, <3>1
  <2>3. CASE ReconnectNext(j) \/ CommandReconnect(j)
    BY <2>1, <2>3, JobIs DEF ReconnectNext, CommandReconnect
  <2> QED BY <2>2, <2>3
<1> DEFINE m == Reconnecting(j, o)
<1>3. m \in Memories /\ Same(m, o) /\ m.stop = o.stop
  BY JobIs, ReconnectingOK
<1> HIDE DEF m
<1>4. Calm(j, m, remote[j])
  BY <1>1, <1>2, <1>3, JobIs DEF Calm, Same, Memories
<1>5. /\ UNCHANGED <<recVars, remote, closeNews, pruneVars>>
      /\ todo' \subseteq todo /\ visiting' \in Jobs \cup {None, Listing}
  BY JobIs DEF attemptAutoReconnect, ReconnectNext, CommandReconnect, upVars, Typed, JobTypeOK
<1> QED BY <1>2, <1>3, <1>4, <1>5, JobIs, CalmKeeps DEF recVars, m
-----------------------------------------------------------------------------
(* The steps of a reconnection, which are about jobs that have begun to run. *)

LEMMA RoutedOK ==
  ASSUME NEW u \in Memories
  PROVE  LET m == [u EXCEPT !.ups = @ + 1, !.re.at = "route"]
         IN  m \in Memories /\ Same(m, u) /\ m.stop = u.stop
<1>1. [u.re EXCEPT !.at = "route"] \in Calls
  BY DEF Memories, Calls
<1>2. u.ups + 1 \in Nat
  BY DEF Memories
<1> QED BY <1>1, <1>2 DEF Memories, Same

\* Up to the stream: what changes is where the reconnection is, and the link.
LEMMA ReconnectionKeeps ==
  ASSUME JobInv, NEW j \in Jobs,
         \/ AskRemote(j) \/ WaitForRegister(j) \/ PrepareConnect(j) \/ PrepareFails(j)
         \/ StartStream(j) \/ ReconnectFails(j)
  PROVE  JobInv'
<1>1. mem[j].re.at # "no" /\ NoCall \in Calls
  BY DEF AskRemote, WaitForRegister, PrepareConnect, PrepareFails, StartStream, ReconnectFails,
         GivesUp, Calls, NoCall
<1>2. PICK m \in Memories, x \in Managers :
        /\ Calm(j, m, x) /\ mem' = [mem EXCEPT ![j] = m] /\ remote' = [remote EXCEPT ![j] = x]
  <2>1. ASSUME NEW o \in {mem[j], Unlinked(j, mem[j])}, NEW call \in Calls, NEW x \in Managers,
               x.state = remote[j].state
        PROVE  LET m == [o EXCEPT !.re = call] IN m \in Memories /\ Calm(j, m, x)
    <3>1. o \in Memories /\ Same(o, mem[j]) /\ o.stop = mem[j].stop
      BY JobIs, UnlinkedOK DEF Same
    <3> QED BY <1>1, <2>1, <3>1 DEF Memories, Calm, Same
  <2>2. CASE AskRemote(j)
    <3>1. CASE mem[j].re.pid /\ Alive(j)
      <4> DEFINE u == Unlinked(j, mem[j])
                 m == [u EXCEPT !.ups = @ + 1, !.re.at = "route"]
                 n == [u EXCEPT !.re = NoCall]
      <4>1. PICK x \in {[remote[j] EXCEPT !.link = linked, !.stream = "none"] : linked \in BOOLEAN} :
              /\ remote' = [remote EXCEPT ![j] = x]
              /\ mem' \in {[mem EXCEPT ![j] = m], [mem EXCEPT ![j] = n]}
        <5>1. PICK linked \in BOOLEAN :
                /\ remote' = [remote EXCEPT ![j] = [@ EXCEPT !.link = linked, !.stream = "none"]]
                /\ IF linked THEN mem' = [mem EXCEPT ![j] = m] ELSE mem' = [mem EXCEPT ![j] = n]
          BY <2>2, <3>1 DEF AskRemote
        <5> HIDE DEF m, n
        <5> QED BY <5>1
      <4>2. x \in Managers /\ x.state = remote[j].state
        BY JobIs DEF Managers
      <4>3. /\ u \in Memories /\ Same(u, mem[j]) /\ u.stop = mem[j].stop /\ u.re = mem[j].re
        BY JobIs, UnlinkedOK
      <4> HIDE DEF u
      <4>4. n \in Memories /\ Calm(j, n, x)
        BY <1>1, <4>2, <4>3 DEF Memories, Calm, Same
      <4>5. m \in Memories /\ Same(m, u) /\ m.stop = u.stop
        BY <4>3, RoutedOK
      <4> HIDE DEF m, n
      <4>6. Calm(j, m, x)
        BY <1>1, <4>2, <4>3, <4>5 DEF Calm, Same
      <4> QED BY <4>1, <4>2, <4>4, <4>5, <4>6
    <3>2. CASE ~(mem[j].re.pid /\ Alive(j))
      <4> DEFINE m == [mem[j] EXCEPT !.re.at = "gone"]
      <4>1. m \in Memories /\ Calm(j, m, remote[j])
        BY <1>1, JobIs DEF Memories, Calls, Calm
      <4>2. mem' = [mem EXCEPT ![j] = m] /\ remote' = remote
        BY <2>2, <3>2 DEF AskRemote
      <4> HIDE DEF m
      <4> QED BY <4>1, <4>2, JobIs
    <3> QED BY <3>1, <3>2
  <2>3. CASE WaitForRegister(j)
    <3> DEFINE call == [mem[j].re EXCEPT !.at = "prepare"]
               m == [mem[j] EXCEPT !.connected = TRUE, !.re = call]
    <3>0. call \in Calls
      BY JobIs DEF Memories, Calls
    <3>2. mem' = [mem EXCEPT ![j] = m] /\ remote' = remote
      BY <2>3 DEF WaitForRegister
    <3> HIDE DEF call
    <3>1. m \in Memories /\ Calm(j, m, remote[j])
      BY <1>1, <3>0, JobIs DEF Memories, Calm
    <3> HIDE DEF m
    <3> QED BY <3>1, <3>2, JobIs
  <2>4. CASE PrepareConnect(j)
    <3> DEFINE call == [mem[j].re EXCEPT !.at = "exit", !.exited = remote[j].state = "exited",
                                         !.ended = remote[j].told]
               m == [mem[j] EXCEPT !.atEof = FALSE, !.re = call]
               x == [remote[j] EXCEPT !.stream = "none"]
    <3>0. /\ mem[j].re \in Calls /\ remote[j] \in Managers /\ remote[j].told \in BOOLEAN
          /\ (remote[j].state = "exited") \in BOOLEAN
      BY JobIs DEF Memories, Managers
    <3>1. call \in Calls /\ x \in Managers /\ x.state = remote[j].state
      <4>1. x \in Managers /\ x.state = remote[j].state
        BY <3>0 DEF Managers
      <4>2. ASSUME NEW a \in BOOLEAN, NEW b \in BOOLEAN
            PROVE  [mem[j].re EXCEPT !.at = "exit", !.exited = a, !.ended = b] \in Calls
        BY <3>0 DEF Calls
      <4>3. QED BY <3>0, <4>1, <4>2
    <3>2. mem' = [mem EXCEPT ![j] = m] /\ remote' = [remote EXCEPT ![j] = x]
      BY <2>4 DEF PrepareConnect
    <3> HIDE DEF call, x
    <3>3. m \in Memories /\ Calm(j, m, x)
      BY <1>1, <3>1, JobIs DEF Memories, Calm
    <3> HIDE DEF m
    <3> QED BY <3>1, <3>2, <3>3
  <2>5. CASE PrepareFails(j)
    <3> DEFINE m == [mem[j] EXCEPT !.re = NoCall, !.atEof = @ /\ ~Exists(j)]
    <3>1. m \in Memories /\ Calm(j, m, remote[j])
      BY <1>1, JobIs DEF Memories, Calm
    <3>2. mem' = [mem EXCEPT ![j] = m] /\ remote' = remote
      BY <2>5 DEF PrepareFails
    <3> HIDE DEF m
    <3> QED BY <3>1, <3>2, JobIs
  <2>6. CASE StartStream(j) \/ ReconnectFails(j)
    <3> DEFINE m == [mem[j] EXCEPT !.re = NoCall]
               x == [remote[j] EXCEPT !.stream = "read"]
    <3>1. x \in Managers /\ x.state = remote[j].state
      BY JobIs DEF Managers
    <3>2. mem' = [mem EXCEPT ![j] = m] /\ remote' \in {remote, [remote EXCEPT ![j] = x]}
      BY <2>6 DEF StartStream, ReconnectFails, GivesUp
    <3> HIDE DEF x
    <3>3. m \in Memories /\ Calm(j, m, x) /\ Calm(j, m, remote[j])
      BY <1>1, <2>1, <3>1, JobIs
    <3> HIDE DEF m
    <3>4. CASE remote' = remote
      BY <3>2, <3>3, <3>4, JobIs
    <3>5. CASE remote' = [remote EXCEPT ![j] = x]
      BY <3>1, <3>2, <3>3, <3>5
    <3> QED BY <3>2, <3>4, <3>5
  <2> QED BY <2>2, <2>3, <2>4, <2>5, <2>6
<1>3. UNCHANGED <<recVars, closeNews, upVars, pruneVars>>
  BY DEF AskRemote, WaitForRegister, PrepareConnect, PrepareFails, StartStream, ReconnectFails,
         GivesUp
<1> QED BY <1>2, <1>3, JobIs, CalmKeeps DEF recVars, upVars, Typed, JobTypeOK

\* A record is changed, if there is one, and who looks for the rest then.
LEMMA NoteKeeps ==
  ASSUME JobInv, NEW j \in Jobs, NEW d \in Records, NEW m \in Memories,
         Update(j, d), mem' = [mem EXCEPT ![j] = m],
         UNCHANGED <<shows, closed, remote, closeNews, upVars, pruneVars>>,
         d.attached = rec[j].attached, m.start = mem[j].start,
         IF Exists(j) THEN Fits(j, d, m, remote[j]) ELSE Fits(j, rec[j], m, remote[j])
  PROVE  JobInv'
<1>1. PICK r \in Records :
        rec' = [rec EXCEPT ![j] = r] /\ IF Exists(j) THEN r = d ELSE r = rec[j]
  BY JobIs, UpdateOK
<1>2. r.attached = rec[j].attached /\ Fits(j, r, m, remote[j])
  BY <1>1
<1> QED BY <1>1, <1>2, JobIs, StepKeeps DEF upVars, Typed, JobTypeOK

LEMMA ExitKeeps == ASSUME JobInv, NEW j \in Jobs, HandleCmdJobExited(j) PROVE JobInv'
<1> DEFINE d == [rec[j] EXCEPT !.exited = TRUE]
           m == [mem[j] EXCEPT !.exits = @ - 1, !.check = TRUE]
<1>1. /\ Update(j, d) /\ mem' = [mem EXCEPT ![j] = m]
      /\ UNCHANGED <<shows, closed, remote, closeNews, upVars, pruneVars>>
  BY DEF HandleCmdJobExited, Noted
<1>2. d \in Records /\ d.attached = rec[j].attached /\ SameJob(d, [rec[j] EXCEPT !.exited = TRUE])
  BY JobIs DEF Records, SameJob
<1>3. mem[j].exits \in Nat /\ mem[j].exits - 1 \in Nat
  BY JobIs DEF HandleCmdJobExited, Memories
<1>4. m \in Memories /\ m.start = mem[j].start
  BY <1>3, JobIs DEF Memories
<1>5. Fits(j, d, m, remote[j]) /\ Fits(j, rec[j], m, remote[j])
  BY JobIs DEF Records, Memories, Fits, StartFits, DoomFits, EndFits, Ending
<1> HIDE DEF d, m
<1> QED BY <1>1, <1>2, <1>4, <1>5, NoteKeeps

LEMMA OutputLoopKeeps == ASSUME JobInv, NEW j \in Jobs, OutputLoopEnds(j) PROVE JobInv'
<1> DEFINE d == [rec[j] EXCEPT !.ended = TRUE]
           m == [mem[j] EXCEPT !.atEof = FALSE, !.check = TRUE]
<1>1. /\ Update(j, d) /\ mem' = [mem EXCEPT ![j] = m]
      /\ UNCHANGED <<shows, closed, remote, closeNews, upVars, pruneVars>>
  BY DEF OutputLoopEnds, Noted
<1>2. d \in Records /\ d.attached = rec[j].attached
  BY JobIs DEF Records
<1>3. m \in Memories /\ m.start = mem[j].start
  BY JobIs DEF Memories
<1>4. mem[j].start \notin Unstarted
  BY JobIs DEF OutputLoopEnds, Unstarted, Fits, StartFits
<1>5. Fits(j, d, m, remote[j]) \/ ~Exists(j)
  BY <1>4, JobIs DEF Exists, Records, Memories, Unstarted, Fits, StartFits, DoomFits, EndFits, Ending
<1>6. Fits(j, rec[j], m, remote[j])
  BY JobIs DEF Memories, Fits, StartFits, DoomFits, EndFits, Ending
<1> HIDE DEF d, m
<1> QED BY <1>1, <1>2, <1>3, <1>5, <1>6, NoteKeeps

\* A reconnection that is told of an end is one of a job that has begun to run.
LEMMA IsReconnected ==
  ASSUME JobInv, NEW j \in Jobs, mem[j].re.at # "no"
  PROVE  mem[j].start \notin Unstarted
  BY JobIs DEF Unstarted, Fits, StartFits

LEMMA MarkGoneKeeps == ASSUME JobInv, NEW j \in Jobs, MarkGone(j) PROVE JobInv'
<1> DEFINE d == [rec[j] EXCEPT !.status = "done"]
           m == [mem[j] EXCEPT !.re = NoCall]
<1>1. /\ Update(j, d) /\ mem' = [mem EXCEPT ![j] = m] /\ mem[j].start \notin Unstarted
      /\ UNCHANGED <<shows, closed, remote, closeNews, upVars, pruneVars>>
  BY IsReconnected DEF MarkGone
<1>2. d \in Records /\ d.attached = rec[j].attached
  BY JobIs DEF Records
<1>3. NoCall \in Calls
  BY DEF Calls, NoCall
<1>4. m \in Memories /\ m.start = mem[j].start
  BY <1>3, JobIs DEF Memories
<1>5. (Fits(j, d, m, remote[j]) \/ ~Exists(j)) /\ Fits(j, rec[j], m, remote[j])
  BY <1>1, <1>3, JobIs
     DEF Exists, Records, Memories, Unstarted, Fits, StartFits, DoomFits, EndFits, Ending
<1> HIDE DEF d, m
<1> QED BY <1>1, <1>2, <1>4, <1>5, NoteKeeps

LEMMA NoteExitKeeps == ASSUME JobInv, NEW j \in Jobs, NoteExit(j) PROVE JobInv'
<1> DEFINE m == [mem[j] EXCEPT !.re.at = "end"]
<1>1. mem[j].re.at = "exit" /\ mem[j].start \notin Unstarted
      /\ UNCHANGED <<shows, closed, remote, closeNews, upVars, pruneVars>>
  BY IsReconnected DEF NoteExit
<1>2. m \in Memories /\ Calm(j, m, remote[j])
  BY <1>1, JobIs DEF Memories, Calls, Calm
<1>3. CASE mem[j].re.exited
  <2> DEFINE d == [rec[j] EXCEPT !.exited = TRUE]
             n == [m EXCEPT !.check = TRUE]
  <2>1. Update(j, d) /\ mem' = [mem EXCEPT ![j] = n]
    BY <1>3 DEF NoteExit, Noted
  <2>2. d \in Records /\ d.attached = rec[j].attached /\ d.status = rec[j].status
    BY JobIs DEF Records
  <2>3. /\ n \in Memories /\ n.start = mem[j].start /\ n.check /\ n.closing = mem[j].closing
        /\ n.stop = mem[j].stop /\ n.late = mem[j].late
    BY <1>2 DEF Memories, Calm
  <2> HIDE DEF n
  <2>4. (Fits(j, d, n, remote[j]) \/ ~Exists(j)) /\ Fits(j, rec[j], n, remote[j])
    BY <1>1, <2>3, JobIs DEF Exists, Records, Unstarted, Fits, StartFits, DoomFits, EndFits
  <2> HIDE DEF d
  <2> QED BY <1>1, <2>1, <2>2, <2>3, <2>4, NoteKeeps
<1>4. CASE ~mem[j].re.exited
  <2>1. mem' = [mem EXCEPT ![j] = m] /\ rec' = rec
    BY <1>4 DEF NoteExit
  <2> HIDE DEF m
  <2> QED BY <1>1, <1>2, <2>1, JobIs, CalmKeeps DEF upVars, Typed, JobTypeOK
<1> QED BY <1>3, <1>4

LEMMA NoteEndKeeps == ASSUME JobInv, NEW j \in Jobs, NoteEnd(j) PROVE JobInv'
<1>1. mem[j].re.at = "end" /\ mem[j].start \notin Unstarted /\ NoCall \in Calls
      /\ UNCHANGED <<shows, closed, remote, closeNews, upVars, pruneVars>>
  BY IsReconnected DEF NoteEnd, Calls, NoCall
<1>2. CASE ~mem[j].re.ended
  <2> DEFINE m == [mem[j] EXCEPT !.re.at = "stream"]
  <2>1. mem' = [mem EXCEPT ![j] = m] /\ rec' = rec
    BY <1>2 DEF NoteEnd
  <2>2. m \in Memories /\ Calm(j, m, remote[j])
    BY <1>1, JobIs DEF Memories, Calls, Calm
  <2> HIDE DEF m
  <2> QED BY <1>1, <2>1, <2>2, JobIs, CalmKeeps DEF upVars, Typed, JobTypeOK
<1>3. CASE mem[j].re.ended
  <2> DEFINE d == [rec[j] EXCEPT !.ended = TRUE]
             looks == [mem[j] EXCEPT !.re = NoCall, !.check = TRUE]
             leaves == [mem[j] EXCEPT !.re = NoCall, !.late = @ \/ ~rec[j].ended]
  <2>1. /\ Update(j, d)
        /\ mem' \in {[mem EXCEPT ![j] = looks], [mem EXCEPT ![j] = leaves]}
    BY <1>3 DEF NoteEnd
  <2>2. d \in Records /\ d.attached = rec[j].attached
    BY JobIs DEF Records
  <2>3. /\ looks \in Memories /\ looks.start = mem[j].start
        /\ leaves \in Memories /\ leaves.start = mem[j].start
    BY <1>1, JobIs DEF Memories
  <2>4. /\ (Fits(j, d, looks, remote[j]) \/ ~Exists(j)) /\ Fits(j, rec[j], looks, remote[j])
    BY <1>1, JobIs DEF Exists, Records, Memories, Unstarted, Fits, StartFits, DoomFits, EndFits
  <2>5. /\ (Fits(j, d, leaves, remote[j]) \/ ~Exists(j)) /\ Fits(j, rec[j], leaves, remote[j])
    BY <1>1, JobIs DEF Exists, Records, Memories, Unstarted, Fits, StartFits, DoomFits, EndFits
  <2> HIDE DEF d, looks, leaves
  <2> QED BY <1>1, <2>1, <2>2, <2>3, <2>4, <2>5, NoteKeeps
<1> QED BY <1>2, <1>3
-----------------------------------------------------------------------------
(* Blocks close, and jobs are stopped.                                       *)

LEMMA StopKeeps == ASSUME JobInv, NEW j \in Jobs, StopController(j) PROVE JobInv'
<1> DEFINE m == [mem[j] EXCEPT !.closing = "due"]
<1>1. /\ mem[j].start = "over" /\ mem' = [mem EXCEPT ![j] = m]
      /\ UNCHANGED <<recVars, remote, closeNews, upVars, pruneVars>>
  BY DEF StopController, Started
<1>2. m \in Memories /\ m.start = "over"
  BY <1>1, JobIs DEF Memories
<1>3. Fits(j, rec[j], m, remote[j])
  BY <1>1, JobIs DEF Memories, Unstarted, Fits, StartFits, DoomFits, EndFits
<1> HIDE DEF m
<1> QED BY <1>1, <1>2, <1>3, JobIs, StepKeeps DEF recVars, upVars, Typed, JobTypeOK

\* A termination begins: of a job that has begun, or whose block is closed.
LEMMA StoppingKeeps ==
  ASSUME JobInv, NEW j \in Jobs, NEW m \in Memories,
         Same(m, [mem[j] EXCEPT !.closing = m.closing]), m.re = mem[j].re,
         m.stop.at # "no" => mem[j].stop.at # "no" \/ Stops(j),
         Ending(mem[j]) \/ (m.closing = mem[j].closing /\ mem[j].start = "over"),
         rec' = Marked(j), mem' = [mem EXCEPT ![j] = m],
         UNCHANGED <<shows, closed, remote, closeNews, upVars, pruneVars>>
  PROVE  JobInv'
<1>1. /\ m.start = mem[j].start /\ m.block = mem[j].block
      /\ m.check = mem[j].check /\ m.auto = mem[j].auto /\ m.late = mem[j].late
      /\ m.atEof = mem[j].atEof
  BY JobIs DEF Memories, Same
<1>2. PICK r \in Records :
        /\ rec' = [rec EXCEPT ![j] = r]
        /\ r.status = rec[j].status /\ r.attached = rec[j].attached
        /\ r.exited = rec[j].exited /\ r.ended = rec[j].ended
        /\ r.quit <=> rec[j].quit \/ Stops(j)
  BY JobIs, MarkedOK
<1>3. StartFits(j, r, m, remote[j])
  BY <1>1, <1>2, JobIs DEF Ending, Fits, StartFits, Unstarted
<1>4. DoomFits(j, r, m) /\ EndFits(r, m)
  BY <1>1, <1>2, JobIs DEF Stops, Fits, DoomFits, EndFits
<1> QED BY <1>1, <1>2, <1>3, <1>4, JobIs, StepKeeps DEF Fits, upVars, Typed, JobTypeOK

LEMMA TerminateKeeps ==
  ASSUME JobInv, NEW j \in Jobs, TerminateAndDetachJob(j) \/ CommandTerminate(j)
  PROVE  JobInv'
<1>1. /\ rec' = Marked(j)
      /\ UNCHANGED <<shows, closed, remote, closeNews, upVars, pruneVars>>
  BY DEF TerminateAndDetachJob, CommandTerminate
<1>2. CASE TerminateAndDetachJob(j)
  <2> DEFINE o == [mem[j] EXCEPT !.closing = "stop"]
             m == Stopping(j, o)
  <2>1. Ending(mem[j]) /\ mem' = [mem EXCEPT ![j] = m]
    BY <1>2 DEF TerminateAndDetachJob, Ending
  <2>2. o \in Memories /\ Same(o, [mem[j] EXCEPT !.closing = "stop"]) /\ o.closing = "stop"
        /\ o.stop = mem[j].stop /\ o.re = mem[j].re
    BY JobIs DEF Memories, Same
  <2> HIDE DEF o
  <2>3. /\ m \in Memories /\ Same(m, o) /\ m.re = o.re
        /\ m.stop.at # "no" => o.stop.at # "no" \/ Stops(j)
    BY <2>2, JobIs, StoppingOK
  <2> HIDE DEF m
  <2>4. Same(m, [mem[j] EXCEPT !.closing = m.closing])
    BY <2>2, <2>3 DEF Same
  <2>5. m \in Memories /\ m.re = mem[j].re /\ (m.stop.at # "no" => mem[j].stop.at # "no" \/ Stops(j))
    BY <2>2, <2>3
  <2> QED BY <1>1, <2>1, <2>4, <2>5, StoppingKeeps
<1>3. CASE CommandTerminate(j)
  <2> DEFINE m == Stopping(j, mem[j])
  <2>1. mem[j].start = "over" /\ mem' = [mem EXCEPT ![j] = m]
    BY <1>3 DEF CommandTerminate, Started
  <2>2. /\ m \in Memories /\ Same(m, mem[j]) /\ m.re = mem[j].re
        /\ m.stop.at # "no" => mem[j].stop.at # "no" \/ Stops(j)
    BY JobIs, StoppingOK
  <2> HIDE DEF m
  <2>3. Same(m, [mem[j] EXCEPT !.closing = m.closing]) /\ m.closing = mem[j].closing
    BY <2>2, JobIs DEF Memories, Same
  <2> QED BY <1>1, <2>1, <2>2, <2>3, StoppingKeeps
<1> QED BY <1>2, <1>3

LEMMA CloseKeeps == ASSUME JobInv, NEW b \in Blocks, CloseBlock(b) PROVE JobInv'
<1>1. /\ closed' = closed \cup {b} /\ closeNews' = closeNews \cup {b}
      /\ UNCHANGED <<rec, shows, remote, mem, upVars, pruneVars>>
  BY DEF CloseBlock
<1>2. Typed /\ LinksAgree
  BY DEF JobInv
<1>3. Typed'
  BY <1>1, <1>2 DEF Typed, JobTypeOK, upVars, pruneVars
<1>4. LinksAgree'
  BY <1>1, <1>2 DEF LinksAgree
<1>5. \A k \in Jobs : Fits(k, rec'[k], mem'[k], remote'[k])
  BY <1>1, JobIs
<1> QED BY <1>1, <1>3, <1>4, <1>5, LinkStepKeeps DEF upVars, pruneVars

LEMMA HandleCloseKeeps == ASSUME JobInv, NEW b \in Blocks, handleBlockCloseEvent(b) PROVE JobInv'
<1>1. /\ b \in closeNews /\ closeNews' = closeNews \ {b}
      /\ mem' = [j \in Jobs |-> IF Exists(j) /\ rec[j].attached = b
                                THEN [mem[j] EXCEPT !.closing = "due"] ELSE mem[j]]
      /\ UNCHANGED <<recVars, remote, upVars, pruneVars>>
  BY DEF handleBlockCloseEvent
<1>2. Typed /\ LinksAgree /\ b \in closed
  BY <1>1 DEF JobInv, Typed, JobTypeOK
<1>3. ASSUME NEW k \in Jobs
      PROVE  mem'[k] \in Memories /\ mem'[k].start = mem[k].start /\ Fits(k, rec[k], mem'[k], remote[k])
  <2>1. CASE Exists(k) /\ rec[k].attached = b
    <3>1. mem'[k] = [mem[k] EXCEPT !.closing = "due"]
      BY <1>1, <2>1
    <3>2. mem[k].start # "no" /\ (mem[k].start = "attach" => mem[k].block \in closed)
      BY <1>2, <2>1, JobIs, JobAssumption DEF Exists, Fits, StartFits
    <3> QED BY <3>1, <3>2, JobIs DEF Memories, Fits, StartFits, DoomFits, EndFits
  <2>2. CASE ~(Exists(k) /\ rec[k].attached = b)
    BY <1>1, <2>2, JobIs
  <2> QED BY <2>1, <2>2
<1>4. mem' \in [Jobs -> Memories]
  BY <1>1, <1>3
<1>5. Typed' /\ LinksAgree'
  BY <1>1, <1>2, <1>3, <1>4 DEF Typed, JobTypeOK, LinksAgree, recVars, upVars, pruneVars
<1>6. \A k \in Jobs : Fits(k, rec'[k], mem'[k], remote'[k])
  BY <1>1, <1>3 DEF recVars
<1> QED BY <1>1, <1>5, <1>6, LinkStepKeeps DEF recVars, upVars, pruneVars
-----------------------------------------------------------------------------
(* The connection, its handler and the pruner.                               *)

LEMMA FlapKeeps == ASSUME JobInv, Flap PROVE JobInv'
<1>1. PICK heard \in SUBSET Jobs :
        mem' = [j \in Jobs |-> [Unlinked(j, mem[j]) EXCEPT !.exits = IF j \in heard THEN @ ELSE 0]]
  BY DEF Flap
<1>2. /\ remote' = [j \in Jobs |-> [remote[j] EXCEPT !.link = @ /\ ~up,
                                                 !.stream = IF up THEN "none" ELSE @]]
      /\ UNCHANGED <<recVars, closeNews, upVars, pruneVars>>
  BY DEF Flap
<1>3. ASSUME NEW k \in Jobs
      PROVE  /\ mem'[k] \in Memories /\ mem'[k].start = mem[k].start
             /\ remote'[k] \in Managers /\ Fits(k, rec[k], mem'[k], remote'[k])
  <2> DEFINE u == Unlinked(k, mem[k])
             x == [remote[k] EXCEPT !.link = @ /\ ~up, !.stream = IF up THEN "none" ELSE @]
             m == [u EXCEPT !.exits = IF k \in heard THEN @ ELSE 0]
  <2>1. u \in Memories /\ Same(u, mem[k]) /\ u.stop = mem[k].stop /\ u.re = mem[k].re
    BY JobIs, UnlinkedOK
  <2>2. x \in Managers /\ x.state = remote[k].state
    BY JobIs DEF Managers
  <2>3. mem'[k] = m /\ remote'[k] = x
    BY <1>1, <1>2
  <2> HIDE DEF u, x
  <2>4. m \in Memories /\ Same(m, u) /\ m.stop = u.stop /\ m.re = u.re
    BY <2>1 DEF Memories, Same
  <2> HIDE DEF m
  <2>5. Calm(k, m, x)
    BY <2>1, <2>2, <2>4 DEF Calm, Same
  <2>6. Fits(k, rec[k], m, x) /\ m.start = mem[k].start
    BY <2>5, CalmFits DEF Calm
  <2> QED BY <2>2, <2>3, <2>4, <2>6
<1>4. mem' \in [Jobs -> Memories] /\ remote' \in [Jobs -> Managers]
  BY <1>1, <1>2, <1>3
<1>5. Typed' /\ LinksAgree'
  <2>1. Typed'
    BY <1>2, <1>4 DEF JobInv, Typed, JobTypeOK, recVars, upVars, pruneVars
  <2>2. \A k \in Jobs : mem'[k].start = mem[k].start
    BY <1>3
  <2> QED BY <1>2, <2>1, <2>2 DEF JobInv, LinksAgree, recVars
<1>6. \A k \in Jobs : Fits(k, rec'[k], mem'[k], remote'[k])
  BY <1>2, <1>3 DEF recVars
<1> QED BY <1>2, <1>5, <1>6, LinkStepKeeps DEF recVars, upVars, pruneVars

\* The jobs that run are listed, or crossed off the list: nothing else of them changes.
LEMMA ListKeeps ==
  ASSUME JobInv, UNCHANGED <<recVars, remote, mem, closeNews, pruneVars>>,
         todo' \subseteq todo \cup {j \in Jobs : Runs(j)}, visiting' \in Jobs \cup {None, Listing}
  PROVE  JobInv'
<1>1. Typed' /\ LinksAgree'
  BY DEF JobInv, Typed, JobTypeOK, LinksAgree, recVars, pruneVars
<1>2. ASSUME NEW k \in Jobs PROVE Fits(k, rec[k], mem[k], remote[k])'
  <2>1. Fits(k, rec[k], mem[k], remote[k]) /\ (k \in todo' => k \in todo \/ Runs(k))
    BY JobIs
  <2> QED BY <2>1 DEF Runs, Unstarted, Fits, StartFits, DoomFits, EndFits, recVars, pruneVars
<1> QED BY <1>1, <1>2 DEF JobInv

LEMMA PruneKeeps == ASSUME JobInv, pruneUnusedJobs PROVE JobInv'
<1>1. /\ \A j \in previous : mem[j].start # "remote"
      /\ doomed' = previous \cap Unused /\ previous' = Unused
      /\ UNCHANGED <<recVars, remote, mem, closeNews, upVars>>
  BY DEF pruneUnusedJobs, Condemned
<1>2. Typed' /\ LinksAgree'
  BY <1>1 DEF JobInv, Typed, JobTypeOK, LinksAgree, recVars, upVars, Unused
<1>3. ASSUME NEW k \in Jobs PROVE Fits(k, rec[k], mem[k], remote[k])'
  BY <1>1, JobIs DEF Unused, Fits, StartFits, DoomFits, EndFits, recVars, upVars
<1> QED BY <1>2, <1>3 DEF JobInv
-----------------------------------------------------------------------------
(* The whole.                                                                *)

LEMMA JobInitOK == JobInit => JobInv
<1> SUFFICES ASSUME JobInit PROVE JobInv
  OBVIOUS
<1> DEFINE b == CHOOSE any \in Blocks : TRUE
           shown == IF scene.runs = {} THEN None ELSE CHOOSE j \in scene.runs : TRUE
<1>1. b \in Blocks /\ scene.runs \subseteq Jobs
      /\ shown \in scene.runs \cup {None} /\ up \in BOOLEAN
  BY JobAssumption DEF JobInit
<1>2. /\ shows = [any \in Blocks |-> IF any = b THEN shown ELSE None]
      /\ rec = [j \in Jobs |->
           IF j \notin scene.runs THEN NoRecord
           ELSE [NoRecord EXCEPT !.status = "running", !.pid = TRUE,
                                 !.attached = IF j = shown THEN b ELSE None]]
      /\ remote = [j \in Jobs |->
           IF j \notin scene.runs THEN NoManager
           ELSE [NoManager EXCEPT !.state = "runs", !.link = up,
                                  !.stream = IF up THEN "read" ELSE "none"]]
      /\ mem = [j \in Jobs |->
           IF j \notin scene.runs THEN NoMemory
           ELSE [NoMemory EXCEPT !.start = "over", !.connected = up]]
      /\ closed = {} /\ closeNews = {} /\ todo = {} /\ visiting = None /\ previous = {}
      /\ doomed = {}
  BY DEF JobInit
<1> HIDE DEF b, shown
<1>3. /\ NoRecord \in Records /\ NoMemory \in Memories /\ NoManager \in Managers
      /\ NoRecord.status = "none" /\ NoRecord.attached = None /\ ~NoRecord.ended
      /\ ~NoRecord.exited
      /\ NoMemory.start = "no" /\ NoMemory.stop.at = "no" /\ NoMemory.re.at = "no"
      /\ NoMemory.closing = "no" /\ ~NoMemory.auto /\ ~NoMemory.atEof
      /\ NoManager.state = "none"
  BY DEF NoRecord, NoMemory, NoManager, NoCall, Records, Memories, Managers, Calls
<1>4. ASSUME NEW j \in Jobs
      PROVE  /\ rec[j] \in Records /\ mem[j] \in Memories /\ remote[j] \in Managers
             /\ rec[j].attached = IF j \in scene.runs /\ j = shown THEN b ELSE None
             /\ mem[j].start # "attach"
             /\ Fits(j, rec[j], mem[j], remote[j])
  <2>1. CASE j \notin scene.runs
    <3>1. rec[j] = NoRecord /\ mem[j] = NoMemory /\ remote[j] = NoManager
      BY <1>2, <2>1
    <3> QED BY <1>2, <1>3, <2>1, <3>1 DEF Fits, StartFits, DoomFits, EndFits, Ending
  <2>2. CASE j \in scene.runs
    <3>1. /\ rec[j] = [NoRecord EXCEPT !.status = "running", !.pid = TRUE,
                                       !.attached = IF j = shown THEN b ELSE None]
          /\ mem[j] = [NoMemory EXCEPT !.start = "over", !.connected = up]
          /\ remote[j] = [NoManager EXCEPT !.state = "runs", !.link = up,
                                            !.stream = IF up THEN "read" ELSE "none"]
      BY <1>2, <2>2
    <3>2. /\ rec[j] \in Records /\ rec[j].status = "running" /\ ~rec[j].ended
          /\ rec[j].attached = IF j = shown THEN b ELSE None
      BY <1>1, <1>3, <3>1 DEF Records
    <3>3. /\ mem[j] \in Memories /\ mem[j].start = "over" /\ mem[j].stop.at = "no"
          /\ remote[j] \in Managers
      BY <1>1, <1>3, <3>1 DEF Memories, Managers
    <3> QED BY <1>2, <2>2, <3>2, <3>3 DEF Unstarted, Fits, StartFits, DoomFits, EndFits
  <2> QED BY <2>1, <2>2
<1>5. rec \in [Jobs -> Records] /\ mem \in [Jobs -> Memories] /\ remote \in [Jobs -> Managers]
  BY <1>2, <1>4
<1>6. Typed
  BY <1>1, <1>2, <1>5 DEF Typed, JobTypeOK, Records
<1>7. LinksAgree
  BY <1>1, <1>2, <1>4, JobAssumption DEF LinksAgree
<1> QED BY <1>4, <1>6, <1>7 DEF JobInv

\* What ConnReconcile's events, worker and handlers do besides is about the list at most.
LEMMA ReconcileSteps ==
  ASSUME JobInv, \/ Reconciling \/ OutOfTime \/ UNCHANGED allVars
                 \/ \E c \in Conns, state \in BOOLEAN : Panicked(c, state)
                 \/ \E j \in Jobs : Reconnected(j)
  PROVE  JobInv'
<1>1. /\ UNCHANGED <<recVars, remote, mem, closeNews, pruneVars>>
      /\ todo' \subseteq todo \cup {j \in Jobs : Runs(j)} /\ visiting' \in Jobs \cup {None, Listing}
  <2>1. todo \subseteq Jobs /\ visiting \in Jobs \cup {None, Listing}
    BY DEF JobInv, Typed, JobTypeOK
  <2>2. CASE Reconciling
    BY <2>1, <2>2 DEF Reconciling, ScanJobs, ListJobs, Reconciled, jobVars, upVars
  <2>3. CASE OutOfTime \/ \E j \in Jobs : Reconnected(j)
    BY <2>1, <2>3 DEF OutOfTime, Reconnected
  <2>4. CASE UNCHANGED allVars
    BY <2>1, <2>4 DEF allVars, jobVars, upVars
  <2>5. CASE \E c \in Conns, state \in BOOLEAN : Panicked(c, state)
    BY <2>1, <2>5 DEF Panicked, upVars
  <2> QED BY <2>2, <2>3, <2>4, <2>5
<1> QED BY <1>1, ListKeeps

LEMMA JobStepKeeps == JobInv /\ [JobNext]_allVars => JobInv'
<1> SUFFICES ASSUME JobInv, [JobNext]_allVars PROVE JobInv'
  OBVIOUS
<1>1. CASE Flap \/ pruneUnusedJobs
  BY <1>1, FlapKeeps, PruneKeeps
<1>2. CASE \/ Reconciling \/ OutOfTime \/ UNCHANGED allVars
           \/ \E c \in Conns, state \in BOOLEAN : Panicked(c, state)
           \/ \E j \in Jobs : Reconnected(j)
  BY <1>2, ReconcileSteps
<1>3. CASE Commands
  BY <1>3, CloseKeeps, CommandAttachKeeps, StopKeeps, TerminateKeeps, ReconnectBegins,
     RouteGoes, DetachKeeps DEF Commands
<1>4. ASSUME NEW b \in Blocks, handleBlockCloseEvent(b) \/ \E j \in Jobs : InsertJob(j, b)
      PROVE  JobInv'
  BY <1>4, HandleCloseKeeps, InsertKeeps
<1>5. ASSUME NEW j \in Jobs, Starting(j) \/ RemoteStartJob(j) PROVE JobInv'
  BY <1>5, AttachKeeps, StartSucceedsKeeps, StartFailsKeeps, ReconnectStartedKeeps,
     RemoteStartKeeps DEF Starting
<1>6. ASSUME NEW j \in Jobs, \/ CommandExits(j) \/ OutputEnds(j) \/ RecvAck(j)
                             \/ handleRouteUpEvent(j) \/ handleRouteDownEvent(j)
                             \/ ManagerDies(j)
      PROVE  JobInv'
  BY <1>6, OutputKeeps, RouteGoes
<1>7. ASSUME NEW j \in Jobs, \/ HandleCmdJobExited(j) \/ OutputLoopEnds(j)
                             \/ tryTerminateJobManager(j) \/ Stopped(j)
      PROVE  JobInv'
  BY <1>7, ExitKeeps, OutputLoopKeeps, TryTerminateKeeps, RemoteTerminateKeeps,
     MarkTerminatedKeeps DEF Stopped
<1>8. ASSUME NEW j \in Jobs, Reconnection(j) \/ attemptAutoReconnect(j) \/ ReconnectNext(j)
      PROVE  JobInv'
  BY <1>8, ReconnectionKeeps, NoteExitKeeps, NoteEndKeeps, MarkGoneKeeps, ReconnectBegins
     DEF Reconnection
<1>9. ASSUME NEW j \in Jobs, Closing(j) \/ DeleteJob(j) PROVE JobInv'
  BY <1>9, TerminateKeeps, DetachKeeps, DeleteKeeps DEF Closing
<1> QED BY <1>1, <1>2, <1>3, <1>4, <1>5, <1>6, <1>7, <1>8, <1>9 DEF JobNext

\* JobSpec keeps the types, the links and, for each job, what its record, the server's memory
\* of it and its manager have to do with each other.
THEOREM JobInvariant == JobSpec => []JobInv
  BY JobInitOK, JobStepKeeps, PTL DEF JobSpec

(* A block and the job it shows name each other, LinksAgree: through starts,  *)
(* closes, commands that attach and detach, and the pruner.                   *)
THEOREM LinksAlwaysAgree == JobSpec => []LinksAgree
<1>1. JobInv => LinksAgree
  BY DEF JobInv
<1> QED BY JobInvariant, <1>1, PTL

(* An exit and an end that are both noted are seen to, EndIsNoticed, in       *)
(* whichever order and by whomever they were noted.                           *)
THEOREM EndsAreNoticed == JobSpec => []EndIsNoticed
<1>1. JobInv => EndIsNoticed
  BY DEF JobInv, Fits, EndFits, EndIsNoticed, Due, Runs
<1> QED BY JobInvariant, <1>1, PTL
-----------------------------------------------------------------------------
(* Only a record that is over is deleted.                                    *)

\* A record that is updated is not deleted by it, unless it was.
LEMMA UpdatedIsKept ==
  ASSUME JobInv, NEW j \in Jobs, NEW d \in Records, Update(j, d), d.status # "deleted",
         NEW k \in Jobs, rec'[k].status = "deleted"
  PROVE  rec[k].status = "deleted"
  BY JobIs DEF Update, Typed, JobTypeOK

\* Nothing but DeleteJob deletes a record.
LEMMA OthersDelete ==
  ASSUME JobInv, JobNext, \A j \in Jobs : ~DeleteJob(j),
         NEW k \in Jobs, rec'[k].status = "deleted"
  PROVE  rec[k].status = "deleted"
<1> USE DEF recVars, jobVars
<1>1. CASE rec' = rec
  BY <1>1
<1>2. ASSUME NEW j \in Jobs, StartSucceeds(j) PROVE rec[k].status = "deleted"
  <2> DEFINE d == [rec[j] EXCEPT !.status = "running", !.pid = TRUE]
  <2>1. d \in Records /\ d.status # "deleted" /\ Update(j, d)
    BY <1>2, JobIs DEF StartSucceeds, Records
  <2> HIDE DEF d
  <2> QED BY <2>1, UpdatedIsKept
<1>3. ASSUME NEW j \in Jobs, StartFails(j) \/ MarkGone(j) PROVE rec[k].status = "deleted"
  <2> DEFINE d == [rec[j] EXCEPT !.status = "done"]
  <2>1. d \in Records /\ d.status # "deleted" /\ Update(j, d)
    BY <1>3, JobIs DEF StartFails, MarkGone, Records
  <2> HIDE DEF d
  <2> QED BY <2>1, UpdatedIsKept
<1>4. ASSUME NEW j \in Jobs, NEW who \in {"stop", "re"}, MarkTerminated(j, who)
      PROVE  rec[k].status = "deleted"
  <2> DEFINE d == [rec[j] EXCEPT !.status = "done", !.quit = FALSE, !.ended = TRUE]
  <2>1. d \in Records /\ d.status # "deleted" /\ Update(j, d)
    BY <1>4, JobIs DEF MarkTerminated, Records
  <2> HIDE DEF d
  <2> QED BY <2>1, UpdatedIsKept
<1>5. ASSUME NEW j \in Jobs, \/ HandleCmdJobExited(j) \/ OutputLoopEnds(j)
                             \/ NoteExit(j) \/ NoteEnd(j)
      PROVE  rec[k].status = "deleted"
  <2>1. \A r \in {[rec[j] EXCEPT !.exited = TRUE], [rec[j] EXCEPT !.ended = TRUE]} :
          r \in Records /\ r.status = rec[j].status
    BY JobIs DEF Records
  <2>2. \/ rec' = rec
        \/ Update(j, [rec[j] EXCEPT !.exited = TRUE])
        \/ Update(j, [rec[j] EXCEPT !.ended = TRUE])
    BY <1>5 DEF HandleCmdJobExited, OutputLoopEnds, NoteExit, NoteEnd, Noted
  <2> QED BY <2>1, <2>2, JobIs DEF Update, Typed, JobTypeOK
<1>6. ASSUME NEW j \in Jobs, rec' = Marked(j) PROVE rec[k].status = "deleted"
  BY <1>6, JobIs, MarkedOK DEF Typed, JobTypeOK
<1>7. ASSUME NEW j \in Jobs, NEW b \in Blocks, InsertJob(j, b) PROVE rec[k].status = "deleted"
  <2>1. rec' = [rec EXCEPT ![j] = [@ EXCEPT !.status = "init", !.attached = b]]
    BY <1>7 DEF InsertJob
  <2>2. [rec[j] EXCEPT !.status = "init", !.attached = b].status = "init"
    BY JobIs DEF Records
  <2> QED BY <2>1, <2>2, JobIs DEF Typed, JobTypeOK
<1>8. ASSUME NEW j \in Jobs, NEW b \in Blocks, CanAttach(j, b), AttachJobToBlock(j, b)
      PROVE  rec[k].status = "deleted"
  BY <1>8, AttachOK DEF SameJob
<1>9. ASSUME NEW j \in Jobs, DetachJobFromBlock(j) PROVE rec[k].status = "deleted"
  <2>1. rec' = rec \/ rec' = [rec EXCEPT ![j] = [@ EXCEPT !.attached = None]]
    BY <1>9 DEF DetachJobFromBlock
  <2> QED BY <2>1, JobIs DEF Typed, JobTypeOK, Records
<1>10. CASE Commands
  BY <1>1, <1>6, <1>8, <1>9, <1>10
     DEF Commands, CloseBlock, CommandAttach, StopController, CommandTerminate,
         CommandReconnect, CommandDisconnect, CommandDetach
<1>11. ASSUME NEW j \in Jobs, Starting(j) PROVE rec[k].status = "deleted"
  <2>1. CASE AttachJob(j)
    <3>1. mem[j].start = "attach" => mem[j].block \in Blocks
      BY JobIs DEF Fits, StartFits
    <3> QED BY <1>1, <1>8, <2>1, <3>1 DEF AttachJob
  <2> QED BY <1>1, <1>2, <1>3, <1>11, <2>1 DEF Starting, ReconnectStarted
<1>12. ASSUME NEW j \in Jobs, \/ tryTerminateJobManager(j) \/ Stopped(j) \/ Closing(j)
       PROVE  rec[k].status = "deleted"
  BY <1>1, <1>4, <1>6, <1>9, <1>12
     DEF tryTerminateJobManager, Stopped, RemoteTerminate, RemoteTerminateFails, Closing,
         TerminateAndDetachJob, DetachTerminated
<1>13. ASSUME NEW j \in Jobs, Reconnection(j) PROVE rec[k].status = "deleted"
  BY <1>1, <1>3, <1>5, <1>13
     DEF Reconnection, AskRemote, WaitForRegister, PrepareConnect, PrepareFails, StartStream,
         ReconnectFails, GivesUp
<1>14. CASE \/ Flap \/ Reconciling \/ OutOfTime \/ pruneUnusedJobs
            \/ \E c \in Conns, state \in BOOLEAN : Panicked(c, state)
            \/ \E b \in Blocks : handleBlockCloseEvent(b)
  BY <1>1, <1>14 DEF Flap, Reconciling, ScanJobs, ListJobs, Reconciled, OutOfTime, pruneUnusedJobs,
                     Panicked, handleBlockCloseEvent
<1>15. ASSUME NEW j \in Jobs, \/ RemoteStartJob(j) \/ CommandExits(j) \/ OutputEnds(j)
                              \/ RecvAck(j) \/ ManagerDies(j) \/ handleRouteUpEvent(j)
                              \/ handleRouteDownEvent(j) \/ attemptAutoReconnect(j)
                              \/ ReconnectNext(j) \/ Reconnected(j)
       PROVE  rec[k].status = "deleted"
  BY <1>1, <1>15 DEF RemoteStartJob, CommandExits, OutputEnds, RecvAck, ManagerDies, handleRouteUpEvent,
                     handleRouteDownEvent, attemptAutoReconnect, ReconnectNext, Reconnected
<1> QED BY <1>5, <1>7, <1>10, <1>11, <1>12, <1>13, <1>14, <1>15 DEF JobNext

(* Only the record of a job that is over is deleted, RunningIsKept: not that  *)
(* of one that StartJob is about to make run, for the pruner looks twice.     *)
THEOREM RunningIsNotDeleted == JobSpec => RunningIsKept
<1> DEFINE A == \A j \in Jobs : rec[j].status # "deleted" /\ rec'[j].status = "deleted"
                                 => rec[j].status = "done" /\ rec[j].attached = None
<1>1. JobInv /\ [JobNext]_allVars => [A]_allVars
  <2> SUFFICES ASSUME JobInv, JobNext, NEW k \in Jobs,
                      rec[k].status # "deleted", rec'[k].status = "deleted"
               PROVE  rec[k].status = "done" /\ rec[k].attached = None
    OBVIOUS
  <2>1. PICK j \in Jobs : DeleteJob(j)
    BY OthersDelete
  <2>2. rec[j].status = "done" /\ rec[j].attached = None
    BY <2>1, JobIs DEF DeleteJob, Fits, DoomFits
  <2>3. k = j
    BY <2>1, JobIs DEF DeleteJob, Typed, JobTypeOK
  <2> QED BY <2>2, <2>3
<1> QED BY JobInvariant, <1>1, PTL DEF JobSpec, RunningIsKept
-----------------------------------------------------------------------------
(* Every step of the jobs is one of ConnReconcile, or none: whatever they do, *)
(* no connection is forgotten that changed, NeverForgotten.                   *)
THEOREM JobsForgetNoConn == JobSpec => []NeverForgotten
<1>1. JobInit => Inv
  <2> SUFFICES ASSUME JobInit PROVE Inv
    OBVIOUS
  <2>1. EventsTyped /\ FlagsTyped /\ handling \in [Conns -> SUBSET BOOLEAN]
    <3>1. events = {} /\ nudging = {} /\ published = 0 /\ panics = 0 /\ token = FALSE
          /\ worker = "receiving" /\ handling = [c \in Conns |-> {}]
      BY DEF JobInit
    <3>2. /\ known \subseteq Conns /\ actual = [c \in Conns |-> c \in known] /\ processed = actual
          /\ reconciling = [c \in Conns |-> FALSE]
      BY DEF JobInit
    <3>3. [c \in Conns |-> c \in known] \in [Conns -> BOOLEAN]
      OBVIOUS
    <3>4. EventsTyped
      BY <3>1 DEF EventsTyped
    <3>5. FlagsTyped
      BY <3>2, <3>3, Zenon DEF FlagsTyped
    <3> QED BY <3>1, <3>4, <3>5
  <2>2. HandlersOK
    BY DEF JobInit, HandlersOK
  <2> QED BY <2>1, <2>2 DEF JobInit, Inv, TypeOK, NeverForgotten, Behind
<1>2. [JobNext]_allVars => [Next]_vars
  <2> SUFFICES ASSUME JobNext, vars' # vars PROVE Next
    BY DEF allVars
  <2>1. CASE Flap
    BY <2>1, JobAssumption DEF Flap, Next
  <2>2. CASE Reconciling
    BY <2>2 DEF Reconciling, ScanJobs, ListJobs, Reconciled, Next, Worker, Handled
  <2>3. CASE \E c \in Conns, state \in BOOLEAN : Panicked(c, state)
    BY <2>3 DEF Panicked, Next
  <2>4. CASE Commands \/ OutOfTime \/ pruneUnusedJobs
             \/ \E b \in Blocks : handleBlockCloseEvent(b) \/ \E j \in Jobs : InsertJob(j, b)
    BY <2>4 DEF Commands, CloseBlock, CommandAttach, StopController, CommandTerminate,
                CommandReconnect, CommandDisconnect, CommandDetach, OutOfTime,
                pruneUnusedJobs, handleBlockCloseEvent, InsertJob
  <2>5. ASSUME NEW j \in Jobs, \/ Starting(j) \/ RemoteStartJob(j) \/ CommandExits(j)
                               \/ OutputEnds(j) \/ RecvAck(j) \/ HandleCmdJobExited(j)
                               \/ OutputLoopEnds(j)
                               \/ tryTerminateJobManager(j) \/ Stopped(j) \/ Closing(j)
        PROVE  FALSE
    BY <2>5 DEF Starting, AttachJob, StartSucceeds, StartFails, ReconnectStarted,
                RemoteStartJob, CommandExits, OutputEnds, RecvAck, HandleCmdJobExited, OutputLoopEnds,
                tryTerminateJobManager, Stopped, RemoteTerminate, RemoteTerminateFails,
                MarkTerminated, Closing, TerminateAndDetachJob, DetachTerminated
  <2>6. ASSUME NEW j \in Jobs, \/ Reconnection(j) \/ ManagerDies(j) \/ handleRouteUpEvent(j)
                               \/ handleRouteDownEvent(j) \/ attemptAutoReconnect(j)
                               \/ ReconnectNext(j) \/ Reconnected(j) \/ DeleteJob(j)
        PROVE  FALSE
    BY <2>6 DEF Reconnection, AskRemote, MarkGone, WaitForRegister, PrepareConnect,
                PrepareFails, NoteExit, NoteEnd, StartStream, ReconnectFails, GivesUp,
                ManagerDies, handleRouteUpEvent, handleRouteDownEvent, attemptAutoReconnect,
                ReconnectNext, Reconnected, DeleteJob
  <2> QED BY <2>1, <2>2, <2>3, <2>4, <2>5, <2>6 DEF JobNext
<1>3. Inv /\ [Next]_vars => Inv'
  BY ScanKeeps, FinishKeeps, PanicKeeps, HandleEventKeeps, OthersKeep
     DEF Next, Worker, Handled
<1>4. Inv => NeverForgotten
  BY DEF Inv
<1> QED BY <1>1, <1>2, <1>3, <1>4, PTL DEF JobSpec
=============================================================================
