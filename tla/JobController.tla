---------------------------- MODULE JobController ----------------------------
(* The jobs of the job controller (pkg/jobcontroller/jobcontroller.go): their *)
(* records in the database and the blocks that show them; the goroutines that *)
(* start a job, note its exit and the end of its output, terminate it,        *)
(* reconnect to it and prune its record; and, from ConnReconcile, what        *)
(* follows the status of their connection. What is streamed is DurableStream. *)
EXTENDS ConnReconcile

CONSTANTS
  Home,               \* the connection of the jobs
  Jobs, Blocks, None,
  Scenes              \* bound: the jobs, changes of the connection and deaths there may be

ASSUME JobAssumption ==
  /\ Home \in Conns /\ None \notin Jobs \cup Blocks /\ Blocks # {}
  /\ Scenes \subseteq [runs : SUBSET Jobs, up : BOOLEAN, jobs : SUBSET Jobs, flaps : 0 .. MaxEvents,
                       deaths : Nat, commands : Nat, rounds : Nat, ends : BOOLEAN]

VARIABLES
  scene,              \* chosen once; what is left of its bounds
  up,                 \* the connection is connected
  rec,                \* the records of the jobs
  shows, closed,      \* JobId of each block; the blocks that are deleted
  remote,             \* the job managers, and the routes to them
  mem,                \* what the server has in memory of each job, and its goroutines for it
  closeNews,          \* closed blocks whose event is not yet handled
  todo, visiting,     \* onConnectionUp: the jobs to reconnect; the one it waits for
  previous, doomed    \* the pruner's candidates, and the jobs it is deleting

recVars   == <<rec, shows, closed>>
upVars    == <<todo, visiting>>
pruneVars == <<previous, doomed>>
jobVars   == <<scene, up, recVars, remote, mem, closeNews, upVars, pruneVars>>
allVars   == <<vars, jobVars>>

\* A record of the database: JobManagerStatus, with "none" before it is inserted and "deleted"
\* at last; AttachedBlockId; JobManagerPid is set; CmdExitTs is set; StreamDone;
\* TerminateOnReconnect.
NoRecord == [status |-> "none", attached |-> None, pid |-> FALSE, exited |-> FALSE,
             ended |-> FALSE, quit |-> FALSE]

\* The manager runs, its command has exited, or it is gone; its output has not ended, or it has
\* and the manager knows that it was read; there is a route to it; its stream is read here, or
\* was to the end, whose acknowledgement is on its way.
NoManager == [state |-> "none", told |-> FALSE, link |-> FALSE, stream |-> "none"]

\* A call to the remote, with the record's pid, and what PrepareConnect returned.
NoCall == [at |-> "no", pid |-> FALSE, exited |-> FALSE, ended |-> FALSE]

NoMemory ==
  [connected |-> FALSE,                 \* jobConnStates
   ups |-> 0, downs |-> 0,              \* route events not yet handled
   exits |-> 0,                         \* JobCmdExited not yet handled
   atEof |-> FALSE,                     \* the reader of the present output loop is at its end
   start |-> "no", block |-> None,      \* StartJob: "attach", "remote", "reconnect" or "over"
   check |-> FALSE,                     \* tryTerminateJobManager is on its way
   stop |-> NoCall,                     \* TerminateJobManager, one at a time
   closing |-> "no",                    \* TerminateAndDetachJob: "due", then "stop"
   re |-> NoCall,                       \* ReconnectJob, one at a time
   auto |-> FALSE, cooling |-> FALSE,   \* attemptAutoReconnect is to come; has been, not long ago
   late |-> FALSE]                      \* history: see EndIsNoticed

Exists(j) == rec[j].status \notin {"none", "deleted"}
Runs(j) == rec[j].status = "running"

\* The connection is there, and was handled, or the server has just started. Jobs may run: a block
\* shows one of them, and the others were detached.
JobInit ==
  /\ scene \in Scenes /\ up = scene.up
  /\ events = {} /\ published = 0 /\ nudging = {} /\ token = FALSE /\ worker = "receiving"
  /\ known = {c \in Conns : up /\ c = Home} /\ actual = [c \in Conns |-> c \in known] /\ processed = actual
  /\ reconciling = [c \in Conns |-> FALSE] /\ handling = [c \in Conns |-> {}] /\ panics = 0
  /\ closed = {}
  /\ LET b == CHOOSE any \in Blocks : TRUE
         shown == IF scene.runs = {} THEN None ELSE CHOOSE j \in scene.runs : TRUE
     IN  /\ shows = [any \in Blocks |-> IF any = b THEN shown ELSE None]
         /\ rec = [j \in Jobs |->
              IF j \notin scene.runs THEN NoRecord
              ELSE [NoRecord EXCEPT !.status = "running", !.pid = TRUE,
                                    !.attached = IF j = shown THEN b ELSE None]]
  /\ remote = [j \in Jobs |->
       IF j \notin scene.runs THEN NoManager
       ELSE [NoManager EXCEPT !.state = "runs", !.link = up,
                              !.stream = IF up THEN "read" ELSE "none"]]
  /\ mem = [j \in Jobs |->
       IF j \notin scene.runs THEN NoMemory ELSE [NoMemory EXCEPT !.start = "over", !.connected = up]]
  /\ closeNews = {} /\ todo = {} /\ visiting = None /\ previous = {} /\ doomed = {}
-----------------------------------------------------------------------------
(* The database: every change is a transaction, and none of a missing record. *)

Update(j, r) == rec' = IF Exists(j) THEN [rec EXCEPT ![j] = r] ELSE rec

OldDetached_Kept(b) == rec
OldDetached(b) ==
  IF shows[b] # None /\ rec[shows[b]].attached = b
  THEN [rec EXCEPT ![shows[b]].attached = None] ELSE rec

CanAttach(j, b) == b \notin closed /\ Exists(j) /\ rec[j].attached \in {None, b}

AttachJobToBlock(j, b) ==
  /\ shows' = [shows EXCEPT ![b] = j]
  /\ rec' = [OldDetached(b) EXCEPT ![j].attached = b]

DetachJobFromBlock(j) ==
  LET b == rec[j].attached
  IN  IF ~Exists(j) \/ b = None THEN UNCHANGED <<rec, shows>>
      ELSE /\ rec' = [rec EXCEPT ![j].attached = None]
           /\ shows' = [shows EXCEPT ![b] = IF b \in closed THEN @ ELSE None]
-----------------------------------------------------------------------------
(* TerminateJobManager and ReconnectJob begin: what becomes of mem[j] = m, and *)
(* of the record. A call that finds another of its kind waits for that one.   *)

Stops(j) == mem[j].stop.at = "no" /\ rec[j].status \in {"init", "running"}
Marked(j) == IF Stops(j) THEN [rec EXCEPT ![j].quit = TRUE] ELSE rec
Stopping(j, m) ==
  IF Stops(j) THEN [m EXCEPT !.stop = [NoCall EXCEPT !.at = "call", !.pid = rec[j].pid]] ELSE m

Reconnects(j) == up /\ mem[j].re.at = "no" /\ Exists(j) /\ ~mem[j].connected

Reconnecting(j, m) ==
  IF ~Reconnects(j) \/ (rec[j].quit /\ rec[j].status = "done") THEN m
  ELSE [m EXCEPT !.re = [NoCall EXCEPT !.at = IF rec[j].quit THEN "call" ELSE "ask",
                                       !.pid = rec[j].pid]]

\* remoteTerminateJobManager, by who: the stop itself, or a reconnection. The
\* call signals the process with the recorded pid, and its answer may be lost.
Gone(m) == [m EXCEPT !.state = "gone", !.link = FALSE, !.stream = "none"]
Unlinked(j, m) == IF remote[j].link THEN [m EXCEPT !.downs = @ + 1] ELSE m
Alive(j) == remote[j].state \in {"runs", "exited"}

RemoteTerminate(j, who) ==
  /\ mem[j][who].at = "call" /\ up
  /\ \E call \in {[NoCall EXCEPT !.at = "mark"], NoCall} :
       IF mem[j][who].pid /\ Alive(j)
       THEN /\ remote' = [remote EXCEPT ![j] = Gone(@)]
            /\ mem' = [mem EXCEPT ![j] = [Unlinked(j, @) EXCEPT ![who] = call]]
       ELSE mem' = [mem EXCEPT ![j][who] = call] /\ UNCHANGED remote
  /\ UNCHANGED <<vars, scene, up, recVars, closeNews, upVars, pruneVars>>

RemoteTerminateFails(j, who) ==
  /\ mem[j][who].at = "call" /\ ~up /\ mem' = [mem EXCEPT ![j][who] = NoCall]
  /\ UNCHANGED <<vars, scene, up, recVars, remote, closeNews, upVars, pruneVars>>

MarkTerminated(j, who) ==
  /\ mem[j][who].at = "mark" /\ mem' = [mem EXCEPT ![j][who] = NoCall]
  /\ Update(j, [rec[j] EXCEPT !.status = "done", !.quit = FALSE, !.ended = TRUE])
  /\ UNCHANGED <<vars, scene, up, shows, closed, remote, closeNews, upVars, pruneVars>>

\* tryTerminateJobManager: the record is read, and read again by the call.
Due(j) == Runs(j) /\ rec[j].exited /\ rec[j].ended

tryTerminateJobManager(j) ==
  /\ mem[j].check
  /\ LET m == [mem[j] EXCEPT !.check = FALSE]
     IN  IF Due(j) THEN rec' = Marked(j) /\ mem' = [mem EXCEPT ![j] = Stopping(j, m)]
         ELSE mem' = [mem EXCEPT ![j] = m] /\ UNCHANGED rec
  /\ UNCHANGED <<vars, scene, up, shows, closed, remote, closeNews, upVars, pruneVars>>
-----------------------------------------------------------------------------
(* StartJob, from the controller of a block, and the reconnection it ends in. *)

InsertJob(j, b) ==
  /\ j \in scene.jobs /\ rec[j].status = "none" /\ up /\ b \notin closed
  /\ shows[b] \notin {k \in Jobs : Runs(k)}
  /\ rec' = [rec EXCEPT ![j].status = "init", ![j].attached = b]
  /\ mem' = [mem EXCEPT ![j].start = "attach", ![j].block = b]
  /\ UNCHANGED <<vars, scene, up, shows, closed, remote, closeNews, upVars, pruneVars>>

\* When the block is closed StartJob returns, and leaves the record.
AttachJob(j) ==
  /\ mem[j].start = "attach"
  /\ IF CanAttach(j, mem[j].block)
     THEN AttachJobToBlock(j, mem[j].block) /\ mem' = [mem EXCEPT ![j].start = "remote"]
     ELSE mem' = [mem EXCEPT ![j].start = "over"] /\ UNCHANGED <<rec, shows>>
  /\ UNCHANGED <<vars, scene, up, closed, remote, closeNews, upVars, pruneVars>>

RemoteStartJob(j) ==
  /\ mem[j].start = "remote" /\ remote[j].state = "none" /\ up
  /\ remote' = [remote EXCEPT ![j] = [@ EXCEPT !.state = "runs", !.link = TRUE, !.stream = "read"]]
  /\ mem' = [mem EXCEPT ![j].ups = @ + 1]
  /\ UNCHANGED <<vars, scene, up, recVars, closeNews, upVars, pruneVars>>

StartSucceeds(j) ==
  /\ mem[j].start = "remote" /\ remote[j].state # "none" /\ up
  /\ Update(j, [rec[j] EXCEPT !.status = "running", !.pid = TRUE])
  /\ mem' = [mem EXCEPT ![j].start = "reconnect", ![j].late = @ \/ rec[j].status = "done"]
  /\ UNCHANGED <<vars, scene, up, shows, closed, remote, closeNews, upVars, pruneVars>>

StartFails(j) ==
  /\ mem[j].start = "remote"
  /\ Update(j, [rec[j] EXCEPT !.status = "done"])
  /\ mem' = [mem EXCEPT ![j].start = "over", ![j].atEof = FALSE]
  /\ remote' = [remote EXCEPT ![j].stream = IF @ = "read" THEN "none" ELSE @]
  /\ UNCHANGED <<vars, scene, up, shows, closed, closeNews, upVars, pruneVars>>

ReconnectStarted(j) ==
  /\ mem[j].start = "reconnect"
  /\ mem' = [mem EXCEPT ![j] = Reconnecting(j, [@ EXCEPT !.start = "over"])]
  /\ UNCHANGED <<vars, scene, up, recVars, remote, closeNews, upVars, pruneVars>>
-----------------------------------------------------------------------------
(* The command ends, and so does its output, one before the other.            *)

CommandExits(j) ==
  /\ remote[j].state = "runs" /\ scene.ends
  /\ remote' = [remote EXCEPT ![j].state = "exited"]
  /\ mem' = IF remote[j].link THEN [mem EXCEPT ![j].exits = @ + 1] ELSE mem
  /\ UNCHANGED <<vars, scene, up, recVars, closeNews, upVars, pruneVars>>

\* The reader takes the last packet, and acknowledges it; only then the manager knows, unless
\* the acknowledgement is lost with the route, or comes when there is another stream.
OutputEnds(j) ==
  /\ Alive(j) /\ remote[j].stream = "read" /\ scene.ends
  /\ remote' = [remote EXCEPT ![j].stream = "acked"]
  /\ mem' = [mem EXCEPT ![j].atEof = TRUE]
  /\ UNCHANGED <<vars, scene, up, recVars, closeNews, upVars, pruneVars>>

RecvAck(j) ==
  /\ Alive(j) /\ remote[j].stream = "acked"
  /\ remote' = [remote EXCEPT ![j].stream = "none", ![j].told = TRUE]
  /\ UNCHANGED <<vars, scene, up, recVars, mem, closeNews, upVars, pruneVars>>

\* HandleCmdJobExited and the end of runOutputLoop: what is written, then the check. What
\* the caller does after the check it may do before it here.
Noted(j, r, m) == Update(j, r) /\ mem' = [mem EXCEPT ![j] = [m EXCEPT !.check = TRUE]]

HandleCmdJobExited(j) ==
  /\ mem[j].exits > 0
  /\ Noted(j, [rec[j] EXCEPT !.exited = TRUE], [mem[j] EXCEPT !.exits = @ - 1])
  /\ UNCHANGED <<vars, scene, up, shows, closed, remote, closeNews, upVars, pruneVars>>

OutputLoopEnds_Quietly(j) ==
  /\ mem[j].atEof /\ mem[j].start # "remote"
  /\ Update(j, [rec[j] EXCEPT !.ended = TRUE]) /\ mem' = [mem EXCEPT ![j].atEof = FALSE]
  /\ UNCHANGED <<vars, scene, up, shows, closed, remote, closeNews, upVars, pruneVars>>
OutputLoopEnds(j) ==
  /\ mem[j].atEof /\ mem[j].start # "remote"
  /\ Noted(j, [rec[j] EXCEPT !.ended = TRUE], [mem[j] EXCEPT !.atEof = FALSE])
  /\ UNCHANGED <<vars, scene, up, shows, closed, remote, closeNews, upVars, pruneVars>>
-----------------------------------------------------------------------------
(* doReconnectJob and restartStreaming, which it ends in. *)

GivesUp(j, at) ==
  /\ mem[j].re.at = at /\ mem' = [mem EXCEPT ![j].re = NoCall]
  /\ UNCHANGED <<vars, scene, up, recVars, remote, closeNews, upVars, pruneVars>>

\* RemoteReconnectToJobManager looks for the process, closes the connection to it, and makes
\* another, or fails to.
AskRemote(j) ==
  /\ mem[j].re.at = "ask" /\ up
  /\ IF mem[j].re.pid /\ Alive(j)
     THEN \E linked \in BOOLEAN :
            /\ remote' = [remote EXCEPT ![j].link = linked, ![j].stream = "none"]
            /\ LET m == Unlinked(j, mem[j])
               IN  IF linked
                   THEN mem' = [mem EXCEPT ![j] = [m EXCEPT !.ups = @ + 1, !.re.at = "route"]]
                   ELSE mem' = [mem EXCEPT ![j] = [m EXCEPT !.re = NoCall]]
     ELSE mem' = [mem EXCEPT ![j].re.at = "gone"] /\ UNCHANGED remote
  /\ UNCHANGED <<vars, scene, up, recVars, closeNews, upVars, pruneVars>>

MarkGone(j) ==
  /\ mem[j].re.at = "gone" /\ mem' = [mem EXCEPT ![j].re = NoCall]
  /\ Update(j, [rec[j] EXCEPT !.status = "done"])
  /\ UNCHANGED <<vars, scene, up, shows, closed, remote, closeNews, upVars, pruneVars>>

WaitForRegister(j) ==
  /\ mem[j].re.at = "route" /\ remote[j].link
  /\ mem' = [mem EXCEPT ![j].connected = TRUE, ![j].re.at = "prepare"]
  /\ UNCHANGED <<vars, scene, up, recVars, remote, closeNews, upVars, pruneVars>>

\* The new stream supersedes the one before, whose loop ends unheard.
PrepareConnect(j) ==
  /\ mem[j].re.at = "prepare" /\ Exists(j) /\ remote[j].link
  /\ LET exited == remote[j].state = "exited"
         ended  == remote[j].told
     IN  mem' = [mem EXCEPT ![j].atEof = FALSE,
                            ![j].re = [@ EXCEPT !.at = "exit", !.exited = exited, !.ended = ended]]
  /\ remote' = [remote EXCEPT ![j].stream = "none"]
  /\ UNCHANGED <<vars, scene, up, recVars, closeNews, upVars, pruneVars>>

PrepareFails(j) ==
  /\ mem[j].re.at = "prepare" /\ (~Exists(j) \/ ~remote[j].link)
  /\ mem' = [mem EXCEPT ![j].re = NoCall, ![j].atEof = @ /\ ~Exists(j)]
  /\ UNCHANGED <<vars, scene, up, recVars, remote, closeNews, upVars, pruneVars>>

NoteExit(j) ==
  /\ mem[j].re.at = "exit"
  /\ LET m == [mem[j] EXCEPT !.re.at = "end"]
     IN  IF mem[j].re.exited THEN Noted(j, [rec[j] EXCEPT !.exited = TRUE], m)
         ELSE mem' = [mem EXCEPT ![j] = m] /\ UNCHANGED rec
  /\ UNCHANGED <<vars, scene, up, shows, closed, remote, closeNews, upVars, pruneVars>>

\* Of an output that has ended there is nothing to stream; only with the exit is it a reason
\* to terminate the manager.
NoteEnd(j) ==
  /\ mem[j].re.at = "end"
  /\ IF ~mem[j].re.ended
     THEN mem' = [mem EXCEPT ![j].re.at = "stream"] /\ UNCHANGED rec
     ELSE /\ Update(j, [rec[j] EXCEPT !.ended = TRUE])
          /\ mem' = IF mem[j].re.exited
                    THEN [mem EXCEPT ![j].re = NoCall, ![j].check = TRUE]
                    ELSE [mem EXCEPT ![j].re = NoCall, ![j].late = @ \/ ~rec[j].ended]
  /\ UNCHANGED <<vars, scene, up, shows, closed, remote, closeNews, upVars, pruneVars>>

StartStream(j) ==
  /\ mem[j].re.at = "stream" /\ remote[j].link
  /\ remote' = [remote EXCEPT ![j].stream = "read"] /\ mem' = [mem EXCEPT ![j].re = NoCall]
  /\ UNCHANGED <<vars, scene, up, recVars, closeNews, upVars, pruneVars>>

\* A call of the remote fails with the connection or the route, or waits too long for it.
ReconnectFails(j) ==
  \/ ~up /\ GivesUp(j, "ask")
  \/ ~remote[j].link /\ (GivesUp(j, "route") \/ GivesUp(j, "stream"))
-----------------------------------------------------------------------------
(* The connection comes and goes, with the routes over it; route events.      *)

Flap ==
  /\ scene.flaps > 0 /\ scene' = [scene EXCEPT !.flaps = @ - 1]
  /\ up' = ~up /\ Publish(Home, ~up)
  /\ remote' = [j \in Jobs |-> [remote[j] EXCEPT !.link = @ /\ ~up,
                                                !.stream = IF up THEN "none" ELSE @]]
  /\ \E heard \in SUBSET Jobs :
       mem' = [j \in Jobs |-> [Unlinked(j, mem[j]) EXCEPT !.exits = IF j \in heard THEN @ ELSE 0]]
  /\ UNCHANGED <<recVars, closeNews, upVars, pruneVars>>

\* A manager dies, or its machine does.
ManagerDies(j) ==
  /\ scene.deaths > 0 /\ scene' = [scene EXCEPT !.deaths = @ - 1]
  /\ Alive(j) /\ remote' = [remote EXCEPT ![j] = Gone(@)]
  /\ mem' = [mem EXCEPT ![j] = Unlinked(j, @)]
  /\ UNCHANGED <<vars, up, recVars, closeNews, upVars, pruneVars>>

handleRouteUpEvent(j) ==
  /\ mem[j].ups > 0
  /\ mem' = [mem EXCEPT ![j].ups = @ - 1, ![j].connected = TRUE]
  /\ UNCHANGED <<vars, scene, up, recVars, remote, closeNews, upVars, pruneVars>>

\* Bound: all of it within the half minute of a job's cooldown.
handleRouteDownEvent(j) ==
  /\ mem[j].downs > 0
  /\ LET m == [mem[j] EXCEPT !.downs = @ - 1, !.connected = FALSE]
     IN  mem' = [mem EXCEPT ![j] = IF Runs(j) /\ ~m.cooling
                                   THEN [m EXCEPT !.auto = TRUE, !.cooling = TRUE] ELSE m]
  /\ UNCHANGED <<vars, scene, up, recVars, remote, closeNews, upVars, pruneVars>>

attemptAutoReconnect(j) ==
  /\ mem[j].auto
  /\ mem' = [mem EXCEPT ![j] = Reconnecting(j, [@ EXCEPT !.auto = FALSE])]
  /\ UNCHANGED <<vars, scene, up, recVars, remote, closeNews, upVars, pruneVars>>
-----------------------------------------------------------------------------
(* reconcileConn: the jobs that run are reconnected one by one. *)

\* The scan starts the handler; the jobs are those that run when it comes to list them.
Listing == "listing"

ScanJobs ==
  /\ Scan
  /\ visiting' = IF Behind(Home) /\ actual[Home] THEN Listing ELSE visiting
  /\ UNCHANGED <<scene, up, recVars, remote, mem, closeNews, todo, pruneVars>>

ListJobs ==
  /\ visiting = Listing /\ visiting' = None
  /\ todo' = {j \in Jobs : Runs(j)}
  /\ UNCHANGED <<vars, scene, up, recVars, remote, mem, closeNews, pruneVars>>

ReconnectNext(j) ==
  /\ j \in todo /\ visiting = None
  /\ todo' = todo \ {j} /\ visiting' = j
  /\ mem' = [mem EXCEPT ![j] = Reconnecting(j, @)]
  /\ UNCHANGED <<vars, scene, up, recVars, remote, closeNews, pruneVars>>

Reconnected(j) ==
  /\ visiting = j /\ mem[j].re.at = "no" /\ visiting' = None
  /\ UNCHANGED <<vars, scene, up, recVars, remote, mem, closeNews, todo, pruneVars>>

\* The jobs share five seconds: those that are left when they are over are given up.
OutOfTime ==
  /\ todo # {} /\ visiting # None /\ todo' = {}
  /\ UNCHANGED <<vars, scene, up, recVars, remote, mem, closeNews, visiting, pruneVars>>

\* Nothing but the Home's handler for TRUE has jobs to see to.
Reconciled(c, state) ==
  /\ (c = Home /\ state) => todo = {} /\ visiting = None
  /\ FinishHandler(c, state)
  /\ UNCHANGED jobVars

\* A handler that panics has reconciled no more of the jobs.
Panicked(c, state) ==
  /\ PanicHandler(c, state)
  /\ IF c = Home /\ state THEN todo' = {} /\ visiting' = None ELSE UNCHANGED upVars
  /\ UNCHANGED <<scene, up, recVars, remote, mem, closeNews, pruneVars>>

Reconciling ==
  \/ ScanJobs \/ ListJobs
  \/ \E c \in Conns, state \in BOOLEAN : Reconciled(c, state)
  \/ /\ (\E e \in events : HandleEvent(e)) \/ (\E e \in nudging : Nudge(e)) \/ Receive
     /\ UNCHANGED jobVars
-----------------------------------------------------------------------------
(* Blocks close, and commands of the user. *)

Command == scene.commands > 0 /\ scene' = [scene EXCEPT !.commands = @ - 1]

CloseBlock(b) ==
  /\ Command /\ b \notin closed
  /\ closed' = closed \cup {b} /\ closeNews' = closeNews \cup {b}
  /\ UNCHANGED <<vars, up, rec, shows, remote, mem, upVars, pruneVars>>

handleBlockCloseEvent(b) ==
  /\ b \in closeNews /\ closeNews' = closeNews \ {b}
  /\ mem' = [j \in Jobs |-> IF Exists(j) /\ rec[j].attached = b
                            THEN [mem[j] EXCEPT !.closing = "due"] ELSE mem[j]]
  /\ UNCHANGED <<vars, scene, up, recVars, remote, upVars, pruneVars>>

\* A job whose start is over is known to the controller of its block, and to commands.
Started(j) == mem[j].start = "over" /\ Exists(j)

StopController(j) ==
  /\ Command /\ Started(j) /\ mem' = [mem EXCEPT ![j].closing = "due"]
  /\ UNCHANGED <<vars, up, recVars, remote, closeNews, upVars, pruneVars>>

TerminateAndDetachJob(j) ==
  /\ mem[j].closing = "due"
  /\ rec' = Marked(j)
  /\ mem' = [mem EXCEPT ![j] = Stopping(j, [@ EXCEPT !.closing = "stop"])]
  /\ UNCHANGED <<vars, scene, up, shows, closed, remote, closeNews, upVars, pruneVars>>

\* When the call took all of the five seconds there are, the transaction fails.
DetachTerminated(j) ==
  /\ mem[j].closing = "stop" /\ mem[j].stop.at = "no"
  /\ DetachJobFromBlock(j) \/ UNCHANGED <<rec, shows>>
  /\ mem' = [mem EXCEPT ![j].closing = "no"]
  /\ UNCHANGED <<vars, scene, up, closed, remote, closeNews, upVars, pruneVars>>

CommandTerminate(j) ==
  /\ Command /\ Started(j)
  /\ rec' = Marked(j) /\ mem' = [mem EXCEPT ![j] = Stopping(j, @)]
  /\ UNCHANGED <<vars, up, shows, closed, remote, closeNews, upVars, pruneVars>>

CommandReconnect(j) ==
  /\ Command /\ Started(j) /\ mem' = [mem EXCEPT ![j] = Reconnecting(j, @)]
  /\ UNCHANGED <<vars, up, recVars, remote, closeNews, upVars, pruneVars>>

\* The remote closes its connection to the manager.
CommandDisconnect(j) ==
  /\ Command /\ Started(j) /\ remote[j].link
  /\ remote' = [remote EXCEPT ![j].link = FALSE, ![j].stream = "none"]
  /\ mem' = [mem EXCEPT ![j] = Unlinked(j, @)]
  /\ UNCHANGED <<vars, up, recVars, closeNews, upVars, pruneVars>>

CommandDetach(j) ==
  /\ Command /\ Started(j) /\ DetachJobFromBlock(j)
  /\ UNCHANGED <<vars, up, closed, remote, mem, closeNews, upVars, pruneVars>>

CommandAttach(j, b) ==
  /\ Command /\ Started(j) /\ CanAttach(j, b) /\ AttachJobToBlock(j, b)
  /\ rec[j].status # "done"                                             \* bound
  /\ UNCHANGED <<vars, up, closed, remote, mem, closeNews, upVars, pruneVars>>

Commands ==
  \/ \E b \in Blocks : CloseBlock(b) \/ \E j \in Jobs : CommandAttach(j, b)
  \/ \E j \in Jobs : StopController(j) \/ CommandTerminate(j) \/ CommandReconnect(j)
                     \/ CommandDisconnect(j) \/ CommandDetach(j)
-----------------------------------------------------------------------------
(* The pruner: two rounds, a minute apart, must find a job unused. A start    *)
(* takes half a minute at most.                                               *)

Unused == {j \in Jobs : rec[j].status = "done" /\ rec[j].attached = None}

Condemned_AtOnce == Unused
Condemned == previous \cap Unused

pruneUnusedJobs ==
  /\ scene.rounds > 0 /\ scene' = [scene EXCEPT !.rounds = @ - 1]
  /\ doomed = {} /\ \A j \in previous : mem[j].start # "remote"
  /\ doomed' = Condemned /\ previous' = Unused
  /\ UNCHANGED <<vars, up, recVars, remote, mem, closeNews, upVars>>

DeleteJob(j) ==
  /\ j \in doomed /\ doomed' = doomed \ {j}
  /\ rec' = [rec EXCEPT ![j] = [NoRecord EXCEPT !.status = "deleted"]]
  /\ mem' = [mem EXCEPT ![j].connected = FALSE]
  /\ UNCHANGED <<vars, scene, up, shows, closed, remote, closeNews, upVars, previous>>
-----------------------------------------------------------------------------
Stopped(j) ==
  \E who \in {"stop", "re"} :
    RemoteTerminate(j, who) \/ RemoteTerminateFails(j, who) \/ MarkTerminated(j, who)

Starting(j) ==
  AttachJob(j) \/ StartSucceeds(j) \/ StartFails(j) \/ ReconnectStarted(j)

Reconnection(j) ==
  \/ AskRemote(j) \/ MarkGone(j) \/ WaitForRegister(j) \/ PrepareConnect(j) \/ PrepareFails(j)
  \/ NoteExit(j) \/ NoteEnd(j) \/ StartStream(j) \/ ReconnectFails(j)

Closing(j) == TerminateAndDetachJob(j) \/ DetachTerminated(j)

JobNext ==
  \/ Flap \/ Reconciling \/ OutOfTime \/ Commands \/ pruneUnusedJobs
  \/ \E c \in Conns, state \in BOOLEAN : Panicked(c, state)
  \/ \E b \in Blocks : handleBlockCloseEvent(b) \/ \E j \in Jobs : InsertJob(j, b)
  \/ \E j \in Jobs :
       \/ Starting(j) \/ RemoteStartJob(j)
       \/ CommandExits(j) \/ OutputEnds(j) \/ RecvAck(j)
       \/ HandleCmdJobExited(j) \/ OutputLoopEnds(j) \/ tryTerminateJobManager(j)
       \/ Stopped(j) \/ Reconnection(j) \/ Closing(j)
       \/ ManagerDies(j) \/ handleRouteUpEvent(j) \/ handleRouteDownEvent(j)
       \/ attemptAutoReconnect(j)
       \/ ReconnectNext(j) \/ Reconnected(j) \/ DeleteJob(j)

JobSpec == JobInit /\ [][JobNext]_allVars

\* The goroutines of the server go on, and its calls end, with an answer or without.
JobFairSpec ==
  /\ JobSpec
  /\ WF_allVars(Reconciling)
  /\ \A j \in Jobs : WF_allVars(ReconnectNext(j) \/ Reconnected(j)) /\ WF_allVars(Reconnection(j))
                     /\ WF_allVars(Stopped(j)) /\ WF_allVars(tryTerminateJobManager(j))
-----------------------------------------------------------------------------
(* Types. *)
JobTypeOK ==
  /\ rec \in [Jobs -> [status : {"none", "init", "running", "done", "deleted"},
                       attached : Blocks \cup {None}, pid : BOOLEAN, exited : BOOLEAN,
                       ended : BOOLEAN, quit : BOOLEAN]]
  /\ shows \in [Blocks -> Jobs \cup {None}] /\ closed \subseteq Blocks /\ closeNews \subseteq closed
  /\ todo \subseteq Jobs /\ visiting \in Jobs \cup {None, Listing}
  /\ previous \subseteq Jobs /\ doomed \subseteq Jobs

(* A block and the job it shows name each other, and a job names no other     *)
(* block, through starts, restarts and commands that attach and detach;       *)
(* but for a job that is being inserted, which its block does not show yet    *)
(* (AttachJobToBlock, DetachJobFromBlock, DeleteJob).                         *)
LinksAgree ==
  \A b \in Blocks \ closed :
    /\ shows[b] # None => rec[shows[b]].attached = b
    /\ \A j \in Jobs : rec[j].attached = b /\ mem[j].start # "attach" => shows[b] = j

(* Only the record of a job that is over is deleted, although a job may be    *)
(* closed, and its record done, while StartJob still waits for the remote and *)
(* is about to make it run (pruneUnusedJobs looks twice).                     *)
RunningIsKept ==
  [][\A j \in Jobs : rec[j].status # "deleted" /\ rec'[j].status = "deleted"
                      => rec[j].status = "done" /\ rec[j].attached = None]_allVars

(* The exit of a command and the end of its output come in either order, by   *)
(* an event, an output loop or a reconnection, each of which looks for the    *)
(* other: when both are there the manager is told to end, or somebody is      *)
(* about to look. But for late: a reconnection that was told only of the      *)
(* output's end does not look, and a termination that StartJob then took back *)
(* had noted an end that is none (tryTerminateJobManager).                    *)
EndIsNoticed ==
  \A j \in Jobs : Due(j) => rec[j].quit \/ mem[j].check \/ mem[j].late

(* The same without the exemption; not so.                                    *)
EveryEndIsNoticed == \A j \in Jobs : Due(j) => rec[j].quit \/ mem[j].check

(* A job that is done stays done. Not so: StartJob makes it run that was      *)
(* closed meanwhile, and nothing will end it then.                            *)
DoneStaysDone ==
  [][\A j \in Jobs : rec[j].status = "done" => rec'[j].status \in {"done", "deleted"}]_allVars

(* A job that counts as connected has a route, once the events are handled.   *)
(* Not so: the events of a route may be handled in another order, and a job   *)
(* that counts as connected is not reconnected (CheckJobConnected).           *)
ConnectedIsRouted ==
  \A j \in Jobs : mem[j].ups + mem[j].downs = 0 /\ mem[j].re.at = "no" /\ mem[j].connected
                  => remote[j].link
=============================================================================
