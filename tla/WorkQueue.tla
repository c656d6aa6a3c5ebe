------------------------------ MODULE WorkQueue ------------------------------
(* The work queue of a stream broker (pkg/utilds/workqueue.go): callers       *)
(* enqueue, one worker goroutine, started by the first Enqueue, works on the *)
(* items one at a time; Close lets it finish or drops what is queued, and    *)
(* Wait waits for the worker to be gone.  What both queues of the package    *)
(* have is named for the work here, for a module that extends both.          *)
EXTENDS Naturals, Sequences

CONSTANTS WorkItems,          \* what callers enqueue, each once
          Waiters             \* goroutines that call Wait

VARIABLES
  queue, workClosed, started,
  worker,             \* "none", "taking", "waiting", "working" or "returned"
  item,               \* the items, one at most, that workFn is working on
  waiter,             \* each Waiter: "idle", "waiting" or "returned"
  (* history *)
  offered,            \* items an Enqueue was called with
  accepted,           \* those it returned true for, in that order
  worked,             \* those workFn has returned from
  dropped,            \* Close(true) was called
  late                \* the Waiters that called Wait on a closed queue

workVars == <<queue, workClosed, started, worker, item, waiter, offered, accepted, worked,
              dropped, late>>

WorkInit ==
  /\ queue = << >> /\ workClosed = FALSE /\ started = FALSE
  /\ worker = "none" /\ item = << >>
  /\ waiter = [w \in Waiters |-> "idle"]
  /\ offered = {} /\ accepted = << >> /\ worked = << >> /\ dropped = FALSE
  /\ late = {}

\* Signal and Broadcast: the worker is the only goroutine that waits on cond.
Wakes(w) == IF w = "waiting" THEN "taking" ELSE w

\* What wg counts: the worker from its start to its return.
Running_PerItem == worker = "working"
Running == started /\ worker # "returned"
-----------------------------------------------------------------------------
WorkerFor_Each == "taking"
WorkerFor == IF started THEN Wakes(worker) ELSE "taking"

Enqueue(i) ==
  /\ i \notin offered /\ ~workClosed
  /\ offered' = offered \cup {i}
  /\ queue' = Append(queue, i) /\ accepted' = Append(accepted, i)
  /\ started' = TRUE
  /\ worker' = WorkerFor
  /\ UNCHANGED <<workClosed, item, waiter, worked, dropped, late>>

Refuse(i) ==
  /\ i \notin offered /\ workClosed
  /\ offered' = offered \cup {i}
  /\ UNCHANGED <<queue, workClosed, started, worker, item, waiter, accepted, worked, dropped, late>>

Take ==
  /\ worker = "taking" /\ queue # << >>
  /\ item' = <<Head(queue)>> /\ queue' = Tail(queue)
  /\ worker' = "working"
  /\ UNCHANGED <<workClosed, started, waiter, offered, accepted, worked, dropped, late>>

\* The worker waits only while the queue is open.
Idle_MayBeClosed == worker = "taking" /\ queue = << >>
Idle == worker = "taking" /\ queue = << >> /\ ~workClosed

WorkerWaits ==
  /\ Idle /\ worker' = "waiting"
  /\ UNCHANGED <<queue, workClosed, started, item, waiter, offered, accepted, worked, dropped, late>>

\* workFn returns, and the worker looks for more.
FinishItem ==
  /\ worker = "working" /\ worker' = "taking"
  /\ worked' = worked \o item /\ item' = << >>
  /\ UNCHANGED <<queue, workClosed, started, waiter, offered, accepted, dropped, late>>

WorkerMayReturn == worker = "taking" /\ workClosed /\ queue = << >>

WorkerReturns ==
  /\ WorkerMayReturn /\ worker' = "returned"
  /\ UNCHANGED <<queue, workClosed, started, item, waiter, offered, accepted, worked, dropped, late>>

Worker == Take \/ WorkerWaits \/ FinishItem \/ WorkerReturns

CloseWork(immediate) ==
  /\ workClosed' = TRUE
  /\ queue' = IF immediate THEN << >> ELSE queue
  /\ dropped' = (dropped \/ immediate)
  /\ worker' = Wakes(worker)
  /\ UNCHANGED <<started, item, waiter, offered, accepted, worked, late>>

Wait(w) ==
  /\ waiter[w] = "idle"
  /\ waiter' = [waiter EXCEPT ![w] = IF Running THEN "waiting" ELSE "returned"]
  /\ late' = IF workClosed THEN late \cup {w} ELSE late
  /\ UNCHANGED <<queue, workClosed, started, worker, item, offered, accepted, worked, dropped>>

WaitReturns(w) ==
  /\ waiter[w] = "waiting" /\ ~Running
  /\ waiter' = [waiter EXCEPT ![w] = "returned"]
  /\ UNCHANGED <<queue, workClosed, started, worker, item, offered, accepted, worked, dropped, late>>

WorkNext == \/ \E i \in WorkItems : Enqueue(i) \/ Refuse(i)
        \/ Worker
        \/ \E immediate \in BOOLEAN : CloseWork(immediate)
        \/ \E w \in Waiters : Wait(w) \/ WaitReturns(w)

WorkSpec == WorkInit /\ [][WorkNext]_workVars

\* The Go scheduler runs the worker and the goroutines wg wakes.
FairWorkSpec == WorkSpec /\ WF_workVars(Worker) /\ \A w \in Waiters : WF_workVars(WaitReturns(w))
-----------------------------------------------------------------------------
\* The types, and what the worker's place says of its item.
WorkTypeOK ==
  /\ queue \in Seq(WorkItems) /\ workClosed \in BOOLEAN /\ started \in BOOLEAN
  /\ worker \in {"none", "taking", "waiting", "working", "returned"}
  /\ item \in Seq(WorkItems)
  /\ waiter \in [Waiters -> {"idle", "waiting", "returned"}]
  /\ offered \subseteq WorkItems /\ accepted \in Seq(WorkItems) /\ worked \in Seq(WorkItems)
  /\ dropped \in BOOLEAN /\ late \subseteq Waiters
  /\ Len(item) = IF worker = "working" THEN 1 ELSE 0
  /\ started <=> worker # "none"

\* Every item Enqueue accepted is worked on, being worked on or queued, once
\* and in the order accepted; an immediate Close takes from the end only.
InOrder ==
  /\ dropped => workClosed
  /\ ~dropped => accepted = worked \o item \o queue
  /\ dropped => /\ queue = << >>
                /\ Len(worked \o item) <= Len(accepted)
                /\ worked \o item = SubSeq(accepted, 1, Len(worked \o item))

\* The worker sleeps only on an open and empty queue, and has not returned, nor
\* not been started, while there is an item to work on.
NoLostWakeup ==
  /\ worker = "waiting" => queue = << >> /\ ~workClosed
  /\ worker \in {"none", "returned"} => queue = << >>
  /\ worker = "returned" => workClosed

\* A Wait called on a closed queue returns when the queue's work is over, for
\* good: no item is left, none is being worked on.
WaitMeansOver ==
  \A w \in late :
    workClosed /\ (waiter[w] = "returned" => queue = << >> /\ item = << >> /\ ~Running)

\* The worker of a closed queue goes away, and whoever waits for it returns.
WaitReturnsAtLast ==
  \A w \in Waiters : workClosed /\ waiter[w] = "waiting" ~> waiter[w] = "returned"
=============================================================================
