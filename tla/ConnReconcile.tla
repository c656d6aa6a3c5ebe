---------------------------- MODULE ConnReconcile ----------------------------
(* How the job controller follows its connections (connStates and the        *)
(* goroutines around it in pkg/jobcontroller/jobcontroller.go): a status     *)
(* event sets what a connection actually is, a worker starts a handler for   *)
(* each connection that was processed as something else, one at a time for   *)
(* each, and a channel of capacity 1 tells the worker to look.               *)
(*                                                                           *)
(* Events are handled in goroutines of their own (WshRpc.runServer), so they *)
(* are handled in any order.  A handler that panics is recovered, and its    *)
(* connection is reconciling from then on.                                   *)
EXTENDS Naturals, FiniteSets

CONSTANTS Conns,
          MaxEvents,          \* bound: status events
          MaxPanics           \* bound: handlers that panic

ASSUME ReconcileAssumption == MaxEvents \in Nat /\ MaxPanics \in Nat

VARIABLES
  events,             \* status events not yet handled
  published,          \* how many there were
  known,              \* the keys of connStates.m
  actual, processed, reconciling,
  nudging,            \* events handled but for their send to reconcileCh
  token,              \* reconcileCh is full
  worker,             \* connReconcileWorker: "receiving" or "scanning"
  handling,           \* the states being handled by a connection's reconcileConn
  panics

stateVars == <<known, actual, processed, reconciling>>
vars == <<events, published, stateVars, nudging, token, worker, handling, panics>>

Init ==
  /\ events = {} /\ published = 0
  /\ known = {}
  /\ actual = [c \in Conns |-> FALSE] /\ processed = [c \in Conns |-> FALSE]
  /\ reconciling = [c \in Conns |-> FALSE]
  /\ nudging = {} /\ token = FALSE /\ worker = "receiving"
  /\ handling = [c \in Conns |-> {}]
  /\ panics = 0
-----------------------------------------------------------------------------
\* The connection controller publishes a status.
Publish(c, connected) ==
  /\ published < MaxEvents /\ published' = published + 1
  /\ events' = events \cup {[n |-> published, conn |-> c, connected |-> connected]}
  /\ UNCHANGED <<stateVars, nudging, token, worker, handling, panics>>

\* handleConnChangeEvent, up to connStates.Unlock.
HandleEvent(e) ==
  /\ e \in events /\ events' = events \ {e}
  /\ known' = known \cup {e.conn}
  /\ actual' = [actual EXCEPT ![e.conn] = e.connected]
  /\ nudging' = nudging \cup {e}
  /\ UNCHANGED <<published, processed, reconciling, token, worker, handling, panics>>

\* Its send, which does not wait on a full channel.
Nudge(e) ==
  /\ e \in nudging /\ nudging' = nudging \ {e}
  /\ token' = TRUE
  /\ UNCHANGED <<events, published, stateVars, worker, handling, panics>>

Receive ==
  /\ worker = "receiving" /\ token
  /\ token' = FALSE /\ worker' = "scanning"
  /\ UNCHANGED <<events, published, stateVars, nudging, handling, panics>>

Behind(c) == c \in known /\ ~reconciling[c] /\ actual[c] # processed[c]

\* reconcileAllConns, under the lock throughout.
Scan ==
  /\ worker = "scanning" /\ worker' = "receiving"
  /\ reconciling' = [c \in Conns |-> reconciling[c] \/ Behind(c)]
  /\ handling' = [c \in Conns |-> IF Behind(c) THEN handling[c] \cup {actual[c]}
                                  ELSE handling[c]]
  /\ UNCHANGED <<events, published, known, actual, processed, nudging, token, panics>>

TokenAfter_Unchanged == token
TokenAfter == TRUE

\* The end of reconcileConn: the state onConnectionUp or onConnectionDown was
\* called for is processed, whatever the connection has become since.
FinishHandler(c, state) ==
  /\ state \in handling[c] /\ handling' = [handling EXCEPT ![c] = @ \ {state}]
  /\ processed' = [processed EXCEPT ![c] = state]
  /\ reconciling' = [reconciling EXCEPT ![c] = FALSE]
  /\ token' = TokenAfter
  /\ UNCHANGED <<events, published, known, actual, nudging, worker, panics>>

PanicHandler(c, state) ==
  /\ panics < MaxPanics /\ panics' = panics + 1
  /\ state \in handling[c] /\ handling' = [handling EXCEPT ![c] = @ \ {state}]
  /\ UNCHANGED <<events, published, stateVars, nudging, token, worker>>

Worker == Receive \/ Scan
Handled == \E c \in Conns, state \in BOOLEAN : FinishHandler(c, state)

Next == \/ \E c \in Conns, connected \in BOOLEAN : Publish(c, connected)
        \/ \E e \in events : HandleEvent(e)
        \/ \E e \in nudging : Nudge(e)
        \/ Worker \/ Handled
        \/ \E c \in Conns, state \in BOOLEAN : PanicHandler(c, state)

Spec == Init /\ [][Next]_vars

\* Goroutines run, and a handler ends: its calls time out.
FairSpec ==
  /\ Spec
  /\ WF_vars(\E e \in events : HandleEvent(e)) /\ WF_vars(\E e \in nudging : Nudge(e))
  /\ WF_vars(Worker)
  /\ \A c \in Conns : WF_vars(\E state \in BOOLEAN : FinishHandler(c, state))
-----------------------------------------------------------------------------
Events == [n : Nat, conn : Conns, connected : BOOLEAN]

\* A connection has at most one handler, for a state it was not processed as
\* yet, and has one while it is reconciling unless that one panicked.
HandlersOK == \A c \in Conns :
  /\ handling[c] # {} => reconciling[c] /\ c \in known /\ handling[c] = {~processed[c]}
  /\ reconciling[c] /\ panics = 0 => handling[c] # {}

EventsTyped ==
  /\ events \subseteq Events /\ nudging \subseteq Events
  /\ published \in Nat /\ panics \in Nat
  /\ token \in BOOLEAN /\ worker \in {"receiving", "scanning"}

FlagsTyped ==
  /\ known \subseteq Conns
  /\ actual \in [Conns -> BOOLEAN] /\ processed \in [Conns -> BOOLEAN]
  /\ reconciling \in [Conns -> BOOLEAN]

\* The types, and how the handlers go with the reconciling flags.
TypeOK ==
  /\ EventsTyped /\ FlagsTyped /\ handling \in [Conns -> SUBSET BOOLEAN]
  /\ HandlersOK

\* A connection whose change nobody handles is noticed: the worker is about to
\* look, or is told to, or somebody is about to tell it.
NeverForgotten ==
  (\E c \in Conns : Behind(c)) => token \/ worker = "scanning" \/ nudging # {}

\* Once the events stop, the last handler run for a connection was for what it
\* actually is, unless a handler of this connection panicked.
Lost(c) == reconciling[c] /\ handling[c] = {}
Settles == <>[](\A c \in Conns : processed[c] = actual[c] \/ Lost(c))
=============================================================================
