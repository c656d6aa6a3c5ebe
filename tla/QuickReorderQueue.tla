-------------------------- MODULE QuickReorderQueue --------------------------
(* The queue that puts a durable job's keystrokes back in order              *)
(* (pkg/utilds/quickreorderqueue.go, used by pkg/jobmanager/jobmanager.go).  *)
(* Input reaches the job manager as separate calls, numbered within a        *)
(* session.  An item that comes early is held until those before it have     *)
(* come or it has waited for the timeout.  Every method runs under q.lock,   *)
(* so it is one step; time is counted in ticks, of which Timeout make the    *)
(* timeout, and a callback may run any number of ticks after it is due.      *)
(*                                                                           *)
(* Sessions are ordered by when they were first seen: as the header comment  *)
(* of the code assumes, no two are first seen in the same millisecond.       *)
EXTENDS Integers, Sequences, FiniteSets

CONSTANTS Sessions, NoSession,
          SeqNums,            \* sequence numbers senders use; 0 is "none"
          Restarts,           \* arguments of SetNextSeqNum
          Cap,                \* capacity of the output channel
          Timeout,
          MaxArrivals         \* bound: items ever accepted

ASSUME QueueAssumption ==
  /\ NoSession \notin Sessions
  /\ SeqNums \subseteq Nat /\ Restarts \subseteq Nat
  /\ Cap \in Nat \ {0} /\ Timeout \in Nat \ {0} /\ MaxArrivals \in Nat

VARIABLES order,              \* sessionOrder: when a session was first seen, 0 if not
          current,            \* currentSessionId
          nextSeqNum,
          held,               \* the buffer: the ticks each held item has waited
          emitted, taken,     \* items sent to outCh, and how many were received
          timer,              \* ticks until q.timer fires, or NoTimer
          strays,             \* the same of timers q.timer no longer refers to
          closed,
          arrived             \* items accepted

vars == <<order, current, nextSeqNum, held, emitted, taken, timer, strays, closed,
          arrived>>

NoTimer == -1
Buffer == DOMAIN held
NothingHeld == [i \in {} |-> 0]

Init == /\ order = [s \in Sessions |-> 0] /\ current = NoSession /\ nextSeqNum = 1
        /\ held = NothingHeld /\ emitted = << >> /\ taken = 0
        /\ timer = NoTimer /\ strays = {} /\ closed = FALSE /\ arrived = 0

(* Held items are all of the current session, so sorting compares numbers.   *)
(* sort.Slice leaves items with equal numbers in either order.               *)
Sorted(S) ==
  {q \in [1 .. Cardinality(S) -> S] :
     \A i, j \in DOMAIN q : i < j => q[i] # q[j] /\ q[i].seq <= q[j].seq}

Keep_Everything(S) == held
Keep(S) == [i \in S |-> held[i]]
Hold(item) == [i \in Buffer \cup {item} |-> IF i = item THEN 0 ELSE held[i]]

\* A timer that is stopped too late still runs its callback.
Stopped == IF timer = 0 THEN strays \cup {0} ELSE strays

EnsureTimer(t) == IF t = NoTimer THEN Timeout ELSE t

\* The first k held items go on from number n: the sorted buffer starts with
\* n, n + 1, ... n + k - 1.
Consecutive(k, n) ==
  /\ k > 0 => \A i \in Buffer : i.seq >= n
  /\ \A j \in 1 .. k : \E i \in Buffer : i.seq = n + j - 1
  /\ \A i1, i2 \in Buffer : i1 # i2 /\ i1.seq = i2.seq => i1.seq >= n + k - 1
Released_WithGaps(n) ==
  {q \in UNION {[1 .. k -> Buffer] : k \in 0 .. Cardinality(Buffer)} :
     \A i, j \in DOMAIN q : i < j => q[i].seq < q[j].seq}
Released(n) ==
  {q \in UNION {[1 .. k -> Buffer] : k \in 0 .. Cardinality(Buffer)} :
     /\ \A j \in DOMAIN q : q[j].seq = n + j - 1
     /\ Consecutive(Len(q), n) /\ ~Consecutive(Len(q) + 1, n)}
-----------------------------------------------------------------------------
Full_ChannelOnly == Len(emitted) - taken >= Cap
Full == Len(emitted) - taken + Cardinality(Buffer) >= Cap

Item(session, seq) == [id |-> arrived + 1, session |-> session, seq |-> seq]

\* QueueItem accepts an item.
Accept == /\ ~closed /\ ~Full
          /\ arrived < MaxArrivals /\ arrived' = arrived + 1
          /\ UNCHANGED <<taken, closed>>

\* The first item of a session: everything held goes out before it.
QueueFirst(session, seq) ==
  /\ session # NoSession /\ order[session] = 0
  /\ Accept
  /\ order' = [order EXCEPT ![session] =
                 1 + Cardinality({s \in Sessions : order[s] # 0})]
  /\ current' = session
  /\ nextSeqNum' = IF seq = 1 THEN 2 ELSE 1
  /\ \E q \in Sorted(Buffer) :
       emitted' = emitted \o q \o (IF seq <= 1 THEN <<Item(session, seq)>> ELSE << >>)
  /\ held' = IF seq <= 1 THEN NothingHeld ELSE [i \in {Item(session, seq)} |-> 0]
  /\ LET t == IF Buffer = {} THEN timer ELSE NoTimer
     IN  timer' = IF seq <= 1 THEN t ELSE EnsureTimer(t)
  /\ strays' = IF Buffer = {} THEN strays ELSE Stopped

Known(session) == session # NoSession /\ order[session] # 0

\* Late items, those of older sessions, and those without a session or number.
QueueBypass(session, seq) ==
  /\ \/ session = NoSession
     \/ Known(session) /\ (seq = 0 \/ session # current \/ seq < nextSeqNum)
  /\ Accept
  /\ emitted' = Append(emitted, Item(session, seq))
  /\ UNCHANGED <<order, current, nextSeqNum, held, timer, strays>>

\* The item that was waited for, and those held that follow on.
QueueInOrder(session, seq) ==
  /\ Known(session) /\ session = current /\ seq = nextSeqNum /\ seq # 0
  /\ Accept
  /\ \E q \in Released(nextSeqNum + 1) :
       /\ emitted' = Append(emitted, Item(session, seq)) \o q
       /\ nextSeqNum' = nextSeqNum + 1 + Len(q)
       /\ held' = Keep(Buffer \ {q[j] : j \in DOMAIN q})
  /\ UNCHANGED <<order, current, timer, strays>>

QueueEarly(session, seq) ==
  /\ Known(session) /\ session = current /\ seq > nextSeqNum
  /\ Accept
  /\ held' = Hold(Item(session, seq))
  /\ timer' = EnsureTimer(timer)
  /\ UNCHANGED <<order, current, nextSeqNum, emitted, strays>>

\* Its one caller, a test, calls it before the first item; Next does too.
SetNextSeqNum(n) ==
  /\ nextSeqNum' = n
  /\ UNCHANGED <<order, current, held, emitted, taken, timer, strays, closed, arrived>>

\* The consumer, processInputQueue, receives an item.
Receive ==
  /\ taken < Len(emitted)
  /\ taken' = taken + 1
  /\ UNCHANGED <<order, current, nextSeqNum, held, emitted, timer, strays, closed, arrived>>

Later(a, b) == IF a > b THEN a ELSE b

\* The timer set for those still held, once the ones in S have gone out.
NextTimeout_Fresh(S) == IF S = {} THEN NoTimer ELSE Timeout
NextTimeout_NotAgain(S) == NoTimer
NextTimeout(S) ==
  IF S = {} THEN NoTimer
  ELSE CHOOSE t \in 0 .. Timeout : /\ \E i \in S : t = Timeout - held[i]
                                   /\ \A i \in S : t <= Timeout - held[i]

\* onTimeout, called by q.timer or by a timer stopped too late: everything up
\* to the last item that has waited long enough goes out.
OnTimeout ==
  /\ \/ timer = 0 /\ strays' = strays
     \/ 0 \in strays /\ strays' = (strays \ {0}) \cup ({timer} \ {NoTimer})
  /\ IF closed
     THEN UNCHANGED <<nextSeqNum, held, emitted>> /\ timer' = NoTimer
     ELSE \E q \in Sorted(Buffer), n \in 0 .. Cardinality(Buffer) :
            LET out  == SubSeq(q, 1, n)
                rest == Buffer \ {out[j] : j \in DOMAIN out}
            IN  /\ n > 0 => held[q[n]] >= Timeout
                /\ \A i \in rest : held[i] < Timeout
                /\ emitted' = emitted \o out
                /\ nextSeqNum' = IF n > 0 THEN Later(nextSeqNum, q[n].seq + 1)
                                 ELSE nextSeqNum
                /\ held' = Keep(rest)
                /\ timer' = NextTimeout(rest)
  /\ UNCHANGED <<order, current, taken, closed, arrived>>

Close ==
  /\ ~closed /\ closed' = TRUE
  /\ timer' = NoTimer /\ strays' = Stopped
  /\ UNCHANGED <<order, current, nextSeqNum, held, emitted, taken, arrived>>

Tick ==
  /\ Buffer # {} \/ timer > 0 \/ strays # {}
  /\ held' = [i \in Buffer |-> IF held[i] < Timeout THEN held[i] + 1 ELSE Timeout]
  /\ timer' = IF timer > 0 THEN timer - 1 ELSE timer
  /\ strays' = {IF t > 0 THEN t - 1 ELSE 0 : t \in strays}
  /\ UNCHANGED <<order, current, nextSeqNum, emitted, taken, closed, arrived>>

QueueItem(session, seq) ==
  \/ QueueFirst(session, seq)
  \/ QueueBypass(session, seq)
  \/ QueueInOrder(session, seq)
  \/ QueueEarly(session, seq)

Next == \/ \E session \in Sessions \cup {NoSession}, seq \in SeqNums :
             QueueItem(session, seq)
        \/ arrived = 0 /\ \E n \in Restarts : SetNextSeqNum(n)
        \/ Receive \/ OnTimeout \/ Close \/ Tick

Spec == Init /\ [][Next]_vars

(* Time passes, and the runtime runs the callbacks of timers.                *)
FairSpec == Spec /\ WF_vars(Tick) /\ WF_vars(OnTimeout)
-----------------------------------------------------------------------------
Items == [id : Nat, session : Sessions \cup {NoSession}, seq : Nat]

TypeOK ==
  /\ order \in [Sessions -> Nat] /\ current \in Sessions \cup {NoSession}
  /\ nextSeqNum \in Nat /\ arrived \in Nat /\ closed \in BOOLEAN
  /\ Buffer \subseteq Items /\ held \in [Buffer -> 0 .. Timeout]
  /\ emitted \in Seq(Items) /\ taken \in 0 .. Len(emitted)
  /\ timer \in {NoTimer} \cup 0 .. Timeout /\ strays \subseteq 0 .. Timeout

(* Nobody ever waits on the channel with q.lock held: what is held always    *)
(* has room in it, whichever of a new session, the missing item or the       *)
(* timeout sends it (quickreorderqueue.go:110-112, 124-126, 203).            *)
NeverBlocks == Len(emitted) - taken + Cardinality(Buffer) <= Cap

(* While something is held a timer runs that fires no later than the oldest  *)
(* item's timeout: no path that empties, refills or shortens the buffer,     *)
(* and no callback that comes late, leaves an item without one.              *)
TimerCovers ==
  ~closed /\ Buffer # {} =>
    timer # NoTimer /\ \A i \in Buffer : timer + held[i] <= Timeout

(* Every accepted item is held or was sent, once.                            *)
NothingLost ==
  \A n \in 1 .. arrived :
    Cardinality({i \in Buffer : i.id = n})
      + Cardinality({k \in DOMAIN emitted : emitted[k].id = n}) = 1

(* Within a session an item is sent after one with a higher number only if   *)
(* it also came after it, or it repeats one already sent.                    *)
KeepsOrder ==
  \A k, l \in DOMAIN emitted :
    LET a == emitted[k]
        b == emitted[l]
    IN  k < l /\ a.session = b.session /\ a.session # NoSession /\ b.seq # 0
          /\ b.seq < a.seq =>
        \/ b.id > a.id
        \/ \E h \in 1 .. k : emitted[h].session = b.session /\ emitted[h].seq = b.seq

(* An item with number 0 bypasses the queue: it leaves what is held alone,   *)
(* says the code's header comment (quickreorderqueue.go:23).  The first item *)
(* of a session does not: it flushes what is held and starts the session.    *)
BypassTouchesNothing ==
  [][\A k \in DOMAIN emitted' :
       k > Len(emitted) /\ emitted'[k].id > arrived /\ emitted'[k].seq = 0 =>
         UNCHANGED held]_vars

(* An item held is sent in the end, whatever comes or does not come.         *)
HeldItemsGoOut ==
  \A n \in 1 .. MaxArrivals :
    (\E i \in Buffer : i.id = n) ~> (closed \/ \A i \in Buffer : i.id # n)
=============================================================================
