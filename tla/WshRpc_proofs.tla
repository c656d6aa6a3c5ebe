------------------------------ MODULE WshRpc_proofs ------------------------------
(* That the callers of an RPC endpoint get what the peer answered, that they   *)
(* run out of their own time only, and that what is over is forgotten: for any *)
(* requests, capacities and responses, and whether or not streams are          *)
(* cancelled and InputCh is closed. And that only InputCh ends an endpoint     *)
(* whose streams are not cancelled.                                            *)
EXTENDS WshRpc, FiniteSetTheorems, SequenceTheorems, TLAPS

\* Those who wait for responses: each has an id of its own.
Waiters == Calls \cup Streams

Messages == [id : Waiters, cont : BOOLEAN]

ChannelsTyped ==
  /\ outputCh \in Seq(Ids) /\ inputCh \in Seq(Messages) /\ ctxDoneCh \in Seq(Ids)
TableTyped ==
  /\ rpcMap \subseteq Requests /\ respCh \in [Requests -> Seq({"data", "timeout"})]
  /\ respClosed \subseteq Requests /\ cancelled \subseteq Requests
CallersTyped ==
  /\ caller \in [Requests -> {"idle", "checked", "sending", "receiving", "polling", "returned"}]
  /\ result \in [Requests -> Results]
  /\ finalizer \in [Requests -> {"none", "cancelling", "unregistering", "over"}]
  /\ got \in [Requests -> Nat]
PeerTyped == sent \subseteq Waiters /\ answers \in [Requests -> Nat]

\* What the server holds is a response to one who waits.
HeldTyped ==
  /\ server \in {"selecting", "delivering", "blocking", "delivered", "ending", "done"}
  /\ server \in {"delivering", "blocking", "delivered"} =>
       held.id \in Waiters /\ held.to = {held.id}

Typed == ChannelsTyped /\ TableTyped /\ CallersTyped /\ PeerTyped /\ HeldTyped

(* A request that has begun is in RpcMap or its channel is closed, and of one  *)
(* that has not there is nothing.                                              *)
Begun(r) == caller[r] \in {"sending", "receiving", "polling", "returned"} /\ result[r] # "refused"

Registered(r) ==
  /\ Begun(r) <=> r \in rpcMap \/ r \in respClosed
  /\ r \in respClosed => r \notin rpcMap
  /\ ~Begun(r) => /\ respCh[r] = << >> /\ finalizer[r] = "none" /\ got[r] = 0
                  /\ r \notin expired /\ r \notin cancelled
  /\ finalizer[r] = "over" => r \notin rpcMap

\* Whether the peer has the request, or will.
Out(r) == r \in sent \/ \E k \in DOMAIN outputCh : outputCh[k] = r

\* Its time is over, or it is being cleaned up.
Due(r) == r \in expired \/ finalizer[r] # "none"

\* Where the caller is, and what it may have returned.
Called(r) ==
  /\ caller[r] = "returned" <=> result[r] # "none"
  /\ Out(r) => Begun(r) /\ caller[r] # "sending"
  /\ caller[r] = "sending" => finalizer[r] = "none"
  /\ r \in Calls /\ finalizer[r] # "none" => caller[r] = "returned"
  /\ result[r] \in {"ended", "closed"} => r \in respClosed /\ respCh[r] = << >>
  /\ result[r] \in {"timeout", "send timeout"} =>
       r \in expired \/ (r \in Streams /\ result[r] = "timeout" /\ finalizer[r] # "none")

\* Nothing is cancelled, closed or timed out without a cause.
Caused(r) ==
  /\ r \in cancelled => finalizer[r] # "none" \/ r \in respClosed
  /\ r \in respClosed => Due(r) \/ r \in failed \/ r \in answered
  /\ \A k \in DOMAIN ctxDoneCh : ctxDoneCh[k] = r => CtxDone(r)
  /\ \A k \in DOMAIN respCh[r] : respCh[r][k] = "timeout" => Due(r)
  /\ r \in failed \/ r \in answered => r \in sent

\* The last response to a request is the last, wherever it is.
HeldOf(r) == server \in {"delivering", "blocking", "delivered"} /\ held.id = r
Ordered(r) ==
  /\ \A k \in DOMAIN inputCh : inputCh[k].id = r =>
       /\ r \in sent
       /\ IsLast(inputCh[k]) => /\ r \in answered
                                /\ \A l \in DOMAIN inputCh : inputCh[l].id = r => l <= k
  /\ HeldOf(r) => /\ r \in sent
                  /\ IsLast(held) => r \in answered /\ \A k \in DOMAIN inputCh : inputCh[k].id # r

(* Every response is taken, in the caller's channel, or coming, until the      *)
(* channel is closed; and when it is closed for no failure they all came.      *)
OfRequest(s, r) == {k \in DOMAIN s : s[k].id = r}
Count(s, r) == Cardinality(OfRequest(s, r))
InHand(r) == IF server \in {"delivering", "blocking"} /\ held.id = r THEN 1 ELSE 0
Well(r) == ~Due(r) /\ r \notin failed
Taken(r) == got[r] + Len(respCh[r])

Accounted(r) ==
  Well(r) => /\ r \in respClosed => r \in answered /\ Taken(r) = answers[r]
             /\ r \notin respClosed /\ server \notin {"ending", "done"} =>
                  Taken(r) + (Count(inputCh, r) + InHand(r)) = answers[r]

Fits(r) == Registered(r) /\ Called(r) /\ Caused(r) /\ Ordered(r) /\ Accounted(r)

RpcInv == Typed /\ \A r \in Waiters : Fits(r)
-----------------------------------------------------------------------------
(* How many of the messages in a channel are responses to a request.          *)

LEMMA PlacesFinite ==
  ASSUME NEW n \in Nat, NEW A, A \subseteq 1 .. n
  PROVE  IsFiniteSet(A)
<1>1. IsFiniteSet(1 .. n)
  BY FS_Interval
<1>2. A \in SUBSET (1 .. n)
  OBVIOUS
<1>3. QED BY <1>1, <1>2, FS_Subset

LEMMA CountAppend ==
  ASSUME NEW s \in Seq(Messages), NEW m \in Messages, NEW r
  PROVE  Count(Append(s, m), r) = Count(s, r) + (IF m.id = r THEN 1 ELSE 0)
<1> DEFINE A == OfRequest(s, r)
           n == Len(s) + 1
<1>1. n \in Nat /\ A \subseteq 1 .. Len(s) /\ n \notin A
  BY DEF OfRequest
<1>2. IsFiniteSet(A)
  <2>1. Len(s) \in Nat
    OBVIOUS
  <2> HIDE DEF A
  <2>2. QED BY <1>1, <2>1, PlacesFinite
<1>3. OfRequest(Append(s, m), r) = IF m.id = r THEN A \cup {n} ELSE A
  BY DEF OfRequest
<1> HIDE DEF A
<1>4. Cardinality(A) \in Nat /\ Cardinality(A \cup {n}) = Cardinality(A) + 1
  BY <1>1, <1>2, FS_CardinalityType, FS_AddElement
<1>5. QED BY <1>3, <1>4 DEF Count, A

LEMMA CountTail ==
  ASSUME NEW s \in Seq(Messages), s # << >>, NEW r
  PROVE  Count(s, r) = Count(Tail(s), r) + (IF Head(s).id = r THEN 1 ELSE 0)
<1> DEFINE A == OfRequest(Tail(s), r)
           B == OfRequest(s, r) \ {1}
           f == [k \in A |-> k + 1]
<1>1. /\ Tail(s) \in Seq(Messages) /\ Len(Tail(s)) = Len(s) - 1 /\ Len(s) \in Nat \ {0}
      /\ \A k \in 1 .. Len(s) - 1 : Tail(s)[k] = s[k + 1]
      /\ Head(s) = s[1]
  OBVIOUS
<1>2. /\ A \subseteq 1 .. Len(s) - 1 /\ \A k \in 1 .. Len(s) - 1 : k \in A <=> k + 1 \in B
      /\ B \subseteq 2 .. Len(s)
  BY <1>1 DEF OfRequest
<1>3. IsFiniteSet(A) /\ IsFiniteSet(B)
  <2>1. A \subseteq 1 .. Len(s) /\ B \subseteq 1 .. Len(s) /\ Len(s) \in Nat
    BY <1>1, <1>2
  <2> HIDE DEF A, B
  <2>2. QED BY <2>1, PlacesFinite
<1>4. f \in Bijection(A, B)
  <2>1. f \in [A -> B]
    BY <1>2
  <2>2. \A a, b \in A : f[a] = f[b] => a = b
    BY <1>2
  <2>3. \A b \in B : \E a \in A : f[a] = b
    <3>1. ASSUME NEW b \in B PROVE b - 1 \in A /\ f[b - 1] = b
      BY <1>1, <1>2
    <3>2. QED BY <3>1
  <2>4. QED BY <2>1, <2>2, <2>3 DEF Bijection, Injection, Surjection, IsInjective
<1>5. Cardinality(B) = Cardinality(A) /\ Cardinality(A) \in Nat
  BY <1>3, <1>4, FS_Bijection, FS_CardinalityType DEF ExistsBijection
<1>6. OfRequest(s, r) = IF Head(s).id = r THEN B \cup {1} ELSE B
  BY <1>1 DEF OfRequest
<1>7. Cardinality(B \cup {1}) = Cardinality(B) + 1
  BY <1>3, FS_AddElement
<1> HIDE DEF A, B
<1>8. QED BY <1>5, <1>6, <1>7 DEF Count, A

LEMMA CountNat ==
  ASSUME NEW s \in Seq(Messages), NEW r
  PROVE  Count(s, r) \in Nat /\ ((\A k \in DOMAIN s : s[k].id # r) => Count(s, r) = 0)
<1>1. OfRequest(s, r) \subseteq 1 .. Len(s) /\ Len(s) \in Nat
  BY DEF OfRequest
<1>2. IsFiniteSet(OfRequest(s, r))
  BY <1>1, PlacesFinite
<1>3. Count(s, r) \in Nat
  BY <1>2, FS_CardinalityType DEF Count
<1>4. ASSUME \A k \in DOMAIN s : s[k].id # r PROVE Count(s, r) = 0
  <2>1. OfRequest(s, r) = {}
    BY <1>4 DEF OfRequest
  <2>2. QED BY <2>1, FS_EmptySet DEF Count
<1>5. QED BY <1>3, <1>4
-----------------------------------------------------------------------------
(* What is common to the actions.                                             *)

LEMMA WaiterIs ==
  ASSUME NEW r \in Waiters
  PROVE  r \in Requests /\ Id(r) = r /\ r # NoId /\ r \in Ids /\ r \notin Commands
         /\ \A x \in Requests : Id(x) = r => x = r
  BY RpcAssumption DEF Waiters, Requests, Id, Ids

\* Unregistering another id is nothing to a request, nor is it once it is out.
LEMMA UnregisterOther ==
  ASSUME Typed, NEW id, NEW err \in BOOLEAN, Unregister(id, err),
         NEW r \in Waiters, id # r \/ r \notin rpcMap
  PROVE  /\ r \in rpcMap' <=> r \in rpcMap
         /\ r \in respClosed' <=> r \in respClosed
         /\ r \in cancelled' <=> r \in cancelled
         /\ respCh'[r] = respCh[r]
<1>1. r \in Requests /\ r \notin Entry(id)
  BY WaiterIs DEF Entry
<1>2. QED BY <1>1 DEF Unregister

LEMMA UnregisterOwn ==
  ASSUME Typed, NEW r \in Waiters, r \in rpcMap, NEW err \in BOOLEAN, Unregister(r, err)
  PROVE  /\ r \notin rpcMap' /\ r \in respClosed' /\ r \in cancelled'
         /\ respCh'[r] = respCh[r] \/ (err /\ respCh'[r] = Append(respCh[r], "timeout"))
<1>1. r \in Requests /\ r \in Entry(r)
  BY WaiterIs DEF Entry
<1>2. QED BY <1>1 DEF Unregister

LEMMA UnregisterTyped ==
  ASSUME TableTyped, NEW id, NEW err \in BOOLEAN, Unregister(id, err)
  PROVE  TableTyped'
<1>1. Entry(id) \subseteq Requests /\ rpcMap' \subseteq rpcMap
  BY DEF Entry, Unregister, TableTyped
<1>2. \A r \in Requests : respCh[r] \in Seq({"data", "timeout"})
                          /\ Append(respCh[r], "timeout") \in Seq({"data", "timeout"})
  BY DEF TableTyped
<1>3. respCh' \in [Requests -> Seq({"data", "timeout"})]
  BY <1>2 DEF Unregister
<1>4. QED BY <1>1, <1>3 DEF TableTyped, Unregister

\* A step that leaves what r is and has as it was.
Untouched(r) ==
  /\ caller'[r] = caller[r] /\ result'[r] = result[r] /\ finalizer'[r] = finalizer[r]
  /\ got'[r] = got[r] /\ respCh'[r] = respCh[r] /\ answers'[r] = answers[r]
  /\ r \in rpcMap' <=> r \in rpcMap
  /\ r \in respClosed' <=> r \in respClosed
  /\ r \in cancelled' <=> r \in cancelled
  /\ r \in expired' <=> r \in expired
  /\ r \in failed' <=> r \in failed
  /\ r \in sent => r \in sent'
  /\ r \in answered' <=> r \in answered
  /\ Out(r)' => Out(r)
  /\ \A k \in DOMAIN ctxDoneCh' : ctxDoneCh'[k] = r =>
       CtxDone(r) \/ \E l \in DOMAIN ctxDoneCh : ctxDoneCh[l] = r

LEMMA UntouchedKeeps ==
  ASSUME NEW r \in Waiters, Fits(r), Untouched(r)
  PROVE  Registered(r)' /\ Called(r)' /\ Caused(r)'
<1>1. Registered(r)'
  BY DEF Fits, Untouched, Registered, Begun
<1>2. Called(r)'
  BY DEF Fits, Untouched, Called, Begun, Registered
<1>3. Caused(r)'
  <2>1. Due(r)' <=> Due(r)
    BY DEF Due, Untouched
  <2>2. CtxDone(r)' <=> CtxDone(r)
    BY DEF CtxDone, Untouched
  <2>3. \A k \in DOMAIN ctxDoneCh' : ctxDoneCh'[k] = r => CtxDone(r)'
    BY <2>2 DEF Fits, Caused, Untouched
  <2>4. \A k \in DOMAIN respCh'[r] : respCh'[r][k] = "timeout" => Due(r)'
    BY <2>1 DEF Fits, Caused, Untouched
  <2>5. QED BY <2>1, <2>3, <2>4 DEF Fits, Caused, Untouched
<1>4. QED BY <1>1, <1>2, <1>3

\* What the server and the peer do with the responses to others is nothing to r.
LEMMA CountKept ==
  ASSUME NEW r \in Waiters, Fits(r), Untouched(r), Ordered(r)',
         Count(inputCh', r) + InHand(r)' = Count(inputCh, r) + InHand(r),
         server \in {"ending", "done"} => server' \in {"ending", "done"}
  PROVE  Fits(r)'
<1>1. Well(r)' <=> Well(r)
  BY DEF Well, Due, Untouched
<1>2. Taken(r)' = Taken(r)
  BY DEF Taken, Untouched
<1>3. Accounted(r)'
  BY <1>1, <1>2 DEF Fits, Accounted, Untouched
<1>4. QED BY <1>3, UntouchedKeeps DEF Fits

\* Nor is a step that leaves responses alone.
LEMMA OtherKeeps ==
  ASSUME NEW r \in Waiters, Fits(r), Untouched(r), UNCHANGED <<inputCh, held, server>>
  PROVE  Fits(r)'
<1>1. Ordered(r)'
  BY DEF Fits, Ordered, HeldOf, Untouched, IsLast
<1>2. Count(inputCh', r) + InHand(r)' = Count(inputCh, r) + InHand(r)
  BY DEF InHand
<1>3. QED BY <1>1, <1>2, CountKept

\* A step of the caller's side of r: the responses on their way are left alone.
LEMMA CallerKeeps ==
  ASSUME Typed, NEW r \in Waiters, Fits(r), Registered(r)', Called(r)', Caused(r)',
         UNCHANGED <<inputCh, held, server, sent, answered, answers, failed>>,
         Well(r)' => /\ Well(r) /\ Taken(r)' = Taken(r)
                     /\ r \in respClosed' <=> r \in respClosed
  PROVE  Fits(r)'
<1>1. Ordered(r)'
  BY DEF Fits, Ordered, HeldOf, IsLast
<1>2. Accounted(r)'
  BY DEF Fits, Accounted, InHand
<1>3. QED BY <1>1, <1>2 DEF Fits
-----------------------------------------------------------------------------
(* The callers.                                                               *)

LEMMA CheckKeeps == ASSUME RpcInv, NEW q \in Requests, Check(q) PROVE RpcInv'
<1>1. Typed'
  BY DEF RpcInv, Typed, ChannelsTyped, TableTyped, CallersTyped, PeerTyped, HeldTyped, Results,
         Check, Return, channels, table, loop, callers, peer
<1>2. ASSUME NEW r \in Waiters, r # q PROVE Fits(r)'
  <2>1. r \in Requests /\ Fits(r)
    BY <1>2, WaiterIs DEF RpcInv
  <2>2. Untouched(r)
    BY <1>2, <2>1, WaiterIs DEF Untouched, RpcInv, Typed, ChannelsTyped, TableTyped, CallersTyped, PeerTyped, Out,
       Check, Return, channels, table, loop, callers, peer
  <2>3. QED BY <2>1, <2>2, OtherKeeps DEF Check, channels, table, loop, callers, peer
<1>3. ASSUME q \in Waiters PROVE Fits(q)'
  <2>1. Fits(q) /\ Typed /\ Id(q) = q /\ q # NoId
    BY <1>3, WaiterIs DEF RpcInv
  <2>2. Registered(q)'
    BY <2>1 DEF Fits, Registered, Begun, Typed, CallersTyped, TableTyped, Check, Return, channels, table, loop, callers, peer
  <2>3. Called(q)'
    BY <2>1 DEF Fits, Registered, Called, Begun, Out, Typed, CallersTyped, TableTyped, Check, Return, channels, table, loop, callers, peer
  <2>4. Caused(q)'
    BY <2>1 DEF Fits, Caused, Due, CtxDone, Registered, Typed, CallersTyped, TableTyped, Check, Return, channels, table, loop, callers, peer
  <2>5. Well(q)' => /\ Well(q) /\ Taken(q)' = Taken(q)
                    /\ q \in respClosed' <=> q \in respClosed
    BY <2>1 DEF Well, Due, Taken, Typed, CallersTyped, TableTyped, Check, Return, channels, table, loop, callers, peer
  <2>6. QED BY <1>3, <2>1, <2>2, <2>3, <2>4, <2>5, CallerKeeps DEF Check, channels, table, loop, callers, peer
<1>4. QED BY <1>1, <1>2, <1>3 DEF RpcInv

LEMMA RegisterKeeps == ASSUME RpcInv, NEW q \in Requests, Register(q) PROVE RpcInv'
<1>1. Typed'
  BY DEF RpcInv, Typed, ChannelsTyped, TableTyped, CallersTyped, PeerTyped, HeldTyped, Results,
         Register, Entry, channels, table, loop, callers, peer
<1>2. ASSUME NEW r \in Waiters, r # q PROVE Fits(r)'
  <2>1. r \in Requests /\ Fits(r)
    BY <1>2, WaiterIs DEF RpcInv
  <2>2. Untouched(r)
    BY <1>2, <2>1, WaiterIs DEF Untouched, RpcInv, Typed, ChannelsTyped, TableTyped, CallersTyped, PeerTyped, Out,
       Register, Entry, channels, table, loop, callers, peer
  <2>3. QED BY <2>1, <2>2, OtherKeeps DEF Register, channels, table, loop, callers, peer
<1>3. ASSUME q \in Waiters PROVE Fits(q)'
  <2>1. Fits(q) /\ Typed /\ Id(q) = q /\ q # NoId
    BY <1>3, WaiterIs DEF RpcInv
  <2>2. Registered(q)'
    BY <2>1 DEF Fits, Registered, Called, Begun, Typed, CallersTyped, TableTyped, Register, Entry, channels, table, loop, callers, peer
  <2>3. Called(q)'
    BY <2>1 DEF Fits, Registered, Called, Begun, Out, Typed, CallersTyped, TableTyped, Register, Entry, channels, table, loop, callers, peer
  <2>4. Caused(q)'
    BY <2>1 DEF Fits, Caused, Due, CtxDone, Registered, Typed, CallersTyped, TableTyped, Register, Entry, channels, table, loop, callers, peer
  <2>5. Well(q)' => /\ Well(q) /\ Taken(q)' = Taken(q)
                    /\ q \in respClosed' <=> q \in respClosed
    BY <2>1 DEF Well, Due, Taken, Typed, CallersTyped, TableTyped, Register, Entry, channels, table, loop, callers, peer
  <2>6. QED BY <1>3, <2>1, <2>2, <2>3, <2>4, <2>5, CallerKeeps DEF Register, channels, table, loop, callers, peer
<1>4. QED BY <1>1, <1>2, <1>3 DEF RpcInv

LEMMA SendRequestKeeps == ASSUME RpcInv, NEW q \in Requests, SendRequest(q) PROVE RpcInv'
<1>1. Typed'
  <2>1. Typed /\ Id(q) \in Ids /\ outputCh \in Seq(Ids)
    BY DEF RpcInv, Typed, ChannelsTyped, Id, Ids, Requests
  <2>2. ChannelsTyped'
    BY <2>1 DEF Typed, ChannelsTyped, SendRequest
  <2>3. CallersTyped'
    BY <2>1 DEF Typed, CallersTyped, Results, SendRequest, Return, StartFinalizer
  <2>4. QED BY <2>1, <2>2, <2>3 DEF Typed, TableTyped, PeerTyped, HeldTyped, SendRequest, table, loop, peer
<1>2. ASSUME NEW r \in Waiters, r # q PROVE Fits(r)'
  <2>1. r \in Requests /\ Fits(r)
    BY <1>2, WaiterIs DEF RpcInv
  <2>2. Untouched(r)
    BY <1>2, <2>1, WaiterIs DEF Untouched, RpcInv, Typed, ChannelsTyped, TableTyped, CallersTyped, PeerTyped, Out,
       SendRequest, Return, StartFinalizer, channels, table, loop, callers, peer
  <2>3. QED BY <2>1, <2>2, OtherKeeps DEF SendRequest, channels, table, loop, callers, peer
<1>3. ASSUME q \in Waiters PROVE Fits(q)'
  <2>1. Fits(q) /\ Typed /\ Id(q) = q /\ q # NoId
    BY <1>3, WaiterIs DEF RpcInv
  <2>2. Registered(q)'
    BY <2>1 DEF Fits, Registered, Called, Begun, Typed, CallersTyped, TableTyped, SendRequest, Return, StartFinalizer, channels, table, loop, callers, peer
  <2>3. Called(q)'
    BY <2>1 DEF Fits, Registered, Called, Begun, Out, Typed, CallersTyped, TableTyped, SendRequest, Return, StartFinalizer, channels, table, loop, callers, peer
  <2>4. Caused(q)'
    BY <2>1 DEF Fits, Caused, Due, CtxDone, Registered, Typed, CallersTyped, TableTyped, SendRequest, Return, StartFinalizer, channels, table, loop, callers, peer
  <2>5. Well(q)' => /\ Well(q) /\ Taken(q)' = Taken(q)
                    /\ q \in respClosed' <=> q \in respClosed
    BY <2>1 DEF Well, Due, Taken, Typed, CallersTyped, TableTyped, SendRequest, Return, StartFinalizer, channels, table, loop, callers, peer
  <2>6. QED BY <1>3, <2>1, <2>2, <2>3, <2>4, <2>5, CallerKeeps DEF SendRequest, channels, table, loop, callers, peer
<1>4. QED BY <1>1, <1>2, <1>3 DEF RpcInv

LEMMA SendTimesOutKeeps == ASSUME RpcInv, NEW q \in Requests, SendTimesOut(q) PROVE RpcInv'
<1>1. Typed'
  BY DEF RpcInv, Typed, ChannelsTyped, TableTyped, CallersTyped, PeerTyped, HeldTyped, Results,
         SendTimesOut, Return, StartFinalizer, channels, table, loop, callers, peer
<1>2. ASSUME NEW r \in Waiters, r # q PROVE Fits(r)'
  <2>1. r \in Requests /\ Fits(r)
    BY <1>2, WaiterIs DEF RpcInv
  <2>2. Untouched(r)
    BY <1>2, <2>1, WaiterIs DEF Untouched, RpcInv, Typed, ChannelsTyped, TableTyped, CallersTyped, PeerTyped, Out,
       SendTimesOut, Return, StartFinalizer, channels, table, loop, callers, peer
  <2>3. QED BY <2>1, <2>2, OtherKeeps DEF SendTimesOut, channels, table, loop, callers, peer
<1>3. ASSUME q \in Waiters PROVE Fits(q)'
  <2>1. Fits(q) /\ Typed /\ Id(q) = q /\ q # NoId
    BY <1>3, WaiterIs DEF RpcInv
  <2>2. Registered(q)'
    BY <2>1 DEF Fits, Registered, Called, Begun, Typed, CallersTyped, TableTyped, SendTimesOut, Return, StartFinalizer, channels, table, loop, callers, peer
  <2>3. Called(q)'
    <3>1. q \in expired
      <4>1. caller[q] = "sending" /\ CtxDone(q) /\ finalizer[q] = "none" /\ q \notin sent
        BY <2>1 DEF Fits, Called, SendTimesOut, Out
      <4>2. QED BY <2>1, <4>1 DEF Fits, Caused, Due, CtxDone
    <3>2. /\ caller'[q] = "returned" /\ result'[q] = "send timeout" /\ finalizer'[q] = "cancelling"
          /\ UNCHANGED <<respClosed, respCh, expired, sent, outputCh>>
      BY <2>1 DEF Typed, CallersTyped, SendTimesOut, Return, StartFinalizer, channels, table, peer
    <3>3. ~Out(q)'
      BY <2>1, <3>2 DEF Fits, Called, SendTimesOut, Out
    <3>4. QED BY <3>1, <3>2, <3>3 DEF Called
  <2>4. Caused(q)'
    BY <2>1 DEF Fits, Caused, Due, CtxDone, Registered, Typed, CallersTyped, TableTyped, SendTimesOut, Return, StartFinalizer, channels, table, loop, callers, peer
  <2>5. Well(q)' => /\ Well(q) /\ Taken(q)' = Taken(q)
                    /\ q \in respClosed' <=> q \in respClosed
    BY <2>1 DEF Well, Due, Taken, Typed, CallersTyped, TableTyped, SendTimesOut, Return, StartFinalizer, channels, table, loop, callers, peer
  <2>6. QED BY <1>3, <2>1, <2>2, <2>3, <2>4, <2>5, CallerKeeps DEF SendTimesOut, channels, table, loop, callers, peer
<1>4. QED BY <1>1, <1>2, <1>3 DEF RpcInv

LEMMA SendPanicsKeeps == ASSUME RpcInv, NEW q \in Requests, SendPanics(q) PROVE RpcInv'
<1>1. Typed'
  BY DEF RpcInv, Typed, ChannelsTyped, TableTyped, CallersTyped, PeerTyped, HeldTyped, Results,
         SendPanics, Return, channels, table, loop, callers, peer
<1>2. ASSUME NEW r \in Waiters, r # q PROVE Fits(r)'
  <2>1. r \in Requests /\ Fits(r)
    BY <1>2, WaiterIs DEF RpcInv
  <2>2. Untouched(r)
    BY <1>2, <2>1, WaiterIs DEF Untouched, RpcInv, Typed, ChannelsTyped, TableTyped, CallersTyped, PeerTyped, Out,
       SendPanics, Return, channels, table, loop, callers, peer
  <2>3. QED BY <2>1, <2>2, OtherKeeps DEF SendPanics, channels, table, loop, callers, peer
<1>3. ASSUME q \in Waiters PROVE Fits(q)'
  <2>1. Fits(q) /\ Typed /\ Id(q) = q /\ q # NoId
    BY <1>3, WaiterIs DEF RpcInv
  <2>2. Registered(q)'
    BY <2>1 DEF Fits, Registered, Called, Begun, Typed, CallersTyped, TableTyped, SendPanics, Return, channels, table, loop, callers, peer
  <2>3. Called(q)'
    BY <2>1 DEF Fits, Registered, Called, Begun, Out, Typed, CallersTyped, TableTyped, SendPanics, Return, channels, table, loop, callers, peer
  <2>4. Caused(q)'
    BY <2>1 DEF Fits, Caused, Due, CtxDone, Registered, Typed, CallersTyped, TableTyped, SendPanics, Return, channels, table, loop, callers, peer
  <2>5. Well(q)' => /\ Well(q) /\ Taken(q)' = Taken(q)
                    /\ q \in respClosed' <=> q \in respClosed
    BY <2>1 DEF Well, Due, Taken, Typed, CallersTyped, TableTyped, SendPanics, Return, channels, table, loop, callers, peer
  <2>6. QED BY <1>3, <2>1, <2>2, <2>3, <2>4, <2>5, CallerKeeps DEF SendPanics, channels, table, loop, callers, peer
<1>4. QED BY <1>1, <1>2, <1>3 DEF RpcInv

LEMMA TakeResponseKeeps == ASSUME RpcInv, NEW q \in Requests, TakeResponse(q) PROVE RpcInv'
<1>1. Typed'
  <2>1. Typed /\ respCh[q] \in Seq({"data", "timeout"}) /\ respCh[q] # << >> /\ got[q] + 1 \in Nat
    BY DEF RpcInv, Typed, TableTyped, CallersTyped, TakeResponse
  <2>2. Tail(respCh[q]) \in Seq({"data", "timeout"})
    BY <2>1
  <2>3. TableTyped'
    BY <2>1, <2>2 DEF Typed, TableTyped, TakeResponse
  <2>4. CallersTyped'
    BY <2>1 DEF Typed, CallersTyped, Results, TakeResponse, Return, StartFinalizer
  <2>5. QED BY <2>1, <2>3, <2>4 DEF Typed, ChannelsTyped, PeerTyped, HeldTyped, TakeResponse, channels, loop, peer
<1>2. ASSUME NEW r \in Waiters, r # q PROVE Fits(r)'
  <2>1. r \in Requests /\ Fits(r)
    BY <1>2, WaiterIs DEF RpcInv
  <2>2. Untouched(r)
    BY <1>2, <2>1, WaiterIs DEF Untouched, RpcInv, Typed, ChannelsTyped, TableTyped, CallersTyped, PeerTyped, Out,
       TakeResponse, Return, StartFinalizer, channels, table, loop, callers, peer
  <2>3. QED BY <2>1, <2>2, OtherKeeps DEF TakeResponse, channels, table, loop, callers, peer
<1>3. ASSUME q \in Waiters PROVE Fits(q)'
  <2>1. Fits(q) /\ Typed /\ Id(q) = q /\ q # NoId
    BY <1>3, WaiterIs DEF RpcInv
  <2>2. Registered(q)'
    BY <2>1 DEF Fits, Registered, Begun, Typed, CallersTyped, TableTyped, TakeResponse, Return, StartFinalizer, channels, table, loop, callers, peer
  <2>3. Called(q)'
    <3>1. UNCHANGED <<respClosed, expired, sent, outputCh>>
      BY DEF TakeResponse, channels, peer
    <3>2. Out(q)' <=> Out(q)
      BY <3>1 DEF Out
    <3>3. caller[q] \in {"receiving", "polling"} /\ result[q] = "none" /\ Begun(q)
      BY <2>1 DEF Fits, Called, TakeResponse, Begun
    <3>4. q \in Calls => finalizer[q] = "none"
      BY <2>1, <3>3 DEF Fits, Called
    <3>5. CASE Head(respCh[q]) = "timeout"
      <4>1. Due(q)
        <5>1. 1 \in DOMAIN respCh[q] /\ respCh[q][1] = "timeout"
          BY <2>1, <3>5 DEF TakeResponse, Typed, TableTyped
        <5>2. QED BY <2>1, <5>1 DEF Fits, Caused
      <4>2. caller'[q] = "returned" /\ result'[q] = "timeout"
        BY <2>1, <3>5 DEF TakeResponse, Return, Typed, CallersTyped
      <4>3. q \in Streams => finalizer'[q] = finalizer[q]
        BY RpcAssumption DEF TakeResponse
      <4>4. QED BY <1>3, <3>1, <3>2, <3>3, <3>4, <4>1, <4>2, <4>3 DEF Called, Due, Begun, Waiters
    <3>6. CASE Head(respCh[q]) # "timeout" /\ q \in Calls
      <4>1. caller'[q] = "returned" /\ result'[q] = "response"
        BY <2>1, <3>6 DEF TakeResponse, Return, Typed, CallersTyped
      <4>2. QED BY <3>1, <3>2, <3>3, <4>1 DEF Called, Begun
    <3>7. CASE Head(respCh[q]) # "timeout" /\ q \notin Calls
      <4>1. caller'[q] = "polling" /\ result'[q] = result[q]
        BY <2>1, <3>7 DEF TakeResponse, Typed, CallersTyped
      <4>2. QED BY <3>1, <3>2, <3>3, <3>7, <4>1 DEF Called, Begun
    <3>8. QED BY <3>5, <3>6, <3>7
  <2>4. Caused(q)'
    BY <2>1 DEF Fits, Caused, Due, CtxDone, Registered, Typed, CallersTyped, TableTyped, TakeResponse, Return, StartFinalizer, channels, table, loop, callers, peer
  <2>5. Well(q)' => /\ Well(q) /\ Taken(q)' = Taken(q)
                    /\ q \in respClosed' <=> q \in respClosed
    <3>1. /\ respCh[q] \in Seq({"data", "timeout"}) /\ respCh[q] # << >> /\ got[q] \in Nat
          /\ respCh'[q] = Tail(respCh[q]) /\ 1 \in DOMAIN respCh[q] /\ Head(respCh[q]) = respCh[q][1]
      BY <2>1 DEF TakeResponse, Typed, TableTyped, CallersTyped
    <3>2. UNCHANGED <<respClosed, expired, failed>>
      BY DEF TakeResponse, loop
    <3>3. Well(q)' => Well(q)
      BY <2>1, <3>2 DEF Well, Due, TakeResponse, StartFinalizer, Typed, CallersTyped
    <3>4. Well(q) => Head(respCh[q]) # "timeout"
      BY <2>1, <3>1 DEF Well, Fits, Caused
    <3>5. Head(respCh[q]) # "timeout" => got'[q] = got[q] + 1
      BY <2>1 DEF TakeResponse, Typed, CallersTyped
    <3>6. Len(Tail(respCh[q])) = Len(respCh[q]) - 1 /\ Len(respCh[q]) \in Nat
      BY <3>1
    <3>7. QED BY <3>1, <3>2, <3>3, <3>4, <3>5, <3>6 DEF Taken
  <2>6. QED BY <1>3, <2>1, <2>2, <2>3, <2>4, <2>5, CallerKeeps DEF TakeResponse, channels, table, loop, callers, peer
<1>4. QED BY <1>1, <1>2, <1>3 DEF RpcInv

LEMMA PollNothingKeeps == ASSUME RpcInv, NEW q \in Requests, PollNothing(q) PROVE RpcInv'
<1>1. Typed'
  BY DEF RpcInv, Typed, ChannelsTyped, TableTyped, CallersTyped, PeerTyped, HeldTyped, Results,
         PollNothing, channels, table, loop, callers, peer
<1>2. ASSUME NEW r \in Waiters, r # q PROVE Fits(r)'
  <2>1. r \in Requests /\ Fits(r)
    BY <1>2, WaiterIs DEF RpcInv
  <2>2. Untouched(r)
    BY <1>2, <2>1, WaiterIs DEF Untouched, RpcInv, Typed, ChannelsTyped, TableTyped, CallersTyped, PeerTyped, Out,
       PollNothing, channels, table, loop, callers, peer
  <2>3. QED BY <2>1, <2>2, OtherKeeps DEF PollNothing, channels, table, loop, callers, peer
<1>3. ASSUME q \in Waiters PROVE Fits(q)'
  <2>1. Fits(q) /\ Typed /\ Id(q) = q /\ q # NoId
    BY <1>3, WaiterIs DEF RpcInv
  <2>2. Registered(q)'
    BY <2>1 DEF Fits, Registered, Begun, Typed, CallersTyped, TableTyped, PollNothing, channels, table, loop, callers, peer
  <2>3. Called(q)'
    BY <2>1 DEF Fits, Registered, Called, Begun, Out, Typed, CallersTyped, TableTyped, PollNothing, channels, table, loop, callers, peer
  <2>4. Caused(q)'
    BY <2>1 DEF Fits, Caused, Due, CtxDone, Registered, Typed, CallersTyped, TableTyped, PollNothing, channels, table, loop, callers, peer
  <2>5. Well(q)' => /\ Well(q) /\ Taken(q)' = Taken(q)
                    /\ q \in respClosed' <=> q \in respClosed
    BY <2>1 DEF Well, Due, Taken, Typed, CallersTyped, TableTyped, PollNothing, channels, table, loop, callers, peer
  <2>6. QED BY <1>3, <2>1, <2>2, <2>3, <2>4, <2>5, CallerKeeps DEF PollNothing, channels, table, loop, callers, peer
<1>4. QED BY <1>1, <1>2, <1>3 DEF RpcInv

LEMMA TakeClosedKeeps == ASSUME RpcInv, NEW q \in Requests, TakeClosed(q) PROVE RpcInv'
<1>1. Typed'
  BY DEF RpcInv, Typed, ChannelsTyped, TableTyped, CallersTyped, PeerTyped, HeldTyped, Results,
         TakeClosed, Return, StartFinalizer, channels, table, loop, callers, peer
<1>2. ASSUME NEW r \in Waiters, r # q PROVE Fits(r)'
  <2>1. r \in Requests /\ Fits(r)
    BY <1>2, WaiterIs DEF RpcInv
  <2>2. Untouched(r)
    BY <1>2, <2>1, WaiterIs DEF Untouched, RpcInv, Typed, ChannelsTyped, TableTyped, CallersTyped, PeerTyped, Out,
       TakeClosed, Return, StartFinalizer, channels, table, loop, callers, peer
  <2>3. QED BY <2>1, <2>2, OtherKeeps DEF TakeClosed, channels, table, loop, callers, peer
<1>3. ASSUME q \in Waiters PROVE Fits(q)'
  <2>1. Fits(q) /\ Typed /\ Id(q) = q /\ q # NoId
    BY <1>3, WaiterIs DEF RpcInv
  <2>2. Registered(q)'
    BY <2>1 DEF Fits, Registered, Begun, Typed, CallersTyped, TableTyped, TakeClosed, Return, StartFinalizer, channels, table, loop, callers, peer
  <2>3. Called(q)'
    BY <2>1 DEF Fits, Registered, Called, Begun, Out, Typed, CallersTyped, TableTyped, TakeClosed, Return, StartFinalizer, channels, table, loop, callers, peer
  <2>4. Caused(q)'
    BY <2>1 DEF Fits, Caused, Due, CtxDone, Registered, Typed, CallersTyped, TableTyped, TakeClosed, Return, StartFinalizer, channels, table, loop, callers, peer
  <2>5. Well(q)' => /\ Well(q) /\ Taken(q)' = Taken(q)
                    /\ q \in respClosed' <=> q \in respClosed
    BY <2>1 DEF Well, Due, Taken, Typed, CallersTyped, TableTyped, TakeClosed, Return, StartFinalizer, channels, table, loop, callers, peer
  <2>6. QED BY <1>3, <2>1, <2>2, <2>3, <2>4, <2>5, CallerKeeps DEF TakeClosed, channels, table, loop, callers, peer
<1>4. QED BY <1>1, <1>2, <1>3 DEF RpcInv

LEMMA CancelKeeps == ASSUME RpcInv, NEW q \in Requests, Cancel(q) PROVE RpcInv'
<1>1. Typed'
  <2>1. Typed /\ NoId \in Ids /\ outputCh \in Seq(Ids)
    BY DEF RpcInv, Typed, ChannelsTyped, Ids
  <2>2. ChannelsTyped'
    BY <2>1 DEF Typed, ChannelsTyped, Cancel
  <2>3. CallersTyped'
    BY <2>1 DEF Typed, CallersTyped, Cancel, StartFinalizer
  <2>4. QED BY <2>1, <2>2, <2>3 DEF Typed, TableTyped, PeerTyped, HeldTyped, Cancel, table, loop, peer
<1>2. ASSUME NEW r \in Waiters, r # q PROVE Fits(r)'
  <2>1. r \in Requests /\ Fits(r)
    BY <1>2, WaiterIs DEF RpcInv
  <2>2. Untouched(r)
    <3>1. Out(r)' => Out(r)
      BY <2>1, <1>2, WaiterIs DEF RpcInv, Typed, ChannelsTyped, Out, Cancel, peer
    <3>2. QED BY <1>2, <2>1, <3>1 DEF Untouched, RpcInv, Typed, CallersTyped, Cancel, StartFinalizer, channels, table, loop, peer
  <2>3. QED BY <2>1, <2>2, OtherKeeps DEF Cancel, channels, table, loop, callers, peer
<1>3. ASSUME q \in Waiters PROVE Fits(q)'
  <2>1. Fits(q) /\ Typed /\ Id(q) = q /\ q # NoId
    BY <1>3, WaiterIs DEF RpcInv
  <2>2. Registered(q)'
    BY <2>1 DEF Fits, Registered, Begun, Typed, CallersTyped, TableTyped, Cancel, StartFinalizer, channels, table, loop, callers, peer
  <2>3. Called(q)'
    <3>1. Out(q)' => Out(q)
      BY <2>1 DEF Typed, ChannelsTyped, Out, Cancel, peer
    <3>2. /\ UNCHANGED <<caller, result, respClosed, respCh, expired>> /\ finalizer'[q] = "cancelling"
          /\ q \in Streams /\ caller[q] # "sending" /\ finalizer[q] = "none"
      BY <2>1 DEF Typed, CallersTyped, Cancel, StartFinalizer, table
    <3>3. q \notin Calls
      BY <3>2, RpcAssumption
    <3>4. QED BY <2>1, <3>1, <3>2, <3>3 DEF Fits, Called, Begun
  <2>4. Caused(q)'
    BY <2>1 DEF Fits, Caused, Due, CtxDone, Registered, Typed, CallersTyped, TableTyped, Cancel, StartFinalizer, channels, table, loop, callers, peer
  <2>5. Well(q)' => /\ Well(q) /\ Taken(q)' = Taken(q)
                    /\ q \in respClosed' <=> q \in respClosed
    BY <2>1 DEF Well, Due, Taken, Typed, CallersTyped, TableTyped, Cancel, StartFinalizer, channels, table, loop, callers, peer
  <2>6. QED BY <1>3, <2>1, <2>2, <2>3, <2>4, <2>5, CallerKeeps DEF Cancel, channels, table, loop, callers, peer
<1>4. QED BY <1>1, <1>2, <1>3 DEF RpcInv

LEMMA FinalizeContextKeeps == ASSUME RpcInv, NEW q \in Requests, FinalizeContext(q) PROVE RpcInv'
<1>1. Typed'
  BY DEF RpcInv, Typed, ChannelsTyped, TableTyped, CallersTyped, PeerTyped, HeldTyped, Results,
         FinalizeContext, channels, table, loop, callers, peer
<1>2. ASSUME NEW r \in Waiters, r # q PROVE Fits(r)'
  <2>1. r \in Requests /\ Fits(r)
    BY <1>2, WaiterIs DEF RpcInv
  <2>2. Untouched(r)
    BY <1>2, <2>1, WaiterIs DEF Untouched, RpcInv, Typed, ChannelsTyped, TableTyped, CallersTyped, PeerTyped, Out,
       FinalizeContext, channels, table, loop, callers, peer
  <2>3. QED BY <2>1, <2>2, OtherKeeps DEF FinalizeContext, channels, table, loop, callers, peer
<1>3. ASSUME q \in Waiters PROVE Fits(q)'
  <2>1. Fits(q) /\ Typed /\ Id(q) = q /\ q # NoId
    BY <1>3, WaiterIs DEF RpcInv
  <2>2. Registered(q)'
    BY <2>1 DEF Fits, Registered, Begun, Typed, CallersTyped, TableTyped, FinalizeContext, channels, table, loop, callers, peer
  <2>3. Called(q)'
    BY <2>1 DEF Fits, Registered, Called, Begun, Out, Typed, CallersTyped, TableTyped, FinalizeContext, channels, table, loop, callers, peer
  <2>4. Caused(q)'
    BY <2>1 DEF Fits, Caused, Due, CtxDone, Registered, Typed, CallersTyped, TableTyped, FinalizeContext, channels, table, loop, callers, peer
  <2>5. Well(q)' => /\ Well(q) /\ Taken(q)' = Taken(q)
                    /\ q \in respClosed' <=> q \in respClosed
    BY <2>1 DEF Well, Due, Taken, Typed, CallersTyped, TableTyped, FinalizeContext, channels, table, loop, callers, peer
  <2>6. QED BY <1>3, <2>1, <2>2, <2>3, <2>4, <2>5, CallerKeeps DEF FinalizeContext, channels, table, loop, callers, peer
<1>4. QED BY <1>1, <1>2, <1>3 DEF RpcInv

LEMMA FinalizeEntryKeeps == ASSUME RpcInv, NEW q \in Requests, FinalizeEntry(q) PROVE RpcInv'
<1>1. Typed'
  <2>1. TableTyped'
    BY UnregisterTyped DEF RpcInv, Typed, FinalizeEntry, table, TableTyped
  <2>2. CallersTyped'
    BY DEF RpcInv, Typed, CallersTyped, FinalizeEntry
  <2>3. QED BY <2>1, <2>2 DEF RpcInv, Typed, ChannelsTyped, PeerTyped, HeldTyped, FinalizeEntry, channels, loop, peer
<1>2. ASSUME NEW r \in Waiters, r # q PROVE Fits(r)'
  <2>1. r \in Requests /\ Fits(r)
    BY <1>2, WaiterIs DEF RpcInv
  <2>2. Untouched(r)
    <3>1. /\ r \in rpcMap' <=> r \in rpcMap
          /\ r \in respClosed' <=> r \in respClosed
          /\ r \in cancelled' <=> r \in cancelled
          /\ respCh'[r] = respCh[r]
      <4>1. CASE Id(q) # NoId
        <5>1. Unregister(Id(q), FALSE) /\ Id(q) # r
          BY <1>2, <4>1, WaiterIs DEF FinalizeEntry, Id
        <5>2. PICK id : id = Id(q)
          OBVIOUS
        <5>3. Unregister(id, FALSE) /\ id # r /\ Typed
          BY <5>1, <5>2 DEF RpcInv
        <5>4. r \notin Entry(id)
          BY <2>1, <5>3, WaiterIs DEF Entry
        <5>5. QED BY <2>1, <5>3, <5>4 DEF Unregister
      <4>2. CASE Id(q) = NoId
        BY <4>2 DEF FinalizeEntry, table
      <4>3. QED BY <4>1, <4>2
    <3>2. QED BY <1>2, <2>1, <3>1 DEF Untouched, Out, RpcInv, Typed, CallersTyped, FinalizeEntry, channels, loop, peer
  <2>3. QED BY <2>1, <2>2, OtherKeeps DEF FinalizeEntry, channels, table, loop, callers, peer
<1>3. ASSUME q \in Waiters PROVE Fits(q)'
  <2>1. Fits(q) /\ Typed /\ Id(q) = q /\ q # NoId
    BY <1>3, WaiterIs DEF RpcInv
  <2>2. Registered(q)'
    <3>1. Unregister(q, FALSE) /\ UNCHANGED <<caller, result, got, expired>> /\ finalizer'[q] = "over"
      BY <2>1 DEF FinalizeEntry, Typed, CallersTyped
    <3>2. Begun(q)
      BY <2>1 DEF Fits, Registered, FinalizeEntry
    <3>3. q \in rpcMap => q \notin rpcMap' /\ q \in respClosed'
      BY <1>3, <2>1, <3>1, UnregisterOwn
    <3>4. q \notin rpcMap => q \notin rpcMap' /\ (q \in respClosed' <=> q \in respClosed)
      BY <1>3, <2>1, <3>1, UnregisterOther
    <3>5. QED BY <2>1, <3>1, <3>2, <3>3, <3>4 DEF Fits, Registered, Begun
  <2>3. Called(q)'
    BY <2>1 DEF Fits, Registered, Called, Begun, Out, Typed, CallersTyped, TableTyped, FinalizeEntry, Unregister, channels, table, loop, callers, peer
  <2>4. Caused(q)'
    BY <2>1 DEF Fits, Caused, Due, CtxDone, Registered, Typed, CallersTyped, TableTyped, FinalizeEntry, Unregister, channels, table, loop, callers, peer
  <2>5. Well(q)' => /\ Well(q) /\ Taken(q)' = Taken(q)
                    /\ q \in respClosed' <=> q \in respClosed
    BY <2>1 DEF Well, Due, Taken, Typed, CallersTyped, TableTyped, FinalizeEntry, Unregister, channels, table, loop, callers, peer
  <2>6. QED BY <1>3, <2>1, <2>2, <2>3, <2>4, <2>5, CallerKeeps DEF FinalizeEntry, channels, table, loop, callers, peer
<1>4. QED BY <1>1, <1>2, <1>3 DEF RpcInv

LEMMA ExpireKeeps == ASSUME RpcInv, NEW q \in Requests, Expire(q) PROVE RpcInv'
<1>1. Typed'
  BY DEF RpcInv, Typed, ChannelsTyped, TableTyped, CallersTyped, PeerTyped, HeldTyped, Results,
         Expire, channels, table, loop, callers, peer
<1>2. ASSUME NEW r \in Waiters, r # q PROVE Fits(r)'
  <2>1. r \in Requests /\ Fits(r)
    BY <1>2, WaiterIs DEF RpcInv
  <2>2. Untouched(r)
    BY <1>2, <2>1, WaiterIs DEF Untouched, RpcInv, Typed, ChannelsTyped, TableTyped, CallersTyped, PeerTyped, Out,
       Expire, channels, table, loop, callers, peer
  <2>3. QED BY <2>1, <2>2, OtherKeeps DEF Expire, channels, table, loop, callers, peer
<1>3. ASSUME q \in Waiters PROVE Fits(q)'
  <2>1. Fits(q) /\ Typed /\ Id(q) = q /\ q # NoId
    BY <1>3, WaiterIs DEF RpcInv
  <2>2. Registered(q)'
    BY <2>1 DEF Fits, Registered, Begun, Typed, CallersTyped, TableTyped, Expire, channels, table, loop, callers, peer
  <2>3. Called(q)'
    BY <2>1 DEF Fits, Registered, Called, Begun, Out, Typed, CallersTyped, TableTyped, Expire, channels, table, loop, callers, peer
  <2>4. Caused(q)'
    BY <2>1 DEF Fits, Caused, Due, CtxDone, Registered, Typed, CallersTyped, TableTyped, Expire, channels, table, loop, callers, peer
  <2>5. Well(q)' => /\ Well(q) /\ Taken(q)' = Taken(q)
                    /\ q \in respClosed' <=> q \in respClosed
    BY <2>1 DEF Well, Due, Taken, Typed, CallersTyped, TableTyped, Expire, channels, table, loop, callers, peer
  <2>6. QED BY <1>3, <2>1, <2>2, <2>3, <2>4, <2>5, CallerKeeps DEF Expire, channels, table, loop, callers, peer
<1>4. QED BY <1>1, <1>2, <1>3 DEF RpcInv

LEMMA WatchKeeps == ASSUME RpcInv, NEW q \in Requests, Watch(q) PROVE RpcInv'
<1>1. Typed'
  <2>1. Typed /\ Id(q) \in Ids /\ ctxDoneCh \in Seq(Ids)
    BY DEF RpcInv, Typed, ChannelsTyped, Id, Ids, Requests
  <2>2. ChannelsTyped'
    BY <2>1 DEF Typed, ChannelsTyped, Watch
  <2>3. QED BY <2>1, <2>2 DEF Typed, TableTyped, CallersTyped, PeerTyped, HeldTyped, Watch, table, loop, callers, peer
<1>2. ASSUME NEW r \in Waiters, r # q PROVE Fits(r)'
  <2>1. r \in Requests /\ Fits(r)
    BY <1>2, WaiterIs DEF RpcInv
  <2>2. Untouched(r)
    <3>1. r # Id(q)
      BY <1>2, WaiterIs DEF Id
    <3>2. \A k \in DOMAIN ctxDoneCh' : ctxDoneCh'[k] = r => \E l \in DOMAIN ctxDoneCh : ctxDoneCh[l] = r
      BY <3>1 DEF RpcInv, Typed, ChannelsTyped, Watch
    <3>3. QED BY <3>2 DEF Untouched, Out, Watch, table, loop, callers, peer
  <2>3. QED BY <2>1, <2>2, OtherKeeps DEF Watch, channels, table, loop, callers, peer
<1>3. ASSUME q \in Waiters PROVE Fits(q)'
  <2>1. Fits(q) /\ Typed /\ Id(q) = q /\ q # NoId
    BY <1>3, WaiterIs DEF RpcInv
  <2>2. Registered(q)'
    BY <2>1 DEF Fits, Registered, Begun, Typed, CallersTyped, TableTyped, Watch, channels, table, loop, callers, peer
  <2>3. Called(q)'
    BY <2>1 DEF Fits, Registered, Called, Begun, Out, Typed, CallersTyped, TableTyped, Watch, channels, table, loop, callers, peer
  <2>4. Caused(q)'
    BY <2>1 DEF Fits, Caused, Due, CtxDone, Registered, Typed, CallersTyped, TableTyped, Watch, channels, table, loop, callers, peer
  <2>5. Well(q)' => /\ Well(q) /\ Taken(q)' = Taken(q)
                    /\ q \in respClosed' <=> q \in respClosed
    BY <2>1 DEF Well, Due, Taken, Typed, CallersTyped, TableTyped, Watch, channels, table, loop, callers, peer
  <2>6. QED BY <1>3, <2>1, <2>2, <2>3, <2>4, <2>5, CallerKeeps DEF Watch, channels, table, loop, callers, peer
<1>4. QED BY <1>1, <1>2, <1>3 DEF RpcInv
-----------------------------------------------------------------------------
(* The server goroutine.                                                      *)

\* What the server leaves alone.
ServerLeaves ==
  /\ UNCHANGED <<outputCh, caller, result, finalizer, got, peer, expired, watching, inputClosed>>

\* Unregistering keeps what is true of a request whose channel may close: its time is over,
\* its last response is delivered, or the server gave up on it.
LEMMA UnregisterKeeps ==
  ASSUME Typed, NEW id, NEW err \in BOOLEAN, Unregister(id, err), ServerLeaves,
         NEW r \in Waiters, Fits(r), UNCHANGED inputCh, HeldOf(r)' => HeldOf(r) /\ held' = held,
         InHand(r)' = InHand(r),
         server \notin {"ending", "done"},
         ctxDoneCh' = ctxDoneCh \/ (ctxDoneCh # << >> /\ ctxDoneCh' = Tail(ctxDoneCh)),
         r \in failed => r \in failed', r \in failed' => r \in failed \/ (id = r /\ r \in sent),
         id = r /\ r \in rpcMap =>
           \/ Due(r)
           \/ ~err /\ r \in failed'
           \/ ~err /\ r \in answered /\ Taken(r) = answers[r]
  PROVE  Fits(r)'
<1>1. /\ UNCHANGED <<caller, result, finalizer, got, sent, answers, answered, expired, outputCh>>
      /\ r \in Requests
  BY WaiterIs DEF ServerLeaves, peer
<1>2. Begun(r)' = Begun(r) /\ Out(r)' = Out(r) /\ Due(r)' = Due(r)
  BY <1>1 DEF Begun, Out, Due
<1>3. \A k \in DOMAIN ctxDoneCh' : ctxDoneCh'[k] = r => CtxDone(r)
  BY DEF Fits, Caused, Typed, ChannelsTyped
<1>4. Ordered(r)'
  BY <1>1 DEF Fits, Ordered, HeldOf, IsLast
<1>5. CASE id = r /\ r \in rpcMap
  <2>1. /\ r \notin rpcMap' /\ r \in respClosed' /\ r \in cancelled' /\ r \notin respClosed
        /\ respCh'[r] = respCh[r] \/ (err /\ respCh'[r] = Append(respCh[r], "timeout"))
    BY <1>5, UnregisterOwn DEF Fits, Registered
  <2>2. Registered(r)'
    BY <1>1, <1>2, <1>5, <2>1 DEF Fits, Registered
  <2>3. Called(r)'
    <3>1. result[r] \notin {"ended", "closed"}
      BY <2>1 DEF Fits, Called
    <3>2. QED BY <1>1, <1>2, <3>1 DEF Fits, Called
  <2>4. Caused(r)'
    <3>1. \A k \in DOMAIN respCh'[r] : respCh'[r][k] = "timeout" => Due(r)
      <4>1. CASE respCh'[r] = respCh[r]
        BY <4>1 DEF Fits, Caused
      <4>2. CASE err
        BY <1>5, <4>2
      <4>3. QED BY <2>1, <4>1, <4>2
    <3>2. CtxDone(r)'
      BY <2>1 DEF CtxDone
    <3>3. QED BY <1>1, <1>2, <1>5, <2>1, <3>1, <3>2 DEF Fits, Caused
  <2>5. Accounted(r)'
    <3>1. ASSUME Well(r)' PROVE r \in answered /\ Taken(r)' = answers[r]
      <4>1. ~Due(r) /\ r \notin failed' /\ r \notin failed
        BY <1>2, <3>1 DEF Well
      <4>2. ~err /\ r \in answered /\ Taken(r) = answers[r]
        BY <1>5, <4>1
      <4>3. QED BY <1>1, <2>1, <4>2 DEF Taken
    <3>2. QED BY <1>1, <2>1, <3>1 DEF Accounted
  <2>6. QED BY <1>4, <2>2, <2>3, <2>4, <2>5 DEF Fits
<1>6. CASE id # r \/ r \notin rpcMap
  <2>1. /\ r \in rpcMap' <=> r \in rpcMap
        /\ r \in respClosed' <=> r \in respClosed
        /\ r \in cancelled' <=> r \in cancelled
        /\ respCh'[r] = respCh[r]
    BY <1>6, UnregisterOther
  <2>2. Registered(r)' /\ Called(r)'
    BY <1>1, <1>2, <2>1 DEF Fits, Registered, Called
  <2>3. Caused(r)'
    <3>1. CtxDone(r)' <=> CtxDone(r)
      BY <1>1, <2>1 DEF CtxDone
    <3>2. QED BY <1>1, <1>2, <1>3, <2>1, <3>1 DEF Fits, Caused
  <2>4. Accounted(r)'
    <3>1. Well(r)' => Well(r)
      BY <1>2 DEF Well
    <3>2. Taken(r)' = Taken(r)
      BY <1>1, <2>1 DEF Taken
    <3>3. QED BY <1>1, <2>1, <3>1, <3>2 DEF Fits, Accounted
  <2>5. QED BY <1>4, <2>2, <2>3, <2>4 DEF Fits
<1>7. QED BY <1>5, <1>6

LEMMA ServerTimeoutKeeps == ASSUME RpcInv, ServerTimeout PROVE RpcInv'
<1>1. /\ Typed /\ ctxDoneCh # << >> /\ ctxDoneCh' = Tail(ctxDoneCh)
      /\ Unregister(Head(ctxDoneCh), TRUE) /\ UNCHANGED <<inputCh, held, server, failed>>
      /\ ServerLeaves /\ server = "selecting"
  BY DEF RpcInv, ServerTimeout, ServerLeaves, loop, callers
<1>2. Typed'
  <2>1. TableTyped'
    BY <1>1, UnregisterTyped DEF Typed
  <2>2. ctxDoneCh' \in Seq(Ids)
    BY <1>1 DEF Typed, ChannelsTyped
  <2>3. QED
    BY <1>1, <2>1, <2>2 DEF Typed, ChannelsTyped, CallersTyped, PeerTyped, HeldTyped, ServerLeaves, peer
<1>3. ASSUME NEW r \in Waiters PROVE Fits(r)'
  <2>1. Fits(r)
    BY DEF RpcInv
  <2>2. Head(ctxDoneCh) = r /\ r \in rpcMap => Due(r)
    <3>1. SUFFICES ASSUME Head(ctxDoneCh) = r, r \in rpcMap PROVE Due(r)
      OBVIOUS
    <3>2. 1 \in DOMAIN ctxDoneCh /\ ctxDoneCh[1] = r
      BY <1>1, <3>1 DEF Typed, ChannelsTyped
    <3>3. QED BY <2>1, <3>1, <3>2 DEF Fits, Caused, Registered, CtxDone, Due
  <2>3. HeldOf(r)' => HeldOf(r) /\ held' = held
    BY <1>1 DEF HeldOf
  <2>4. InHand(r)' = InHand(r)
    BY <1>1 DEF InHand
  <2>5. QED BY <1>1, <2>1, <2>2, <2>3, <2>4, UnregisterKeeps
<1>4. QED BY <1>2, <1>3 DEF RpcInv

LEMMA ServerResponseKeeps == ASSUME RpcInv, ServerResponse PROVE RpcInv'
<1> DEFINE m == Head(inputCh)
<1>1. /\ Typed /\ inputCh \in Seq(Messages) /\ inputCh # << >> /\ inputCh' = Tail(inputCh)
      /\ server = "selecting"
      /\ UNCHANGED <<outputCh, ctxDoneCh, table, failed, caller, result, finalizer, got, peer, expired>>
      /\ \/ Entry(m.id) = {} /\ UNCHANGED <<server, held>>
         \/ Entry(m.id) # {} /\ server' = "delivering" /\ held' = [id |-> m.id, cont |-> m.cont, to |-> Entry(m.id)]
  BY DEF RpcInv, Typed, ChannelsTyped, ServerResponse, callers
<1>2. /\ m \in Messages /\ m.id \in Waiters /\ m = inputCh[1] /\ 1 \in DOMAIN inputCh
      /\ inputCh' \in Seq(Messages)
      /\ \A k \in DOMAIN inputCh' : k \in Nat \ {0} /\ k + 1 \in DOMAIN inputCh /\ inputCh'[k] = inputCh[k + 1]
  <2>1. ASSUME NEW q \in Seq(Messages), q # << >>
        PROVE  /\ Head(q) \in Messages /\ Head(q) = q[1] /\ 1 \in DOMAIN q /\ Tail(q) \in Seq(Messages)
               /\ \A k \in DOMAIN Tail(q) : k \in Nat \ {0} /\ k + 1 \in DOMAIN q /\ Tail(q)[k] = q[k + 1]
    BY <2>1
  <2>2. m \in Messages /\ m.id \in Waiters
    BY <1>1, <2>1 DEF Messages
  <2>3. QED BY <1>1, <2>1, <2>2
<1> HIDE DEF m
<1>3. Entry(m.id) # {} => Entry(m.id) = {m.id} /\ m.id \in rpcMap
  BY <1>1, <1>2, WaiterIs DEF Entry, Typed, TableTyped
<1>4. Typed'
  <2>1. HeldTyped'
    BY <1>1, <1>2, <1>3 DEF HeldTyped
  <2>2. QED
    BY <1>1, <1>2, <2>1 DEF Typed, ChannelsTyped, TableTyped, CallersTyped, PeerTyped, table, peer
<1>5. ASSUME NEW r \in Waiters PROVE Fits(r)'
  <2>1. Fits(r) /\ r \in Requests
    BY WaiterIs DEF RpcInv
  <2>2. Untouched(r)
    BY <1>1 DEF Untouched, Out, table, peer
  <2>3. Registered(r)' /\ Called(r)' /\ Caused(r)'
    BY <2>1, <2>2, UntouchedKeeps
  <2>4. /\ sent' = sent /\ answered' = answered
    BY <1>1 DEF peer
  <2>5. \A k \in DOMAIN inputCh' : inputCh'[k].id = r =>
          /\ r \in sent
          /\ IsLast(inputCh'[k]) => /\ r \in answered
                                    /\ \A l \in DOMAIN inputCh' : inputCh'[l].id = r => l <= k
    <3>1. ASSUME NEW k \in DOMAIN inputCh', inputCh'[k].id = r
          PROVE  /\ r \in sent
                 /\ IsLast(inputCh'[k]) => /\ r \in answered
                                           /\ \A l \in DOMAIN inputCh' : inputCh'[l].id = r => l <= k
      <4>1. k + 1 \in DOMAIN inputCh /\ inputCh'[k] = inputCh[k + 1] /\ k \in Nat
        BY <1>2
      <4>2. r \in sent /\ (IsLast(inputCh'[k]) => r \in answered /\ \A l \in DOMAIN inputCh : inputCh[l].id = r => l <= k + 1)
        BY <2>1, <3>1, <4>1 DEF Fits, Ordered
      <4>3. ASSUME IsLast(inputCh'[k]), NEW l \in DOMAIN inputCh', inputCh'[l].id = r PROVE l <= k
        <5>1. l + 1 \in DOMAIN inputCh /\ inputCh'[l] = inputCh[l + 1] /\ l \in Nat
          BY <1>2
        <5>2. l + 1 <= k + 1
          BY <4>2, <4>3, <5>1
        <5>3. QED BY <4>1, <5>1, <5>2
      <4>4. QED BY <4>2, <4>3
    <3>2. QED BY <3>1
  <2>6. ASSUME m.id = r
        PROVE  /\ r \in sent
               /\ IsLast(m) => r \in answered /\ \A k \in DOMAIN inputCh' : inputCh'[k].id # r
    <3>1. r \in sent /\ (IsLast(m) => r \in answered /\ \A l \in DOMAIN inputCh : inputCh[l].id = r => l <= 1)
      BY <1>2, <2>1, <2>6 DEF Fits, Ordered
    <3>2. ASSUME IsLast(m), NEW k \in DOMAIN inputCh' PROVE inputCh'[k].id # r
      <4>1. k \in Nat \ {0} /\ k + 1 \in DOMAIN inputCh /\ inputCh'[k] = inputCh[k + 1]
        BY <1>2
      <4>2. ~(k + 1 <= 1)
        BY <4>1
      <4>3. QED BY <3>1, <3>2, <4>1, <4>2
    <3>3. QED BY <3>1, <3>2
  <2>7. Ordered(r)'
    <3>1. HeldOf(r)' => m.id = r /\ (IsLast(held') <=> IsLast(m))
      BY <1>1 DEF HeldOf, IsLast
    <3>2. QED BY <2>4, <2>5, <2>6, <3>1 DEF Ordered, IsLast
  <2>8. InHand(r) = 0
    BY <1>1 DEF InHand
  <2>9. Count(inputCh, r) = Count(inputCh', r) + (IF m.id = r THEN 1 ELSE 0)
    BY <1>1, CountTail DEF m
  <2>10. Count(inputCh', r) \in Nat /\ Count(inputCh, r) \in Nat
    BY <1>1, <1>2, CountNat
  <2>11. CASE m.id # r \/ Entry(m.id) # {}
    <3>1. InHand(r)' = IF m.id = r THEN 1 ELSE 0
      BY <1>1, <2>11 DEF InHand
    <3>2. Count(inputCh', r) + InHand(r)' = Count(inputCh, r) + InHand(r)
      BY <2>8, <2>9, <2>10, <3>1
    <3>3. QED BY <1>1, <2>1, <2>2, <2>7, <3>2, CountKept
  <2>12. CASE m.id = r /\ Entry(m.id) = {}
    <3>1. r \notin rpcMap
      BY <2>1, <2>12, WaiterIs DEF Entry
    <3>2. r \in respClosed
      BY <2>1, <2>6, <2>12, <3>1 DEF Fits, Registered, Called, Out
    <3>3. Well(r)' = Well(r) /\ Taken(r)' = Taken(r) /\ r \in respClosed' /\ answers' = answers
      BY <1>1, <3>2 DEF Well, Due, Taken, table, peer
    <3>4. Accounted(r)'
      BY <2>1, <2>4, <3>2, <3>3 DEF Fits, Accounted
    <3>5. QED BY <2>3, <2>7, <3>4 DEF Fits
  <2>13. QED BY <2>11, <2>12
<1>6. QED BY <1>4, <1>5 DEF RpcInv

LEMMA DeliverKeeps == ASSUME RpcInv, Deliver PROVE RpcInv'
<1> DEFINE h == held.id
<1>1. /\ Typed /\ server \in {"delivering", "blocking"} /\ server' = "delivered" /\ h \in Waiters
      /\ h \in Requests /\ h \notin respClosed /\ respCh' = [respCh EXCEPT ![h] = Append(@, "data")]
      /\ UNCHANGED <<held, inputCh, outputCh, ctxDoneCh, rpcMap, respClosed, cancelled, failed,
                     caller, result, finalizer, got, peer, expired>>
  <2>1. Typed /\ server \in {"delivering", "blocking"} /\ h \in Waiters /\ held.to = {h}
    BY DEF RpcInv, Typed, HeldTyped, Deliver
  <2>2. h \in Requests
    BY <2>1, WaiterIs
  <2>3. QED BY <2>1, <2>2 DEF Deliver, channels, callers
<1>2. respCh[h] \in Seq({"data", "timeout"}) /\ respCh'[h] = Append(respCh[h], "data")
  BY <1>1 DEF Typed, TableTyped
<1>3. Typed'
  <2>1. TableTyped'
    BY <1>1, <1>2 DEF Typed, TableTyped
  <2>2. HeldTyped'
    BY <1>1 DEF Typed, HeldTyped
  <2>3. QED BY <1>1, <2>1, <2>2 DEF Typed, ChannelsTyped, CallersTyped, PeerTyped, peer
<1>4. ASSUME NEW r \in Waiters, r # h PROVE Fits(r)'
  <2>1. Fits(r) /\ r \in Requests
    BY WaiterIs DEF RpcInv
  <2>2. Untouched(r)
    BY <1>1, <1>4, <2>1 DEF Untouched, Out, peer, Typed, TableTyped
  <2>3. Ordered(r)'
    BY <1>1, <1>4, <2>1 DEF Fits, Ordered, HeldOf, IsLast, peer
  <2>4. InHand(r)' = 0 /\ InHand(r) = 0
    BY <1>1, <1>4 DEF InHand
  <2>5. Count(inputCh', r) + InHand(r)' = Count(inputCh, r) + InHand(r)
    BY <1>1, <2>4
  <2>6. QED BY <1>1, <2>1, <2>2, <2>3, <2>5, CountKept
<1>5. ASSUME NEW r \in Waiters, r = h PROVE Fits(r)'
  <2>1. Fits(r) /\ r \notin respClosed /\ respCh[r] \in Seq({"data", "timeout"})
        /\ respCh'[r] = Append(respCh[r], "data") /\ r \in Requests /\ r \in sent
        /\ got[r] \in Nat
    BY <1>1, <1>2, <1>5 DEF RpcInv, Fits, Ordered, HeldOf, Typed, CallersTyped
  <2>2. Begun(r) /\ Begun(r)' /\ result[r] \notin {"ended", "closed"}
    BY <1>1, <2>1 DEF Fits, Called, Out, Begun
  <2>3. Registered(r)'
    BY <1>1, <2>1, <2>2 DEF Fits, Registered
  <2>4. Out(r)' = Out(r) /\ Due(r)' = Due(r) /\ CtxDone(r)' = CtxDone(r)
    BY <1>1 DEF Out, Due, CtxDone, peer
  <2>5. Called(r)'
    BY <1>1, <2>1, <2>2, <2>4 DEF Fits, Called
  <2>6. \A k \in DOMAIN respCh'[r] : respCh'[r][k] = "timeout" => Due(r)
    BY <2>1 DEF Fits, Caused
  <2>7. Caused(r)'
    BY <1>1, <2>1, <2>4, <2>6 DEF Fits, Caused, peer
  <2>8. Ordered(r)'
    BY <1>1, <1>5, <2>1 DEF Fits, Ordered, HeldOf, IsLast, peer
  <2>9. Accounted(r)'
    <3>1. InHand(r) = 1 /\ InHand(r)' = 0
      BY <1>1, <1>5 DEF InHand
    <3>2. Count(inputCh, r) \in Nat /\ Len(respCh[r]) \in Nat
      BY <1>1, <2>1, CountNat DEF Typed, ChannelsTyped
    <3>3. Len(respCh'[r]) = Len(respCh[r]) + 1
      BY <2>1
    <3>4. got'[r] = got[r] /\ inputCh' = inputCh
      BY <1>1
    <3>5. Taken(r)' = (got[r] + Len(respCh[r])) + 1 /\ Taken(r) = got[r] + Len(respCh[r])
      <4>1. Taken(r)' = got[r] + (Len(respCh[r]) + 1)
        BY <3>3, <3>4 DEF Taken
      <4>2. QED BY <2>1, <3>2, <4>1 DEF Taken
    <3>6. (Taken(r) + 1) + (Count(inputCh, r) + 0) = Taken(r) + (Count(inputCh, r) + 1)
      <4>1. Taken(r) \in Nat
        BY <2>1, <3>2, <3>5
      <4>2. \A a, b \in Nat : (a + 1) + (b + 0) = a + (b + 1)
        OBVIOUS
      <4>3. QED BY <3>2, <4>1, <4>2
    <3>7. Taken(r)' + (Count(inputCh', r) + InHand(r)') = Taken(r) + (Count(inputCh, r) + InHand(r))
      BY <3>1, <3>4, <3>5, <3>6
    <3>8. Well(r)' = Well(r)
      BY <1>1, <2>4 DEF Well
    <3>9. QED BY <1>1, <2>1, <3>7, <3>8 DEF Fits, Accounted, peer
  <2>10. QED BY <2>3, <2>5, <2>7, <2>8, <2>9 DEF Fits
<1>6. QED BY <1>3, <1>4, <1>5 DEF RpcInv

LEMMA GiveUpKeeps == ASSUME RpcInv, GiveUp PROVE RpcInv'
<1> DEFINE h == held.id
<1>1. /\ Typed /\ server = "blocking" /\ server' = "delivered" /\ h \in Waiters /\ h \in sent
      /\ failed' = failed \cup {h} /\ Unregister(h, FALSE) /\ ServerLeaves
      /\ UNCHANGED <<held, inputCh, ctxDoneCh>>
  <2>1. Typed /\ server = "blocking" /\ h \in Waiters /\ held.to = {h}
    BY DEF RpcInv, Typed, HeldTyped, GiveUp
  <2>2. h \in sent
    BY <2>1 DEF RpcInv, Fits, Ordered, HeldOf
  <2>3. QED BY <2>1, <2>2 DEF GiveUp, channels, callers, ServerLeaves
<1>2. Typed'
  <2>1. TableTyped'
    BY <1>1, UnregisterTyped DEF Typed
  <2>2. HeldTyped'
    BY <1>1 DEF Typed, HeldTyped
  <2>3. QED BY <1>1, <2>1, <2>2 DEF Typed, ChannelsTyped, CallersTyped, PeerTyped, ServerLeaves, peer
<1>3. ASSUME NEW r \in Waiters, r # h PROVE Fits(r)'
  <2>1. Fits(r)
    BY DEF RpcInv
  <2>2. ~HeldOf(r)' /\ InHand(r)' = InHand(r)
    BY <1>1, <1>3 DEF HeldOf, InHand
  <2>3. PICK id : id = h
    OBVIOUS
  <2>4. Unregister(id, FALSE) /\ id # r /\ (r \in failed' <=> r \in failed)
    BY <1>1, <1>3, <2>3
  <2>5. QED BY <1>1, <2>1, <2>2, <2>4, UnregisterKeeps
<1>4. ASSUME NEW r \in Waiters, r = h PROVE Fits(r)'
  <2>1. /\ Fits(r) /\ r \in sent /\ r \in failed' /\ Unregister(r, FALSE) /\ r \in Requests
        /\ UNCHANGED <<caller, result, finalizer, got, sent, answers, answered, expired, outputCh>>
    BY <1>1, <1>4, WaiterIs DEF RpcInv, ServerLeaves, peer
  <2>2. /\ r \in rpcMap => r \notin rpcMap' /\ r \in respClosed' /\ r \in cancelled' /\ respCh'[r] = respCh[r]
        /\ r \notin rpcMap => /\ r \notin rpcMap' /\ (r \in respClosed' <=> r \in respClosed)
                              /\ (r \in cancelled' <=> r \in cancelled) /\ respCh'[r] = respCh[r]
    <3>1. r \in rpcMap => r \notin rpcMap' /\ r \in respClosed' /\ r \in cancelled' /\ respCh'[r] = respCh[r]
      BY <1>1, <2>1, UnregisterOwn
    <3>2. r \notin rpcMap => r \notin Entry(r)
      BY DEF Entry
    <3>3. r \notin rpcMap => /\ r \notin rpcMap' /\ (r \in respClosed' <=> r \in respClosed)
                            /\ (r \in cancelled' <=> r \in cancelled) /\ respCh'[r] = respCh[r]
      BY <2>1, <3>2 DEF Unregister
    <3>4. QED BY <3>1, <3>3
  <2>3. Out(r)' = Out(r) /\ Due(r)' = Due(r) /\ (CtxDone(r) => CtxDone(r)') /\ Begun(r)' = Begun(r)
    BY <2>1, <2>2 DEF Out, Due, CtxDone, Begun
  <2>4. Registered(r)'
    BY <2>1, <2>2, <2>3 DEF Fits, Registered
  <2>5. Called(r)'
    BY <2>1, <2>2, <2>3 DEF Fits, Called, Registered
  <2>6. Caused(r)'
    BY <1>1, <2>1, <2>2, <2>3 DEF Fits, Caused
  <2>7. Ordered(r)'
    BY <1>1, <1>4, <2>1 DEF Fits, Ordered, HeldOf, IsLast
  <2>8. Accounted(r)'
    BY <2>1 DEF Accounted, Well
  <2>9. QED BY <2>4, <2>5, <2>6, <2>7, <2>8 DEF Fits
<1>5. QED BY <1>2, <1>3, <1>4 DEF RpcInv

LEMMA ServerNextKeeps == ASSUME RpcInv, ServerNext PROVE RpcInv'
<1> DEFINE h == held.id
<1>1. /\ Typed /\ server = "delivered" /\ server' = "selecting" /\ h \in Waiters
      /\ (IsLast(held) /\ Unregister(h, FALSE)) \/ (~IsLast(held) /\ UNCHANGED table)
      /\ ServerLeaves /\ UNCHANGED <<inputCh, ctxDoneCh, failed>>
  BY DEF RpcInv, Typed, HeldTyped, ServerNext, channels, callers, ServerLeaves
<1>2. Typed'
  <2>1. TableTyped'
    <3>1. CASE Unregister(h, FALSE)
      BY <1>1, <3>1, UnregisterTyped DEF Typed
    <3>2. CASE UNCHANGED table
      BY <1>1, <3>2 DEF Typed, TableTyped, table
    <3>3. QED BY <1>1, <3>1, <3>2
  <2>2. HeldTyped'
    BY <1>1 DEF HeldTyped
  <2>3. QED BY <1>1, <2>1, <2>2 DEF Typed, ChannelsTyped, CallersTyped, PeerTyped, ServerLeaves, peer
<1>3. ASSUME NEW r \in Waiters PROVE Fits(r)'
  <2>1. Fits(r) /\ ~HeldOf(r)' /\ InHand(r)' = 0 /\ InHand(r) = 0
    BY <1>1 DEF RpcInv, HeldOf, InHand
  <2>2. CASE IsLast(held) /\ Unregister(h, FALSE)
    <3>1. ASSUME h = r, r \in rpcMap
          PROVE  Due(r) \/ r \in failed \/ (r \in answered /\ Taken(r) = answers[r])
      <4>1. r \notin respClosed
        BY <2>1, <3>1 DEF Fits, Registered
      <4>2. HeldOf(r)
        BY <1>1, <3>1 DEF HeldOf
      <4>3. r \in answered /\ \A k \in DOMAIN inputCh : inputCh[k].id # r
        BY <2>1, <2>2, <4>2 DEF Fits, Ordered
      <4>4. Count(inputCh, r) = 0
        BY <1>1, <4>3, CountNat DEF Typed, ChannelsTyped
      <4>5. Taken(r) \in Nat
        BY <1>1, WaiterIs DEF Taken, Typed, TableTyped, CallersTyped
      <4>6. Well(r) => Taken(r) + (0 + 0) = answers[r]
        BY <1>1, <2>1, <4>1, <4>4 DEF Fits, Accounted
      <4>7. QED BY <4>3, <4>5, <4>6 DEF Well
    <3>2. PICK id : id = h
      OBVIOUS
    <3>3. /\ Unregister(id, FALSE) /\ (r \in failed' <=> r \in failed)
          /\ id = r /\ r \in rpcMap => Due(r) \/ r \in failed' \/ (r \in answered /\ Taken(r) = answers[r])
      BY <1>1, <2>2, <3>1, <3>2
    <3>4. QED BY <1>1, <2>1, <3>3, UnregisterKeeps
  <2>3. CASE UNCHANGED table
    <3>1. r \in Requests /\ Untouched(r)
      BY <1>1, <2>3, WaiterIs DEF Untouched, ServerLeaves, Out, table, peer
    <3>2. Ordered(r)'
      BY <1>1, <2>1 DEF Fits, Ordered, ServerLeaves, peer, IsLast
    <3>3. Count(inputCh', r) + InHand(r)' = Count(inputCh, r) + InHand(r)
      BY <1>1, <2>1
    <3>4. QED BY <1>1, <2>1, <3>1, <3>2, <3>3, CountKept
  <2>4. QED BY <1>1, <2>2, <2>3
<1>4. QED BY <1>2, <1>3 DEF RpcInv

\* DeliverBlocks, ServerEnds, DeliverPanics, CloseOutput and SetServerDone move the server only.
LEMMA ServerMovesKeeps ==
  ASSUME RpcInv, DeliverBlocks \/ ServerEnds \/ DeliverPanics \/ CloseOutput \/ SetServerDone
  PROVE  RpcInv'
<1>1. /\ Typed
      /\ UNCHANGED <<outputCh, ctxDoneCh, table, caller, result, finalizer, got, peer, expired, failed, held>>
      /\ \/ UNCHANGED <<server, inputCh>>
         \/ server = "delivering" /\ server' = "blocking" /\ UNCHANGED inputCh
         \/ server' = "ending" /\ UNCHANGED inputCh
         \/ server' = "done" /\ inputCh' = << >>
  BY DEF RpcInv, DeliverBlocks, ServerEnds, DeliverPanics, CloseOutput, SetServerDone, channels, loop, callers
<1>2. Typed'
  <2>1. inputCh' \in Seq(Messages)
    <3>1. << >> \in Seq(Messages)
      OBVIOUS
    <3>2. inputCh \in Seq(Messages) /\ (inputCh' = inputCh \/ inputCh' = << >>)
      BY <1>1 DEF Typed, ChannelsTyped
    <3>3. QED BY <3>1, <3>2
  <2>2. ChannelsTyped'
    BY <1>1, <2>1 DEF Typed, ChannelsTyped
  <2>3. HeldTyped'
    BY <1>1 DEF Typed, HeldTyped
  <2>4. TableTyped' /\ CallersTyped' /\ PeerTyped'
    BY <1>1 DEF Typed, TableTyped, CallersTyped, PeerTyped, table, peer
  <2>5. QED BY <2>2, <2>3, <2>4 DEF Typed
<1>3. ASSUME NEW r \in Waiters PROVE Fits(r)'
  <2>1. Fits(r) /\ Untouched(r) /\ r \in Requests
    BY <1>1, WaiterIs DEF RpcInv, Untouched, Out, table, peer
  <2>2. Registered(r)' /\ Called(r)' /\ Caused(r)'
    BY <2>1, UntouchedKeeps
  <2>3. Ordered(r)'
    BY <1>1, <2>1 DEF Fits, Ordered, HeldOf, IsLast, peer
  <2>4. CASE server' \in {"ending", "done"}
    <3>1. Well(r)' = Well(r) /\ Taken(r)' = Taken(r) /\ UNCHANGED <<respClosed, answered, answers>>
      BY <1>1 DEF Well, Due, Taken, table, peer
    <3>2. Accounted(r)'
      BY <2>1, <2>4, <3>1 DEF Fits, Accounted
    <3>3. QED BY <2>2, <2>3, <3>2 DEF Fits
  <2>5. CASE server' \notin {"ending", "done"}
    <3>1. Count(inputCh', r) + InHand(r)' = Count(inputCh, r) + InHand(r)
      BY <1>1, <2>5 DEF InHand
    <3>2. server \in {"ending", "done"} => server' \in {"ending", "done"}
      BY <1>1, <2>5
    <3>3. QED BY <2>1, <2>3, <3>1, <3>2, CountKept
  <2>6. QED BY <2>4, <2>5
<1>4. QED BY <1>2, <1>3 DEF RpcInv
-----------------------------------------------------------------------------
(* The transport and the peer.                                                *)

LEMMA TransmitKeeps == ASSUME RpcInv, Transmit \/ CloseInput PROVE RpcInv'
<1>1. /\ Typed /\ UNCHANGED <<inputCh, ctxDoneCh, table, failed, held, server, caller, result, finalizer,
                              got, answers, answered, expired>>
      /\ \/ UNCHANGED <<outputCh, sent>>
         \/ /\ outputCh # << >> /\ outputCh' = Tail(outputCh)
            /\ sent' = sent \cup ({Head(outputCh)} \ {NoId})
  BY DEF RpcInv, Transmit, CloseInput, loop, callers, peer
<1>2. /\ outputCh \in Seq(Ids)
      /\ outputCh # << >> => /\ Head(outputCh) = outputCh[1] /\ 1 \in DOMAIN outputCh /\ Head(outputCh) \in Ids
                             /\ Tail(outputCh) \in Seq(Ids)
                             /\ \A k \in DOMAIN Tail(outputCh) : \E l \in DOMAIN outputCh : Tail(outputCh)[k] = outputCh[l]
  <2>1. ASSUME NEW s \in Seq(Ids), s # << >>
        PROVE  /\ Head(s) = s[1] /\ 1 \in DOMAIN s /\ Head(s) \in Ids /\ Tail(s) \in Seq(Ids)
               /\ \A k \in DOMAIN Tail(s) : k + 1 \in DOMAIN s /\ Tail(s)[k] = s[k + 1]
    BY <2>1
  <2>2. outputCh \in Seq(Ids)
    BY <1>1 DEF Typed, ChannelsTyped
  <2>3. QED BY <2>1, <2>2
<1>3. Typed'
  <2>1. sent' \subseteq Waiters /\ outputCh' \in Seq(Ids)
    BY <1>1, <1>2 DEF Typed, PeerTyped, ChannelsTyped, Ids, Waiters
  <2>2. QED BY <1>1, <2>1 DEF Typed, ChannelsTyped, TableTyped, CallersTyped, PeerTyped, HeldTyped, table
<1>4. ASSUME NEW r \in Waiters PROVE Fits(r)'
  <2>1. Fits(r)
    BY DEF RpcInv
  <2>2. Out(r)' => Out(r)
    BY <1>1, <1>2 DEF Out
  <2>3. Untouched(r)
    BY <1>1, <2>2 DEF Untouched, table
  <2>4. QED BY <1>1, <2>1, <2>3, OtherKeeps
<1>5. QED BY <1>3, <1>4 DEF RpcInv

LEMMA RespondKeeps ==
  ASSUME RpcInv, NEW q \in Waiters, NEW cont \in BOOLEAN, Respond(q, cont)
  PROVE  RpcInv'
<1> DEFINE m == [id |-> q, cont |-> cont]
<1>1. /\ Typed /\ inputCh \in Seq(Messages) /\ q \in sent /\ q \notin answered /\ inputCh' = Append(inputCh, m)
      /\ answers' = [answers EXCEPT ![q] = @ + 1]
      /\ answered' = (IF cont THEN answered ELSE answered \cup {q})
      /\ UNCHANGED <<outputCh, ctxDoneCh, table, server, held, failed, caller, result, finalizer, got, sent, expired>>
  BY DEF RpcInv, Typed, ChannelsTyped, Respond, loop, callers
<1>2. m \in Messages /\ m.id = q /\ (IsLast(m) <=> ~cont)
  BY DEF Messages, IsLast
<1> HIDE DEF m
<1>3. /\ inputCh' \in Seq(Messages) /\ Len(inputCh) \in Nat /\ Len(inputCh') = Len(inputCh) + 1
      /\ DOMAIN inputCh = 1 .. Len(inputCh) /\ DOMAIN inputCh' = 1 .. Len(inputCh) + 1
      /\ \A k \in DOMAIN inputCh : inputCh'[k] = inputCh[k]
      /\ inputCh'[Len(inputCh) + 1] = m
  BY <1>1, <1>2
<1>4. Typed'
  <2>1. answers' \in [Requests -> Nat]
    BY <1>1, WaiterIs DEF Typed, PeerTyped
  <2>2. QED BY <1>1, <1>3, <2>1 DEF Typed, ChannelsTyped, TableTyped, CallersTyped, PeerTyped, HeldTyped, table
<1>5. ASSUME NEW r \in Waiters, r # q PROVE Fits(r)'
  <2>1. Fits(r) /\ r \in Requests
    BY WaiterIs DEF RpcInv
  <2>2. Untouched(r)
    BY <1>1, <1>5, <2>1 DEF Untouched, Out, table, Typed, PeerTyped
  <2>3. Ordered(r)'
    <3>1. \A k \in DOMAIN inputCh' : inputCh'[k].id = r => k \in DOMAIN inputCh /\ inputCh'[k] = inputCh[k]
      BY <1>2, <1>3, <1>5
    <3>2. sent' = sent /\ (r \in answered' <=> r \in answered)
      BY <1>1, <1>5
    <3>3. QED BY <1>1, <2>1, <3>1, <3>2 DEF Fits, Ordered, HeldOf, IsLast
  <2>4. Count(inputCh', r) + InHand(r)' = Count(inputCh, r) + InHand(r)
    <3>1. Count(inputCh', r) = Count(inputCh, r) + 0
      BY <1>1, <1>2, <1>5, CountAppend
    <3>2. InHand(r)' = InHand(r) /\ Count(inputCh, r) \in Nat
      BY <1>1, CountNat DEF InHand
    <3>3. QED BY <3>1, <3>2
  <2>5. QED BY <1>1, <2>1, <2>2, <2>3, <2>4, CountKept
<1>6. Fits(q)'
  <2>1. Fits(q) /\ q \in Requests
    BY WaiterIs DEF RpcInv
  <2>2. Registered(q)'
    BY <1>1, <2>1 DEF Fits, Registered, Begun, table
  <2>3. Called(q)'
    BY <1>1, <2>1 DEF Fits, Called, Begun, Out, table
  <2>4. Caused(q)'
    BY <1>1, <2>1 DEF Fits, Caused, Due, CtxDone, table
  <2>5. \A k \in DOMAIN inputCh : inputCh[k].id = q => ~IsLast(inputCh[k])
    BY <1>1, <2>1 DEF Fits, Ordered
  <2>6. Ordered(q)'
    <3>1. \A k \in DOMAIN inputCh' : k <= Len(inputCh) + 1 /\ (k = Len(inputCh) + 1 \/ k \in DOMAIN inputCh)
      BY <1>3
    <3>2. ASSUME NEW k \in DOMAIN inputCh', inputCh'[k].id = q, IsLast(inputCh'[k])
          PROVE  q \in answered' /\ \A l \in DOMAIN inputCh' : l <= k
      <4>1. k = Len(inputCh) + 1
        BY <1>3, <2>5, <3>1, <3>2
      <4>2. q \in answered'
        BY <1>1, <1>2, <1>3, <3>2, <4>1
      <4>3. QED BY <3>1, <4>1, <4>2
    <3>3. HeldOf(q)' => HeldOf(q) /\ ~IsLast(held) /\ held' = held
      BY <1>1, <2>1 DEF Fits, Ordered, HeldOf
    <3>4. QED BY <1>1, <3>2, <3>3 DEF Ordered, IsLast
  <2>7. Accounted(q)'
    <3>1. Count(inputCh', q) = Count(inputCh, q) + 1
      BY <1>1, <1>2, CountAppend
    <3>2. InHand(q)' = InHand(q) /\ InHand(q) \in Nat /\ Count(inputCh, q) \in Nat
      BY <1>1, CountNat DEF InHand
    <3>3. Taken(q)' = Taken(q) /\ Well(q)' = Well(q) /\ Taken(q) \in Nat
      BY <1>1, <2>1 DEF Taken, Well, Due, table, Typed, TableTyped, CallersTyped
    <3>4. answers'[q] = answers[q] + 1 /\ UNCHANGED <<respClosed, server>>
      BY <1>1, <2>1 DEF Typed, PeerTyped, table
    <3>5. Taken(q) + ((Count(inputCh, q) + 1) + InHand(q)) = (Taken(q) + (Count(inputCh, q) + InHand(q))) + 1
      BY <3>2, <3>3
    <3>6. Well(q) => q \notin respClosed
      BY <1>1, <2>1 DEF Fits, Accounted
    <3>7. QED BY <2>1, <3>1, <3>2, <3>3, <3>4, <3>5, <3>6 DEF Fits, Accounted
  <2>8. QED BY <2>2, <2>3, <2>4, <2>6, <2>7 DEF Fits
<1>7. QED BY <1>4, <1>5, <1>6 DEF RpcInv
-----------------------------------------------------------------------------
LEMMA RpcInit == ASSUME Init PROVE RpcInv
<1>1. Typed
  <2>1. << >> \in Seq(Ids) /\ << >> \in Seq(Messages) /\ << >> \in Seq({"data", "timeout"})
    OBVIOUS
  <2>2. QED BY <2>1 DEF Init, Typed, ChannelsTyped, TableTyped, CallersTyped, PeerTyped, HeldTyped, Results
<1>2. ASSUME NEW r \in Waiters PROVE Fits(r)
  <2>1. r \in Requests /\ ~Begun(r) /\ ~Out(r)
    BY WaiterIs DEF Init, Begun, Out
  <2>2. Registered(r) /\ Called(r) /\ Caused(r) /\ Ordered(r)
    BY <2>1 DEF Init, Registered, Called, Caused, Ordered, HeldOf
  <2>3. Accounted(r)
    <3>1. Count(inputCh, r) = 0
      <4>1. OfRequest(<< >>, r) = {}
        BY DEF OfRequest
      <4>2. QED BY <4>1, FS_EmptySet DEF Init, Count
    <3>2. InHand(r) = 0 /\ Taken(r) = 0 /\ answers[r] = 0 /\ r \notin respClosed
      BY <2>1 DEF Init, InHand, Taken
    <3>3. QED BY <3>1, <3>2 DEF Accounted
  <2>4. QED BY <2>2, <2>3 DEF Fits
<1>3. QED BY <1>1, <1>2 DEF RpcInv

LEMMA RpcStep == ASSUME RpcInv, [Next]_vars PROVE RpcInv'
<1>1. ASSUME NEW q \in Requests, Caller(q) PROVE RpcInv'
  BY <1>1, CheckKeeps, RegisterKeeps, SendRequestKeeps, SendTimesOutKeeps, SendPanicsKeeps,
     TakeResponseKeeps, PollNothingKeeps, TakeClosedKeeps DEF Caller
<1>2. ASSUME NEW q \in Requests, Finalizer(q) \/ Cancel(q) \/ Expire(q) \/ Watch(q) PROVE RpcInv'
  BY <1>2, FinalizeContextKeeps, FinalizeEntryKeeps, CancelKeeps, ExpireKeeps, WatchKeeps DEF Finalizer
<1>3. CASE Server
  BY <1>3, ServerTimeoutKeeps, ServerResponseKeeps, ServerNextKeeps, DeliverKeeps, GiveUpKeeps,
     ServerMovesKeeps DEF Server
<1>4. CASE Transmit \/ CloseInput
  BY <1>4, TransmitKeeps
<1>5. ASSUME NEW q \in Calls \cup Streams, NEW cont \in BOOLEAN, Respond(q, cont) PROVE RpcInv'
  BY <1>5, RespondKeeps DEF Waiters
<1>6. CASE UNCHANGED vars
  <2>1. Typed'
    BY <1>6 DEF RpcInv, Typed, ChannelsTyped, TableTyped, CallersTyped, PeerTyped, HeldTyped,
                vars, channels, table, loop, callers, peer
  <2>2. ASSUME NEW r \in Waiters PROVE Fits(r)'
    <3>1. Fits(r) /\ Untouched(r)
      BY <1>6 DEF RpcInv, Untouched, Out, vars, channels, table, loop, callers, peer
    <3>2. Typed /\ UNCHANGED <<inputCh, held, server, sent, answered, answers, failed>>
      BY <1>6 DEF RpcInv, vars, channels, table, loop, callers, peer
    <3>3. QED BY <3>1, <3>2, OtherKeeps
  <2>3. QED BY <2>1, <2>2 DEF RpcInv
<1>7. QED BY <1>1, <1>2, <1>3, <1>4, <1>5, <1>6 DEF Next

\* What every step of the endpoint keeps.
THEOREM RpcFits == Spec => []RpcInv
<1>1. Init => RpcInv
  BY RpcInit
<1>2. RpcInv /\ [Next]_vars => RpcInv'
  BY RpcStep
<1>3. QED BY <1>1, <1>2, PTL DEF Spec

\* A caller that has seen the end of its responses, or whose finalizer has run,
\* has no entry in RpcMap: registerRpc, unregisterRpc and finalize leak none,
\* in whatever order the server, the watcher of the context and the caller run.
THEOREM RequestsAreForgotten == Spec => []ReturnedIsForgotten
<1>1. RpcInv => ReturnedIsForgotten
  BY DEF RpcInv, Fits, Registered, Called, ReturnedIsForgotten, Waiters
<1>2. QED BY <1>1, RpcFits, PTL

\* A call or a stream returns a timeout only when its own context is over, or
\* its caller has cancelled it: neither a full channel nor the end of another
\* request is taken for it.
THEOREM CallersRunOutOfTheirOwnTime == Spec => []TimeoutIsOwn
<1>1. RpcInv => TimeoutIsOwn
  BY DEF RpcInv, Fits, Called, TimeoutIsOwn, Waiters
<1>2. QED BY <1>1, RpcFits, PTL

\* A stream that ends for its caller with its context alive, not cancelled and
\* not given up on by the server has got every response the peer gave, the last
\* among them.
THEOREM EndedStreamsAreWhole == Spec => []EndIsWhole
<1>1. ASSUME RpcInv, NEW r \in Streams, result[r] = "ended", r \notin failed \cup expired,
             finalizer[r] = "none"
      PROVE  Whole(r)
  <2>1. Fits(r) /\ r \in Waiters /\ r \in Requests /\ Typed
    BY <1>1, WaiterIs DEF RpcInv, Waiters
  <2>2. r \in respClosed /\ respCh[r] = << >>
    BY <1>1, <2>1 DEF Fits, Called
  <2>3. Well(r)
    BY <1>1 DEF Well, Due
  <2>4. r \in answered /\ Taken(r) = answers[r]
    BY <2>1, <2>2, <2>3 DEF Fits, Accounted
  <2>5. Taken(r) = got[r] + 0 /\ got[r] \in Nat
    BY <2>1, <2>2 DEF Taken, Typed, CallersTyped
  <2>6. QED BY <2>4, <2>5 DEF Whole
<1>2. RpcInv => EndIsWhole
  BY <1>1 DEF EndIsWhole
<1>3. QED BY <1>2, RpcFits, PTL
-----------------------------------------------------------------------------
(* What ends the server, when streams are not cancelled: only InputCh.        *)

\* The server has a response to r in hand that it has not delivered.
Delivering(r) == server \in {"delivering", "blocking"} /\ held.id = r

\* There is, or will be, a response to r that was not delivered.
Awaited(r) == r \notin answered \/ Delivering(r) \/ \E k \in DOMAIN inputCh : inputCh[k].id = r

(* Nobody closes the channel of a request that has a response coming: the     *)
(* caller of a call cleans up when it has its one response, or the channel is *)
(* closed, and that of a stream only if it could not send the request.        *)
Open(r) == Delivering(r) => r \notin respClosed
OneResponse(r) == r \in Calls =>
  /\ \A k \in DOMAIN inputCh : inputCh[k].id = r => IsLast(inputCh[k])
  /\ Delivering(r) => IsLast(held)
  /\ Awaited(r) /\ r \notin respClosed => respCh[r] = << >>
CleansUpLate(r) == Out(r) /\ finalizer[r] # "none" => r \in Calls /\ (Awaited(r) => r \in respClosed)

Undisturbed(r) == Open(r) /\ OneResponse(r) /\ CleansUpLate(r)

EndsByInput == server \in {"ending", "done"} \/ outputClosed => inputClosed

EndInv == RpcInv /\ EndsByInput /\ \A r \in Waiters : Undisturbed(r)

\* A step that leaves the responses on their way alone, and closes no channel
\* that is awaited.
LEMMA AsideKeeps ==
  ASSUME NEW r \in Waiters, Undisturbed(r), UNCHANGED <<inputCh, held, server, answered>>,
         r \in respClosed => r \in respClosed',
         Delivering(r) /\ r \in respClosed' => r \in respClosed,
         r \in Calls /\ Awaited(r) /\ r \notin respClosed' /\ respCh[r] = << >> => respCh'[r] = << >>,
         Out(r)' /\ finalizer'[r] # "none" =>
           \/ Out(r) /\ finalizer[r] # "none"
           \/ r \in Calls /\ (Awaited(r) => r \in respClosed)
  PROVE  Undisturbed(r)'
<1>1. (Awaited(r)' <=> Awaited(r)) /\ (Delivering(r)' <=> Delivering(r))
  BY DEF Awaited, Delivering
<1>2. Open(r)'
  BY <1>1 DEF Undisturbed, Open
<1>3. OneResponse(r)'
  BY <1>1 DEF Undisturbed, OneResponse, IsLast
<1>4. CleansUpLate(r)'
  BY <1>1 DEF Undisturbed, CleansUpLate
<1>5. QED BY <1>2, <1>3, <1>4 DEF Undisturbed

LEMMA CallerDisturbsNone ==
  ASSUME EndInv, NEW q \in Requests, Caller(q), NEW r \in Waiters
  PROVE  Undisturbed(r)'
<1>1. /\ r \in Requests /\ Fits(r) /\ Typed /\ Undisturbed(r) /\ Id(r) = r /\ r # NoId
      /\ r \notin Commands
  BY WaiterIs DEF EndInv, RpcInv
<1>2. UNCHANGED <<inputCh, held, server, sent, answered, respClosed>>
  BY DEF Caller, Check, Register, SendRequest, SendTimesOut, SendPanics, TakeResponse, PollNothing,
         TakeClosed, channels, table, loop, peer
<1>3. r \in Calls /\ Awaited(r) /\ r \notin respClosed' /\ respCh[r] = << >> => respCh'[r] = << >>
  <2>1. ASSUME respCh[r] = << >> PROVE respCh'[r] = << >>
    <3>1. CASE TakeResponse(q)
      BY <1>1, <2>1, <3>1 DEF TakeResponse, Typed, TableTyped
    <3>2. CASE UNCHANGED respCh
      BY <2>1, <3>2
    <3>3. QED BY <3>1, <3>2 DEF Caller, Check, Register, SendRequest, SendTimesOut, SendPanics,
                 PollNothing, TakeClosed, table
  <2>2. QED BY <2>1
<1>4. ASSUME Out(r)', finalizer'[r] # "none"
      PROVE  \/ Out(r) /\ finalizer[r] # "none"
             \/ r \in Calls /\ (Awaited(r) => r \in respClosed)
  <2>1. CASE SendRequest(q)
    <3>1. ASSUME q = r PROVE FALSE
      BY <1>1, <1>4, <2>1, <3>1 DEF SendRequest, Fits, Called, Typed, CallersTyped
    <3>2. ASSUME q # r PROVE Out(r) /\ finalizer[r] # "none"
      <4>1. finalizer'[r] = finalizer[r]
        BY <1>1, <2>1, <3>2 DEF SendRequest, StartFinalizer, Typed, CallersTyped
      <4>2. Id(q) # r /\ outputCh' = Append(outputCh, Id(q)) /\ outputCh \in Seq(Ids)
        BY <1>1, <2>1, <3>2, WaiterIs DEF SendRequest, Typed, ChannelsTyped
      <4>3. Out(r)
        BY <1>2, <1>4, <4>2 DEF Out
      <4>4. QED BY <1>4, <4>1, <4>3
    <3>3. QED BY <3>1, <3>2
  <2>2. CASE SendTimesOut(q)
    <3>1. Out(r)
      BY <1>2, <1>4, <2>2 DEF Out, SendTimesOut, channels
    <3>2. q # r
      BY <1>1, <2>2, <3>1 DEF Fits, Called, SendTimesOut
    <3>3. QED BY <1>1, <1>4, <2>2, <3>1, <3>2 DEF SendTimesOut, StartFinalizer, Typed, CallersTyped
  <2>3. CASE TakeResponse(q) \/ TakeClosed(q)
    <3>1. Out(r)
      BY <1>2, <1>4, <2>3 DEF Out, TakeResponse, TakeClosed, channels
    <3>2. CASE finalizer[r] = "none"
      <4>1. q = r /\ r \in Calls
        BY <1>1, <1>4, <2>3, <3>2 DEF TakeResponse, TakeClosed, StartFinalizer, Typed, CallersTyped
      <4>2. respCh[r] # << >> \/ r \in respClosed
        BY <2>3, <4>1 DEF TakeResponse, TakeClosed
      <4>3. QED BY <1>1, <4>1, <4>2 DEF Undisturbed, OneResponse
    <3>3. QED BY <3>1, <3>2
  <2>4. CASE UNCHANGED <<finalizer, outputCh>>
    BY <1>2, <1>4, <2>4 DEF Out
  <2>5. QED BY <2>1, <2>2, <2>3, <2>4 DEF Caller, Check, Register, SendPanics, PollNothing, channels
<1>5. QED BY <1>1, <1>2, <1>3, <1>4, AsideKeeps

\* With streams that nobody cancels.
LEMMA ContextsDisturbNone ==
  ASSUME EndInv, MayCancel = FALSE, NEW q \in Requests,
         Finalizer(q) \/ Cancel(q) \/ Expire(q) \/ Watch(q), NEW r \in Waiters
  PROVE  Undisturbed(r)'
<1>1. /\ r \in Requests /\ Fits(r) /\ Typed /\ Undisturbed(r) /\ Id(r) = r /\ r # NoId
      /\ r \notin Commands
  BY WaiterIs DEF EndInv, RpcInv
<1>2. ~Cancel(q)
  BY DEF Cancel
<1>3. UNCHANGED <<inputCh, outputCh, held, server, sent, answered, respCh>> \/ FinalizeEntry(q)
  BY <1>2 DEF Finalizer, FinalizeContext, Expire, Watch, channels, table, loop, peer
<1>4. Out(r)' => Out(r)
  BY <1>3 DEF Out, FinalizeEntry, channels, peer
<1>5. finalizer'[r] # "none" => finalizer[r] # "none"
  BY <1>1, <1>2 DEF Finalizer, FinalizeContext, FinalizeEntry, Expire, Watch, callers, Typed, CallersTyped
<1>6. CASE FinalizeEntry(q)
  <2>1. UNCHANGED <<inputCh, held, server, answered>>
    BY <1>6 DEF FinalizeEntry, channels, loop, peer
  <2>2. respCh'[r] = respCh[r] /\ (r \in respClosed => r \in respClosed')
    <3>1. CASE Id(q) # NoId
      <4>1. Unregister(Id(q), FALSE)
        BY <1>6, <3>1 DEF FinalizeEntry
      <4>2. QED BY <1>1, <4>1 DEF Unregister
    <3>2. CASE Id(q) = NoId
      BY <1>6, <3>2 DEF FinalizeEntry, table
    <3>3. QED BY <3>1, <3>2
  <2>3. Delivering(r) /\ r \in respClosed' => r \in respClosed
    <3>1. CASE q = r
      <4>1. Delivering(r) => Out(r) /\ Awaited(r)
        BY <1>1 DEF Delivering, Awaited, Fits, Ordered, HeldOf, Out
      <4>2. QED BY <1>1, <1>6, <3>1, <4>1 DEF FinalizeEntry, Undisturbed, CleansUpLate
    <3>2. CASE q # r
      <4>1. CASE Id(q) # NoId
        <5>1. PICK id : id = Id(q)
          OBVIOUS
        <5>2. Unregister(id, FALSE) /\ id # r
          BY <1>1, <1>6, <3>2, <4>1, <5>1, WaiterIs DEF FinalizeEntry
        <5>3. QED BY <1>1, <5>2, UnregisterOther
      <4>2. CASE Id(q) = NoId
        BY <1>6, <4>2 DEF FinalizeEntry, table
      <4>3. QED BY <4>1, <4>2
    <3>3. QED BY <3>1, <3>2
  <2>4. QED BY <1>1, <1>4, <1>5, <2>1, <2>2, <2>3, AsideKeeps
<1>7. CASE ~FinalizeEntry(q)
  <2>1. respClosed' = respClosed
    BY <1>2, <1>7 DEF Finalizer, FinalizeContext, Expire, Watch, table
  <2>2. QED BY <1>1, <1>3, <1>4, <1>5, <1>7, <2>1, AsideKeeps
<1>8. QED BY <1>6, <1>7

\* The server closes a channel when it delivers nothing, or has just delivered.
LEMMA ClosingDisturbsNone ==
  ASSUME EndInv, NEW id, NEW err \in BOOLEAN, Unregister(id, err),
         UNCHANGED <<inputCh, outputCh, sent, answered, finalizer>>,
         ~(server' \in {"delivering", "blocking"}), NEW r \in Waiters
  PROVE  Undisturbed(r)'
<1>1. r \in Requests /\ Typed /\ Undisturbed(r)
  BY WaiterIs DEF EndInv, RpcInv
<1>2. (r \in respClosed => r \in respClosed') /\ (r \notin respClosed' => respCh'[r] = respCh[r])
  BY <1>1 DEF Unregister
<1>3. ~Delivering(r)' /\ (Awaited(r)' => Awaited(r)) /\ Out(r)' = Out(r)
  BY DEF Delivering, Awaited, Out
<1>4. Open(r)'
  BY <1>3 DEF Open
<1>5. OneResponse(r)'
  BY <1>1, <1>2, <1>3 DEF Undisturbed, OneResponse, IsLast
<1>6. CleansUpLate(r)'
  BY <1>1, <1>2, <1>3 DEF Undisturbed, CleansUpLate
<1>7. QED BY <1>4, <1>5, <1>6 DEF Undisturbed

LEMMA ResponseDisturbsNone ==
  ASSUME EndInv, ServerResponse, NEW r \in Waiters
  PROVE  Undisturbed(r)'
<1> DEFINE m == Head(inputCh)
<1>1. /\ r \in Requests /\ Fits(r) /\ Undisturbed(r) /\ inputCh \in Seq(Messages)
      /\ \A x \in rpcMap : Id(x) = r => x = r
  BY WaiterIs DEF EndInv, RpcInv, Typed, ChannelsTyped, TableTyped
<1>2. /\ inputCh # << >> /\ inputCh' = Tail(inputCh) /\ server = "selecting"
      /\ UNCHANGED <<outputCh, table, finalizer, peer>>
      /\ \/ Entry(m.id) = {} /\ UNCHANGED <<server, held>>
         \/ /\ Entry(m.id) # {} /\ server' = "delivering"
            /\ held' = [id |-> m.id, cont |-> m.cont, to |-> Entry(m.id)]
  BY DEF ServerResponse, callers
<1>3. /\ m = inputCh[1] /\ 1 \in DOMAIN inputCh
      /\ \A k \in DOMAIN inputCh' : k + 1 \in DOMAIN inputCh /\ inputCh'[k] = inputCh[k + 1]
  <2>1. ASSUME NEW q \in Seq(Messages), q # << >>
        PROVE  /\ Head(q) = q[1] /\ 1 \in DOMAIN q
               /\ \A k \in DOMAIN Tail(q) : k + 1 \in DOMAIN q /\ Tail(q)[k] = q[k + 1]
    BY <2>1
  <2>2. QED BY <1>1, <1>2, <2>1
<1> HIDE DEF m
<1>4. Delivering(r)' => m.id = r /\ r \in rpcMap /\ held'.cont = m.cont
  <2>1. SUFFICES ASSUME Delivering(r)' PROVE m.id = r /\ r \in rpcMap /\ held'.cont = m.cont
    OBVIOUS
  <2>2. Entry(m.id) # {} /\ held' = [id |-> m.id, cont |-> m.cont, to |-> Entry(m.id)] /\ held'.id = r
    BY <1>2, <2>1 DEF Delivering
  <2>3. m.id = r /\ held'.cont = m.cont
    BY <2>2
  <2>4. \E x \in rpcMap : Id(x) = r
    BY <2>2, <2>3 DEF Entry
  <2>5. QED BY <1>1, <2>3, <2>4
<1>5. Awaited(r)' => Awaited(r)
  BY <1>2, <1>3, <1>4 DEF Awaited, peer
<1>6. Open(r)'
  BY <1>1, <1>2, <1>4 DEF Open, Fits, Registered, table
<1>7. OneResponse(r)'
  BY <1>1, <1>2, <1>3, <1>4, <1>5 DEF Undisturbed, OneResponse, IsLast, table
<1>8. CleansUpLate(r)'
  BY <1>1, <1>2, <1>5 DEF Undisturbed, CleansUpLate, Out, table, peer
<1>9. QED BY <1>6, <1>7, <1>8 DEF Undisturbed

LEMMA DeliverDisturbsNone ==
  ASSUME EndInv, Deliver, NEW r \in Waiters
  PROVE  Undisturbed(r)'
<1>1. r \in Requests /\ Fits(r) /\ Undisturbed(r) /\ Typed
  BY WaiterIs DEF EndInv, RpcInv
<1>2. /\ server \in {"delivering", "blocking"} /\ server' = "delivered" /\ held.to = {held.id}
      /\ UNCHANGED <<inputCh, outputCh, respClosed, finalizer, sent, answered>>
      /\ respCh' = [respCh EXCEPT ![held.id] = Append(@, "data")]
  BY <1>1 DEF Deliver, Typed, HeldTyped, channels, callers, peer
<1>3. ~Delivering(r)' /\ (Awaited(r)' => Awaited(r)) /\ Out(r)' = Out(r)
  BY <1>2 DEF Delivering, Awaited, Out
<1>4. ASSUME r \in Calls, Awaited(r)' PROVE r # held.id
  <2>1. SUFFICES ASSUME r = held.id PROVE FALSE
    OBVIOUS
  <2>2. Delivering(r) /\ HeldOf(r) /\ IsLast(held)
    BY <1>1, <1>2, <1>4, <2>1 DEF Delivering, HeldOf, Undisturbed, OneResponse
  <2>3. r \in answered /\ \A k \in DOMAIN inputCh : inputCh[k].id # r
    BY <1>1, <2>2 DEF Fits, Ordered
  <2>4. QED BY <1>2, <1>4, <2>3 DEF Awaited, Delivering
<1>5. OneResponse(r)'
  <2>1. r # held.id => respCh'[r] = respCh[r]
    BY <1>1, <1>2 DEF Typed, TableTyped
  <2>2. QED BY <1>1, <1>2, <1>3, <1>4, <2>1 DEF Undisturbed, OneResponse, IsLast
<1>6. CleansUpLate(r)'
  BY <1>1, <1>2, <1>3 DEF Undisturbed, CleansUpLate
<1>7. QED BY <1>3, <1>5, <1>6 DEF Undisturbed, Open

LEMMA RespondDisturbsNone ==
  ASSUME EndInv, NEW q \in Waiters, NEW cont \in BOOLEAN, Respond(q, cont), NEW r \in Waiters
  PROVE  Undisturbed(r)'
<1> DEFINE m == [id |-> q, cont |-> cont]
<1>1. Undisturbed(r) /\ inputCh \in Seq(Messages) /\ m \in Messages
  BY DEF EndInv, RpcInv, Typed, ChannelsTyped, Messages
<1>2. /\ q \in sent \ answered /\ (cont => q \in Streams) /\ inputCh' = Append(inputCh, m)
      /\ answered' = IF cont THEN answered ELSE answered \cup {q}
      /\ UNCHANGED <<outputCh, respCh, respClosed, server, held, finalizer, sent>>
  BY DEF Respond, table, loop, callers
<1>3. \A k \in DOMAIN inputCh' : inputCh'[k] = m \/ (k \in DOMAIN inputCh /\ inputCh'[k] = inputCh[k])
  BY <1>1, <1>2
<1>4. (Delivering(r)' <=> Delivering(r)) /\ Out(r)' = Out(r)
  BY <1>2 DEF Delivering, Out
<1>5. Awaited(r)' => Awaited(r)
  BY <1>2, <1>3, <1>4 DEF Awaited
<1>6. OneResponse(r)'
  <2>1. q \in Calls => IsLast(m)
    BY <1>2, RpcAssumption DEF IsLast
  <2>2. QED BY <1>1, <1>2, <1>3, <1>4, <1>5, <2>1 DEF Undisturbed, OneResponse, IsLast
<1>7. Open(r)' /\ CleansUpLate(r)'
  BY <1>1, <1>2, <1>4, <1>5 DEF Undisturbed, Open, CleansUpLate
<1>8. QED BY <1>6, <1>7 DEF Undisturbed

\* The channel the server sends on is not closed.
LEMMA NeverPanics == ASSUME EndInv PROVE ~DeliverPanics
<1>1. SUFFICES ASSUME DeliverPanics PROVE FALSE
  OBVIOUS
<1>2. server \in {"delivering", "blocking"} /\ held.id \in Waiters /\ held.id \in respClosed
  BY <1>1 DEF DeliverPanics, EndInv, RpcInv, Typed, HeldTyped
<1>3. QED BY <1>2 DEF EndInv, Undisturbed, Open, Delivering

LEMMA ServerDisturbsNone ==
  ASSUME EndInv, Server, NEW r \in Waiters
  PROVE  Undisturbed(r)'
<1>1. Undisturbed(r) /\ Typed /\ ~DeliverPanics
  BY NeverPanics DEF EndInv, RpcInv
<1>2. CASE ServerTimeout
  <2>1. PICK id : id = Head(ctxDoneCh)
    OBVIOUS
  <2>2. /\ Unregister(id, TRUE) /\ server' = "selecting"
        /\ UNCHANGED <<inputCh, outputCh, sent, answered, finalizer>>
    BY <1>2, <2>1 DEF ServerTimeout, loop, callers, peer
  <2>3. QED BY <2>2, ClosingDisturbsNone
<1>3. CASE GiveUp \/ (ServerNext /\ IsLast(held))
  <2>1. PICK id : id = held.id
    OBVIOUS
  <2>2. /\ Unregister(id, FALSE) /\ server' \in {"selecting", "delivered"}
        /\ UNCHANGED <<inputCh, outputCh, sent, answered, finalizer>>
    BY <1>3, <2>1 DEF GiveUp, ServerNext, channels, callers, peer
  <2>3. QED BY <2>2, ClosingDisturbsNone
<1>4. CASE ServerResponse
  BY <1>4, ResponseDisturbsNone
<1>5. CASE Deliver
  BY <1>5, DeliverDisturbsNone
<1>6. CASE (ServerNext /\ ~IsLast(held)) \/ DeliverBlocks \/ ServerEnds \/ CloseOutput \/ SetServerDone
  <2>1. /\ UNCHANGED <<outputCh, table, finalizer, sent, answered>>
        /\ inputCh' = inputCh \/ inputCh' = << >>
    BY <1>6 DEF ServerNext, DeliverBlocks, ServerEnds, CloseOutput, SetServerDone, channels, callers, peer
  <2>2. Delivering(r)' => Delivering(r) /\ held' = held
    BY <1>6 DEF Delivering, ServerNext, DeliverBlocks, ServerEnds, CloseOutput, SetServerDone, loop
  <2>3. Awaited(r)' => Awaited(r)
    BY <2>1, <2>2 DEF Awaited
  <2>4. QED BY <1>1, <2>1, <2>2, <2>3
          DEF Undisturbed, Open, OneResponse, CleansUpLate, Out, IsLast, table
<1>7. QED BY <1>1, <1>2, <1>3, <1>4, <1>5, <1>6 DEF Server

LEMMA EndStep == ASSUME EndInv, MayCancel = FALSE, [Next]_vars PROVE EndInv'
<1>1. RpcInv'
  BY RpcStep DEF EndInv
<1>2. ASSUME NEW r \in Waiters PROVE Undisturbed(r)'
  <2>1. ASSUME NEW q \in Requests, Caller(q) PROVE Undisturbed(r)'
    BY <2>1, CallerDisturbsNone
  <2>2. ASSUME NEW q \in Requests, Finalizer(q) \/ Cancel(q) \/ Expire(q) \/ Watch(q)
        PROVE  Undisturbed(r)'
    BY <2>2, ContextsDisturbNone
  <2>3. CASE Server
    BY <2>3, ServerDisturbsNone
  <2>4. ASSUME NEW q \in Calls \cup Streams, NEW cont \in BOOLEAN, Respond(q, cont)
        PROVE  Undisturbed(r)'
    BY <2>4, RespondDisturbsNone DEF Waiters
  <2>5. CASE Transmit \/ CloseInput \/ UNCHANGED vars
    <3>1. /\ UNCHANGED <<inputCh, held, server, answered, respClosed, respCh, finalizer>>
          /\ Undisturbed(r)
      BY <2>5 DEF EndInv, Transmit, CloseInput, vars, channels, table, loop, callers, peer
    <3>2. Out(r)' => Out(r)
      <4>1. CASE Transmit
        <5>1. /\ outputCh \in Seq(Ids) /\ outputCh # << >> /\ outputCh' = Tail(outputCh)
              /\ sent' = sent \cup ({Head(outputCh)} \ {NoId})
          BY <4>1 DEF Transmit, EndInv, RpcInv, Typed, ChannelsTyped
        <5>2. /\ Head(outputCh) = outputCh[1] /\ 1 \in DOMAIN outputCh
              /\ \A k \in DOMAIN outputCh' : k + 1 \in DOMAIN outputCh /\ outputCh'[k] = outputCh[k + 1]
          BY <5>1
        <5>3. QED BY <5>1, <5>2 DEF Out
      <4>2. CASE CloseInput \/ UNCHANGED vars
        BY <4>2 DEF Out, CloseInput, vars, channels, peer
      <4>3. QED BY <2>5, <4>1, <4>2
    <3>3. QED BY <3>1, <3>2, AsideKeeps
  <2>6. QED BY <2>1, <2>2, <2>3, <2>4, <2>5 DEF Next
<1>3. EndsByInput'
  <2>1. ASSUME NEW q \in Requests,
               Caller(q) \/ Finalizer(q) \/ Cancel(q) \/ Expire(q) \/ Watch(q)
        PROVE  UNCHANGED <<server, outputClosed, inputClosed>>
    BY <2>1 DEF Caller, Check, Register, SendRequest, SendTimesOut, SendPanics, TakeResponse, PollNothing,
           TakeClosed, Finalizer, FinalizeContext, FinalizeEntry, Cancel, Expire, Watch, channels, loop
  <2>2. ASSUME Server PROVE EndsByInput'
    <3>1. ~DeliverPanics
      BY NeverPanics
    <3>2. CASE ServerEnds \/ CloseOutput \/ SetServerDone
      BY <3>2 DEF EndInv, EndsByInput, ServerEnds, CloseOutput, SetServerDone, channels, loop
    <3>3. CASE ServerTimeout \/ ServerResponse \/ ServerNext \/ Deliver \/ DeliverBlocks \/ GiveUp
      BY <3>3 DEF EndInv, EndsByInput, ServerTimeout, ServerResponse, ServerNext, Deliver,
                  DeliverBlocks, GiveUp, channels, loop
    <3>4. QED BY <2>2, <3>1, <3>2, <3>3 DEF Server
  <2>3. ASSUME NEW q \in Calls \cup Streams, NEW cont \in BOOLEAN, Respond(q, cont)
        PROVE  UNCHANGED <<server, outputClosed, inputClosed>>
    BY <2>3 DEF Respond, loop
  <2>4. CASE Transmit \/ CloseInput \/ UNCHANGED vars
    BY <2>4 DEF EndInv, EndsByInput, Transmit, CloseInput, vars, channels, loop
  <2>5. QED BY <2>1, <2>2, <2>3, <2>4 DEF Next, EndInv, EndsByInput
<1>4. QED BY <1>1, <1>2, <1>3 DEF EndInv

\* As long as no stream is cancelled, an endpoint ends only when its InputCh is
\* closed, as the comment of MakeWshRpcWithChannels says: whatever contexts
\* end, responses come late and channels are full, the server never sends on a
\* channel that was closed. It takes a SendCancel to end it otherwise.
THEOREM UncancelledEndsWithInput ==
  ASSUME MayCancel = FALSE
  PROVE  Spec => []OutputClosesWithInput
<1>1. Init => EndInv
  <2>1. ASSUME Init, NEW r \in Waiters PROVE Undisturbed(r)
    BY <2>1, WaiterIs DEF Init, Undisturbed, Open, OneResponse, CleansUpLate, Out, Delivering
  <2>2. QED BY <2>1, RpcInit DEF Init, EndInv, EndsByInput
<1>2. EndInv /\ [Next]_vars => EndInv'
  BY EndStep
<1>3. EndInv => OutputClosesWithInput
  BY DEF EndInv, EndsByInput, OutputClosesWithInput
<1>4. QED BY <1>1, <1>2, <1>3, PTL DEF Spec
=============================================================================
