---------------------------- MODULE Queues_proofs ----------------------------
(* The safety of the two queues of pkg/utilds.  The input queue of a job, for *)
(* every capacity, timeout and number of items, and for any sessions and     *)
(* numbers: nothing is lost or sent twice, the channel has room for all that *)
(* is held, a timer covers it, and what is sent is in order.  Then the work  *)
(* queue of a stream broker.                                                 *)
EXTENDS QuickReorderQueue, WorkQueue, FiniteSetTheorems, SequenceTheorems, TLAPS

(* Every item accepted has a number of its own, and is held or sent.         *)
Once ==
  /\ IsFiniteSet(Buffer)
  /\ \A i \in Buffer : i.id \in 1 .. arrived
  /\ \A k \in DOMAIN emitted : emitted[k].id \in 1 .. arrived
  /\ \A i, j \in Buffer : i.id = j.id => i = j
  /\ \A k, l \in DOMAIN emitted : emitted[k].id = emitted[l].id => k = l
  /\ \A i \in Buffer, k \in DOMAIN emitted : i.id # emitted[k].id
  /\ \A n \in 1 .. arrived :
       (\E i \in Buffer : i.id = n) \/ (\E k \in DOMAIN emitted : emitted[k].id = n)

(* The channel has room for what was accepted and not received.              *)
Room == taken <= arrived /\ arrived - taken <= Cap

(* Only finitely many sessions have been seen, whatever Sessions is.         *)
SeenSessions == {s \in Sessions : order[s] # 0}

(* Held items are of the current session, and no item is of one not seen.    *)
Seen ==
  /\ IsFiniteSet(SeenSessions)
  /\ current # NoSession => order[current] # 0
  /\ \A i \in Buffer : i.session = current /\ current # NoSession
  /\ \A k \in DOMAIN emitted :
       emitted[k].session # NoSession => order[emitted[k].session] # 0

\* An item of the session and number of i is among the first k sent.
SentBy(i, k) == \E h \in 1 .. k : emitted[h].session = i.session /\ emitted[h].seq = i.seq

(* A held item that is behind nextSeqNum, or behind one sent that came after *)
(* it, repeats one that was sent.                                            *)
Passed == \A i \in Buffer : i.seq < nextSeqNum => SentBy(i, Len(emitted))

Follows ==
  \A i \in Buffer, k \in DOMAIN emitted :
    emitted[k].session = i.session /\ i.seq < emitted[k].seq =>
      i.id > emitted[k].id \/ SentBy(i, k)

OrderInv == Once /\ Seen /\ Passed /\ Follows /\ KeepsOrder

QueueInv == TypeOK /\ Room /\ OrderInv /\ TimerCovers
-----------------------------------------------------------------------------
(* What is held and sent after e went out, and new came in, if any.          *)

Unseen == [id : {arrived + 1}, session : Sessions \cup {NoSession}, seq : Nat]

Sends(e, new) ==
  /\ e \in Seq(Items) /\ new \subseteq Unseen /\ \A i, j \in new : i = j
  /\ \A j, l \in DOMAIN e : e[j] = e[l] => j = l
  /\ \A j \in DOMAIN e : e[j] \in Buffer \cup new
  /\ emitted' = emitted \o e
  /\ Buffer' = (Buffer \cup new) \ {e[j] : j \in DOMAIN e}
  /\ arrived' = IF new = {} THEN arrived ELSE arrived + 1

(* No item that is held stays behind one of e that came after it, but for a  *)
(* repetition.                                                               *)
Ordered(e, S) ==
  \A j \in DOMAIN e, i \in S :
    i.session = e[j].session /\ i.seq < e[j].seq =>
      \/ i.id > e[j].id \/ SentBy(i, Len(emitted))
      \/ \E h \in 1 .. j : e[h].session = i.session /\ e[h].seq = i.seq

LEMMA Appended ==
  ASSUME NEW s \in Seq(Items), NEW e \in Seq(Items)
  PROVE  /\ s \o e \in Seq(Items) /\ Len(s \o e) = Len(s) + Len(e)
         /\ DOMAIN (s \o e) = 1 .. Len(s) + Len(e)
         /\ \A k \in DOMAIN s : k \in DOMAIN (s \o e) /\ (s \o e)[k] = s[k]
         /\ \A j \in DOMAIN e : Len(s) + j \in DOMAIN (s \o e) /\ (s \o e)[Len(s) + j] = e[j]
         /\ \A k \in DOMAIN (s \o e) :
              k \in DOMAIN s \/ \E j \in DOMAIN e : k = Len(s) + j
<1>1. /\ Len(s) \in Nat /\ Len(e) \in Nat
      /\ DOMAIN s = 1 .. Len(s) /\ DOMAIN e = 1 .. Len(e)
      /\ s \o e \in Seq(Items) /\ Len(s \o e) = Len(s) + Len(e)
  OBVIOUS
<1>2. DOMAIN (s \o e) = 1 .. Len(s) + Len(e)
  BY <1>1
<1>3. \A k \in 1 .. Len(s) + Len(e) :
        (s \o e)[k] = IF k <= Len(s) THEN s[k] ELSE e[k - Len(s)]
  OBVIOUS
<1>4. \A k \in DOMAIN s : k \in DOMAIN (s \o e) /\ (s \o e)[k] = s[k]
  BY <1>1, <1>2, <1>3
<1>5. ASSUME NEW j \in DOMAIN e
      PROVE  Len(s) + j \in DOMAIN (s \o e) /\ (s \o e)[Len(s) + j] = e[j]
  <2>1. Len(s) + j \in 1 .. Len(s) + Len(e) /\ ~(Len(s) + j <= Len(s))
        /\ (Len(s) + j) - Len(s) = j
    BY <1>1
  <2>2. QED BY <1>2, <1>3, <2>1
<1>6. ASSUME NEW k \in DOMAIN (s \o e)
      PROVE  k \in DOMAIN s \/ \E j \in DOMAIN e : k = Len(s) + j
  <2>1. k \in 1 .. Len(s) \/ (k - Len(s) \in 1 .. Len(e) /\ k = Len(s) + (k - Len(s)))
    BY <1>1, <1>2
  <2>2. QED BY <1>1, <2>1
<1>7. QED BY <1>1, <1>2, <1>4, <1>5, <1>6

\* Sending loses and repeats nothing.
LEMMA SendsOnce ==
  ASSUME TypeOK, Once, NEW e, NEW new, Sends(e, new)
  PROVE  Once'
<1>1. /\ e \in Seq(Items) /\ emitted \in Seq(Items) /\ arrived \in Nat
      /\ new \subseteq Items /\ \A i \in new : i.id = arrived + 1
  BY DEF Sends, TypeOK, Unseen, Items
<1>2. /\ DOMAIN emitted' = 1 .. Len(emitted) + Len(e)
      /\ \A k \in DOMAIN emitted : k \in DOMAIN emitted' /\ emitted'[k] = emitted[k]
      /\ \A j \in DOMAIN e : Len(emitted) + j \in DOMAIN emitted'
                            /\ emitted'[Len(emitted) + j] = e[j]
      /\ \A k \in DOMAIN emitted' :
           k \in DOMAIN emitted \/ \E j \in DOMAIN e : k = Len(emitted) + j
  BY <1>1, Appended DEF Sends
<1> DEFINE S == Buffer \cup new
<1>0. /\ \A j \in DOMAIN e : e[j] \in S
      /\ \A j, l \in DOMAIN e : e[j] = e[l] => j = l
      /\ Buffer' = S \ {e[j] : j \in DOMAIN e}
      /\ new = {} => arrived' = arrived
  BY DEF Sends
<1>3. \A i, j \in S : i.id = j.id => i = j
  BY <1>1 DEF Once, Sends
<1>4. arrived' \in Nat /\ arrived' >= arrived /\ (new # {} => arrived' = arrived + 1)
  BY <1>1 DEF Sends
<1>5. \A i \in Buffer \cup new : i.id \in 1 .. arrived'
  BY <1>1, <1>4 DEF Once
<1>6. IsFiniteSet(Buffer')
  <2>1. IsFiniteSet(new)
    <3>1. ASSUME new # {} PROVE \E i : new = {i}
      <4>1. PICK i \in new : TRUE
        BY <3>1
      <4>2. new = {i}
        BY DEF Sends
      <4>3. QED BY <4>2
    <3>2. QED BY <3>1, FS_EmptySet, FS_Singleton
  <2>2. IsFiniteSet(Buffer \cup new)
    BY <2>1, FS_Union DEF Once
  <2>3. QED BY <2>2, FS_Difference DEF Sends
<1>7. \A i \in Buffer' : i.id \in 1 .. arrived'
  BY <1>5 DEF Sends
<1>8. \A k \in DOMAIN emitted' : emitted'[k].id \in 1 .. arrived'
  <2>1. \A k \in DOMAIN emitted : emitted'[k].id \in 1 .. arrived'
    BY <1>1, <1>2, <1>4 DEF Once
  <2>2. \A j \in DOMAIN e : emitted'[Len(emitted) + j].id \in 1 .. arrived'
    BY <1>2, <1>5 DEF Sends
  <2>3. QED BY <1>2, <2>1, <2>2
<1>9. \A i, j \in Buffer' : i.id = j.id => i = j
  BY <1>3 DEF Sends
<1>10. \A i \in Buffer \cup new, k \in DOMAIN emitted : i.id # emitted[k].id
  BY <1>1 DEF Once
<1>11. \A k, l \in DOMAIN emitted' : emitted'[k].id = emitted'[l].id => k = l
  <2>1. \A k \in DOMAIN emitted, j \in DOMAIN e :
          emitted'[k].id # emitted'[Len(emitted) + j].id
    <3>1. TAKE k \in DOMAIN emitted, j \in DOMAIN e
    <3>2. e[j] \in S /\ emitted'[k] = emitted[k] /\ emitted'[Len(emitted) + j] = e[j]
      BY <1>0, <1>2
    <3>3. QED BY <1>10, <3>2
  <2>2. \A j, l \in DOMAIN e :
          emitted'[Len(emitted) + j].id = emitted'[Len(emitted) + l].id => j = l
    <3>1. TAKE j, l \in DOMAIN e
    <3>2. /\ e[j] \in S /\ emitted'[Len(emitted) + j] = e[j]
          /\ e[l] \in S /\ emitted'[Len(emitted) + l] = e[l]
      BY <1>0, <1>2
    <3>3. QED BY <1>3, <1>0, <3>2
  <2>3. \A k, l \in DOMAIN emitted : emitted'[k].id = emitted'[l].id => k = l
    BY <1>2 DEF Once
  <2>4. QED BY <1>2, <2>1, <2>2, <2>3
<1>12. \A i \in Buffer', k \in DOMAIN emitted' : i.id # emitted'[k].id
  <2>1. \A i \in Buffer', k \in DOMAIN emitted : i.id # emitted'[k].id
    <3>1. TAKE i \in Buffer', k \in DOMAIN emitted
    <3>2. i \in S /\ emitted'[k] = emitted[k]
      BY <1>0, <1>2
    <3>3. QED BY <1>10, <3>2
  <2>2. \A i \in Buffer', j \in DOMAIN e : i.id # emitted'[Len(emitted) + j].id
    <3>1. TAKE i \in Buffer', j \in DOMAIN e
    <3>2. i \in S /\ i # e[j] /\ e[j] \in S /\ emitted'[Len(emitted) + j] = e[j]
      BY <1>0, <1>2
    <3>3. QED BY <1>3, <3>2
  <2>3. QED BY <1>2, <2>1, <2>2
<1>13. ASSUME NEW n \in 1 .. arrived'
       PROVE  \/ \E i \in Buffer' : i.id = n
              \/ \E k \in DOMAIN emitted' : emitted'[k].id = n
  <2>1. CASE \E k \in DOMAIN emitted : emitted[k].id = n
    BY <1>2, <2>1
  <2>2. CASE \E i \in Buffer \cup new : i.id = n
    <3>1. PICK i \in Buffer \cup new : i.id = n
      BY <2>2
    <3>2. CASE i \in Buffer'
      BY <3>1, <3>2
    <3>3. CASE i \notin Buffer'
      <4>1. PICK j \in DOMAIN e : i = e[j]
        BY <3>3 DEF Sends
      <4>2. QED BY <1>2, <3>1, <4>1
    <3>4. QED BY <3>2, <3>3
  <2>3. n \in 1 .. arrived \/ (n = arrived + 1 /\ new # {})
    <3>1. CASE new = {}
      BY <1>0, <3>1
    <3>2. CASE new # {}
      BY <1>1, <1>4, <3>2
    <3>3. QED BY <3>1, <3>2
  <2>4. QED BY <1>1, <2>1, <2>2, <2>3 DEF Once
<1>14. QED BY <1>6, <1>7, <1>8, <1>9, <1>11, <1>12, <1>13 DEF Once

\* What is sent in order keeps the order.
LEMMA SendsInOrder ==
  ASSUME TypeOK, Once, Seen, Follows, KeepsOrder,
         NEW e, NEW new, Sends(e, new), Ordered(e, Buffer \cup new)
  PROVE  Follows' /\ KeepsOrder'
<1>1. /\ e \in Seq(Items) /\ emitted \in Seq(Items) /\ arrived \in Nat
      /\ new \subseteq Items /\ \A i \in new : i.id = arrived + 1
      /\ Len(emitted) \in Nat /\ Len(e) \in Nat
      /\ DOMAIN emitted = 1 .. Len(emitted) /\ DOMAIN e = 1 .. Len(e)
  BY DEF Sends, TypeOK, Unseen, Items
<1>2. /\ DOMAIN emitted' = 1 .. Len(emitted) + Len(e)
      /\ \A k \in DOMAIN emitted : k \in DOMAIN emitted' /\ emitted'[k] = emitted[k]
      /\ \A j \in DOMAIN e : Len(emitted) + j \in DOMAIN emitted'
                            /\ emitted'[Len(emitted) + j] = e[j]
      /\ \A k \in DOMAIN emitted' :
           k \in DOMAIN emitted \/ \E j \in DOMAIN e : k = Len(emitted) + j
  <2>1. emitted' = emitted \o e
    BY DEF Sends
  <2>2. /\ DOMAIN emitted' = 1 .. Len(emitted) + Len(e)
        /\ \A k \in DOMAIN emitted : k \in DOMAIN emitted' /\ emitted'[k] = emitted[k]
    BY <1>1, <2>1, Appended
  <2>3. \A j \in DOMAIN e : Len(emitted) + j \in DOMAIN emitted' /\ emitted'[Len(emitted) + j] = e[j]
    BY <1>1, <2>1, Appended
  <2>4. \A k \in DOMAIN emitted' :
          k \in DOMAIN emitted \/ \E j \in DOMAIN e : k = Len(emitted) + j
    BY <1>1, <2>1, Appended
  <2>5. QED BY <2>2, <2>3, <2>4
<1> DEFINE Sent(i, k) == \E h \in 1 .. k : /\ emitted'[h].session = i.session
                                          /\ emitted'[h].seq = i.seq
<1>3. ASSUME NEW i \in Buffer \cup new, NEW k \in DOMAIN emitted',
             emitted'[k].session = i.session, i.seq < emitted'[k].seq
      PROVE  i.id > emitted'[k].id \/ Sent(i, k)
  <2>1. CASE k \in DOMAIN emitted
    <3>1. CASE i \in new
      BY <1>1, <1>2, <2>1, <3>1 DEF Once
    <3>2. CASE i \in Buffer
      <4>1. i.id > emitted[k].id \/ SentBy(i, k)
        BY <1>2, <1>3, <2>1, <3>2 DEF Follows
      <4>2. SentBy(i, k) => Sent(i, k)
        <5>1. \A h \in 1 .. k : emitted'[h] = emitted[h]
          BY <1>1, <1>2, <2>1
        <5>2. QED BY <5>1 DEF SentBy
      <4>3. QED BY <1>2, <2>1, <4>1, <4>2
    <3>3. QED BY <3>1, <3>2
  <2>2. CASE \E j \in DOMAIN e : k = Len(emitted) + j
    <3>1. PICK j \in DOMAIN e : k = Len(emitted) + j
      BY <2>2
    <3>2. \/ i.id > e[j].id \/ SentBy(i, Len(emitted))
          \/ \E h \in 1 .. j : e[h].session = i.session /\ e[h].seq = i.seq
      BY <1>2, <1>3, <3>1 DEF Ordered
    <3>3. SentBy(i, Len(emitted)) => Sent(i, k)
      <4>1. \A h \in 1 .. Len(emitted) : h \in 1 .. k /\ emitted'[h] = emitted[h]
        BY <1>1, <1>2, <3>1
      <4>2. QED BY <4>1 DEF SentBy
    <3>4. ASSUME NEW h \in 1 .. j, e[h].session = i.session, e[h].seq = i.seq
          PROVE  Sent(i, k)
      <4>1. h \in DOMAIN e /\ Len(emitted) + h \in 1 .. k
        BY <1>1, <3>1
      <4>2. QED BY <1>2, <3>4, <4>1
    <3>5. QED BY <1>2, <3>1, <3>2, <3>3, <3>4
  <2>3. QED BY <1>2, <2>1, <2>2
<1>4. Follows'
  BY <1>3 DEF Follows, SentBy, Sends
<1>5. ASSUME NEW k \in DOMAIN emitted', NEW l \in DOMAIN emitted', k < l,
             emitted'[k].session = emitted'[l].session, emitted'[k].session # NoSession,
             emitted'[l].seq # 0, emitted'[l].seq < emitted'[k].seq
      PROVE  emitted'[l].id > emitted'[k].id \/ Sent(emitted'[l], k)
  <2>1. CASE l \in DOMAIN emitted
    <3>1. k \in DOMAIN emitted
      BY <1>1, <1>2, <1>5, <2>1
    <3>2. \/ emitted[l].id > emitted[k].id
          \/ \E h \in 1 .. k : /\ emitted[h].session = emitted[l].session
                              /\ emitted[h].seq = emitted[l].seq
      BY <1>2, <1>5, <2>1, <3>1 DEF KeepsOrder
    <3>3. \A h \in 1 .. k : emitted'[h] = emitted[h]
      BY <1>1, <1>2, <3>1
    <3>4. QED BY <1>2, <2>1, <3>1, <3>2, <3>3
  <2>2. CASE \E j \in DOMAIN e : l = Len(emitted) + j
    <3>1. emitted'[l] \in Buffer \cup new
      BY <1>2, <2>2 DEF Sends
    <3>2. QED BY <1>3, <1>5, <3>1
  <2>3. QED BY <1>2, <2>1, <2>2
<1>6. KeepsOrder'
  BY <1>5 DEF KeepsOrder
<1>7. QED BY <1>4, <1>6
-----------------------------------------------------------------------------
(* Counting.                                                                 *)

LEMMA UpTo ==
  ASSUME NEW n \in Nat
  PROVE  IsFiniteSet(1 .. n) /\ Cardinality(1 .. n) = n
  BY FS_Interval

\* As many items are held or sent as were accepted.
LEMMA Counted ==
  ASSUME TypeOK, Once
  PROVE  Len(emitted) + Cardinality(Buffer) = arrived
<1> DEFINE sent == {emitted[k].id : k \in DOMAIN emitted}
           kept == {i.id : i \in Buffer}
<1>1. arrived \in Nat /\ Len(emitted) \in Nat /\ DOMAIN emitted = 1 .. Len(emitted)
  BY DEF TypeOK
<1>2. sent \cup kept = 1 .. arrived /\ sent \cap kept = {}
  BY DEF Once
<1>3. IsFiniteSet(sent) /\ Cardinality(sent) = Len(emitted)
  <2> DEFINE f == [k \in 1 .. Len(emitted) |-> emitted[k].id]
  <2>1. f \in Bijection(1 .. Len(emitted), sent)
    BY <1>1 DEF Once, Bijection, Injection, IsInjective, Surjection
  <2>2. IsFiniteSet(1 .. Len(emitted)) /\ Cardinality(1 .. Len(emitted)) = Len(emitted)
    BY <1>1, UpTo
  <2>3. QED BY <2>1, <2>2, FS_Bijection DEF ExistsBijection
<1>4. IsFiniteSet(kept) /\ Cardinality(kept) = Cardinality(Buffer)
  <2> DEFINE f == [i \in Buffer |-> i.id]
  <2>1. f \in Bijection(Buffer, kept)
    BY DEF Once, Bijection, Injection, IsInjective, Surjection
  <2>2. QED BY <2>1, FS_Bijection DEF ExistsBijection, Once
<1>5. Cardinality(sent \cup kept) = Len(emitted) + Cardinality(Buffer)
  <2>1. Cardinality(sent \cap kept) = 0
    BY <1>2, FS_EmptySet
  <2>2. Cardinality(Buffer) \in Nat
    BY FS_CardinalityType DEF Once
  <2>3. Cardinality(sent \cup kept)
          = Cardinality(sent) + Cardinality(kept) - Cardinality(sent \cap kept)
    BY <1>3, <1>4, FS_Union
  <2> HIDE DEF sent, kept
  <2>4. QED BY <1>1, <1>3, <1>4, <2>1, <2>2, <2>3
<1>6. Cardinality(1 .. arrived) = arrived
  BY <1>1, UpTo
<1>7. QED BY <1>2, <1>5, <1>6

\* Sorting a set gives all of it, each element once, by number.
LEMMA SortedOK ==
  ASSUME NEW S \in SUBSET Items, IsFiniteSet(S), NEW q \in Sorted(S)
  PROVE  /\ q \in Seq(Items) /\ Len(q) = Cardinality(S) /\ DOMAIN q = 1 .. Cardinality(S)
         /\ S = {q[j] : j \in DOMAIN q}
         /\ \A j \in DOMAIN q : q[j] \in S
         /\ \A j, l \in DOMAIN q : q[j] = q[l] => j = l
         /\ \A j, l \in DOMAIN q : j < l => q[j].seq <= q[l].seq
<1> DEFINE n == Cardinality(S)
<1>1. n \in Nat
  BY FS_CardinalityType
<1>2. /\ q \in [1 .. n -> S]
      /\ \A j, l \in 1 .. n : j < l => q[j] # q[l] /\ q[j].seq <= q[l].seq
  BY DEF Sorted
<1>3. \A j, l \in 1 .. n : q[j] = q[l] => j = l
  BY <1>1, <1>2
<1>4. q \in Injection(1 .. n, S)
  BY <1>2, <1>3 DEF Injection, IsInjective
<1>5. IsFiniteSet(1 .. n) /\ Cardinality(1 .. n) = n
  BY <1>1, UpTo
<1>6. q \in Surjection(1 .. n, S)
  BY <1>4, <1>5, FS_Injection
<1>7. S = {q[j] : j \in 1 .. n}
  BY <1>2, <1>6 DEF Surjection
<1>8. q \in Seq(Items) /\ Len(q) = n /\ DOMAIN q = 1 .. n
  BY <1>1, <1>2
<1>9. QED BY <1>2, <1>3, <1>7, <1>8

\* What is released follows on from n, and leaves nothing of a lower number.
LEMMA ReleasedOK ==
  ASSUME TypeOK, Once, NEW n \in Nat, NEW q \in Released(n)
  PROVE  /\ q \in Seq(Items) /\ Len(q) \in Nat /\ DOMAIN q = 1 .. Len(q)
         /\ \A j \in DOMAIN q : q[j] \in Buffer /\ q[j].seq = n + j - 1
         /\ \A j, l \in DOMAIN q : q[j] = q[l] => j = l
         /\ Len(q) > 0 => \A i \in Buffer : i.seq >= n
         /\ \A i, j \in Buffer : i # j /\ i.seq = j.seq => i.seq >= n + Len(q) - 1
<1>1. Cardinality(Buffer) \in Nat
  BY FS_CardinalityType DEF Once
<1>2. PICK k \in 0 .. Cardinality(Buffer) : q \in [1 .. k -> Buffer]
  BY DEF Released
<1>3. k \in Nat /\ Buffer \subseteq Items
  BY <1>1 DEF TypeOK
<1>4. q \in Seq(Items) /\ Len(q) = k /\ DOMAIN q = 1 .. k
  BY <1>2, <1>3
<1>5. \A j \in DOMAIN q : q[j].seq = n + j - 1
  BY DEF Released
<1>6. Consecutive(k, n)
  BY <1>4 DEF Released
<1>7. \A j, l \in DOMAIN q : q[j] = q[l] => j = l
  BY <1>3, <1>4, <1>5
<1>8. QED BY <1>2, <1>3, <1>4, <1>5, <1>6, <1>7 DEF Consecutive
-----------------------------------------------------------------------------
(* Each step keeps what is held and sent in order.                           *)

LEMMA StillSent ==
  ASSUME TypeOK, NEW e, NEW new, Sends(e, new), NEW i, SentBy(i, Len(emitted))
  PROVE  SentBy(i, Len(emitted))'
<1>1. e \in Seq(Items) /\ emitted \in Seq(Items)
  BY DEF Sends, TypeOK
<1>2. PICK h \in 1 .. Len(emitted) :
        emitted[h].session = i.session /\ emitted[h].seq = i.seq
  BY DEF SentBy
<1>3. h \in 1 .. Len(emitted') /\ emitted'[h] = emitted[h]
  BY <1>1, <1>2, Appended DEF Sends
<1>4. QED BY <1>2, <1>3 DEF SentBy

\* An item of e is among those sent.
LEMMA NowSent ==
  ASSUME TypeOK, NEW e, NEW new, Sends(e, new), NEW i,
         NEW j \in DOMAIN e, e[j].session = i.session, e[j].seq = i.seq
  PROVE  SentBy(i, Len(emitted))'
<1>1. /\ e \in Seq(Items) /\ emitted \in Seq(Items)
      /\ DOMAIN e = 1 .. Len(e) /\ Len(e) \in Nat /\ Len(emitted) \in Nat
  BY DEF Sends, TypeOK
<1>2. /\ Len(emitted) + j \in 1 .. Len(emitted')
      /\ emitted'[Len(emitted) + j] = e[j]
  BY <1>1, Appended DEF Sends
<1>3. QED BY <1>2 DEF SentBy

SendsMore ==
  /\ emitted' \in Seq(Items) /\ Len(emitted) <= Len(emitted')
  /\ Buffer' \subseteq Items /\ arrived' \in Nat

LEMMA SendingKeeps ==
  ASSUME QueueInv, NEW e, NEW new, Sends(e, new), Ordered(e, Buffer \cup new),
         Seen', Passed'
  PROVE  OrderInv' /\ SendsMore
<1>1. OrderInv'
  BY SendsOnce, SendsInOrder DEF QueueInv, OrderInv
<1>2. SendsMore
  <2>1. /\ e \in Seq(Items) /\ emitted \in Seq(Items) /\ new \subseteq Items /\ arrived \in Nat
        /\ Len(emitted) \in Nat /\ Len(e) \in Nat /\ Buffer \subseteq Items
    BY DEF Sends, QueueInv, TypeOK, Unseen, Items
  <2>2. emitted' \in Seq(Items) /\ Len(emitted') = Len(emitted) + Len(e)
    BY <2>1, Appended DEF Sends
  <2>3. Buffer' \subseteq Items /\ arrived' \in Nat
    BY <2>1 DEF Sends
  <2>4. QED BY <2>1, <2>2, <2>3 DEF SendsMore
<1>3. QED BY <1>1, <1>2

\* A step that neither accepts nor sends an item.
LEMMA SendsNothing ==
  ASSUME QueueInv, Buffer' = Buffer, emitted' = emitted, arrived' = arrived
  PROVE  Sends(<< >>, {})
  BY DEF Sends, QueueInv, TypeOK

LEMMA QuietKeeps ==
  ASSUME QueueInv, Buffer' = Buffer,
         UNCHANGED <<order, current, emitted, arrived>>,
         nextSeqNum' = nextSeqNum \/ Buffer = {}
  PROVE  OrderInv' /\ SendsMore
<1>1. Sends(<< >>, {}) /\ Ordered(<< >>, Buffer \cup {})
  BY SendsNothing DEF Ordered
<1>2. Seen' /\ Passed'
  BY DEF QueueInv, OrderInv, Seen, SeenSessions, Passed, SentBy
<1>3. QED BY <1>1, <1>2, SendingKeeps

\* An item that is accepted.
LEMMA ItemIsNew ==
  ASSUME QueueInv, NEW session \in Sessions \cup {NoSession}, NEW seq \in SeqNums
  PROVE  /\ Item(session, seq) \in Items /\ {Item(session, seq)} \subseteq Unseen
         /\ Item(session, seq) \notin Buffer /\ seq \in Nat
         /\ Item(session, seq).id = arrived + 1
         /\ Item(session, seq).session = session /\ Item(session, seq).seq = seq
  BY QueueAssumption DEF QueueInv, OrderInv, Once, TypeOK, Item, Items, Unseen

LEMMA QueueBypassKeeps ==
  ASSUME QueueInv, NEW session \in Sessions \cup {NoSession}, NEW seq \in SeqNums,
         QueueBypass(session, seq)
  PROVE  OrderInv' /\ SendsMore
<1> DEFINE it == Item(session, seq)
<1>1. /\ it \in Items /\ {it} \subseteq Unseen /\ it \notin Buffer /\ seq \in Nat
      /\ it.session = session /\ it.seq = seq
  BY ItemIsNew
<1>2. /\ emitted' = emitted \o <<it>> /\ Buffer' = Buffer /\ arrived' = arrived + 1
      /\ UNCHANGED <<order, current, nextSeqNum>>
  BY DEF QueueBypass, Accept, Buffer
<1> HIDE DEF it
<1>3. Sends(<<it>>, {it})
  BY <1>1, <1>2 DEF Sends
<1>4. Ordered(<<it>>, Buffer \cup {it})
  <2>1. ASSUME NEW i \in Buffer, i.session = session, i.seq < seq
        PROVE  SentBy(i, Len(emitted))
    <3>1. i.session = current /\ current # NoSession /\ i.seq \in Nat /\ nextSeqNum \in Nat
      BY DEF QueueInv, OrderInv, Seen, TypeOK, Items
    <3>2. seq < nextSeqNum
      BY <1>1, <2>1, <3>1 DEF QueueBypass
    <3>3. QED BY <1>1, <2>1, <3>1, <3>2 DEF QueueInv, OrderInv, Passed
  <2>2. QED BY <1>1, <2>1 DEF Ordered
<1>5. Passed'
  BY <1>2, <1>3, StillSent DEF QueueInv, OrderInv, Passed
<1>6. Seen'
  <2>1. session # NoSession => order[session] # 0
    BY DEF QueueBypass, Known
  <2>2. \A k \in DOMAIN emitted' : emitted'[k].session # NoSession => order[emitted'[k].session] # 0
    BY <1>1, <1>2, <2>1, Appended DEF QueueInv, OrderInv, Seen, TypeOK
  <2>3. QED BY <1>2, <2>2 DEF QueueInv, OrderInv, Seen, SeenSessions
<1>7. QED BY <1>3, <1>4, <1>5, <1>6, SendingKeeps

LEMMA QueueEarlyKeeps ==
  ASSUME QueueInv, NEW session \in Sessions \cup {NoSession}, NEW seq \in SeqNums,
         QueueEarly(session, seq)
  PROVE  OrderInv' /\ SendsMore
<1> DEFINE it == Item(session, seq)
<1>1. /\ it \in Items /\ {it} \subseteq Unseen /\ it \notin Buffer /\ seq \in Nat
      /\ it.session = session /\ it.seq = seq
  BY ItemIsNew
<1>2. /\ emitted' = emitted /\ Buffer' = Buffer \cup {it} /\ arrived' = arrived + 1
      /\ UNCHANGED <<order, current, nextSeqNum>>
      /\ session = current /\ session # NoSession /\ seq > nextSeqNum
  <2>1. held' = Hold(it)
    BY DEF QueueEarly
  <2>2. Buffer' = Buffer \cup {it}
    BY <2>1 DEF Hold, Buffer
  <2>3. QED BY <2>2 DEF QueueEarly, Accept, Known
<1> HIDE DEF it
<1>3. Sends(<< >>, {it})
  BY <1>1, <1>2 DEF Sends, QueueInv, TypeOK
<1>4. Ordered(<< >>, Buffer \cup {it})
  BY DEF Ordered
<1>5. Passed'
  BY <1>1, <1>2, <1>3, StillSent DEF QueueInv, OrderInv, Passed, TypeOK
<1>6. Seen'
  BY <1>1, <1>2 DEF QueueInv, OrderInv, Seen, SeenSessions
<1>7. QED BY <1>3, <1>4, <1>5, <1>6, SendingKeeps

LEMMA QueueInOrderKeeps ==
  ASSUME QueueInv, NEW session \in Sessions \cup {NoSession}, NEW seq \in SeqNums,
         QueueInOrder(session, seq)
  PROVE  OrderInv' /\ SendsMore
<1> DEFINE it == Item(session, seq)
<1>1. /\ it \in Items /\ {it} \subseteq Unseen /\ it \notin Buffer /\ seq \in Nat
      /\ it.session = session /\ it.seq = seq
  BY ItemIsNew
<1> HIDE DEF it
<1>2. /\ session # NoSession /\ session = current /\ seq = nextSeqNum
      /\ order[session] # 0
      /\ arrived' = arrived + 1 /\ UNCHANGED <<order, current>>
  BY DEF QueueInOrder, Accept, Known
<1>3. PICK q \in Released(nextSeqNum + 1) :
        /\ emitted' = Append(emitted, it) \o q
        /\ nextSeqNum' = nextSeqNum + 1 + Len(q)
        /\ held' = Keep(Buffer \ {q[j] : j \in DOMAIN q})
  BY DEF QueueInOrder, it
<1>4. nextSeqNum \in Nat /\ \A i \in Buffer : i.seq \in Nat /\ i.session = current
  BY DEF QueueInv, OrderInv, Seen, TypeOK, Items
<1>5. /\ q \in Seq(Items) /\ Len(q) \in Nat /\ DOMAIN q = 1 .. Len(q)
      /\ \A j \in DOMAIN q : q[j] \in Buffer /\ q[j].seq = nextSeqNum + j
      /\ \A j, l \in DOMAIN q : q[j] = q[l] => j = l
      /\ Len(q) > 0 => \A i \in Buffer : i.seq >= nextSeqNum + 1
  <2>1. nextSeqNum + 1 \in Nat /\ TypeOK /\ Once
    BY <1>4 DEF QueueInv, OrderInv
  <2>2. \A j \in DOMAIN q : q[j].seq = (nextSeqNum + 1) + j - 1 /\ j \in Int
    BY <2>1, ReleasedOK
  <2>3. \A j \in DOMAIN q : q[j].seq = nextSeqNum + j
    BY <1>4, <2>2
  <2>4. QED BY <2>1, <2>3, ReleasedOK
<1> DEFINE e == <<it>> \o q
<1>6. /\ e \in Seq(Items) /\ DOMAIN e = 1 .. 1 + Len(q) /\ e[1] = it
      /\ \A j \in DOMAIN q : 1 + j \in DOMAIN e /\ e[1 + j] = q[j]
      /\ \A j \in DOMAIN e : j = 1 \/ \E l \in DOMAIN q : j = 1 + l
  <2>1. <<it>> \in Seq(Items) /\ Len(<<it>>) = 1 /\ DOMAIN <<it>> = {1} /\ <<it>>[1] = it
    BY <1>1
  <2>2. QED BY <1>5, <2>1, Appended
<1>7. emitted' = emitted \o e
  <2>1. emitted \in Seq(Items) /\ <<it>> \in Seq(Items) /\ q \in Seq(Items)
    BY <1>1, <1>5 DEF QueueInv, TypeOK
  <2>2. Append(emitted, it) = emitted \o <<it>>
    BY <1>1, <2>1
  <2>3. QED BY <1>3, <2>1, <2>2, ConcatAssociative
<1>8. Buffer' = Buffer \ {q[j] : j \in DOMAIN q}
  BY <1>3 DEF Keep, Buffer
<1> HIDE DEF e
<1>9. Sends(e, {it})
  <2>1. {e[j] : j \in DOMAIN e} = {it} \cup {q[j] : j \in DOMAIN q}
    <3>1. \A j \in DOMAIN e : e[j] \in {it} \cup {q[l] : l \in DOMAIN q}
      BY <1>6
    <3>2. 1 \in DOMAIN e
      BY <1>5, <1>6
    <3>3. QED BY <1>6, <3>1, <3>2
  <2>2. \A j \in DOMAIN e : e[j] \in Buffer \cup {it}
    BY <1>5, <1>6
  <2>3. Buffer' = (Buffer \cup {it}) \ {e[j] : j \in DOMAIN e}
    BY <1>1, <1>8, <2>1
  <2>4. ASSUME NEW j \in DOMAIN e, NEW l \in DOMAIN e, e[j] = e[l]
        PROVE  j = l
    BY <1>1, <1>5, <1>6, <2>4
  <2>5. QED BY <1>1, <1>2, <1>6, <1>7, <2>2, <2>3, <2>4 DEF Sends
\* Whoever of S has a number that is passed was sent, or is repeated by e.
<1>10. ASSUME NEW i \in Buffer, NEW n \in 0 .. Len(q), i.seq < nextSeqNum + 1 + n
       PROVE  \/ SentBy(i, Len(emitted))
              \/ \E h \in 1 .. 1 + n : e[h].session = i.session /\ e[h].seq = i.seq
  <2>1. CASE i.seq < nextSeqNum
    BY <2>1 DEF QueueInv, OrderInv, Passed
  <2>2. CASE i.seq = nextSeqNum
    BY <1>1, <1>2, <1>4, <1>6, <2>2
  <2>3. CASE i.seq > nextSeqNum
    <3> DEFINE m == i.seq - nextSeqNum
    <3>1. m \in 1 .. n /\ m \in DOMAIN q /\ nextSeqNum + m = i.seq
      BY <1>4, <1>5, <1>10, <2>3
    <3>2. e[1 + m] = q[m] /\ q[m].seq = i.seq /\ q[m].session = i.session
      BY <1>4, <1>5, <1>6, <3>1
    <3>3. 1 + m \in 1 .. 1 + n
      BY <1>5, <3>1
    <3>4. QED BY <3>2, <3>3
  <2>4. QED BY <1>4, <2>1, <2>2, <2>3
<1>11. Ordered(e, Buffer \cup {it})
  <2>1. SUFFICES ASSUME NEW j \in DOMAIN e, NEW i \in Buffer \cup {it},
                        i.session = e[j].session, i.seq < e[j].seq
                 PROVE  \/ i.id > e[j].id \/ SentBy(i, Len(emitted))
                        \/ \E h \in 1 .. j : e[h].session = i.session /\ e[h].seq = i.seq
    BY DEF Ordered
  <2>2. CASE i = it
    <3>1. 1 \in 1 .. j
      BY <1>5, <1>6
    <3>2. QED BY <1>6, <2>2, <3>1
  <2>3. CASE i \in Buffer
    <3>1. CASE j = 1
      BY <1>1, <1>2, <1>5, <1>6, <2>1, <2>3, <3>1 DEF QueueInv, OrderInv, Passed
    <3>2. CASE \E l \in DOMAIN q : j = 1 + l
      <4>1. PICK l \in DOMAIN q : j = 1 + l
        BY <3>2
      <4>2. e[j].seq = nextSeqNum + l /\ l \in 1 .. Len(q)
        BY <1>5, <1>6, <4>1
      <4>3. l - 1 \in 0 .. Len(q) /\ i.seq < nextSeqNum + 1 + (l - 1) /\ 1 + (l - 1) = l
        BY <1>4, <1>5, <2>1, <2>3, <4>2
      <4>4. \/ SentBy(i, Len(emitted))
            \/ \E h \in 1 .. l : e[h].session = i.session /\ e[h].seq = i.seq
        BY <1>10, <2>3, <4>3
      <4>5. 1 .. l \subseteq 1 .. j
        BY <4>1, <4>2, <1>5
      <4>6. QED BY <4>4, <4>5
    <3>3. QED BY <1>6, <3>1, <3>2
  <2>4. QED BY <2>2, <2>3
<1>12. Passed'
  <2>1. SUFFICES ASSUME NEW i \in Buffer', i.seq < nextSeqNum + 1 + Len(q)
                 PROVE  SentBy(i, Len(emitted))'
    BY <1>3 DEF Passed
  <2>2. i \in Buffer
    BY <1>8
  <2>3. CASE SentBy(i, Len(emitted))
    BY <1>9, <2>3, StillSent DEF QueueInv
  <2>4. CASE \E h \in 1 .. 1 + Len(q) : e[h].session = i.session /\ e[h].seq = i.seq
    BY <1>6, <1>9, <2>4, NowSent DEF QueueInv
  <2>5. Len(q) \in 0 .. Len(q)
    BY <1>5
  <2>6. QED BY <1>10, <2>1, <2>2, <2>3, <2>4, <2>5
<1>13. Seen'
  <2>1. \A j \in DOMAIN e : e[j].session = current
    BY <1>1, <1>2, <1>4, <1>5, <1>6
  <2>2. \A k \in DOMAIN emitted' : emitted'[k].session # NoSession => order[emitted'[k].session] # 0
    BY <1>2, <1>6, <1>7, <2>1, Appended DEF QueueInv, OrderInv, Seen, TypeOK
  <2>3. QED BY <1>2, <1>8, <2>2 DEF QueueInv, OrderInv, Seen, SeenSessions
<1>14. QED BY <1>9, <1>11, <1>12, <1>13, SendingKeeps

\* What is held, sorted, follows the order; so does what it begins with.
LEMMA SortedIsOrdered ==
  ASSUME QueueInv, NEW q \in Sorted(Buffer)
  PROVE  \A j \in DOMAIN q, i \in Buffer :
           i.seq < q[j].seq => \E h \in 1 .. j : q[h] = i
<1>1. /\ DOMAIN q = 1 .. Cardinality(Buffer) /\ Buffer = {q[j] : j \in DOMAIN q}
      /\ \A j, l \in DOMAIN q : j < l => q[j].seq <= q[l].seq
      /\ Cardinality(Buffer) \in Nat
  BY SortedOK, FS_CardinalityType DEF QueueInv, OrderInv, Once, TypeOK
<1>2. \A i \in Buffer : i.seq \in Nat
  BY DEF QueueInv, TypeOK, Items
<1>3. SUFFICES ASSUME NEW j \in DOMAIN q, NEW i \in Buffer, i.seq < q[j].seq
               PROVE  \E h \in 1 .. j : q[h] = i
  OBVIOUS
<1>4. PICK h \in DOMAIN q : q[h] = i
  BY <1>1
<1>5. j \in Int /\ h \in Int /\ h >= 1 /\ q[j].seq \in Nat /\ i.seq \in Nat
  <2>1. DOMAIN q \subseteq Nat \ {0}
    <3>1. DOMAIN q = 1 .. Cardinality(Buffer) /\ Cardinality(Buffer) \in Nat
      BY <1>1
    <3>2. QED BY <3>1
  <2>2. q[j] \in Buffer
    BY <1>1
  <2>3. QED BY <1>2, <2>1, <2>2
<1>6. ~(j < h)
  <2>1. j < h => q[j].seq <= q[h].seq
    BY <1>1, <1>4
  <2>2. QED BY <1>3, <1>4, <1>5, <2>1
<1>7. QED BY <1>4, <1>5, <1>6

LEMMA QueueFirstKeeps ==
  ASSUME QueueInv, NEW session \in Sessions \cup {NoSession}, NEW seq \in SeqNums,
         QueueFirst(session, seq)
  PROVE  OrderInv' /\ SendsMore
<1> DEFINE it == Item(session, seq)
           t  == IF seq <= 1 THEN <<it>> ELSE << >>
<1>1. /\ it \in Items /\ {it} \subseteq Unseen /\ it \notin Buffer /\ seq \in Nat
      /\ it.session = session /\ it.seq = seq
  BY ItemIsNew
<1>2. /\ session \in Sessions /\ session # NoSession /\ order[session] = 0
      /\ order' = [order EXCEPT ![session] = 1 + Cardinality(SeenSessions)]
      /\ current' = session /\ nextSeqNum' = IF seq = 1 THEN 2 ELSE 1
      /\ arrived' = arrived + 1
      /\ held' = IF seq <= 1 THEN NothingHeld ELSE [i \in {it} |-> 0]
  BY DEF QueueFirst, Accept, SeenSessions
<1>3. PICK q \in Sorted(Buffer) : emitted' = emitted \o q \o t
  BY DEF QueueFirst
<1>4. Buffer' = IF seq <= 1 THEN {} ELSE {it}
  BY <1>2 DEF Buffer, NothingHeld
<1> HIDE DEF it
<1>5. /\ q \in Seq(Items) /\ Buffer = {q[j] : j \in DOMAIN q}
      /\ \A j \in DOMAIN q : q[j] \in Buffer
      /\ \A j, l \in DOMAIN q : q[j] = q[l] => j = l
      /\ Len(q) \in Nat /\ DOMAIN q = 1 .. Len(q)
  BY SortedOK DEF QueueInv, OrderInv, Once, TypeOK
<1>6. /\ t \in Seq(Items) /\ Len(t) \in 0 .. 1 /\ (seq <= 1 <=> Len(t) = 1)
      /\ DOMAIN t = 1 .. Len(t) /\ \A j \in DOMAIN t : j = 1 /\ t[j] = it
  <2>1. CASE seq <= 1
    <3>1. t = <<it>> /\ Len(<<it>>) = 1 /\ DOMAIN <<it>> = 1 .. 1 /\ <<it>>[1] = it
      BY <2>1
    <3>2. <<it>> \in Seq(Items)
      BY <1>1
    <3>3. QED BY <2>1, <3>1, <3>2
  <2>2. CASE ~(seq <= 1)
    BY <2>2
  <2>3. QED BY <2>1, <2>2
<1> HIDE DEF t
<1> DEFINE e == q \o t
<1>7. /\ e \in Seq(Items) /\ Len(e) = Len(q) + Len(t) /\ DOMAIN e = 1 .. Len(q) + Len(t)
      /\ \A j \in DOMAIN q : j \in DOMAIN e /\ e[j] = q[j]
      /\ \A j \in DOMAIN t : Len(q) + j \in DOMAIN e /\ e[Len(q) + j] = t[j]
      /\ \A j \in DOMAIN e : j \in DOMAIN q \/ \E l \in DOMAIN t : j = Len(q) + l
  BY <1>5, <1>6, Appended
<1>8. emitted' = emitted \o e
  <2>1. emitted \in Seq(Items) /\ q \in Seq(Items) /\ t \in Seq(Items)
    BY <1>5, <1>6 DEF QueueInv, TypeOK
  <2>2. (emitted \o q) \o t = emitted \o (q \o t)
    BY <2>1, ConcatAssociative
  <2>3. QED BY <1>3, <2>2
<1> HIDE DEF e
<1>9. \A j \in DOMAIN e :
        (j \in DOMAIN q /\ e[j] = q[j]) \/ (j = Len(q) + 1 /\ e[j] = it /\ seq <= 1)
  BY <1>6, <1>7
<1>10. Sends(e, {it})
  <2>1. \A j \in DOMAIN e : e[j] \in Buffer \cup {it}
    BY <1>5, <1>9
  <2>2. ASSUME NEW j \in DOMAIN e, NEW l \in DOMAIN e, e[j] = e[l]
        PROVE  j = l
    BY <1>1, <1>5, <1>9, <2>2
  <2>3. \A i \in Buffer : \E j \in DOMAIN e : e[j] = i
    BY <1>5, <1>7
  <2>4. CASE seq <= 1
    <3>1. 1 \in DOMAIN t
      BY <1>6, <2>4
    <3>2. \E j \in DOMAIN e : e[j] = it
      BY <1>6, <1>7, <3>1
    <3>3. Buffer' = (Buffer \cup {it}) \ {e[j] : j \in DOMAIN e}
      BY <1>4, <2>3, <2>4, <3>2
    <3>4. QED BY <1>1, <1>2, <1>7, <1>8, <2>1, <2>2, <3>3 DEF Sends
  <2>5. CASE ~(seq <= 1)
    <3>1. \A j \in DOMAIN e : e[j] # it
      BY <1>1, <1>5, <1>9, <2>5
    <3>2. Buffer' = (Buffer \cup {it}) \ {e[j] : j \in DOMAIN e}
      BY <1>4, <2>3, <2>5, <3>1
    <3>3. QED BY <1>1, <1>2, <1>7, <1>8, <2>1, <2>2, <3>2 DEF Sends
  <2>6. QED BY <2>4, <2>5
<1>11. \A i \in Buffer : i.session = current /\ i.session # session
  BY <1>2 DEF QueueInv, OrderInv, Seen
<1>12. Ordered(e, Buffer \cup {it})
  <2>1. SUFFICES ASSUME NEW j \in DOMAIN e, NEW i \in Buffer \cup {it},
                        i.session = e[j].session, i.seq < e[j].seq
                 PROVE  \E h \in 1 .. j : e[h].session = i.session /\ e[h].seq = i.seq
    BY DEF Ordered
  <2>2. CASE e[j] = it
    <3>1. i \notin Buffer
      BY <1>1, <1>11, <2>1, <2>2
    <3>2. QED BY <1>1, <2>1, <2>2, <3>1
  <2>3. CASE j \in DOMAIN q /\ e[j] = q[j]
    <3>1. i \in Buffer
      BY <1>1, <1>5, <1>11, <2>1, <2>3
    <3>2. PICK h \in 1 .. j : q[h] = i
      BY <2>1, <2>3, <3>1, SortedIsOrdered
    <3>3. h \in DOMAIN q
      BY <1>5, <2>3
    <3>4. QED BY <1>7, <3>2, <3>3
  <2>4. QED BY <1>9, <2>2, <2>3
<1>13. Passed'
  BY <1>1, <1>2, <1>4 DEF Passed
<1>14. Seen'
  <2>1. Cardinality(SeenSessions) \in Nat /\ IsFiniteSet(SeenSessions \cup {session})
    BY FS_CardinalityType, FS_AddElement DEF QueueInv, OrderInv, Seen
  <2>2. order' = [order EXCEPT ![session] = 1 + Cardinality(SeenSessions)]
        /\ order \in [Sessions -> Nat]
    BY <1>2 DEF QueueInv, TypeOK
  <2>3. order'[session] # 0 /\ \A x \in Sessions \ {session} : order'[x] = order[x]
    BY <1>2, <2>1, <2>2
  <2>4. SeenSessions' = SeenSessions \cup {session}
    BY <1>2, <2>3 DEF SeenSessions
  <2>5. ASSUME NEW i \in Items, i.session # NoSession => order[i.session] # 0
        PROVE  i.session # NoSession => order'[i.session] # 0
    BY <2>3, <2>5 DEF Items
  <2>6. \A j \in DOMAIN e : e[j].session # NoSession => order'[e[j].session] # 0
    <3>1. \A i \in Buffer : i.session # NoSession => order[i.session] # 0
      BY DEF QueueInv, OrderInv, Seen
    <3>2. \A i \in Buffer : i.session # NoSession => order'[i.session] # 0
      BY <2>5, <3>1 DEF QueueInv, TypeOK
    <3>3. QED BY <1>1, <1>5, <1>9, <2>3, <3>2
  <2>7. \A k \in DOMAIN emitted' : emitted'[k].session # NoSession => order'[emitted'[k].session] # 0
    <3>1. emitted \in Seq(Items)
      BY DEF QueueInv, TypeOK
    <3>2. \A k \in DOMAIN emitted : emitted[k].session # NoSession => order'[emitted[k].session] # 0
      BY <2>5, <3>1 DEF QueueInv, OrderInv, Seen
    <3>3. QED BY <1>7, <1>8, <2>6, <3>1, <3>2, Appended
  <2>8. QED BY <1>1, <1>2, <1>4, <2>1, <2>3, <2>4, <2>7 DEF Seen
<1>15. QED BY <1>10, <1>12, <1>13, <1>14, SendingKeeps

LEMMA OnTimeoutKeeps ==
  ASSUME QueueInv, OnTimeout, ~closed
  PROVE  OrderInv' /\ SendsMore
<1>1. PICK q \in Sorted(Buffer), n \in 0 .. Cardinality(Buffer) :
        LET out  == SubSeq(q, 1, n)
            rest == Buffer \ {out[j] : j \in DOMAIN out}
        IN  /\ emitted' = emitted \o out
            /\ nextSeqNum' = IF n > 0 THEN Later(nextSeqNum, q[n].seq + 1) ELSE nextSeqNum
            /\ held' = Keep(rest)
  BY DEF OnTimeout
<1>2. /\ q \in Seq(Items) /\ Len(q) = Cardinality(Buffer) /\ DOMAIN q = 1 .. Len(q)
      /\ Buffer = {q[j] : j \in DOMAIN q} /\ \A j \in DOMAIN q : q[j] \in Buffer
      /\ \A j, l \in DOMAIN q : q[j] = q[l] => j = l
      /\ \A j, l \in DOMAIN q : j < l => q[j].seq <= q[l].seq
      /\ Len(q) \in Nat /\ n \in Nat /\ n <= Len(q)
  BY SortedOK, FS_CardinalityType DEF QueueInv, OrderInv, Once, TypeOK
<1>11. Len(q) \in Nat /\ n \in Nat /\ n <= Len(q) /\ DOMAIN q = 1 .. Len(q) /\ q \in Seq(Items)
  BY <1>2
<1>12. 1 .. n \subseteq DOMAIN q
  BY <1>11
<1> DEFINE e == SubSeq(q, 1, n)
<1>3. /\ e \in Seq(Items) /\ DOMAIN e = 1 .. n
      /\ \A j \in DOMAIN e : j \in DOMAIN q /\ e[j] = q[j]
  <2>1. e \in Seq(Items) /\ Len(e) = n /\ \A j \in 1 .. n : e[j] = q[j]
    BY <1>11
  <2>2. DOMAIN e = 1 .. Len(e)
    BY <2>1
  <2>3. QED BY <1>12, <2>1, <2>2
<1>4. /\ emitted' = emitted \o e /\ Buffer' = Buffer \ {e[j] : j \in DOMAIN e}
      /\ nextSeqNum' = IF n > 0 THEN Later(nextSeqNum, q[n].seq + 1) ELSE nextSeqNum
      /\ UNCHANGED <<order, current, arrived>>
  BY <1>1 DEF OnTimeout, Keep, Buffer
<1> HIDE DEF e
<1>5. Sends(e, {})
  BY <1>2, <1>3, <1>4 DEF Sends
<1>6. Ordered(e, Buffer \cup {})
  <2>1. SUFFICES ASSUME NEW j \in DOMAIN e, NEW i \in Buffer, i.seq < e[j].seq
                 PROVE  \E h \in 1 .. j : e[h].session = i.session /\ e[h].seq = i.seq
    BY DEF Ordered
  <2>2. PICK h \in 1 .. j : q[h] = i
    BY <1>3, <2>1, SortedIsOrdered
  <2>3. j \in 1 .. n /\ h \in 1 .. n
    BY <1>3, <1>11
  <2>4. QED BY <1>3, <2>2, <2>3
<1>7. nextSeqNum \in Nat /\ \A i \in Buffer : i.seq \in Nat /\ i.session = current
  BY DEF QueueInv, OrderInv, Seen, TypeOK, Items
<1>8. Passed'
  <2>1. SUFFICES ASSUME NEW i \in Buffer', i.seq < nextSeqNum'
                 PROVE  SentBy(i, Len(emitted))'
    BY DEF Passed
  <2>2. i \in Buffer
    BY <1>4
  <2>3. CASE i.seq < nextSeqNum
    BY <1>5, <2>2, <2>3, StillSent DEF QueueInv, OrderInv, Passed
  <2>4. CASE ~(i.seq < nextSeqNum)
    <3>8. n > 0
      BY <1>4, <1>11, <2>1, <2>4
    <3>1. n > 0 /\ n \in DOMAIN e /\ n \in DOMAIN q /\ e[n] = q[n]
      <4>1. n \in 1 .. n
        BY <1>11, <3>8
      <4>2. QED BY <1>3, <3>8, <4>1
    <3>2. q[n].seq \in Nat /\ i.seq \in Nat /\ q[n].session = i.session
      BY <1>2, <1>7, <2>2, <3>1
    <3>3. i.seq <= q[n].seq
      BY <1>4, <1>7, <2>1, <2>4, <3>1, <3>2 DEF Later
    <3>4. PICK h \in DOMAIN q : q[h] = i
      BY <1>2, <2>2
    <3>5. h > n
      <4>1. h \notin DOMAIN e
        BY <1>3, <1>4, <3>4
      <4>2. h \in Nat \ {0} /\ h \notin 1 .. n
        BY <1>3, <1>11, <3>4, <4>1
      <4>3. QED BY <1>11, <4>2
    <3>6. q[n].seq <= i.seq
      BY <1>2, <3>1, <3>4, <3>5
    <3>7. QED BY <1>5, <3>1, <3>2, <3>3, <3>6, NowSent DEF QueueInv
  <2>5. QED BY <2>3, <2>4
<1>9. Seen'
  <2>1. \A j \in DOMAIN e : e[j].session = current
    BY <1>2, <1>3, <1>7
  <2>2. \A k \in DOMAIN emitted' : emitted'[k].session # NoSession => order[emitted'[k].session] # 0
    BY <1>3, <1>4, <2>1, Appended DEF QueueInv, OrderInv, Seen, TypeOK
  <2>3. QED BY <1>4, <2>2 DEF QueueInv, OrderInv, Seen, SeenSessions
<1>10. QED BY <1>5, <1>6, <1>8, <1>9, SendingKeeps

LEMMA OrderStep ==
  ASSUME QueueInv, Next
  PROVE  OrderInv' /\ SendsMore
<1>1. ASSUME NEW session \in Sessions \cup {NoSession}, NEW seq \in SeqNums,
             QueueItem(session, seq)
      PROVE  OrderInv' /\ SendsMore
  BY <1>1, QueueFirstKeeps, QueueBypassKeeps, QueueInOrderKeeps, QueueEarlyKeeps DEF QueueItem
<1>2. ASSUME arrived = 0, NEW n \in Restarts, SetNextSeqNum(n)
      PROVE  OrderInv' /\ SendsMore
  <2>1. Buffer = {}
    BY <1>2 DEF QueueInv, OrderInv, Once
  <2>3. Buffer' = Buffer
    BY <1>2 DEF SetNextSeqNum, Buffer
  <2>2. QED BY <1>2, <2>1, <2>3, QuietKeeps DEF SetNextSeqNum
<1>3. CASE Receive \/ Close
  <2>1. Buffer' = Buffer
    BY <1>3 DEF Receive, Close, Buffer
  <2>2. QED BY <1>3, <2>1, QuietKeeps DEF Receive, Close
<1>4. CASE Tick
  <2>1. Buffer' = Buffer
    BY <1>4 DEF Tick, Buffer
  <2>2. QED BY <1>4, <2>1, QuietKeeps DEF Tick
<1>5. CASE OnTimeout /\ closed
  <2>1. Buffer' = Buffer
    BY <1>5 DEF OnTimeout, Buffer
  <2>2. QED BY <1>5, <2>1, QuietKeeps DEF OnTimeout
<1>6. QED BY <1>1, <1>2, <1>3, <1>4, <1>5, OnTimeoutKeeps DEF Next
-----------------------------------------------------------------------------
(* Timers. *)

\* The timer set for those in S is that of the one that has waited longest.
LEMMA NextTimeoutOK ==
  ASSUME TypeOK, NEW S \in SUBSET Buffer
  PROVE  /\ NextTimeout(S) \in {NoTimer} \cup 0 .. Timeout
         /\ S # {} => /\ NextTimeout(S) # NoTimer
                      /\ \A i \in S : NextTimeout(S) + held[i] <= Timeout
<1>1. CASE S = {}
  BY <1>1 DEF NextTimeout
<1>2. CASE S # {}
  <2> DEFINE T == {Timeout - held[i] : i \in S}
  <2>1. \A i \in S : held[i] \in 0 .. Timeout /\ Timeout \in Nat
    BY QueueAssumption DEF TypeOK
  <2>2. T \subseteq Nat /\ T # {}
    BY <1>2, <2>1
  <2>3. PICK t \in T : \A u \in T : ~(<<u, t>> \in OpToRel(<, Nat))
    BY <2>2, NatLessThanWellFounded, WFMin
  <2>4. ASSUME NEW u \in T
        PROVE  t <= u
    <3>0. t \in Nat /\ u \in Nat
      BY <2>2
    <3>1. <<u, t>> \notin OpToRel(<, Nat)
      BY <2>3
    <3>2. OpToRel(<, Nat) = {ss \in Nat \X Nat : ss[1] < ss[2]}
      BY DEF OpToRel
    <3>3. <<u, t>> \in Nat \X Nat /\ <<u, t>>[1] = u /\ <<u, t>>[2] = t
      BY <3>0
    <3>4. ~(u < t)
      BY <3>1, <3>2, <3>3
    <3>5. QED BY <3>0, <3>4
  <2>5. t \in 0 .. Timeout
    BY <2>1
  <2> DEFINE P(m) == (\E i \in S : m = Timeout - held[i]) /\ \A i \in S : m <= Timeout - held[i]
  <2>6. P(t)
    BY <2>4
  <2>7. NextTimeout(S) = CHOOSE m \in 0 .. Timeout : P(m)
    BY <1>2 DEF NextTimeout
  <2>8. NextTimeout(S) \in 0 .. Timeout /\ P(NextTimeout(S))
    BY <2>5, <2>6, <2>7
  <2>9. QED BY <2>1, <2>8 DEF NoTimer
<1>3. QED BY <1>1, <1>2

TimerOK ==
  /\ held \in [Buffer -> 0 .. Timeout]
  /\ timer \in {NoTimer} \cup 0 .. Timeout /\ strays \subseteq 0 .. Timeout
  /\ TimerCovers

LEMMA TimerStep ==
  ASSUME QueueInv, Next
  PROVE  TimerOK'
<1>1. /\ held \in [Buffer -> 0 .. Timeout] /\ Timeout \in Nat \ {0}
      /\ timer \in {NoTimer} \cup 0 .. Timeout /\ strays \subseteq 0 .. Timeout
      /\ TimerCovers /\ closed \in BOOLEAN
  BY QueueAssumption DEF QueueInv, TypeOK
<1>2. Stopped \subseteq 0 .. Timeout
  BY <1>1 DEF Stopped
<1>3. \A t \in {NoTimer} \cup 0 .. Timeout : EnsureTimer(t) \in 0 .. Timeout
  BY <1>1 DEF EnsureTimer, NoTimer
<1>4. ASSUME NEW session, NEW seq \in SeqNums, QueueFirst(session, seq)
      PROVE  TimerOK'
  <2> DEFINE t == IF Buffer = {} THEN timer ELSE NoTimer
             it == Item(session, seq)
  <2>1. /\ held' = IF seq <= 1 THEN NothingHeld ELSE [i \in {it} |-> 0]
        /\ timer' = IF seq <= 1 THEN t ELSE EnsureTimer(t)
        /\ strays' = IF Buffer = {} THEN strays ELSE Stopped
    BY <1>4 DEF QueueFirst
  <2>2. t \in {NoTimer} \cup 0 .. Timeout
    BY <1>1
  <2> HIDE DEF t, it
  <2>3. timer' \in {NoTimer} \cup 0 .. Timeout /\ strays' \subseteq 0 .. Timeout
    BY <1>1, <1>2, <1>3, <2>1, <2>2
  <2>4. CASE seq <= 1
    BY <2>1, <2>3, <2>4 DEF TimerOK, TimerCovers, Buffer, NothingHeld
  <2>5. CASE ~(seq <= 1)
    <3>1. held' = [i \in {it} |-> 0] /\ Buffer' = {it} /\ timer' \in 0 .. Timeout
      BY <1>3, <2>1, <2>2, <2>5 DEF Buffer
    <3>2. held' \in [Buffer' -> 0 .. Timeout] /\ \A i \in Buffer' : held'[i] = 0
      BY <1>1, <3>1
    <3>3. timer' \in Nat /\ timer' <= Timeout /\ timer' # NoTimer
      BY <1>1, <3>1 DEF NoTimer
    <3>4. ASSUME NEW i \in Buffer'
          PROVE  timer' + held'[i] <= Timeout
      <4>1. held'[i] = 0
        BY <3>2
      <4>2. QED BY <3>3, <4>1
    <3>5. QED BY <2>3, <3>2, <3>3, <3>4 DEF TimerOK, TimerCovers
  <2>6. QED BY <2>4, <2>5
<1>5. ASSUME NEW S \in SUBSET Buffer, held' = Keep(S), UNCHANGED <<timer, strays, closed>>
      PROVE  TimerOK'
  <2>1. Buffer' = S /\ \A i \in S : held'[i] = held[i]
    BY <1>5 DEF Keep, Buffer
  <2>2. held' \in [S -> 0 .. Timeout]
    BY <1>1, <1>5 DEF Keep
  <2>3. QED BY <1>1, <1>5, <2>1, <2>2 DEF TimerOK, TimerCovers
<1>6. ASSUME UNCHANGED <<held, timer, strays>>, closed' = closed
      PROVE  TimerOK'
  BY <1>1, <1>6 DEF TimerOK, TimerCovers, Buffer
<1>7. ASSUME NEW session, NEW seq, QueueEarly(session, seq)
      PROVE  TimerOK'
  <2> DEFINE it == Item(session, seq)
  <2>1. /\ held' = [i \in Buffer \cup {it} |-> IF i = it THEN 0 ELSE held[i]]
        /\ timer' = EnsureTimer(timer) /\ strays' = strays /\ ~closed
    BY <1>7 DEF QueueEarly, Hold, Accept
  <2>2. Buffer' = Buffer \cup {it}
    BY <2>1 DEF Buffer
  <2> HIDE DEF it
  <2>3. held' \in [Buffer' -> 0 .. Timeout]
    BY <1>1, <2>1, <2>2
  <2>4. timer' \in 0 .. Timeout
    BY <1>1, <1>3, <2>1
  <2>5. ASSUME NEW i \in Buffer \cup {it}
        PROVE  timer' + held'[i] <= Timeout
    <3>1. CASE i = it
      BY <1>1, <2>1, <2>4, <3>1
    <3>2. CASE i # it
      <4>1. i \in Buffer /\ held'[i] = held[i] /\ timer # NoTimer /\ timer + held[i] <= Timeout
        BY <1>1, <2>1, <2>5, <3>2 DEF TimerCovers
      <4>2. QED BY <2>1, <4>1 DEF EnsureTimer
    <3>3. QED BY <3>1, <3>2
  <2>6. QED BY <1>1, <2>1, <2>2, <2>3, <2>4, <2>5 DEF TimerOK, TimerCovers, NoTimer
<1>8. CASE Tick
  <2>1. /\ held' = [i \in Buffer |-> IF held[i] < Timeout THEN held[i] + 1 ELSE Timeout]
        /\ timer' = IF timer > 0 THEN timer - 1 ELSE timer
        /\ strays' = {IF t > 0 THEN t - 1 ELSE 0 : t \in strays} /\ closed' = closed
    BY <1>8 DEF Tick
  <2>2. Buffer' = Buffer
    BY <2>1 DEF Buffer
  <2>3. held' \in [Buffer -> 0 .. Timeout]
    BY <1>1, <2>1
  <2>4. timer' \in {NoTimer} \cup 0 .. Timeout
    BY <1>1, <2>1 DEF NoTimer
  <2>5. strays' \subseteq 0 .. Timeout
    BY <1>1, <2>1
  <2>6. ASSUME ~closed, NEW i \in Buffer
        PROVE  timer' # NoTimer /\ timer' + held'[i] <= Timeout
    <3>1. timer \in 0 .. Timeout /\ held[i] \in 0 .. Timeout /\ timer + held[i] <= Timeout
      BY <1>1, <2>6 DEF TimerCovers
    <3>2. held'[i] = IF held[i] < Timeout THEN held[i] + 1 ELSE Timeout
      BY <2>1
    <3>3. QED BY <1>1, <2>1, <3>1, <3>2 DEF NoTimer
  <2>7. QED BY <2>1, <2>2, <2>3, <2>4, <2>5, <2>6 DEF TimerOK, TimerCovers
<1>9. CASE Close
  BY <1>1, <1>2, <1>9 DEF Close, TimerOK, TimerCovers, Buffer
<1>10. CASE OnTimeout
  <2>1. strays' \subseteq 0 .. Timeout /\ closed' = closed
    BY <1>1, <1>10 DEF OnTimeout
  <2>2. CASE closed
    BY <1>1, <1>10, <2>1, <2>2 DEF OnTimeout, TimerOK, TimerCovers, Buffer
  <2>3. CASE ~closed
    <3>1. PICK S \in SUBSET Buffer : held' = Keep(S) /\ timer' = NextTimeout(S)
      <4>1. PICK q \in Sorted(Buffer), n \in 0 .. Cardinality(Buffer) :
              LET out  == SubSeq(q, 1, n)
                  rest == Buffer \ {out[j] : j \in DOMAIN out}
              IN  held' = Keep(rest) /\ timer' = NextTimeout(rest)
        BY <1>10, <2>3 DEF OnTimeout
      <4>2. QED BY <4>1
    <3>2. Buffer' = S /\ \A i \in S : held'[i] = held[i]
      BY <3>1 DEF Keep, Buffer
    <3>3. held' \in [S -> 0 .. Timeout]
      BY <1>1, <3>1 DEF Keep
    <3>4. /\ NextTimeout(S) \in {NoTimer} \cup 0 .. Timeout
          /\ S # {} => /\ NextTimeout(S) # NoTimer
                       /\ \A i \in S : NextTimeout(S) + held[i] <= Timeout
      BY NextTimeoutOK DEF QueueInv
    <3>5. QED BY <2>1, <3>1, <3>2, <3>3, <3>4 DEF TimerOK, TimerCovers
  <2>4. QED BY <2>2, <2>3
<1>11. ASSUME NEW session, NEW seq, QueueInOrder(session, seq)
       PROVE  TimerOK'
  <2>1. PICK q \in Released(nextSeqNum + 1) : held' = Keep(Buffer \ {q[j] : j \in DOMAIN q})
    BY <1>11 DEF QueueInOrder
  <2>2. UNCHANGED <<timer, strays, closed>>
    BY <1>11 DEF QueueInOrder, Accept
  <2>3. QED BY <1>5, <2>1, <2>2
<1>12. ASSUME NEW session, NEW seq, QueueBypass(session, seq)
       PROVE  TimerOK'
  BY <1>6, <1>12 DEF QueueBypass, Accept
<1>13. ASSUME NEW n, SetNextSeqNum(n)
       PROVE  TimerOK'
  BY <1>6, <1>13 DEF SetNextSeqNum
<1>14. CASE Receive
  BY <1>6, <1>14 DEF Receive
<1>15. QED BY <1>4, <1>7, <1>8, <1>9, <1>10, <1>11, <1>12, <1>13, <1>14 DEF Next, QueueItem
-----------------------------------------------------------------------------
(* The invariant. *)

LEMMA QueueInit == Init => QueueInv
<1> SUFFICES ASSUME Init PROVE QueueInv
  OBVIOUS
<1>1. /\ Buffer = {} /\ held = NothingHeld /\ emitted = << >> /\ taken = 0 /\ arrived = 0
      /\ order = [s \in Sessions |-> 0] /\ current = NoSession /\ nextSeqNum = 1
      /\ timer = NoTimer /\ strays = {} /\ closed = FALSE
  BY DEF Init, Buffer, NothingHeld
<1>2. TypeOK
  <2>1. held \in [Buffer -> 0 .. Timeout] /\ Buffer \subseteq Items
    BY <1>1 DEF NothingHeld
  <2>2. emitted \in Seq(Items) /\ taken \in 0 .. Len(emitted)
    BY <1>1
  <2>3. order \in [Sessions -> Nat] /\ arrived \in Nat /\ nextSeqNum \in Nat
    BY <1>1
  <2>4. QED BY <1>1, <2>1, <2>2, <2>3 DEF TypeOK
<1>3. Room
  BY <1>1, QueueAssumption DEF Room
<1>4. SeenSessions = {}
  BY <1>1 DEF SeenSessions
<1>5. OrderInv
  BY <1>1, <1>4, FS_EmptySet DEF OrderInv, Once, Seen, Passed, Follows, KeepsOrder
<1>6. TimerCovers
  BY <1>1 DEF TimerCovers
<1>7. QED BY <1>2, <1>3, <1>5, <1>6 DEF QueueInv

\* What is accepted has room.
LEMMA RoomStep ==
  ASSUME QueueInv, Next
  PROVE  Room' /\ taken' \in 0 .. Len(emitted')
<1>1. /\ arrived \in Nat /\ taken \in 0 .. Len(emitted) /\ Len(emitted) \in Nat
      /\ Len(emitted') \in Nat /\ Len(emitted) <= Len(emitted') /\ Cap \in Nat \ {0}
      /\ Cardinality(Buffer) \in Nat
  BY OrderStep, QueueAssumption, FS_CardinalityType
     DEF QueueInv, OrderInv, Once, TypeOK, SendsMore
<1>2. Len(emitted) + Cardinality(Buffer) = arrived
  BY Counted DEF QueueInv, OrderInv
<1>3. CASE Accept
  <2>1. Len(emitted) - taken + Cardinality(Buffer) < Cap /\ arrived' = arrived + 1 /\ taken' = taken
    BY <1>1, <1>3 DEF Accept, Full
  <2>2. QED BY <1>1, <1>2, <2>1 DEF Room
<1>4. CASE Receive
  BY <1>1, <1>2, <1>4 DEF Receive, Room, QueueInv
<1>5. CASE UNCHANGED <<arrived, taken>>
  BY <1>1, <1>5 DEF Room, QueueInv
<1>6. Accept \/ Receive \/ UNCHANGED <<arrived, taken>>
  BY DEF Next, QueueItem, QueueFirst, QueueBypass, QueueInOrder, QueueEarly, SetNextSeqNum,
         OnTimeout, Close, Tick
<1>7. QED BY <1>3, <1>4, <1>5, <1>6

LEMMA NumbersStep ==
  ASSUME QueueInv, Next
  PROVE  /\ order' \in [Sessions -> Nat] /\ current' \in Sessions \cup {NoSession}
         /\ nextSeqNum' \in Nat /\ closed' \in BOOLEAN
<1>1. /\ order \in [Sessions -> Nat] /\ current \in Sessions \cup {NoSession}
      /\ nextSeqNum \in Nat /\ closed \in BOOLEAN /\ Restarts \subseteq Nat
      /\ Cardinality(SeenSessions) \in Nat
  BY QueueAssumption, FS_CardinalityType DEF QueueInv, TypeOK, OrderInv, Seen
<1>2. ASSUME NEW session \in Sessions \cup {NoSession}, NEW seq, QueueFirst(session, seq)
      PROVE  /\ order' \in [Sessions -> Nat] /\ current' \in Sessions /\ nextSeqNum' \in Nat
             /\ closed' = closed
  <2>1. /\ session \in Sessions /\ current' = session /\ closed' = closed
        /\ order' = [order EXCEPT ![session] = 1 + Cardinality(SeenSessions)]
        /\ nextSeqNum' = IF seq = 1 THEN 2 ELSE 1
    BY <1>2 DEF QueueFirst, SeenSessions, Accept
  <2>2. QED BY <1>1, <2>1
<1>3. ASSUME NEW session, NEW seq, QueueInOrder(session, seq)
      PROVE  nextSeqNum' \in Nat /\ UNCHANGED <<order, current, closed>>
  <2>1. PICK q \in Released(nextSeqNum + 1) : nextSeqNum' = nextSeqNum + 1 + Len(q)
    BY <1>3 DEF QueueInOrder
  <2>2. Len(q) \in Nat
    BY <1>1, ReleasedOK DEF QueueInv, OrderInv
  <2>3. QED BY <1>1, <1>3, <2>1, <2>2 DEF QueueInOrder, Accept
<1>4. CASE OnTimeout
  <2>1. UNCHANGED <<order, current, closed>>
    BY <1>4 DEF OnTimeout
  <2>2. nextSeqNum' \in Nat
    <3>1. CASE closed
      BY <1>1, <1>4, <3>1 DEF OnTimeout
    <3>2. CASE ~closed
      <4>1. PICK q \in Sorted(Buffer), n \in 0 .. Cardinality(Buffer) :
              nextSeqNum' = IF n > 0 THEN Later(nextSeqNum, q[n].seq + 1) ELSE nextSeqNum
        BY <1>4, <3>2 DEF OnTimeout
      <4>2. CASE n > 0
        <5>1. n \in DOMAIN q /\ q[n] \in Items
          BY <4>2, SortedOK, FS_CardinalityType DEF QueueInv, OrderInv, Once, TypeOK
        <5>2. q[n].seq \in Nat
          BY <5>1 DEF Items
        <5>3. QED BY <1>1, <4>1, <4>2, <5>2 DEF Later
      <4>3. QED BY <1>1, <4>1, <4>2
    <3>3. QED BY <3>1, <3>2
  <2>3. QED BY <1>1, <2>1, <2>2
<1>5. ASSUME NEW n \in Restarts, SetNextSeqNum(n)
      PROVE  nextSeqNum' \in Nat /\ UNCHANGED <<order, current, closed>>
  BY <1>1, <1>5 DEF SetNextSeqNum
<1>6. ASSUME NEW session, NEW seq, QueueBypass(session, seq) \/ QueueEarly(session, seq)
      PROVE  UNCHANGED <<order, current, nextSeqNum, closed>>
  BY <1>6 DEF QueueBypass, QueueEarly, Accept
<1>7. CASE Receive \/ Tick
  BY <1>1, <1>7 DEF Receive, Tick
<1>8. CASE Close
  BY <1>1, <1>8 DEF Close
<1>9. QED BY <1>1, <1>2, <1>3, <1>4, <1>5, <1>6, <1>7, <1>8 DEF Next, QueueItem

LEMMA QueueStep == QueueInv /\ [Next]_vars => QueueInv'
<1> SUFFICES ASSUME QueueInv, [Next]_vars PROVE QueueInv'
  OBVIOUS
<1>1. CASE Next
  <2>1. TypeOK'
    BY <1>1, OrderStep, TimerStep, RoomStep, NumbersStep DEF TypeOK, TimerOK, SendsMore
  <2>2. QED BY <1>1, <2>1, OrderStep, TimerStep, RoomStep DEF QueueInv, TimerOK
<1>2. CASE UNCHANGED vars
  <2>1. Buffer' = Buffer
    BY <1>2 DEF vars, Buffer
  <2>2. QED BY <1>2, <2>1 DEF vars, QueueInv, TypeOK, Room, OrderInv, Once, Seen, SeenSessions,
                              Passed, Follows, SentBy, KeepsOrder, TimerCovers
<1>3. QED BY <1>1, <1>2

LEMMA QueueAlways == Spec => []QueueInv
  BY QueueInit, QueueStep, PTL DEF Spec

(* Every accepted item is held or was sent, once, however items of several   *)
(* sessions, timeouts and a close interleave (flushBuffer_withlock, QueueItem, *)
(* processBuffer_withlock, onTimeout, quickreorderqueue.go:101-237).         *)
THEOREM QueueLosesNothing == Spec => []NothingLost
<1>1. ASSUME QueueInv
      PROVE  NothingLost
  <2>1. SUFFICES ASSUME NEW n \in 1 .. arrived
                 PROVE  Cardinality({i \in Buffer : i.id = n})
                          + Cardinality({k \in DOMAIN emitted : emitted[k].id = n}) = 1
    BY DEF NothingLost
  <2> DEFINE kept == {i \in Buffer : i.id = n}
             sent == {k \in DOMAIN emitted : emitted[k].id = n}
  <2>2. CASE kept # {}
    <3>1. PICK i \in Buffer : i.id = n
      BY <2>2
    <3>2. kept = {i} /\ sent = {}
      BY <1>1, <3>1 DEF QueueInv, OrderInv, Once
    <3> HIDE DEF kept, sent
    <3>3. Cardinality(kept) = 1 /\ Cardinality(sent) = 0
      BY <3>2, FS_EmptySet, FS_Singleton
    <3>4. Cardinality(kept) + Cardinality(sent) = 1
      BY <3>3
    <3>5. QED BY <3>4 DEF kept, sent
  <2>3. CASE kept = {}
    <3>1. PICK k \in DOMAIN emitted : emitted[k].id = n
      BY <1>1, <2>3 DEF QueueInv, OrderInv, Once
    <3>2. sent = {k}
      BY <1>1, <3>1 DEF QueueInv, OrderInv, Once
    <3> HIDE DEF kept, sent
    <3>3. Cardinality(kept) = 0 /\ Cardinality(sent) = 1
      BY <2>3, <3>2, FS_EmptySet, FS_Singleton
    <3>4. Cardinality(kept) + Cardinality(sent) = 1
      BY <3>3
    <3>5. QED BY <3>4 DEF kept, sent
  <2>4. QED BY <2>2, <2>3
<1>2. QED BY <1>1, QueueAlways, PTL

(* All that is held has room in the channel: whatever sends it, under the    *)
(* queue's lock, never waits for the consumer (quickreorderqueue.go:110-126, *)
(* 203).                                                                     *)
THEOREM QueueNeverBlocks == Spec => []NeverBlocks
<1>1. ASSUME QueueInv
      PROVE  NeverBlocks
  <2>1. Len(emitted) + Cardinality(Buffer) = arrived
    BY <1>1, Counted DEF QueueInv, OrderInv
  <2>2. /\ Len(emitted) \in Nat /\ Cardinality(Buffer) \in Nat /\ taken \in Nat /\ Cap \in Nat
        /\ arrived - taken <= Cap
    BY <1>1, FS_CardinalityType, QueueAssumption DEF QueueInv, OrderInv, Once, TypeOK, Room
  <2>3. QED BY <2>1, <2>2 DEF NeverBlocks
<1>2. QED BY <1>1, QueueAlways, PTL

(* Within a session an item is sent after one with a higher number only if   *)
(* it came after it, or repeats one already sent (QueueItem,                 *)
(* processBuffer_withlock, onTimeout, quickreorderqueue.go:116-237).         *)
THEOREM QueueKeepsOrder == Spec => []KeepsOrder
<1>1. QueueInv => KeepsOrder
  BY DEF QueueInv, OrderInv
<1>2. QED BY <1>1, QueueAlways, PTL

(* While something is held a timer runs that fires no later than the time of *)
(* the item that has waited longest, also after callbacks that came late     *)
(* (ensureTimer_withlock, onTimeout).                                        *)
THEOREM QueueTimerCovers == Spec => []TimerCovers
<1>1. QueueInv => TimerCovers
  BY DEF QueueInv
<1>2. QED BY <1>1, QueueAlways, PTL
-----------------------------------------------------------------------------
(* The work queue: its safety for any items and any waiters.  The four        *)
(* invariants are inductive together: InOrder needs the types for the item in *)
(* hand, WaitMeansOver needs NoLostWakeup for an empty queue once the worker *)
(* has returned.                                                             *)
WorkInv == WorkTypeOK /\ InOrder /\ NoLostWakeup /\ WaitMeansOver

\* The initial state satisfies the invariant.
LEMMA WorkStarts == WorkInit => WorkInv
<1> SUFFICES ASSUME WorkInit PROVE WorkInv
  OBVIOUS
<1>1. WorkTypeOK
  <2>1. waiter \in [Waiters -> {"idle", "waiting", "returned"}]
    BY DEF WorkInit
  <2>2. queue \in Seq(WorkItems) /\ item \in Seq(WorkItems) /\ accepted \in Seq(WorkItems)
        /\ worked \in Seq(WorkItems) /\ Len(item) = 0
    BY DEF WorkInit
  <2>3. workClosed \in BOOLEAN /\ started \in BOOLEAN /\ dropped \in BOOLEAN
        /\ (started <=> worker # "none")
    BY DEF WorkInit
  <2>4. worker = "none" /\ offered \subseteq WorkItems /\ late \subseteq Waiters
    BY DEF WorkInit
  <2> QED BY <2>1, <2>2, <2>3, <2>4 DEF WorkTypeOK
<1>2. InOrder /\ NoLostWakeup /\ WaitMeansOver
  BY DEF WorkInit, InOrder, NoLostWakeup, WaitMeansOver
<1> QED BY <1>1, <1>2 DEF WorkInv

\* The worker's own steps preserve the types and the order of the items.
LEMMA WorkerKeeps == ASSUME WorkInv, Worker PROVE WorkInv'
<1> USE DEF WorkInv
<1>1. CASE Take
  <2> DEFINE i == Head(queue)
  <2>1. i \in WorkItems /\ Tail(queue) \in Seq(WorkItems) /\ queue = <<i>> \o Tail(queue)
    BY <1>1 DEF Take, WorkTypeOK
  <2>2. item = << >> /\ item' = <<i>> /\ ~dropped
    BY <1>1 DEF Take, WorkTypeOK, InOrder
  <2>3. WorkTypeOK'
    BY <1>1, <2>1, <2>2 DEF Take, WorkTypeOK
  <2>4. worked' \o item' \o queue' = worked \o item \o queue
    BY <1>1, <2>1, <2>2 DEF Take, WorkTypeOK
  <2>5. InOrder' /\ NoLostWakeup' /\ WaitMeansOver'
    BY <1>1, <2>1, <2>2, <2>4
    DEF Take, WorkTypeOK, InOrder, NoLostWakeup, WaitMeansOver, Running
  <2> QED BY <2>3, <2>5
<1>2. CASE WorkerWaits
  BY <1>2 DEF WorkerWaits, Idle, WorkTypeOK, InOrder, NoLostWakeup, WaitMeansOver, Running
<1>3. CASE FinishItem
  <2>1. worked \o item \in Seq(WorkItems) /\ worked' \o item' = worked \o item
    BY <1>3 DEF FinishItem, WorkTypeOK
  <2>2. WorkTypeOK'
    BY <1>3, <2>1 DEF FinishItem, WorkTypeOK
  <2>3. InOrder' /\ NoLostWakeup' /\ WaitMeansOver'
    BY <1>3, <2>1 DEF FinishItem, WorkTypeOK, InOrder, NoLostWakeup, WaitMeansOver, Running
  <2> QED BY <2>2, <2>3
<1>4. CASE WorkerReturns
  BY <1>4 DEF WorkerReturns, WorkerMayReturn, WorkTypeOK, InOrder, NoLostWakeup,
              WaitMeansOver, Running
<1> QED BY <1>1, <1>2, <1>3, <1>4 DEF Worker

\* So do the callers' steps.
LEMMA CallersKeep ==
  ASSUME WorkInv,
         \/ \E i \in WorkItems : Enqueue(i) \/ Refuse(i)
         \/ \E immediate \in BOOLEAN : CloseWork(immediate)
         \/ \E w \in Waiters : Wait(w) \/ WaitReturns(w)
  PROVE  WorkInv'
<1> USE DEF WorkInv
<1>1. ASSUME NEW i \in WorkItems, Enqueue(i) PROVE WorkInv'
  <2>1. worker' = (IF ~started \/ worker = "waiting" THEN "taking" ELSE worker)
    BY <1>1 DEF Enqueue, WorkerFor, Wakes
  <2>2. ~dropped /\ ~workClosed /\ worker # "returned"
    BY <1>1 DEF Enqueue, InOrder, NoLostWakeup
  <2>3. WorkTypeOK'
    BY <1>1, <2>1 DEF Enqueue, WorkTypeOK
  <2>4. worked \o item \o queue' = Append(worked \o item \o queue, i)
    BY <1>1 DEF Enqueue, WorkTypeOK
  <2>5. InOrder' /\ NoLostWakeup'
    BY <1>1, <2>1, <2>2, <2>4 DEF Enqueue, WorkTypeOK, InOrder, NoLostWakeup
  <2>6. WaitMeansOver'
    <3>1. late = {}
      BY <2>2 DEF WaitMeansOver
    <3> QED BY <1>1, <3>1 DEF Enqueue, WaitMeansOver
  <2> QED BY <2>3, <2>5, <2>6
<1>2. ASSUME NEW i \in WorkItems, Refuse(i) PROVE WorkInv'
  BY <1>2 DEF Refuse, WorkTypeOK, InOrder, NoLostWakeup, WaitMeansOver, Running
<1>3. ASSUME NEW immediate \in BOOLEAN, CloseWork(immediate) PROVE WorkInv'
  <2>1. worker' = (IF worker = "waiting" THEN "taking" ELSE worker)
    BY <1>3 DEF CloseWork, Wakes
  <2>2. WorkTypeOK'
    <3>1. queue' \in Seq(WorkItems)
      BY <1>3 DEF CloseWork, WorkTypeOK
    <3> QED BY <1>3, <2>1, <3>1 DEF CloseWork, WorkTypeOK
  <2>3. NoLostWakeup' /\ WaitMeansOver'
    BY <1>3, <2>1 DEF CloseWork, WorkTypeOK, NoLostWakeup, WaitMeansOver, Running
  <2>4. InOrder'
    <3>1. CASE dropped
      BY <1>3, <3>1 DEF CloseWork, InOrder
    <3>2. CASE ~dropped /\ ~immediate
      BY <1>3, <3>2 DEF CloseWork, InOrder
    <3>3. CASE ~dropped /\ immediate
      <4>1. /\ worked \o item \in Seq(WorkItems) /\ queue \in Seq(WorkItems)
            /\ accepted = (worked \o item) \o queue
        BY <3>3 DEF WorkTypeOK, InOrder
      <4>2. /\ Len(worked \o item) <= Len(accepted)
            /\ worked \o item = SubSeq(accepted, 1, Len(worked \o item))
        BY <4>1
      <4> QED BY <1>3, <3>3, <4>2 DEF CloseWork, InOrder
    <3> QED BY <3>1, <3>2, <3>3 DEF WorkTypeOK
  <2> QED BY <2>2, <2>3, <2>4
<1>4. ASSUME NEW w \in Waiters, Wait(w) PROVE WorkInv'
  BY <1>4 DEF Wait, WorkTypeOK, InOrder, NoLostWakeup, WaitMeansOver, Running
<1>5. ASSUME NEW w \in Waiters, WaitReturns(w) PROVE WorkInv'
  BY <1>5 DEF WaitReturns, WorkTypeOK, InOrder, NoLostWakeup, WaitMeansOver, Running
<1> QED BY <1>1, <1>2, <1>3, <1>4, <1>5

\* InOrder, NoLostWakeup and WaitMeansOver hold throughout: what the broker
\* of a stream enqueues is worked on once, in order, by a worker that never
\* sleeps through an item, and Wait after Close means that it is over.
THEOREM WorkIsInOrder == WorkSpec => [](WorkTypeOK /\ InOrder /\ NoLostWakeup /\ WaitMeansOver)
<1>1. WorkInit => WorkInv
  BY WorkStarts
<1>2. WorkInv /\ [WorkNext]_(workVars) => WorkInv'
  <2>1. ASSUME WorkInv, UNCHANGED workVars PROVE WorkInv'
    BY <2>1 DEF WorkInv, workVars, WorkTypeOK, InOrder, NoLostWakeup, WaitMeansOver, Running
  <2> QED BY <2>1, WorkerKeeps, CallersKeep DEF WorkNext
<1> QED BY <1>1, <1>2, PTL DEF WorkSpec, WorkInv
=============================================================================
