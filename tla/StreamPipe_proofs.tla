--------------------------- MODULE StreamPipe_proofs ---------------------------
(* That a writer and a reader of a stream, whatever the network between them  *)
(* reorders and repeats, are a stream of bytes: for any windows, any number   *)
(* of bytes and pieces of any size.                                           *)
EXTENDS StreamPipe, FiniteSetTheorems, SequenceTheorems, WellFoundedInduction, TLAPS

\* n bytes of the stream, from byte a on.
Bytes(a, n) == [i \in 1 .. n |-> a + i - 1]

SomeAcks == [id : {StreamId}, seq : Nat, rwnd : Nat, fin : BOOLEAN, cancel : BOOLEAN]

Readers ==
  [id : {StreamId}, readWindow : Nat, nextSeq : Nat, buffer : Seq(Nat), eof : BOOLEAN,
   err : {"none", "stream", "closed"}, closed : BOOLEAN, lastRwndSent : Nat,
   oooPackets : SUBSET Packets, acks : Seq(SomeAcks)]

Writers ==
  [id : {StreamId}, readWindow : Nat, nextSeq : Nat, buffer : Seq(Nat), sentNotAcked : Nat,
   maxAckedSeq : Nat, maxAckedRwnd : Nat, finAcked : BOOLEAN, canceled : BOOLEAN,
   err : {"none", "canceled", "closed"}, closed : BOOLEAN, waiting : BOOLEAN, out : {{}}]

PipeTyped ==
  /\ r \in Readers /\ w \in Writers
  /\ packets \subseteq Packets /\ acks \subseteq SomeAcks
  /\ closedWith \in {"open", "eof", "error"} /\ ended \in {"none", "eof", "error", "closed"}
  /\ readerKnown \in BOOLEAN /\ writerKnown \in BOOLEAN /\ got \in Seq(Nat)

(* A packet is a piece of the stream, and one that ends it does so where it   *)
(* was closed.                                                                *)
Piece(p) ==
  /\ p.seq + Len(p.data) <= w.nextSeq
  /\ p.data = Bytes(p.seq, Len(p.data))
  /\ p.end # "none" => closedWith = p.end /\ p.seq = w.nextSeq /\ p.data = << >>

(* An acknowledgement lets the writer go no further than the window beyond    *)
(* what was read, and ends nothing that is open at both ends.                 *)
Promise(ack) ==
  /\ ack.seq <= w.nextSeq /\ ack.seq + ack.rwnd <= Len(got) + r.readWindow
  /\ ack.fin => w.closed
  /\ ack.cancel => w.closed \/ r.closed

(* What waits to be read is the stream from byte a on, a of which were read.  *)
ReaderFollows(s, a) ==
  /\ s.buffer = Bytes(a, Len(s.buffer))
  /\ s.nextSeq = a + Len(s.buffer) /\ s.nextSeq <= w.nextSeq
  /\ IsFiniteSet(s.oooPackets) /\ \A p \in s.oooPackets : Piece(p) /\ p.end # "error"
  /\ s.eof => closedWith = "eof" /\ s.nextSeq = w.nextSeq
  /\ s.err = "stream" => closedWith = "error"
  /\ s.err = "closed" => s.closed

WriterHolds ==
  /\ w.closed <=> closedWith # "open"
  /\ w.closed => w.err # "none"
  /\ w.nextSeq <= Len(got) + r.readWindow
  /\ ~w.closed => /\ w.sentNotAcked <= w.nextSeq
                  /\ w.maxAckedSeq = w.nextSeq - w.sentNotAcked
                  /\ w.maxAckedSeq + w.readWindow <= Len(got) + r.readWindow
  /\ w.buffer = Bytes(w.nextSeq, Len(w.buffer))

PipeInv ==
  /\ PipeTyped /\ WriterHolds /\ ReaderFollows(r, Len(got)) /\ got = Bytes(0, Len(got))
  /\ \A p \in packets : Piece(p)
  /\ \A ack \in acks : Promise(ack)
  /\ \A k \in DOMAIN r.acks : Promise(r.acks[k])
  /\ ~readerKnown => w.closed \/ r.closed
  /\ CancelsAreMeant
-----------------------------------------------------------------------------
(* Bytes.                                                                    *)

LEMMA BytesOK ==
  ASSUME NEW a \in Nat, NEW n \in Nat
  PROVE  Bytes(a, n) \in Seq(Nat) /\ Len(Bytes(a, n)) = n
  BY DEF Bytes

LEMMA NoBytes == ASSUME NEW a \in Nat PROVE Bytes(a, 0) = << >>
  BY DEF Bytes

LEMMA BytesJoin ==
  ASSUME NEW a \in Nat, NEW m \in Nat, NEW n \in Nat
  PROVE  Bytes(a, m) \o Bytes(a + m, n) = Bytes(a, m + n)
  BY DEF Bytes

LEMMA BytesCut ==
  ASSUME NEW a \in Nat, NEW n \in Nat, NEW k \in 0 .. n
  PROVE  /\ SubSeq(Bytes(a, n), 1, k) = Bytes(a, k)
         /\ SubSeq(Bytes(a, n), k + 1, n) = Bytes(a + k, n - k)
  BY DEF Bytes
-----------------------------------------------------------------------------
(* The packets a reader holds.                                               *)

LEMMA LeastOf ==
  ASSUME NEW T, T \subseteq Nat, T # {}
  PROVE  \E t \in T : \A u \in T : t <= u
<1>1. PICK t \in T : \A u \in T : ~(<<u, t>> \in OpToRel(<, Nat))
  BY NatLessThanWellFounded, WFMin
<1>2. OpToRel(<, Nat) = {ss \in Nat \X Nat : ss[1] < ss[2]}
  BY DEF OpToRel
<1>3. ASSUME NEW u \in T
      PROVE  t <= u
  <2>1. t \in Nat /\ u \in Nat
    OBVIOUS
  <2>2. <<u, t>> \in Nat \X Nat /\ <<u, t>>[1] = u /\ <<u, t>>[2] = t
    BY <2>1
  <2>3. ~(u < t)
    BY <1>1, <1>2, <2>2
  <2>4. QED BY <2>1, <2>3
<1>4. QED BY <1>3

\* Whatever a round keeps, all rounds keep.
LEMMA RoundsKeep ==
  ASSUME NEW G, NEW s \in G, Cardinality(s.oooPackets) \in Nat,
         \A t \in G : OOORound(t) \in G
  PROVE  ProcessOOOPackets(s) \in G
<1> DEFINE N == Cardinality(s.oooPackets)
           Rounds(f) == f = [n \in 0 .. N |-> IF n = 0 THEN s ELSE OOORound(f[n - 1])]
           Upto(k, f) == f \in [0 .. k -> G] /\ f[0] = s
                         /\ \A n \in 1 .. k : f[n] = OOORound(f[n - 1])
<1>1. \A k \in 0 .. N : \E f : Upto(k, f)
  <2> DEFINE T == {k \in 0 .. N : ~\E f : Upto(k, f)}
  <2>1. SUFFICES ASSUME T # {} PROVE FALSE
    OBVIOUS
  <2>2. T \subseteq Nat
    OBVIOUS
  <2>3. PICK k \in T : \A l \in T : k <= l
    <3> HIDE DEF T
    <3>1. QED BY <2>1, <2>2, LeastOf
  <2>4. k # 0
    <3>1. Upto(0, [n \in 0 .. 0 |-> s])
      OBVIOUS
    <3>2. QED BY <2>3, <3>1
  <2>5. PICK f : Upto(k - 1, f)
    BY <2>3, <2>4
  <2>6. Upto(k, [n \in 0 .. k |-> IF n = k THEN OOORound(f[k - 1]) ELSE f[n]])
    BY <2>3, <2>4, <2>5
  <2>7. QED BY <2>3, <2>6
<1>2. PICK f : Upto(N, f)
  BY <1>1
<1>3. Rounds([n \in 0 .. N |-> f[n]])
  BY <1>2
<1>4. ASSUME NEW g, Rounds(g)
      PROVE  g[N] \in G
  <2> DEFINE T == {k \in 0 .. N : g[k] \notin G}
  <2>1. SUFFICES ASSUME T # {} PROVE FALSE
    OBVIOUS
  <2>2. T \subseteq Nat
    OBVIOUS
  <2>3. PICK k \in T : \A l \in T : k <= l
    <3> HIDE DEF T
    <3>1. QED BY <2>1, <2>2, LeastOf
  <2>4. k # 0
    BY <1>4, <2>3
  <2>5. g[k - 1] \in G /\ g[k] = OOORound(g[k - 1])
    BY <1>4, <2>3, <2>4
  <2>6. QED BY <2>3, <2>5
<1>5. ProcessOOOPackets(s) = (CHOOSE g : Rounds(g))[N]
  BY DEF ProcessOOOPackets
<1> HIDE DEF Rounds
<1>6. QED BY <1>3, <1>4, <1>5

\* A reader that follows the stream, and that differs from q at most in what it has received.
Following(q, a) ==
  {s \in Readers : /\ ReaderFollows(s, a) /\ s.acks = q.acks /\ s.id = q.id
                   /\ s.readWindow = q.readWindow /\ s.closed = q.closed /\ s.err = q.err}

\* The packet that is next is appended.
LEMMA OrderedFollows ==
  ASSUME PipeTyped, NEW a \in Nat, NEW q \in Readers, NEW s \in Following(q, a), NEW p \in Packets,
         Piece(p), p.seq = s.nextSeq, p.end # "error"
  PROVE  RecvDataOrdered(s, p) \in Following(q, a)
<1> DEFINE t == RecvDataOrdered(s, p)
           n == Len(p.data)
           m == Len(s.buffer)
<1>1. /\ s \in Readers /\ ReaderFollows(s, a) /\ n \in Nat /\ p.data \in Seq(Nat)
      /\ s.buffer \in Seq(Nat) /\ m \in Nat /\ p.seq \in Nat
      /\ s.nextSeq \in Nat /\ s.eof \in BOOLEAN /\ w.nextSeq \in Nat
  <2>1. s \in Readers /\ ReaderFollows(s, a)
    BY DEF Following
  <2>2. s.buffer \in Seq(Nat) /\ s.nextSeq \in Nat /\ s.eof \in BOOLEAN
    BY <2>1 DEF Readers
  <2>3. p.data \in Seq(Nat) /\ p.seq \in Nat
    BY DEF Packets
  <2>4. w.nextSeq \in Nat
    BY DEF PipeTyped, Writers
  <2>5. QED BY <2>1, <2>2, <2>3, <2>4
<1>2. t = [s EXCEPT !.buffer = s.buffer \o p.data, !.nextSeq = s.nextSeq + n,
                    !.eof = s.eof \/ p.end = "eof"]
  BY DEF RecvDataOrdered
<1>3. /\ t.buffer = s.buffer \o p.data /\ t.nextSeq = s.nextSeq + n
      /\ t.eof = (s.eof \/ p.end = "eof") /\ t.oooPackets = s.oooPackets
      /\ t.acks = s.acks /\ t.id = s.id /\ t.readWindow = s.readWindow
      /\ t.closed = s.closed /\ t.err = s.err
  BY <1>1, <1>2 DEF Readers
<1>4. t \in Readers
  <2>1. s.buffer \o p.data \in Seq(Nat) /\ s.nextSeq + n \in Nat /\ (s.eof \/ p.end = "eof") \in BOOLEAN
    BY <1>1
  <2>2. QED BY <1>1, <1>2, <2>1 DEF Readers
<1> HIDE DEF t, n, m
<1>5. t.buffer = Bytes(a, m + n) /\ Len(t.buffer) = m + n
  <2>1. s.buffer = Bytes(a, m) /\ p.data = Bytes(a + m, n)
    BY <1>1 DEF ReaderFollows, Piece, n, m
  <2>2. t.buffer = Bytes(a, m) \o Bytes(a + m, n)
    BY <1>3, <2>1
  <2>3. t.buffer = Bytes(a, m + n)
    BY <1>1, <2>2, BytesJoin
  <2>4. m + n \in Nat
    BY <1>1
  <2>5. QED BY <1>1, <2>3, <2>4, BytesOK
<1>6. /\ s.nextSeq = a + m /\ s.nextSeq + n <= w.nextSeq
      /\ s.eof => closedWith = "eof" /\ s.nextSeq = w.nextSeq
      /\ p.end = "eof" => closedWith = "eof" /\ s.nextSeq = w.nextSeq
  BY <1>1 DEF ReaderFollows, Piece, n, m
<1>7. t.nextSeq <= w.nextSeq /\ t.nextSeq = a + Len(t.buffer)
  <2>1. /\ n \in Nat /\ m \in Nat /\ s.nextSeq \in Nat
        /\ t.nextSeq = s.nextSeq + n /\ s.nextSeq = a + m /\ Len(t.buffer) = m + n
        /\ s.nextSeq + n <= w.nextSeq
    BY <1>1, <1>3, <1>5, <1>6
  <2>2. QED BY <2>1
<1>8. t.eof => closedWith = "eof" /\ t.nextSeq = w.nextSeq
  <2>1. ASSUME t.eof PROVE closedWith = "eof" /\ s.nextSeq = w.nextSeq
    BY <1>3, <1>6, <2>1
  <2>2. QED BY <1>1, <1>3, <1>6, <2>1
<1>9. ReaderFollows(t, a)
  BY <1>1, <1>3, <1>5, <1>7, <1>8 DEF ReaderFollows
<1>10. QED BY <1>3, <1>4, <1>9 DEF Following, t

LEMMA RoundFollows ==
  ASSUME PipeTyped, NEW a \in Nat, NEW q \in Readers, NEW s \in Following(q, a)
  PROVE  OOORound(s) \in Following(q, a)
<1>1. /\ s \in Readers /\ ReaderFollows(s, a)
      /\ s.oooPackets \subseteq Packets
  BY DEF Following, Readers
<1> DEFINE first == CHOOSE p \in s.oooPackets : \A o \in s.oooPackets : p.seq <= o.seq
           u == [s EXCEPT !.oooPackets = @ \ {first}]
           d == [s EXCEPT !.oooPackets = {}]
<1>2. CASE s.oooPackets = {}
  BY <1>2 DEF OOORound
<1>3. CASE s.oooPackets # {} /\ s.eof
  <2>1. OOORound(s) = d
    BY <1>3 DEF OOORound
  <2>2. d \in Readers /\ d.oooPackets = {} /\ IsFiniteSet({})
    BY <1>1, FS_EmptySet DEF Readers
  <2>3. QED BY <1>1, <2>1, <2>2 DEF Following, ReaderFollows, Readers
<1>4. CASE s.oooPackets # {} /\ ~s.eof
  <2>1. first \in s.oooPackets
    <3> DEFINE T == {p.seq : p \in s.oooPackets}
    <3>1. T \subseteq Nat /\ T # {}
      BY <1>1, <1>4 DEF Packets
    <3>2. PICK n \in T : \A m \in T : n <= m
      <4> HIDE DEF T
      <4>1. QED BY <3>1, LeastOf
    <3>3. PICK p \in s.oooPackets : p.seq = n
      BY <3>2
    <3>4. \A o \in s.oooPackets : p.seq <= o.seq
      BY <3>2, <3>3
    <3>5. QED BY <3>4
  <2> HIDE DEF first
  <2>2. u \in Following(q, a)
    <3>1. u \in Readers /\ u.oooPackets = s.oooPackets \ {first}
      BY <1>1 DEF Readers
    <3>2. IsFiniteSet(u.oooPackets)
      <4>1. IsFiniteSet(s.oooPackets)
        BY <1>1 DEF ReaderFollows
      <4>2. QED BY <3>1, <4>1, FS_RemoveElement
    <3>3. QED BY <1>1, <3>1, <3>2 DEF Following, ReaderFollows, Readers
  <2>3. first \in Packets /\ Piece(first) /\ first.end # "error" /\ u.nextSeq = s.nextSeq
    BY <1>1, <2>1 DEF ReaderFollows, Readers
  <2>4. CASE first.seq = s.nextSeq
    <3>1. OOORound(s) = RecvDataOrdered(u, first)
      BY <1>4, <2>4 DEF OOORound, first
    <3> HIDE DEF u
    <3>2. QED BY <2>2, <2>3, <2>4, <3>1, OrderedFollows
  <2>5. CASE first.seq # s.nextSeq
    BY <1>4, <2>5 DEF OOORound, first
  <2>6. QED BY <2>4, <2>5
<1>5. QED BY <1>2, <1>3, <1>4
-----------------------------------------------------------------------------
(* The reader's methods.                                                     *)

\* t is s after it has queued an acknowledgement that promises no more than its window.
Acked(s, t, a, fin, cancel) ==
  /\ t \in Readers /\ ReaderFollows(t, a)
  /\ t.readWindow = s.readWindow /\ t.closed = s.closed /\ t.err = s.err
  /\ \E ack \in SomeAcks :
       /\ t.acks = Append(s.acks, ack)
       /\ ack.seq <= w.nextSeq /\ ack.seq + ack.rwnd <= a + s.readWindow
       /\ ack.fin = fin /\ ack.cancel = cancel

LEMMA AckSent ==
  ASSUME PipeTyped, NEW a \in Nat, NEW s \in Readers, ReaderFollows(s, a),
         w.nextSeq <= a + s.readWindow, NEW fin \in BOOLEAN, NEW cancel \in BOOLEAN
  PROVE  Acked(s, SendAck(s, fin, cancel), a, fin, cancel)
<1> DEFINE t == SendAck(s, fin, cancel)
           ack == [id |-> s.id, seq |-> s.nextSeq, rwnd |-> Rwnd(s), fin |-> fin, cancel |-> cancel]
<1>1. /\ s.readWindow \in Nat /\ Len(s.buffer) \in Nat /\ s.nextSeq \in Nat /\ s.id = StreamId
      /\ s.nextSeq = a + Len(s.buffer) /\ s.nextSeq <= w.nextSeq /\ w.nextSeq \in Nat
      /\ s.acks \in Seq(SomeAcks)
  BY DEF Readers, ReaderFollows, PipeTyped, Writers
<1>2. Rwnd(s) \in Nat /\ s.nextSeq + Rwnd(s) <= a + s.readWindow
  BY <1>1 DEF Rwnd
<1>3. ack \in SomeAcks
  BY <1>1, <1>2 DEF SomeAcks
<1>4. t = [s EXCEPT !.acks = Append(s.acks, ack), !.lastRwndSent = Rwnd(s)]
  BY DEF SendAck
<1>5. Append(s.acks, ack) \in Seq(SomeAcks)
  BY <1>1, <1>3
<1>6. t \in Readers /\ t.acks = Append(s.acks, ack)
  BY <1>2, <1>4, <1>5 DEF Readers
<1>7. /\ t.readWindow = s.readWindow /\ t.closed = s.closed /\ t.err = s.err /\ t.buffer = s.buffer
      /\ t.nextSeq = s.nextSeq /\ t.oooPackets = s.oooPackets /\ t.eof = s.eof
  BY <1>4 DEF Readers
<1> HIDE DEF t
<1>8. ReaderFollows(t, a)
  BY <1>7 DEF ReaderFollows
<1>9. ack.seq = s.nextSeq /\ ack.rwnd = Rwnd(s) /\ ack.fin = fin /\ ack.cancel = cancel
  OBVIOUS
<1> HIDE DEF ack
<1>10. QED BY <1>1, <1>2, <1>3, <1>6, <1>7, <1>8, <1>9 DEF t, Acked

\* What a reader becomes when it receives: it follows the stream, and what it
\* acknowledges it may.
Received(s, t, a) ==
  /\ t \in Readers /\ ReaderFollows(t, a)
  /\ t.readWindow = s.readWindow /\ t.closed = s.closed
  /\ \/ t.acks = s.acks
     \/ \E ack \in SomeAcks :
          /\ t.acks = Append(s.acks, ack)
          /\ ack.seq <= w.nextSeq /\ ack.seq + ack.rwnd <= a + s.readWindow
          /\ (ack.fin => closedWith # "open") /\ ~ack.cancel

LEMMA RecvDataOK ==
  ASSUME PipeTyped, NEW a \in Nat, NEW s \in Readers, ReaderFollows(s, a),
         w.nextSeq <= a + s.readWindow, NEW p \in Packets, Piece(p)
  PROVE  Received(s, RecvData(s, p), a)
<1>1. CASE ~Receiving(s) \/ p.id # s.id \/ Old(s, p)
  BY <1>1 DEF RecvData, Received
<1>2. CASE Receiving(s) /\ p.id = s.id /\ ~Old(s, p) /\ p.end = "error"
  <2> DEFINE u == [s EXCEPT !.err = "stream"]
  <2>1. u \in Readers /\ u.err = "stream" /\ u.buffer = s.buffer /\ u.nextSeq = s.nextSeq
        /\ u.oooPackets = s.oooPackets /\ u.eof = s.eof /\ u.readWindow = s.readWindow
        /\ u.closed = s.closed /\ u.acks = s.acks
    BY DEF Readers
  <2>2. RecvData(s, p) = SendAck(u, TRUE, FALSE) /\ closedWith = "error"
    BY <1>2 DEF RecvData, Piece
  <2> HIDE DEF u
  <2>3. ReaderFollows(u, a)
    BY <2>1, <2>2 DEF ReaderFollows
  <2>4. QED
    <3> DEFINE t == SendAck(u, TRUE, FALSE)
    <3>1. Acked(u, t, a, TRUE, FALSE)
      BY <2>1, <2>3, AckSent
    <3> HIDE DEF t
    <3>2. RecvData(s, p) = t
      BY <2>2 DEF t
    <3>3. QED BY <2>1, <2>2, <3>1, <3>2 DEF Received, Acked
<1>3. CASE Receiving(s) /\ p.id = s.id /\ ~Old(s, p) /\ p.end # "error" /\ p.seq > s.nextSeq
  <2>1. RecvData(s, p) = AddOOOPacket(s, p)
    BY <1>3 DEF RecvData
  <2>2. CASE \E q \in s.oooPackets : q.seq = p.seq
    BY <2>1, <2>2 DEF AddOOOPacket, Received
  <2>3. CASE ~\E q \in s.oooPackets : q.seq = p.seq
    <3> DEFINE u == [s EXCEPT !.oooPackets = @ \cup {p}]
    <3>1. RecvData(s, p) = u
      BY <2>1, <2>3 DEF AddOOOPacket
    <3>2. /\ u \in Readers /\ u.err = s.err /\ u.buffer = s.buffer /\ u.nextSeq = s.nextSeq
          /\ u.oooPackets = s.oooPackets \cup {p} /\ u.eof = s.eof /\ u.readWindow = s.readWindow
          /\ u.closed = s.closed /\ u.acks = s.acks
      BY DEF Readers
    <3> HIDE DEF u
    <3>3. IsFiniteSet(u.oooPackets)
      BY <3>2, FS_AddElement DEF ReaderFollows
    <3>4. ReaderFollows(u, a)
      BY <1>3, <3>2, <3>3 DEF ReaderFollows
    <3>5. QED BY <3>1, <3>2, <3>4 DEF Received
  <2>4. QED BY <2>2, <2>3
<1>4. CASE Receiving(s) /\ p.id = s.id /\ ~Old(s, p) /\ p.end # "error" /\ ~(p.seq > s.nextSeq)
  <2> DEFINE u == RecvDataOrdered(s, p)
             v == ProcessOOOPackets(u)
  <2>1. p.seq = s.nextSeq
    <3>1. p.seq \in Nat /\ s.nextSeq \in Nat /\ ~(p.seq < s.nextSeq)
      BY <1>4 DEF Packets, Readers, Old
    <3>2. QED BY <1>4, <3>1
  <2>2. s \in Following(s, a)
    BY DEF Following
  <2>3. u \in Following(s, a)
    BY <1>4, <2>1, <2>2, OrderedFollows
  <2>4. RecvData(s, p) = SendAck(v, v.eof, FALSE)
    BY <1>4 DEF RecvData
  <2> HIDE DEF u
  <2>5. Cardinality(u.oooPackets) \in Nat
    BY <2>3, FS_CardinalityType DEF Following, ReaderFollows
  <2>6. v \in Following(s, a)
    BY <2>3, <2>5, RoundFollows, RoundsKeep
  <2> HIDE DEF v
  <2>7. /\ v \in Readers /\ ReaderFollows(v, a) /\ v.readWindow = s.readWindow
        /\ v.closed = s.closed /\ v.acks = s.acks /\ v.eof \in BOOLEAN
        /\ (v.eof => closedWith # "open")
    BY <2>6 DEF Following, ReaderFollows, Readers
  <2>8. QED
    <3> DEFINE t == SendAck(v, v.eof, FALSE)
    <3>1. Acked(v, t, a, v.eof, FALSE)
      BY <2>7, AckSent
    <3> HIDE DEF t
    <3>2. RecvData(s, p) = t
      BY <2>4 DEF t
    <3>3. QED BY <2>7, <3>1, <3>2 DEF Received, Acked
<1>5. QED BY <1>1, <1>2, <1>3, <1>4

-----------------------------------------------------------------------------
(* The invariant.                                                            *)

\* Nothing goes back, and what is closed stays so.
Ahead ==
  /\ w.nextSeq <= w'.nextSeq /\ w'.nextSeq \in Nat /\ got' \in Seq(Nat) /\ Len(got) <= Len(got')
  /\ closedWith # "open" => closedWith' = closedWith /\ w'.nextSeq = w.nextSeq
  /\ r'.readWindow = r.readWindow
  /\ w.closed => w'.closed
  /\ r.closed => r'.closed

LEMMA StillTrue ==
  ASSUME PipeTyped, Ahead
  PROVE  /\ \A p \in Packets : Piece(p) => Piece(p)'
         /\ \A ack \in SomeAcks : Promise(ack) => Promise(ack)'
<1>1. /\ w.nextSeq \in Nat /\ w'.nextSeq \in Nat /\ Len(got) \in Nat /\ Len(got') \in Nat
      /\ r.readWindow \in Nat /\ w.nextSeq <= w'.nextSeq /\ Len(got) <= Len(got')
      /\ r'.readWindow = r.readWindow
  BY DEF PipeTyped, Ahead, Readers, Writers
<1>2. ASSUME NEW p \in Packets, Piece(p)
      PROVE  Piece(p)'
  <2>1. p.seq \in Nat /\ Len(p.data) \in Nat
    BY DEF Packets
  <2>2. p.seq + Len(p.data) <= w'.nextSeq
    BY <1>1, <1>2, <2>1 DEF Piece
  <2>3. p.end # "none" => closedWith' = p.end /\ p.seq = w'.nextSeq
    BY <1>2 DEF Piece, Packets, Ahead
  <2>4. QED BY <1>2, <2>2, <2>3 DEF Piece
<1>3. ASSUME NEW ack \in SomeAcks, Promise(ack)
      PROVE  Promise(ack)'
  <2>1. ack.seq \in Nat /\ ack.rwnd \in Nat
    BY DEF SomeAcks
  <2>2. ack.seq <= w'.nextSeq /\ ack.seq + ack.rwnd <= Len(got') + r'.readWindow
    BY <1>1, <1>3, <2>1 DEF Promise
  <2>3. QED BY <1>3, <2>2 DEF Promise, Ahead
<1>4. QED BY <1>2, <1>3

LEMMA PipeInit == Init => PipeInv
<1> SUFFICES ASSUME Init PROVE PipeInv
  OBVIOUS
<1>1. PICK n \in Windows : w = W!NewWriter(StreamId, n) /\ r = NewReader(StreamId, n, 0)
  BY DEF Init
<1>2. n \in Nat
  BY PipeAssumption
<1>3. /\ packets = {} /\ acks = {} /\ closedWith = "open" /\ readerKnown = TRUE
      /\ writerKnown = TRUE /\ got = << >> /\ ended = "none"
  BY DEF Init
<1>4. r \in Readers
  BY <1>1, <1>2 DEF Readers, NewReader
<1>5. w \in Writers
  BY <1>1, <1>2 DEF Writers, W!NewWriter
<1>6. PipeTyped
  BY <1>3, <1>4, <1>5 DEF PipeTyped
<1>7. /\ r.buffer = << >> /\ r.nextSeq = 0 /\ r.oooPackets = {} /\ r.eof = FALSE /\ r.err = "none"
      /\ r.acks = << >> /\ r.readWindow = n
  BY <1>1 DEF NewReader
<1>8. /\ w.buffer = << >> /\ w.nextSeq = 0 /\ w.sentNotAcked = 0 /\ w.maxAckedSeq = 0
      /\ w.closed = FALSE /\ w.readWindow = n /\ w.err = "none"
  BY <1>1 DEF W!NewWriter
<1>9. Bytes(0, 0) = << >>
  BY NoBytes
<1>10. WriterHolds
  BY <1>2, <1>3, <1>7, <1>8, <1>9 DEF WriterHolds
<1>11. ReaderFollows(r, Len(got))
  BY <1>3, <1>7, <1>8, <1>9, FS_EmptySet DEF ReaderFollows
<1>12. QED BY <1>3, <1>6, <1>7, <1>8, <1>9, <1>10, <1>11 DEF PipeInv, CancelsAreMeant

\* The reader's side moves: the writer stays as it is.
LEMMA ReaderMoves ==
  ASSUME PipeInv, UNCHANGED <<w, closedWith, writerKnown>>,
         r' \in Readers, ReaderFollows(r', Len(got')), r'.readWindow = r.readWindow,
         r.closed => r'.closed,
         got' \in Seq(Nat), Len(got) <= Len(got'), got' = Bytes(0, Len(got')),
         packets' \subseteq packets, ended' \in {"none", "eof", "error", "closed"},
         acks' \subseteq SomeAcks, \A ack \in acks' : ack \in acks \/ Promise(ack) \/ Promise(ack)',
         \A k \in DOMAIN r'.acks :
           \/ \E l \in DOMAIN r.acks : r'.acks[k] = r.acks[l]
           \/ \E ack \in SomeAcks : r'.acks[k] = ack /\ Promise(ack)',
         readerKnown' \in BOOLEAN, ~readerKnown' => ~readerKnown \/ w.closed \/ r'.closed
  PROVE  PipeInv'
<1>1. PipeTyped'
  BY DEF PipeInv, PipeTyped
<1>2. Ahead
  BY DEF PipeInv, PipeTyped, Ahead, Writers
<1>3. /\ \A p \in Packets : Piece(p) => Piece(p)'
      /\ \A ack \in SomeAcks : Promise(ack) => Promise(ack)'
  BY <1>2, StillTrue DEF PipeInv
<1>4. WriterHolds'
  <2>1. /\ Len(got) \in Nat /\ Len(got') \in Nat /\ r.readWindow \in Nat /\ w.nextSeq \in Nat
        /\ w.maxAckedSeq \in Nat /\ w.readWindow \in Nat
    BY DEF PipeInv, PipeTyped, Readers, Writers
  <2>2. QED BY <2>1 DEF PipeInv, WriterHolds
<1>5. \A p \in packets' : Piece(p)'
  BY <1>3 DEF PipeInv, PipeTyped
<1>6. \A ack \in acks' : Promise(ack)'
  BY <1>3 DEF PipeInv
<1>7. (\A k \in DOMAIN r.acks : Promise(r.acks[k]))'
  <2>1. \A l \in DOMAIN r.acks : r.acks[l] \in SomeAcks /\ Promise(r.acks[l])
    BY DEF PipeInv, PipeTyped, Readers
  <2>2. ASSUME NEW k \in DOMAIN r'.acks
        PROVE  \E ack \in SomeAcks : r'.acks[k] = ack /\ Promise(ack)'
    BY <1>3, <2>1
  <2>3. QED BY <2>2
<1>8. (~readerKnown => w.closed \/ r.closed)'
  BY DEF PipeInv
<1>9. CancelsAreMeant'
  BY DEF PipeInv, CancelsAreMeant
<1>10. ReaderFollows(r, Len(got))'
  BY DEF ReaderFollows, Piece
<1>11. (got = Bytes(0, Len(got)))'
  BY DEF Bytes
<1>12. QED BY <1>1, <1>4, <1>5, <1>6, <1>7, <1>8, <1>9, <1>10, <1>11 DEF PipeInv

\* What a reader acknowledges at the end of its queue is a promise.
LEMMA QueuedAcks ==
  ASSUME PipeTyped, NEW q \in Seq(SomeAcks), NEW ack \in SomeAcks
  PROVE  /\ Append(q, ack) \in Seq(SomeAcks)
         /\ \A k \in DOMAIN Append(q, ack) :
              (k \in DOMAIN q /\ Append(q, ack)[k] = q[k]) \/ Append(q, ack)[k] = ack
  OBVIOUS

LEMMA DeliverDataKeeps == ASSUME PipeInv, NEW p \in packets, DeliverData(p) PROVE PipeInv'
<1>1. /\ p \in Packets /\ Piece(p) /\ r \in Readers /\ ReaderFollows(r, Len(got))
      /\ Len(got) \in Nat /\ w.nextSeq <= Len(got) + r.readWindow /\ PipeTyped
      /\ w.nextSeq \in Nat /\ r.readWindow \in Nat
  BY DEF PipeInv, PipeTyped, WriterHolds, Readers, Writers
<1>2. /\ UNCHANGED <<w, closedWith, writerKnown, got, ended, acks, readerKnown>>
      /\ packets' \subseteq packets
  BY DEF DeliverData
<1>3. CASE readerKnown
  <2>1. r' = RecvData(r, p)
    BY <1>3 DEF DeliverData
  <2>2. Received(r, r', Len(got))
    BY <1>1, <2>1, RecvDataOK
  <2>3. ASSUME NEW k \in DOMAIN r'.acks
        PROVE  \/ \E l \in DOMAIN r.acks : r'.acks[k] = r.acks[l]
               \/ \E ack \in SomeAcks : r'.acks[k] = ack /\ Promise(ack)'
    <3>1. CASE r'.acks = r.acks
      BY <3>1
    <3>2. CASE \E ack \in SomeAcks :
                  /\ r'.acks = Append(r.acks, ack)
                  /\ ack.seq <= w.nextSeq /\ ack.seq + ack.rwnd <= Len(got) + r.readWindow
                  /\ (ack.fin => closedWith # "open") /\ ~ack.cancel
      <4>1. PICK ack \in SomeAcks :
                  /\ r'.acks = Append(r.acks, ack)
                  /\ ack.seq <= w.nextSeq /\ ack.seq + ack.rwnd <= Len(got) + r.readWindow
                  /\ (ack.fin => closedWith # "open") /\ ~ack.cancel
        BY <3>2
      <4>2. Promise(ack)'
        BY <1>2, <2>2, <4>1 DEF Promise, Received, PipeInv, WriterHolds
      <4>3. r.acks \in Seq(SomeAcks)
        BY <1>1 DEF Readers
      <4>4. QED BY <1>1, <4>1, <4>2, <4>3, QueuedAcks
    <3>3. QED BY <2>2, <3>1, <3>2 DEF Received
  <2>4. QED BY <1>1, <1>2, <2>2, <2>3, ReaderMoves DEF Received, PipeInv, PipeTyped
<1>4. CASE ~readerKnown
  <2> DEFINE ack == NotFound(p)
             u == [r EXCEPT !.acks = Append(@, ack)]
  <2>1. ack \in SomeAcks /\ Promise(ack)
    <3>1. p.seq \in Nat /\ p.seq <= w.nextSeq /\ p.id = StreamId /\ Len(p.data) \in Nat
      BY <1>1 DEF Packets, Piece
    <3>2. w.closed \/ r.closed
      BY <1>4 DEF PipeInv
    <3>3. QED BY <1>1, <3>1, <3>2 DEF NotFound, SomeAcks, Promise
  <2> HIDE DEF ack
  <2>2. r.acks \in Seq(SomeAcks)
    BY <1>1 DEF Readers
  <2>3. Append(r.acks, ack) \in Seq(SomeAcks)
    BY <2>1, <2>2
  <2>4. /\ u \in Readers /\ u.acks = Append(r.acks, ack) /\ u.readWindow = r.readWindow
        /\ u.closed = r.closed /\ u.buffer = r.buffer /\ u.nextSeq = r.nextSeq /\ u.eof = r.eof
        /\ u.err = r.err /\ u.oooPackets = r.oooPackets
    BY <1>1, <2>3 DEF Readers
  <2>5. r' = r \/ r' = u
    BY <1>4 DEF DeliverData, ack
  <2> HIDE DEF u
  <2>6. /\ r' \in Readers /\ ReaderFollows(r', Len(got)) /\ r'.readWindow = r.readWindow
        /\ r'.closed = r.closed
    BY <1>1, <2>4, <2>5 DEF ReaderFollows
  <2>7. Promise(ack)'
    BY <1>2, <2>1, <2>6 DEF Promise
  <2>8. ASSUME NEW k \in DOMAIN r'.acks
        PROVE  \/ \E l \in DOMAIN r.acks : r'.acks[k] = r.acks[l]
               \/ \E a \in SomeAcks : r'.acks[k] = a /\ Promise(a)'
    <3>1. CASE r' = r
      BY <3>1
    <3>2. CASE r' = u
      <4>1. r'.acks = Append(r.acks, ack)
        BY <2>4, <3>2
      <4>2. (k \in DOMAIN r.acks /\ r'.acks[k] = r.acks[k]) \/ r'.acks[k] = ack
        BY <1>1, <2>1, <2>2, <4>1, QueuedAcks
      <4>3. QED BY <2>1, <2>7, <4>2
    <3>3. QED BY <2>5, <3>1, <3>2
  <2>9. QED BY <1>1, <1>2, <2>6, <2>8, ReaderMoves DEF PipeInv, PipeTyped
<1>5. QED BY <1>3, <1>4

LEMMA DeliverDataWindow ==
  ASSUME PipeInv, NEW p \in packets, DeliverData(p)
  PROVE  r'.readWindow = r.readWindow
<1>1. /\ p \in Packets /\ Piece(p) /\ r \in Readers /\ ReaderFollows(r, Len(got))
      /\ Len(got) \in Nat /\ w.nextSeq <= Len(got) + r.readWindow /\ PipeTyped
  BY DEF PipeInv, PipeTyped, WriterHolds
<1>2. CASE readerKnown
  <2>1. r' = RecvData(r, p)
    BY <1>2 DEF DeliverData
  <2>2. QED BY <1>1, <2>1, RecvDataOK DEF Received
<1>3. CASE ~readerKnown
  BY <1>1, <1>3 DEF DeliverData, Readers
<1>4. QED BY <1>2, <1>3

LEMMA SendNextAckKeeps == ASSUME PipeInv, SendNextAck PROVE PipeInv'
<1> DEFINE ack == Head(r.acks)
<1>1. /\ r \in Readers /\ ReaderFollows(r, Len(got)) /\ r.acks \in Seq(SomeAcks)
      /\ got \in Seq(Nat) /\ got = Bytes(0, Len(got)) /\ Len(got) <= Len(got)
  BY DEF PipeInv, PipeTyped, Readers
<1>2. /\ UNCHANGED <<w, packets, closedWith, writerKnown, got, ended>>
      /\ r' = [r EXCEPT !.acks = Tail(r.acks)] /\ acks' = acks \cup {ack}
      /\ readerKnown' = (readerKnown /\ ~Final(ack)) /\ r.acks # << >>
  BY DEF SendNextAck
<1>3. /\ ack = r.acks[1] /\ 1 \in DOMAIN r.acks /\ ack \in SomeAcks
      /\ Tail(r.acks) \in Seq(SomeAcks)
      /\ \A k \in DOMAIN Tail(r.acks) : k + 1 \in DOMAIN r.acks /\ Tail(r.acks)[k] = r.acks[k + 1]
  BY <1>1, <1>2
<1> HIDE DEF ack
<1>4. Promise(ack)
  BY <1>3 DEF PipeInv
<1>5. /\ r' \in Readers /\ r'.acks = Tail(r.acks) /\ r'.readWindow = r.readWindow
      /\ r'.closed = r.closed /\ r'.buffer = r.buffer /\ r'.nextSeq = r.nextSeq
      /\ r'.eof = r.eof /\ r'.err = r.err /\ r'.oooPackets = r.oooPackets
  BY <1>1, <1>2, <1>3 DEF Readers
<1>6. ReaderFollows(r', Len(got'))
  BY <1>1, <1>2, <1>5 DEF ReaderFollows
<1>7. readerKnown' \in BOOLEAN /\ (~readerKnown' => ~readerKnown \/ w.closed \/ r'.closed)
  BY <1>2, <1>4, <1>5 DEF Final, Promise
<1>8. acks' \subseteq SomeAcks /\ \A a \in acks' : a \in acks \/ Promise(a)
  BY <1>2, <1>3, <1>4 DEF PipeInv, PipeTyped
<1>9. \A k \in DOMAIN r'.acks : \E l \in DOMAIN r.acks : r'.acks[k] = r.acks[l]
  BY <1>3, <1>5
<1>10. QED BY <1>1, <1>2, <1>5, <1>6, <1>7, <1>8, <1>9, ReaderMoves DEF PipeInv, PipeTyped

LEMMA ReadBytesKeeps ==
  ASSUME PipeInv, NEW n, ReadBytes(n)
  PROVE  PipeInv' /\ got' = Bytes(0, Len(got) + n) /\ n \in Nat \ {0} /\ Len(got) + n <= w.nextSeq
<1> DEFINE u == [r EXCEPT !.buffer = SubSeq(@, n + 1, Len(@))]
           m == Len(r.buffer)
           a == Len(got)
<1>1. /\ r \in Readers /\ ReaderFollows(r, Len(got)) /\ r.acks \in Seq(SomeAcks) /\ r.buffer \in Seq(Nat)
      /\ got \in Seq(Nat) /\ got = Bytes(0, a) /\ a \in Nat /\ m \in Nat /\ w.nextSeq \in Nat
      /\ r.readWindow \in Nat /\ w.nextSeq <= a + r.readWindow /\ r.buffer = Bytes(a, m)
      /\ PipeTyped /\ r.nextSeq = a + m /\ r.nextSeq <= w.nextSeq
  BY DEF PipeInv, PipeTyped, Readers, Writers, WriterHolds, ReaderFollows
<1>2. /\ UNCHANGED <<w, packets, acks, closedWith, readerKnown, writerKnown, ended>>
      /\ r' = Read(r, n) /\ got' = got \o SubSeq(r.buffer, 1, n) /\ n \in 1 .. m
  BY DEF ReadBytes
<1> HIDE DEF m, a, u
<1>3. SubSeq(r.buffer, 1, n) = Bytes(a, n) /\ SubSeq(r.buffer, n + 1, m) = Bytes(a + n, m - n)
  <2>1. n \in 0 .. m
    BY <1>1, <1>2
  <2>2. a \in Nat /\ m \in Nat /\ r.buffer = Bytes(a, m)
    BY <1>1
  <2>3. /\ SubSeq(Bytes(a, m), 1, n) = Bytes(a, n)
        /\ SubSeq(Bytes(a, m), n + 1, m) = Bytes(a + n, m - n)
    BY <2>1, <2>2, BytesCut
  <2>4. QED BY <2>2, <2>3
<1>4. /\ n \in Nat \ {0} /\ n <= m /\ m - n \in Nat /\ a + n \in Nat /\ 0 + a = a
      /\ (a + n) + (m - n) = a + m /\ a + n <= w.nextSeq /\ w.nextSeq <= (a + n) + r.readWindow
  <2>1. /\ a \in Nat /\ m \in Nat /\ n \in 1 .. m /\ w.nextSeq \in Nat /\ r.readWindow \in Nat
        /\ a + m <= w.nextSeq /\ w.nextSeq <= a + r.readWindow
    BY <1>1, <1>2
  <2>2. QED BY <2>1
<1>5. /\ got' = Bytes(0, a + n) /\ Len(got') = a + n /\ got' \in Seq(Nat)
  <2>1. got' = Bytes(0, a) \o Bytes(0 + a, n)
    BY <1>1, <1>2, <1>3, <1>4
  <2>2. got' = Bytes(0, a + n)
    <3>1. a \in Nat /\ n \in Nat /\ 0 \in Nat /\ 0 + a = a
      BY <1>1, <1>4
    <3>2. Bytes(0, a) \o Bytes(0 + a, n) = Bytes(0, a + n)
      BY <3>1, BytesJoin
    <3>3. QED BY <2>1, <3>2
  <2>3. QED BY <1>4, <2>2, BytesOK
<1>6. /\ u \in Readers /\ u.buffer = Bytes(a + n, m - n) /\ Len(u.buffer) = m - n
      /\ u.nextSeq = r.nextSeq /\ u.readWindow = r.readWindow /\ u.closed = r.closed
      /\ u.acks = r.acks /\ u.eof = r.eof /\ u.err = r.err /\ u.oooPackets = r.oooPackets
  <2>1. u = [r EXCEPT !.buffer = Bytes(a + n, m - n)]
    BY <1>3 DEF m, u
  <2>2. Bytes(a + n, m - n) \in Seq(Nat) /\ Len(Bytes(a + n, m - n)) = m - n
    BY <1>4, BytesOK
  <2>3. QED BY <1>1, <2>1, <2>2 DEF Readers
<1>7. r' = u \/ r' = SendAck(u, FALSE, FALSE)
  BY <1>2 DEF Read, u
<1>8. ReaderFollows(u, a + n)
  BY <1>1, <1>4, <1>6 DEF ReaderFollows
<1>9. CASE r' = u
  <2>1. ReaderFollows(r', Len(got')) /\ Len(got) <= Len(got')
    <3>1. a <= a + n
      BY <1>1, <1>4
    <3>2. ReaderFollows(r', a + n)
      BY <1>2, <1>8, <1>9 DEF ReaderFollows, Piece
    <3>3. QED BY <1>5, <3>1, <3>2 DEF a
  <2>2. PipeInv'
    BY <1>1, <1>2, <1>5, <1>6, <1>9, <2>1, ReaderMoves DEF PipeInv, PipeTyped
  <2>3. QED BY <1>4, <1>5, <2>2 DEF a
<1>10. CASE r' = SendAck(u, FALSE, FALSE)
  <2>1. Acked(u, r', a + n, FALSE, FALSE)
    BY <1>1, <1>4, <1>6, <1>8, <1>10, AckSent
  <2>2. PICK ack \in SomeAcks :
          /\ r'.acks = Append(r.acks, ack)
          /\ ack.seq <= w.nextSeq /\ ack.seq + ack.rwnd <= (a + n) + r.readWindow
          /\ ack.fin = FALSE /\ ack.cancel = FALSE
    BY <1>6, <2>1 DEF Acked
  <2>3. /\ r' \in Readers /\ ReaderFollows(r', Len(got')) /\ r'.readWindow = r.readWindow
        /\ r'.closed = r.closed
    BY <1>5, <1>6, <2>1 DEF Acked
  <2>4. Promise(ack)'
    BY <1>2, <1>5, <2>2, <2>3 DEF Promise
  <2>5. ASSUME NEW k \in DOMAIN r'.acks
        PROVE  \/ \E l \in DOMAIN r.acks : r'.acks[k] = r.acks[l]
               \/ \E b \in SomeAcks : r'.acks[k] = b /\ Promise(b)'
    BY <1>1, <2>2, <2>4, QueuedAcks
  <2>6. Len(got) <= Len(got')
    BY <1>1, <1>4, <1>5 DEF a
  <2>7. PipeInv'
    BY <1>1, <1>2, <1>5, <2>3, <2>5, <2>6, ReaderMoves DEF PipeInv, PipeTyped
  <2>8. QED BY <1>4, <1>5, <2>7 DEF a
<1>11. QED BY <1>7, <1>9, <1>10

LEMMA CancelKeeps == ASSUME PipeInv, Cancel PROVE PipeInv'
<1> DEFINE u == [r EXCEPT !.closed = TRUE, !.err = IF @ = "none" THEN "closed" ELSE @]
<1>1. /\ r \in Readers /\ ReaderFollows(r, Len(got)) /\ r.acks \in Seq(SomeAcks)
      /\ got \in Seq(Nat) /\ Len(got) \in Nat /\ Len(got) <= Len(got) /\ PipeTyped
      /\ w.nextSeq <= Len(got) + r.readWindow /\ got = Bytes(0, Len(got))
  BY DEF PipeInv, PipeTyped, Readers, WriterHolds
<1>2. /\ UNCHANGED <<w, packets, acks, closedWith, readerKnown, writerKnown, ended, got>>
      /\ r' = SendAck(u, FALSE, TRUE) /\ ~r.closed
  BY DEF Cancel, CloseReader
<1>3. /\ u \in Readers /\ u.closed = TRUE /\ (u.err = "stream" <=> r.err = "stream")
      /\ u.buffer = r.buffer /\ u.nextSeq = r.nextSeq /\ u.readWindow = r.readWindow
      /\ u.acks = r.acks /\ u.eof = r.eof /\ u.oooPackets = r.oooPackets
  BY <1>1 DEF Readers
<1> HIDE DEF u
<1>4. ReaderFollows(u, Len(got))
  BY <1>1, <1>3 DEF ReaderFollows
<1>5. Acked(u, r', Len(got), FALSE, TRUE)
  BY <1>1, <1>2, <1>3, <1>4, AckSent
<1>6. PICK ack \in SomeAcks :
        /\ r'.acks = Append(r.acks, ack)
        /\ ack.seq <= w.nextSeq /\ ack.seq + ack.rwnd <= Len(got) + r.readWindow
        /\ ack.fin = FALSE /\ ack.cancel = TRUE
  BY <1>3, <1>5 DEF Acked
<1>7. /\ r' \in Readers /\ ReaderFollows(r', Len(got')) /\ r'.readWindow = r.readWindow
      /\ r'.closed = TRUE
  BY <1>2, <1>3, <1>5 DEF Acked
<1>8. Promise(ack)'
  BY <1>2, <1>6, <1>7 DEF Promise
<1>9. ASSUME NEW k \in DOMAIN r'.acks
      PROVE  \/ \E l \in DOMAIN r.acks : r'.acks[k] = r.acks[l]
             \/ \E b \in SomeAcks : r'.acks[k] = b /\ Promise(b)'
  BY <1>1, <1>6, <1>8, QueuedAcks
<1>10. QED BY <1>1, <1>2, <1>7, <1>9, ReaderMoves DEF PipeInv, PipeTyped
-----------------------------------------------------------------------------
(* The writer's methods.                                                     *)

\* The writer's side moves: the reader stays as it is.
LEMMA WriterMoves ==
  ASSUME PipeInv, Ahead, UNCHANGED <<r, got, ended, readerKnown>>,
         w' \in Writers, WriterHolds', CancelsAreMeant',
         packets' \subseteq Packets, \A p \in packets' : p \in packets \/ Piece(p)',
         acks' \subseteq acks, closedWith' \in {"open", "eof", "error"}, writerKnown' \in BOOLEAN
  PROVE  PipeInv'
<1>1. PipeTyped'
  BY DEF PipeInv, PipeTyped
<1>2. /\ \A p \in Packets : Piece(p) => Piece(p)'
      /\ \A ack \in SomeAcks : Promise(ack) => Promise(ack)'
  BY StillTrue DEF PipeInv
<1>3. \A p \in packets' : Piece(p)'
  BY <1>2 DEF PipeInv
<1>4. \A ack \in acks' : Promise(ack)'
  BY <1>2 DEF PipeInv, PipeTyped
<1>5. (\A k \in DOMAIN r.acks : Promise(r.acks[k]))'
  <2>1. \A k \in DOMAIN r.acks : r.acks[k] \in SomeAcks
    BY DEF PipeInv, PipeTyped, Readers
  <2>2. QED BY <1>2, <2>1 DEF PipeInv
<1>6. ReaderFollows(r, Len(got))'
  <2>1. r.oooPackets \subseteq Packets /\ r.nextSeq \in Nat /\ w.nextSeq \in Nat
    BY DEF PipeInv, PipeTyped, Readers, Writers
  <2>2. \A p \in r.oooPackets : Piece(p)' /\ p.end # "error"
    BY <1>2, <2>1 DEF PipeInv, ReaderFollows
  <2>3. r.nextSeq <= w'.nextSeq
    BY <2>1 DEF PipeInv, ReaderFollows, Ahead
  <2>4. r.eof => closedWith' = "eof" /\ r.nextSeq = w'.nextSeq
    BY DEF PipeInv, ReaderFollows, Ahead
  <2>5. r.err = "stream" => closedWith' = "error"
    BY DEF PipeInv, ReaderFollows, Ahead
  <2>6. QED BY <2>2, <2>3, <2>4, <2>5 DEF PipeInv, ReaderFollows
<1>7. (~readerKnown => w.closed \/ r.closed)'
  BY DEF PipeInv, Ahead
<1>8. (got = Bytes(0, Len(got)))'
  BY DEF PipeInv, Bytes
<1>9. QED BY <1>1, <1>3, <1>4, <1>5, <1>6, <1>7, <1>8 DEF PipeInv

\* What a writer that holds k bytes becomes when it sends n of them.
Sends(u, x, k, n, sent) ==
  /\ x \in Writers /\ x.id = u.id /\ x.readWindow = u.readWindow
  /\ x.nextSeq = u.nextSeq + n /\ x.sentNotAcked = u.sentNotAcked + n
  /\ x.buffer = Bytes(u.nextSeq + n, k - n)
  /\ x.maxAckedSeq = u.maxAckedSeq /\ x.closed = u.closed /\ x.err = u.err
  /\ n \in 0 .. k /\ (n = 0 \/ n <= u.readWindow - u.sentNotAcked)
  /\ \A p \in sent : p = [id |-> u.id, seq |-> u.nextSeq, data |-> Bytes(u.nextSeq, n), end |-> "none"]

LEMMA TrySendDataOK ==
  ASSUME NEW u \in Writers, NEW k \in Nat, u.buffer = Bytes(u.nextSeq, k)
  PROVE  \E n \in Nat : Sends(u, [W!TrySendData(u) EXCEPT !.out = {}], k, n, W!TrySendData(u).out)
<1> DEFINE avail == u.readWindow - u.sentNotAcked
           n == IF Len(u.buffer) < avail THEN Len(u.buffer) ELSE avail
           v == W!TrySendData(u)
           x == [v EXCEPT !.out = {}]
<1>1. /\ u.readWindow \in Nat /\ u.sentNotAcked \in Nat /\ u.nextSeq \in Nat /\ u.buffer \in Seq(Nat)
      /\ u.out = {} /\ avail \in Int
  BY DEF Writers
<1>2. Len(u.buffer) = k
  <2>1. Len(Bytes(u.nextSeq, k)) = k
    BY <1>1, BytesOK
  <2>2. QED BY <2>1
<1>3. n \in Int /\ n <= k /\ n <= avail
  BY <1>1, <1>2
<1>4. CASE u.buffer = << >>
  <2>1. v = u
    BY <1>4 DEF W!TrySendData
  <2>2. x = u /\ v.out = {}
    BY <1>1, <2>1 DEF Writers
  <2>3. u.nextSeq + 0 = u.nextSeq /\ k - 0 = k /\ u.sentNotAcked + 0 = u.sentNotAcked /\ 0 \in 0 .. k
    BY <1>1
  <2>4. Sends(u, u, k, 0, {})
    BY <2>3 DEF Sends
  <2>5. QED BY <2>2, <2>4
<1>5. CASE u.buffer # << >> /\ n <= 0
  <2>1. v = [u EXCEPT !.waiting = TRUE]
    BY <1>5 DEF W!TrySendData, W!AvailWindow
  <2>2. x = v /\ v.out = {} /\ v \in Writers
    BY <1>1, <2>1 DEF Writers
  <2>3. u.nextSeq + 0 = u.nextSeq /\ k - 0 = k /\ u.sentNotAcked + 0 = u.sentNotAcked /\ 0 \in 0 .. k
    BY <1>1
  <2>4. /\ v.id = u.id /\ v.readWindow = u.readWindow /\ v.nextSeq = u.nextSeq
        /\ v.sentNotAcked = u.sentNotAcked /\ v.buffer = u.buffer
        /\ v.maxAckedSeq = u.maxAckedSeq /\ v.closed = u.closed /\ v.err = u.err
    BY <2>1 DEF Writers
  <2> HIDE DEF v, x
  <2>5. Sends(u, v, k, 0, {})
    BY <2>2, <2>3, <2>4 DEF Sends
  <2>6. QED BY <2>2, <2>5 DEF x, v
<1>6. CASE u.buffer # << >> /\ n > 0
  <2> DEFINE p == [id |-> u.id, seq |-> u.nextSeq, data |-> SubSeq(u.buffer, 1, n), end |-> "none"]
             b == SubSeq(u.buffer, n + 1, Len(u.buffer))
  <2>1. v = [u EXCEPT !.out = {p}, !.buffer = b, !.nextSeq = u.nextSeq + n,
                      !.sentNotAcked = u.sentNotAcked + n, !.waiting = n < Len(u.buffer)]
    <3>1. u.buffer # << >> /\ ~(n <= 0)
      BY <1>3, <1>6
    <3>2. QED BY <3>1, Zenon DEF W!TrySendData, W!AvailWindow
  <2>2. n \in Nat /\ n \in 0 .. k /\ u.nextSeq + n \in Nat /\ k - n \in Nat /\ u.sentNotAcked + n \in Nat
    BY <1>1, <1>3, <1>6
  <2> HIDE DEF n
  <2>3. SubSeq(u.buffer, 1, n) = Bytes(u.nextSeq, n) /\ b = Bytes(u.nextSeq + n, k - n)
    <3>1. /\ SubSeq(Bytes(u.nextSeq, k), 1, n) = Bytes(u.nextSeq, n)
          /\ SubSeq(Bytes(u.nextSeq, k), n + 1, k) = Bytes(u.nextSeq + n, k - n)
      BY <1>1, <2>2, BytesCut
    <3>2. QED BY <1>2, <3>1
  <2>4. Bytes(u.nextSeq + n, k - n) \in Seq(Nat)
    BY <2>2, BytesOK
  <2> DEFINE wait == n < Len(u.buffer)
             y == [u EXCEPT !.buffer = b, !.nextSeq = u.nextSeq + n,
                      !.sentNotAcked = u.sentNotAcked + n, !.waiting = wait]
  <2> HIDE DEF b, p
  <2>5. wait \in BOOLEAN
    BY <1>1, <2>2
  <2>6. x = y /\ v.out = {p}
    <3>1. v = [u EXCEPT !.out = {p}, !.buffer = b, !.nextSeq = u.nextSeq + n,
                        !.sentNotAcked = u.sentNotAcked + n, !.waiting = wait]
      BY <2>1
    <3> HIDE DEF v, wait
    <3>2. QED BY <1>1, <3>1 DEF Writers
  <2> HIDE DEF wait
  <2>7. y \in Writers
    BY <2>2, <2>3, <2>4, <2>5 DEF Writers
  <2>8. /\ y.id = u.id /\ y.readWindow = u.readWindow /\ y.nextSeq = u.nextSeq + n
        /\ y.sentNotAcked = u.sentNotAcked + n /\ y.buffer = b
        /\ y.maxAckedSeq = u.maxAckedSeq /\ y.closed = u.closed /\ y.err = u.err
    BY DEF Writers
  <2> HIDE DEF v, x, y
  <2>9. Sends(u, y, k, n, {p})
    BY <1>3, <2>2, <2>3, <2>7, <2>8 DEF Sends, p, avail
  <2>10. QED BY <2>2, <2>6, <2>9 DEF x, v
<1>7. n <= 0 \/ n > 0
  BY <1>3
<1>8. QED BY <1>4, <1>5, <1>6, <1>7

\* A call of Write that is let on: what it sends is a piece of the stream, within the window.
LEMMA SendKeeps ==
  ASSUME PipeInv, ~w.closed, NEW k \in Nat, NEW u \in Writers,
         u = [w EXCEPT !.buffer = Bytes(w.nextSeq, k)],
         WriterStep(W!TrySendData(u)),
         UNCHANGED <<r, acks, closedWith, readerKnown, writerKnown, got, ended>>
  PROVE  PipeInv' /\ w'.nextSeq >= w.nextSeq /\ w'.nextSeq <= Len(got) + r.readWindow
<1>1. /\ PipeTyped /\ w \in Writers /\ w.nextSeq \in Nat /\ w.sentNotAcked \in Nat /\ w.readWindow \in Nat
      /\ w.maxAckedSeq \in Nat /\ r.readWindow \in Nat /\ Len(got) \in Nat /\ got \in Seq(Nat)
      /\ w.id = StreamId
  <2>1. PipeTyped /\ w \in Writers /\ r \in Readers /\ got \in Seq(Nat)
    BY DEF PipeInv, PipeTyped
  <2>2. /\ w.nextSeq \in Nat /\ w.sentNotAcked \in Nat /\ w.readWindow \in Nat
        /\ w.maxAckedSeq \in Nat /\ w.id = StreamId
    BY <2>1 DEF Writers
  <2>3. r.readWindow \in Nat
    BY <2>1 DEF Readers
  <2>4. Len(got) \in Nat
    BY <2>1
  <2>5. QED BY <2>1, <2>2, <2>3, <2>4
<1>2. /\ u.buffer = Bytes(w.nextSeq, k) /\ u.nextSeq = w.nextSeq /\ u.sentNotAcked = w.sentNotAcked
      /\ u.readWindow = w.readWindow /\ u.maxAckedSeq = w.maxAckedSeq /\ u.closed = w.closed
      /\ u.err = w.err /\ u.id = w.id
  BY <1>1 DEF Writers
<1> DEFINE sent == W!TrySendData(u).out
<1>3. w' = [W!TrySendData(u) EXCEPT !.out = {}] /\ packets' = packets \cup sent
  BY DEF WriterStep
<1>4. u.buffer = Bytes(u.nextSeq, k)
  BY <1>2
<1>5. PICK n \in Nat : Sends(u, w', k, n, sent)
  BY <1>3, <1>4, TrySendDataOK
<1> HIDE DEF sent
<1>6. /\ w' \in Writers /\ w'.id = w.id /\ w'.readWindow = w.readWindow
      /\ w'.nextSeq = w.nextSeq + n /\ w'.sentNotAcked = w.sentNotAcked + n
      /\ w'.buffer = Bytes(w'.nextSeq, k - n) /\ w'.maxAckedSeq = w.maxAckedSeq
      /\ w'.closed = w.closed /\ w'.err = w.err
      /\ n \in 0 .. k /\ (n = 0 \/ n <= w.readWindow - w.sentNotAcked)
      /\ \A p \in sent : p = [id |-> w.id, seq |-> w.nextSeq, data |-> Bytes(w.nextSeq, n), end |-> "none"]
  BY <1>2, <1>5 DEF Sends
<1>7. /\ w.nextSeq <= Len(got) + r.readWindow
      /\ w.sentNotAcked <= w.nextSeq /\ w.maxAckedSeq = w.nextSeq - w.sentNotAcked
      /\ w.maxAckedSeq + w.readWindow <= Len(got) + r.readWindow /\ closedWith = "open"
  BY <1>1 DEF PipeInv, WriterHolds, PipeTyped
<1>8. /\ w'.nextSeq \in Nat /\ w.nextSeq <= w'.nextSeq /\ k - n \in Nat
      /\ w'.nextSeq <= Len(got) + r.readWindow /\ w'.sentNotAcked <= w'.nextSeq
      /\ w'.maxAckedSeq = w'.nextSeq - w'.sentNotAcked
      /\ w'.maxAckedSeq + w'.readWindow <= Len(got) + r.readWindow
  <2> DEFINE g == Len(got)
  <2>1. /\ w.nextSeq \in Nat /\ w.sentNotAcked \in Nat /\ w.readWindow \in Nat /\ w.maxAckedSeq \in Nat
        /\ r.readWindow \in Nat /\ g \in Nat /\ k \in Nat /\ n \in 0 .. k
        /\ w'.nextSeq = w.nextSeq + n /\ w'.sentNotAcked = w.sentNotAcked + n
        /\ w'.readWindow = w.readWindow /\ w'.maxAckedSeq = w.maxAckedSeq
        /\ (n = 0 \/ n <= w.readWindow - w.sentNotAcked)
        /\ w.nextSeq <= g + r.readWindow /\ w.sentNotAcked <= w.nextSeq
        /\ w.maxAckedSeq = w.nextSeq - w.sentNotAcked
        /\ w.maxAckedSeq + w.readWindow <= g + r.readWindow
    BY <1>1, <1>6, <1>7
  <2> HIDE DEF g
  <2>2. /\ w'.nextSeq \in Nat /\ w.nextSeq <= w'.nextSeq /\ k - n \in Nat
        /\ w'.sentNotAcked <= w'.nextSeq /\ w'.maxAckedSeq = w'.nextSeq - w'.sentNotAcked
        /\ w'.maxAckedSeq + w'.readWindow <= g + r.readWindow
    BY <2>1
  <2>3. w'.nextSeq <= g + r.readWindow
    BY <2>1
  <2>4. QED BY <2>2, <2>3 DEF g
<1>9. w'.buffer = Bytes(w'.nextSeq, Len(w'.buffer))
  BY <1>6, <1>8, BytesOK
<1>10. WriterHolds'
  BY <1>6, <1>7, <1>8, <1>9 DEF WriterHolds
<1>11. Ahead
  BY <1>1, <1>6, <1>7, <1>8 DEF Ahead
<1>12. \A p \in sent : p \in Packets /\ Piece(p)'
  <2>1. Bytes(w.nextSeq, n) \in Seq(Nat) /\ Len(Bytes(w.nextSeq, n)) = n
    BY <1>1, BytesOK
  <2>2. ASSUME NEW p \in sent
        PROVE  p \in Packets /\ Piece(p)'
    <3>1. /\ p.id = StreamId /\ p.seq = w.nextSeq /\ p.data = Bytes(w.nextSeq, n) /\ p.end = "none"
          /\ p = [id |-> w.id, seq |-> w.nextSeq, data |-> Bytes(w.nextSeq, n), end |-> "none"]
      BY <1>1, <1>6
    <3>2. p \in Packets
      BY <1>1, <2>1, <3>1 DEF Packets
    <3>3. Len(p.data) = n /\ p.data = Bytes(p.seq, Len(p.data)) /\ p.seq + Len(p.data) <= w'.nextSeq
      BY <1>1, <1>6, <1>8, <2>1, <3>1
    <3>4. Piece(p)'
      BY <3>1, <3>3 DEF Piece, Bytes
    <3>5. QED BY <3>2, <3>4
  <2>3. QED BY <2>2
<1>13. CancelsAreMeant'
  BY <1>6 DEF PipeInv, CancelsAreMeant
<1>14. PipeInv'
  <2>1. packets' \subseteq Packets /\ \A p \in packets' : p \in packets \/ Piece(p)'
    BY <1>3, <1>12 DEF PipeInv, PipeTyped
  <2>2. QED BY <1>6, <1>10, <1>11, <1>13, <2>1, WriterMoves DEF PipeInv, PipeTyped
<1>15. QED BY <1>8, <1>14

LEMMA WriteKeeps ==
  ASSUME PipeInv, NEW n \in 1 .. MaxPiece, Write(n)
  PROVE  PipeInv' /\ w'.nextSeq >= w.nextSeq /\ w'.nextSeq <= Len(got) + r.readWindow /\ closedWith = "open"
<1> DEFINE u == [w EXCEPT !.buffer = Bytes(w.nextSeq, n)]
<1>1. n \in Nat /\ w \in Writers /\ ~w.closed /\ w.nextSeq \in Nat /\ closedWith = "open"
  BY PipeAssumption DEF PipeInv, PipeTyped, WriterHolds, Writers, Write
<1>2. u \in Writers
  <2>1. Bytes(w.nextSeq, n) \in Seq(Nat)
    BY <1>1, BytesOK
  <2>2. QED BY <1>1, <2>1 DEF Writers
<1>3. /\ WriterStep(W!TrySendData(u))
      /\ UNCHANGED <<r, acks, closedWith, readerKnown, writerKnown, got, ended>>
  BY DEF Write, Bytes
<1>4. QED BY <1>1, <1>2, <1>3, SendKeeps

LEMMA ResumeWriteKeeps ==
  ASSUME PipeInv, ResumeWrite
  PROVE  /\ PipeInv' /\ w'.nextSeq >= w.nextSeq /\ w'.nextSeq <= Len(got) + r.readWindow
         /\ (w'.nextSeq # w.nextSeq => closedWith = "open")
<1>1. /\ w \in Writers /\ w.nextSeq \in Nat /\ w.buffer = Bytes(w.nextSeq, Len(w.buffer))
      /\ Len(w.buffer) \in Nat /\ w.nextSeq <= Len(got) + r.readWindow
      /\ UNCHANGED <<r, acks, closedWith, readerKnown, writerKnown, got, ended>>
  BY DEF PipeInv, PipeTyped, WriterHolds, Writers, ResumeWrite
<1>2. CASE w.err # "none"
  <2>1. WriterStep(w)
    BY <1>2 DEF ResumeWrite
  <2>2. w' = w /\ packets' = packets
    BY <1>1, <2>1 DEF WriterStep, Writers
  <2>3. Ahead
    BY <1>1, <2>2 DEF Ahead, PipeInv, PipeTyped
  <2>4. WriterHolds' /\ CancelsAreMeant'
    BY <1>1, <2>2 DEF PipeInv, WriterHolds, CancelsAreMeant, Bytes
  <2>5. PipeInv'
    BY <1>1, <2>2, <2>3, <2>4, WriterMoves DEF PipeInv, PipeTyped
  <2>6. QED BY <1>1, <2>2, <2>5
<1>3. CASE w.err = "none"
  <2>1. WriterStep(W!TrySendData(w))
    BY <1>3 DEF ResumeWrite
  <2>2. ~w.closed /\ closedWith = "open"
    BY <1>3 DEF PipeInv, WriterHolds
  <2>3. w = [w EXCEPT !.buffer = Bytes(w.nextSeq, Len(w.buffer))]
    BY <1>1 DEF Writers
  <2> DEFINE k == Len(w.buffer)
  <2>4. k \in Nat /\ w = [w EXCEPT !.buffer = Bytes(w.nextSeq, k)]
    BY <1>1, <2>3
  <2> HIDE DEF k
  <2>5. QED BY <1>1, <2>1, <2>2, <2>4, SendKeeps
<1>4. QED BY <1>2, <1>3

LEMMA CloseWriterKeeps ==
  ASSUME PipeInv, NEW end \in {"eof", "error"}, CloseWriter(end)
  PROVE  PipeInv' /\ w'.nextSeq = w.nextSeq /\ closedWith = "open"
<1> DEFINE p == [id |-> w.id, seq |-> w.nextSeq, data |-> << >>, end |-> end]
           e == IF w.err = "none" THEN "closed" ELSE w.err
<1>1. /\ w \in Writers /\ w.nextSeq \in Nat /\ ~w.closed /\ w.id = StreamId /\ closedWith' = end
      /\ closedWith = "open"
      /\ UNCHANGED <<r, acks, readerKnown, writerKnown, got, ended>>
      /\ WriterStep(W!CloseWithError(w, end))
  BY DEF PipeInv, PipeTyped, Writers, CloseWriter, WriterHolds
<1>2. w' = [w EXCEPT !.closed = TRUE, !.err = e, !.waiting = FALSE] /\ packets' = packets \cup {p}
  BY <1>1 DEF WriterStep, W!CloseWithError, W!Broadcast, Writers
<1>3. e \in {"none", "canceled", "closed"} /\ e # "none" /\ (e = "canceled" => w.err = "canceled")
  BY <1>1 DEF Writers
<1>4. p \in Packets /\ p.seq = w.nextSeq /\ p.data = << >> /\ p.end = end
  BY <1>1 DEF Packets
<1> HIDE DEF p, e
<1>5. /\ w' \in Writers /\ w'.closed = TRUE /\ w'.err = e /\ w'.nextSeq = w.nextSeq
      /\ w'.buffer = w.buffer
  BY <1>1, <1>2, <1>3 DEF Writers
<1>6. Ahead
  BY <1>1, <1>5 DEF Ahead, PipeInv, PipeTyped
<1>7. WriterHolds'
  BY <1>1, <1>3, <1>5 DEF PipeInv, WriterHolds, Bytes
<1>8. CancelsAreMeant'
  BY <1>1, <1>3, <1>5 DEF PipeInv, CancelsAreMeant
<1>9. \A q \in {p} : Piece(q)'
  <2>1. Bytes(w.nextSeq, 0) = << >> /\ Len(<< >>) = 0 /\ w.nextSeq + 0 = w.nextSeq
    BY <1>1, NoBytes
  <2>2. Len(p.data) = 0 /\ p.data = Bytes(p.seq, Len(p.data)) /\ p.seq + Len(p.data) <= w'.nextSeq
    BY <1>1, <1>4, <1>5, <2>1
  <2>3. ASSUME NEW q, q = p
        PROVE  Piece(q)'
    <3>1. /\ Len(q.data) = 0 /\ q.data = Bytes(q.seq, Len(q.data)) /\ q.seq + Len(q.data) <= w'.nextSeq
          /\ q.end = closedWith' /\ q.seq = w'.nextSeq /\ q.data = << >>
      BY <1>1, <1>4, <1>5, <2>2, <2>3
    <3>2. QED BY <3>1 DEF Piece, Bytes
  <2>4. QED BY <2>3
<1>10. PipeInv'
  <2>1. /\ packets' \subseteq Packets /\ \A q \in packets' : q \in packets \/ Piece(q)'
        /\ closedWith' \in {"open", "eof", "error"} /\ writerKnown' \in BOOLEAN /\ acks' \subseteq acks
    BY <1>1, <1>2, <1>4, <1>9 DEF PipeInv, PipeTyped
  <2>2. QED BY <1>1, <1>5, <1>6, <1>7, <1>8, <2>1, WriterMoves
<1>11. QED BY <1>1, <1>5, <1>10

LEMMA DeliverAckKeeps ==
  ASSUME PipeInv, NEW ack \in acks, DeliverAck(ack)
  PROVE  PipeInv' /\ w'.nextSeq = w.nextSeq
<1>1. /\ w \in Writers /\ w.nextSeq \in Nat /\ Promise(ack) /\ ack \in SomeAcks
      /\ UNCHANGED <<r, packets, closedWith, readerKnown, got, ended>>
      /\ acks' \subseteq acks /\ writerKnown' \in BOOLEAN
      /\ (w' = w \/ w' = W!RecvAck(w, ack))
  BY DEF PipeInv, PipeTyped, Writers, DeliverAck
<1>2. /\ w.sentNotAcked \in Nat /\ w.maxAckedSeq \in Nat /\ w.maxAckedRwnd \in Nat
      /\ w.readWindow \in Nat /\ ack.seq \in Nat /\ ack.rwnd \in Nat /\ Len(got) \in Nat
      /\ r.readWindow \in Nat /\ WriterHolds /\ CancelsAreMeant
  BY <1>1 DEF Writers, SomeAcks, PipeInv, PipeTyped, Readers
<1>3. /\ w' \in Writers /\ WriterHolds' /\ CancelsAreMeant' /\ w'.nextSeq = w.nextSeq
      /\ w'.closed = w.closed
  <2>1. CASE w' = w
    BY <1>1, <1>2, <2>1 DEF WriterHolds, CancelsAreMeant, Bytes
  <2>2. CASE w' = [w EXCEPT !.finAcked = TRUE, !.maxAckedSeq = ack.seq] /\ ack.fin
    <3>1. /\ w' \in Writers /\ w'.nextSeq = w.nextSeq /\ w'.closed = w.closed /\ w'.err = w.err
          /\ w'.buffer = w.buffer
      BY <1>1, <1>2, <2>2 DEF Writers
    <3>2. w.closed
      BY <1>1, <2>2 DEF Promise
    <3>3. QED BY <1>1, <1>2, <3>1, <3>2 DEF WriterHolds, CancelsAreMeant, Bytes
  <2>3. CASE w' = [w EXCEPT !.canceled = TRUE] /\ w.closed
    BY <1>1, <1>2, <2>3 DEF Writers, WriterHolds, CancelsAreMeant, Bytes
  <2>4. CASE w' = [w EXCEPT !.canceled = TRUE, !.err = "canceled", !.waiting = FALSE] /\ ~w.closed /\ ack.cancel
    <3>1. /\ w' \in Writers /\ w'.nextSeq = w.nextSeq /\ w'.closed = w.closed /\ w'.err = "canceled"
          /\ w'.buffer = w.buffer /\ w'.sentNotAcked = w.sentNotAcked
          /\ w'.maxAckedSeq = w.maxAckedSeq /\ w'.readWindow = w.readWindow
      BY <1>1, <1>2, <2>4 DEF Writers
    <3>2. r.closed
      BY <1>1, <2>4 DEF Promise
    <3>3. QED BY <1>1, <1>2, <3>1, <3>2, <2>4 DEF WriterHolds, CancelsAreMeant, Bytes
  <2>5. CASE w.closed /\ w' = [w EXCEPT !.maxAckedSeq = ack.seq, !.maxAckedRwnd = ack.rwnd]
    BY <1>1, <1>2, <2>5 DEF Writers, WriterHolds, CancelsAreMeant, Bytes
  <2>6. CASE /\ ~w.closed /\ ~W!StaleAck(w, ack)
             /\ w' = [w EXCEPT !.maxAckedSeq = ack.seq, !.maxAckedRwnd = ack.rwnd,
                               !.sentNotAcked = w.sentNotAcked - W!NewlyAcked(w, ack),
                               !.readWindow = ack.rwnd, !.waiting = FALSE]
    <3> DEFINE d == W!NewlyAcked(w, ack)
    <3>1. /\ w.maxAckedSeq <= ack.seq /\ ack.seq <= w.nextSeq
          /\ w.sentNotAcked <= w.nextSeq /\ w.maxAckedSeq = w.nextSeq - w.sentNotAcked
          /\ ack.seq + ack.rwnd <= Len(got) + r.readWindow
      BY <1>1, <1>2, <2>6 DEF W!StaleAck, WriterHolds, Promise
    <3>2. d = ack.seq - w.maxAckedSeq /\ d \in 0 .. w.sentNotAcked
      BY <1>1, <1>2, <3>1 DEF W!NewlyAcked
    <3> HIDE DEF d
    <3>3. /\ w.sentNotAcked - d \in Nat /\ w.sentNotAcked - d <= w.nextSeq
          /\ ack.seq = w.nextSeq - (w.sentNotAcked - d)
      <4>1. /\ ack.seq \in Nat /\ w.maxAckedSeq \in Nat /\ w.sentNotAcked \in Nat /\ w.nextSeq \in Nat
            /\ d = ack.seq - w.maxAckedSeq /\ d \in 0 .. w.sentNotAcked
            /\ w.maxAckedSeq = w.nextSeq - w.sentNotAcked /\ w.sentNotAcked <= w.nextSeq
        BY <1>1, <1>2, <3>1, <3>2
      <4>2. QED BY <4>1
    <3>4. /\ w' \in Writers /\ w'.nextSeq = w.nextSeq /\ w'.closed = w.closed /\ w'.err = w.err
          /\ w'.buffer = w.buffer /\ w'.sentNotAcked = w.sentNotAcked - d
          /\ w'.maxAckedSeq = ack.seq /\ w'.readWindow = ack.rwnd
      BY <1>1, <1>2, <2>6, <3>3 DEF Writers, d
    <3>5. QED BY <1>1, <1>2, <2>6, <3>1, <3>3, <3>4 DEF WriterHolds, CancelsAreMeant, Bytes
  <2>7. QED
    <3>1. ASSUME w' = W!RecvAck(w, ack), w' # w, ~ack.fin, ~(ack.cancel /\ ~w.canceled), ~w.closed
          PROVE  /\ ~W!StaleAck(w, ack)
                 /\ w' = [w EXCEPT !.maxAckedSeq = ack.seq, !.maxAckedRwnd = ack.rwnd,
                                   !.sentNotAcked = w.sentNotAcked - W!NewlyAcked(w, ack),
                                   !.readWindow = ack.rwnd, !.waiting = FALSE]
      <4>1. ~W!StaleAck(w, ack) /\ ack.id = w.id
        BY <3>1 DEF W!RecvAck
      <4> DEFINE s == [w EXCEPT !.maxAckedSeq = ack.seq, !.maxAckedRwnd = ack.rwnd]
                 d == W!NewlyAcked(w, ack)
      <4>2. w' = [[s EXCEPT !.sentNotAcked = @ - d, !.readWindow = ack.rwnd] EXCEPT !.waiting = FALSE]
        BY <3>1, <4>1, Zenon DEF W!RecvAck, W!Broadcast
      <4> HIDE DEF d
      <4>3. QED BY <1>1, <1>2, <4>1, <4>2 DEF Writers, d
    <3>2. ASSUME w' = W!RecvAck(w, ack), w' # w
          PROVE  \/ ack.fin /\ w' = [w EXCEPT !.finAcked = TRUE, !.maxAckedSeq = ack.seq]
                 \/ w.closed /\ w' = [w EXCEPT !.canceled = TRUE]
                 \/ ack.cancel /\ ~w.closed /\ w' = [[w EXCEPT !.canceled = TRUE, !.err = "canceled"] EXCEPT !.waiting = FALSE]
                 \/ w.closed /\ w' = [w EXCEPT !.maxAckedSeq = ack.seq, !.maxAckedRwnd = ack.rwnd]
                 \/ ~ack.fin /\ ~(ack.cancel /\ ~w.canceled) /\ ~w.closed
      BY <3>2, Zenon DEF W!RecvAck, W!Broadcast
    <3>3. QED BY <1>1, <2>1, <2>2, <2>3, <2>4, <2>5, <2>6, <3>1, <3>2
<1>4. Ahead
  BY <1>1, <1>3 DEF Ahead, PipeInv, PipeTyped
<1>5. PipeInv'
  BY <1>1, <1>3, <1>4, WriterMoves DEF PipeInv, PipeTyped
<1>6. QED BY <1>3, <1>5

LEMMA ReadEndKeeps == ASSUME PipeInv, ReadEnd PROVE PipeInv'
<1>1. /\ UNCHANGED <<w, r, packets, acks, closedWith, readerKnown, writerKnown, got>>
      /\ ended' = ReadEnds(r) /\ r \in Readers /\ got \in Seq(Nat) /\ Len(got) \in Nat
  BY DEF ReadEnd, PipeInv, PipeTyped
<1>2. ended' \in {"none", "eof", "error", "closed"}
  BY <1>1 DEF ReadEnds
<1>3. ReaderFollows(r', Len(got')) /\ got' = Bytes(0, Len(got'))
  BY <1>1 DEF PipeInv
<1>4. QED BY <1>1, <1>2, <1>3, ReaderMoves DEF PipeInv, PipeTyped

LEMMA PipeStep == PipeInv /\ [Next]_vars => PipeInv'
<1> SUFFICES ASSUME PipeInv, [Next]_vars PROVE PipeInv'
  OBVIOUS
<1>1. ASSUME NEW n \in 1 .. MaxPiece, Write(n) PROVE PipeInv'
  BY <1>1, WriteKeeps
<1>2. ASSUME NEW end \in {"eof", "error"}, CloseWriter(end) PROVE PipeInv'
  BY <1>2, CloseWriterKeeps
<1>3. CASE ResumeWrite
  BY <1>3, ResumeWriteKeeps
<1>4. ASSUME NEW p \in packets, DeliverData(p) PROVE PipeInv'
  BY <1>4, DeliverDataKeeps
<1>5. ASSUME NEW ack \in acks, DeliverAck(ack) PROVE PipeInv'
  BY <1>5, DeliverAckKeeps
<1>6. CASE SendNextAck
  BY <1>6, SendNextAckKeeps
<1>7. CASE ReadEnd
  BY <1>7, ReadEndKeeps
<1>8. ASSUME NEW n, ReadBytes(n) PROVE PipeInv'
  BY <1>8, ReadBytesKeeps
<1>9. CASE Cancel
  BY <1>9, CancelKeeps
<1>10. CASE UNCHANGED vars
  <2>1. UNCHANGED <<w, r, packets, acks, closedWith, readerKnown, writerKnown, got, ended>>
    BY <1>10 DEF vars
  <2>2. r' \in Readers /\ ReaderFollows(r', Len(got')) /\ Len(got) \in Nat
    BY <2>1 DEF PipeInv, PipeTyped
  <2>3. QED BY <2>1, <2>2, ReaderMoves DEF PipeInv, PipeTyped
<1>11. QED
  BY <1>1, <1>2, <1>3, <1>4, <1>5, <1>6, <1>7, <1>8, <1>9, <1>10 DEF Next, Deliver, Consumer

(* The reader's side and the writer's side of a stream hold what they promise *)
(* to each other, with everything that is on its way.                         *)
THEOREM PipeKeepsItsPromises == Spec => []PipeInv
  BY PipeInit, PipeStep, PTL DEF Spec

(* A writer is told that its stream was cancelled only when its reader was    *)
(* closed: the cancels that streambroker.go:160-205 answers to late packets   *)
(* come after an end the writer knows of.                                     *)
THEOREM OnlyClosedReadersCancel == Spec => []CancelsAreMeant
<1>1. PipeInv => CancelsAreMeant
  BY DEF PipeInv
<1>2. QED BY <1>1, PipeKeepsItsPromises, PTL
-----------------------------------------------------------------------------
(* The stream of bytes.                                                      *)


LEMMA StartsAsByteStream == Init => Stream!SInit
<1> SUFFICES ASSUME Init PROVE Stream!SInit
  OBVIOUS
<1>1. PICK n \in Windows : w = W!NewWriter(StreamId, n) /\ r = NewReader(StreamId, n, 0)
  BY DEF Init
<1>2. n \in Nat /\ w.nextSeq = 0 /\ r.readWindow = n
  BY <1>1, PipeAssumption DEF NewReader, W!NewWriter
<1>3. got = << >> /\ closedWith = "open" /\ ended = "none"
  BY DEF Init
<1>4. QED BY <1>2, <1>3 DEF Stream!SInit

\* What goes out is a Put, or nothing the consumer could notice.
LEMMA SendIsPut ==
  ASSUME PipeInv, w'.nextSeq >= w.nextSeq, w'.nextSeq <= Len(got) + r.readWindow, w' \in Writers,
         w'.nextSeq # w.nextSeq => closedWith = "open",
         UNCHANGED <<r, got, closedWith, ended>>
  PROVE  [Stream!SNext]_(Stream!svars)
<1>1. w.nextSeq \in Nat /\ w'.nextSeq \in Nat
  BY DEF PipeInv, PipeTyped, Writers
<1>2. CASE w'.nextSeq = w.nextSeq
  BY <1>2 DEF Stream!svars
<1>3. CASE w'.nextSeq # w.nextSeq
  <2>1. w'.nextSeq > w.nextSeq
    BY <1>1, <1>3
  <2>2. QED BY <1>3, <2>1 DEF Stream!SNext, Stream!Put
<1>4. QED BY <1>2, <1>3

LEMMA StepsAsByteStream == PipeInv /\ [Next]_vars => [Stream!SNext]_(Stream!svars)
<1> SUFFICES ASSUME PipeInv, [Next]_vars PROVE [Stream!SNext]_(Stream!svars)
  OBVIOUS
<1>1. PipeInv'
  BY PipeStep
<1>2. w' \in Writers /\ r \in Readers /\ r' \in Readers /\ w \in Writers
  BY <1>1 DEF PipeInv, PipeTyped
<1>3. ASSUME NEW n \in 1 .. MaxPiece, Write(n) PROVE [Stream!SNext]_(Stream!svars)
  <2>1. UNCHANGED <<r, got, closedWith, ended>>
    BY <1>3 DEF Write
  <2>2. QED BY <1>2, <1>3, <2>1, WriteKeeps, SendIsPut
<1>4. CASE ResumeWrite
  <2>1. UNCHANGED <<r, got, closedWith, ended>>
    BY <1>4 DEF ResumeWrite
  <2>2. QED BY <1>2, <1>4, <2>1, ResumeWriteKeeps, SendIsPut
<1>5. ASSUME NEW end \in {"eof", "error"}, CloseWriter(end) PROVE [Stream!SNext]_(Stream!svars)
  <2>1. UNCHANGED <<r, got, ended>> /\ closedWith' = end /\ closedWith = "open" /\ w'.nextSeq = w.nextSeq
    BY <1>5, CloseWriterKeeps DEF CloseWriter
  <2>2. QED BY <2>1 DEF Stream!SNext, Stream!End
<1>6. ASSUME NEW p \in packets, DeliverData(p) PROVE [Stream!SNext]_(Stream!svars)
  <2>1. UNCHANGED <<w, got, closedWith, ended>> /\ r'.readWindow = r.readWindow
    BY <1>6, DeliverDataWindow DEF DeliverData
  <2>2. QED BY <2>1 DEF Stream!svars
<1>7. ASSUME NEW ack \in acks, DeliverAck(ack) PROVE [Stream!SNext]_(Stream!svars)
  <2>1. UNCHANGED <<r, got, closedWith, ended>> /\ w'.nextSeq = w.nextSeq
    BY <1>7, DeliverAckKeeps DEF DeliverAck
  <2>2. QED BY <2>1 DEF Stream!svars
<1>8. CASE SendNextAck
  <2>1. UNCHANGED <<w, got, closedWith, ended>> /\ r'.readWindow = r.readWindow
    BY <1>2, <1>8 DEF SendNextAck, Readers
  <2>2. QED BY <2>1 DEF Stream!svars
<1>9. CASE ReadEnd
  <2>1. UNCHANGED <<w, r, got, closedWith>> /\ ended = "none" /\ ended' = ReadEnds(r)
        /\ ReadEnds(r) # "none" /\ CanRead(r)
    BY <1>9 DEF ReadEnd
  <2>2. \/ ended' = "closed"
        \/ ended' = "error" /\ closedWith = "error"
        \/ ended' = "eof" /\ closedWith = "eof" /\ Len(got) = w.nextSeq
    <3>1. ReaderFollows(r, Len(got)) /\ r.err \in {"none", "stream", "closed"} /\ Len(got) \in Nat
      BY <1>2 DEF PipeInv, PipeTyped, Readers
    <3>2. CASE r.closed
      BY <2>1, <3>2 DEF ReadEnds
    <3>3. CASE ~r.closed /\ r.err # "none"
      BY <2>1, <3>1, <3>3 DEF ReadEnds, ReaderFollows
    <3>4. CASE ~r.closed /\ r.err = "none" /\ r.buffer = << >>
      <4>1. r.eof /\ Len(r.buffer) = 0 /\ ended' = "eof"
        BY <2>1, <3>4 DEF CanRead, Receiving, ReadEnds
      <4>2. QED BY <3>1, <4>1 DEF ReaderFollows
    <3>5. CASE ~r.closed /\ r.err = "none" /\ r.buffer # << >>
      BY <2>1, <3>5 DEF ReadEnds
    <3>6. QED BY <3>2, <3>3, <3>4, <3>5
  <2>3. QED BY <2>1, <2>2 DEF Stream!SNext, Stream!SeeEnd
<1>10. ASSUME NEW n, ReadBytes(n) PROVE [Stream!SNext]_(Stream!svars)
  <2>1. /\ UNCHANGED <<w, closedWith, ended>> /\ ended = "none" /\ r' = Read(r, n)
    BY <1>10 DEF ReadBytes
  <2>2. got' = Bytes(0, Len(got) + n) /\ n \in Nat \ {0} /\ Len(got) + n <= w.nextSeq
    BY <1>10, ReadBytesKeeps
  <2>3. r'.readWindow = r.readWindow
    BY <1>2, <2>1 DEF Read, SendAck, Readers
  <2>4. Len(got) \in Nat /\ w.nextSeq \in Nat
    BY <1>2 DEF PipeInv, PipeTyped, Writers
  <2>5. Len(got) + n \in Len(got) + 1 .. w.nextSeq
    BY <2>2, <2>4
  <2>6. got' = [i \in 1 .. Len(got) + n |-> i - 1]
    <3>1. \A i \in 1 .. Len(got) + n : 0 + i - 1 = i - 1
      BY <2>2, <2>4
    <3>2. QED BY <2>2, <3>1 DEF Bytes
  <2>7. QED BY <2>1, <2>3, <2>5, <2>6 DEF Stream!SNext, Stream!Get
<1>11. CASE Cancel
  <2>1. UNCHANGED <<w, got, closedWith, ended>> /\ r'.readWindow = r.readWindow
    BY <1>2, <1>11 DEF Cancel, CloseReader, SendAck, Readers
  <2>2. QED BY <2>1 DEF Stream!svars
<1>12. CASE UNCHANGED vars
  BY <1>12 DEF vars, Stream!svars
<1>13. QED
  BY <1>3, <1>4, <1>5, <1>6, <1>7, <1>8, <1>9, <1>10, <1>11, <1>12 DEF Next, Deliver, Consumer

(* What the consumer reads is what was written, in order, never more than the *)
(* window is on its way, and the end is seen after everything that precedes   *)
(* it: the writer, the reader and their brokers implement ByteStream whatever *)
(* the network reorders and repeats (streamreader.go:48-184,                  *)
(* streamwriter.go:50-263).                                                   *)
THEOREM PipeIsByteStream == Spec => IsByteStream
  BY StartsAsByteStream, StepsAsByteStream, PipeKeepsItsPromises, PTL DEF Spec, IsByteStream, Stream!SSpec
=============================================================================
