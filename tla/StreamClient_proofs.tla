------------------------ MODULE StreamClient_proofs ------------------------
(* The stream manager's invariants, for every buffer size, window, packet    *)
(* size, set of stream ids and stream length.                                *)
EXTENDS StreamClient, TLAPS
-----------------------------------------------------------------------------
(* What each CirBuf operation leaves, for every size of the ring: the lemmas *)
(* the invariance proofs of the modules that use a CirBuf rest on.           *)

(* Ring arithmetic.  An index less than twice the size wraps at most once.   *)
LEMMA Wrap ==
  ASSUME NEW a \in Nat, a < 2 * MaxSize
  PROVE  a % MaxSize = IF a < MaxSize THEN a ELSE a - MaxSize
  BY MaxSizeAssumption, SMT

\* Moving n slots and then i is moving n + i.
LEMMA WrapSum ==
  ASSUME NEW p \in Slots, NEW n \in 0 .. MaxSize, NEW i \in 0 .. MaxSize, n + i <= MaxSize
  PROVE  /\ (p + n) % MaxSize \in Slots
         /\ (((p + n) % MaxSize) + i) % MaxSize = (p + (n + i)) % MaxSize
<1>1. MaxSize \in Nat \ {0} /\ p \in Nat /\ p < MaxSize /\ n \in Nat /\ i \in Nat
  BY MaxSizeAssumption DEF Slots
<1>2. (p + n) % MaxSize = IF p + n < MaxSize THEN p + n ELSE p + n - MaxSize
  BY <1>1, Wrap
<1>3. (p + (n + i)) % MaxSize
        = IF p + (n + i) < MaxSize THEN p + (n + i) ELSE p + (n + i) - MaxSize
  BY <1>1, Wrap
<1>4. /\ (p + n) % MaxSize \in Nat /\ (p + n) % MaxSize < MaxSize
  BY <1>1, <1>2
<1>5. (((p + n) % MaxSize) + i) % MaxSize
        = IF ((p + n) % MaxSize) + i < MaxSize THEN ((p + n) % MaxSize) + i
          ELSE ((p + n) % MaxSize) + i - MaxSize
  BY <1>1, <1>4, Wrap
<1>6. QED BY <1>1, <1>2, <1>3, <1>4, <1>5 DEF Slots

\* Moving on stays in the ring.
LEMMA WrapSlot ==
  ASSUME NEW p \in Slots, NEW n \in 0 .. MaxSize
  PROVE  (p + n) % MaxSize \in Slots
<1>1. n + 0 <= MaxSize /\ 0 \in 0 .. MaxSize
  BY MaxSizeAssumption
<1>2. QED BY <1>1, WrapSum

\* The slot after a write is the slot after the newest byte kept.
LEMMA WrapWrite ==
  ASSUME NEW p \in Slots, NEW c \in 0 .. MaxSize, NEW n \in 0 .. MaxSize,
         NEW g \in 0 .. n, c + g <= MaxSize
  PROVE  (((p + c) % MaxSize) + n) % MaxSize
           = (((p + (n - g)) % MaxSize) + (c + g)) % MaxSize
<1>1. /\ MaxSize \in Nat \ {0} /\ p \in Nat /\ p < MaxSize /\ c \in Nat /\ c <= MaxSize
      /\ n \in Nat /\ n <= MaxSize /\ g \in Nat /\ g <= n
  BY MaxSizeAssumption DEF Slots
<1> DEFINE w == (p + c) % MaxSize
           h == (p + (n - g)) % MaxSize
<1>2. w = IF p + c < MaxSize THEN p + c ELSE p + c - MaxSize
  BY <1>1, Wrap
<1>3. h = IF p + (n - g) < MaxSize THEN p + (n - g) ELSE p + (n - g) - MaxSize
  BY <1>1, Wrap
<1> HIDE DEF w, h
<1>4. w \in Nat /\ w < MaxSize /\ h \in Nat /\ h < MaxSize
  BY <1>1, <1>2, <1>3
<1>5. (w + n) % MaxSize = IF w + n < MaxSize THEN w + n ELSE w + n - MaxSize
  BY <1>1, <1>4, Wrap
<1>6. (h + (c + g)) % MaxSize = IF h + (c + g) < MaxSize THEN h + (c + g) ELSE h + (c + g) - MaxSize
  BY <1>1, <1>4, Wrap
<1>7. (w + n) % MaxSize = (h + (c + g)) % MaxSize
  BY <1>1, <1>2, <1>3, <1>5, <1>6
<1>8. QED BY <1>7 DEF w, h

\* Byte i after a write of n bytes, g of which found room, is either an old
\* byte the write spared or byte q - c of the chunk.
LEMMA WrapRead ==
  ASSUME NEW p \in Slots, NEW c \in 0 .. MaxSize, NEW n \in 0 .. MaxSize,
         NEW g \in 0 .. n, c + g <= MaxSize, NEW i \in 0 .. c + g - 1
  PROVE  LET w == (p + c) % MaxSize
             q == (n - g) + i
             s == (((p + (n - g)) % MaxSize) + i) % MaxSize
             d == IF s >= w THEN s - w ELSE s + MaxSize - w
         IN  /\ s \in Slots
             /\ q < c  => s = (p + q) % MaxSize /\ d = MaxSize - (c - q)
             /\ q >= c => d = q - c
<1>1. /\ MaxSize \in Nat \ {0} /\ p \in Nat /\ p < MaxSize /\ c \in Nat /\ c <= MaxSize
      /\ n \in Nat /\ n <= MaxSize /\ g \in Nat /\ g <= n
      /\ i \in Nat /\ i < c + g
  BY MaxSizeAssumption DEF Slots
<1> DEFINE w == (p + c) % MaxSize
           h == (p + (n - g)) % MaxSize
           q == (n - g) + i
           s == (h + i) % MaxSize
<1>2. w = IF p + c < MaxSize THEN p + c ELSE p + c - MaxSize
  BY <1>1, Wrap
<1>3. h = IF p + (n - g) < MaxSize THEN p + (n - g) ELSE p + (n - g) - MaxSize
  BY <1>1, Wrap
<1> HIDE DEF w, h
<1>4. w \in Nat /\ w < MaxSize /\ h \in Nat /\ h < MaxSize
  BY <1>1, <1>2, <1>3
<1>5. s = IF h + i < MaxSize THEN h + i ELSE h + i - MaxSize
  BY <1>1, <1>4, Wrap
<1> HIDE DEF s
<1>6. s \in Nat /\ s < MaxSize
  BY <1>1, <1>4, <1>5
<1>7. ASSUME q < c PROVE s = (p + q) % MaxSize
  <2>1. (p + q) % MaxSize = IF p + q < MaxSize THEN p + q ELSE p + q - MaxSize
    BY <1>1, <1>7, Wrap
  <2>2. QED BY <1>1, <1>3, <1>5, <1>7, <2>1
<1>8. q < c => (IF s >= w THEN s - w ELSE s + MaxSize - w) = MaxSize - (c - q)
  BY <1>1, <1>2, <1>3, <1>5
<1>9. q >= c => (IF s >= w THEN s - w ELSE s + MaxSize - w) = q - c
  BY <1>1, <1>2, <1>3, <1>5
<1>10. QED BY <1>1, <1>6, <1>7, <1>8, <1>9 DEF Slots, s, w, h
-----------------------------------------------------------------------------
\* The fields of a buffer that arithmetic is done on.
LEMMA CirBufFields ==
  ASSUME NEW b \in CirBufs, CirBufOK(b)
  PROVE  /\ b.count \in Nat /\ b.totalSize \in Nat /\ b.syncMode \in BOOLEAN
         /\ b.windowSize \in Nat /\ b.waiter \in BOOLEAN
         /\ b.count <= b.totalSize
         /\ HeadPos(b) \in Nat
<1>1. /\ b.count \in 0 .. MaxSize /\ b.windowSize \in 0 .. MaxSize
      /\ b.totalSize \in Nat /\ b.syncMode \in BOOLEAN /\ b.waiter \in BOOLEAN
  BY DEF CirBufs
<1>2. MaxSize \in Nat
  BY MaxSizeAssumption
<1>3. b.count <= b.totalSize
  BY DEF CirBufOK, PositionsAgree
<1>4. QED BY <1>1, <1>2, <1>3 DEF HeadPos

\* A new buffer is in order.
LEMMA MakeCirBufOK ==
  ASSUME NEW sync \in BOOLEAN
  PROVE  MakeCirBuf(sync) \in CirBufs /\ CirBufOK(MakeCirBuf(sync))
<1>1. 0 \in Slots /\ 0 \in 0 .. MaxSize /\ MaxSize \in 0 .. MaxSize /\ MaxSize \in Nat
  BY MaxSizeAssumption DEF Slots
<1>2. MakeCirBuf(sync) \in CirBufs
  BY <1>1 DEF MakeCirBuf, CirBufs
<1>3. (0 + 0) % MaxSize = 0
  BY MaxSizeAssumption, Wrap
<1>4. QED
  BY <1>1, <1>2, <1>3 DEF MakeCirBuf, CirBufOK, RingHolds, PositionsAgree, WaiterOnlyWhenFull

\* Advance (cirbuf.go:54-55, 138-139) forgets the oldest n bytes and no other.
LEMMA AdvanceOK ==
  ASSUME NEW b \in CirBufs, CirBufOK(b), NEW n \in 0 .. b.count
  PROVE  /\ Advance(b, n) \in CirBufs
         /\ RingHolds(Advance(b, n))
         /\ PositionsAgree(Advance(b, n))
         /\ Advance(b, n).count = b.count - n
<1> DEFINE r == Advance(b, n)
<1>1. /\ MaxSize \in Nat \ {0} /\ b.readPos \in Slots /\ b.count \in 0 .. MaxSize
      /\ b.totalSize \in Nat
  BY MaxSizeAssumption DEF CirBufs
<1>2. /\ n \in 0 .. MaxSize /\ b.count - n \in 0 .. MaxSize
  BY <1>1
<1>3. (b.readPos + n) % MaxSize \in Slots
  BY <1>1, <1>2, WrapSum
<1>4. /\ r.readPos = (b.readPos + n) % MaxSize /\ r.count = b.count - n
      /\ r.buf = b.buf /\ r.totalSize = b.totalSize
      /\ r.writePos = b.writePos /\ r.syncMode = b.syncMode
      /\ r.windowSize = b.windowSize
  BY DEF CirBufs, Advance
<1>5. r \in CirBufs
  BY <1>2, <1>3 DEF CirBufs, Advance
<1>6. ASSUME NEW i \in 0 .. r.count - 1
      PROVE  r.buf[(r.readPos + i) % MaxSize] = HeadPos(r) + i
  <2>1. (r.readPos + i) % MaxSize = (b.readPos + (n + i)) % MaxSize
    BY <1>1, <1>2, <1>4, WrapSum
  <2>2. n + i \in 0 .. b.count - 1
    BY <1>1, <1>2, <1>4
  <2>3. b.buf[(b.readPos + (n + i)) % MaxSize] = HeadPos(b) + (n + i)
    BY <2>2 DEF CirBufOK, RingHolds
  <2>4. QED BY <1>1, <1>2, <1>4, <2>1, <2>3 DEF HeadPos
<1>7. PositionsAgree(r)
  <2>1. (r.readPos + r.count) % MaxSize = (b.readPos + (n + (b.count - n))) % MaxSize
    BY <1>1, <1>2, <1>4, WrapSum
  <2>2. n + (b.count - n) = b.count
    BY <1>1, <1>2
  <2>3. QED BY <1>1, <1>2, <1>4, <2>1, <2>2 DEF CirBufOK, PositionsAgree, CirBufs
<1>8. QED BY <1>4, <1>5, <1>6, <1>7 DEF RingHolds
\* SetEffectiveWindow (cirbuf.go:37-63) keeps the ring in order, loses nothing in
\* sync mode, and leaves no writer blocked that could go on.
LEMMA SetEffectiveWindowOK ==
  ASSUME NEW b \in CirBufs, CirBufOK(b), NEW sync \in BOOLEAN, NEW size \in Nat
  PROVE  /\ SetEffectiveWindow(b, sync, size) \in CirBufs
         /\ CirBufOK(SetEffectiveWindow(b, sync, size))
         /\ SetEffectiveWindow(b, sync, size).syncMode = sync
         /\ SetEffectiveWindow(b, sync, size).totalSize = b.totalSize
         /\ SetEffectiveWindow(b, sync, size).count <= b.count
         /\ sync => SetEffectiveWindow(b, sync, size).count = b.count
<1> DEFINE win    == Least(size, MaxSize)
           excess == IF ~sync /\ b.count > win THEN b.count - win ELSE 0
           wakes  == b.syncMode /\ (win > b.windowSize \/ ~sync)
           a      == Advance(b, excess)
           r      == SetEffectiveWindow(b, sync, size)
<1>1. /\ MaxSize \in Nat \ {0} /\ b.count \in 0 .. MaxSize
      /\ b.windowSize \in 0 .. MaxSize
  BY MaxSizeAssumption DEF CirBufs
<1>2. win \in 0 .. MaxSize
  BY <1>1 DEF Least
<1>3. excess \in 0 .. b.count
  BY <1>1, <1>2
<1>4. /\ a \in CirBufs /\ RingHolds(a) /\ PositionsAgree(a)
      /\ a.count = b.count - excess
  BY <1>3, AdvanceOK
<1>5. /\ a.totalSize = b.totalSize /\ a.waiter = b.waiter
  BY DEF Advance, CirBufs
<1>6. r = [a EXCEPT !.windowSize = win, !.syncMode = sync, !.waiter = a.waiter /\ ~wakes]
  BY DEF SetEffectiveWindow, Excess, Wakes
<1> HIDE DEF win, excess, a, r
<1>7. /\ r.buf = a.buf /\ r.readPos = a.readPos /\ r.writePos = a.writePos
      /\ r.count = a.count /\ r.totalSize = a.totalSize
      /\ r.syncMode = sync /\ r.windowSize = win
      /\ r.waiter = (a.waiter /\ ~wakes)
  BY <1>4, <1>6 DEF CirBufs
<1>8. r \in CirBufs
  BY <1>2, <1>4, <1>6 DEF CirBufs
<1>9. RingHolds(r)
  BY <1>4, <1>7 DEF RingHolds, HeadPos
<1>10. PositionsAgree(r)
  <2>1. ~sync => a.count <= win
    BY <1>1, <1>2, <1>4 DEF excess
  <2>2. QED BY <1>4, <1>7, <2>1 DEF PositionsAgree
<1>11. WaiterOnlyWhenFull(r)
  <2>1. SUFFICES ASSUME r.waiter PROVE r.syncMode /\ r.count >= r.windowSize
    BY DEF WaiterOnlyWhenFull
  <2>2. b.waiter /\ ~wakes
    BY <1>5, <1>7, <2>1
  <2>3. b.syncMode /\ b.count >= b.windowSize
    BY <2>2 DEF CirBufOK, WaiterOnlyWhenFull
  <2>4. sync /\ win <= b.windowSize
    BY <1>1, <1>2, <2>2, <2>3
  <2>5. a.count = b.count
    BY <1>1, <1>4, <2>4 DEF excess
  <2>6. QED BY <1>1, <1>2, <1>7, <2>3, <2>4, <2>5
<1>12. /\ r.count <= b.count
       /\ sync => r.count = b.count
  BY <1>1, <1>3, <1>4, <1>7 DEF excess
<1>13. QED
  BY <1>5, <1>7, <1>8, <1>9, <1>10, <1>11, <1>12 DEF CirBufOK, r

\* Consume (cirbuf.go:129-144) of no more than there is forgets exactly n bytes.
LEMMA ConsumeOK ==
  ASSUME NEW b \in CirBufs, CirBufOK(b), NEW n \in 0 .. b.count
  PROVE  /\ Consume(b, n) \in CirBufs
         /\ CirBufOK(Consume(b, n))
         /\ Consume(b, n).count = b.count - n
         /\ Consume(b, n).totalSize = b.totalSize
         /\ Consume(b, n).syncMode = b.syncMode
<1> DEFINE a == Advance(b, n)
           r == Consume(b, n)
<1>1. /\ a \in CirBufs /\ RingHolds(a) /\ PositionsAgree(a)
      /\ a.count = b.count - n
  BY AdvanceOK
<1>2. a.totalSize = b.totalSize /\ a.syncMode = b.syncMode
  BY DEF Advance, CirBufs
<1>3. r = [a EXCEPT !.waiter = FALSE]
  BY DEF Consume
<1> HIDE DEF a, r
<1>4. /\ r \in CirBufs /\ r.waiter = FALSE
      /\ r.buf = a.buf /\ r.readPos = a.readPos /\ r.writePos = a.writePos
      /\ r.count = a.count /\ r.totalSize = a.totalSize
      /\ r.syncMode = a.syncMode /\ r.windowSize = a.windowSize
  BY <1>1, <1>3 DEF CirBufs
<1>5. CirBufOK(r)
  BY <1>1, <1>4 DEF CirBufOK, RingHolds, PositionsAgree, WaiterOnlyWhenFull, HeadPos
<1>6. QED BY <1>1, <1>2, <1>4, <1>5 DEF r

\* PeekDataAt (cirbuf.go:107-127) returns the stream's bytes from HeadPos + offset
\* on, and at least one if there is one.
LEMMA PeekDataAtOK ==
  ASSUME NEW b \in CirBufs, CirBufOK(b), NEW offset \in Nat, NEW len \in Nat
  PROVE  LET d == PeekDataAt(b, offset, len)
         IN  /\ d \in Seq(Nat)
             /\ Len(d) <= len
             /\ offset <= b.count => offset + Len(d) <= b.count
             /\ offset < b.count /\ len > 0 => Len(d) > 0
             /\ \A k \in 1 .. Len(d) : d[k] = HeadPos(b) + offset + k - 1
<1> DEFINE m == Least(len, b.count - offset)
           d == PeekDataAt(b, offset, len)
<1>1. MaxSize \in Nat \ {0} /\ b.count \in 0 .. MaxSize /\ b.totalSize \in Nat
  BY MaxSizeAssumption DEF CirBufs
<1>2. HeadPos(b) \in Nat
  BY <1>1 DEF HeadPos, CirBufOK, PositionsAgree
<1>3. CASE offset >= b.count
  <2>1. d = << >> /\ Len(d) = 0 /\ d \in Seq(Nat)
    BY <1>3 DEF PeekDataAt
  <2> HIDE DEF d
  <2>2. QED BY <1>1, <1>3, <2>1 DEF d
<1>4. CASE offset < b.count
  <2>1. m \in Nat /\ m <= len /\ m <= b.count - offset /\ (len > 0 => m > 0)
    BY <1>1, <1>4 DEF Least
  <2>2. d = [i \in 1 .. m |-> b.buf[(b.readPos + offset + i - 1) % MaxSize]]
    BY <1>1, <1>4 DEF PeekDataAt
  <2> HIDE DEF m, d
  <2>3. ASSUME NEW i \in 1 .. m
        PROVE  b.buf[(b.readPos + offset + i - 1) % MaxSize] = HeadPos(b) + offset + i - 1
    <3>1. offset + i - 1 \in 0 .. b.count - 1
      BY <1>1, <2>1
    <3>2. b.buf[(b.readPos + (offset + i - 1)) % MaxSize] = HeadPos(b) + (offset + i - 1)
      BY <3>1 DEF CirBufOK, RingHolds
    <3>3. b.readPos \in Nat
      BY <1>1 DEF CirBufs, Slots
    <3>4. b.readPos + (offset + i - 1) = b.readPos + offset + i - 1
      BY <2>1, <3>3
    <3>5. HeadPos(b) + (offset + i - 1) = HeadPos(b) + offset + i - 1
      BY <1>2, <2>1
    <3>6. QED BY <3>2, <3>4, <3>5
  <2>4. ASSUME NEW i \in 1 .. m PROVE HeadPos(b) + offset + i - 1 \in Nat
    BY <1>2, <2>1
  <2>5. d = [i \in 1 .. m |-> HeadPos(b) + offset + i - 1]
    BY <2>2, <2>3
  <2>6. d \in Seq(Nat) /\ Len(d) = m
    BY <2>1, <2>4, <2>5
  <2>7. QED BY <1>1, <1>4, <2>1, <2>5, <2>6 DEF d
<1>5. QED BY <1>1, <1>3, <1>4

\* What a write leaves, for a chunk of n bytes of which g found room.
LEMMA StoreOK ==
  ASSUME NEW b \in CirBufs, CirBufOK(b),
         NEW n \in 0 .. MaxSize, NEW g \in 0 .. n, b.count + g <= MaxSize,
         g < n => b.count + g = b.windowSize,
         NEW r \in CirBufs,
         r.buf = [j \in Slots |->
                    IF SlotDistance(b, j) < n THEN b.totalSize + SlotDistance(b, j)
                                               ELSE b.buf[j]],
         r.readPos = (b.readPos + (n - g)) % MaxSize,
         r.writePos = (b.writePos + n) % MaxSize,
         r.count = b.count + g, r.totalSize = b.totalSize + n
  PROVE  /\ RingHolds(r)
         /\ r.count <= r.totalSize
         /\ r.writePos = (r.readPos + r.count) % MaxSize
<1>1. /\ MaxSize \in Nat \ {0} /\ b.count \in 0 .. MaxSize
      /\ b.windowSize \in 0 .. MaxSize /\ b.totalSize \in Nat
      /\ b.readPos \in Slots
  BY MaxSizeAssumption DEF CirBufs
<1>2. /\ b.count <= b.totalSize
      /\ b.writePos = (b.readPos + b.count) % MaxSize
  BY DEF CirBufOK, PositionsAgree
<1>3. r.count <= r.totalSize /\ r.writePos = (r.readPos + r.count) % MaxSize
  BY <1>1, <1>2, WrapWrite
<1>4. ASSUME NEW i \in 0 .. r.count - 1
      PROVE  r.buf[(r.readPos + i) % MaxSize] = HeadPos(r) + i
  <2> DEFINE q == (n - g) + i
             s == (r.readPos + i) % MaxSize
             d == SlotDistance(b, s)
  <2>1. i \in 0 .. b.count + g - 1
    BY <1>1
  <2>2. /\ s \in Slots
        /\ q < b.count  => s = (b.readPos + q) % MaxSize /\ d = MaxSize - (b.count - q)
        /\ q >= b.count => d = q - b.count
    <3>1. b.readPos \in Slots /\ b.count \in 0 .. MaxSize /\ b.writePos = (b.readPos + b.count) % MaxSize
          /\ s = (((b.readPos + (n - g)) % MaxSize) + i) % MaxSize
      BY <1>1, <1>2
    <3>2. d = IF s >= b.writePos THEN s - b.writePos ELSE s + MaxSize - b.writePos
      BY DEF SlotDistance
    <3> HIDE DEF s, d, q
    <3>3. LET w == (b.readPos + b.count) % MaxSize
          IN  d = IF s >= w THEN s - w ELSE s + MaxSize - w
      BY <3>1, <3>2
    <3>4. QED BY <2>1, <3>1, <3>3, WrapRead DEF q
  <2>3. HeadPos(r) + i = HeadPos(b) + q
    BY <1>1, <2>1 DEF HeadPos
  <2>4. q \in Nat /\ q < b.count + n
    BY <1>1, <2>1
  <2>5. r.buf[s] = IF d < n THEN b.totalSize + d ELSE b.buf[s]
    BY <2>2
  <2>6. CASE q < b.count
    <3>1. MaxSize - (b.count - q) >= n
      BY <1>1, <2>1, <2>6
    <3>2. ~(d < n)
      BY <1>1, <2>2, <2>4, <2>6, <3>1
    <3>3. q \in 0 .. b.count - 1
      BY <1>1, <2>4, <2>6
    <3>4. b.buf[(b.readPos + q) % MaxSize] = HeadPos(b) + q
      BY <3>3 DEF CirBufOK, RingHolds
    <3>5. QED BY <2>2, <2>3, <2>5, <2>6, <3>2, <3>4
  <2>7. CASE q >= b.count
    <3>1. d = q - b.count /\ d < n
      BY <1>1, <2>2, <2>4, <2>7
    <3>2. b.totalSize + (q - b.count) = HeadPos(b) + q
      BY <1>1, <2>4 DEF HeadPos
    <3>3. QED BY <2>3, <2>5, <3>1, <3>2
  <2>8. QED BY <1>1, <2>4, <2>6, <2>7
<1>5. QED BY <1>3, <1>4 DEF RingHolds

\* The slots a write of n bytes changes, and to what.
LEMMA StoredIs ==
  ASSUME NEW b \in CirBufs, NEW data \in Seq(Nat), NEW n \in 0 .. Len(data),
         \A k \in 1 .. Len(data) : data[k] = b.totalSize + k - 1
  PROVE  /\ Stored(b, data, n)
              = [j \in Slots |->
                   IF SlotDistance(b, j) < n THEN b.totalSize + SlotDistance(b, j)
                                              ELSE b.buf[j]]
         /\ Stored(b, data, n) \in [Slots -> Nat]
<1>1. /\ MaxSize \in Nat \ {0} /\ b.totalSize \in Nat /\ b.writePos \in Slots
      /\ b.buf \in [Slots -> Nat]
  BY MaxSizeAssumption DEF CirBufs
<1>2. ASSUME NEW j \in Slots PROVE SlotDistance(b, j) \in Nat
  BY <1>1 DEF Slots, SlotDistance
<1>3. ASSUME NEW j \in Slots, SlotDistance(b, j) < n
      PROVE  data[SlotDistance(b, j) + 1] = b.totalSize + SlotDistance(b, j)
  <2> DEFINE d == SlotDistance(b, j)
  <2>1. d \in Nat /\ d < n
    BY <1>2, <1>3
  <2> HIDE DEF d
  <2>2. d + 1 \in 1 .. Len(data)
    BY <2>1
  <2>3. data[d + 1] = b.totalSize + (d + 1) - 1
    BY <2>2
  <2>4. data[d + 1] = b.totalSize + d
    BY <1>1, <2>1, <2>3
  <2>5. QED BY <2>4 DEF d
<1>4. Stored(b, data, n)
        = [j \in Slots |->
             IF SlotDistance(b, j) < n THEN b.totalSize + SlotDistance(b, j)
                                        ELSE b.buf[j]]
  BY <1>3 DEF Stored
<1>5. ASSUME NEW j \in Slots
      PROVE  (IF SlotDistance(b, j) < n THEN b.totalSize + SlotDistance(b, j)
                                         ELSE b.buf[j]) \in Nat
  BY <1>1, <1>2
<1>6. QED BY <1>4, <1>5

\* WriteAvailable (cirbuf.go:70-101) of the stream's next bytes keeps the newest
\* bytes in order; in sync mode it takes what fits and forgets nothing.
LEMMA WriteAvailableOK ==
  ASSUME NEW b \in CirBufs, CirBufOK(b),
         NEW data \in Seq(Nat), Len(data) \in 1 .. MaxSize,
         \A k \in 1 .. Len(data) : data[k] = b.totalSize + k - 1
  PROVE  /\ WriteAvailable(b, data) \in CirBufs
         /\ CirBufOK(WriteAvailable(b, data))
         /\ Writable(b, Len(data)) \in 0 .. Len(data)
         /\ WriteAvailable(b, data).totalSize = b.totalSize + Writable(b, Len(data))
         /\ WriteAvailable(b, data).syncMode = b.syncMode
         /\ WriteAvailable(b, data).count >= b.count
         /\ b.syncMode =>
              WriteAvailable(b, data).count = b.count + Writable(b, Len(data))
<1> DEFINE n    == Writable(b, Len(data))
           grow == Least(n, Room(b))
           r    == WriteAvailable(b, data)
<1>1. /\ MaxSize \in Nat \ {0} /\ b.count \in 0 .. MaxSize
      /\ b.windowSize \in 0 .. MaxSize /\ b.totalSize \in Nat
      /\ b.readPos \in Slots /\ b.writePos \in Slots
      /\ b.syncMode \in BOOLEAN /\ b.waiter \in BOOLEAN
  BY MaxSizeAssumption DEF CirBufs
<1>2. ~b.syncMode => b.count <= b.windowSize
  BY DEF CirBufOK, PositionsAgree
<1>3. Room(b) \in 0 .. MaxSize /\ Room(b) <= MaxSize - b.count
  BY <1>1 DEF Room
<1>4. n \in 0 .. Len(data) /\ n \in 0 .. MaxSize
  BY <1>1, <1>3 DEF Writable, Least
<1>5. /\ Stored(b, data, n) \in [Slots -> Nat]
      /\ Stored(b, data, n)
           = [j \in Slots |->
                IF SlotDistance(b, j) < n THEN b.totalSize + SlotDistance(b, j)
                                           ELSE b.buf[j]]
  BY <1>4, StoredIs
<1>6. grow \in 0 .. n /\ b.count + grow \in 0 .. MaxSize
  BY <1>1, <1>3, <1>4 DEF Least
<1>7. b.syncMode => grow = n
  BY <1>1, <1>3, <1>4 DEF Writable, Least
<1>8. grow < n => b.count + grow = b.windowSize
  BY <1>1, <1>2, <1>3, <1>4, <1>7 DEF Least, Room
<1>9. ~b.syncMode => b.count + grow <= b.windowSize
  BY <1>1, <1>2, <1>3, <1>4 DEF Least, Room
<1>10. b.waiter \/ n = 0 => b.syncMode /\ b.count >= b.windowSize
  <2>1. n = 0 => b.syncMode /\ b.count >= b.windowSize
    BY <1>1, <1>3 DEF Writable, Least, Room
  <2>2. QED BY <2>1 DEF CirBufOK, WaiterOnlyWhenFull
<1>11. r = [b EXCEPT !.buf       = Stored(b, data, n),
                      !.readPos   = (b.readPos + (n - grow)) % MaxSize,
                      !.writePos  = (b.writePos + n) % MaxSize,
                      !.count     = b.count + grow,
                      !.totalSize = b.totalSize + n,
                      !.waiter    = b.waiter \/ n = 0]
  BY DEF WriteAvailable
<1> HIDE DEF n, grow, r
<1>12. /\ (b.readPos + (n - grow)) % MaxSize \in Slots
       /\ (b.writePos + n) % MaxSize \in Slots
  <2>1. n - grow \in 0 .. MaxSize
    BY <1>1, <1>4, <1>6
  <2>2. QED BY <1>1, <1>4, <2>1, WrapSlot
<1>13. /\ r.buf = Stored(b, data, n)
       /\ r.readPos = (b.readPos + (n - grow)) % MaxSize
       /\ r.writePos = (b.writePos + n) % MaxSize
       /\ r.count = b.count + grow /\ r.totalSize = b.totalSize + n
       /\ r.syncMode = b.syncMode /\ r.windowSize = b.windowSize
       /\ r.waiter = (b.waiter \/ n = 0)
  BY <1>11 DEF CirBufs
<1>14. r \in CirBufs
  <2>1. b.count + grow \in 0 .. MaxSize /\ b.totalSize + n \in Nat
    BY <1>1, <1>4, <1>6
  <2>2. (b.waiter \/ n = 0) \in BOOLEAN
    OBVIOUS
  <2>3. QED BY <1>5, <1>11, <1>12, <2>1, <2>2 DEF CirBufs
<1>15. /\ RingHolds(r) /\ r.count <= r.totalSize
       /\ r.writePos = (r.readPos + r.count) % MaxSize
  <2>1. /\ n \in 0 .. MaxSize /\ grow \in 0 .. n /\ b.count + grow <= MaxSize
    BY <1>1, <1>4, <1>6
  <2>2. r.buf = [j \in Slots |->
                   IF SlotDistance(b, j) < n THEN b.totalSize + SlotDistance(b, j)
                                              ELSE b.buf[j]]
    BY <1>5, <1>13, Zenon
  <2>3. /\ r.readPos = (b.readPos + (n - grow)) % MaxSize
        /\ r.writePos = (b.writePos + n) % MaxSize
        /\ r.count = b.count + grow /\ r.totalSize = b.totalSize + n
    BY <1>13, Zenon
  <2>4. QED BY <1>8, <1>14, <2>1, <2>2, <2>3, StoreOK, Zenon
<1>16. PositionsAgree(r) /\ WaiterOnlyWhenFull(r)
  BY <1>1, <1>6, <1>9, <1>10, <1>13, <1>15 DEF PositionsAgree, WaiterOnlyWhenFull
<1>17. /\ r.count >= b.count
       /\ b.syncMode => r.count = b.count + n
  BY <1>1, <1>6, <1>7, <1>13
<1>18. QED
  BY <1>4, <1>13, <1>14, <1>15, <1>16, <1>17 DEF CirBufOK, r, n
-----------------------------------------------------------------------------
(* The stream manager.                                                       *)

\* The window given to the buffer is a number of bytes.
LEMMA EffectiveWindowOK ==
  ASSUME NEW rwnd \in Nat
  PROVE  /\ EffectiveWindow(rwnd) \in Nat
         /\ EffectiveWindow(rwnd) <= CwndSize
         /\ EffectiveWindow(rwnd) <= rwnd
  BY StreamAssumption DEF EffectiveWindow, Least

\* The bytes a WriteAvailable did not take are the next ones.
LEMMA RestOK ==
  ASSUME NEW s \in Seq(Nat), NEW n \in 0 .. Len(s)
  PROVE  /\ SubSeq(s, n + 1, Len(s)) \in Seq(Nat)
         /\ Len(SubSeq(s, n + 1, Len(s))) = Len(s) - n
         /\ \A k \in 1 .. Len(s) - n : SubSeq(s, n + 1, Len(s))[k] = s[n + k]
<1>1. n \in Nat /\ Len(s) \in Nat /\ n <= Len(s)
  OBVIOUS
<1>2. CASE n = Len(s)
  BY <1>1, <1>2
<1>3. CASE n < Len(s)
  BY <1>1, <1>3
<1>4. QED BY <1>1, <1>2, <1>3

LEMMA BaseInit == Init => BaseInv
<1> SUFFICES ASSUME Init PROVE BaseInv
  OBVIOUS
<1>1. cb \in CirBufs /\ CirBufOK(cb) /\ cb.count \in Nat
  BY MakeCirBufOK, CirBufFields DEF Init, SMInit
<1>2. CwndSize \in Nat /\ MaxPacketSize \in Nat
  BY StreamAssumption, MaxSizeAssumption
<1>3. NoPacket \in Packets /\ << >> \in Seq(Nat) /\ << >> \in Seq(Packets)
  BY DEF NoPacket, Packets
<1>4. NoConnect \in Connects
  BY DEF NoConnect, Connects
<1>5. TypeOK
  BY <1>1, <1>2, <1>3, <1>4
     DEF Init, SMInit, TypeOK, ClientTypes, LoopTypes, HistoryTypes
<1>6. ChunkOK
  BY <1>2 DEF Init, SMInit, ChunkOK
<1>7. EndOK /\ HandlerOK /\ ModeFollowsClient
  BY DEF Init, SMInit, EndOK, HandlerOK, ModeFollowsClient, NoConnect
<1>8. QED BY <1>1, <1>5, <1>6, <1>7 DEF BaseInv, BufferOK

\* The steps that leave the buffer alone.
LEMMA BaseQuiet ==
  ASSUME BaseInv, cb' = cb,
         \/ (AttachReader \/ CheckClosed \/ SignalWritten \/ Unpark \/ HandleEnd)
              /\ UNCHANGED envVars
         \/ (SenderReturns \/ SenderWaits) /\ UNCHANGED envVars
         \/ Send \/ Connect
         \/ (PrepareTerminal \/ RereadHead \/ Close) /\ UNCHANGED envVars
  PROVE  BaseInv'
<1>1. CASE AttachReader /\ UNCHANGED envVars
  BY <1>1 DEF BaseInv, TypeOK, ClientTypes, LoopTypes, HistoryTypes, BufferOK, ChunkOK,
     EndOK, HandlerOK, ModeFollowsClient, AttachReader, envVars, clientVars, terminalVars,
     senderVars
<1>2. CASE CheckClosed /\ UNCHANGED envVars
  BY <1>2 DEF BaseInv, TypeOK, ClientTypes, LoopTypes, HistoryTypes, BufferOK, ChunkOK,
     EndOK, HandlerOK, ModeFollowsClient, CheckClosed, envVars, clientVars, terminalVars,
     senderVars
<1>3. CASE SignalWritten /\ UNCHANGED envVars
  <2>1. /\ chunk # << >> => Len(chunk) > 0
        /\ chunk = << >> => Len(chunk) = 0
    BY DEF BaseInv, TypeOK, LoopTypes
  <2>2. \/ chunk # << >> /\ readPc' = "writing"
        \/ chunk = << >> /\ ptyEnd # "open" /\ readPc' = "ending"
        \/ chunk = << >> /\ readPc' = "checking"
    BY <1>3 DEF SignalWritten
  <2>3. readPc' \in {"writing", "ending", "checking"}
    BY <2>2
  <2>4. ChunkOK'
    BY <1>3, <2>1, <2>2 DEF BaseInv, ChunkOK, SignalWritten
  <2>5. QED
    BY <1>3, <2>3, <2>4 DEF BaseInv, TypeOK, ClientTypes, LoopTypes, HistoryTypes, BufferOK,
     EndOK, HandlerOK, ModeFollowsClient, SignalWritten, Signal, envVars, clientVars,
     terminalVars
<1>4. CASE Unpark /\ UNCHANGED envVars
  BY <1>4 DEF BaseInv, TypeOK, ClientTypes, LoopTypes, HistoryTypes, BufferOK, ChunkOK,
     EndOK, HandlerOK, ModeFollowsClient, Unpark, envVars, clientVars, terminalVars, senderVars
<1>5. CASE HandleEnd /\ UNCHANGED envVars
  <2>1. cb.totalSize \in Nat
    BY CirBufFields DEF BaseInv, TypeOK, BufferOK
  <2>2. QED
    BY <1>5, <2>1 DEF BaseInv, TypeOK, ClientTypes, LoopTypes, HistoryTypes, BufferOK,
       ChunkOK, EndOK, HandlerOK, ModeFollowsClient, HandleEnd, Signal, envVars, clientVars
<1>6. CASE (SenderReturns \/ SenderWaits) /\ UNCHANGED envVars
  BY <1>6 DEF BaseInv, TypeOK, ClientTypes, LoopTypes, HistoryTypes, BufferOK, ChunkOK,
     EndOK, HandlerOK, ModeFollowsClient, SenderReturns, SenderWaits, envVars, clientVars,
     terminalVars, readerVars
<1>7. CASE Send
  <2>1. packet \in Packets /\ NoPacket \in Packets
    BY DEF BaseInv, TypeOK, LoopTypes, NoPacket, Packets
  <2>2. End(packet) \in Nat
    BY <2>1 DEF End, Packets
  <2>3. Append(sent, packet) \in Seq(Packets)
    BY <2>1 DEF BaseInv, TypeOK, HistoryTypes
  <2>4. HistoryTypes'
    BY <1>7, <2>2, <2>3 DEF BaseInv, TypeOK, HistoryTypes, Send
  <2>5. QED
    BY <1>7, <2>1, <2>4 DEF BaseInv, TypeOK, ClientTypes, LoopTypes, BufferOK, ChunkOK,
       EndOK, HandlerOK, ModeFollowsClient, Send, SendData, clientVars, terminalVars, readerVars
<1>8. CASE Connect
  <2>1. PICK id \in StreamIds \ usedIds, rwnd \in RwndSizes, seq \in 0 .. reached :
          /\ ClientConnected(id, rwnd, seq)
          /\ usedIds' = usedIds \cup {id}
          /\ UNCHANGED <<sent, positions, startSeq, reached>>
    BY <1>8 DEF Connect
  <2>2. rwnd \in Nat /\ seq \in Nat /\ HeadPos(cb) \in Nat
    BY StreamAssumption, CirBufFields DEF BaseInv, TypeOK, BufferOK, HistoryTypes
  <2>3. connecting' \in Connects
    BY <2>1, <2>2 DEF ClientConnected, Connects
  <2>4. HandlerOK'
    BY <2>1 DEF ClientConnected, HandlerOK
  <2>5. QED
    BY <2>1, <2>3, <2>4 DEF BaseInv, TypeOK, ClientTypes, LoopTypes, HistoryTypes,
       BufferOK, ChunkOK, EndOK, ModeFollowsClient, ClientConnected, terminalVars, readerVars,
       senderVars
<1>9. CASE PrepareTerminal /\ UNCHANGED envVars
  <2>1. eofPos \in Nat
    BY <1>9, CirBufFields DEF PrepareTerminal, TerminalToSend, BaseInv, TypeOK, BufferOK,
       EndOK
  <2>2. packet' \in Packets
    BY <1>9, <2>1 DEF PrepareTerminal, Packets, BaseInv, TypeOK, ClientTypes
  <2>3. QED
    BY <1>9, <2>2 DEF BaseInv, TypeOK, ClientTypes, LoopTypes, HistoryTypes, BufferOK,
       ChunkOK, EndOK, HandlerOK, ModeFollowsClient, PrepareTerminal, envVars, clientVars,
       terminalVars, readerVars
<1>10. CASE RereadHead /\ UNCHANGED envVars
  <2>1. HeadPos(cb) \in Nat
    BY CirBufFields DEF BaseInv, TypeOK, BufferOK
  <2>2. connecting' \in Connects /\ HandlerOK'
    BY <1>10, <2>1 DEF BaseInv, TypeOK, ClientTypes, Connects, HandlerOK, RereadHead
  <2>3. QED
    BY <1>10, <2>2 DEF BaseInv, TypeOK, ClientTypes, LoopTypes, HistoryTypes, BufferOK,
       ChunkOK, EndOK, ModeFollowsClient, RereadHead, envVars, terminalVars, readerVars,
       senderVars
<1>11. CASE Close /\ UNCHANGED envVars
  BY <1>11 DEF BaseInv, TypeOK, ClientTypes, LoopTypes, HistoryTypes, BufferOK, ChunkOK,
     EndOK, HandlerOK, ModeFollowsClient, Close, Signal, envVars, clientVars,
     terminalVars, readerVars
<1>12. QED
  BY <1>1, <1>2, <1>3, <1>4, <1>5, <1>6, <1>7, <1>8, <1>9, <1>10, <1>11

LEMMA BaseReadPty ==
  ASSUME BaseInv, ReadPty, UNCHANGED envVars
  PROVE  BaseInv'
<1>1. PICK n \in 0 .. MaxPacketSize, end \in {"open", "eof", "error"} :
        /\ n > 0 \/ end # "open"
        /\ chunk'  = [i \in 1 .. n |-> cb.totalSize + i - 1]
        /\ ptyEnd' = end
        /\ readPc' = IF n > 0 THEN "writing" ELSE "ending"
  BY DEF ReadPty
<1>2. cb.totalSize \in Nat /\ MaxPacketSize \in Nat
  BY CirBufFields, StreamAssumption, MaxSizeAssumption DEF BaseInv, TypeOK, BufferOK
<1>3. chunk' \in Seq(Nat) /\ Len(chunk') = n
  BY <1>1, <1>2
<1>4. cb' = cb /\ readPc = "reading"
  BY DEF ReadPty
<1>5. ChunkOK'
  BY <1>1, <1>2, <1>3, <1>4 DEF ChunkOK
<1>6. QED
  BY <1>1, <1>3, <1>4, <1>5 DEF BaseInv, TypeOK, ClientTypes, LoopTypes, HistoryTypes,
     BufferOK, EndOK, HandlerOK, ModeFollowsClient, ReadPty, envVars, clientVars,
     terminalVars, senderVars

LEMMA BaseWriteChunk ==
  ASSUME BaseInv, WriteChunk, UNCHANGED envVars
  PROVE  BaseInv' /\ (cb.syncMode => HeadPos(cb') = HeadPos(cb))
<1> DEFINE n == Writable(cb, Len(chunk))
<1>1. /\ cb \in CirBufs /\ CirBufOK(cb) /\ cb.totalSize \in Nat /\ cb.count \in Nat
      /\ cb.syncMode \in BOOLEAN
  BY CirBufFields DEF BaseInv, TypeOK, BufferOK
<1>2. /\ chunk \in Seq(Nat) /\ Len(chunk) \in 1 .. MaxSize
      /\ \A k \in 1 .. Len(chunk) : chunk[k] = cb.totalSize + k - 1
  BY StreamAssumption, MaxSizeAssumption
     DEF WriteChunk, BaseInv, TypeOK, LoopTypes, ChunkOK
<1>3. /\ readPc = "writing" /\ cb' = WriteAvailable(cb, chunk)
      /\ chunk' = SubSeq(chunk, n + 1, Len(chunk))
      /\ readPc' = IF n > 0 THEN "signalling" ELSE "parked"
      /\ UNCHANGED <<clientVars, terminalVars, terminalEventSent, closed, ptyEnd, senderVars>>
  BY DEF WriteChunk
<1>4. /\ cb' \in CirBufs /\ CirBufOK(cb') /\ n \in 0 .. Len(chunk)
      /\ cb'.totalSize = cb.totalSize + n /\ cb'.syncMode = cb.syncMode
      /\ cb'.count >= cb.count
      /\ cb.syncMode => cb'.count = cb.count + n
  BY <1>1, <1>2, <1>3, WriteAvailableOK
<1>5. /\ chunk' \in Seq(Nat) /\ Len(chunk') = Len(chunk) - n
      /\ \A k \in 1 .. Len(chunk) - n : chunk'[k] = chunk[n + k]
  BY <1>2, <1>3, <1>4, RestOK
<1> HIDE DEF n
<1>6. n \in Nat /\ n <= Len(chunk) /\ Len(chunk) \in Nat
  BY <1>2, <1>4
<1>7. ASSUME NEW k \in 1 .. Len(chunk') PROVE chunk'[k] = cb'.totalSize + k - 1
  <2>1. chunk'[k] = chunk[n + k] /\ n + k \in 1 .. Len(chunk)
    BY <1>5, <1>6
  <2>2. chunk[n + k] = cb.totalSize + (n + k) - 1
    BY <1>2, <2>1
  <2>3. QED BY <1>1, <1>4, <1>5, <1>6, <2>1, <2>2
<1>8. ChunkOK'
  <2>1. Len(chunk') <= MaxPacketSize
    BY <1>5, <1>6, StreamAssumption, MaxSizeAssumption DEF BaseInv, ChunkOK
  <2>2. readPc' = "signalling" \/ (readPc' = "parked" /\ Len(chunk') > 0)
    BY <1>2, <1>3, <1>5, <1>6
  <2>3. QED BY <1>7, <2>1, <2>2 DEF ChunkOK
<1>9. ModeFollowsClient'
  <2>1. connected => sentNotAcked \in Nat /\ sentNotAcked <= cb'.count
    BY <1>1, <1>4, CirBufFields
       DEF BaseInv, ModeFollowsClient, TypeOK, ClientTypes
  <2>2. QED
    BY <1>3, <1>4, <2>1 DEF BaseInv, ModeFollowsClient, clientVars
<1>10. EndOK'
  BY <1>3 DEF BaseInv, EndOK, terminalVars
<1>11. HandlerOK'
  BY <1>3 DEF BaseInv, HandlerOK, clientVars
<1>12. TypeOK'
  BY <1>3, <1>4, <1>5 DEF BaseInv, TypeOK, ClientTypes, LoopTypes, HistoryTypes, envVars,
     clientVars, terminalVars, senderVars
<1>13. cb.syncMode => HeadPos(cb') = HeadPos(cb)
  BY <1>1, <1>4, <1>6 DEF HeadPos
<1>14. QED
  BY <1>4, <1>8, <1>9, <1>10, <1>11, <1>12, <1>13 DEF BaseInv, BufferOK

LEMMA BasePrepareData ==
  ASSUME BaseInv, PrepareData, UNCHANGED envVars
  PROVE  /\ BaseInv'
         /\ packet'.id = streamId /\ packet'.seq = HeadPos(cb) + sentNotAcked
         /\ packet'.end = "none" /\ Len(packet'.data) \in Nat \ {0}
         /\ \A k \in 1 .. Len(packet'.data) :
              packet'.data[k] = packet'.seq + k - 1
         /\ sentNotAcked' = sentNotAcked + Len(packet'.data)
         /\ sentNotAcked' <= CwndSize
<1> DEFINE room == EffectiveWindow(rwndSize) - sentNotAcked
           len  == Least(room, MaxPacketSize)
           data == PeekDataAt(cb, sentNotAcked, len)
<1>1. /\ cb \in CirBufs /\ CirBufOK(cb) /\ HeadPos(cb) \in Nat /\ cb.count \in Nat
      /\ sentNotAcked \in Nat /\ rwndSize \in Nat /\ connected
      /\ streamId \in StreamIds \cup {NoStream}
      /\ sentNotAcked < cb.count
  BY CirBufFields
     DEF PrepareData, DataToSend, BaseInv, TypeOK, ClientTypes, BufferOK
<1>2. /\ EffectiveWindow(rwndSize) \in Nat /\ EffectiveWindow(rwndSize) <= CwndSize
      /\ EffectiveWindow(rwndSize) > sentNotAcked
      /\ CwndSize \in Nat /\ MaxPacketSize \in Nat \ {0}
  BY <1>1, EffectiveWindowOK, StreamAssumption, MaxSizeAssumption
     DEF PrepareData, DataToSend
<1>3. len \in Nat /\ len > 0 /\ len <= room
  BY <1>1, <1>2 DEF Least
<1> HIDE DEF len
<1>4. /\ data \in Seq(Nat) /\ Len(data) \in Nat /\ Len(data) <= len /\ Len(data) > 0
      /\ sentNotAcked + Len(data) <= cb.count
      /\ \A k \in 1 .. Len(data) : data[k] = HeadPos(cb) + sentNotAcked + k - 1
  BY <1>1, <1>3, PeekDataAtOK
<1>5. /\ packet' = [id |-> streamId, seq |-> HeadPos(cb) + sentNotAcked, data |-> data,
                    end |-> "none"]
      /\ sentNotAcked' = sentNotAcked + Len(data) /\ sendPc' = "sending"
      /\ UNCHANGED <<cb, rwndSize, connected, streamId, maxAckedSeq, maxAckedRwnd,
                     terminalEventAcked, connecting, terminalVars, terminalEventSent,
                     closed, readerVars>>
  BY DEF PrepareData, len
<1> HIDE DEF data
<1>6. packet' \in Packets
  BY <1>1, <1>4, <1>5 DEF Packets
<1>7. sentNotAcked' \in Nat /\ sentNotAcked' <= cb.count /\ sentNotAcked' <= CwndSize
  BY <1>1, <1>2, <1>3, <1>4, <1>5
<1>8. BaseInv'
  BY <1>5, <1>6, <1>7 DEF BaseInv, TypeOK, ClientTypes, LoopTypes, HistoryTypes, BufferOK,
     ChunkOK, EndOK, HandlerOK, ModeFollowsClient, envVars, terminalVars, readerVars
<1>9. QED BY <1>1, <1>4, <1>5, <1>7, <1>8

\* The read loop does not notice what a handler does to the buffer's other end.
LEMMA ReaderKept ==
  ASSUME BaseInv, cb'.totalSize = cb.totalSize,
         UNCHANGED <<readerVars, terminalVars>>
  PROVE  ChunkOK' /\ EndOK'
  BY DEF BaseInv, ChunkOK, EndOK, readerVars, terminalVars

LEMMA BaseConsumeClientSeq ==
  ASSUME BaseInv, ConsumeClientSeq, UNCHANGED envVars
  PROVE  BaseInv'
<1> DEFINE n == connecting.clientSeq - connecting.head
<1>1. /\ cb \in CirBufs /\ CirBufOK(cb) /\ cb.count \in Nat
      /\ connecting \in Connects /\ connecting.step = "consuming" /\ ~connected
      /\ connecting.clientSeq \in Nat /\ connecting.head \in Nat
      /\ connecting.clientSeq > connecting.head
  BY CirBufFields
     DEF ConsumeClientSeq, BaseInv, TypeOK, ClientTypes, BufferOK, HandlerOK, Connects
<1>2. /\ UNCHANGED <<rwndSize, connected, streamId, sentNotAcked, maxAckedSeq,
                     maxAckedRwnd, terminalEventAcked, terminalVars, terminalEventSent,
                     closed, readerVars, senderVars>>
      /\ \/ n > cb.count /\ connecting' = NoConnect /\ cb' = cb
         \/ /\ ~(n > cb.count) /\ cb' = Consume(cb, n)
            /\ connecting' = [connecting EXCEPT !.step = "rereading"]
  BY DEF ConsumeClientSeq
<1>3. n \in Nat
  BY <1>1
<1> HIDE DEF n
<1>4. /\ cb' \in CirBufs /\ CirBufOK(cb')
      /\ cb'.totalSize = cb.totalSize /\ cb'.syncMode = cb.syncMode
  <2>1. CASE n > cb.count
    BY <1>1, <1>2, <2>1
  <2>2. CASE ~(n > cb.count)
    <3>1. n \in 0 .. cb.count
      BY <1>1, <1>3, <2>2
    <3>2. QED BY <1>1, <1>2, <2>2, <3>1, ConsumeOK
  <2>3. QED BY <2>1, <2>2
<1>5. connecting' \in Connects /\ HandlerOK'
  <2>1. NoConnect \in Connects /\ NoConnect.step = "none"
    BY DEF NoConnect, Connects
  <2>2. CASE connecting' = NoConnect
    BY <2>1, <2>2 DEF HandlerOK
  <2>3. CASE connecting' = [connecting EXCEPT !.step = "rereading"]
    BY <1>1, <1>2, <2>3 DEF HandlerOK, Connects
  <2>4. QED BY <1>2, <2>2, <2>3
<1>6. ChunkOK' /\ EndOK'
  BY <1>2, <1>4, ReaderKept
<1>7. QED
  BY <1>1, <1>2, <1>4, <1>5, <1>6 DEF BaseInv, TypeOK, ClientTypes, LoopTypes,
     HistoryTypes, BufferOK, ModeFollowsClient, envVars, terminalVars, readerVars,
     senderVars

LEMMA BaseOpened ==
  ASSUME BaseInv, Opened
  PROVE  BaseInv'
<1>1. /\ cb \in CirBufs /\ CirBufOK(cb) /\ cb.count \in Nat
      /\ connecting \in Connects /\ connecting.rwnd \in Nat
      /\ connecting.id \in StreamIds \cup {NoStream}
      /\ connecting.clientSeq \in Nat /\ connecting.head \in Nat
  BY CirBufFields DEF BaseInv, TypeOK, ClientTypes, BufferOK, Connects
<1>2. EffectiveWindow(connecting.rwnd) \in Nat
  BY <1>1, EffectiveWindowOK
<1>3. cb' = SetEffectiveWindow(cb, TRUE, EffectiveWindow(connecting.rwnd))
  BY DEF Opened, OpenClient
<1>4. /\ cb' \in CirBufs /\ CirBufOK(cb') /\ cb'.totalSize = cb.totalSize
      /\ cb'.syncMode = TRUE /\ cb'.count \in Nat
  BY <1>1, <1>2, <1>3, SetEffectiveWindowOK, CirBufFields
<1>5. NoConnect \in Connects /\ NoConnect.step = "none"
  BY DEF NoConnect, Connects
<1>6. ChunkOK' /\ EndOK'
  BY <1>4, ReaderKept DEF Opened, OpenClient
<1>7. HistoryTypes'
  BY <1>1 DEF Opened, StartSeq, BaseInv, TypeOK, HistoryTypes
<1>8. HandlerOK' /\ ModeFollowsClient'
  <2>1. /\ connecting' = NoConnect /\ connected' = TRUE /\ sentNotAcked' = 0
    BY DEF Opened, OpenClient
  <2>2. HandlerOK'
    BY <1>5, <2>1 DEF HandlerOK
  <2>3. 0 <= cb'.count
    BY <1>4
  <2>4. QED BY <1>4, <2>1, <2>2, <2>3 DEF ModeFollowsClient
<1>9. ClientTypes'
  BY <1>1, <1>5 DEF BaseInv, TypeOK, ClientTypes, Opened, OpenClient, terminalVars
<1>10. LoopTypes'
  BY DEF BaseInv, TypeOK, LoopTypes, Opened, OpenClient, Signal, readerVars
<1>11. QED
  BY <1>4, <1>6, <1>7, <1>8, <1>9, <1>10 DEF BaseInv, TypeOK, BufferOK

LEMMA BaseClientDisconnected ==
  ASSUME BaseInv, ClientDisconnected, UNCHANGED envVars
  PROVE  BaseInv'
<1>1. cb \in CirBufs /\ CirBufOK(cb) /\ MaxSize \in Nat
  BY MaxSizeAssumption DEF BaseInv, TypeOK, BufferOK
<1>2. /\ cb' \in CirBufs /\ CirBufOK(cb') /\ cb'.totalSize = cb.totalSize
      /\ cb'.syncMode = FALSE
  BY <1>1, SetEffectiveWindowOK DEF ClientDisconnected
<1>3. ChunkOK' /\ EndOK'
  BY <1>2, ReaderKept DEF ClientDisconnected
<1>4. HandlerOK' /\ ModeFollowsClient'
  BY <1>2 DEF ClientDisconnected, LockFree, HandlerOK, ModeFollowsClient
<1>5. QED
  BY <1>2, <1>3, <1>4 DEF BaseInv, TypeOK, ClientTypes, LoopTypes, HistoryTypes, BufferOK,
     ClientDisconnected, Signal, envVars, terminalVars, readerVars

LEMMA BaseSetRwndSize ==
  ASSUME BaseInv, NEW rwnd \in RwndSizes, SetRwndSize(rwnd), UNCHANGED envVars
  PROVE  BaseInv' /\ cb'.count = cb.count /\ cb'.totalSize = cb.totalSize
<1>1. cb \in CirBufs /\ CirBufOK(cb) /\ rwnd \in Nat
  BY StreamAssumption DEF BaseInv, TypeOK, BufferOK
<1>2. EffectiveWindow(rwnd) \in Nat
  BY <1>1, EffectiveWindowOK
<1>3. /\ cb' \in CirBufs /\ CirBufOK(cb') /\ cb'.totalSize = cb.totalSize
      /\ cb'.syncMode = TRUE /\ cb'.count = cb.count
  BY <1>1, <1>2, SetEffectiveWindowOK DEF SetRwndSize
<1>4. ChunkOK' /\ EndOK'
  BY <1>3, ReaderKept DEF SetRwndSize
<1>5. HandlerOK' /\ ModeFollowsClient'
  BY <1>3 DEF SetRwndSize, LockFree, HandlerOK, ModeFollowsClient, BaseInv
<1>6. TypeOK'
  BY <1>1, <1>3 DEF BaseInv, TypeOK, ClientTypes, LoopTypes, HistoryTypes, SetRwndSize,
     Signal, envVars, terminalVars, readerVars
<1>7. QED BY <1>3, <1>4, <1>5, <1>6 DEF BaseInv, BufferOK

\* An accepted ack takes exactly the acknowledged bytes off the head.
LEMMA RecvDataAckEffect ==
  ASSUME BaseInv, NEW ack, ack.seq \in Nat, ack.rwnd \in Nat, RecvDataAck(ack)
  PROVE  /\ cb' \in CirBufs /\ CirBufOK(cb') /\ cb'.totalSize = cb.totalSize
         /\ cb'.syncMode = TRUE
         /\ sentNotAcked' \in Nat /\ sentNotAcked' <= cb'.count
         /\ HeadPos(cb') = ack.seq
         /\ HeadPos(cb') + sentNotAcked' = HeadPos(cb) + sentNotAcked
         /\ sentNotAcked' <= sentNotAcked
         /\ cb'.count = cb.count - (ack.seq - HeadPos(cb))
<1> DEFINE acked == ack.seq - HeadPos(cb)
           c     == IF acked > 0 THEN Consume(cb, acked) ELSE cb
<1>1. /\ cb \in CirBufs /\ CirBufOK(cb) /\ cb.count \in Nat /\ cb.totalSize \in Nat
      /\ HeadPos(cb) \in Nat /\ sentNotAcked \in Nat /\ sentNotAcked <= cb.count
      /\ HeadPos(cb) = cb.totalSize - cb.count
  BY CirBufFields DEF RecvDataAck, BaseInv, TypeOK, ClientTypes, BufferOK,
     ModeFollowsClient, HeadPos
<1>2. /\ acked \in 0 .. Least(sentNotAcked, cb.count)
      /\ cb' = SetEffectiveWindow(c, TRUE, EffectiveWindow(ack.rwnd))
      /\ sentNotAcked' = sentNotAcked - acked
  BY DEF RecvDataAck
<1>3. acked \in Nat /\ acked <= sentNotAcked /\ acked \in 0 .. cb.count
  BY <1>1, <1>2 DEF Least
<1> HIDE DEF acked
<1>4. /\ c \in CirBufs /\ CirBufOK(c) /\ c.count = cb.count - acked
      /\ c.totalSize = cb.totalSize
  <2>1. CASE acked > 0
    BY <1>1, <1>3, <2>1, ConsumeOK
  <2>2. CASE acked = 0
    BY <1>1, <2>2
  <2>3. QED BY <1>3, <2>1, <2>2
<1> HIDE DEF c
<1>5. EffectiveWindow(ack.rwnd) \in Nat
  BY EffectiveWindowOK
<1>6. /\ cb' \in CirBufs /\ CirBufOK(cb') /\ cb'.syncMode = TRUE
      /\ cb'.totalSize = c.totalSize /\ cb'.count = c.count
  BY <1>2, <1>4, <1>5, SetEffectiveWindowOK
<1>7. /\ HeadPos(cb') = cb.totalSize - (cb.count - acked)
      /\ acked = ack.seq - HeadPos(cb)
  BY <1>4, <1>6 DEF HeadPos, acked
<1>8. cb'.count = cb.count - acked /\ cb'.totalSize = cb.totalSize
  BY <1>4, <1>6
<1>9. HeadPos(cb') = ack.seq
  BY <1>1, <1>3, <1>7
<1>10. HeadPos(cb') = HeadPos(cb) + acked /\ sentNotAcked' = sentNotAcked - acked
  <2>1. sentNotAcked' = sentNotAcked - acked
    BY <1>2
  <2>2. HeadPos(cb') = cb.totalSize - (cb.count - acked)
    BY <1>7
  <2>3. HeadPos(cb') = HeadPos(cb) + acked
    BY <1>1, <1>3, <2>2
  <2>4. QED BY <2>1, <2>3
<1>11. HeadPos(cb') + sentNotAcked' = HeadPos(cb) + sentNotAcked
  BY <1>1, <1>3, <1>10
<1>12. sentNotAcked' \in Nat /\ sentNotAcked' <= cb'.count /\ sentNotAcked' <= sentNotAcked
  BY <1>1, <1>3, <1>8, <1>10
<1>13. QED BY <1>6, <1>7, <1>8, <1>9, <1>11, <1>12

LEMMA BaseRecvAck ==
  ASSUME BaseInv, NEW ack, ack.seq \in Nat, ack.rwnd \in Nat, UNCHANGED envVars,
         RecvFinAck(ack) \/ RecvOddAck(ack) \/ RecvDataAck(ack)
  PROVE  BaseInv'
<1>1. CASE RecvFinAck(ack)
  BY <1>1 DEF BaseInv, TypeOK, ClientTypes, LoopTypes, HistoryTypes, BufferOK, ChunkOK,
     EndOK, HandlerOK, ModeFollowsClient, RecvFinAck, Signal, envVars, terminalVars,
     readerVars
<1>2. CASE RecvOddAck(ack)
  BY <1>2 DEF BaseInv, TypeOK, ClientTypes, LoopTypes, HistoryTypes, BufferOK, ChunkOK,
     EndOK, HandlerOK, ModeFollowsClient, RecvOddAck, envVars, terminalVars, readerVars,
     senderVars
<1>3. CASE RecvDataAck(ack)
  <2>1. /\ cb \in CirBufs /\ CirBufOK(cb) /\ cb'.totalSize = cb.totalSize
        /\ sentNotAcked' \in Nat /\ sentNotAcked' <= cb'.count
        /\ cb' \in CirBufs /\ CirBufOK(cb') /\ cb'.syncMode = TRUE
    BY <1>3, RecvDataAckEffect DEF BaseInv, TypeOK, BufferOK
  <2>2. ChunkOK' /\ EndOK'
    BY <1>3, <2>1, ReaderKept DEF RecvDataAck
  <2>3. HandlerOK' /\ ModeFollowsClient'
    BY <1>3, <2>1 DEF RecvDataAck, LockFree, HandlerOK, ModeFollowsClient
  <2>4. sendPc' \in {"preparing", "waiting", "sending", "returned"}
    BY <1>3 DEF RecvDataAck, Signal, BaseInv, TypeOK, LoopTypes
  <2>5. TypeOK'
    BY <1>3, <2>1, <2>4 DEF BaseInv, TypeOK, ClientTypes, LoopTypes, HistoryTypes,
       RecvDataAck, envVars, terminalVars, readerVars
  <2>6. QED BY <2>1, <2>2, <2>3, <2>5 DEF BaseInv, BufferOK
<1>4. QED BY <1>1, <1>2, <1>3

LEMMA BaseStep == BaseInv /\ [Next]_vars => BaseInv'
<1> SUFFICES ASSUME BaseInv, [Next]_vars PROVE BaseInv'
  OBVIOUS
<1>1. CASE ReadStep
  <2>1. CASE AttachReader \/ CheckClosed \/ SignalWritten \/ Unpark \/ HandleEnd
    <3>1. cb' = cb /\ UNCHANGED envVars
      BY <1>1, <2>1 DEF ReadStep, AttachReader, CheckClosed, SignalWritten, Unpark,
         HandleEnd
    <3>2. QED BY <2>1, <3>1, BaseQuiet
  <2>2. CASE ReadPty
    BY <1>1, <2>2, BaseReadPty DEF ReadStep
  <2>3. CASE WriteChunk
    BY <1>1, <2>3, BaseWriteChunk DEF ReadStep
  <2>4. QED BY <1>1, <2>1, <2>2, <2>3 DEF ReadStep, ReadLoop
<1>2. CASE SendStep
  <2>1. CASE Send
    <3>1. cb' = cb
      BY <2>1 DEF Send, SendData
    <3>2. QED BY <2>1, <3>1, BaseQuiet
  <2>2. CASE (SenderReturns \/ SenderWaits) /\ UNCHANGED envVars
    <3>1. cb' = cb
      BY <2>2 DEF SenderReturns, SenderWaits
    <3>2. QED BY <2>2, <3>1, BaseQuiet
  <2>3. CASE PrepareData /\ UNCHANGED envVars
    BY <2>3, BasePrepareData
  <2>4. CASE PrepareTerminal /\ UNCHANGED envVars
    <3>1. cb' = cb
      BY <2>4 DEF PrepareTerminal
    <3>2. QED BY <2>4, <3>1, BaseQuiet
  <2>5. QED BY <1>2, <2>1, <2>2, <2>3, <2>4 DEF SendStep
<1>3. CASE ConnectStep
  <2>1. CASE Opened
    BY <2>1, BaseOpened
  <2>2. CASE ConsumeClientSeq /\ UNCHANGED envVars
    BY <2>2, BaseConsumeClientSeq
  <2>3. CASE RereadHead /\ UNCHANGED envVars
    <3>1. cb' = cb
      BY <2>3 DEF RereadHead
    <3>2. QED BY <2>3, <3>1, BaseQuiet
  <2>4. QED BY <1>3, <2>1, <2>2, <2>3 DEF ConnectStep
<1>4. CASE ClientStep
  <2>1. CASE Connect
    <3>1. cb' = cb
      BY <2>1 DEF Connect, ClientConnected
    <3>2. QED BY <2>1, <3>1, BaseQuiet
  <2>2. CASE Acknowledge
    <3>1. PICK seq \in positions, rwnd \in RwndSizes :
            RecvAck([id |-> streamId, seq |-> seq, rwnd |-> rwnd, fin |-> FALSE])
      BY <2>2 DEF Acknowledge
    <3>2. seq \in Nat /\ rwnd \in Nat
      BY StreamAssumption DEF BaseInv, TypeOK, HistoryTypes
    <3> DEFINE ack == [id |-> streamId, seq |-> seq, rwnd |-> rwnd, fin |-> FALSE]
    <3>3. ack.seq \in Nat /\ ack.rwnd \in Nat
      BY <3>2
    <3>4. RecvFinAck(ack) \/ RecvOddAck(ack) \/ RecvDataAck(ack)
      BY <3>1 DEF RecvAck
    <3> HIDE DEF ack
    <3>5. QED BY <2>2, <3>3, <3>4, BaseRecvAck DEF Acknowledge
  <2>3. CASE AcknowledgeEnd
    <3> DEFINE ack == [id |-> streamId, seq |-> 0, rwnd |-> 0, fin |-> TRUE]
    <3>1. ack.seq \in Nat /\ ack.rwnd \in Nat
      OBVIOUS
    <3>2. RecvFinAck(ack) \/ RecvOddAck(ack) \/ RecvDataAck(ack)
      BY <2>3 DEF AcknowledgeEnd, RecvAck
    <3> HIDE DEF ack
    <3>3. QED BY <2>3, <3>1, <3>2, BaseRecvAck DEF AcknowledgeEnd
  <2>4. CASE ClientDisconnected /\ UNCHANGED envVars
    BY <2>4, BaseClientDisconnected
  <2>5. CASE (\E rwnd \in RwndSizes : SetRwndSize(rwnd)) /\ UNCHANGED envVars
    BY <2>5, BaseSetRwndSize
  <2>6. CASE Close /\ UNCHANGED envVars
    <3>1. cb' = cb
      BY <2>6 DEF Close
    <3>2. QED BY <2>6, <3>1, BaseQuiet
  <2>7. QED BY <1>4, <2>1, <2>2, <2>3, <2>4, <2>5, <2>6 DEF ClientStep
<1>5. CASE UNCHANGED vars
  BY <1>5 DEF BaseInv, TypeOK, ClientTypes, LoopTypes, HistoryTypes, BufferOK, ChunkOK,
     EndOK, HandlerOK, ModeFollowsClient, vars, smVars, envVars, clientVars,
     terminalVars, readerVars, senderVars
<1>6. QED BY <1>1, <1>2, <1>3, <1>4, <1>5 DEF Next

(* Every variable keeps its type, the ring holds the newest bytes in order,  *)
(* no writer stays blocked on a buffer with room, and the buffer is          *)
(* synchronous exactly as long as a client is there to empty it: for every   *)
(* buffer size, window, packet size and interleaving of the read loop, the   *)
(* sender loop and the client's calls (streammanager.go).                    *)
THEOREM StreamBufferOK ==
  Spec => [](TypeOK /\ BufferOK /\ ModeFollowsClient)
<1>1. Spec => []BaseInv
  BY BaseInit, BaseStep, PTL DEF Spec
<1>2. BaseInv => TypeOK /\ BufferOK /\ ModeFollowsClient
  BY DEF BaseInv
<1>3. QED BY <1>1, <1>2, PTL
-----------------------------------------------------------------------------
\* An ack that does not wake the sender frees nothing and widens nothing.
LEMMA WakeAck ==
  ASSUME BaseInv, NoLostWakeup, sendPc' = "waiting", readPc' # "signalling",
         NEW ack, ack.seq \in Nat, ack.rwnd \in Nat,
         RecvFinAck(ack) \/ RecvOddAck(ack) \/ RecvDataAck(ack)
  PROVE  ~SomethingToDo'
<1> USE DEF SomethingToDo, Finished, DataToSend, TerminalToSend
<1>1. CASE RecvFinAck(ack)
  BY <1>1 DEF RecvFinAck, Signal
<1>2. CASE RecvOddAck(ack)
  BY <1>2 DEF RecvOddAck, NoLostWakeup, EffectiveWindow, terminalVars, readerVars,
     senderVars
<1>3. CASE RecvDataAck(ack)
  <2> DEFINE acked == ack.seq - HeadPos(cb)
  <2>1. /\ HeadPos(cb) \in Nat /\ cb.count \in Nat /\ rwndSize \in Nat
        /\ sentNotAcked \in Nat /\ sentNotAcked <= cb.count
    BY <1>3, CirBufFields DEF RecvDataAck, BaseInv, TypeOK, ClientTypes, BufferOK,
       ModeFollowsClient
  <2>2. acked \in Nat
    BY <1>3, <2>1 DEF RecvDataAck, Least
  <2>3. ~(ack.rwnd > rwndSize) /\ ~(acked > 0)
    BY <1>3 DEF RecvDataAck, Signal, Unblocks
  <2>4. sentNotAcked' = sentNotAcked - acked /\ rwndSize' = ack.rwnd
    BY <1>3 DEF RecvDataAck
  <2>5. cb'.count = cb.count - acked
    BY <1>3, RecvDataAckEffect
  <2> HIDE DEF acked
  <2>6. acked = 0
    BY <2>2, <2>3
  <2>7. cb'.count = cb.count /\ sentNotAcked' = sentNotAcked
    BY <2>1, <2>4, <2>5, <2>6
  <2>8. /\ EffectiveWindow(rwndSize') <= EffectiveWindow(rwndSize)
        /\ EffectiveWindow(rwndSize') \in Nat /\ EffectiveWindow(rwndSize) \in Nat
    BY <2>1, <2>3, <2>4, StreamAssumption DEF EffectiveWindow, Least
  <2>9. sendPc = "waiting" /\ readPc # "signalling"
    BY <1>3 DEF RecvDataAck, Signal, readerVars
  <2>10. ~closed /\ ~terminalEventAcked /\ connected /\ ~DataToSend /\ ~TerminalToSend
    BY <1>3, <2>9 DEF NoLostWakeup, RecvDataAck
  <2>11. ~(closed' \/ terminalEventAcked')
    BY <1>3, <2>10 DEF RecvDataAck
  <2>12. ~DataToSend'
    BY <2>1, <2>7, <2>8, <2>10 DEF EffectiveWindow
  <2>13. ~TerminalToSend'
    BY <1>3, <2>7, <2>10 DEF RecvDataAck, terminalVars
  <2>14. QED BY <2>11, <2>12, <2>13
<1>4. QED BY <1>1, <1>2, <1>3
-----------------------------------------------------------------------------
\* Every step that gives a sleeping sender something to do wakes it.
LEMMA WakeStep == BaseInv /\ NoLostWakeup /\ [Next]_vars => NoLostWakeup'
<1> SUFFICES ASSUME BaseInv, NoLostWakeup, [Next]_vars,
                    sendPc' = "waiting", readPc' # "signalling"
             PROVE  ~SomethingToDo'
  BY DEF NoLostWakeup
<1> USE DEF SomethingToDo, Finished, DataToSend, TerminalToSend
<1>1. CASE ReadStep
  <2>1. CASE AttachReader \/ CheckClosed \/ Unpark \/ ReadPty
    BY <1>1, <2>1 DEF ReadStep, AttachReader, CheckClosed, Unpark, ReadPty, NoLostWakeup,
       EffectiveWindow, clientVars, terminalVars, senderVars
  <2>2. CASE SignalWritten \/ HandleEnd
    BY <2>2 DEF SignalWritten, HandleEnd, Signal
  <2>3. CASE WriteChunk
    <3> DEFINE n == Writable(cb, Len(chunk))
    <3>1. /\ chunk \in Seq(Nat) /\ Len(chunk) \in 1 .. MaxSize
          /\ \A k \in 1 .. Len(chunk) : chunk[k] = cb.totalSize + k - 1
          /\ cb \in CirBufs /\ CirBufOK(cb) /\ cb.count \in Nat
      BY <2>3, StreamAssumption, MaxSizeAssumption, CirBufFields
         DEF WriteChunk, BaseInv, TypeOK, LoopTypes, ChunkOK, BufferOK
    <3>2. /\ n \in 0 .. Len(chunk) /\ (cb.syncMode => cb'.count = cb.count + n)
      BY <2>3, <3>1, WriteAvailableOK DEF WriteChunk
    <3>3. n = 0
      BY <2>3, <3>2 DEF WriteChunk
    <3> HIDE DEF n
    <3>4. connected => cb'.count = cb.count
      BY <3>1, <3>2, <3>3 DEF BaseInv, ModeFollowsClient
    <3>5. readPc # "signalling"
      BY <2>3 DEF WriteChunk
    <3>6. QED
      BY <2>3, <3>4, <3>5 DEF WriteChunk, NoLostWakeup, EffectiveWindow, clientVars,
         terminalVars, senderVars
  <2>4. QED BY <1>1, <2>1, <2>2, <2>3 DEF ReadStep, ReadLoop
<1>2. CASE SendStep
  <2>1. CASE SenderWaits
    BY <2>1 DEF SenderWaits, EffectiveWindow, clientVars, terminalVars
  <2>2. CASE Send \/ SenderReturns \/ PrepareData \/ PrepareTerminal
    BY <2>2 DEF Send, SendData, SenderReturns, PrepareData, PrepareTerminal
  <2>3. QED BY <1>2, <2>1, <2>2 DEF SendStep
<1>3. CASE ConnectStep
  <2>1. CASE Opened
    BY <2>1 DEF Opened, OpenClient, Signal
  <2>2. CASE ConsumeClientSeq \/ RereadHead
    BY <2>2 DEF ConsumeClientSeq, RereadHead, BaseInv, HandlerOK, NoLostWakeup,
       terminalVars, readerVars, senderVars
  <2>3. QED BY <1>3, <2>1, <2>2 DEF ConnectStep
<1>4. CASE ClientStep
  <2>1. CASE Connect
    BY <2>1 DEF Connect, ClientConnected, NoLostWakeup, EffectiveWindow, terminalVars,
       readerVars, senderVars
  <2>2. CASE Acknowledge
    <3>1. PICK seq \in positions, rwnd \in RwndSizes :
            RecvAck([id |-> streamId, seq |-> seq, rwnd |-> rwnd, fin |-> FALSE])
      BY <2>2 DEF Acknowledge
    <3> DEFINE ack == [id |-> streamId, seq |-> seq, rwnd |-> rwnd, fin |-> FALSE]
    <3>2. ack.seq \in Nat /\ ack.rwnd \in Nat
      BY StreamAssumption DEF BaseInv, TypeOK, HistoryTypes
    <3>3. RecvFinAck(ack) \/ RecvOddAck(ack) \/ RecvDataAck(ack)
      BY <3>1 DEF RecvAck
    <3> HIDE DEF ack
    <3>4. QED BY <3>2, <3>3, WakeAck
  <2>3. CASE AcknowledgeEnd
    BY <2>3 DEF AcknowledgeEnd, RecvAck, RecvFinAck, RecvOddAck, RecvDataAck, Signal
  <2>4. CASE ClientDisconnected \/ Close \/ \E rwnd \in RwndSizes : SetRwndSize(rwnd)
    BY <2>4 DEF ClientDisconnected, Close, SetRwndSize, Signal
  <2>5. QED BY <1>4, <2>1, <2>2, <2>3, <2>4 DEF ClientStep
<1>5. CASE UNCHANGED vars
  BY <1>5 DEF NoLostWakeup, EffectiveWindow, vars, smVars, clientVars, terminalVars,
     readerVars, senderVars
<1>6. QED BY <1>1, <1>2, <1>3, <1>4, <1>5 DEF Next

(* No lost wake-up: whenever the sender loop sleeps on drainCond, either it  *)
(* really has nothing to send and no reason to return, or the read loop has  *)
(* written and is on its way to the Signal of handleReadData                 *)
(* (streammanager.go:190-248, 308-318, 359-407).                             *)
THEOREM SenderIsWoken == Spec => []NoLostWakeup
<1>1. Init => NoLostWakeup
  BY DEF Init, SMInit, NoLostWakeup
<1>2. QED BY <1>1, BaseInit, BaseStep, WakeStep, PTL DEF Spec

\* The head moves only by the client's own ack.
LEMMA HeadStep ==
  ASSUME BaseInv, [Next]_vars, connected, connected'
  PROVE  HeadPos(cb') = HeadPos(cb) \/ HeadPos(cb') \in positions
<1>1. CASE ReadStep
  <2>1. CASE WriteChunk
    BY <1>1, <2>1, BaseWriteChunk DEF ReadStep, BaseInv, ModeFollowsClient
  <2>2. CASE AttachReader \/ CheckClosed \/ Unpark \/ ReadPty \/ SignalWritten \/ HandleEnd
    BY <2>2 DEF AttachReader, CheckClosed, Unpark, ReadPty, SignalWritten, HandleEnd
  <2>3. QED BY <1>1, <2>1, <2>2 DEF ReadStep, ReadLoop
<1>2. CASE SendStep
  BY <1>2 DEF SendStep, Send, SendData, SenderReturns, SenderWaits, PrepareData,
     PrepareTerminal
<1>3. CASE ConnectStep
  BY <1>3 DEF ConnectStep, Opened, OpenClient, ConsumeClientSeq, RereadHead, BaseInv,
     HandlerOK
<1>4. CASE ClientStep
  <2>1. CASE Connect \/ ClientDisconnected \/ Close
    BY <2>1 DEF Connect, ClientConnected, ClientDisconnected, Close
  <2>2. CASE Acknowledge
    <3>1. PICK seq \in positions, rwnd \in RwndSizes :
            RecvAck([id |-> streamId, seq |-> seq, rwnd |-> rwnd, fin |-> FALSE])
      BY <2>2 DEF Acknowledge
    <3> DEFINE ack == [id |-> streamId, seq |-> seq, rwnd |-> rwnd, fin |-> FALSE]
    <3>2. ack.seq \in Nat /\ ack.rwnd \in Nat /\ ack.seq \in positions
      BY StreamAssumption DEF BaseInv, TypeOK, HistoryTypes
    <3>3. RecvFinAck(ack) \/ RecvOddAck(ack) \/ RecvDataAck(ack)
      BY <3>1 DEF RecvAck
    <3> HIDE DEF ack
    <3>4. CASE RecvDataAck(ack)
      BY <3>2, <3>4, RecvDataAckEffect
    <3>5. CASE RecvFinAck(ack) \/ RecvOddAck(ack)
      BY <3>5 DEF RecvFinAck, RecvOddAck
    <3>6. QED BY <3>3, <3>4, <3>5
  <2>3. CASE AcknowledgeEnd
    BY <2>3 DEF AcknowledgeEnd, RecvAck, RecvFinAck, RecvOddAck, RecvDataAck
  <2>4. CASE (\E rwnd \in RwndSizes : SetRwndSize(rwnd)) /\ UNCHANGED envVars
    BY <2>4, BaseSetRwndSize DEF HeadPos
  <2>5. QED BY <1>4, <2>1, <2>2, <2>3, <2>4 DEF ClientStep
<1>5. CASE UNCHANGED vars
  BY <1>5 DEF vars, smVars
<1>6. QED BY <1>1, <1>2, <1>3, <1>4, <1>5 DEF Next

(* As long as a client stays connected no byte leaves the buffer that the    *)
(* client did not report having reached (streammanager.go:190-236,           *)
(* cirbuf.go:70-101).                                                        *)
THEOREM ConnectedDropsNothing == Spec => NothingDroppedWhileConnected
<1>1. BaseInv /\ [Next]_vars =>
        [connected /\ connected' => \/ HeadPos(cb') = HeadPos(cb)
                                    \/ HeadPos(cb') \in positions]_vars
  BY HeadStep
<1>2. QED BY <1>1, BaseInit, BaseStep, PTL DEF Spec, NothingDroppedWhileConnected
-----------------------------------------------------------------------------
\* Steps that neither start nor extend a stream: what is in flight keeps its end,
\* and what has been acknowledged or refused does not come back.
LEMMA RunQuiet ==
  ASSUME RunInv, BaseInv',
         UNCHANGED <<streamId, packet, sent, usedIds>>,
         (sendPc' = "sending") <=> (sendPc = "sending"),
         connecting'.step # "none" =>
           connecting.step # "none" /\ connecting'.id = connecting.id,
         terminalEvent # "none" => UNCHANGED terminalVars,
         connected' => /\ connected
                       /\ HeadPos(cb') + sentNotAcked' = HeadPos(cb) + sentNotAcked
                       /\ sentNotAcked' <= sentNotAcked
                       /\ terminalEventSent' = terminalEventSent
                       /\ terminalEvent # "none" /\ cb.count = 0 => cb'.count = 0
  PROVE  RunInv'
<1>1. IdsOK'
  BY DEF RunInv, IdsOK
<1>2. PacketOK'
  BY DEF RunInv, PacketOK, InHand, Last, End
<1>3. ASSUME NEW p, IsTerminal(p)
      PROVE  /\ p.data = << >> /\ terminalEvent' # "none" /\ p.seq = eofPos'
             /\ connected' => terminalEventSent' /\ cb'.count = 0
  BY <1>3 DEF IsTerminal, terminalVars
<1>4. TerminalOK'
  BY <1>3 DEF RunInv, TerminalOK, InHand, IsTerminal
<1>5. OneRun'
  BY DEF RunInv, OneRun, End
<1>6. InFlightCounted'
  <2>1. ASSUME connected' PROVE sentNotAcked' <= CwndSize
    BY <2>1, StreamAssumption DEF RunInv, InFlightCounted, BaseInv, TypeOK, ClientTypes
  <2>2. ASSUME connected', sent' # << >>, sendPc' # "sending"
        PROVE  End(sent[Len(sent)]) = HeadPos(cb') + sentNotAcked'
    BY <2>2 DEF RunInv, InFlightCounted
  <2>3. QED BY <2>1, <2>2 DEF InFlightCounted, End
<1>7. QED BY <1>1, <1>2, <1>4, <1>5, <1>6 DEF RunInv

\* A stream id that was never used has no packets.
LEMMA RunConnect ==
  ASSUME RunInv, BaseInv', Connect
  PROVE  RunInv'
<1>1. PICK id \in StreamIds \ usedIds, rwnd \in RwndSizes, seq \in 0 .. reached :
        /\ ClientConnected(id, rwnd, seq)
        /\ usedIds' = usedIds \cup {id}
        /\ UNCHANGED <<sent, positions, startSeq, reached>>
  BY DEF Connect
<1>2. /\ ~connected /\ ~connected' /\ connecting.step = "none" /\ connecting'.id = id
      /\ UNCHANGED <<cb, streamId, packet, sendPc, terminalEvent, eofPos,
                     terminalEventSent, sent>>
  BY <1>1 DEF ClientConnected, LockFree, senderVars, terminalVars
<1>3. id \notin {streamId, packet.id}
  <2>1. id # NoStream
    BY StreamAssumption
  <2>2. QED BY <1>1, <2>1 DEF RunInv, IdsOK
<1>4. IdsOK'
  BY <1>1, <1>2, <1>3 DEF RunInv, IdsOK
<1>5. PacketOK' /\ TerminalOK' /\ OneRun' /\ InFlightCounted'
  BY <1>2 DEF RunInv, PacketOK, TerminalOK, IsTerminal, OneRun, InFlightCounted, InHand,
     Last, End
<1>6. QED BY <1>4, <1>5 DEF RunInv

\* A new stream begins empty, whatever packet of the old one is still in hand.
LEMMA RunOpened ==
  ASSUME RunInv, BaseInv', Opened
  PROVE  RunInv'
<1>1. /\ connecting.step = "opening" /\ streamId' = connecting.id /\ connecting' = NoConnect
      /\ sent' = << >> /\ sentNotAcked' = 0
      /\ UNCHANGED <<packet, usedIds, terminalEvent, eofPos, terminalEventSent>>
  BY DEF Opened, OpenClient, terminalVars
<1>2. streamId' # packet.id /\ streamId' \in usedIds
  BY <1>1 DEF RunInv, IdsOK
<1>3. NoConnect.step = "none"
  BY DEF NoConnect
<1>4. IdsOK'
  BY <1>1, <1>2, <1>3 DEF RunInv, IdsOK
<1>5. PacketOK' /\ OneRun'
  BY <1>1, <1>2 DEF RunInv, PacketOK, OneRun, InHand
<1>6. TerminalOK'
  BY <1>1, <1>2 DEF TerminalOK, InHand
<1>7. InFlightCounted'
  BY <1>1, StreamAssumption DEF InFlightCounted
<1>8. QED BY <1>4, <1>5, <1>6, <1>7 DEF RunInv

\* The next packet starts where the last one ended, and none follows the terminal
\* packet.
LEMMA RunPrepareData ==
  ASSUME RunInv, BaseInv', PrepareData, UNCHANGED envVars
  PROVE  RunInv'
<1>1. /\ packet'.id = streamId /\ packet'.seq = HeadPos(cb) + sentNotAcked
      /\ packet'.end = "none" /\ Len(packet'.data) \in Nat \ {0}
      /\ \A k \in 1 .. Len(packet'.data) : packet'.data[k] = packet'.seq + k - 1
      /\ sentNotAcked' = sentNotAcked + Len(packet'.data)
      /\ sentNotAcked' <= CwndSize
  BY BasePrepareData DEF RunInv
<1>2. /\ sendPc = "preparing" /\ sendPc' = "sending" /\ connected
      /\ cb.count > sentNotAcked
      /\ UNCHANGED <<cb, connected, streamId, connecting, terminalEvent, eofPos,
                     terminalEventSent, sent, usedIds>>
  BY DEF PrepareData, DataToSend, envVars, terminalVars
<1>3. /\ HeadPos(cb) \in Nat /\ sentNotAcked \in Nat /\ cb.count \in Nat
      /\ packet' \in Packets
  BY CirBufFields DEF RunInv, BaseInv, TypeOK, BufferOK, ClientTypes, LoopTypes
<1>4. DOMAIN packet'.data = 1 .. Len(packet'.data)
  BY <1>3 DEF Packets
<1>5. IdsOK'
  <2>1. connecting'.step = "none"
    BY <1>2 DEF PrepareData, LockFree
  <2>2. QED BY <1>1, <1>2, <2>1 DEF RunInv, IdsOK
<1>6. PacketOK'
  <2>1. sent # << >> => packet'.seq = End(Last)
    BY <1>1, <1>2 DEF RunInv, InFlightCounted, Last
  <2>2. End(packet') = HeadPos(cb') + sentNotAcked'
    BY <1>1, <1>2, <1>3 DEF End
  <2>3. /\ \A k \in DOMAIN packet'.data : packet'.data[k] = packet'.seq + k - 1
        /\ packet'.id = streamId'
    BY <1>1, <1>2, <1>4
  <2>4. sent' = sent
    BY <1>2
  <2>5. QED BY <2>1, <2>2, <2>3, <2>4 DEF PacketOK, Last, End, InHand
<1>7. ASSUME NEW i \in DOMAIN sent, sent[i].end # "none"
      PROVE  FALSE
  BY <1>2, <1>3, <1>7 DEF RunInv, TerminalOK, IsTerminal
<1>8. TerminalOK'
  BY <1>1, <1>2, <1>7 DEF TerminalOK, InHand
<1>9. OneRun'
  BY <1>2 DEF RunInv, OneRun, End
<1>10. InFlightCounted'
  BY <1>1, <1>2 DEF InFlightCounted
<1>11. QED BY <1>5, <1>6, <1>8, <1>9, <1>10 DEF RunInv

\* The terminal packet is taken only once, when everything is acknowledged, so it
\* stands at the end of what was sent.
LEMMA RunPrepareTerminal ==
  ASSUME RunInv, BaseInv', PrepareTerminal, UNCHANGED envVars
  PROVE  RunInv'
<1>1. /\ packet' = [id |-> streamId, seq |-> eofPos, data |-> << >>, end |-> terminalEvent]
      /\ terminalEventSent' = TRUE /\ ~terminalEventSent /\ cb.count = 0
      /\ terminalEvent # "none" /\ connected
      /\ sendPc = "preparing" /\ sendPc' = "sending" /\ connecting.step = "none"
      /\ UNCHANGED <<cb, connected, streamId, connecting, terminalEvent, eofPos,
                     sentNotAcked, sent, usedIds>>
  BY DEF PrepareTerminal, TerminalToSend, LockFree, envVars, clientVars, terminalVars
<1>2. /\ HeadPos(cb) \in Nat /\ sentNotAcked \in Nat /\ cb.totalSize \in Nat
  BY CirBufFields DEF RunInv, BaseInv, TypeOK, BufferOK, ClientTypes
<1>3. eofPos = HeadPos(cb) + sentNotAcked /\ eofPos \in Nat
  <2>1. eofPos = cb.totalSize /\ sentNotAcked <= 0
    BY <1>1 DEF RunInv, BaseInv, EndOK, ModeFollowsClient
  <2>2. QED BY <1>1, <1>2, <2>1 DEF HeadPos
<1>4. IdsOK'
  BY <1>1 DEF RunInv, IdsOK
<1>5. PacketOK'
  <2>1. sent # << >> => packet'.seq = End(Last)
    BY <1>1, <1>3 DEF RunInv, InFlightCounted, Last
  <2>2. End(packet') = HeadPos(cb') + sentNotAcked'
    BY <1>1, <1>3 DEF End
  <2>3. QED BY <1>1, <2>1, <2>2 DEF PacketOK, Last, End, InHand
<1>6. ASSUME NEW i \in DOMAIN sent, sent[i].end # "none"
      PROVE  FALSE
  BY <1>1, <1>6 DEF RunInv, TerminalOK, IsTerminal
<1>7. TerminalOK'
  BY <1>1, <1>6 DEF TerminalOK, IsTerminal
<1>8. OneRun'
  BY <1>1 DEF RunInv, OneRun, End
<1>9. InFlightCounted'
  BY <1>1 DEF RunInv, InFlightCounted
<1>10. QED BY <1>4, <1>5, <1>7, <1>8, <1>9 DEF RunInv

\* The packet in hand extends its own stream, and no other.
LEMMA RunSend ==
  ASSUME RunInv, BaseInv', Send
  PROVE  RunInv'
<1>1. /\ sendPc = "sending" /\ sendPc' = "preparing" /\ packet' = NoPacket
      /\ sent' = IF packet.id = streamId THEN Append(sent, packet) ELSE sent
      /\ UNCHANGED <<cb, connected, streamId, connecting, terminalEvent, eofPos,
                     terminalEventSent, sentNotAcked, usedIds>>
  BY DEF Send, SendData, clientVars, terminalVars
<1>2. /\ packet \in Packets /\ sent \in Seq(Packets) /\ usedIds \subseteq StreamIds
      /\ Len(sent) \in Nat
  BY DEF RunInv, BaseInv, TypeOK, LoopTypes, HistoryTypes
<1>3. NoPacket.id = NoStream /\ NoPacket.data = << >> /\ NoPacket.end = "none"
  BY DEF NoPacket
<1>4. IdsOK'
  BY <1>1, <1>2, <1>3, StreamAssumption DEF RunInv, IdsOK
<1>5. PacketOK'
  BY <1>1, <1>3 DEF PacketOK, InHand
<1>6. CASE packet.id # streamId
  <2>1. sent = << >> /\ sent' = << >>
    BY <1>1, <1>6 DEF RunInv, PacketOK
  <2>2. TerminalOK' /\ OneRun'
    BY <1>1, <2>1 DEF TerminalOK, InHand, OneRun
  <2>3. InFlightCounted'
    BY <1>1, <2>1 DEF RunInv, InFlightCounted
  <2>4. QED BY <1>4, <1>5, <2>2, <2>3 DEF RunInv
<1>7. CASE packet.id = streamId
  <2>1. /\ sent' = Append(sent, packet) /\ InHand /\ ~InHand'
    BY <1>1, <1>7 DEF InHand
  <2>2. /\ Len(sent') = Len(sent) + 1 /\ DOMAIN sent' = 1 .. Len(sent) + 1
        /\ DOMAIN sent = 1 .. Len(sent)
        /\ sent'[Len(sent) + 1] = packet
        /\ \A i \in 1 .. Len(sent) : sent'[i] = sent[i]
    BY <1>2, <2>1
  <2>3. ASSUME NEW i \in DOMAIN sent'
        PROVE  /\ \A k \in DOMAIN sent'[i].data : sent'[i].data[k] = sent'[i].seq + k - 1
               /\ i > 1 => sent'[i].seq = End(sent'[i - 1])
    <3>1. CASE i = Len(sent) + 1
      <4>1. \A k \in DOMAIN packet.data : packet.data[k] = packet.seq + k - 1
        BY DEF RunInv, PacketOK
      <4>2. i > 1 => sent # << >> /\ sent'[i - 1] = sent[Len(sent)]
        BY <1>2, <2>2, <3>1
      <4>3. sent # << >> => packet.seq = End(sent[Len(sent)])
        BY <2>1 DEF RunInv, PacketOK, Last
      <4>4. QED BY <2>2, <3>1, <4>1, <4>2, <4>3
    <3>2. CASE i \in 1 .. Len(sent)
      <4>1. i > 1 => i - 1 \in 1 .. Len(sent)
        BY <1>2, <3>2
      <4>2. QED BY <2>2, <3>2, <4>1 DEF RunInv, OneRun
    <3>3. QED BY <1>2, <2>2, <3>1, <3>2
  <2>4. OneRun'
    BY <2>3 DEF OneRun, End
  <2>5. ASSUME NEW i \in DOMAIN sent', sent'[i].end # "none"
        PROVE  i = Len(sent') /\ IsTerminal(sent'[i])
    <3>1. i \notin 1 .. Len(sent)
      BY <2>1, <2>2, <2>5 DEF RunInv, TerminalOK
    <3>2. i = Len(sent) + 1
      BY <1>2, <2>2, <3>1
    <3>3. QED BY <2>1, <2>2, <2>5, <3>2 DEF RunInv, TerminalOK
  <2>6. TerminalOK'
    BY <1>1, <2>1, <2>5 DEF TerminalOK, IsTerminal
  <2>7. InFlightCounted'
    <3>1. connected => End(packet) = HeadPos(cb) + sentNotAcked /\ sentNotAcked <= CwndSize
      BY <2>1 DEF RunInv, PacketOK, InFlightCounted
    <3>2. sent'[Len(sent')] = packet
      BY <2>2
    <3>3. QED BY <1>1, <3>1, <3>2 DEF InFlightCounted, End
  <2>8. QED BY <1>4, <1>5, <2>4, <2>6, <2>7 DEF RunInv
<1>8. QED BY <1>6, <1>7

LEMMA RunInit == Init => RunInv
<1> SUFFICES ASSUME Init PROVE RunInv
  OBVIOUS
<1>1. /\ sent = << >> /\ sendPc = "preparing" /\ ~connected /\ streamId = NoStream
      /\ packet = NoPacket /\ connecting = NoConnect
  BY DEF Init, SMInit
<1>2. /\ NoPacket.id = NoStream /\ NoPacket.data = << >> /\ NoConnect.step = "none"
  BY DEF NoPacket, NoConnect
<1>3. IdsOK /\ PacketOK /\ TerminalOK /\ OneRun /\ InFlightCounted
  BY <1>1, <1>2 DEF IdsOK, PacketOK, TerminalOK, OneRun, InFlightCounted, InHand
<1>4. QED BY <1>3, BaseInit DEF RunInv

\* The calls on the stream manager, an ack among them, leave the run as it is.
LEMMA RunAck ==
  ASSUME RunInv, BaseInv', NEW ack, ack.seq \in Nat, ack.rwnd \in Nat, UNCHANGED envVars,
         RecvFinAck(ack) \/ RecvOddAck(ack) \/ RecvDataAck(ack)
  PROVE  RunInv'
<1>1. CASE RecvFinAck(ack) \/ RecvOddAck(ack)
  <2>1. /\ UNCHANGED <<streamId, packet, sent, usedIds, connecting, terminalVars, cb,
                       connected, sentNotAcked, terminalEventSent>>
        /\ (sendPc' = "sending") <=> (sendPc = "sending")
    BY <1>1 DEF RecvFinAck, RecvOddAck, Signal, envVars, senderVars
  <2>2. sentNotAcked \in Nat
    BY DEF RunInv, BaseInv, TypeOK, ClientTypes
  <2>3. QED BY <2>1, <2>2, RunQuiet
<1>2. CASE RecvDataAck(ack)
  <2>1. /\ UNCHANGED <<streamId, packet, sent, usedIds, connecting, terminalVars,
                       connected, terminalEventSent>>
        /\ (sendPc' = "sending") <=> (sendPc = "sending")
        /\ connected
    BY <1>2 DEF RecvDataAck, Signal, envVars, senderVars
  <2>2. /\ HeadPos(cb') + sentNotAcked' = HeadPos(cb) + sentNotAcked
        /\ sentNotAcked' <= sentNotAcked
        /\ cb'.count = cb.count - (ack.seq - HeadPos(cb))
        /\ cb' \in CirBufs /\ CirBufOK(cb')
    BY <1>2, RecvDataAckEffect DEF RunInv
  <2>3. cb.count = 0 => cb'.count = 0
    <3>1. /\ ack.seq - HeadPos(cb) \in 0 .. Least(sentNotAcked, cb.count)
          /\ HeadPos(cb) \in Nat /\ cb.count \in Nat /\ sentNotAcked \in Nat
      BY <1>2, CirBufFields DEF RecvDataAck, RunInv, BaseInv, TypeOK, BufferOK, ClientTypes
    <3>2. QED BY <2>2, <3>1 DEF Least
  <2>4. QED BY <2>1, <2>2, <2>3, RunQuiet
<1>3. QED BY <1>1, <1>2

LEMMA RunStep == RunInv /\ [Next]_vars => RunInv'
<1> SUFFICES ASSUME RunInv, [Next]_vars PROVE RunInv'
  OBVIOUS
<1>1. BaseInv /\ BaseInv'
  BY BaseStep DEF RunInv
<1>2. /\ HeadPos(cb) \in Nat /\ sentNotAcked \in Nat
  BY <1>1, CirBufFields DEF BaseInv, TypeOK, BufferOK, ClientTypes
<1>3. CASE ReadStep
  <2>1. UNCHANGED <<streamId, packet, sent, usedIds, connecting, connected, sentNotAcked,
                    terminalEventSent>>
    BY <1>3 DEF ReadStep, ReadLoop, AttachReader, CheckClosed, ReadPty, WriteChunk,
       SignalWritten, Unpark, HandleEnd, clientVars, senderVars, envVars
  <2>2. (sendPc' = "sending") <=> (sendPc = "sending")
    BY <1>3 DEF ReadStep, ReadLoop, AttachReader, CheckClosed, ReadPty, WriteChunk,
       SignalWritten, Unpark, HandleEnd, Signal, senderVars
  <2>3. terminalEvent # "none" => UNCHANGED <<cb, terminalVars>>
    BY <1>1, <1>3 DEF ReadStep, ReadLoop, AttachReader, CheckClosed, ReadPty, WriteChunk,
       SignalWritten, Unpark, HandleEnd, BaseInv, EndOK, terminalVars
  <2>4. connected => HeadPos(cb') = HeadPos(cb)
    <3>1. CASE WriteChunk
      BY <1>1, <1>3, <3>1, BaseWriteChunk DEF ReadStep, BaseInv, ModeFollowsClient
    <3>2. CASE AttachReader \/ CheckClosed \/ Unpark \/ ReadPty \/ SignalWritten \/ HandleEnd
      BY <3>2 DEF AttachReader, CheckClosed, Unpark, ReadPty, SignalWritten, HandleEnd
    <3>3. QED BY <1>3, <3>1, <3>2 DEF ReadStep, ReadLoop
  <2>5. QED BY <1>1, <1>2, <2>1, <2>2, <2>3, <2>4, RunQuiet
<1>4. CASE SendStep
  <2>1. CASE Send
    BY <1>1, <2>1, RunSend
  <2>2. CASE PrepareData /\ UNCHANGED envVars
    BY <1>1, <2>2, RunPrepareData
  <2>3. CASE PrepareTerminal /\ UNCHANGED envVars
    BY <1>1, <2>3, RunPrepareTerminal
  <2>4. CASE (SenderReturns \/ SenderWaits) /\ UNCHANGED envVars
    <3>1. /\ UNCHANGED <<streamId, packet, sent, usedIds, connecting, terminalVars, cb,
                         connected, sentNotAcked, terminalEventSent>>
          /\ (sendPc' = "sending") <=> (sendPc = "sending")
      BY <2>4 DEF SenderReturns, SenderWaits, envVars, clientVars
    <3>2. QED BY <1>1, <1>2, <3>1, RunQuiet
  <2>5. QED BY <1>4, <2>1, <2>2, <2>3, <2>4 DEF SendStep
<1>5. CASE ConnectStep
  <2>1. CASE Opened
    BY <1>1, <2>1, RunOpened
  <2>2. CASE (ConsumeClientSeq \/ RereadHead) /\ UNCHANGED envVars
    <3>1. /\ UNCHANGED <<streamId, packet, sent, usedIds, terminalVars, connected, sendPc>>
          /\ connecting.step # "none"
      BY <2>2 DEF ConsumeClientSeq, RereadHead, envVars, senderVars
    <3>2. connecting'.step # "none" => connecting'.id = connecting.id
      <4>1. NoConnect.step = "none" /\ connecting \in Connects
        BY <1>1 DEF NoConnect, BaseInv, TypeOK, ClientTypes
      <4>2. \/ connecting' = NoConnect
            \/ connecting' = [connecting EXCEPT !.step = "rereading"]
            \/ connecting' = [connecting EXCEPT !.step = "opening", !.head = HeadPos(cb)]
        BY <2>2 DEF ConsumeClientSeq, RereadHead
      <4>3. QED BY <4>1, <4>2 DEF Connects
    <3>3. ~connected'
      BY <1>1, <3>1 DEF BaseInv, HandlerOK
    <3>4. QED BY <1>1, <3>1, <3>2, <3>3, RunQuiet
  <2>3. QED BY <1>5, <2>1, <2>2 DEF ConnectStep
<1>6. CASE ClientStep
  <2>1. CASE Connect
    BY <1>1, <2>1, RunConnect
  <2>2. CASE Acknowledge
    <3>1. PICK seq \in positions, rwnd \in RwndSizes :
            RecvAck([id |-> streamId, seq |-> seq, rwnd |-> rwnd, fin |-> FALSE])
      BY <2>2 DEF Acknowledge
    <3> DEFINE ack == [id |-> streamId, seq |-> seq, rwnd |-> rwnd, fin |-> FALSE]
    <3>2. ack.seq \in Nat /\ ack.rwnd \in Nat
      BY <1>1, StreamAssumption DEF BaseInv, TypeOK, HistoryTypes
    <3>3. RecvFinAck(ack) \/ RecvOddAck(ack) \/ RecvDataAck(ack)
      BY <3>1 DEF RecvAck
    <3> HIDE DEF ack
    <3>4. QED BY <1>1, <2>2, <3>2, <3>3, RunAck DEF Acknowledge
  <2>3. CASE AcknowledgeEnd
    <3> DEFINE ack == [id |-> streamId, seq |-> 0, rwnd |-> 0, fin |-> TRUE]
    <3>1. ack.seq \in Nat /\ ack.rwnd \in Nat
      OBVIOUS
    <3>2. RecvFinAck(ack) \/ RecvOddAck(ack) \/ RecvDataAck(ack)
      BY <2>3 DEF AcknowledgeEnd, RecvAck
    <3> HIDE DEF ack
    <3>3. QED BY <1>1, <2>3, <3>1, <3>2, RunAck DEF AcknowledgeEnd
  <2>4. CASE ClientDisconnected /\ UNCHANGED envVars
    <3>1. /\ UNCHANGED <<streamId, packet, sent, usedIds, connecting, terminalVars>>
          /\ (sendPc' = "sending") <=> (sendPc = "sending")
          /\ ~connected'
      BY <2>4 DEF ClientDisconnected, Signal, envVars
    <3>2. QED BY <1>1, <3>1, RunQuiet
  <2>5. CASE (\E rwnd \in RwndSizes : SetRwndSize(rwnd)) /\ UNCHANGED envVars
    <3>1. /\ UNCHANGED <<streamId, packet, sent, usedIds, connecting, terminalVars,
                         connected, sentNotAcked, terminalEventSent>>
          /\ (sendPc' = "sending") <=> (sendPc = "sending")
          /\ connected
      BY <2>5 DEF SetRwndSize, Signal, envVars
    <3>2. HeadPos(cb') = HeadPos(cb) /\ cb'.count = cb.count
      BY <1>1, <2>5, BaseSetRwndSize DEF HeadPos
    <3>3. QED BY <1>1, <1>2, <3>1, <3>2, RunQuiet
  <2>6. CASE Close /\ UNCHANGED envVars
    <3>1. /\ UNCHANGED <<streamId, packet, sent, usedIds, connecting, terminalVars, cb,
                         connected, sentNotAcked, terminalEventSent>>
          /\ (sendPc' = "sending") <=> (sendPc = "sending")
      BY <2>6 DEF Close, Signal, envVars, clientVars
    <3>2. QED BY <1>1, <1>2, <3>1, RunQuiet
  <2>7. QED BY <1>6, <2>1, <2>2, <2>3, <2>4, <2>5, <2>6 DEF ClientStep
<1>7. CASE UNCHANGED vars
  <2>1. UNCHANGED <<streamId, packet, sent, usedIds, connecting, terminalVars, cb,
                    connected, sentNotAcked, terminalEventSent, sendPc>>
    BY <1>7 DEF vars, smVars, envVars, clientVars, senderVars
  <2>2. QED BY <1>1, <1>2, <2>1, RunQuiet
<1>8. QED BY <1>3, <1>4, <1>5, <1>6, <1>7 DEF Next

(* What is sent on a stream is one run of the PTY's bytes, closed by at most *)
(* one terminal packet that stands at the end of everything the PTY wrote,   *)
(* and never more than the congestion window is unacknowledged - through     *)
(* every interleaving of PTY output, acks, window changes, disconnections    *)
(* and reconnections (streammanager.go:97-248, 359-437).                     *)
THEOREM StreamIsOneRun == Spec => [](OneRun /\ InFlightCounted /\ TerminalIsLast)
<1>1. RunInv => OneRun /\ InFlightCounted /\ TerminalIsLast
  <2>1. SUFFICES ASSUME RunInv PROVE TerminalIsLast
    BY DEF RunInv
  <2>2. terminalEvent # "none" => eofPos = cb.totalSize
    BY <2>1 DEF RunInv, BaseInv, EndOK
  <2>3. QED BY <2>1, <2>2 DEF RunInv, TerminalOK, IsTerminal, TerminalIsLast
<1>2. QED BY <1>1, RunInit, RunStep, PTL DEF Spec
(* Whatever is sent after a client has reconnected, a terminal packet stands  *)
(* after the last byte: an end that is resent is the end (streammanager.go:   *)
(* 418-437).                                                                  *)
THEOREM EndIsSentLast == Spec => []TerminalIsLast
  BY StreamIsOneRun, PTL

-----------------------------------------------------------------------------
(* That the ring implements the drop-oldest queue, whatever the two loops    *)
(* and the handlers of the stream manager do with it.  The bytes of a sound  *)
(* ring are known from its head and its count, so both sides of every step   *)
(* are runs of consecutive numbers.                                          *)

Run(head, n) == [i \in 1 .. n |-> head + i - 1]

Held(b) == PeekDataAt(b, 0, b.count)

\* A sequence of consecutive numbers is a run.
LEMMA IsRun ==
  ASSUME NEW s \in Seq(Nat), NEW h \in Nat, NEW n \in Nat, Len(s) = n,
         \A i \in 1 .. n : s[i] = h + i - 1
  PROVE  s = Run(h, n)
<1>1. s = [i \in 1 .. Len(s) |-> s[i]]
  OBVIOUS
<1>2. QED BY <1>1 DEF Run

\* What is left of a run without its first k numbers.
LEMMA RunTail ==
  ASSUME NEW h \in Nat, NEW n \in Nat, NEW k \in 0 .. n
  PROVE  SubSeq(Run(h, n), k + 1, n) = Run(h + k, n - k)
<1>1. /\ Run(h, n) \in Seq(Nat) /\ Len(Run(h, n)) = n
      /\ \A i \in 1 .. n : Run(h, n)[i] = h + i - 1
  BY DEF Run
<1>2. /\ Len(SubSeq(Run(h, n), k + 1, n)) = n - k
      /\ \A i \in 1 .. n - k : SubSeq(Run(h, n), k + 1, n)[i] = Run(h, n)[k + i]
      /\ SubSeq(Run(h, n), k + 1, n) \in Seq(Nat)
  BY <1>1, RestOK
<1>3. ASSUME NEW i \in 1 .. n - k
      PROVE  SubSeq(Run(h, n), k + 1, n)[i] = (h + k) + i - 1
  BY <1>1, <1>2
<1> DEFINE s == SubSeq(Run(h, n), k + 1, n)
           m == n - k
           g == h + k
<1>4. m \in Nat /\ g \in Nat /\ s \in Seq(Nat) /\ Len(s) = m
  BY <1>2
<1>5. \A i \in 1 .. m : s[i] = g + i - 1
  BY <1>3
<1> HIDE DEF s, m, g
<1>6. s = Run(g, m)
  BY <1>4, <1>5, IsRun
<1>7. QED BY <1>6 DEF s, m, g

LEMMA RunAppend ==
  ASSUME NEW h \in Nat, NEW n \in Nat, NEW k \in Nat
  PROVE  Run(h, n) \o Run(h + n, k) = Run(h, n + k)
<1>1. /\ Run(h, n) \in Seq(Nat) /\ Len(Run(h, n)) = n
      /\ Run(h + n, k) \in Seq(Nat) /\ Len(Run(h + n, k)) = k
  BY DEF Run
<1> DEFINE s == Run(h, n) \o Run(h + n, k)
<1>2. s \in Seq(Nat) /\ Len(s) = n + k
  BY <1>1
<1>3. ASSUME NEW i \in 1 .. n + k PROVE s[i] = h + i - 1
  <2>1. s[i] = IF i <= n THEN Run(h, n)[i] ELSE Run(h + n, k)[i - n]
    BY <1>1
  <2>2. QED BY <2>1 DEF Run
<1> HIDE DEF s
<1>4. s = Run(h, n + k)
  BY <1>2, <1>3, IsRun
<1>5. QED BY <1>4 DEF s

\* A sound ring holds the run that ends with the last byte written.
LEMMA HeldIsRun ==
  ASSUME NEW b \in CirBufs, CirBufOK(b)
  PROVE  /\ Held(b) = Run(HeadPos(b), b.count)
         /\ Len(Held(b)) = b.count
<1>1. /\ b.count \in Nat /\ HeadPos(b) \in Nat
  BY CirBufFields
<1>2. /\ Held(b) \in Seq(Nat) /\ Len(Held(b)) <= b.count
      /\ \A k \in 1 .. Len(Held(b)) : Held(b)[k] = HeadPos(b) + 0 + k - 1
  BY <1>1, PeekDataAtOK DEF Held
<1>3. Len(Held(b)) = b.count
  <2>1. CASE b.count = 0
    BY <1>2, <2>1
  <2>2. CASE b.count > 0
    BY <1>1, <2>2 DEF Held, PeekDataAt, Least
  <2>3. QED BY <1>1, <2>1, <2>2
<1>4. \A k \in 1 .. b.count : Held(b)[k] = HeadPos(b) + k - 1
  BY <1>1, <1>2, <1>3
<1>5. QED BY <1>1, <1>2, <1>3, <1>4, IsRun

\* A step that takes bytes from the front, and may change the mode and the
\* window, is a Release.
LEMMA Releases ==
  ASSUME BaseInv, BaseInv', cb'.totalSize = cb.totalSize, cb'.count <= cb.count
  PROVE  Queue!Next
<1> DEFINE n == cb.count - cb'.count
<1>1. /\ cb \in CirBufs /\ CirBufOK(cb) /\ cb' \in CirBufs /\ CirBufOK(cb')
  BY DEF BaseInv, TypeOK, BufferOK
<1>2. /\ cb.count \in Nat /\ cb'.count \in Nat /\ cb'.windowSize \in Nat
      /\ cb'.syncMode \in BOOLEAN /\ cb.totalSize \in Nat
      /\ HeadPos(cb) \in Nat
  BY <1>1, CirBufFields
<1>3. n \in 0 .. cb.count /\ cb.count - n = cb'.count /\ HeadPos(cb) + n = HeadPos(cb')
  BY <1>2 DEF HeadPos
<1>4. /\ Held(cb) = Run(HeadPos(cb), cb.count) /\ Len(Held(cb)) = cb.count
      /\ Held(cb') = Run(HeadPos(cb'), cb'.count) /\ Len(Held(cb')) = cb'.count
  BY <1>1, HeldIsRun
<1>5. ~cb'.syncMode => cb'.count <= cb'.windowSize
  BY <1>1 DEF CirBufOK, PositionsAgree
<1> HIDE DEF n
<1>6. SubSeq(Held(cb), n + 1, Len(Held(cb))) = Held(cb')
  <2>1. SubSeq(Run(HeadPos(cb), cb.count), n + 1, cb.count)
          = Run(HeadPos(cb) + n, cb.count - n)
    BY <1>2, <1>3, RunTail
  <2>2. QED BY <1>3, <1>4, <2>1
<1>7. Queue!Newest(Held(cb'), cb'.windowSize) = Held(cb') \/ cb'.syncMode
  BY <1>4, <1>5 DEF Queue!Newest
<1>8. Queue!Release(n)
  BY <1>2, <1>6, <1>7 DEF Queue!Release, Held
<1>9. QED BY <1>3, <1>4, <1>8 DEF Queue!Next, Held

\* A write of the read loop is a Put.
LEMMA Puts ==
  ASSUME BaseInv, BaseInv', WriteChunk
  PROVE  Queue!Next
<1> DEFINE n == Len(chunk)
           t == Writable(cb, n)
<1>1. /\ cb \in CirBufs /\ CirBufOK(cb) /\ cb' \in CirBufs /\ CirBufOK(cb')
  BY DEF BaseInv, TypeOK, BufferOK
<1>2. /\ cb.count \in Nat /\ cb'.count \in Nat /\ cb.windowSize \in Nat
      /\ cb.syncMode \in BOOLEAN /\ cb.totalSize \in Nat /\ HeadPos(cb) \in Nat
      /\ cb.totalSize = HeadPos(cb) + cb.count
  BY <1>1, CirBufFields DEF HeadPos
<1>3. /\ chunk \in Seq(Nat) /\ n \in 1 .. MaxSize /\ n \in 1 .. MaxPacketSize
      /\ \A k \in 1 .. n : chunk[k] = cb.totalSize + k - 1
  BY StreamAssumption, MaxSizeAssumption
     DEF WriteChunk, BaseInv, TypeOK, LoopTypes, ChunkOK
<1>4. cb' = WriteAvailable(cb, chunk)
  BY DEF WriteChunk
<1>5. /\ t \in Nat /\ t <= n /\ n \in Nat
      /\ cb'.totalSize = cb.totalSize + t /\ cb'.syncMode = cb.syncMode
  BY <1>1, <1>3, <1>4, WriteAvailableOK
<1>6. cb'.windowSize = cb.windowSize /\ cb'.count = cb.count + Least(t, Room(cb))
  BY <1>4 DEF WriteAvailable, CirBufs
<1>7. ~cb.syncMode => cb.count <= cb.windowSize
  BY <1>1 DEF CirBufOK, PositionsAgree
<1>8. /\ Held(cb) = Run(HeadPos(cb), cb.count) /\ Len(Held(cb)) = cb.count
      /\ Held(cb') = Run(HeadPos(cb'), cb'.count)
  BY <1>1, HeldIsRun
<1>9. Queue!Fitting(n) = t
  BY <1>2, <1>3, <1>8 DEF Queue!Fitting, Writable, Room, Least, Held
<1>10. t = Least(t, Room(cb)) \/ ~cb.syncMode
  BY <1>2, <1>3 DEF Writable, Room, Least
<1> HIDE DEF n, t
<1>11. Held(cb) \o Run(cb.totalSize, t) = Run(HeadPos(cb), cb.count + t)
  <2>1. Run(HeadPos(cb), cb.count) \o Run(HeadPos(cb) + cb.count, t)
          = Run(HeadPos(cb), cb.count + t)
    BY <1>2, <1>5, RunAppend
  <2>2. QED BY <1>2, <1>8, <2>1
<1>12. CASE cb.syncMode
  <2>1. /\ cb'.count = cb.count + t /\ HeadPos(cb') = HeadPos(cb)
    BY <1>2, <1>5, <1>6, <1>10, <1>12 DEF HeadPos
  <2>2. Held(cb') = Held(cb) \o Run(cb.totalSize, t)
    BY <1>8, <1>11, <2>1
  <2>3. Queue!Put(n)
    BY <1>5, <1>6, <1>9, <1>12, <2>2 DEF Queue!Put, Held, Run
  <2>4. QED BY <1>3, <2>3 DEF Queue!Next
<1>13. CASE ~cb.syncMode
  <2> DEFINE longer == Held(cb) \o Run(cb.totalSize, t)
             c      == cb.count + t
             k      == c - cb.windowSize
  <2>1. /\ c \in Nat /\ longer = Run(HeadPos(cb), c) /\ Len(Run(HeadPos(cb), c)) = c
    <3>1. c \in Nat /\ longer = Run(HeadPos(cb), c)
      BY <1>2, <1>5, <1>11
    <3> HIDE DEF c
    <3>2. Len(Run(HeadPos(cb), c)) = c
      BY <3>1 DEF Run
    <3>3. QED BY <3>1, <3>2
  <2>2. cb'.count = IF c <= cb.windowSize THEN c ELSE cb.windowSize
    BY <1>2, <1>5, <1>6, <1>7, <1>13 DEF Room, Least
  <2>3. HeadPos(cb') = IF c <= cb.windowSize THEN HeadPos(cb) ELSE HeadPos(cb) + k
    BY <1>2, <1>5, <2>2 DEF HeadPos
  <2>4. c > cb.windowSize => /\ k \in 0 .. c /\ c - k = cb.windowSize
                             /\ c - cb.windowSize + 1 = k + 1
    BY <1>2, <2>1
  <2> HIDE DEF longer, c, k
  <2>5. Queue!Newest(longer, cb.windowSize) = Held(cb')
    <3>1. CASE c <= cb.windowSize
      BY <1>8, <2>1, <2>2, <2>3, <3>1 DEF Queue!Newest
    <3>2. CASE c > cb.windowSize
      <4>1. Queue!Newest(longer, cb.windowSize)
              = SubSeq(Run(HeadPos(cb), c), k + 1, c)
        <5>1. ~(c <= cb.windowSize)
          BY <1>2, <2>1, <3>2
        <5>2. Queue!Newest(longer, cb.windowSize)
                = SubSeq(longer, Len(longer) - cb.windowSize + 1, Len(longer))
          BY <2>1, <5>1 DEF Queue!Newest
        <5>3. QED BY <2>1, <2>4, <3>2, <5>2
      <4>2. SubSeq(Run(HeadPos(cb), c), k + 1, c) = Run(HeadPos(cb) + k, c - k)
        BY <1>2, <2>1, <2>4, <3>2, RunTail
      <4>3. HeadPos(cb') = HeadPos(cb) + k /\ cb'.count = c - k
        BY <1>2, <2>1, <2>2, <2>3, <2>4, <3>2
      <4>4. QED BY <1>8, <4>1, <4>2, <4>3
    <3>3. QED BY <1>2, <2>1, <3>1, <3>2
  <2>6. Queue!Put(n)
    BY <1>5, <1>6, <1>9, <1>13, <2>5 DEF Queue!Put, Held, Run, longer
  <2>7. QED BY <1>3, <2>6 DEF Queue!Next
<1>14. QED BY <1>2, <1>12, <1>13
-----------------------------------------------------------------------------
LEMMA QueueInit == Init => Queue!Init
<1> SUFFICES ASSUME Init PROVE Queue!Init
  OBVIOUS
<1>1. cb = MakeCirBuf(TRUE) /\ cb \in CirBufs
  BY MakeCirBufOK DEF Init, SMInit
<1>2. cb.count = 0 /\ cb.totalSize = 0 /\ cb.syncMode = TRUE /\ cb.windowSize \in Nat
  BY <1>1, MaxSizeAssumption DEF MakeCirBuf
<1>3. QED BY <1>2 DEF Queue!Init, PeekDataAt

LEMMA QueueStep == BaseInv /\ BaseInv' /\ [Next]_vars => [Queue!Next]_(Queue!vars)
<1> SUFFICES ASSUME BaseInv, BaseInv', [Next]_vars PROVE [Queue!Next]_(Queue!vars)
  OBVIOUS
<1>1. /\ cb \in CirBufs /\ CirBufOK(cb) /\ cb.count \in Nat
  BY CirBufFields DEF BaseInv, TypeOK, BufferOK
<1>2. CASE cb' = cb
  BY <1>2 DEF Queue!vars
<1>3. CASE WriteChunk
  BY <1>3, Puts
<1>4. CASE ConsumeClientSeq
  <2>1. CASE cb' = cb
    BY <1>2, <2>1
  <2>2. CASE cb' # cb
    <3> DEFINE n == connecting.clientSeq - connecting.head
    <3>1. n \in 0 .. cb.count /\ cb' = Consume(cb, n)
      BY <1>1, <1>4, <2>2
         DEF ConsumeClientSeq, BaseInv, TypeOK, ClientTypes, Connects, HandlerOK
    <3> HIDE DEF n
    <3>2. cb'.totalSize = cb.totalSize /\ cb'.count = cb.count - n
      BY <1>1, <3>1, ConsumeOK
    <3>3. QED BY <1>1, <3>1, <3>2, Releases
  <2>3. QED BY <2>1, <2>2
<1>5. CASE OpenClient
  <2>1. EffectiveWindow(connecting.rwnd) \in Nat
    BY EffectiveWindowOK DEF BaseInv, TypeOK, ClientTypes, Connects
  <2>2. cb' = SetEffectiveWindow(cb, TRUE, EffectiveWindow(connecting.rwnd))
    BY <1>5 DEF OpenClient
  <2>3. QED BY <1>1, <2>1, <2>2, SetEffectiveWindowOK, Releases
<1>6. CASE ClientDisconnected
  <2>1. cb' = SetEffectiveWindow(cb, FALSE, MaxSize)
    BY <1>6 DEF ClientDisconnected
  <2>2. QED BY <1>1, <2>1, MaxSizeAssumption, SetEffectiveWindowOK, Releases
<1>7. ASSUME NEW rwnd \in RwndSizes, SetRwndSize(rwnd) PROVE Queue!Next
  <2>1. cb' = SetEffectiveWindow(cb, TRUE, EffectiveWindow(rwnd)) /\ rwnd \in Nat
    BY <1>7, StreamAssumption DEF SetRwndSize
  <2>2. QED BY <1>1, <2>1, EffectiveWindowOK, SetEffectiveWindowOK, Releases
<1>8. ASSUME NEW seq \in positions, NEW rwnd \in RwndSizes,
             RecvDataAck([id |-> streamId, seq |-> seq, rwnd |-> rwnd, fin |-> FALSE])
      PROVE  Queue!Next
  <2> DEFINE ack == [id |-> streamId, seq |-> seq, rwnd |-> rwnd, fin |-> FALSE]
  <2>1. seq \in Nat /\ rwnd \in Nat
    BY StreamAssumption DEF BaseInv, TypeOK, HistoryTypes
  <2>2. ack.seq \in Nat /\ ack.rwnd \in Nat /\ RecvDataAck(ack)
    BY <1>8, <2>1
  <2>3. ack.seq - HeadPos(cb) \in Nat
    BY <2>2 DEF RecvDataAck
  <2> HIDE DEF ack
  <2>4. cb'.totalSize = cb.totalSize /\ cb'.count = cb.count - (ack.seq - HeadPos(cb))
    BY <2>2, RecvDataAckEffect
  <2>5. QED BY <1>1, <2>3, <2>4, Releases
<1>9. CASE ReadStep
  BY <1>2, <1>3, <1>9
     DEF ReadStep, ReadLoop, AttachReader, CheckClosed, ReadPty, SignalWritten, Unpark,
         HandleEnd
<1>10. CASE SendStep
  BY <1>2, <1>10
     DEF SendStep, Send, SendData, SenderReturns, SenderWaits, PrepareData,
         PrepareTerminal
<1>11. CASE ConnectStep
  BY <1>2, <1>4, <1>5, <1>11 DEF ConnectStep, Opened, RereadHead
<1>12. CASE ClientStep
  <2>1. CASE Connect
    BY <1>2, <2>1 DEF Connect, ClientConnected
  <2>2. CASE Acknowledge
    <3>1. PICK seq \in positions, rwnd \in RwndSizes :
            RecvAck([id |-> streamId, seq |-> seq, rwnd |-> rwnd, fin |-> FALSE])
      BY <2>2 DEF Acknowledge
    <3> DEFINE ack == [id |-> streamId, seq |-> seq, rwnd |-> rwnd, fin |-> FALSE]
    <3>2. RecvDataAck(ack) => Queue!Next
      BY <1>8
    <3>3. RecvFinAck(ack) \/ RecvOddAck(ack) => cb' = cb
      BY DEF RecvFinAck, RecvOddAck
    <3>4. QED BY <1>2, <3>1, <3>2, <3>3 DEF RecvAck
  <2>3. CASE AcknowledgeEnd
    <3>1. RecvFinAck([id |-> streamId, seq |-> 0, rwnd |-> 0, fin |-> TRUE])
      BY <2>3 DEF AcknowledgeEnd, RecvAck, RecvOddAck, RecvDataAck
    <3>2. QED BY <1>2, <3>1 DEF RecvFinAck
  <2>4. CASE Close
    BY <1>2, <2>4 DEF Close
  <2>5. QED BY <1>6, <1>7, <1>12, <2>1, <2>2, <2>3, <2>4 DEF ClientStep
<1>13. CASE UNCHANGED vars
  BY <1>2, <1>13 DEF vars, smVars
<1>14. QED BY <1>9, <1>10, <1>11, <1>12, <1>13 DEF Next

(* The ring implements the drop-oldest queue, for every ring size, window,   *)
(* packet size and interleaving: what the stream manager buffers is a queue  *)
(* of the PTY's bytes that loses none but the oldest, and none at all while  *)
(* it is synchronous, unless they were consumed (cirbuf.go,                  *)
(* streammanager.go).                                                        *)
THEOREM BufferIsQueue == Spec => ActsAsDropOldestQueue
<1>1. Spec => []BaseInv
  BY BaseInit, BaseStep, PTL DEF Spec
<1>2. QED
  BY <1>1, QueueInit, QueueStep, PTL DEF Spec, ActsAsDropOldestQueue, Queue!Spec
=============================================================================
