------------------------------- MODULE CirBuf -------------------------------
(* The circular byte buffer of pkg/jobmanager/cirbuf.go: every method is one *)
(* critical section of cb.lock, so each is an operator from the buffer it    *)
(* finds to the buffer it leaves.  A buffer is a record with the fields of   *)
(* the Go struct; waiterChan (capacity 1) is the flag "a blocked writer has  *)
(* registered a channel and nobody has closed it yet".                       *)
(*                                                                           *)
(* A byte is the number of bytes the PTY had produced before it, so what a   *)
(* reader gets can be compared with what it asked for.                       *)
EXTENDS Integers, Sequences

CONSTANT MaxSize            \* len(cb.buf)

ASSUME MaxSizeAssumption == MaxSize \in Nat \ {0}

Least(a, b) == IF a < b THEN a ELSE b

Slots == 0 .. MaxSize - 1

CirBufs == [buf        : [Slots -> Nat],
            readPos    : Slots,
            writePos   : Slots,
            count      : 0 .. MaxSize,
            totalSize  : Nat,
            syncMode   : BOOLEAN,
            windowSize : 0 .. MaxSize,
            waiter     : BOOLEAN]

MakeCirBuf(initSyncMode) ==
  [buf |-> [i \in Slots |-> 0], readPos |-> 0, writePos |-> 0, count |-> 0,
   totalSize |-> 0, syncMode |-> initSyncMode, windowSize |-> MaxSize,
   waiter |-> FALSE]

HeadPos(cb) == cb.totalSize - cb.count

(* A definition named X_Y is X with the mistake Y in it: no definition uses  *)
(* it, and each property is violated when such a variant takes X's place.    *)

\* Forget the n oldest bytes.
Advance(cb, n) == [cb EXCEPT !.readPos = (@ + n) % MaxSize, !.count = @ - n]

\* The bytes that no longer fit when the window becomes win.
Excess(cb, sync, win) == IF ~sync /\ cb.count > win THEN cb.count - win ELSE 0

\* Whether there may be room now for a writer that found none.
Wakes_IfStillSync(cb, sync, win) == cb.syncMode /\ sync /\ win > cb.windowSize
Wakes(cb, sync, win) == cb.syncMode /\ (win > cb.windowSize \/ ~sync)

(* tryWakeWriter closes the channel of the blocked writer, if there is one. *)
SetEffectiveWindow(cb, sync, size) ==
  LET win == Least(size, MaxSize)
  IN  [Advance(cb, Excess(cb, sync, win)) EXCEPT
         !.windowSize = win,
         !.syncMode   = sync,
         !.waiter     = @ /\ ~Wakes(cb, sync, win)]

\* How many of len bytes one call of WriteAvailable takes, and how many of
\* those find room; the others push the oldest byte out.
Room(cb) == IF cb.count < cb.windowSize THEN cb.windowSize - cb.count ELSE 0
Writable_AnyMode(cb, len) == len
Writable(cb, len) == IF cb.syncMode THEN Least(len, Room(cb)) ELSE len

\* The ring after the first n bytes of data, n <= MaxSize, went in at writePos.
SlotDistance_ShortWrap(cb, i) ==
  IF i >= cb.writePos THEN i - cb.writePos ELSE i + MaxSize - 1 - cb.writePos
SlotDistance(cb, i) ==
  IF i >= cb.writePos THEN i - cb.writePos ELSE i + MaxSize - cb.writePos
Stored(cb, data, n) ==
  [i \in Slots |-> IF SlotDistance(cb, i) < n THEN data[SlotDistance(cb, i) + 1]
                                              ELSE cb.buf[i]]

(* The writer is told to wait, on a channel it leaves in waiterChan, exactly *)
(* when no byte was taken.                                                   *)
WriteAvailable(cb, data) ==
  LET n    == Writable(cb, Len(data))
      grow == Least(n, Room(cb))
  IN  [cb EXCEPT !.buf       = Stored(cb, data, n),
                 !.readPos   = (@ + (n - grow)) % MaxSize,
                 !.writePos  = (@ + n) % MaxSize,
                 !.count     = @ + grow,
                 !.totalSize = @ + n,
                 !.waiter    = @ \/ n = 0]

PeekDataAt_FromHead(cb, offset, len) ==
  [i \in 1 .. Least(len, cb.count) |-> cb.buf[(cb.readPos + i - 1) % MaxSize]]
PeekDataAt(cb, offset, len) ==
  IF offset >= cb.count THEN << >>
  ELSE [i \in 1 .. Least(len, cb.count - offset) |->
          cb.buf[(cb.readPos + offset + i - 1) % MaxSize]]

\* Consume(numBytes); the code returns an error when numBytes > count.
Consume(cb, n) == [Advance(cb, n) EXCEPT !.waiter = FALSE]
-----------------------------------------------------------------------------
(* The buffered bytes are the newest count bytes written, in order.          *)
RingHolds(cb) ==
  \A i \in 0 .. cb.count - 1 :
    cb.buf[(cb.readPos + i) % MaxSize] = HeadPos(cb) + i

(* The next byte goes right after the newest one.                            *)
PositionsAgree(cb) ==
  /\ cb.count <= cb.totalSize
  /\ cb.writePos = (cb.readPos + cb.count) % MaxSize
  /\ ~cb.syncMode => cb.count <= cb.windowSize

(* A writer is left blocked only by a synchronous buffer that is full.       *)
WaiterOnlyWhenFull(cb) ==
  cb.waiter => cb.syncMode /\ cb.count >= cb.windowSize

CirBufOK(cb) == RingHolds(cb) /\ PositionsAgree(cb) /\ WaiterOnlyWhenFull(cb)
=============================================================================
