---------------------------- MODULE FileStore_proofs ----------------------------
(***************************************************************************)
(* The file store, for any number of callers, files, parts and errors: the *)
(* lock of a file is one lock, a read returns what is kept, and the store  *)
(* is the bytes of ByteFile.  The invariant has two halves.  Pins adds to  *)
(* OneEntryPerFile the shape of the entries and that a worker holds an     *)
(* entry exactly from its pin to its unpin; StoreInv is about what rows    *)
(* and entries hold.  In between are the arithmetic of the parts (which    *)
(* positions share a slot, and that a circular file keeps none of them     *)
(* twice) and, for each operation, what it does to the file as it is read. *)
(***************************************************************************)
EXTENDS FileStore, FiniteSetTheorems, TLAPS

IsEntry(e) ==
  e \in [pins : Nat, file : {e.file}, parts : {e.parts}, errs : {e.errs}]

Shapes ==
  /\ cache \in [Names -> Entries \cup {NoEntry}]
  /\ heap = [e \in Entries |-> heap[e]]
  /\ \A e \in Entries : IsEntry(heap[e])
  /\ worker \in [Workers -> [pc : {"idle", "next", "pinned", "done"},
                             name : Names \cup {NoFile},
                             entry : Entries \cup {NoEntry}]]

HoldsWhilePinned ==
  \A w \in Workers : /\ Holds(w) <=> worker[w].pc \in {"pinned", "done"}
                     /\ Holds(w) => worker[w].name \in Names

Pins == Shapes /\ HoldsWhilePinned /\ OneEntryPerFile

TodoIsFiles == todo \in [Flushers -> SUBSET Names]

LEMMA FiniteWorkers == IsFiniteSet(Workers)
BY WorkersAssumption, FS_Union DEF Workers

LEMMA FinitePinned == ASSUME NEW n PROVE IsFiniteSet(PinnedBy(n))
BY FiniteWorkers, FS_Subset DEF PinnedBy

-------------------------------------------------------------------------------
(* What is done under the lock keeps the pins.                              *)

SamePins(e, f) == IsEntry(f) /\ f.pins = e.pins

LEMMA ClearKeeps == ASSUME NEW e, IsEntry(e) PROVE SamePins(e, Clear(e))
BY DEF IsEntry, SamePins, Clear, EmptyEntry

LEMMA LoadKeeps == ASSUME NEW e, IsEntry(e), NEW row PROVE SamePins(e, Load(e, row))
BY DEF IsEntry, SamePins, Load

LEMMA LoadPartsKeeps ==
  ASSUME NEW e, IsEntry(e), NEW row, NEW idxs
  PROVE  SamePins(e, LoadParts(e, row, idxs))
BY DEF IsEntry, SamePins, LoadParts

LEMMA WriteAtKeeps ==
  ASSUME NEW e, IsEntry(e), NEW off, NEW d, NEW replace
  PROVE  SamePins(e, WriteAt(e, off, d, replace))
<1> DEFINE Wrote(file, parts) == [e EXCEPT !.file = file, !.parts = parts]
<1>1. ASSUME NEW file, NEW parts PROVE SamePins(e, Wrote(file, parts))
      BY DEF IsEntry, SamePins
<1>2. \/ WriteAt(e, off, d, replace) = e
      \/ \E file, parts : WriteAt(e, off, d, replace) = Wrote(file, parts)
      BY Zenon DEF WriteAt
<1>3. CASE WriteAt(e, off, d, replace) = e
      BY <1>3 DEF SamePins
<1>4. CASE \E file, parts : WriteAt(e, off, d, replace) = Wrote(file, parts)
  <2> HIDE DEF Wrote
  <2>1. PICK file, parts : WriteAt(e, off, d, replace) = Wrote(file, parts)
        BY <1>4
  <2>2. QED BY <1>1, <2>1
<1>5. QED BY <1>2, <1>3, <1>4

LEMMA FlushKeeps ==
  ASSUME NEW e, IsEntry(e), NEW row, NEW replace, NEW r \in FlushResults(e, row, replace)
  PROVE  SamePins(e, r.e)
<1>1. SamePins(e, e) BY DEF SamePins
<1>2. SamePins(e, [e EXCEPT !.errs = @ + 1]) BY DEF IsEntry, SamePins
<1>3. r.e \in {e, Clear(e), [e EXCEPT !.errs = @ + 1]}
      BY DEF FlushResults
<1>4. QED BY <1>1, <1>2, <1>3, ClearKeeps

-------------------------------------------------------------------------------
(* How the parts of the invariant go through the three kinds of step.       *)

LEMMA PinStep ==
  ASSUME Pins, NEW w \in Workers, ~Holds(w), NEW n \in Names, getEntryAndPin(w, n)
  PROVE  Pins'
<1> DEFINE Candidates == IF cache[n] = NoEntry THEN {e \in Free : \A x \in Free : e <= x}
                         ELSE {cache[n]}
<1>1. PICK e \in Candidates :
        /\ cache' = [cache EXCEPT ![n] = e]
        /\ heap' = IF cache[n] = NoEntry
                   THEN [heap EXCEPT ![e] = [EmptyEntry EXCEPT !.pins = 1]]
                   ELSE [heap EXCEPT ![e].pins = @ + 1]
        /\ worker' = [worker EXCEPT ![w] = [pc |-> "pinned", name |-> n, entry |-> e]]
      BY DEF getEntryAndPin
<1>2. /\ e \in Entries /\ e # NoEntry
      /\ cache[n] = NoEntry => e \in Free
      /\ cache[n] # NoEntry => e = cache[n]
      BY WorkersAssumption DEF Pins, Shapes, Free
<1> HIDE DEF Candidates
<1>3. \A v \in Workers : Holds(v)' <=> (Holds(v) \/ v = w)
      BY <1>1, <1>2 DEF Pins, Shapes, Holds
<1>4. Shapes'
  <2>1. cache' \in [Names -> Entries \cup {NoEntry}] BY <1>1, <1>2 DEF Pins, Shapes
  <2>2. heap' = [x \in Entries |-> heap'[x]] BY <1>1 DEF Pins, Shapes
  <2>3. ASSUME NEW x \in Entries PROVE IsEntry(heap'[x])
    <3>1. IsEntry(heap[x]) BY DEF Pins, Shapes
    <3>2. IsEntry([EmptyEntry EXCEPT !.pins = 1]) BY DEF IsEntry, EmptyEntry
    <3>3. IsEntry([heap[x] EXCEPT !.pins = @ + 1]) BY <3>1 DEF IsEntry
    <3>4. QED BY <1>1, <1>2, <3>1, <3>2, <3>3 DEF Pins, Shapes
  <2>4. worker' \in [Workers -> [pc : {"idle", "next", "pinned", "done"},
                                 name : Names \cup {NoFile},
                                 entry : Entries \cup {NoEntry}]]
        BY <1>1, <1>2 DEF Pins, Shapes
  <2>5. QED BY <2>1, <2>2, <2>3, <2>4 DEF Shapes
<1>5. HoldsWhilePinned'
      BY <1>1, <1>2, <1>3 DEF Pins, Shapes, HoldsWhilePinned
<1>6. OneEntryPerFile'
  <2>1. ASSUME NEW v \in Workers, Holds(v)'
        PROVE  cache'[worker'[v].name] = worker'[v].entry
    <3>1. CASE v = w BY <1>1, <1>2, <3>1 DEF Pins, Shapes
    <3>2. CASE v # w
      <4>1. Holds(v) /\ worker'[v] = worker[v] BY <1>1, <1>3, <2>1, <3>2 DEF Pins, Shapes
      <4>2. worker[v].name \in Names /\ cache[worker[v].name] = worker[v].entry
            BY <4>1 DEF Pins, HoldsWhilePinned, OneEntryPerFile
      <4>3. CASE worker[v].name # n BY <1>1, <4>1, <4>2, <4>3 DEF Pins, Shapes
      <4>4. CASE worker[v].name = n
            BY <1>1, <1>2, <4>1, <4>2, <4>4 DEF Pins, Shapes, Holds
      <4>5. QED BY <4>3, <4>4
    <3>3. QED BY <3>1, <3>2
  <2>2. ASSUME NEW m \in Names, cache'[m] # NoEntry
        PROVE  /\ heap'[cache'[m]].pins = Cardinality(PinnedBy(m)')
               /\ PinnedBy(m)' = {} => heap'[cache'[m]].file # NoFile
    <3>1. CASE m # n
      <4>1. cache'[m] = cache[m] BY <1>1, <3>1 DEF Pins, Shapes
      <4>2. cache[m] # e
            BY <1>2, <2>2, <3>1, <4>1 DEF Free, Pins, OneEntryPerFile
      <4>3. heap'[cache[m]] = heap[cache[m]]
            BY <1>1, <1>2, <2>2, <4>1, <4>2 DEF Pins, Shapes
      <4>4. PinnedBy(m)' = PinnedBy(m)
            BY <1>1, <1>3, <3>1 DEF PinnedBy, Pins, Shapes
      <4>5. QED BY <2>2, <4>1, <4>3, <4>4 DEF Pins, OneEntryPerFile
    <3>2. CASE m = n
      <4>1. PinnedBy(n)' = PinnedBy(n) \cup {w} /\ w \notin PinnedBy(n)
            BY <1>1, <1>3 DEF PinnedBy, Pins, Shapes
      <4>2. Cardinality(PinnedBy(n)') = Cardinality(PinnedBy(n)) + 1
            BY <4>1, FinitePinned, FS_AddElement
      <4>3. cache'[n] = e BY <1>1 DEF Pins, Shapes
      <4>4. CASE cache[n] = NoEntry
        <5>1. PinnedBy(n) = {}
              BY <4>4 DEF PinnedBy, Pins, OneEntryPerFile, Holds
        <5>2. heap'[e].pins = 1
              BY <1>1, <1>2, <4>4 DEF Pins, Shapes, EmptyEntry
        <5>3. QED BY <3>2, <4>1, <4>2, <4>3, <5>1, <5>2, FS_EmptySet
      <4>5. CASE cache[n] # NoEntry
        <5>1. e = cache[n] BY <1>2, <4>5
        <5>2. IsEntry(heap[e]) BY <1>2 DEF Pins, Shapes
        <5>3. heap'[e].pins = heap[e].pins + 1
              BY <1>1, <1>2, <4>5, <5>1, <5>2 DEF Pins, Shapes, IsEntry
        <5>4. heap[e].pins = Cardinality(PinnedBy(n))
              BY <4>5, <5>1 DEF Pins, OneEntryPerFile
        <5>5. QED BY <3>2, <4>1, <4>2, <4>3, <5>3, <5>4
      <4>6. QED BY <4>4, <4>5
    <3>3. QED BY <3>1, <3>2
  <2>3. ASSUME NEW l \in Names, NEW m \in Names, cache'[l] = cache'[m], cache'[l] # NoEntry
        PROVE  l = m
        BY <1>1, <1>2, <2>3 DEF Pins, Shapes, Free, OneEntryPerFile
  <2>4. QED BY <2>1, <2>2, <2>3 DEF OneEntryPerFile
<1>7. QED BY <1>4, <1>5, <1>6 DEF Pins

LEMMA UnpinStep ==
  ASSUME Pins, NEW w \in Workers, worker[w].pc = "done", unpinEntryAndTryDelete(w),
         NEW pc \in {"idle", "next"},
         worker' = [worker EXCEPT ![w] = [Idle EXCEPT !.pc = pc]]
  PROVE  Pins'
<1>1. PICK n \in Names, e \in Entries :
        /\ n = worker[w].name /\ e = worker[w].entry
        /\ Holds(w) /\ e # NoEntry /\ cache[n] = e
      BY DEF Pins, Shapes, HoldsWhilePinned, OneEntryPerFile, Holds
<1>2. /\ heap' = [heap EXCEPT ![e].pins = @ - 1]
      /\ cache' = IF Unneeded(heap[e]) THEN [cache EXCEPT ![n] = NoEntry] ELSE cache
      BY <1>1 DEF unpinEntryAndTryDelete
<1>3. IsEntry(heap[e]) /\ heap[e].pins = Cardinality(PinnedBy(n))
      BY <1>1 DEF Pins, Shapes, OneEntryPerFile
<1>4. /\ PinnedBy(n)' = PinnedBy(n) \ {w} /\ w \in PinnedBy(n)
      /\ \A m \in Names : m # n => PinnedBy(m)' = PinnedBy(m)
      /\ \A v \in Workers : Holds(v)' <=> (Holds(v) /\ v # w)
      BY <1>1 DEF PinnedBy, Pins, Shapes, Holds, Idle
<1>5. /\ Cardinality(PinnedBy(n)') = Cardinality(PinnedBy(n)) - 1
      /\ Cardinality(PinnedBy(n)') \in Nat
      /\ PinnedBy(n)' = {} <=> Cardinality(PinnedBy(n)') = 0
  <2>1. IsFiniteSet(PinnedBy(n)) /\ IsFiniteSet(PinnedBy(n) \ {w})
        BY FinitePinned, FS_RemoveElement
  <2>2. QED BY <1>4, <2>1, FS_RemoveElement, FS_CardinalityType, FS_EmptySet
<1>6. heap'[e].pins = heap[e].pins - 1 /\ heap'[e].file = heap[e].file /\ IsEntry(heap'[e])
  <2>1. IsEntry([heap[e] EXCEPT !.pins = @ - 1])
        BY <1>3, <1>5 DEF IsEntry
  <2>2. heap'[e] = [heap[e] EXCEPT !.pins = @ - 1]
        BY <1>1, <1>2 DEF Pins, Shapes
  <2>3. QED BY <1>3, <2>1, <2>2 DEF IsEntry
<1>7. Shapes'
  <2>1. cache' \in [Names -> Entries \cup {NoEntry}] BY <1>2 DEF Pins, Shapes
  <2>2. heap' = [x \in Entries |-> heap'[x]] BY <1>2 DEF Pins, Shapes
  <2>3. ASSUME NEW x \in Entries PROVE IsEntry(heap'[x])
        BY <1>2, <1>6 DEF Pins, Shapes
  <2>4. worker' \in [Workers -> [pc : {"idle", "next", "pinned", "done"},
                                 name : Names \cup {NoFile},
                                 entry : Entries \cup {NoEntry}]]
        BY DEF Pins, Shapes, Idle
  <2>5. QED BY <2>1, <2>2, <2>3, <2>4 DEF Shapes
<1>8. HoldsWhilePinned'
      BY <1>4 DEF Pins, Shapes, HoldsWhilePinned, Idle
<1>9. OneEntryPerFile'
  <2>1. ASSUME NEW v \in Workers, Holds(v)'
        PROVE  cache'[worker'[v].name] = worker'[v].entry
    <3>1. v # w /\ Holds(v) /\ worker'[v] = worker[v]
          BY <1>4, <2>1 DEF Pins, Shapes
    <3>2. worker[v].name \in Names /\ cache[worker[v].name] = worker[v].entry
          BY <3>1 DEF Pins, HoldsWhilePinned, OneEntryPerFile
    <3>3. CASE worker[v].name # n BY <1>2, <3>1, <3>2, <3>3 DEF Pins, Shapes
    <3>4. CASE worker[v].name = n
      <4>1. v \in PinnedBy(n)' BY <2>1, <3>1, <3>4 DEF PinnedBy
      <4>2. Cardinality(PinnedBy(n)') \in Nat \ {0} BY <1>5, <4>1
      <4>3. heap[e].pins \in Nat /\ heap[e].pins - 1 = Cardinality(PinnedBy(n)')
            BY <1>3, <1>5 DEF IsEntry
      <4>4. heap[e].pins - 1 \in Nat \ {0} BY <4>2, <4>3
      <4>5. ~ Unneeded(heap[e]) BY ONLY <4>3, <4>4 DEF Unneeded
      <4>6. QED BY <1>2, <3>1, <3>2, <4>5
    <3>5. QED BY <3>3, <3>4
  <2>2. ASSUME NEW m \in Names, cache'[m] # NoEntry
        PROVE  /\ heap'[cache'[m]].pins = Cardinality(PinnedBy(m)')
               /\ PinnedBy(m)' = {} => heap'[cache'[m]].file # NoFile
    <3>1. CASE m # n
      <4>1. cache'[m] = cache[m] BY <1>2, <3>1 DEF Pins, Shapes
      <4>2. cache[m] # e BY <1>1, <2>2, <3>1, <4>1 DEF Pins, OneEntryPerFile
      <4>3. heap'[cache[m]] = heap[cache[m]]
            BY <1>1, <1>2, <2>2, <4>1, <4>2 DEF Pins, Shapes
      <4>4. PinnedBy(m)' = PinnedBy(m) BY <1>4, <3>1
      <4>5. QED BY <2>2, <4>1, <4>3, <4>4 DEF Pins, OneEntryPerFile
    <3>2. CASE m = n
      <4>1. cache' = cache /\ ~ Unneeded(heap[e])
            BY <1>1, <1>2, <2>2, <3>2 DEF Pins, Shapes
      <4>2. heap'[e].pins = Cardinality(PinnedBy(n)') BY <1>3, <1>5, <1>6
      <4>3. PinnedBy(n)' = {} => heap'[e].file # NoFile
            BY <1>3, <1>5, <1>6, <4>1 DEF Unneeded
      <4>4. QED BY <1>1, <3>2, <4>1, <4>2, <4>3
    <3>3. QED BY <3>1, <3>2
  <2>3. ASSUME NEW l \in Names, NEW m \in Names, cache'[l] = cache'[m], cache'[l] # NoEntry
        PROVE  l = m
        BY <1>1, <1>2, <2>3 DEF Pins, Shapes, OneEntryPerFile
  <2>4. QED BY <2>1, <2>2, <2>3 DEF OneEntryPerFile
<1>10. QED BY <1>7, <1>8, <1>9 DEF Pins

\* Under the lock: the entry changes, but not its pins.
LEMMA LockedStep ==
  ASSUME Pins, NEW w \in Workers, Locked(w), NEW e, SamePins(Entry(w), e),
         heap' = [heap EXCEPT ![worker[w].entry] = e],
         worker' = [worker EXCEPT ![w].pc = "done"], cache' = cache
  PROVE  Pins'
<1>1. Holds(w) /\ worker[w].name \in Names /\ worker[w].entry \in Entries
      BY DEF Pins, Shapes, HoldsWhilePinned, Locked, Holds
<1>2. /\ \A v \in Workers : /\ Holds(v)' <=> Holds(v)
                            /\ worker'[v].name = worker[v].name
                            /\ worker'[v].entry = worker[v].entry
      /\ \A m : PinnedBy(m)' = PinnedBy(m)
      BY DEF Pins, Shapes, Holds, PinnedBy
<1>3. \A x \in Entries : /\ IsEntry(heap'[x]) /\ heap'[x].pins = heap[x].pins
                         /\ x # worker[w].entry => heap'[x] = heap[x]
      BY <1>1 DEF Pins, Shapes, SamePins, Entry
<1>4. Shapes'
      BY <1>3 DEF Pins, Shapes
<1>5. HoldsWhilePinned'
      BY <1>2 DEF Pins, Shapes, HoldsWhilePinned, Locked
<1>6. OneEntryPerFile'
  <2>1. ASSUME NEW v \in Workers, Holds(v)'
        PROVE  cache'[worker'[v].name] = worker'[v].entry
        BY <1>2, <2>1 DEF Pins, OneEntryPerFile
  <2>2. ASSUME NEW m \in Names, cache'[m] # NoEntry
        PROVE  /\ heap'[cache'[m]].pins = Cardinality(PinnedBy(m)')
               /\ PinnedBy(m)' = {} => heap'[cache'[m]].file # NoFile
    <3>1. cache[m] \in Entries BY <2>2 DEF Pins, Shapes
    <3>2. heap'[cache[m]].pins = heap[cache[m]].pins BY <1>3, <3>1
    <3>3. CASE cache[m] = worker[w].entry
      <4>1. m = worker[w].name
            BY <1>1, <2>2, <3>3 DEF Pins, OneEntryPerFile
      <4>2. w \in PinnedBy(m)' BY <1>1, <1>2, <4>1 DEF PinnedBy
      <4>3. QED BY <1>2, <2>2, <3>2, <4>2 DEF Pins, OneEntryPerFile
    <3>4. CASE cache[m] # worker[w].entry
          BY <1>2, <1>3, <2>2, <3>1, <3>2, <3>4 DEF Pins, OneEntryPerFile
    <3>5. QED BY <3>3, <3>4
  <2>3. QED BY <2>1, <2>2 DEF Pins, OneEntryPerFile
<1>7. QED BY <1>4, <1>5, <1>6 DEF Pins

-------------------------------------------------------------------------------
(* The steps keep the pins.                                                 *)
LEMMA PinsInit == Init => Pins /\ TodoIsFiles
<1> SUFFICES ASSUME Init PROVE Pins /\ TodoIsFiles
    OBVIOUS
<1>1. Shapes BY DEF Init, Shapes, IsEntry, EmptyEntry, Idle
<1>2. HoldsWhilePinned BY DEF Init, HoldsWhilePinned, Holds, Idle
<1>3. OneEntryPerFile BY DEF Init, OneEntryPerFile, Holds, Idle
<1>4. TodoIsFiles BY DEF Init, TodoIsFiles
<1>5. QED BY <1>1, <1>2, <1>3, <1>4 DEF Pins

LEMMA TodoStep == TodoIsFiles /\ [Next]_vars => TodoIsFiles'
<1> SUFFICES ASSUME TodoIsFiles, [Next]_vars PROVE TodoIsFiles'
    OBVIOUS
<1>1. ASSUME NEW t \in Threads, Call(t) \/ Work(t) \/ Return(t) PROVE todo' = todo
      BY <1>1 DEF Call, Return, Work, Look, MakeFile, DeleteFile, WriteMeta, WriteFile,
                  WriteAtOp, WriteOver, AppendData, WriteFails, CompactIJson,
                  AppendIJson, Leave
<1>2. ASSUME NEW f \in Flushers, StartFlush(f) \/ FlushStep(f) PROVE TodoIsFiles'
  <2>1. CASE StartFlush(f)
        BY <2>1 DEF StartFlush, Dirty, Pinned, TodoIsFiles
  <2>2. CASE FlushStep(f)
    <3>1. todo' \in {todo, [todo EXCEPT ![f] = {}]} \/ \E n : todo' = [todo EXCEPT ![f] = @ \ {n}]
          BY <2>2 DEF FlushStep, FlushNext, FlushEntry, FlushUnpin, EndFlush
    <3>2. QED BY <3>1 DEF TodoIsFiles
  <2>3. QED BY <1>2, <2>1, <2>2
<1>3. CASE Restart BY <1>3 DEF Restart, TodoIsFiles
<1>4. CASE UNCHANGED vars BY <1>4 DEF vars, TodoIsFiles
<1>5. QED BY <1>1, <1>2, <1>3, <1>4 DEF Next, TodoIsFiles

LEMMA PinsStep == Pins /\ TodoIsFiles /\ [Next]_vars => Pins'
<1> SUFFICES ASSUME Pins, TodoIsFiles, [Next]_vars PROVE Pins'
    OBVIOUS
<1>1. ASSUME NEW t \in Threads, Call(t) PROVE Pins'
  <2>1. t \in Workers /\ ~Holds(t)
        BY <1>1 DEF Call, Workers, Pins, HoldsWhilePinned
  <2>2. QED BY <1>1, <2>1, PinStep DEF Call
<1>2. ASSUME NEW t \in Threads, Work(t) PROVE Pins'
  <2>1. t \in Workers /\ Locked(t)
        BY <1>2 DEF Workers, Work, Look, MakeFile, DeleteFile, WriteMeta, WriteFile,
                    WriteAtOp, AppendData, WriteFails, CompactIJson, AppendIJson, Exists
  <2>2. IsEntry(Entry(t)) /\ SamePins(Entry(t), Entry(t))
        BY <2>1 DEF Locked, Entry, SamePins, Pins, Shapes, HoldsWhilePinned, Holds
  <2>3. SamePins(Entry(t), Loaded(t)) BY <2>2, LoadKeeps DEF Loaded
  <2>4. ASSUME NEW e, SamePins(Entry(t), e), NEW row, Leave(t, e, row) PROVE Pins'
        BY <2>1, <2>4, LockedStep DEF Leave
  <2>5. ASSUME NEW e, SamePins(Entry(t), e), NEW off, NEW d, NEW replace
        PROVE  SamePins(Entry(t), WriteAt(e, off, d, replace))
        BY <2>5, WriteAtKeeps DEF SamePins
  <2>6. ASSUME NEW off, NEW d PROVE SamePins(Entry(t), Over(Loaded(t), Row(t), off, d))
    <3>1. ASSUME NEW idxs PROVE SamePins(Entry(t), LoadParts(Loaded(t), Row(t), idxs))
          BY <2>3, LoadPartsKeeps DEF SamePins
    <3>2. QED BY <2>5, <3>1 DEF Over
  <2>7. ASSUME NEW e, SamePins(Entry(t), e), NEW c \in Compacted(e)
        PROVE  SamePins(Entry(t), c)
        BY <2>5, <2>7 DEF Compacted
  <2>8. CASE Look(t) BY <2>2, <2>4, <2>8 DEF Look
  <2>9. CASE MakeFile(t) BY <2>2, <2>4, <2>9 DEF MakeFile
  <2>10. CASE DeleteFile(t)
         BY <2>2, <2>4, <2>10, ClearKeeps DEF DeleteFile
  <2>11. CASE WriteMeta(t)
    <3>1. ASSUME NEW file PROVE SamePins(Entry(t), [Loaded(t) EXCEPT !.file = file])
          BY <2>3 DEF SamePins, IsEntry
    <3>2. PICK file : Leave(t, [Loaded(t) EXCEPT !.file = file], Row(t))
          BY <2>11 DEF WriteMeta, WithMeta
    <3>3. QED BY <2>4, <3>1, <3>2
  <2>12. CASE WriteFile(t)
    <3>1. PICK d \in Inputs :
            \E r \in FlushResults(WriteAt(Loaded(t), 0, d, TRUE), Row(t), TRUE) :
              Leave(t, r.e, r.row)
          BY <2>12 DEF WriteFile
    <3>. PICK r \in FlushResults(WriteAt(Loaded(t), 0, d, TRUE), Row(t), TRUE) :
           Leave(t, r.e, r.row)
         BY <3>1
    <3>2. SamePins(Entry(t), WriteAt(Loaded(t), 0, d, TRUE)) BY <2>3, <2>5
    <3>3. SamePins(WriteAt(Loaded(t), 0, d, TRUE), r.e)
          BY <3>2, FlushKeeps DEF SamePins
    <3>4. SamePins(Entry(t), r.e) BY <3>2, <3>3 DEF SamePins
    <3>5. QED BY <2>4, <3>4
  <2>13. CASE WriteAtOp(t)
         BY <2>4, <2>6, <2>13 DEF WriteAtOp, WriteOver
  <2>14. CASE AppendData(t)
         BY <2>4, <2>6, <2>14 DEF AppendData, WriteOver
  <2>15. CASE WriteFails(t) BY <2>3, <2>4, <2>15 DEF WriteFails
  <2>16. CASE CompactIJson(t)
         BY <2>3, <2>4, <2>7, <2>16 DEF CompactIJson
  <2>17. CASE AppendIJson(t)
    <3>0. PICK d \in Commands :
            \E g : /\ g \in {Commanded(Loaded(t), Row(t), d)}
                            \cup UNION {{c} \cup Compacted(c) :
                                        c \in Counted(Commanded(Loaded(t), Row(t), d))}
                  /\ Leave(t, g, Row(t))
          BY <2>17 DEF AppendIJson
    <3>1. PICK g :
            /\ g \in {Commanded(Loaded(t), Row(t), d)}
                    \cup UNION {{c} \cup Compacted(c) :
                                c \in Counted(Commanded(Loaded(t), Row(t), d))}
            /\ Leave(t, g, Row(t))
          BY <3>0
    <3>2. PICK e : e = Commanded(Loaded(t), Row(t), d)
          OBVIOUS
    <3>3. SamePins(Entry(t), e) BY <2>5, <2>6, <3>2 DEF Commanded
    <3>4. ASSUME NEW c \in Counted(e) PROVE SamePins(Entry(t), c)
      <4>1. ASSUME NEW file PROVE SamePins(Entry(t), [e EXCEPT !.file = file])
            BY <3>3 DEF SamePins, IsEntry
      <4>2. PICK file : c = [e EXCEPT !.file = file] BY DEF Counted, WithMeta
      <4>3. QED BY <4>1, <4>2
    <3>5. g = e \/ \E c \in Counted(e) : g = c \/ g \in Compacted(c)
          BY <3>1, <3>2
    <3>6. SamePins(Entry(t), g) BY <2>7, <3>3, <3>4, <3>5
    <3>7. QED BY <2>4, <3>1, <3>6
  <2>18. QED BY <1>2, <2>8, <2>9, <2>10, <2>11, <2>12, <2>13, <2>14, <2>15, <2>16, <2>17
             DEF Work
<1>3. ASSUME NEW t \in Threads, Return(t) PROVE Pins'
  <2>1. t \in Workers BY DEF Workers
  <2>2. [Idle EXCEPT !.pc = "idle"] = Idle BY DEF Idle
  <2>3. QED BY <1>3, <2>1, <2>2, UnpinStep DEF Return
<1>4. ASSUME NEW f \in Flushers, StartFlush(f) \/ EndFlush(f) PROVE Pins'
  <2>1. f \in Workers BY DEF Workers
  <2>2. /\ cache' = cache /\ heap' = heap
        /\ \A v \in Workers : /\ Holds(v)' <=> Holds(v)
                              /\ Holds(v) => worker'[v] = worker[v]
        BY <1>4, <2>1 DEF StartFlush, EndFlush, Pins, Shapes, HoldsWhilePinned, Holds, Idle
  <2>3. \A m : PinnedBy(m)' = PinnedBy(m)
        BY <2>2 DEF PinnedBy
  <2>4. Shapes'
        BY <1>4, <2>1, <2>2 DEF StartFlush, EndFlush, Pins, Shapes, Idle
  <2>5. HoldsWhilePinned'
        BY <1>4, <2>1, <2>2 DEF StartFlush, EndFlush, Pins, Shapes, HoldsWhilePinned, Idle
  <2>6. OneEntryPerFile'
        BY <2>2, <2>3 DEF Pins, OneEntryPerFile
  <2>7. QED BY <2>4, <2>5, <2>6 DEF Pins
<1>5. ASSUME NEW f \in Flushers, FlushNext(f) PROVE Pins'
  <2>1. f \in Workers /\ ~Holds(f)
        BY <1>5 DEF FlushNext, Workers, Pins, HoldsWhilePinned
  <2>2. PICK n \in todo[f] : getEntryAndPin(f, n) BY <1>5 DEF FlushNext
  <2>3. n \in Names
        BY <2>2 DEF TodoIsFiles
  <2>4. QED BY <2>1, <2>2, <2>3, PinStep
<1>6. ASSUME NEW f \in Flushers, NEW ok \in BOOLEAN, FlushEntry(f, ok) PROVE Pins'
  <2>1. f \in Workers /\ Locked(f) BY <1>6 DEF Workers, FlushEntry
  <2>2. IsEntry(Entry(f))
        BY <2>1 DEF Locked, Entry, Pins, Shapes, HoldsWhilePinned, Holds
  <2>3. PICK r \in FlushResults(Entry(f), Row(f), FALSE) :
          heap' = [heap EXCEPT ![worker[f].entry] = r.e]
        BY <1>6 DEF FlushEntry
  <2>4. SamePins(Entry(f), r.e) BY <2>2, FlushKeeps
  <2>5. QED BY <1>6, <2>1, <2>3, <2>4, LockedStep DEF FlushEntry
<1>7. ASSUME NEW f \in Flushers, FlushUnpin(f) PROVE Pins'
  <2>1. f \in Workers BY DEF Workers
  <2>2. QED BY <1>7, <2>1, UnpinStep DEF FlushUnpin
<1>8. CASE Restart
  <2>1. Shapes' BY <1>8 DEF Restart, Shapes, IsEntry, EmptyEntry, Idle
  <2>2. HoldsWhilePinned' BY <1>8 DEF Restart, HoldsWhilePinned, Holds, Idle
  <2>3. OneEntryPerFile' BY <1>8 DEF Restart, OneEntryPerFile, Holds, Idle
  <2>4. QED BY <2>1, <2>2, <2>3 DEF Pins
<1>9. CASE UNCHANGED vars
      BY <1>9 DEF vars, Pins, Shapes, HoldsWhilePinned, OneEntryPerFile, PinnedBy, Holds
<1>10. QED BY <1>1, <1>2, <1>3, <1>4, <1>5, <1>6, <1>7, <1>8, <1>9
           DEF Next, FlushStep

-------------------------------------------------------------------------------
(* What is stored: rows and entries are of their types, a file that is in   *)
(* the cache has a row of its kind, and a cache entry without a file has no *)
(* parts.                                                                   *)
PartsOK(parts) == \A i \in DOMAIN parts, j \in 1 .. PartSize : parts[i][j] \in Nat

RowOK(row) ==
  /\ row = [file |-> row.file, parts |-> row.parts]
  /\ row.file = NoFile \/ row.file \in Headers
  /\ PartsOK(row.parts)

EntryOK(e, row) ==
  /\ IsEntry(e) /\ PartsOK(e.parts)
  /\ e.file = NoFile => e.parts = << >>
  /\ e.file # NoFile => e.file \in Headers /\ row.file # NoFile /\ e.file.circ = row.file.circ

StoreInv ==
  /\ db = [n \in Names |-> db[n]]
  /\ \A n \in Names : RowOK(db[n]) /\ EntryOK(EntryOf(n), db[n])

-------------------------------------------------------------------------------
(* Parts and positions.                                                     *)
LEMMA DivMod ==
  ASSUME NEW n \in Nat, NEW k \in Nat \ {0}
  PROVE  n = k * (n \div k) + (n % k) /\ n % k \in 0 .. k - 1 /\ n \div k \in Nat
BY SMT

LEMMA NoneBetween ==
  ASSUME NEW k \in Nat \ {0}, NEW x \in Int, NEW r \in 0 .. k - 1, NEW s \in 0 .. k - 1,
         k * x + r = s
  PROVE  x = 0 /\ r = s
<1>1. CASE x >= 1
  <2>1. k * x >= k BY <1>1, SMT
  <2>2. QED BY <2>1
<1>2. CASE x <= -1
  <2>1. k * x <= -k BY <1>2, SMT
  <2>2. QED BY <2>1
<1>3. QED BY <1>1, <1>2

LEMMA DivModUnique ==
  ASSUME NEW n \in Nat, NEW k \in Nat \ {0}, NEW a \in Nat, NEW r \in 0 .. k - 1, n = k * a + r
  PROVE  n \div k = a /\ n % k = r
<1>1. PICK b \in Nat, s \in 0 .. k - 1 : n \div k = b /\ n % k = s /\ n = k * b + s
      BY DivMod
<1>2. k * (a - b) = k * a - k * b /\ a - b \in Int
      BY SMT
<1>3. k * (a - b) + r = s
      BY <1>1, <1>2
<1>4. a - b = 0 /\ r = s BY <1>2, <1>3, NoneBetween
<1>5. QED BY <1>1, <1>4

\* A circular file has room for a whole number of parts.
PartCount == MaxSize \div PartSize

LEMMA Parts == PartCount \in Nat \ {0} /\ MaxSize = PartSize * PartCount
<1>1. /\ MaxSize = PartSize * (MaxSize \div PartSize) + (MaxSize % PartSize)
      /\ MaxSize \div PartSize \in Nat
      BY PartsAssumption, DivMod
<1>2. QED BY <1>1, PartsAssumption DEF PartCount

\* Positions of one slot are as far apart as the file is long.
LEMMA SlotsApart ==
  ASSUME NEW file, NEW p \in Nat, NEW q \in Nat, Slot(file, p) = Slot(file, q)
  PROVE  /\ ~ file.circ => p = q
         /\ file.circ => \E t \in Int : q = p + MaxSize * t
<1> DEFINE a == p \div PartSize
           b == q \div PartSize
           r == p % PartSize
<1>1. /\ a \in Nat /\ b \in Nat /\ r \in Nat
      /\ p = PartSize * a + r /\ q = PartSize * b + (q % PartSize)
  <2>1. p = PartSize * a + r /\ r \in 0 .. PartSize - 1 /\ a \in Nat
        BY PartsAssumption, DivMod, Zenon
  <2>2. q = PartSize * b + (q % PartSize) /\ b \in Nat
        BY PartsAssumption, DivMod, Zenon
  <2> HIDE DEF a, b, r
  <2>3. QED BY <2>1, <2>2
<1>2. q % PartSize = r /\ PartIdx(file, p) = PartIdx(file, q)
  <2>1. q % PartSize \in Nat BY PartsAssumption, DivMod
  <2>2. QED BY <1>1, <2>1 DEF Slot
<1> HIDE DEF r
<1>3. CASE ~ file.circ
      BY <1>1, <1>2, <1>3 DEF PartIdx
<1>4. CASE file.circ
  <2>1. a % PartCount = b % PartCount
        BY <1>2, <1>4 DEF PartIdx, PartCount
  <2> HIDE DEF a, b
  <2>2. PICK x \in Nat, y \in Nat, s \in Nat : a = PartCount * x + s /\ b = PartCount * y + s
    <3> DEFINE s == a % PartCount
    <3>1. a = PartCount * (a \div PartCount) + s /\ s \in 0 .. PartCount - 1
          /\ a \div PartCount \in Nat
          BY <1>1, Parts, DivMod, Zenon
    <3>2. b = PartCount * (b \div PartCount) + s /\ b \div PartCount \in Nat
          BY <1>1, <2>1, Parts, DivMod, Zenon
    <3> HIDE DEF s
    <3>3. s \in Nat BY <3>1, Parts
    <3>4. QED BY <3>1, <3>2, <3>3, Zenon
  <2>3. PartSize * b - PartSize * a = (PartSize * PartCount) * (y - x)
    <3>1. PartSize \in Nat /\ PartCount \in Nat BY PartsAssumption, Parts
    <3>2. QED BY <2>2, <3>1, SMT
  <2>4. q = p + MaxSize * (y - x) /\ y - x \in Int
    <3>1. MaxSize * (y - x) = PartSize * b - PartSize * a BY <2>3, Parts
    <3>2. PartSize * b \in Int /\ PartSize * a \in Int BY <1>1, PartsAssumption
    <3>3. QED BY <1>1, <1>2, <3>1, <3>2
  <2>5. QED BY <1>4, <2>4
<1>5. QED BY <1>3, <1>4

LEMMA OneSlot ==
  ASSUME NEW file \in Headers, NEW p \in Nat, NEW q \in Nat, Slot(file, p) = Slot(file, q),
         file.circ => q < p + MaxSize /\ p < q + MaxSize
  PROVE  p = q
<1>1. CASE ~ file.circ BY <1>1, SlotsApart
<1>2. CASE file.circ
  <2>1. PICK t \in Int : q = p + MaxSize * t BY <1>2, SlotsApart
  <2>2. t = 0
    <3>1. MaxSize \in Nat \ {0} BY PartsAssumption
    <3>2. t >= 1 => MaxSize * t >= MaxSize BY <3>1, SMT
    <3>3. t <= -1 => MaxSize * t <= - MaxSize BY <3>1, SMT
    <3>4. MaxSize * t \in Int BY <3>1
    <3>5. MaxSize * t < MaxSize /\ - MaxSize < MaxSize * t BY <1>2, <2>1, <3>1, <3>4
    <3>6. QED BY <3>1, <3>2, <3>3, <3>4, <3>5
  <2>3. QED BY <2>1, <2>2, PartsAssumption
<1>3. QED BY <1>1, <1>2 DEF Headers

\* The positions of a part that starts at o.
LEMMA InPart ==
  ASSUME NEW file, NEW o \in Nat, o % PartSize = 0, NEW j \in 0 .. PartSize - 1
  PROVE  PartIdx(file, o + j) = PartIdx(file, o) /\ (o + j) % PartSize = j
<1>1. PICK a \in Nat : o = PartSize * a /\ o \div PartSize = a
  <2>1. o = PartSize * (o \div PartSize) + (o % PartSize) /\ o \div PartSize \in Nat
        BY PartsAssumption, DivMod, Zenon
  <2>2. PartSize * (o \div PartSize) \in Nat BY <2>1, PartsAssumption
  <2>3. o = PartSize * (o \div PartSize) BY <2>1, <2>2
  <2>4. QED BY <2>1, <2>3, Zenon
<1>2. o + j \in Nat /\ o + j = PartSize * a + j
      BY <1>1, PartsAssumption
<1>3. (o + j) \div PartSize = a /\ (o + j) % PartSize = j
      BY <1>2, PartsAssumption, DivModUnique, Zenon
<1>4. QED BY <1>1, <1>3 DEF PartIdx

\* A part of a circular file comes again when the file has gone round.
LEMMA RoundAgain ==
  ASSUME NEW file, file.circ, NEW o \in Nat, o % PartSize = 0, NEW t \in Nat
  PROVE  /\ o + MaxSize * t \in Nat /\ (o + MaxSize * t) % PartSize = 0
         /\ PartIdx(file, o + MaxSize * t) = PartIdx(file, o)
<1>0. PartSize \in Nat \ {0} /\ PartCount \in Nat \ {0} /\ MaxSize \in Nat
      BY Parts, PartsAssumption
<1>1. PICK a \in Nat : o = PartSize * a /\ o \div PartSize = a
  <2>1. o = PartSize * (o \div PartSize) + (o % PartSize) /\ o \div PartSize \in Nat
        BY PartsAssumption, DivMod, Zenon
  <2>2. PartSize * (o \div PartSize) \in Nat BY <2>1, PartsAssumption
  <2>3. o = PartSize * (o \div PartSize) BY <2>1, <2>2
  <2>4. QED BY <2>1, <2>3, Zenon
<1>2. PICK x \in Nat, s \in 0 .. PartCount - 1 : a = PartCount * x + s /\ a % PartCount = s
      BY <1>0, DivMod, Zenon
<1>3. PICK b \in Nat : b = a + PartCount * t
      BY <1>0
<1>4. o + MaxSize * t = PartSize * b
  <2>1. PartSize * b = PartSize * a + (PartSize * PartCount) * t
        BY <1>0, <1>3, SMT
  <2>2. QED BY <1>1, <2>1, Parts
<1>5. PartSize * b \in Nat /\ 0 \in 0 .. PartSize - 1 /\ PartSize * b = PartSize * b + 0
      BY <1>0
<1>6. (PartSize * b) \div PartSize = b /\ (PartSize * b) % PartSize = 0
  <2>1. PICK m \in Nat, r \in 0 .. PartSize - 1 : m = PartSize * b /\ r = 0 /\ m = PartSize * b + r
        BY <1>5
  <2>2. PartSize \in Nat \ {0} /\ m = PartSize * b + r
        BY <1>0, <2>1
  <2>3. m \div PartSize = b /\ m % PartSize = r
        BY ONLY <2>2, DivModUnique, m \in Nat, b \in Nat, r \in 0 .. PartSize - 1, Zenon
  <2>4. QED BY <2>1, <2>3, Zenon
<1>7. b = PartCount * (x + t) + s /\ x + t \in Nat
  <2>1. PartCount * (x + t) = PartCount * x + PartCount * t BY <1>0, SMT
  <2>2. PartCount * x \in Nat /\ PartCount * t \in Nat BY <1>0
  <2>3. QED BY <1>2, <1>3, <2>1, <2>2
<1>8. b % PartCount = s
      BY <1>0, <1>7, DivModUnique, Zenon
<1>9. QED BY <1>1, <1>2, <1>4, <1>5, <1>6, <1>8 DEF PartIdx, PartCount

\* A write has a last visit to each part, after which the file does not come round again.
LEMMA LastStartOK ==
  ASSUME NEW file \in Headers, NEW off \in Nat, NEW n \in Nat, NEW o \in Starts(off, n)
  PROVE  LET last == LastStart(file, off, n, PartIdx(file, o))
         IN  /\ last \in Starts(off, n) /\ PartIdx(file, last) = PartIdx(file, o)
             /\ file.circ => off + n <= last + MaxSize
<1> DEFINE i == PartIdx(file, o)
           IsLast(w) == /\ PartIdx(file, w) = i
                        /\ \A q \in Starts(off, n) : PartIdx(file, q) = i => q <= w
<1>0. MaxSize \in Nat \ {0} /\ PartSize \in Nat \ {0} /\ file.circ \in BOOLEAN
      BY PartsAssumption DEF Headers
<1>1. \A q \in Starts(off, n) : /\ q \in Nat /\ q % PartSize = 0 /\ q < off + n
                                /\ q + PartSize > off
      BY <1>0 DEF Starts
<1>2. \A q \in Nat : q % PartSize = 0 /\ q < off + n /\ q + PartSize > off => q \in Starts(off, n)
      BY <1>0 DEF Starts
<1>3. \A q \in Starts(off, n) : PartIdx(file, q) = i => Slot(file, q) = Slot(file, o)
      BY <1>1 DEF Slot
<1>4. \E w \in Starts(off, n) : IsLast(w)
  <2>1. CASE ~ file.circ
    <3>1. \A q \in Starts(off, n) : PartIdx(file, q) = i => q = o
          BY <1>1, <1>3, <2>1, SlotsApart
    <3>2. IsLast(o) BY <1>1, <3>1
    <3>3. QED BY <3>2
  <2>2. CASE file.circ
    <3> DEFINE left == off + n - 1 - o
    <3>1. left \in Nat BY <1>1
    <3>2. PICK t \in Nat, r \in 0 .. MaxSize - 1 : left = MaxSize * t + r
          BY <1>0, <3>1, DivMod, Zenon
    <3>3. PICK w \in Nat : w = o + MaxSize * t /\ w % PartSize = 0 /\ PartIdx(file, w) = i
          BY <1>1, <2>2, RoundAgain
    <3>4. w + r = off + n - 1 /\ w >= o
      <4>1. MaxSize * t \in Nat BY <1>0
      <4>2. QED BY <1>1, <3>2, <3>3, <4>1
    <3>5. w \in Starts(off, n)
          BY <1>0, <1>1, <1>2, <3>3, <3>4
    <3>6. ASSUME NEW q \in Starts(off, n), PartIdx(file, q) = i
          PROVE  q <= w
      <4>1. PICK u \in Int : q = o + MaxSize * u
            BY <1>1, <1>3, <2>2, <3>6, SlotsApart
      <4>2. q - w = MaxSize * (u - t) /\ u - t \in Int
        <5>1. MaxSize * (u - t) = MaxSize * u - MaxSize * t BY <1>0, SMT
        <5>2. MaxSize * u \in Int /\ MaxSize * t \in Int BY <1>0
        <5>3. QED BY <1>1, <3>3, <4>1, <5>1, <5>2
      <4>3. q - w < MaxSize /\ q \in Nat
            BY <1>0, <1>1, <3>4
      <4>4. u - t >= 1 => MaxSize * (u - t) >= MaxSize BY <1>0, <4>2, SMT
      <4>5. MaxSize * (u - t) \in Int BY <1>0
      <4>6. u - t <= 0 BY <1>0, <4>2, <4>3, <4>4, <4>5
      <4>7. MaxSize * (u - t) <= 0 BY <1>0, <4>2, <4>6, SMT
      <4>8. QED BY <4>2, <4>3, <4>5, <4>7
    <3>7. QED BY <3>3, <3>5, <3>6
  <2>3. QED BY <1>0, <2>1, <2>2
<1>5. LastStart(file, off, n, i) = CHOOSE w \in Starts(off, n) : IsLast(w)
      BY DEF LastStart
<1>6. PICK w \in Starts(off, n) : w = LastStart(file, off, n, i) /\ IsLast(w)
      BY <1>4, <1>5, Zenon
<1>7. file.circ => off + n <= w + MaxSize
  <2> SUFFICES ASSUME file.circ, w + MaxSize < off + n PROVE FALSE
      BY <1>0, <1>1
  <2>1. PICK v \in Nat : v = w + MaxSize * 1 /\ v % PartSize = 0 /\ PartIdx(file, v) = i
        BY <1>1, <1>6, RoundAgain
  <2>2. v = w + MaxSize BY <1>0, <2>1
  <2>3. v \in Starts(off, n) BY <1>0, <1>1, <1>2, <2>1, <2>2
  <2>4. v <= w BY <1>6, <2>1, <2>3
  <2>5. QED BY <1>0, <1>1, <2>2, <2>4
<1>8. QED BY <1>6, <1>7

\* A part that is not loaded is written from its first byte to its last.
LEMMA CompleteIsCovered ==
  ASSUME NEW file \in Headers, NEW off \in Nat, NEW n \in Nat,
         NEW i \in DOMAIN PartMap(file, off, n), PartMap(file, off, n)[i] = PartSize
  PROVE  \E o \in Nat : /\ o % PartSize = 0 /\ PartIdx(file, o) = i
                        /\ off <= o /\ o + PartSize <= off + n
                        /\ file.circ => off + n <= o + MaxSize
<1>1. PICK q \in Starts(off, n) : i = PartIdx(file, q)
      BY DEF PartMap
<1>2. PICK o \in Starts(off, n) :
        /\ o = LastStart(file, off, n, i) /\ PartIdx(file, o) = i
        /\ file.circ => off + n <= o + MaxSize
      BY <1>1, LastStartOK, Zenon
<1>3. Covered(off, n, o) = PartSize
      BY <1>2 DEF PartMap
<1>4. o \in Nat /\ o % PartSize = 0
      BY DEF Starts
<1>5. off <= o /\ o + PartSize <= off + n
  <2>1. PartSize \in Nat \ {0} BY PartsAssumption
  <2>2. QED BY <1>3, <1>4, <2>1 DEF Covered
<1>6. QED BY <1>2, <1>4, <1>5

LEMMA EachIsVisited ==
  ASSUME NEW file, NEW off \in Nat, NEW n \in Nat, NEW p \in off .. off + n - 1
  PROVE  PartIdx(file, p) \in DOMAIN PartMap(file, off, n)
<1>1. PICK a \in Nat, j \in 0 .. PartSize - 1 : p = PartSize * a + j /\ p % PartSize = j
  <2>1. p \in Nat OBVIOUS
  <2>2. QED BY <2>1, PartsAssumption, DivMod, Zenon
<1>2. PICK o \in Nat : o = PartSize * a
      BY PartsAssumption
<1>3. PICK r \in 0 .. PartSize - 1 : r = 0
      BY PartsAssumption
<1>4. o = PartSize * a + r
      BY <1>2, <1>3, PartsAssumption
<1>5. o % PartSize = r
  <2>1. PartSize \in Nat \ {0} BY PartsAssumption
  <2>2. QED BY <1>4, <2>1, DivModUnique, Zenon
<1>6. p = o + j /\ PartSize \in Nat
      BY <1>1, <1>2, PartsAssumption
<1>7. o \in Starts(off, n)
      BY <1>3, <1>5, <1>6 DEF Starts
<1>8. PartIdx(file, p) = PartIdx(file, o)
      BY <1>3, <1>5, <1>6, InPart
<1>9. QED BY <1>7, <1>8 DEF PartMap

-------------------------------------------------------------------------------
(* What a write leaves in the parts.                                        *)
ByteOf(file, parts, p) == parts[PartIdx(file, p)][(p % PartSize) + 1]

LEMMA OffsetOK ==
  ASSUME NEW p \in Nat PROVE (p % PartSize) + 1 \in 1 .. PartSize
<1>1. p % PartSize \in 0 .. PartSize - 1
      BY PartsAssumption, DivMod, Zenon
<1>2. QED BY <1>1, PartsAssumption

\* The parts new hold what d writes from first on, and the rest of parts.
IsPatched(new, file, parts, first, off, d) ==
  /\ PartsOK(new) /\ DOMAIN parts \subseteq DOMAIN new
  /\ \A p \in first .. off + Len(d) - 1 :
       PartIdx(file, p) \in DOMAIN new /\ ByteOf(file, new, p) = d[p - off + 1]
  /\ \A p \in Nat :
       /\ p \notin first .. off + Len(d) - 1 /\ PartIdx(file, p) \in DOMAIN new
       /\ file.circ => p + MaxSize >= off + Len(d) /\ p < first + MaxSize
       => ByteOf(file, new, p) = IF PartIdx(file, p) \in DOMAIN parts
                                 THEN ByteOf(file, parts, p) ELSE 0
  /\ \A i \in DOMAIN new \ DOMAIN parts :
       \E p \in first .. off + Len(d) - 1 : i = PartIdx(file, p)

LEMMA PatchedOK ==
  ASSUME NEW file \in Headers, NEW off \in Nat, NEW d \in Seq(Nat), NEW first \in Nat,
         off <= first, file.circ => off + Len(d) <= first + MaxSize,
         NEW parts, PartsOK(parts)
  PROVE  IsPatched(Patched(file, parts, first, off, d), file, parts, first, off, d)
<1> DEFINE end == off + Len(d)
           span == first .. end - 1
           Hits(i, j) == \E p \in span : Slot(file, p) = <<i, j>>
           Byte(i, j) == IF Hits(i, j)
                         THEN d[(CHOOSE p \in span : Slot(file, p) = <<i, j>>) - off + 1]
                         ELSE IF i \in DOMAIN parts THEN parts[i][j] ELSE 0
<1>0. /\ end \in Nat /\ MaxSize \in Nat \ {0} /\ Len(d) \in Nat
      /\ \A p \in span : p \in Nat /\ p - off + 1 \in 1 .. Len(d) /\ p >= first /\ p < end
      /\ \A k \in 1 .. Len(d) : d[k] \in Nat
      BY PartsAssumption
<1> PICK new : new = Patched(file, parts, first, off, d)
    OBVIOUS
<1>1. new = [i \in DOMAIN parts \cup {PartIdx(file, p) : p \in span} |->
               [j \in 1 .. PartSize |-> Byte(i, j)]]
      BY DEF Patched
<1>2. /\ DOMAIN new = DOMAIN parts \cup {PartIdx(file, p) : p \in span}
      /\ \A i \in DOMAIN new, j \in 1 .. PartSize : new[i][j] = Byte(i, j)
      BY <1>1
<1>3. ASSUME NEW p \in span, NEW q \in span, Slot(file, p) = Slot(file, q) PROVE p = q
      BY <1>0, <1>3, OneSlot
<1>4. ASSUME NEW p \in span PROVE Byte(PartIdx(file, p), (p % PartSize) + 1) = d[p - off + 1]
  <2>1. PICK i, j : i = PartIdx(file, p) /\ j = (p % PartSize) + 1 /\ Slot(file, p) = <<i, j>>
        BY DEF Slot
  <2>2. PICK q \in span : /\ q = CHOOSE x \in span : Slot(file, x) = <<i, j>>
                          /\ Slot(file, q) = <<i, j>>
        BY <2>1, Zenon
  <2>3. q = p BY <1>3, <2>1, <2>2
  <2>4. Hits(i, j) BY <2>1
  <2>5. Byte(i, j) = d[q - off + 1]
        BY <2>2, <2>4, Zenon
  <2>6. QED BY <2>1, <2>3, <2>5
<1> HIDE DEF Byte
<1>5. ASSUME NEW i \in DOMAIN new, NEW j \in 1 .. PartSize PROVE new[i][j] \in Nat
  <2>1. CASE Hits(i, j)
    <3>1. PICK p \in span : Slot(file, p) = <<i, j>> BY <2>1
    <3>2. i = PartIdx(file, p) /\ j = (p % PartSize) + 1 BY <3>1 DEF Slot
    <3>3. QED BY <1>0, <1>2, <1>4, <3>2
  <2>2. CASE ~ Hits(i, j)
    <3>1. Byte(i, j) = IF i \in DOMAIN parts THEN parts[i][j] ELSE 0 BY <2>2 DEF Byte
    <3>2. QED BY <1>2, <3>1 DEF PartsOK
  <2>3. QED BY <2>1, <2>2
<1>6. ASSUME NEW p \in span
      PROVE  PartIdx(file, p) \in DOMAIN new /\ ByteOf(file, new, p) = d[p - off + 1]
      BY <1>0, <1>2, <1>4, OffsetOK DEF ByteOf
<1>7. ASSUME NEW p \in Nat, p \notin span, PartIdx(file, p) \in DOMAIN new,
             file.circ => p + MaxSize >= end /\ p < first + MaxSize
      PROVE  ByteOf(file, new, p) = IF PartIdx(file, p) \in DOMAIN parts
                                    THEN ByteOf(file, parts, p) ELSE 0
  <2>1. PICK i, j : i = PartIdx(file, p) /\ j = (p % PartSize) + 1 /\ Slot(file, p) = <<i, j>>
        BY DEF Slot
  <2>2. ~ Hits(i, j)
    <3> SUFFICES ASSUME NEW q \in span, Slot(file, q) = <<i, j>> PROVE FALSE
        OBVIOUS
    <3>1. Slot(file, p) = Slot(file, q) BY <2>1
    <3>2. file.circ => q < p + MaxSize /\ p < q + MaxSize BY <1>0, <1>7
    <3>3. p = q BY <1>0, <3>1, <3>2, OneSlot
    <3>4. QED BY <1>7, <3>3
  <2>3. Byte(i, j) = IF i \in DOMAIN parts THEN parts[i][j] ELSE 0
        BY <2>2 DEF Byte
  <2>4. new[i][j] = Byte(i, j)
        BY <1>2, <1>7, <2>1, OffsetOK
  <2>5. QED BY <2>1, <2>3, <2>4 DEF ByteOf
<1>8. \A i \in DOMAIN new \ DOMAIN parts : \E p \in span : i = PartIdx(file, p)
      BY <1>2
<1>9. DOMAIN parts \subseteq DOMAIN new
      BY <1>2
<1>10. QED BY <1>5, <1>6, <1>7, <1>8, <1>9 DEF PartsOK, IsPatched

-------------------------------------------------------------------------------
(* Writes, as they read.                                                    *)
LEMMA LoadReadsSame ==
  ASSUME NEW e, IsEntry(e), PartsOK(e.parts), NEW row, PartsOK(row.parts), NEW idxs,
         NEW f, f = LoadParts(e, row, idxs)
  PROVE  /\ SamePins(e, f) /\ PartsOK(f.parts) /\ f.file = e.file
         /\ DOMAIN f.parts = DOMAIN e.parts \cup (idxs \cap DOMAIN row.parts)
         /\ \A p : ByteIn(f, row, p) = ByteIn(e, row, p)
<1> DEFINE parts == Before(e.parts, [i \in idxs \cap DOMAIN row.parts |-> row.parts[i]])
<1>1. SamePins(e, f)
      BY LoadPartsKeeps
<1>2. f.file = e.file /\ f.parts = parts
      BY DEF LoadParts, IsEntry
<1>3. /\ DOMAIN parts = DOMAIN e.parts \cup (idxs \cap DOMAIN row.parts)
      /\ \A i \in DOMAIN parts : parts[i] = IF i \in DOMAIN e.parts THEN e.parts[i]
                                            ELSE row.parts[i]
      BY DEF Before
<1> HIDE DEF parts
<1>4. PartsOK(parts)
      BY <1>3 DEF PartsOK
<1>5. ASSUME NEW p PROVE ByteIn(f, row, p) = ByteIn(e, row, p)
  <2>1. FileIn(f, row) = FileIn(e, row) BY <1>2 DEF FileIn
  <2>2. PICK i, j : i = PartIdx(FileIn(e, row), p) /\ j = (p % PartSize) + 1
        OBVIOUS
  <2>3. QED BY <1>2, <1>3, <2>1, <2>2 DEF ByteIn
<1>6. QED BY <1>1, <1>2, <1>3, <1>4, <1>5

\* g is e after d was written at off, as it reads.
IsOver(g, e, row, off, d, size) ==
  /\ SamePins(e, g) /\ PartsOK(g.parts) /\ g.file = [e.file EXCEPT !.size = size]
  /\ \A p \in DataStartIdx(g.file) .. size - 1 :
       ByteIn(g, row, p) = IF p \in off .. off + Len(d) - 1 THEN d[p - off + 1]
                           ELSE ByteIn(e, row, p)

LEMMA OverOK ==
  ASSUME NEW e, IsEntry(e), PartsOK(e.parts), NEW file \in Headers, file = e.file,
         NEW row, PartsOK(row.parts), NEW off \in Nat, off >= DataStartIdx(file),
         NEW d \in Seq(Nat), off + Len(d) <= MaxBytes, NEW size \in Nat,
         size = IF off + Len(d) > file.size THEN off + Len(d) ELSE file.size,
         NEW g, g = Over(e, row, off, d)
  PROVE  IsOver(g, e, row, off, d, size)
<1> DEFINE map == PartMap(file, off, Len(d))
<1>1. PICK idxs : idxs = Incomplete(map)
      OBVIOUS
<1>2. PICK f : f = LoadParts(e, row, idxs)
      OBVIOUS
<1>3. /\ SamePins(e, f) /\ IsEntry(f) /\ PartsOK(f.parts) /\ f.file = file
      /\ DOMAIN f.parts = DOMAIN e.parts \cup (idxs \cap DOMAIN row.parts)
      /\ \A p : ByteIn(f, row, p) = ByteIn(e, row, p)
      BY <1>2, LoadReadsSame DEF SamePins
<1>4. g = WriteAt(f, off, d, FALSE)
      BY <1>1, <1>2 DEF Over
<1>5. PICK end \in Nat, old \in Nat : end = off + Len(d) /\ old = file.size
  <2>1. off + Len(d) \in Nat OBVIOUS
  <2>2. file.size \in Nat BY FilesAssumption DEF Headers, Sizes
  <2>3. QED BY <2>1, <2>2
<1>6. /\ file.circ \in BOOLEAN /\ MaxSize \in Nat \ {0} /\ Len(d) \in Nat
      /\ file.circ => old <= off + MaxSize
      /\ size = IF end > old THEN end ELSE old
  <2>1. file.circ \in BOOLEAN /\ MaxSize \in Nat \ {0} /\ Len(d) \in Nat
        BY PartsAssumption DEF Headers
  <2>2. file.circ => old <= off + MaxSize
        BY <1>5, <2>1 DEF DataStartIdx
  <2>3. QED BY <1>5, <2>1, <2>2
<1>7. ASSUME NEW h \in Headers, h.circ = file.circ, NEW p
      PROVE  PartIdx(h, p) = PartIdx(file, p)
      BY <1>7 DEF PartIdx
<1>8. CASE file.circ /\ end <= old - MaxSize
  <2>1. g = f
        BY <1>3, <1>4, <1>5, <1>8 DEF WriteAt
  <2>2. Len(d) = 0 /\ size = old
        BY <1>5, <1>6, <1>8
  <2>3. [file EXCEPT !.size = old] = file
        BY <1>5 DEF Headers
  <2>4. QED BY <1>3, <1>5, <2>1, <2>2, <2>3 DEF IsOver
<1>9. CASE ~ (file.circ /\ end <= old - MaxSize)
  <2>1. PICK first : first = FirstKept(file, old, off, Len(d))
        OBVIOUS
  <2>2. /\ first \in Nat /\ off <= first
        /\ file.circ => end <= first + MaxSize
        /\ first # off => file.circ /\ first = end - MaxSize
        BY <1>5, <1>6, <2>1 DEF FirstKept
  <2>3. PICK new : new = Patched(file, f.parts, first, off, d)
        OBVIOUS
  <2>4. g = [f EXCEPT !.file = [file EXCEPT !.size = size], !.parts = new]
    <3>1. (IF end > old \/ FALSE THEN end ELSE old) = size BY <1>6
    <3>2. QED BY <1>3, <1>4, <1>5, <1>9, <2>1, <2>3, <3>1 DEF WriteAt
  <2>5. PICK h : h = [file EXCEPT !.size = size]
        OBVIOUS
  <2>6. h.circ = file.circ /\ h.size = size /\ h \in Headers
    <3>1. size \in Sizes BY <1>5, <1>6, FilesAssumption DEF Headers, Sizes
    <3>2. QED BY <2>5, <3>1 DEF Headers
  <2>7. SamePins(e, g) /\ g.file = h /\ g.parts = new
        BY <1>3, <2>4, <2>5 DEF SamePins, IsEntry
  <2>8. /\ PartsOK(new) /\ DOMAIN f.parts \subseteq DOMAIN new
        /\ \A p \in first .. end - 1 :
             PartIdx(file, p) \in DOMAIN new /\ ByteOf(file, new, p) = d[p - off + 1]
        /\ \A p \in Nat :
             /\ p \notin first .. end - 1 /\ PartIdx(file, p) \in DOMAIN new
             /\ file.circ => p + MaxSize >= end /\ p < first + MaxSize
             => ByteOf(file, new, p) = IF PartIdx(file, p) \in DOMAIN f.parts
                                       THEN ByteOf(file, f.parts, p) ELSE 0
        /\ \A i \in DOMAIN new \ DOMAIN f.parts :
             \E p \in first .. end - 1 : i = PartIdx(file, p)
    <3>1. /\ file.circ => off + Len(d) <= first + MaxSize
          /\ PartsOK(f.parts) /\ first \in Nat /\ off <= first
          BY <1>3, <1>5, <2>2
    <3>2. IsPatched(new, file, f.parts, first, off, d)
          BY <2>3, <3>1, PatchedOK, Zenon
    <3>3. QED BY <1>5, <3>2 DEF IsPatched
  <2>9. ASSUME NEW p \in DataStartIdx(h) .. size - 1
        PROVE  ByteIn(g, row, p) = IF p \in off .. end - 1 THEN d[p - off + 1]
                                   ELSE ByteIn(f, row, p)
    <3>1. p \in Nat /\ p < size /\ (file.circ => p + MaxSize >= size)
          BY <1>6, <2>6, <2>9 DEF DataStartIdx
    <3>2. PICK i, j : i = PartIdx(file, p) /\ j = (p % PartSize) + 1
          OBVIOUS
    <3>3. ByteIn(g, row, p) = IF i \in DOMAIN new THEN new[i][j]
                              ELSE IF i \in DOMAIN row.parts THEN row.parts[i][j] ELSE 0
      <4>1. FileIn(g, row) = h BY <2>6, <2>7, FilesAssumption DEF FileIn
      <4>2. PartIdx(h, p) = i BY <1>7, <2>6, <3>2
      <4>3. QED BY <2>7, <3>2, <4>1, <4>2 DEF ByteIn
    <3>4. ByteIn(f, row, p) = IF i \in DOMAIN f.parts THEN f.parts[i][j]
                              ELSE IF i \in DOMAIN row.parts THEN row.parts[i][j] ELSE 0
          BY <1>3, <3>2, FilesAssumption DEF ByteIn, FileIn
    <3>5. CASE p \in off .. end - 1
      <4>1. p >= first
            BY <1>5, <1>6, <2>2, <3>1, <3>5
      <4>2. i \in DOMAIN new /\ new[i][j] = d[p - off + 1]
            BY <2>8, <3>1, <3>2, <3>5, <4>1 DEF ByteOf
      <4>3. QED BY <3>3, <3>5, <4>2
    <3>6. CASE p \notin off .. end - 1
      <4>1. /\ p \notin first .. end - 1
            /\ file.circ => p + MaxSize >= end /\ p < first + MaxSize
        <5>1. p \notin first .. end - 1 BY <2>2, <3>6
        <5>2. ASSUME file.circ PROVE p + MaxSize >= end /\ p < first + MaxSize
          <6>1. size >= end /\ (p >= end => p < old) /\ old <= off + MaxSize
                /\ p + MaxSize >= size
                BY <1>6, <3>1, <5>2
          <6>2. off \in Nat /\ (p < off \/ p >= end) BY <3>1, <3>6
          <6>3. size \in Nat /\ MaxSize \in Nat \ {0} /\ p \in Nat BY <1>6, <3>1
          <6>4. end <= first + MaxSize /\ off <= first /\ first \in Nat BY <2>2, <5>2
          <6>5. QED BY <6>1, <6>2, <6>3, <6>4
        <5>3. QED BY <5>1, <5>2
      <4>2. i \in DOMAIN new => new[i][j] = IF i \in DOMAIN f.parts THEN f.parts[i][j] ELSE 0
            BY <2>8, <3>1, <3>2, <4>1 DEF ByteOf
      <4>3. CASE i \in DOMAIN f.parts \/ i \notin DOMAIN new \/ i \notin DOMAIN row.parts
            BY <2>8, <3>3, <3>4, <3>6, <4>2, <4>3
      <4>4. CASE i \notin DOMAIN f.parts /\ i \in DOMAIN new /\ i \in DOMAIN row.parts
        <5>1. PICK q \in first .. end - 1 : i = PartIdx(file, q)
              BY <2>8, <4>4
        <5>2. i \in DOMAIN map
              BY <1>5, <1>6, <2>2, <5>1, EachIsVisited
        <5>3. map[i] = PartSize
              BY <1>1, <1>3, <4>4, <5>2 DEF Incomplete
        <5>4. PICK o \in Nat : /\ o % PartSize = 0 /\ PartIdx(file, o) = i
                               /\ off <= o /\ o + PartSize <= off + Len(d)
                               /\ file.circ => off + Len(d) <= o + MaxSize
              BY <1>6, <5>2, <5>3, CompleteIsCovered
        <5>5. PICK k \in 0 .. PartSize - 1 : k = p % PartSize
              BY <3>1, PartsAssumption, DivMod, Zenon
        <5>6. Slot(file, p) = Slot(file, o + k)
              BY <3>2, <5>4, <5>5, InPart DEF Slot
        <5>7. /\ o + k \in Nat /\ o + k \in off .. end - 1
              /\ file.circ => o + k < p + MaxSize /\ p < o + k + MaxSize
          <6>1. PartSize \in Nat \ {0} /\ o \in Nat /\ k \in 0 .. PartSize - 1
                /\ off <= o /\ o + PartSize <= end
                BY <1>5, <5>4, <5>5, PartsAssumption
          <6>2. o + k \in Nat /\ o + k \in off .. end - 1 BY <6>1
          <6>3. ASSUME file.circ PROVE o + k < p + MaxSize /\ p < o + k + MaxSize
            <7>1. p + MaxSize >= end /\ end <= o + MaxSize /\ p < size
                  /\ old <= off + MaxSize /\ MaxSize \in Nat
                  BY <1>5, <1>6, <3>1, <4>1, <5>4, <6>3
            <7>2. QED BY <1>6, <3>1, <6>1, <6>2, <7>1
          <6>4. QED BY <6>2, <6>3
        <5>8. p = o + k BY <3>1, <5>6, <5>7, OneSlot
        <5>9. QED BY <3>6, <5>7, <5>8
      <4>5. QED BY <4>3, <4>4
    <3>7. QED BY <3>5, <3>6
  <2>10. \A p \in DataStartIdx(g.file) .. size - 1 :
           ByteIn(g, row, p) = IF p \in off .. off + Len(d) - 1 THEN d[p - off + 1]
                               ELSE ByteIn(e, row, p)
         BY <1>3, <1>5, <2>7, <2>9
  <2>11. QED BY <2>5, <2>7, <2>8, <2>10 DEF IsOver
<1>10. QED BY <1>8, <1>9 DEF IsOver

\* g is e with all of it replaced by d: every byte that is kept is in the parts.
IsReplaced(g, e, d) ==
  /\ SamePins(e, g) /\ PartsOK(g.parts) /\ g.file = [e.file EXCEPT !.size = Len(d)]
  /\ \A p \in DataStartIdx(g.file) .. Len(d) - 1 :
       /\ PartIdx(e.file, p) \in DOMAIN g.parts
       /\ ByteOf(e.file, g.parts, p) = d[p + 1]

LEMMA ReplaceOK ==
  ASSUME NEW e, IsEntry(e), NEW file \in Headers, file = e.file,
         NEW d \in Seq(Nat), Len(d) <= MaxBytes, NEW g, g = WriteAt(e, 0, d, TRUE)
  PROVE  IsReplaced(g, e, d)
<1>1. /\ file.circ \in BOOLEAN /\ MaxSize \in Nat \ {0} /\ Len(d) \in Nat
      BY PartsAssumption DEF Headers
<1>2. PICK first : first = FirstKept(file, 0, 0, Len(d))
      OBVIOUS
<1>3. /\ first \in Nat
      /\ file.circ => Len(d) <= first + MaxSize
      /\ first # 0 => file.circ /\ first = Len(d) - MaxSize
  <2>1. PICK n \in Nat, max \in Nat : n = Len(d) /\ max = MaxSize /\ max > 0
        BY <1>1
  <2>2. first = IF file.circ /\ n > max THEN n - max ELSE 0
    <3>1. CASE file.circ
      <4>1. PICK cut : cut = IF file.circ /\ 0 < 0 - MaxSize THEN 0 - MaxSize - 0 ELSE 0
            OBVIOUS
      <4>2. cut = 0 BY <2>1, <4>1
      <4>3. first = 0 + cut + (IF file.circ /\ Len(d) - cut > MaxSize
                               THEN Len(d) - cut - MaxSize ELSE 0)
            BY <1>2, <4>1, Zenon DEF FirstKept
      <4>4. QED BY <2>1, <3>1, <4>2, <4>3
    <3>2. CASE ~ file.circ BY <1>2, <2>1, <3>2 DEF FirstKept
    <3>3. QED BY <3>1, <3>2
  <2>3. QED BY <2>1, <2>2
<1>4. PICK parts : parts = << >>
      OBVIOUS
<1>5. PICK new : new = Patched(file, parts, first, 0, d)
      OBVIOUS
<1>6. g = [e EXCEPT !.file = [file EXCEPT !.size = Len(d)], !.parts = new]
  <2>1. ~ (file.circ /\ 0 + Len(d) <= 0 - MaxSize) BY <1>1
  <2>2. 0 + Len(d) = Len(d) /\ (IF Len(d) > 0 \/ TRUE THEN Len(d) ELSE 0) = Len(d)
        BY <1>1
  <2>3. QED BY <1>2, <1>4, <1>5, <2>1, <2>2 DEF WriteAt
<1>7. PICK h : h = [file EXCEPT !.size = Len(d)]
      OBVIOUS
<1>8. h.circ = file.circ /\ h.size = Len(d)
      BY <1>7 DEF Headers
<1>9. SamePins(e, g) /\ g.file = h /\ g.parts = new
      BY <1>6, <1>7 DEF SamePins, IsEntry
<1>10. PartsOK(parts) /\ 0 <= first /\ 0 \in Nat /\ (file.circ => 0 + Len(d) <= first + MaxSize)
       BY <1>1, <1>3, <1>4 DEF PartsOK
<1>11. IsPatched(new, file, parts, first, 0, d)
       BY <1>3, <1>5, <1>10, PatchedOK, Zenon
<1>12. ASSUME NEW p \in DataStartIdx(h) .. Len(d) - 1
       PROVE  PartIdx(file, p) \in DOMAIN new /\ ByteOf(file, new, p) = d[p + 1]
  <2>1. p \in first .. 0 + Len(d) - 1 /\ p - 0 + 1 = p + 1
    <3>1. DataStartIdx(h) \in Nat /\ first <= DataStartIdx(h)
          BY <1>1, <1>3, <1>8 DEF DataStartIdx
    <3>2. QED BY <1>1, <1>3, <3>1
  <2>2. QED BY <1>11, <2>1 DEF IsPatched
<1>13. QED BY <1>7, <1>9, <1>11, <1>12 DEF IsPatched, IsReplaced

-------------------------------------------------------------------------------
(* Views.                                                                   *)
Stored(e, row) == RowOK(row) /\ EntryOK(e, row)

LEMMA ByteInNat ==
  ASSUME NEW e, NEW row, Stored(e, row), NEW p \in Nat
  PROVE  ByteIn(e, row, p) \in Nat
<1>1. PICK i, j : i = PartIdx(FileIn(e, row), p) /\ j = (p % PartSize) + 1
      OBVIOUS
<1>2. j \in 1 .. PartSize BY <1>1, OffsetOK
<1>3. QED BY <1>1, <1>2 DEF ByteIn, Stored, RowOK, EntryOK, PartsOK

LEMMA FileInOK ==
  ASSUME NEW e, NEW row, Stored(e, row), FileIn(e, row) # NoFile
  PROVE  FileIn(e, row) \in Headers /\ row.file \in Headers /\ FileIn(e, row).circ = row.file.circ
BY DEF Stored, RowOK, EntryOK, FileIn

\* What readers see of a file with header file and bytes B(p).
Shown(file, at) == [circ |-> file.circ, size |-> file.size, meta |-> file.meta, at |-> at]

Kept(file) == DataStartIdx(file) .. file.size - 1

LEMMA ViewIs ==
  ASSUME NEW e, NEW row, Stored(e, row), NEW file, file = FileIn(e, row), file # NoFile
  PROVE  /\ View(e, row) = Shown(file, [p \in Kept(file) |-> ByteIn(e, row, p)])
         /\ View(e, row) # NoFile
<1>1. View(e, row) = Shown(file, [p \in Kept(file) |-> ByteIn(e, row, p)])
      BY DEF View, Shown, Kept
<1>2. file \in Headers BY FileInOK
<1>3. PICK b \in Sizes, s \in Sizes : b = DataStartIdx(file) /\ s = file.size
  <2>1. file.size \in Sizes /\ DataStartIdx(file) \in Sizes
        BY <1>2, FilesAssumption, PartsAssumption DEF Headers, Sizes, DataStartIdx
  <2>2. QED BY <2>1
<1>4. [p \in Kept(file) |-> ByteIn(e, row, p)] \in [b .. s - 1 -> Nat]
  <2>1. \A p \in b .. s - 1 : p \in Nat BY <1>3, FilesAssumption DEF Sizes
  <2>2. \A p \in b .. s - 1 : ByteIn(e, row, p) \in Nat BY <2>1, ByteInNat
  <2>3. QED BY <1>3, <2>2 DEF Kept
<1>5. View(e, row) \in [circ : BOOLEAN, size : Sizes, meta : Metas, at : [b .. s - 1 -> Nat]]
      BY <1>1, <1>2, <1>3, <1>4 DEF Shown, Headers
<1>6. View(e, row) # NoFile BY <1>5, FilesAssumption
<1>7. QED BY <1>1, <1>6

LEMMA SameView ==
  ASSUME NEW e, NEW row, Stored(e, row), NEW g, NEW r, Stored(g, r),
         NEW file, file = FileIn(e, row), FileIn(g, r) = file, file # NoFile,
         \A p \in Kept(file) : ByteIn(g, r, p) = ByteIn(e, row, p)
  PROVE  View(g, r) = View(e, row)
<1>1. [p \in Kept(file) |-> ByteIn(g, r, p)] = [p \in Kept(file) |-> ByteIn(e, row, p)]
      OBVIOUS
<1>2. /\ View(e, row) = Shown(file, [p \in Kept(file) |-> ByteIn(e, row, p)])
      /\ View(g, r) = Shown(file, [p \in Kept(file) |-> ByteIn(g, r, p)])
      BY ViewIs, Zenon
<1>3. QED BY <1>1, <1>2

LEMMA LoadOK ==
  ASSUME NEW e, NEW row, Stored(e, row), NEW f, f = Load(e, row), f.file # NoFile
  PROVE  /\ Stored(f, row) /\ SamePins(e, f) /\ f.file \in Headers
         /\ f.file = FileIn(e, row) /\ FileIn(f, row) = f.file
         /\ View(f, row) = View(e, row)
<1>1. IsEntry(e) /\ SamePins(e, f) BY LoadKeeps DEF Stored, EntryOK
<1>2. f.file = FileIn(e, row) /\ f.parts = e.parts
      BY <1>1 DEF Load, IsEntry
<1>3. f.file \in Headers /\ row.file \in Headers /\ f.file.circ = row.file.circ
      BY <1>2, FileInOK
<1>4. Stored(f, row)
      BY <1>1, <1>2, <1>3, FilesAssumption DEF Stored, EntryOK, SamePins
<1>5. FileIn(f, row) = f.file BY DEF FileIn
<1>6. \A p : ByteIn(f, row, p) = ByteIn(e, row, p)
      BY <1>2, <1>5 DEF ByteIn
<1>7. View(f, row) = View(e, row)
      BY <1>2, <1>4, <1>5, <1>6, SameView
<1>8. QED BY <1>1, <1>2, <1>3, <1>4, <1>5, <1>7

Grown(file, off, d) == IF off + Len(d) > file.size THEN off + Len(d) ELSE file.size

\* The bytes of a file with header h after d was written at off.
BytesOver(h, at, off, d) ==
  [p \in Kept(h) |-> IF p \in off .. off + Len(d) - 1 THEN d[p - off + 1] ELSE at[p]]

LEMMA WrittenIs ==
  ASSUME NEW n \in Names, NEW file, NEW at, NEW off, NEW d,
         NEW h, h.circ = file.circ, h.size = Grown(file, off, d), h.meta = file.meta
  PROVE  File(n)!Written(Shown(file, at), off, d) = Shown(h, BytesOver(h, at, off, d))
<1>0. PICK size : size = h.size /\ size = IF off + Len(d) > file.size THEN off + Len(d)
                                         ELSE file.size
      BY DEF Grown
<1>1. PICK v : v = Shown(file, at)
      OBVIOUS
<1>2. v = [circ |-> file.circ, size |-> file.size, meta |-> file.meta, at |-> at]
      BY <1>1 DEF Shown
<1>3. File(n)!Begin(v.circ, size) .. size - 1 = Kept(h)
      BY <1>0, <1>2 DEF File!Begin, Kept, DataStartIdx
<1>4. v.size = file.size /\ v.at = at
      BY <1>2
<1>5. File(n)!Written(v, off, d) =
        [v EXCEPT !.size = size,
                  !.at = [p \in File(n)!Begin(v.circ, size) .. (size - 1) |->
                            IF p \in off .. (off + Len(d) - 1) THEN d[p - off + 1]
                            ELSE at[p]]]
      BY <1>0, <1>4, Zenon DEF File!Written
<1>6. PICK x : x = BytesOver(h, at, off, d)
      OBVIOUS
<1>7. File(n)!Written(v, off, d) = [v EXCEPT !.size = size, !.at = x]
      BY <1>3, <1>5, <1>6 DEF BytesOver
<1>8. [v EXCEPT !.size = size, !.at = x] = Shown(h, x)
  <2>1. PICK u : u = [v EXCEPT !.size = size]
        OBVIOUS
  <2>2. u = [circ |-> file.circ, size |-> size, meta |-> file.meta, at |-> at]
        BY <1>2, <2>1
  <2>3. [u EXCEPT !.at = x] = [circ |-> file.circ, size |-> size, meta |-> file.meta, at |-> x]
        BY <2>2
  <2>4. [v EXCEPT !.size = size, !.at = x] = [u EXCEPT !.at = x] BY <2>1
  <2>5. QED BY <1>0, <2>3, <2>4 DEF Shown
<1>9. QED BY <1>1, <1>6, <1>7, <1>8

\* The file of g is the file of e with d written at off.
ReadsOver(n, g, e, row, off, d) ==
  /\ Stored(g, row) /\ g.file \in Headers
  /\ g.file.circ = e.file.circ /\ g.file.meta = e.file.meta
  /\ View(g, row) = File(n)!Written(View(e, row), off, d)

LEMMA IsOverView ==
  ASSUME NEW n \in Names, NEW e, NEW row, Stored(e, row), e.file # NoFile,
         NEW off \in Nat, off >= DataStartIdx(e.file), off <= e.file.size,
         NEW d \in Seq(Nat), off + Len(d) <= MaxBytes,
         NEW g, IsOver(g, e, row, off, d, Grown(e.file, off, d))
  PROVE  ReadsOver(n, g, e, row, off, d)
<1>1. PICK file \in Headers, old \in Nat, end \in Nat, size \in Sizes :
        /\ file = e.file /\ old = file.size /\ end = off + Len(d)
        /\ size = IF end > old THEN end ELSE old
  <2>1. e.file \in Headers BY DEF Stored, EntryOK
  <2>2. e.file.size \in Sizes BY <2>1 DEF Headers
  <2>3. e.file.size \in Nat /\ off + Len(d) \in Nat /\ off + Len(d) \in Sizes
        BY <2>2, FilesAssumption DEF Sizes
  <2>4. QED BY <2>1, <2>2, <2>3, Zenon
<1>2. size \in Nat /\ size = IF off + Len(d) > file.size THEN off + Len(d) ELSE file.size
      BY <1>1
<1>3. PICK h : h = [file EXCEPT !.size = size]
      OBVIOUS
<1>4. h \in Headers /\ h.circ = file.circ /\ h.size = size /\ h.meta = file.meta
      BY <1>1, <1>3 DEF Headers
<1>5. IsEntry(e) /\ PartsOK(e.parts) /\ PartsOK(row.parts) /\ row.file # NoFile
      /\ file.circ = row.file.circ
      BY <1>1 DEF Stored, EntryOK, RowOK
<1>6. /\ SamePins(e, g) /\ PartsOK(g.parts) /\ g.file = h
      /\ \A p \in DataStartIdx(g.file) .. size - 1 :
           ByteIn(g, row, p) = IF p \in off .. off + Len(d) - 1 THEN d[p - off + 1]
                               ELSE ByteIn(e, row, p)
  <2>1. size = Grown(e.file, off, d) BY <1>1 DEF Grown
  <2>2. QED BY <1>1, <1>3, <2>1 DEF IsOver
<1>7. h # NoFile
      BY <1>4, FilesAssumption
<1>8. Stored(g, row)
      BY <1>4, <1>5, <1>6, <1>7 DEF Stored, EntryOK, SamePins
<1>9. FileIn(e, row) = file /\ FileIn(g, row) = h /\ file # NoFile
      BY <1>1, <1>6, <1>7 DEF FileIn
<1>10. PICK at : at = [p \in Kept(file) |-> ByteIn(e, row, p)]
       OBVIOUS
<1>11. /\ View(e, row) = Shown(file, at)
       /\ View(g, row) = Shown(h, [p \in Kept(h) |-> ByteIn(g, row, p)])
       BY <1>7, <1>8, <1>9, <1>10, ViewIs
<1>12. ASSUME NEW p \in Kept(h)
       PROVE  ByteIn(g, row, p) = IF p \in off .. off + Len(d) - 1 THEN d[p - off + 1]
                                  ELSE at[p]
  <2>1. ByteIn(g, row, p) = IF p \in off .. off + Len(d) - 1 THEN d[p - off + 1]
                            ELSE ByteIn(e, row, p)
        BY <1>4, <1>6, <1>12 DEF Kept
  <2>2. CASE p \notin off .. off + Len(d) - 1
    <3>1. p \in Kept(file)
      <4>1. MaxSize \in Nat \ {0} BY PartsAssumption
      <4>2. /\ p \in DataStartIdx(h) .. size - 1 /\ DataStartIdx(h) \in Nat
            /\ DataStartIdx(file) \in Nat /\ DataStartIdx(file) <= DataStartIdx(h)
            BY <1>1, <1>2, <1>4, <1>12, <4>1 DEF Kept, DataStartIdx
      <4>3. p < old
            BY <1>1, <1>2, <2>2, <4>2
      <4>4. QED BY <1>1, <4>2, <4>3 DEF Kept
    <3>2. QED BY <1>10, <2>1, <2>2, <3>1
  <2>3. QED BY <2>1, <2>2
<1>13. [p \in Kept(h) |-> ByteIn(g, row, p)] =
       [p \in Kept(h) |-> IF p \in off .. off + Len(d) - 1 THEN d[p - off + 1] ELSE at[p]]
       BY <1>12
<1>14. File(n)!Written(Shown(file, at), off, d) = Shown(h, BytesOver(h, at, off, d))
  <2>1. h.size = Grown(file, off, d)
        BY <1>2, <1>4 DEF Grown
  <2>2. QED BY ONLY n \in Names, <1>4, <2>1, WrittenIs, SMT
<1>15. QED BY <1>1, <1>4, <1>6, <1>8, <1>11, <1>13, <1>14 DEF BytesOver, ReadsOver

LEMMA OverView ==
  ASSUME NEW n \in Names, NEW e, NEW row, Stored(e, row), e.file # NoFile,
         NEW off \in Nat, off >= DataStartIdx(e.file), off <= e.file.size,
         NEW d \in Seq(Nat), off + Len(d) <= MaxBytes, NEW g, g = Over(e, row, off, d)
  PROVE  ReadsOver(n, g, e, row, off, d)
<1>1. PICK file \in Headers, size \in Nat :
        /\ file = e.file
        /\ size = IF off + Len(d) > file.size THEN off + Len(d) ELSE file.size
  <2>1. e.file \in Headers BY DEF Stored, EntryOK
  <2>2. e.file.size \in Nat /\ off + Len(d) \in Nat
        BY <2>1, FilesAssumption DEF Headers, Sizes
  <2>3. QED BY <2>1, <2>2
<1>2. off >= DataStartIdx(file) /\ IsEntry(e) /\ PartsOK(e.parts) /\ PartsOK(row.parts)
      BY <1>1 DEF Stored, EntryOK, RowOK
<1>3. IsOver(g, e, row, off, d, size)
      BY ONLY <1>1, <1>2, OverOK, g = Over(e, row, off, d), d \in Seq(Nat),
              off \in Nat, off + Len(d) <= MaxBytes, Zenon
<1>4. size = Grown(e.file, off, d) BY <1>1 DEF Grown
<1>5. QED BY <1>3, <1>4, IsOverView

\* A command and its newline: the parts are loaded for the command only, which
\* is enough, as the byte before the newline is the command's.
LEMMA OverCovers ==
  ASSUME NEW e, IsEntry(e), PartsOK(e.parts), NEW file \in Headers, file = e.file, ~file.circ,
         NEW row, PartsOK(row.parts), NEW off \in Nat, NEW d \in Seq(Nat),
         NEW g, g = Over(e, row, off, d)
  PROVE  \A p \in off .. off + Len(d) - 1 : PartIdx(file, p) \in DOMAIN g.parts
<1>1. PICK f : f = LoadParts(e, row, Incomplete(PartMap(file, off, Len(d))))
      OBVIOUS
<1>2. IsEntry(f) /\ f.file = file
      BY <1>1, LoadReadsSame DEF SamePins
<1>3. FirstKept(file, file.size, off, Len(d)) = off
      BY DEF FirstKept
<1>4. PICK new : new = Patched(file, f.parts, off, off, d)
      OBVIOUS
<1>5. PICK h : g = [f EXCEPT !.file = h, !.parts = new]
      BY <1>1, <1>2, <1>3, <1>4 DEF Over, WriteAt
<1>6. g.parts = new BY <1>2, <1>5 DEF IsEntry
<1>7. QED BY <1>4, <1>6 DEF Patched

LEMMA TailOK ==
  ASSUME NEW f, IsEntry(f), PartsOK(f.parts), NEW file \in Headers, file = f.file, ~file.circ,
         NEW row, NEW b \in Nat, NEW end \in Nat, end = file.size, end < MaxBytes,
         \A p \in 0 .. end - 1 : PartIdx(file, p) = PartIdx(file, end)
                                 => PartIdx(file, p) \in DOMAIN f.parts,
         NEW g, g = WriteAt(f, end, <<b>>, FALSE)
  PROVE  IsOver(g, f, row, end, <<b>>, end + 1)
<1>1. /\ <<b>> \in Seq(Nat) /\ Len(<<b>>) = 1 /\ end + 1 > end
      /\ FirstKept(file, end, end, 1) = end
      BY DEF FirstKept
<1>2. PICK new : new = Patched(file, f.parts, end, end, <<b>>)
      OBVIOUS
<1>3. PICK h : h = [file EXCEPT !.size = end + 1]
      OBVIOUS
<1>4. h \in Headers /\ h.circ = file.circ /\ h.size = end + 1 /\ h # NoFile
  <2>1. end + 1 \in Sizes BY FilesAssumption DEF Sizes
  <2>2. QED BY <1>3, <2>1, FilesAssumption DEF Headers
<1>5. g = [f EXCEPT !.file = h, !.parts = new]
      BY <1>1, <1>2, <1>3 DEF WriteAt
<1>6. SamePins(f, g) /\ g.file = h /\ g.parts = new
      BY <1>5 DEF SamePins, IsEntry
<1>7. IsPatched(new, file, f.parts, end, end, <<b>>)
  <2>1. end <= end /\ (file.circ => end + Len(<<b>>) <= end + MaxSize) OBVIOUS
  <2>2. QED BY <1>1, <1>2, <2>1, PatchedOK, Zenon
<1>8. ASSUME NEW p \in 0 .. end
      PROVE  ByteIn(g, row, p) = IF p = end THEN b ELSE ByteIn(f, row, p)
  <2>1. PICK i, j : i = PartIdx(file, p) /\ j = (p % PartSize) + 1
        OBVIOUS
  <2>2. ByteIn(g, row, p) = IF i \in DOMAIN new THEN new[i][j]
                            ELSE IF i \in DOMAIN row.parts THEN row.parts[i][j] ELSE 0
    <3>1. FileIn(g, row) = h BY <1>4, <1>6 DEF FileIn
    <3>2. PartIdx(h, p) = i BY <1>4, <2>1 DEF PartIdx
    <3>3. QED BY <1>6, <2>1, <3>1, <3>2 DEF ByteIn
  <2>3. ByteIn(f, row, p) = IF i \in DOMAIN f.parts THEN f.parts[i][j]
                            ELSE IF i \in DOMAIN row.parts THEN row.parts[i][j] ELSE 0
        BY <2>1, FilesAssumption DEF ByteIn, FileIn
  <2>4. CASE p = end
    <3>1. p \in end .. end + Len(<<b>>) - 1 /\ p - end + 1 = 1 BY <1>1, <2>4
    <3>2. i \in DOMAIN new /\ new[i][j] = <<b>>[1]
          BY <1>7, <2>1, <3>1 DEF IsPatched, ByteOf
    <3>3. QED BY <2>2, <2>4, <3>2
  <2>5. CASE p # end
    <3>1. p \in Nat /\ p \in 0 .. end - 1 /\ p \notin end .. end + Len(<<b>>) - 1
          BY <1>1, <2>5
    <3>2. i \in DOMAIN new => i \in DOMAIN f.parts
      <4>1. i \in DOMAIN new \ DOMAIN f.parts
            => \E q \in end .. end + Len(<<b>>) - 1 : i = PartIdx(file, q)
            BY <1>7 DEF IsPatched
      <4>2. \A q \in end .. end + Len(<<b>>) - 1 : q = end BY <1>1
      <4>3. QED BY <2>1, <3>1, <4>1, <4>2
    <3>3. i \in DOMAIN new => new[i][j] = f.parts[i][j]
          BY <1>7, <2>1, <3>1, <3>2 DEF IsPatched, ByteOf
    <3>4. i \in DOMAIN f.parts => i \in DOMAIN new BY <1>7 DEF IsPatched
    <3>5. QED BY <2>2, <2>3, <2>5, <3>2, <3>3, <3>4
  <2>6. QED BY <2>4, <2>5
<1>9. PICK size, d : size = end + 1 /\ d = <<b>>
      OBVIOUS
<1>10. ASSUME NEW p \in DataStartIdx(g.file) .. size - 1
       PROVE  ByteIn(g, row, p) = IF p \in end .. end + Len(d) - 1 THEN d[p - end + 1]
                                  ELSE ByteIn(f, row, p)
  <2>1. DataStartIdx(g.file) = 0 BY <1>4, <1>6 DEF DataStartIdx
  <2>2. p \in 0 .. end
    <3>1. p \in 0 .. size - 1 BY <1>10, <2>1, Zenon
    <3>2. QED BY <1>9, <3>1
  <2>3. p \in end .. end + Len(d) - 1 <=> p = end BY <1>1, <1>9, <2>2
  <2>4. p = end => p - end + 1 = 1 OBVIOUS
  <2>5. d[1] = b BY <1>9
  <2>6. QED BY <1>8, <2>2, <2>3, <2>4, <2>5
<1>11. PartsOK(new) BY <1>7 DEF IsPatched
<1>12. g.file = [f.file EXCEPT !.size = size] BY <1>3, <1>6, <1>9
<1>13. IsOver(g, f, row, end, d, size) BY <1>6, <1>10, <1>11, <1>12 DEF IsOver
<1>14. QED BY <1>9, <1>13

LEMMA SamePart ==
  ASSUME NEW p \in Nat, NEW q \in Nat, NEW r \in Nat, p <= q, q <= r,
         p \div PartSize = r \div PartSize
  PROVE  q \div PartSize = p \div PartSize
<1>1. PICK k \in Nat \ {0} : k = PartSize
      BY PartsAssumption
<1>2. p \div k <= q \div k /\ q \div k <= r \div k
      BY SMT
<1>3. p \div k \in Nat /\ q \div k \in Nat /\ r \div k \in Nat
      BY DivMod
<1>4. p \div k = r \div k BY <1>1
<1>5. q \div k = p \div k BY <1>2, <1>3, <1>4
<1>6. QED BY <1>1, <1>5

LEMMA CommandedOK ==
  ASSUME NEW n \in Names, NEW e, NEW row, Stored(e, row), e.file # NoFile, ~e.file.circ,
         NEW d \in Seq(Nat), d # << >>, e.file.size + Len(d) < MaxBytes,
         NEW g, g = Commanded(e, row, d)
  PROVE  ReadsOver(n, g, e, row, e.file.size, Append(d, Newline))
<1>1. PICK file \in Headers, old \in Nat, len \in Nat, end \in Nat :
        /\ file = e.file /\ old = file.size /\ len = Len(d) /\ end = old + len
        /\ len > 0 /\ end < MaxBytes /\ ~file.circ /\ MaxBytes \in Nat
  <2>1. e.file \in Headers BY DEF Stored, EntryOK
  <2>2. e.file.size \in Nat BY <2>1, FilesAssumption DEF Headers, Sizes
  <2>3. Len(d) \in Nat /\ Len(d) > 0 OBVIOUS
  <2>4. QED BY <2>1, <2>2, <2>3, FilesAssumption
<1>2. PICK f : f = Over(e, row, old, d)
      OBVIOUS
<1>3. /\ IsEntry(e) /\ PartsOK(e.parts) /\ PartsOK(row.parts)
      /\ DataStartIdx(file) = 0 /\ old >= DataStartIdx(file)
      BY <1>1 DEF Stored, EntryOK, RowOK, DataStartIdx
<1>4. IsOver(f, e, row, old, d, end)
  <2>1. end = IF old + Len(d) > file.size THEN old + Len(d) ELSE file.size
        BY <1>1
  <2>2. old + Len(d) <= MaxBytes BY <1>1
  <2>3. QED BY ONLY <1>1, <1>2, <1>3, <2>1, <2>2, OverOK, d \in Seq(Nat), Zenon
<1>5. PICK ff : ff = [file EXCEPT !.size = end]
      OBVIOUS
<1>6. ff \in Headers /\ ~ff.circ /\ ff.size = end /\ ff.circ = file.circ
  <2>1. end \in Sizes BY <1>1 DEF Sizes
  <2>2. QED BY <1>1, <1>5, <2>1 DEF Headers
<1>7. /\ SamePins(e, f) /\ IsEntry(f) /\ PartsOK(f.parts) /\ f.file = ff
      /\ \A p \in DataStartIdx(ff) .. end - 1 :
           ByteIn(f, row, p) = IF p \in old .. old + Len(d) - 1 THEN d[p - old + 1]
                               ELSE ByteIn(e, row, p)
      BY <1>1, <1>4, <1>5 DEF IsOver, SamePins
<1>8. ASSUME NEW p \in 0 .. end - 1, PartIdx(ff, p) = PartIdx(ff, end)
      PROVE  PartIdx(ff, p) \in DOMAIN f.parts
  <2>1. PICK q \in Nat : q = end - 1 /\ q \in old .. old + Len(d) - 1
    <3>1. old \in Nat /\ len \in Nat \ {0} /\ Len(d) = len /\ end = old + len BY <1>1
    <3>2. QED BY ONLY <3>1
  <2>2. PartIdx(file, q) \in DOMAIN f.parts
        BY <1>1, <1>2, <1>3, <2>1, OverCovers
  <2>3. p \in Nat /\ p <= q /\ q <= end BY <1>1, <2>1
  <2>4. p \div PartSize = end \div PartSize BY <1>6, <1>8 DEF PartIdx
  <2>5. q \div PartSize = p \div PartSize BY <1>1, <2>3, <2>4, SamePart
  <2>6. QED BY <1>1, <1>6, <2>2, <2>5 DEF PartIdx
<1>9. g = WriteAt(f, end, <<Newline>>, FALSE)
      BY <1>1, <1>2, <1>6, <1>7 DEF Commanded
<1>10. IsOver(g, f, row, end, <<Newline>>, end + 1)
       BY <1>1, <1>6, <1>7, <1>8, <1>9, FilesAssumption, TailOK
<1>11. PICK line : line = Append(d, Newline)
       OBVIOUS
<1>12. /\ line \in Seq(Nat) /\ Len(line) = len + 1
       /\ \A k \in 1 .. len : line[k] = d[k]
       /\ line[len + 1] = Newline
       BY <1>1, <1>11, FilesAssumption
<1>. /\ Len(<<Newline>>) = 1 /\ end \in Nat
     /\ old + Len(d) - 1 = end - 1 /\ old + Len(line) - 1 = end
     /\ old + Len(line) = end + 1 /\ end - old + 1 = len + 1 /\ end >= old
  <2>1. len = Len(d) /\ Len(line) = len + 1 /\ end = old + len BY <1>1, <1>12
  <2>2. QED BY <2>1
<1>13. IsOver(g, e, row, old, line, end + 1)
  <2>1. SamePins(e, g) BY <1>7, <1>10 DEF IsOver, SamePins
  <2>2. g.file = [e.file EXCEPT !.size = end + 1] /\ PartsOK(g.parts)
    <3>1. g.file = [ff EXCEPT !.size = end + 1] /\ PartsOK(g.parts)
          BY <1>7, <1>10 DEF IsOver
    <3>2. [ff EXCEPT !.size = end + 1] = [file EXCEPT !.size = end + 1]
          BY <1>5 DEF Headers
    <3>3. QED BY <1>1, <3>1, <3>2
  <2>3. DataStartIdx(g.file) = 0 /\ DataStartIdx(ff) = 0
        BY <1>1, <1>6, <2>2 DEF DataStartIdx, Headers
  <2>4. ASSUME NEW p \in DataStartIdx(g.file) .. end + 1 - 1
        PROVE  ByteIn(g, row, p) = IF p \in old .. old + Len(line) - 1 THEN line[p - old + 1]
                                   ELSE ByteIn(e, row, p)
    <3>1. p \in 0 .. end BY <1>1, <2>3, <2>4
    <3>2. ByteIn(g, row, p) = IF p \in end .. end + Len(<<Newline>>) - 1
                              THEN <<Newline>>[p - end + 1] ELSE ByteIn(f, row, p)
          BY ONLY <1>10, <2>4 DEF IsOver
    <3>3. CASE p = end
      <4>1. p \in end .. end + Len(<<Newline>>) - 1 /\ p - end + 1 = 1 BY <3>3
      <4>2. ByteIn(g, row, p) = <<Newline>>[p - end + 1] BY <3>2, <4>1, Zenon
      <4>. <<Newline>>[1] = Newline OBVIOUS
      <4>5. ByteIn(g, row, p) = Newline BY <4>1, <4>2, Zenon
      <4>3. p \in old .. old + Len(line) - 1 /\ p - old + 1 = len + 1
            BY <3>3
      <4>4. QED BY <1>12, <4>3, <4>5
    <3>4. CASE p # end
      <4>1. p \in 0 .. end - 1 /\ p \notin end .. end + Len(<<Newline>>) - 1
            BY <3>1, <3>4
      <4>2. ByteIn(g, row, p) = ByteIn(f, row, p) BY <3>2, <4>1
      <4>3. ByteIn(f, row, p) = IF p \in old .. old + Len(d) - 1 THEN d[p - old + 1]
                                ELSE ByteIn(e, row, p)
            BY <1>7, <2>3, <4>1
      <4>4. p \in old .. old + Len(d) - 1 <=> p \in old .. old + Len(line) - 1
            BY <4>1
      <4>5. p \in old .. old + Len(d) - 1 => line[p - old + 1] = d[p - old + 1]
        <5>1. p \in old .. old + Len(d) - 1 => p - old + 1 \in 1 .. len BY <4>1
        <5>2. QED BY <1>12, <5>1
      <4>6. QED BY <4>2, <4>3, <4>4, <4>5
    <3>5. QED BY <3>3, <3>4
  <2>5. PICK size : size = end + 1
        OBVIOUS
  <2>6. g.file = [e.file EXCEPT !.size = size] BY <2>2, <2>5
  <2>7. \A p \in DataStartIdx(g.file) .. size - 1 :
          ByteIn(g, row, p) = IF p \in old .. old + Len(line) - 1 THEN line[p - old + 1]
                              ELSE ByteIn(e, row, p)
        BY <2>4, <2>5
  <2>8. IsOver(g, e, row, old, line, size) BY <2>1, <2>2, <2>6, <2>7 DEF IsOver
  <2>9. QED BY <2>5, <2>8
<1>14. end + 1 = Grown(e.file, old, line) /\ old + Len(line) <= MaxBytes
  <2>1. old = e.file.size BY <1>1
  <2>2. end + 1 = IF old + Len(line) > old THEN old + Len(line) ELSE old
        BY old \in Nat
  <2>3. QED BY <1>1, <2>1, <2>2 DEF Grown
<1>15. old >= DataStartIdx(e.file) /\ old <= e.file.size BY <1>1, <1>3
<1>16. ReadsOver(n, g, e, row, old, line)
       BY ONLY n \in Names, Stored(e, row), e.file # NoFile, <1>1, <1>12, <1>13, <1>14, <1>15,
               IsOverView, Zenon
<1>17. QED BY <1>1, <1>11, <1>16

LEMMA ReplacedIs ==
  ASSUME NEW n \in Names, NEW f \in Headers, NEW at, NEW d \in Seq(Nat),
         NEW h, h.circ = f.circ, h.size = Len(d), h.meta = f.meta
  PROVE  File(n)!Replaced(Shown(f, at), d) = Shown(h, BytesOver(h, << >>, 0, d))
<1>1. PICK f0 : f0 = [f EXCEPT !.size = 0]
      OBVIOUS
<1>2. f0.circ = f.circ /\ f0.size = 0 /\ f0.meta = f.meta
      BY <1>1 DEF Headers
<1>3. [Shown(f, at) EXCEPT !.size = 0, !.at = << >>] = Shown(f0, << >>)
  <2>1. PICK v : v = Shown(f, at)
        OBVIOUS
  <2>2. PICK u : u = [v EXCEPT !.size = 0]
        OBVIOUS
  <2>3. u = [circ |-> f.circ, size |-> 0, meta |-> f.meta, at |-> at]
        BY <2>1, <2>2 DEF Shown
  <2>4. [u EXCEPT !.at = << >>] = [circ |-> f.circ, size |-> 0, meta |-> f.meta, at |-> << >>]
        BY <2>3
  <2>5. [v EXCEPT !.size = 0, !.at = << >>] = [u EXCEPT !.at = << >>] BY <2>2
  <2>6. QED BY <1>2, <2>1, <2>4, <2>5 DEF Shown
<1>4. File(n)!Replaced(Shown(f, at), d) = File(n)!Written(Shown(f0, << >>), 0, d)
      BY <1>3 DEF File!Replaced
<1>5. h.circ = f0.circ /\ h.meta = f0.meta
      BY <1>2
<1>6. h.size = Grown(f0, 0, d)
  <2>1. Len(d) \in Nat OBVIOUS
  <2>2. QED BY <1>2, <2>1 DEF Grown
<1>7. File(n)!Written(Shown(f0, << >>), 0, d) = Shown(h, BytesOver(h, << >>, 0, d))
      BY <1>5, <1>6, WrittenIs
<1>8. QED BY <1>4, <1>7

\* Every byte that is kept is in the parts of the entry.
HasItAll(e) == \A p \in Kept(e.file) : PartIdx(e.file, p) \in DOMAIN e.parts

\* g reads as d, whatever there was.
ReadsAs(g, row, file, d) ==
  /\ Stored(g, row) /\ HasItAll(g) /\ g.file \in Headers
  /\ g.file.circ = file.circ /\ g.file.size = Len(d) /\ g.file.meta = file.meta
  /\ View(g, row) = Shown(g.file, BytesOver(g.file, << >>, 0, d))

LEMMA ReplaceView ==
  ASSUME NEW e, NEW row, Stored(e, row), e.file # NoFile,
         NEW d \in Seq(Nat), Len(d) <= MaxBytes, NEW g, g = WriteAt(e, 0, d, TRUE)
  PROVE  ReadsAs(g, row, e.file, d)
<1>1. PICK file \in Headers : file = e.file
      BY DEF Stored, EntryOK
<1>2. PICK h : h = [file EXCEPT !.size = Len(d)]
      OBVIOUS
<1>3. h \in Headers /\ h.circ = file.circ /\ h.size = Len(d) /\ h.meta = file.meta
  <2>1. Len(d) \in Sizes BY FilesAssumption DEF Sizes
  <2>2. QED BY <1>2, <2>1 DEF Headers
<1>4. IsEntry(e) /\ row.file # NoFile /\ file.circ = row.file.circ /\ RowOK(row)
      BY <1>1 DEF Stored, EntryOK
<1>5. /\ SamePins(e, g) /\ PartsOK(g.parts) /\ g.file = h
      /\ \A p \in DataStartIdx(g.file) .. Len(d) - 1 :
           PartIdx(file, p) \in DOMAIN g.parts /\ ByteOf(file, g.parts, p) = d[p + 1]
  <2>1. PartsOK(e.parts) /\ IsEntry(e)
        BY <1>4 DEF Stored, EntryOK
  <2>2. IsReplaced(g, e, d)
        BY ONLY <1>1, <2>1, ReplaceOK, g = WriteAt(e, 0, d, TRUE), d \in Seq(Nat),
                Len(d) <= MaxBytes, Zenon
  <2>3. QED BY <1>1, <1>2, <2>2 DEF IsReplaced
<1>6. h # NoFile BY <1>3, FilesAssumption
<1>7. Stored(g, row)
      BY <1>3, <1>4, <1>5, <1>6 DEF Stored, EntryOK, SamePins
<1>8. FileIn(g, row) = h BY <1>5, <1>6 DEF FileIn
<1>9. ASSUME NEW p \in Kept(h)
      PROVE  PartIdx(h, p) \in DOMAIN g.parts /\ ByteIn(g, row, p) = d[p + 1]
  <2>1. PartIdx(h, p) = PartIdx(file, p) BY <1>3 DEF PartIdx
  <2>2. PartIdx(file, p) \in DOMAIN g.parts /\ ByteOf(file, g.parts, p) = d[p + 1]
        BY <1>3, <1>5, <1>9 DEF Kept
  <2>3. QED BY <1>8, <2>1, <2>2 DEF ByteIn, ByteOf
<1>10. View(g, row) = Shown(h, [p \in Kept(h) |-> d[p + 1]])
  <2>1. View(g, row) = Shown(h, [p \in Kept(h) |-> ByteIn(g, row, p)])
        BY <1>6, <1>7, <1>8, ViewIs
  <2>2. QED BY <1>9, <2>1
<1>11. BytesOver(h, << >>, 0, d) = [p \in Kept(h) |-> d[p + 1]]
  <2>1. \A p \in Kept(h) : p \in 0 .. 0 + Len(d) - 1 /\ p - 0 + 1 = p + 1
        BY <1>3, PartsAssumption DEF Kept, DataStartIdx
  <2>2. QED BY <2>1 DEF BytesOver
<1>12. QED BY <1>1, <1>3, <1>5, <1>7, <1>9, <1>10, <1>11 DEF HasItAll, ReadsAs

-------------------------------------------------------------------------------
(* What an operation under the lock is to its file: a step of ByteFile, from *)
(* what readers see and a crash would leave to what they do after it.       *)
Moves(n, now, saved, now2, saved2) ==
  \/ now2 = now /\ saved2 = saved
  \/ now2 = saved /\ saved2 = saved
  \/ now2 = now /\ saved2 = now
  \/ now = NoFile /\ saved2 = now2 /\ \E c \in BOOLEAN, m \in Metas : now2 = File(n)!Empty(c, m)
  \/ now2 = NoFile /\ saved2 = NoFile
  \/ now # NoFile /\ now2 # NoFile /\ File(n)!Changed(now, now2) /\ saved2 \in {saved, now2}

Goes(n, e, row, f, r) ==
  /\ Stored(f, r)
  /\ Moves(n, View(e, row), View(EmptyEntry, row), View(f, r), View(EmptyEntry, r))

LEMMA MovesAreSteps ==
  ASSUME NEW n \in Names, Moves(n, Now(n), Saved(n), Now(n)', Saved(n)')
  PROVE  [File(n)!Next]_<<Now(n), Saved(n)>>
<1>1. CASE Now(n)' = Now(n) /\ Saved(n)' = Saved(n)
      BY <1>1
<1>2. CASE Now(n)' = Saved(n) /\ Saved(n)' = Saved(n)
      BY <1>2 DEF File!Next, File!Lose
<1>3. CASE Now(n)' = Now(n) /\ Saved(n)' = Now(n)
      BY <1>3 DEF File!Next, File!Save
<1>4. CASE /\ Now(n) = NoFile /\ Saved(n)' = Now(n)'
           /\ \E c \in BOOLEAN, m \in Metas : Now(n)' = File(n)!Empty(c, m)
      BY <1>4 DEF File!Next, File!Create
<1>5. CASE Now(n)' = NoFile /\ Saved(n)' = NoFile
      BY <1>5 DEF File!Next, File!Delete
<1>6. CASE /\ Now(n) # NoFile /\ Now(n)' # NoFile /\ File(n)!Changed(Now(n), Now(n)')
           /\ Saved(n)' \in {Saved(n), Now(n)'}
      BY <1>6 DEF File!Next, File!Change
<1>7. QED BY <1>1, <1>2, <1>3, <1>4, <1>5, <1>6 DEF Moves

LEMMA EmptyOK ==
  ASSUME NEW row, RowOK(row) PROVE Stored(EmptyEntry, row) /\ FileIn(EmptyEntry, row) = row.file
<1>1. IsEntry(EmptyEntry) /\ EmptyEntry.parts = << >> /\ EmptyEntry.file = NoFile
      BY DEF IsEntry, EmptyEntry
<1>2. PartsOK(<< >>) BY DEF PartsOK
<1>3. QED BY <1>1, <1>2 DEF Stored, EntryOK, FileIn

LEMMA NoView ==
  ASSUME NEW e, NEW row, FileIn(e, row) = NoFile PROVE View(e, row) = NoFile
BY DEF View

\* Other metadata shows as such, and as nothing else.
ShowsMeta(g, k, row, m) ==
  /\ Stored(g, row) /\ g.file \in Headers /\ g.file # NoFile /\ g.file.meta = m
  /\ g.file.circ = k.file.circ /\ g.file.size = k.file.size
  /\ View(g, row) # NoFile /\ View(g, row).meta = m
  /\ View(g, row) = [View(k, row) EXCEPT !.meta = m]

LEMMA MetaView ==
  ASSUME NEW k, NEW row, Stored(k, row), k.file # NoFile, NEW m \in Metas,
         NEW g, g = WithMeta(k, m)
  PROVE  ShowsMeta(g, k, row, m)
<1>1. PICK file \in Headers : file = k.file
      BY DEF Stored, EntryOK
<1>2. PICK h : h = [file EXCEPT !.meta = m]
      OBVIOUS
<1>3. h \in Headers /\ h.circ = file.circ /\ h.size = file.size /\ h.meta = m
      BY <1>2 DEF Headers
<1>4. IsEntry(k) /\ g = [k EXCEPT !.file = h]
      BY <1>1, <1>2 DEF Stored, EntryOK, WithMeta
<1>5. IsEntry(g) /\ g.file = h /\ g.parts = k.parts
      BY <1>4 DEF IsEntry
<1>6. h # NoFile BY <1>3, FilesAssumption
<1>7. Stored(g, row)
      BY <1>1, <1>3, <1>5, <1>6, FilesAssumption DEF Stored, EntryOK
<1>8. FileIn(g, row) = h /\ FileIn(k, row) = file BY <1>1, <1>5, <1>6 DEF FileIn
<1>9. \A p : ByteIn(g, row, p) = ByteIn(k, row, p)
      BY <1>3, <1>5, <1>8 DEF ByteIn, PartIdx
<1>10. Kept(h) = Kept(file) BY <1>3 DEF Kept, DataStartIdx
<1>11. PICK at : at = [p \in Kept(file) |-> ByteIn(k, row, p)]
       OBVIOUS
<1>12. View(k, row) = Shown(file, at)
       BY <1>1, <1>8, <1>11, ViewIs
<1>13. View(g, row) = Shown(h, at) /\ View(g, row) # NoFile
  <2>1. View(g, row) = Shown(h, [p \in Kept(h) |-> ByteIn(g, row, p)]) /\ View(g, row) # NoFile
        BY <1>6, <1>7, <1>8, ViewIs
  <2>2. [p \in Kept(h) |-> ByteIn(g, row, p)] = at
        BY <1>9, <1>10, <1>11
  <2>3. QED BY <2>1, <2>2
<1>14. Shown(h, at) = [Shown(file, at) EXCEPT !.meta = m] /\ Shown(h, at).meta = m
       BY <1>3 DEF Shown
<1>15. QED BY <1>1, <1>3, <1>5, <1>6, <1>7, <1>12, <1>13, <1>14 DEF ShowsMeta

LEMMA MetaGoes ==
  ASSUME NEW n \in Names, NEW e, NEW row, Stored(e, row), NEW f, f = Load(e, row),
         f.file # NoFile, NEW m \in Metas,
         NEW g, g = WithMeta(f, m)
  PROVE  Goes(n, e, row, g, row)
<1>1. Stored(f, row) /\ FileIn(f, row) = f.file /\ View(f, row) = View(e, row)
      BY LoadOK
<1>2. View(f, row) # NoFile
      BY <1>1, ViewIs
<1>3. /\ Stored(g, row) /\ View(g, row) # NoFile /\ View(g, row).meta = m
      /\ View(g, row) = [View(f, row) EXCEPT !.meta = m]
      BY <1>1, MetaView DEF ShowsMeta
<1>4. File(n)!Changed(View(f, row), View(g, row))
      BY <1>3 DEF File!Changed
<1>5. QED BY <1>1, <1>2, <1>3, <1>4 DEF Goes, Moves

LEMMA OverGoes ==
  ASSUME NEW n \in Names, NEW e, NEW row, Stored(e, row), NEW f, f = Load(e, row),
         f.file # NoFile, NEW off \in Nat, off >= DataStartIdx(f.file), off <= f.file.size,
         NEW d \in Inputs \cup OverInputs, off + Len(d) <= MaxBytes,
         NEW g, g = Over(f, row, off, d)
  PROVE  Goes(n, e, row, g, row)
<1>1. /\ Stored(f, row) /\ f.file \in Headers /\ FileIn(f, row) = f.file
      /\ View(f, row) = View(e, row)
      BY LoadOK
<1>2. d \in Seq(Nat) BY FilesAssumption
<1>3. /\ Stored(g, row) /\ g.file \in Headers
      /\ View(g, row) = File(n)!Written(View(f, row), off, d)
      BY <1>1, <1>2, OverView DEF ReadsOver
<1>4. View(f, row) # NoFile /\ View(f, row).size = f.file.size
      BY <1>1, ViewIs DEF Shown
<1>5. View(g, row) # NoFile
  <2>1. g.file # NoFile /\ FileIn(g, row) = g.file BY <1>3, FilesAssumption DEF FileIn
  <2>2. QED BY <1>3, <2>1, ViewIs
<1>6. off \in 0 .. View(f, row).size
  <2>1. f.file.size \in Nat BY <1>1, FilesAssumption DEF Headers, Sizes
  <2>2. QED BY <1>4, <2>1
<1>7. File(n)!Changed(View(f, row), View(g, row))
      BY <1>3, <1>6 DEF File!Changed
<1>8. QED BY <1>1, <1>3, <1>4, <1>5, <1>7 DEF Goes, Moves

\* Whatever is in the entry: to replace all of it is one operation of the file.
LEMMA ReplaceGoes ==
  ASSUME NEW n \in Names, NEW e, NEW row, Stored(e, row), NEW f, f = Load(e, row),
         f.file # NoFile, NEW k, Stored(k, row), k.file # NoFile,
         k.file.circ = f.file.circ, k.file.meta = f.file.meta,
         NEW d \in Inputs, Len(d) <= MaxBytes, NEW g, g = WriteAt(k, 0, d, TRUE)
  PROVE  /\ Goes(n, e, row, g, row)
         /\ View(e, row) # NoFile /\ View(g, row) # NoFile
         /\ File(n)!Changed(View(e, row), View(g, row))
         /\ g.file # NoFile /\ HasItAll(g)
<1>1. /\ Stored(f, row) /\ f.file \in Headers /\ FileIn(f, row) = f.file
      /\ View(f, row) = View(e, row)
      BY LoadOK
<1>2. d \in Seq(Nat) BY FilesAssumption
<1>3. PICK file \in Headers : file = f.file
      BY <1>1
<1>4. PICK at : at = [p \in Kept(file) |-> ByteIn(f, row, p)]
      OBVIOUS
<1>5. View(f, row) = Shown(file, at) /\ View(f, row) # NoFile
      BY <1>1, <1>3, <1>4, ViewIs
<1>6. /\ Stored(g, row) /\ HasItAll(g) /\ g.file \in Headers
      /\ g.file.circ = k.file.circ /\ g.file.size = Len(d) /\ g.file.meta = k.file.meta
      /\ View(g, row) = Shown(g.file, BytesOver(g.file, << >>, 0, d))
  <2>1. ReadsAs(g, row, k.file, d)
        BY <1>2, ReplaceView
  <2>2. QED BY <2>1 DEF ReadsAs
<1>7. File(n)!Replaced(Shown(file, at), d) = Shown(g.file, BytesOver(g.file, << >>, 0, d))
  <2>1. PICK h : h = g.file
        OBVIOUS
  <2>2. h.circ = file.circ /\ h.size = Len(d) /\ h.meta = file.meta
        BY <1>3, <1>6, <2>1
  <2>3. QED BY ONLY n \in Names, file \in Headers, <1>2, <2>1, <2>2, ReplacedIs, SMT
<1>8. View(g, row) # NoFile /\ g.file # NoFile
  <2>1. g.file # NoFile /\ FileIn(g, row) = g.file BY <1>6, FilesAssumption DEF FileIn
  <2>2. QED BY <1>6, <2>1, ViewIs
<1>9. File(n)!Changed(View(f, row), View(g, row))
      BY <1>5, <1>6, <1>7 DEF File!Changed
<1>10. QED BY <1>1, <1>5, <1>6, <1>8, <1>9 DEF Goes, Moves

LEMMA CompactGoes ==
  ASSUME NEW n \in Names, NEW e, NEW row, Stored(e, row), NEW f, f = Load(e, row),
         f.file # NoFile, NEW k, Stored(k, row), k.file # NoFile,
         k.file.circ = f.file.circ, k.file.meta = f.file.meta, NEW g \in Compacted(k)
  PROVE  Goes(n, e, row, g, row)
<1>1. PICK d \in Inputs : Len(d) <= k.file.size /\ g = WriteAt(k, 0, d, TRUE)
      BY DEF Compacted
<1>2. Len(d) <= MaxBytes
  <2>1. k.file.size \in 0 .. MaxBytes BY DEF Stored, EntryOK, Headers, Sizes
  <2>2. Len(d) \in Nat BY FilesAssumption
  <2>3. QED BY <1>1, <2>1, <2>2, FilesAssumption
<1>3. QED BY <1>1, <1>2, ReplaceGoes

\* A command appended, counted or not, and whatever the file is compacted to.
LEMMA CommandGoes ==
  ASSUME NEW n \in Names, NEW e, NEW row, Stored(e, row), NEW f, f = Load(e, row),
         f.file # NoFile, ~f.file.circ, NEW d \in Commands, f.file.size + Len(d) < MaxBytes,
         NEW k, k = Commanded(f, row, d), NEW g,
         \/ g = k
         \/ f.file.size # 0 /\ \E c \in Counted(k) : g = c \/ g \in Compacted(c)
  PROVE  Goes(n, e, row, g, row)
<1>1. /\ Stored(f, row) /\ f.file \in Headers /\ FileIn(f, row) = f.file
      /\ View(f, row) = View(e, row)
      BY LoadOK
<1>2. PICK file \in Headers, size \in Nat : file = f.file /\ size = file.size
      BY <1>1, FilesAssumption DEF Headers, Sizes
<1>3. PICK at : at = [p \in Kept(file) |-> ByteIn(f, row, p)]
      OBVIOUS
<1>4. PICK v : /\ v = View(f, row) /\ v = Shown(file, at) /\ v # NoFile
               /\ v.size = size
      BY <1>1, <1>2, <1>3, ViewIs DEF Shown
<1>5. d \in Inputs /\ d \in Seq(Nat) /\ d # << >>
      BY FilesAssumption DEF Commands
<1>6. PICK line : line = Append(d, Newline)
      OBVIOUS
<1>7. /\ Stored(k, row) /\ k.file \in Headers /\ k.file # NoFile
      /\ k.file.circ = f.file.circ /\ k.file.meta = f.file.meta
      /\ View(k, row) = File(n)!Written(v, size, line)
  <2>1. ReadsOver(n, k, f, row, f.file.size, Append(d, Newline))
        BY <1>1, <1>5, CommandedOK
  <2>2. QED BY <1>2, <1>4, <1>6, <2>1, FilesAssumption DEF ReadsOver
<1>8. View(k, row) # NoFile
  <2>1. FileIn(k, row) = k.file BY <1>7 DEF FileIn
  <2>2. QED BY <1>7, <2>1, ViewIs
<1>9. ASSUME NEW x, Stored(x, row), View(x, row) # NoFile, File(n)!Changed(v, View(x, row))
      PROVE  Goes(n, e, row, x, row)
      BY <1>1, <1>4, <1>9 DEF Goes, Moves
<1>10. CASE g = k
  <2>1. size \in 0 .. v.size BY <1>4
  <2>2. line \in Inputs \cup OverInputs \cup {Append(x, Newline) : x \in Commands}
        BY <1>6
  <2>3. File(n)!Changed(v, View(k, row))
        BY <1>7, <2>1, <2>2 DEF File!Changed
  <2>4. QED BY <1>7, <1>8, <1>9, <1>10, <2>3
<1>11. ASSUME f.file.size # 0, NEW c \in Counted(k), g = c \/ g \in Compacted(c)
       PROVE  Goes(n, e, row, g, row)
  <2>1. v.size > 0 BY <1>2, <1>4, <1>11
  <2>2. PICK m \in Metas : c = WithMeta(k, m)
        BY DEF Counted
  <2>3. /\ Stored(c, row) /\ c.file \in Headers /\ c.file # NoFile /\ c.file.meta = m
        /\ c.file.circ = k.file.circ
        /\ View(c, row) # NoFile /\ View(c, row).meta = m
        /\ View(c, row) = [View(k, row) EXCEPT !.meta = m]
    <3>1. Stored(k, row) /\ k.file # NoFile BY <1>7
    <3>2. ShowsMeta(c, k, row, m) BY <2>2, <3>1, MetaView
    <3>3. QED BY <3>2 DEF ShowsMeta
  <2>4. CASE g = c
    <3>1. line \in Inputs \cup OverInputs \cup {Append(x, Newline) : x \in Commands}
          BY <1>6
    <3>2. View(c, row) = [File(n)!Written(v, v.size, line) EXCEPT !.meta = View(c, row).meta]
          BY <1>4, <1>7, <2>3
    <3>3. File(n)!Changed(v, View(c, row))
          BY <2>1, <2>3, <3>1, <3>2 DEF File!Changed
    <3>4. QED BY <1>9, <2>3, <2>4, <3>3
  <2>5. CASE g \in Compacted(c)
    <3>1. PICK x \in Inputs : Len(x) <= c.file.size /\ g = WriteAt(c, 0, x, TRUE)
          BY <2>5 DEF Compacted
    <3>2. x \in Seq(Nat) BY FilesAssumption
    <3>3. Len(x) <= MaxBytes
      <4>1. c.file.size \in 0 .. MaxBytes BY <2>3 DEF Headers, Sizes
      <4>2. QED BY <3>1, <3>2, <4>1, FilesAssumption
    <3>4. ReadsAs(g, row, c.file, x) BY <2>3, <3>1, <3>2, <3>3, ReplaceView
    <3>5. PICK h : h = [g.file EXCEPT !.meta = file.meta]
          OBVIOUS
    <3>6. /\ Stored(g, row) /\ g.file \in Headers /\ g.file.meta = m /\ g.file.size = Len(x)
          /\ g.file.circ = file.circ
          /\ View(g, row) = Shown(g.file, BytesOver(g.file, << >>, 0, x))
          BY <1>2, <1>7, <2>3, <3>4 DEF ReadsAs
    <3>7. h.circ = file.circ /\ h.size = Len(x) /\ h.meta = file.meta
          BY <3>5, <3>6 DEF Headers
    <3>8. File(n)!Replaced(Shown(file, at), x) = Shown(h, BytesOver(h, << >>, 0, x))
          BY ONLY n \in Names, file \in Headers, <3>2, <3>7, ReplacedIs, SMT
    <3>9. PICK b : b = BytesOver(g.file, << >>, 0, x) /\ b = BytesOver(h, << >>, 0, x)
          BY <3>6, <3>7 DEF BytesOver, Kept, DataStartIdx
    <3>10. Shown(g.file, b) = [Shown(h, b) EXCEPT !.meta = m] /\ Shown(g.file, b).meta = m
           BY <3>6, <3>7 DEF Shown
    <3>11. /\ View(g, row).meta = m
           /\ View(g, row) = [File(n)!Replaced(v, x) EXCEPT !.meta = View(g, row).meta]
           BY <1>4, <3>6, <3>8, <3>9, <3>10
    <3>12. View(g, row) # NoFile
      <4>1. g.file # NoFile /\ FileIn(g, row) = g.file BY <3>6, FilesAssumption DEF FileIn
      <4>2. QED BY <3>6, <4>1, ViewIs
    <3>13. File(n)!Changed(v, View(g, row))
           BY <2>1, <3>11 DEF File!Changed
    <3>14. QED BY <1>9, <3>6, <3>12, <3>13
  <2>6. QED BY <1>11, <2>4, <2>5
<1>12. QED BY <1>10, <1>11

\* What a flush of e leaves is e, as readers see it, or what was saved before it.
LEMMA FlushOK ==
  ASSUME NEW e, NEW row, Stored(e, row), NEW replace \in BOOLEAN, replace => HasItAll(e),
         NEW r \in FlushResults(e, row, replace)
  PROVE  /\ Stored(r.e, r.row)
         /\ \/ /\ View(r.e, r.row) = View(e, row)
               /\ View(EmptyEntry, r.row) \in {View(EmptyEntry, row), View(e, row)}
            \/ /\ View(r.e, r.row) = View(EmptyEntry, row)
               /\ View(EmptyEntry, r.row) = View(EmptyEntry, row)
<1>1. CASE e.file = NoFile
  <2>1. r.e = e /\ r.row = row BY <1>1 DEF FlushResults
  <2>2. QED BY <2>1
<1>2. CASE e.file # NoFile
  <2>1. PICK file \in Headers : file = e.file
        BY <1>2 DEF Stored, EntryOK
  <2>2. /\ row.file \in Headers /\ row.file # NoFile /\ file.circ = row.file.circ
        /\ RowOK(row) /\ IsEntry(e) /\ PartsOK(e.parts) /\ PartsOK(row.parts)
        BY <1>2, <2>1 DEF Stored, EntryOK, RowOK
  <2>3. PICK w : w = DbWrite(e, row, replace)
        OBVIOUS
  <2>4. PICK s : s = [e EXCEPT !.errs = @ + 1]
        OBVIOUS
  <2>5. \/ r.e = Clear(e) /\ r.row = w
        \/ r.e = e /\ r.row = w
        \/ r.e = e /\ r.row = row
        \/ r.e = Clear(e) /\ r.row = row
        \/ r.e = s /\ r.row = row
        BY <1>2, <2>2, <2>3, <2>4 DEF FlushResults
  <2>6. w.file = [row.file EXCEPT !.size = file.size, !.meta = file.meta]
        /\ w.parts = IF replace THEN e.parts ELSE Before(e.parts, row.parts)
        BY <2>1, <2>3 DEF DbWrite
  <2>7. w.file = file
    <3>1. PICK u : u = [row.file EXCEPT !.size = file.size]
          OBVIOUS
    <3>2. u = [circ |-> file.circ, size |-> file.size, meta |-> row.file.meta]
          BY <2>2, <3>1 DEF Headers
    <3>3. [u EXCEPT !.meta = file.meta] = file
          BY <2>1, <3>2 DEF Headers
    <3>4. w.file = [u EXCEPT !.meta = file.meta] BY <2>6, <3>1
    <3>5. QED BY <3>3, <3>4
  <2>8. PartsOK(w.parts)
        BY <2>2, <2>6 DEF PartsOK, Before
  <2>9. RowOK(w)
        BY <2>1, <2>3, <2>7, <2>8 DEF RowOK, DbWrite
  <2>10. IsEntry(Clear(e)) /\ Clear(e).file = NoFile /\ Clear(e).parts = << >>
         BY <2>2 DEF Clear, EmptyEntry, IsEntry
  <2>11. /\ Stored(Clear(e), w) /\ Stored(Clear(e), row)
         /\ FileIn(Clear(e), w) = file /\ FileIn(Clear(e), row) = row.file
         BY <2>2, <2>7, <2>9, <2>10 DEF Stored, EntryOK, FileIn, PartsOK
  <2>12. Stored(e, w) /\ FileIn(e, w) = file /\ FileIn(e, row) = file
         BY <1>2, <2>1, <2>2, <2>7, <2>9 DEF Stored, EntryOK, FileIn
  <2>13. /\ Stored(s, row) /\ FileIn(s, row) = file
         /\ s.parts = e.parts
    <3>1. IsEntry(s) /\ s.file = file /\ s.parts = e.parts
          BY <2>1, <2>2, <2>4 DEF IsEntry
    <3>2. QED BY <1>2, <2>1, <2>2, <3>1 DEF Stored, EntryOK, FileIn
  <2>14. /\ Stored(EmptyEntry, w) /\ FileIn(EmptyEntry, w) = file
         /\ Stored(EmptyEntry, row) /\ FileIn(EmptyEntry, row) = row.file
         BY <2>2, <2>7, <2>9, EmptyOK
  <2>15. ASSUME NEW p \in Kept(file)
         PROVE  /\ ByteIn(Clear(e), w, p) = ByteIn(e, row, p)
                /\ ByteIn(EmptyEntry, w, p) = ByteIn(e, row, p)
                /\ ByteIn(e, w, p) = ByteIn(e, row, p)
                /\ ByteIn(s, row, p) = ByteIn(e, row, p)
    <3>1. PICK i, j : i = PartIdx(file, p) /\ j = (p % PartSize) + 1
          OBVIOUS
    <3>2. ByteIn(e, row, p) = IF i \in DOMAIN e.parts THEN e.parts[i][j]
                              ELSE IF i \in DOMAIN row.parts THEN row.parts[i][j] ELSE 0
          BY <2>12, <3>1 DEF ByteIn
    <3>3. (IF i \in DOMAIN w.parts THEN w.parts[i][j] ELSE 0) = ByteIn(e, row, p)
      <4>1. CASE replace BY <2>1, <2>6, <2>15, <3>1, <3>2, <4>1 DEF HasItAll
      <4>2. CASE ~ replace BY <2>6, <3>2, <4>2 DEF Before
      <4>3. QED BY <4>1, <4>2
    <3>4. ByteIn(Clear(e), w, p) = IF i \in DOMAIN w.parts THEN w.parts[i][j] ELSE 0
          BY <2>10, <2>11, <3>1 DEF ByteIn
    <3>5. ByteIn(EmptyEntry, w, p) = IF i \in DOMAIN w.parts THEN w.parts[i][j] ELSE 0
          BY <2>14, <3>1 DEF ByteIn, EmptyEntry
    <3>6. ByteIn(e, w, p) = ByteIn(e, row, p)
          BY <2>12, <3>1, <3>2, <3>3 DEF ByteIn
    <3>7. ByteIn(s, row, p) = ByteIn(e, row, p)
          BY <2>12, <2>13 DEF ByteIn
    <3>8. QED BY <3>3, <3>4, <3>5, <3>6, <3>7
  <2>16. file # NoFile BY <1>2, <2>1
  <2>17. View(Clear(e), w) = View(e, row) /\ View(EmptyEntry, w) = View(e, row)
         BY <2>11, <2>12, <2>14, <2>15, <2>16, SameView
  <2>18. View(e, w) = View(e, row) /\ View(s, row) = View(e, row)
         BY <2>12, <2>13, <2>15, <2>16, SameView
  <2>19. View(Clear(e), row) = View(EmptyEntry, row)
    <3>1. \A p : ByteIn(Clear(e), row, p) = ByteIn(EmptyEntry, row, p)
          BY <2>10, <2>11, <2>14 DEF ByteIn, EmptyEntry
    <3>2. QED BY <2>2, <2>11, <2>14, <3>1, SameView
  <2>20. QED BY <2>5, <2>11, <2>12, <2>13, <2>17, <2>18, <2>19
<1>3. QED BY <1>1, <1>2

LEMMA MakeGoes ==
  ASSUME NEW n \in Names, NEW e, NEW row, Stored(e, row), e.file = NoFile, row.file = NoFile,
         NEW c \in BOOLEAN, NEW m \in Metas, NEW r,
         r = [file |-> [circ |-> c, size |-> 0, meta |-> m], parts |-> row.parts]
  PROVE  Goes(n, e, row, e, r)
<1>1. PICK file : file = [circ |-> c, size |-> 0, meta |-> m]
      OBVIOUS
<1>2. file \in Headers /\ file # NoFile
  <2>1. 0 \in Sizes BY FilesAssumption DEF Sizes
  <2>2. QED BY <1>1, <2>1, FilesAssumption DEF Headers
<1>3. r.file = file /\ RowOK(r)
      BY <1>1, <1>2 DEF Stored, RowOK
<1>4. Stored(e, r) /\ FileIn(e, r) = file
      BY <1>3 DEF Stored, EntryOK, FileIn
<1>5. Stored(EmptyEntry, r) /\ FileIn(EmptyEntry, r) = file
      BY <1>3, EmptyOK
<1>6. Kept(file) = {}
      BY <1>1, PartsAssumption DEF Kept, DataStartIdx
<1>7. ASSUME NEW f, Stored(f, r), FileIn(f, r) = file
      PROVE  View(f, r) = File(n)!Empty(c, m)
  <2>1. View(f, r) = Shown(file, [p \in Kept(file) |-> ByteIn(f, r, p)])
        BY <1>2, <1>7, ViewIs
  <2>2. [p \in Kept(file) |-> ByteIn(f, r, p)] = << >>
        BY <1>6
  <2>3. QED BY <1>1, <2>1, <2>2 DEF Shown, File!Empty
<1>8. View(e, r) = File(n)!Empty(c, m) /\ View(EmptyEntry, r) = File(n)!Empty(c, m)
      BY <1>4, <1>5, <1>7
<1>9. View(e, row) = NoFile
      BY NoView DEF FileIn
<1>10. QED BY <1>4, <1>8, <1>9 DEF Goes, Moves

LEMMA DeleteGoes ==
  ASSUME NEW n \in Names, NEW e, NEW row, Stored(e, row)
  PROVE  Goes(n, e, row, Clear(e), NoRow)
<1>1. IsEntry(Clear(e)) /\ Clear(e).file = NoFile /\ Clear(e).parts = << >>
      BY DEF Stored, EntryOK, IsEntry, Clear, EmptyEntry
<1>2. PartsOK(<< >>) BY DEF PartsOK
<1>3. Stored(Clear(e), NoRow)
      BY <1>1, <1>2 DEF Stored, RowOK, EntryOK, NoRow
<1>4. FileIn(Clear(e), NoRow) = NoFile /\ FileIn(EmptyEntry, NoRow) = NoFile
      BY <1>1 DEF FileIn, NoRow, EmptyEntry
<1>5. QED BY <1>3, <1>4, NoView DEF Goes, Moves

\* Wherever a write starts, what it leaves is of its type.
LEMMA OverStored ==
  ASSUME NEW e, NEW row, Stored(e, row), e.file # NoFile, NEW off \in Nat,
         NEW d \in Seq(Nat), off + Len(d) <= MaxBytes, NEW g, g = Over(e, row, off, d)
  PROVE  Stored(g, row) /\ g.file # NoFile /\ g.file.circ = e.file.circ /\ g.file.meta = e.file.meta
<1>1. PICK file \in Headers, old \in Nat, end \in Sizes :
        file = e.file /\ old = file.size /\ end = off + Len(d)
  <2>1. e.file \in Headers BY DEF Stored, EntryOK
  <2>2. e.file.size \in Nat BY <2>1, FilesAssumption DEF Headers, Sizes
  <2>3. off + Len(d) \in Sizes BY FilesAssumption DEF Sizes
  <2>4. QED BY <2>1, <2>2, <2>3
<1>2. IsEntry(e) /\ PartsOK(e.parts) /\ PartsOK(row.parts) /\ row.file # NoFile
      /\ file.circ = row.file.circ /\ RowOK(row)
      BY <1>1 DEF Stored, EntryOK, RowOK
<1>3. PICK f : f = LoadParts(e, row, Incomplete(PartMap(file, off, Len(d))))
      OBVIOUS
<1>4. SamePins(e, f) /\ IsEntry(f) /\ PartsOK(f.parts) /\ f.file = file
      BY <1>1, <1>2, <1>3, LoadReadsSame DEF SamePins
<1>5. g = WriteAt(f, off, d, FALSE)
      BY <1>1, <1>3 DEF Over
<1>6. CASE file.circ /\ end <= old - MaxSize
  <2>1. g = f BY <1>1, <1>4, <1>5, <1>6 DEF WriteAt
  <2>2. QED BY <1>1, <1>2, <1>4, <2>1, FilesAssumption DEF Stored, EntryOK
<1>7. CASE ~ (file.circ /\ end <= old - MaxSize)
  <2>1. PICK first : first = FirstKept(file, old, off, Len(d))
        OBVIOUS
  <2>2. first \in Nat /\ off <= first /\ (file.circ => off + Len(d) <= first + MaxSize)
    <3>1. MaxSize \in Nat /\ Len(d) \in Nat BY PartsAssumption
    <3>2. PICK cut : cut = IF file.circ /\ off < old - MaxSize THEN old - MaxSize - off ELSE 0
          OBVIOUS
    <3>3. cut \in Nat BY <1>1, <3>1, <3>2
    <3>4. first = off + cut + (IF file.circ /\ Len(d) - cut > MaxSize
                               THEN Len(d) - cut - MaxSize ELSE 0)
          BY <2>1, <3>2, Zenon DEF FirstKept
    <3>5. PICK n \in Nat, max \in Nat : n = Len(d) /\ max = MaxSize
          BY <3>1
    <3>6. CASE file.circ /\ n - cut > max
      <4>1. first = off + cut + (n - cut - max) BY <3>4, <3>5, <3>6
      <4>2. QED BY <3>3, <3>5, <3>6, <4>1
    <3>7. CASE ~ (file.circ /\ n - cut > max)
      <4>1. first = off + cut + 0 BY <3>4, <3>5, <3>7
      <4>2. QED BY <3>3, <3>5, <3>7, <4>1
    <3>8. QED BY <3>6, <3>7
  <2>3. PICK new : new = Patched(file, f.parts, first, off, d)
        OBVIOUS
  <2>4. PartsOK(new)
    <3>1. IsPatched(new, file, f.parts, first, off, d)
          BY <1>4, <2>2, <2>3, PatchedOK
    <3>2. QED BY <3>1 DEF IsPatched
  <2>5. PICK size : size = IF end > old \/ FALSE THEN end ELSE old
        OBVIOUS
  <2>6. PICK h : h = [file EXCEPT !.size = size]
        OBVIOUS
  <2>7. h \in Headers /\ h.circ = file.circ /\ h.meta = file.meta
    <3>1. size \in Sizes BY <1>1, <2>5 DEF Headers
    <3>2. QED BY <2>6, <3>1 DEF Headers
  <2>8. g = [f EXCEPT !.file = h, !.parts = new]
        BY <1>1, <1>4, <1>5, <1>7, <2>1, <2>3, <2>5, <2>6 DEF WriteAt
  <2>9. IsEntry(g) /\ g.file = h /\ g.parts = new
        BY <1>4, <2>8 DEF IsEntry
  <2>10. QED BY <1>1, <1>2, <2>4, <2>7, <2>9, FilesAssumption DEF Stored, EntryOK
<1>8. QED BY <1>6, <1>7

-------------------------------------------------------------------------------
(* The steps.                                                               *)

\* An operation under the lock leaves its file as one step of ByteFile would.
LEMMA WorkResult ==
  ASSUME Pins, StoreInv, NEW t \in Threads, Work(t)
  PROVE  \E e, row : /\ Leave(t, e, row) /\ Stored(e, row)
                     /\ WriteBefore = FALSE => Goes(worker[t].name, Entry(t), Row(t), e, row)
<1>1. PICK n, e0, r0 :
        /\ n \in Names /\ n = worker[t].name /\ Locked(t)
        /\ e0 = Entry(t) /\ r0 = Row(t) /\ Stored(e0, r0)
  <2>1. Locked(t) /\ t \in Workers
        BY DEF Workers, Work, Look, MakeFile, DeleteFile, WriteMeta, WriteFile, WriteAtOp,
               AppendData, WriteFails, CompactIJson, AppendIJson, Exists
  <2>2. worker[t].name \in Names /\ cache[worker[t].name] = worker[t].entry
        /\ worker[t].entry # NoEntry
        BY <2>1 DEF Pins, HoldsWhilePinned, OneEntryPerFile, Locked, Holds
  <2>3. Entry(t) = EntryOf(worker[t].name) BY <2>2 DEF Entry, EntryOf
  <2>4. QED BY <2>1, <2>2, <2>3 DEF StoreInv, Stored, Row
<1>2. ASSUME NEW e, NEW row, Leave(t, e, row), Goes(n, e0, r0, e, row)
      PROVE  \E f, r : /\ Leave(t, f, r) /\ Stored(f, r)
                       /\ WriteBefore = FALSE => Goes(worker[t].name, Entry(t), Row(t), f, r)
      BY <1>1, <1>2 DEF Goes
<1>3. PICK f : f = Loaded(t) /\ f = Load(e0, r0)
      BY <1>1 DEF Loaded
<1>4. ASSUME Exists(t)
      PROVE  /\ f.file # NoFile /\ Stored(f, r0) /\ f.file \in Headers
             /\ View(f, r0) = View(e0, r0) /\ FileIn(e0, r0) # NoFile
  <2>1. f.file # NoFile BY <1>3, <1>4 DEF Exists
  <2>2. QED BY <1>1, <1>3, <2>1, LoadOK
<1>5. CASE Look(t)
  <2>1. Goes(n, e0, r0, e0, r0) BY <1>1 DEF Goes, Moves
  <2>2. QED BY <1>1, <1>2, <1>5, <2>1 DEF Look
<1>6. CASE MakeFile(t)
  <2>1. PICK c, m, r :
          /\ c \in BOOLEAN /\ m \in Metas
          /\ r = [file |-> [circ |-> c, size |-> 0, meta |-> m], parts |-> r0.parts]
          /\ Leave(t, e0, r) /\ e0.file = NoFile /\ r0.file = NoFile
        BY <1>1, <1>6 DEF MakeFile
  <2>2. Goes(n, e0, r0, e0, r) BY <1>1, <2>1, MakeGoes
  <2>3. QED BY <1>2, <2>1, <2>2
<1>7. CASE DeleteFile(t)
  <2>1. Goes(n, e0, r0, Clear(e0), NoRow) BY <1>1, DeleteGoes
  <2>2. Leave(t, Clear(e0), NoRow) BY <1>1, <1>7 DEF DeleteFile
  <2>3. QED BY <1>2, <2>1, <2>2
<1>8. CASE WriteMeta(t)
  <2>1. Exists(t) BY <1>8 DEF WriteMeta
  <2>2. PICK m, g :
          m \in Metas /\ g = WithMeta(f, m) /\ Leave(t, g, r0)
        BY <1>1, <1>3, <1>8 DEF WriteMeta
  <2>3. Goes(n, e0, r0, g, r0) BY <1>1, <1>3, <1>4, <2>1, <2>2, MetaGoes
  <2>4. QED BY <1>2, <2>2, <2>3
<1>9. CASE WriteFile(t)
  <2>1. Exists(t) BY <1>9 DEF WriteFile
  <2>2. PICK d, g :
          /\ d \in Inputs /\ Len(d) <= MaxBytes /\ g = WriteAt(f, 0, d, TRUE)
          /\ \E r \in FlushResults(g, r0, TRUE) : Leave(t, r.e, r.row)
        BY <1>1, <1>3, <1>9 DEF WriteFile
  <2>3. PICK r \in FlushResults(g, r0, TRUE) : Leave(t, r.e, r.row)
        BY <2>2
  <2>4. /\ Goes(n, e0, r0, g, r0) /\ HasItAll(g)
        /\ View(e0, r0) # NoFile /\ View(g, r0) # NoFile
        /\ File(n)!Changed(View(e0, r0), View(g, r0))
        BY <1>1, <1>3, <1>4, <2>1, <2>2, ReplaceGoes
  <2>5. /\ Stored(r.e, r.row)
        /\ \/ /\ View(r.e, r.row) = View(g, r0)
              /\ View(EmptyEntry, r.row) \in {View(EmptyEntry, r0), View(g, r0)}
           \/ /\ View(r.e, r.row) = View(EmptyEntry, r0)
              /\ View(EmptyEntry, r.row) = View(EmptyEntry, r0)
        BY <2>4, FlushOK DEF Goes
  <2>6. Goes(n, e0, r0, r.e, r.row)
        BY <2>4, <2>5 DEF Goes, Moves
  <2>7. QED BY <1>2, <2>3, <2>6
<1>10. ASSUME NEW off \in Nat, Exists(t), off >= DataStartIdx(f.file) \/ WriteBefore # FALSE,
              off <= f.file.size, NEW d \in Inputs \cup OverInputs, off + Len(d) <= MaxBytes
       PROVE  LET g == Over(f, r0, off, d)
              IN  /\ Stored(g, r0) /\ g.file # NoFile
                  /\ g.file.circ = f.file.circ /\ g.file.meta = f.file.meta
                  /\ WriteBefore = FALSE => Goes(n, e0, r0, g, r0)
  <2>1. PICK g : g = Over(f, r0, off, d) OBVIOUS
  <2>2. d \in Seq(Nat) BY FilesAssumption
  <2>3. /\ Stored(g, r0) /\ g.file # NoFile
        /\ g.file.circ = f.file.circ /\ g.file.meta = f.file.meta
        BY <1>4, <1>10, <2>1, <2>2, OverStored
  <2>4. ASSUME WriteBefore = FALSE PROVE Goes(n, e0, r0, g, r0)
        BY <1>1, <1>3, <1>4, <1>10, <2>1, <2>4, OverGoes
  <2>5. QED BY <2>1, <2>3, <2>4
<1>11. ASSUME Exists(t)
       PROVE  /\ f.file.size \in Nat /\ f.file.size <= MaxBytes
              /\ f.file.size >= DataStartIdx(f.file)
  <2>1. f.file.size \in 0 .. MaxBytes BY <1>4, <1>11 DEF Headers, Sizes
  <2>2. QED BY <2>1, FilesAssumption, PartsAssumption DEF DataStartIdx
<1>12. CASE WriteAtOp(t)
  <2>1. Exists(t) BY <1>12 DEF WriteAtOp
  <2>2. PICK d \in OverInputs, off \in 0 .. f.file.size :
          /\ WriteBefore \/ off >= DataStartIdx(f.file)
          /\ off + Len(d) <= MaxBytes /\ Leave(t, Over(f, r0, off, d), r0)
        BY <1>1, <1>3, <1>12 DEF WriteAtOp, WriteOver
  <2>3. off \in Nat /\ off <= f.file.size
        BY <1>11, <2>1
  <2>4. PICK g : g = Over(f, r0, off, d) OBVIOUS
  <2>5. Stored(g, r0) /\ (WriteBefore = FALSE => Goes(n, e0, r0, g, r0))
        BY <1>10, <2>1, <2>2, <2>3, <2>4
  <2>6. QED BY <1>1, <2>2, <2>4, <2>5
<1>13. CASE AppendData(t)
  <2>1. Exists(t) BY <1>13 DEF AppendData
  <2>2. PICK d \in Inputs :
          f.file.size + Len(d) <= MaxBytes /\ Leave(t, Over(f, r0, f.file.size, d), r0)
        BY <1>1, <1>3, <1>13 DEF AppendData, WriteOver
  <2>3. PICK off, g : off \in Nat /\ off = f.file.size /\ g = Over(f, r0, off, d)
        BY <1>11, <2>1
  <2>4. Stored(g, r0) /\ (WriteBefore = FALSE => Goes(n, e0, r0, g, r0))
    <3>1. off >= DataStartIdx(f.file) /\ off <= f.file.size /\ off + Len(d) <= MaxBytes
          BY <1>11, <2>1, <2>2, <2>3
    <3>2. d \in Inputs \cup OverInputs BY <2>2
    <3>3. QED BY <1>10, <2>1, <2>3, <3>1, <3>2
  <2>5. QED BY <1>1, <2>2, <2>3, <2>4
<1>14. CASE WriteFails(t)
  <2>1. Exists(t) /\ Leave(t, f, r0) BY <1>1, <1>3, <1>14 DEF WriteFails
  <2>2. Goes(n, e0, r0, f, r0) BY <1>4, <2>1 DEF Goes, Moves
  <2>3. QED BY <1>2, <2>1, <2>2
<1>15. CASE CompactIJson(t)
  <2>1. Exists(t) BY <1>15 DEF CompactIJson
  <2>2. PICK g \in Compacted(f) : Leave(t, g, r0)
        BY <1>1, <1>3, <1>15 DEF CompactIJson
  <2>3. Goes(n, e0, r0, g, r0) BY <1>1, <1>3, <1>4, <2>1, CompactGoes
  <2>4. QED BY <1>2, <2>2, <2>3
<1>16. CASE AppendIJson(t)
  <2>1. Exists(t) /\ ~f.file.circ BY <1>3, <1>16 DEF AppendIJson
  <2>2. PICK d, k, g :
          /\ d \in Commands /\ f.file.size + Len(d) < MaxBytes /\ k = Commanded(f, r0, d)
          /\ \/ g = k
             \/ f.file.size # 0 /\ \E c \in Counted(k) : g = c \/ g \in Compacted(c)
          /\ Leave(t, g, r0)
    <3>1. PICK d \in Commands :
            /\ f.file.size + Len(d) < MaxBytes
            /\ LET k == Commanded(f, r0, d)
               IN  \E g \in IF f.file.size = 0 THEN {k}
                            ELSE UNION {{c} \cup Compacted(c) : c \in Counted(k)} :
                     Leave(t, g, r0)
          BY <1>1, <1>3, <1>16, Zenon DEF AppendIJson
    <3>2. PICK k : k = Commanded(f, r0, d)
          OBVIOUS
    <3>3. PICK g : /\ g \in IF f.file.size = 0 THEN {k}
                             ELSE UNION {{c} \cup Compacted(c) : c \in Counted(k)}
                   /\ Leave(t, g, r0)
          BY <3>1, <3>2
    <3>4. \/ g = k
          \/ f.file.size # 0 /\ \E c \in Counted(k) : g = c \/ g \in Compacted(c)
          BY <3>3
    <3>5. QED BY <3>1, <3>2, <3>3, <3>4
  <2>3. Goes(n, e0, r0, g, r0) BY <1>1, <1>3, <1>4, <2>1, <2>2, CommandGoes
  <2>4. QED BY <1>2, <2>2, <2>3
<1>17. QED BY <1>5, <1>6, <1>7, <1>8, <1>9, <1>12, <1>13, <1>14, <1>15, <1>16 DEF Work

\* A step under the lock changes nothing of the other files.
LEMMA LockedGoes ==
  ASSUME Pins, StoreInv, NEW w \in Workers, Locked(w), NEW n, n = worker[w].name,
         NEW e, NEW row, Stored(e, row), cache' = cache,
         heap' = [heap EXCEPT ![worker[w].entry] = e], db' = [db EXCEPT ![n] = row]
  PROVE  /\ StoreInv' /\ n \in Names
         /\ Now(n) = View(Entry(w), Row(w)) /\ Saved(n) = View(EmptyEntry, Row(w))
         /\ Now(n)' = View(e, row) /\ Saved(n)' = View(EmptyEntry, row)
         /\ \A m \in Names \ {n} : Now(m)' = Now(m) /\ Saved(m)' = Saved(m)
<1>1. /\ n \in Names /\ cache[n] = worker[w].entry /\ cache[n] \in Entries
      /\ cache[n] # NoEntry
      BY DEF Pins, Shapes, HoldsWhilePinned, OneEntryPerFile, Locked, Holds
<1>2. EntryOf(n) = Entry(w) /\ db[n] = Row(w)
      BY <1>1 DEF EntryOf, Entry, Row
<1>3. EntryOf(n)' = e /\ db'[n] = row
      BY <1>1 DEF EntryOf, Pins, Shapes, StoreInv
<1>4. ASSUME NEW m \in Names \ {n} PROVE EntryOf(m)' = EntryOf(m) /\ db'[m] = db[m]
  <2>1. cache[m] # NoEntry => cache[m] # cache[n] /\ cache[m] \in Entries
        BY <1>1 DEF Pins, Shapes, OneEntryPerFile
  <2>2. db'[m] = db[m] BY DEF StoreInv
  <2>3. QED BY <1>1, <2>1, <2>2 DEF EntryOf, Pins, Shapes
<1>5. StoreInv'
  <2>1. db' = [m \in Names |-> db'[m]] BY DEF StoreInv
  <2>2. ASSUME NEW m \in Names PROVE RowOK(db'[m]) /\ EntryOK(EntryOf(m)', db'[m])
    <3>1. CASE m = n BY <1>3, <3>1 DEF Stored
    <3>2. CASE m # n BY <1>4, <3>2 DEF StoreInv
    <3>3. QED BY <3>1, <3>2
  <2>3. QED BY <2>1, <2>2 DEF StoreInv
<1>6. QED BY <1>1, <1>2, <1>3, <1>4, <1>5 DEF Now, Saved

\* A step that leaves the file and the parts of every entry leaves the files.
LEMMA Unmoved ==
  ASSUME StoreInv, db' = db,
         \A n \in Names : /\ IsEntry(EntryOf(n)')
                          /\ EntryOf(n)'.file = EntryOf(n).file
                          /\ EntryOf(n)'.parts = EntryOf(n).parts
  PROVE  StoreInv' /\ \A n \in Names : Now(n)' = Now(n) /\ Saved(n)' = Saved(n)
<1>1. StoreInv'
      BY DEF StoreInv, EntryOK
<1>2. ASSUME NEW e, NEW f, e.file = f.file, e.parts = f.parts, NEW row
      PROVE  View(e, row) = View(f, row)
  <2>1. FileIn(e, row) = FileIn(f, row) BY <1>2 DEF FileIn
  <2>2. \A p : ByteIn(e, row, p) = ByteIn(f, row, p) BY <1>2, <2>1 DEF ByteIn
  <2>3. QED BY <2>1, <2>2 DEF View
<1>3. QED BY <1>1, <1>2 DEF Now, Saved

LEMMA PinUnmoved ==
  ASSUME Pins, StoreInv, NEW w \in Workers, NEW n \in Names, getEntryAndPin(w, n), db' = db
  PROVE  StoreInv' /\ \A m \in Names : Now(m)' = Now(m) /\ Saved(m)' = Saved(m)
<1>1. PICK e : /\ e \in Entries /\ e # NoEntry
               /\ cache[n] = NoEntry => \A m \in Names : cache[m] # e
               /\ cache[n] # NoEntry => e = cache[n]
               /\ cache' = [cache EXCEPT ![n] = e]
               /\ heap' = IF cache[n] = NoEntry
                          THEN [heap EXCEPT ![e] = [EmptyEntry EXCEPT !.pins = 1]]
                          ELSE [heap EXCEPT ![e].pins = @ + 1]
  <2>1. PICK e \in IF cache[n] = NoEntry THEN {e \in Free : \A x \in Free : e <= x}
                   ELSE {cache[n]} :
          /\ cache' = [cache EXCEPT ![n] = e]
          /\ heap' = IF cache[n] = NoEntry
                     THEN [heap EXCEPT ![e] = [EmptyEntry EXCEPT !.pins = 1]]
                     ELSE [heap EXCEPT ![e].pins = @ + 1]
        BY DEF getEntryAndPin
  <2>2. /\ cache[n] = NoEntry => e \in Free
        /\ cache[n] # NoEntry => e = cache[n]
        BY <2>1
  <2>3. e \in Entries /\ e # NoEntry
        BY <2>2, WorkersAssumption DEF Pins, Shapes, Free
  <2>4. QED BY <2>1, <2>2, <2>3 DEF Free
<1>2. ASSUME NEW m \in Names
      PROVE  /\ IsEntry(EntryOf(m)')
             /\ EntryOf(m)'.file = EntryOf(m).file /\ EntryOf(m)'.parts = EntryOf(m).parts
  <2>0. IsEntry(EntryOf(m)) BY DEF StoreInv, EntryOK
  <2>1. CASE m = n
    <3>1. EntryOf(m)' = heap'[e] BY <1>1, <2>1 DEF EntryOf, Pins, Shapes
    <3>2. CASE cache[n] = NoEntry
      <4>1. heap'[e] = [EmptyEntry EXCEPT !.pins = 1] /\ EntryOf(m) = EmptyEntry
            BY <1>1, <2>1, <3>2 DEF EntryOf, Pins, Shapes
      <4>2. QED BY <3>1, <4>1 DEF EmptyEntry, IsEntry
    <3>3. CASE cache[n] # NoEntry
      <4>1. heap'[e] = [heap[e] EXCEPT !.pins = @ + 1] /\ EntryOf(m) = heap[e]
            BY <1>1, <2>1, <3>3 DEF EntryOf, Pins, Shapes
      <4>2. QED BY <2>0, <3>1, <4>1 DEF IsEntry
    <3>4. QED BY <3>2, <3>3
  <2>2. CASE m # n
    <3>1. cache'[m] = cache[m] BY <1>1, <2>2 DEF Pins, Shapes
    <3>2. cache[m] # NoEntry => cache[m] # e /\ cache[m] \in Entries
          BY <1>1, <2>2 DEF Pins, Shapes, OneEntryPerFile
    <3>3. EntryOf(m)' = EntryOf(m)
          BY <1>1, <3>1, <3>2 DEF EntryOf, Pins, Shapes
    <3>4. QED BY <2>0, <3>3
  <2>3. QED BY <2>1, <2>2
<1>3. QED BY <1>2, Unmoved

LEMMA UnpinUnmoved ==
  ASSUME Pins, StoreInv, NEW w \in Workers, worker[w].pc = "done",
         unpinEntryAndTryDelete(w), db' = db
  PROVE  StoreInv' /\ \A m \in Names : Now(m)' = Now(m) /\ Saved(m)' = Saved(m)
<1>1. PICK n, e : /\ n \in Names /\ n = worker[w].name /\ e \in Entries /\ e # NoEntry
                  /\ cache[n] = e /\ w \in PinnedBy(n)
      BY DEF Pins, Shapes, HoldsWhilePinned, OneEntryPerFile, Holds, PinnedBy
<1>2. /\ heap' = [heap EXCEPT ![e].pins = @ - 1]
      /\ cache' = IF Unneeded(heap[e]) THEN [cache EXCEPT ![n] = NoEntry] ELSE cache
      BY <1>1 DEF unpinEntryAndTryDelete
<1>3. heap[e].pins \in Nat \ {0}
  <2>1. Cardinality(PinnedBy(n)) \in Nat /\ Cardinality(PinnedBy(n)) # 0
        BY <1>1, FinitePinned, FS_CardinalityType, FS_EmptySet
  <2>2. QED BY <1>1, <2>1 DEF Pins, OneEntryPerFile
<1>4. ASSUME NEW m \in Names
      PROVE  /\ IsEntry(EntryOf(m)')
             /\ EntryOf(m)'.file = EntryOf(m).file /\ EntryOf(m)'.parts = EntryOf(m).parts
  <2>0. EntryOK(EntryOf(m), db[m]) /\ IsEntry(EntryOf(m)) BY DEF StoreInv, EntryOK
  <2>1. CASE m = n
    <3>1. EntryOf(m) = heap[e] BY <1>1, <2>1 DEF EntryOf
    <3>2. heap'[e] = [heap[e] EXCEPT !.pins = @ - 1]
          BY <1>1, <1>2 DEF Pins, Shapes
    <3>3. CASE Unneeded(heap[e])
      <4>1. EntryOf(m)' = EmptyEntry
            BY <1>1, <1>2, <2>1, <3>3 DEF EntryOf, Pins, Shapes
      <4>2. heap[e].file = NoFile /\ heap[e].parts = << >>
            BY <2>0, <3>1, <3>3 DEF Unneeded, EntryOK
      <4>3. QED BY <3>1, <4>1, <4>2 DEF EmptyEntry, IsEntry
    <3>4. CASE ~ Unneeded(heap[e])
      <4>1. EntryOf(m)' = heap'[e]
            BY <1>1, <1>2, <2>1, <3>4 DEF EntryOf
      <4>2. QED BY <1>3, <2>0, <3>1, <3>2, <4>1 DEF IsEntry
    <3>5. QED BY <3>3, <3>4
  <2>2. CASE m # n
    <3>1. cache'[m] = cache[m] BY <1>2, <2>2 DEF Pins, Shapes
    <3>2. cache[m] # NoEntry => cache[m] # e /\ cache[m] \in Entries
          BY <1>1, <2>2 DEF Pins, Shapes, OneEntryPerFile
    <3>3. EntryOf(m)' = EntryOf(m)
          BY <1>2, <3>1, <3>2 DEF EntryOf, Pins, Shapes
    <3>4. QED BY <2>0, <3>3
  <2>3. QED BY <2>1, <2>2
<1>5. QED BY <1>4, Unmoved

Steps == \A n \in Names : [File(n)!Next]_<<Now(n), Saved(n)>>

LEMMA UnmovedSteps ==
  ASSUME \A m \in Names : Now(m)' = Now(m) /\ Saved(m)' = Saved(m) PROVE Steps
BY DEF Steps

LEMMA StoreStep ==
  ASSUME Pins, TodoIsFiles, StoreInv, [Next]_vars
  PROVE  StoreInv' /\ (WriteBefore = FALSE => Steps)
<1>1. ASSUME StoreInv', \A m \in Names : Now(m)' = Now(m) /\ Saved(m)' = Saved(m)
      PROVE  StoreInv' /\ (WriteBefore = FALSE => Steps)
      BY <1>1, UnmovedSteps
<1>2. ASSUME NEW w \in Workers, Locked(w), NEW e, NEW row, Stored(e, row), cache' = cache,
             heap' = [heap EXCEPT ![worker[w].entry] = e],
             db' = [db EXCEPT ![worker[w].name] = row],
             WriteBefore = FALSE => Goes(worker[w].name, Entry(w), Row(w), e, row)
      PROVE  StoreInv' /\ (WriteBefore = FALSE => Steps)
  <2>1. PICK n : n = worker[w].name OBVIOUS
  <2>2. /\ StoreInv' /\ n \in Names
        /\ Now(n) = View(Entry(w), Row(w)) /\ Saved(n) = View(EmptyEntry, Row(w))
        /\ Now(n)' = View(e, row) /\ Saved(n)' = View(EmptyEntry, row)
        /\ \A m \in Names \ {n} : Now(m)' = Now(m) /\ Saved(m)' = Saved(m)
        BY <1>2, <2>1, LockedGoes
  <2>3. ASSUME WriteBefore = FALSE, NEW m \in Names
        PROVE  [File(m)!Next]_<<Now(m), Saved(m)>>
    <3>1. CASE m = n
      <4>1. Moves(n, Now(n), Saved(n), Now(n)', Saved(n)')
            BY <1>2, <2>1, <2>2, <2>3 DEF Goes
      <4>2. [File(n)!Next]_<<Now(n), Saved(n)>> BY <2>2, <4>1, MovesAreSteps
      <4>3. QED BY <3>1, <4>2
    <3>2. CASE m # n BY <2>2, <3>2
    <3>3. QED BY <3>1, <3>2
  <2>4. QED BY <2>2, <2>3 DEF Steps
<1>3. ASSUME NEW t \in Threads, Call(t) PROVE StoreInv' /\ (WriteBefore = FALSE => Steps)
  <2>1. PICK n \in Names : getEntryAndPin(t, n) BY <1>3 DEF Call
  <2>2. t \in Workers /\ db' = db BY <1>3 DEF Call, Workers
  <2>3. QED BY <1>1, <2>1, <2>2, PinUnmoved
<1>4. ASSUME NEW t \in Threads, Work(t) PROVE StoreInv' /\ (WriteBefore = FALSE => Steps)
  <2>1. t \in Workers /\ Locked(t)
        BY <1>4 DEF Workers, Work, Look, MakeFile, DeleteFile, WriteMeta, WriteFile, WriteAtOp,
                    AppendData, WriteFails, CompactIJson, AppendIJson, Exists
  <2>2. PICK e, row : /\ Leave(t, e, row) /\ Stored(e, row)
                      /\ WriteBefore = FALSE
                         => Goes(worker[t].name, Entry(t), Row(t), e, row)
        BY <1>4, WorkResult
  <2>3. QED BY <1>2, <2>1, <2>2 DEF Leave
<1>5. ASSUME NEW t \in Threads, Return(t) PROVE StoreInv' /\ (WriteBefore = FALSE => Steps)
      BY <1>1, <1>5, UnpinUnmoved DEF Return, Workers
<1>6. ASSUME NEW f \in Flushers, FlushNext(f) PROVE StoreInv' /\ (WriteBefore = FALSE => Steps)
  <2>1. PICK n \in todo[f] : getEntryAndPin(f, n) BY <1>6 DEF FlushNext
  <2>2. n \in Names /\ f \in Workers /\ db' = db
        BY <1>6 DEF FlushNext, Workers, TodoIsFiles
  <2>3. QED BY <1>1, <2>1, <2>2, PinUnmoved
<1>7. ASSUME NEW f \in Flushers, NEW ok \in BOOLEAN, FlushEntry(f, ok)
      PROVE  StoreInv' /\ (WriteBefore = FALSE => Steps)
  <2>1. f \in Workers /\ Locked(f) /\ cache' = cache BY <1>7 DEF Workers, FlushEntry
  <2>2. PICK r \in FlushResults(Entry(f), Row(f), FALSE) :
          /\ heap' = [heap EXCEPT ![worker[f].entry] = r.e]
          /\ db' = [db EXCEPT ![worker[f].name] = r.row]
        BY <1>7 DEF FlushEntry
  <2>3. worker[f].name \in Names /\ Entry(f) = EntryOf(worker[f].name)
        BY <2>1 DEF Pins, HoldsWhilePinned, OneEntryPerFile, Locked, Holds, Entry, EntryOf
  <2>4. Stored(Entry(f), Row(f))
        BY <2>3 DEF StoreInv, Stored, Row
  <2>5. /\ Stored(r.e, r.row)
        /\ \/ /\ View(r.e, r.row) = View(Entry(f), Row(f))
              /\ View(EmptyEntry, r.row) \in {View(EmptyEntry, Row(f)), View(Entry(f), Row(f))}
           \/ /\ View(r.e, r.row) = View(EmptyEntry, Row(f))
              /\ View(EmptyEntry, r.row) = View(EmptyEntry, Row(f))
        BY <2>4, FlushOK
  <2>6. Goes(worker[f].name, Entry(f), Row(f), r.e, r.row)
        BY <2>5 DEF Goes, Moves
  <2>7. QED BY <1>2, <2>1, <2>2, <2>5, <2>6
<1>8. ASSUME NEW f \in Flushers, FlushUnpin(f) PROVE StoreInv' /\ (WriteBefore = FALSE => Steps)
      BY <1>1, <1>8, UnpinUnmoved DEF FlushUnpin, Workers
<1>9. CASE db' = db /\ cache' = cache /\ heap' = heap
  <2>1. \A n \in Names : EntryOf(n)' = EntryOf(n) BY <1>9 DEF EntryOf
  <2>2. \A n \in Names : IsEntry(EntryOf(n)) BY DEF StoreInv, EntryOK
  <2>3. QED BY <1>1, <1>9, <2>1, <2>2, Unmoved
<1>10. CASE Restart
  <2>1. \A n \in Names : EntryOf(n)' = EmptyEntry BY <1>10 DEF Restart, EntryOf
  <2>2. db' = db BY <1>10 DEF Restart
  <2>3. StoreInv'
    <3>1. \A n \in Names : Stored(EmptyEntry, db[n]) BY EmptyOK DEF StoreInv
    <3>2. QED BY <2>1, <2>2, <3>1 DEF StoreInv, Stored
  <2>4. ASSUME NEW n \in Names PROVE [File(n)!Next]_<<Now(n), Saved(n)>>
    <3>1. Now(n)' = Saved(n) /\ Saved(n)' = Saved(n) BY <2>1, <2>2 DEF Now, Saved
    <3>2. Moves(n, Now(n), Saved(n), Now(n)', Saved(n)') BY <3>1 DEF Moves
    <3>3. QED BY <3>2, MovesAreSteps
  <2>5. QED BY <2>3, <2>4 DEF Steps
<1>11. ASSUME NEW f \in Flushers, StartFlush(f) \/ EndFlush(f)
       PROVE  db' = db /\ cache' = cache /\ heap' = heap
       BY <1>11 DEF StartFlush, EndFlush
<1>12. UNCHANGED vars => db' = db /\ cache' = cache /\ heap' = heap
       BY DEF vars
<1>13. QED BY <1>3, <1>4, <1>5, <1>6, <1>7, <1>8, <1>9, <1>10, <1>11, <1>12
           DEF Next, FlushStep

-------------------------------------------------------------------------------

LEMMA ReadOK ==
  ASSUME NEW e, NEW row, Stored(e, row), NEW f, f = View(e, row), f # NoFile,
         NEW off \in 0 .. f.size, NEW len \in 1 .. MaxBytes
  PROVE  LET r    == ReadAt(e, row, off, len)
             want == {p \in DOMAIN f.at : p >= off /\ p < off + len}
         IN  /\ Len(r.data) = Cardinality(want)
             /\ \A p \in want : r.data[p - r.offset + 1] = f.at[p]
<1>1. PICK file \in Headers : file = FileIn(e, row) /\ file # NoFile
      BY NoView, FileInOK
<1>2. f = Shown(file, [p \in Kept(file) |-> ByteIn(e, row, p)])
      BY <1>1, ViewIs
<1>3. PICK b \in Nat, s \in Nat :
        /\ b = DataStartIdx(file) /\ s = file.size /\ b <= s /\ (~ file.circ => b = 0)
  <2>1. file.size \in Nat BY FilesAssumption DEF Headers, Sizes
  <2>2. DataStartIdx(file) \in Nat /\ DataStartIdx(file) <= file.size
        /\ (~ file.circ => DataStartIdx(file) = 0)
        BY <2>1, PartsAssumption DEF DataStartIdx
  <2>3. QED BY <2>1, <2>2
<1>4. /\ f.size = s /\ DOMAIN f.at = b .. s - 1
      /\ \A p \in b .. s - 1 : f.at[p] = ByteIn(e, row, p)
  <2>1. f.size = s /\ f.at = [p \in Kept(file) |-> ByteIn(e, row, p)]
        BY <1>2, <1>3 DEF Shown
  <2>2. QED BY <1>3, <2>1 DEF Kept
<1>5. off \in Nat /\ off <= s /\ len \in Nat \ {0} /\ file.circ \in BOOLEAN
      BY <1>3, <1>4 DEF Headers
<1>6. PICK w \in Nat, c \in Nat : /\ w = IF off + len > s THEN s - off ELSE len
                                  /\ c = Cut(file, off) /\ c = IF off < b THEN b - off ELSE 0
      BY <1>3, <1>5 DEF Cut
<1>7. PICK want : want = {p \in DOMAIN f.at : p >= off /\ p < off + len}
      OBVIOUS
<1>8. want = (off + c) .. (off + w - 1)
  <2>1. \A p : p \in want <=> p \in b .. s - 1 /\ p >= off /\ p < off + len
        BY <1>4, <1>7
  <2>2. ASSUME NEW p PROVE (p \in b .. s - 1 /\ p >= off /\ p < off + len)
                           <=> p \in (off + c) .. (off + w - 1)
    <3>1. CASE p \in Int
      <4>1. off + c = IF off < b THEN b ELSE off BY <1>3, <1>5, <1>6
      <4>2. off + w = IF off + len > s THEN s ELSE off + len BY <1>3, <1>5, <1>6
      <4>3. off + c \in Nat /\ off + w \in Nat BY <1>5, <1>6
      <4>4. QED BY <1>3, <1>5, <3>1, <4>1, <4>2, <4>3
    <3>2. CASE p \notin Int BY <1>3, <1>5, <1>6, <3>2
    <3>3. QED BY <3>1, <3>2
  <2>3. QED BY <2>1, <2>2
<1>9. Cardinality(want) = IF off + c > off + w - 1 THEN 0 ELSE (off + w - 1) - (off + c) + 1
      BY <1>5, <1>6, <1>8, FS_Interval
<1>10. PICK r : r = ReadAt(e, row, off, len)
       OBVIOUS
<1>11. r = IF file.circ /\ w - c <= 0 THEN [offset |-> DataStartIdx(file), data |-> << >>]
           ELSE [offset |-> off + c,
                 data |-> [i \in 1 .. (w - c) |-> ByteIn(e, row, off + c + i - 1)]]
       BY <1>1, <1>3, <1>6, <1>10, Zenon DEF ReadAt
<1>12. CASE file.circ /\ w - c <= 0
  <2>1. want = {} BY <1>5, <1>6, <1>8, <1>12
  <2>2. r.data = << >> BY <1>11, <1>12
  <2>3. QED BY <1>7, <1>10, <2>1, <2>2, FS_EmptySet
<1>13. CASE ~ (file.circ /\ w - c <= 0)
  <2>1. PICK n \in Nat : n = w - c
    <3>1. ~ file.circ => c = 0 BY <1>3, <1>5, <1>6
    <3>2. QED BY <1>5, <1>6, <1>13, <3>1
  <2>2. PICK data : data = [i \in 1 .. n |-> ByteIn(e, row, off + c + i - 1)]
        OBVIOUS
  <2>3. r = [offset |-> off + c, data |-> data] BY <1>11, <1>13, <2>1, <2>2
  <2>4. Len(data) = n
    <3>1. \A i \in 1 .. n : ByteIn(e, row, off + c + i - 1) \in Nat
      <4>1. \A i \in 1 .. n : off + c + i - 1 \in Nat BY <1>5, <1>6, <2>1
      <4>2. QED BY <4>1, ByteInNat
    <3>2. data \in Seq(Nat) BY <2>2, <3>1
    <3>3. DOMAIN data = 1 .. n BY <2>2
    <3>4. QED BY <3>2, <3>3
  <2>5. Cardinality(want) = n BY <1>5, <1>6, <1>9, <2>1
  <2>6. ASSUME NEW p \in want PROVE data[p - (off + c) + 1] = f.at[p]
    <3>1. p \in Nat /\ p - (off + c) + 1 \in 1 .. n /\ p \in b .. s - 1
          /\ off + c + (p - (off + c) + 1) - 1 = p
      <4>1. p \in (off + c) .. (off + w - 1) BY <1>8, <2>6
      <4>2. p \in b .. s - 1 BY <1>4, <1>7, <2>6
      <4>3. QED BY <1>3, <1>5, <1>6, <2>1, <4>1, <4>2
    <3>2. data[p - (off + c) + 1] = ByteIn(e, row, p) BY <2>2, <3>1
    <3>3. QED BY <1>4, <3>1, <3>2
  <2>7. QED BY <1>7, <1>10, <2>3, <2>4, <2>5, <2>6
<1>14. QED BY <1>12, <1>13

-------------------------------------------------------------------------------
LEMMA Invariant == Spec => [](Pins /\ TodoIsFiles /\ StoreInv)
<1>1. Init => Pins /\ TodoIsFiles /\ StoreInv
  <2> SUFFICES ASSUME Init PROVE StoreInv
      BY PinsInit
  <2>1. RowOK(NoRow) BY DEF RowOK, NoRow, PartsOK
  <2>2. \A n \in Names : db[n] = NoRow /\ EntryOf(n) = EmptyEntry BY DEF Init, EntryOf
  <2>3. Stored(EmptyEntry, NoRow) BY <2>1, EmptyOK
  <2>4. db = [n \in Names |-> db[n]] BY DEF Init
  <2>5. QED BY <2>2, <2>3, <2>4 DEF StoreInv, Stored
<1>2. Pins /\ TodoIsFiles /\ StoreInv /\ [Next]_vars => (Pins /\ TodoIsFiles /\ StoreInv)'
      BY PinsStep, TodoStep, StoreStep
<1>3. QED BY <1>1, <1>2, PTL DEF Spec

(* OneEntryPerFile: however many callers and files there are, and whatever  *)
(* fails, a file has one entry and so one lock (getEntryAndPin).            *)
THEOREM FileHasOneLock == Spec => []OneEntryPerFile
<1>1. Pins => OneEntryPerFile BY DEF Pins
<1>2. QED BY <1>1, Invariant, PTL

(* ReadsWhatWasWritten: any read of any file returns the bytes that are     *)
(* kept of what it asks for, all of them and in their places, wherever the  *)
(* parts are (entry.readAt).                                                *)
THEOREM ReadsAreWhole == Spec => []ReadsWhatWasWritten
<1>1. StoreInv => ReadsWhatWasWritten
  <2> SUFFICES ASSUME StoreInv, NEW n \in Names, NEW f \in {Now(n)} \ {NoFile},
                      NEW off \in 0 .. f.size, NEW len \in 1 .. MaxBytes
               PROVE  LET r    == ReadAt(EntryOf(n), db[n], off, len)
                          want == {p \in DOMAIN f.at : p >= off /\ p < off + len}
                      IN  /\ Len(r.data) = Cardinality(want)
                          /\ \A p \in want : r.data[p - r.offset + 1] = f.at[p]
      BY DEF ReadsWhatWasWritten
  <2>1. Stored(EntryOf(n), db[n]) /\ f = View(EntryOf(n), db[n]) /\ f # NoFile
        BY DEF StoreInv, Stored, Now
  <2>2. QED BY <2>1, ReadOK
<1>2. QED BY <1>1, Invariant, PTL

(* IsByteFile: where no write starts before the bytes a circular file       *)
(* keeps, the store is one file of bytes for each name: no step of the      *)
(* cache, the parts, the flushes and their failures shows (filestore.go,    *)
(* blockstore_cache.go).                                                    *)
THEOREM StoreIsByteFile == ASSUME WriteBefore = FALSE PROVE Spec => IsByteFile
<1>1. Init => \A n \in Names : File(n)!Init
  <2> SUFFICES ASSUME Init, NEW n \in Names PROVE Now(n) = NoFile /\ Saved(n) = NoFile
      BY DEF File!Init
  <2>1. db[n] = NoRow /\ EntryOf(n) = EmptyEntry BY DEF Init, EntryOf
  <2>2. QED BY <2>1 DEF Now, Saved, View, FileIn, NoRow, EmptyEntry
<1>2. Pins /\ TodoIsFiles /\ StoreInv /\ [Next]_vars
        => [\A n \in Names : [File(n)!Next]_<<Now(n), Saved(n)>>]_vars
      BY StoreStep DEF Steps
<1>3. QED BY <1>1, <1>2, Invariant, PTL DEF Spec, IsByteFile
===============================================================================
