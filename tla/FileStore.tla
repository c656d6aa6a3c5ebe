------------------------------- MODULE FileStore -------------------------------
(***************************************************************************)
(* The file store (src/pkg/filestore): a write cache before the database.  *)
(* Every operation pins the cache entry of its file under the store's lock,*)
(* works on it under the entry's lock, and unpins it; an entry that nobody *)
(* pins and that has no file leaves the cache.  The cache holds a file and *)
(* the parts of its data that were written, until a flush saves them.      *)
(***************************************************************************)
EXTENDS Integers, Sequences, FiniteSets

CONSTANTS Names, Inputs, Metas, MaxSize, NoFile,
          OverInputs,  \* what WriteAt may write
          Newline,     \* the byte that ends a command of an ijson file
          WriteBefore, \* may WriteAt start before the bytes a circular file keeps
          Threads,    \* callers of the store
          Flushers,   \* the flusher every five seconds, and the one at shutdown
          Entries,    \* cache entries, by address
          NoEntry,
          PartSize,   \* partDataSize
          MaxBytes,   \* bound: no file grows beyond
          MaxErrors   \* 3: failed flushes after which the next one gives up

ASSUME PartsAssumption ==
  PartSize \in Nat \ {0} /\ MaxSize \in Nat \ {0} /\ MaxSize % PartSize = 0
ASSUME WorkersAssumption ==
  /\ IsFiniteSet(Threads) /\ IsFiniteSet(Flushers)
  /\ Threads \cap Flushers = {} /\ NoEntry \notin Entries

Sizes   == 0 .. MaxBytes
Headers == [circ : BOOLEAN, size : Sizes, meta : Metas]

\* NoFile is no file, neither in a row nor as a reader sees it.
ASSUME FilesAssumption ==
  /\ MaxBytes \in Nat /\ Newline \in Nat
  /\ Inputs \cup OverInputs \subseteq Seq(Nat) /\ NoFile \notin Headers
  /\ \A b, s \in Sizes :
       NoFile \notin [circ : BOOLEAN, size : Sizes, meta : Metas, at : [b .. s - 1 -> Nat]]

VARIABLES db,        \* db[n]: the file's row and its parts in the database
          cache,     \* Cache: the entry of a file, or NoEntry
          heap,      \* heap[e]: PinCount, File, DataEntries, FlushErrors
          worker,    \* worker[w]: where it is, the file and the entry it pinned
          todo,      \* todo[f]: the dirty files a flush has still to visit
          flushing   \* IsFlushing

vars == <<db, cache, heap, worker, todo, flushing>>

Workers == Threads \cup Flushers

-------------------------------------------------------------------------------
(* Parts: a file is [circ, size, meta], its data a function from part index *)
(* to the bytes of the part, 0 where none was written.                      *)

PartIdx(file, off) ==
  IF file.circ THEN (off \div PartSize) % (MaxSize \div PartSize)
               ELSE off \div PartSize

Starts(off, n) == {o \in 0 .. (off + n - 1) : o % PartSize = 0 /\ o + PartSize > off}

\* How much a write covers of the part that starts at o.
Covered(off, n, o) ==
  (IF off + n < o + PartSize THEN off + n - o ELSE PartSize) - (IF off > o THEN off - o ELSE 0)

LastStart(file, off, n, i) ==
  CHOOSE o \in Starts(off, n) :
    /\ PartIdx(file, o) = i
    /\ \A q \in Starts(off, n) : PartIdx(file, q) = i => q <= o

\* computePartMap: how much of a part a write covers; of two visits to one
\* part of a circular file the last one counts.
PartMap(file, off, n) ==
  [i \in {PartIdx(file, o) : o \in Starts(off, n)} |->
     Covered(off, n, LastStart(file, off, n, i))]

Incomplete_None(map) == {}
Incomplete(map) == {i \in DOMAIN map : map[i] # PartSize}

Before(f, g) == [x \in DOMAIN f \cup DOMAIN g |-> IF x \in DOMAIN f THEN f[x] ELSE g[x]]

\* loadDataPartsIntoCache: parts in the cache go before those of the database.
LoadParts(e, row, idxs) ==
  [e EXCEPT !.parts = Before(@, [i \in idxs \cap DOMAIN row.parts |-> row.parts[i]])]

\* The part that the byte at p is in, and where in it.
Slot(file, p) == <<PartIdx(file, p), (p % PartSize) + 1>>

\* The parts with d, which is for off, written into them from first on.
Patched(file, parts, first, off, d) ==
  LET span == first .. (off + Len(d) - 1)
  IN  [i \in DOMAIN parts \cup {PartIdx(file, p) : p \in span} |->
         [j \in 1 .. PartSize |->
            IF \E p \in span : Slot(file, p) = <<i, j>>
            THEN d[(CHOOSE p \in span : Slot(file, p) = <<i, j>>) - off + 1]
            ELSE IF i \in DOMAIN parts THEN parts[i][j] ELSE 0]]

\* A circular file keeps the end of what is written, and nothing before what it has.
FirstKept(file, old, off, n) ==
  LET cut1 == IF file.circ /\ off < old - MaxSize THEN old - MaxSize - off ELSE 0
      cut2 == IF file.circ /\ n - cut1 > MaxSize THEN n - cut1 - MaxSize ELSE 0
  IN  off + cut1 + cut2

\* entry.writeAt
WriteAt(e, off, d, replace) ==
  LET old == IF replace THEN 0 ELSE e.file.size
      end == off + Len(d)
      had == IF replace THEN << >> ELSE e.parts
  IN  IF e.file.circ /\ end <= old - MaxSize
      THEN e
      ELSE [e EXCEPT
              !.file = [@ EXCEPT !.size = IF end > old \/ replace THEN end ELSE old],
              !.parts = Patched(e.file, had, FirstKept(e.file, old, off, Len(d)), off, d)]

DataStartIdx(file) ==
  IF file.circ /\ file.size > MaxSize THEN file.size - MaxSize ELSE 0

EmptyEntry == [pins |-> 0, file |-> NoFile, parts |-> << >>, errs |-> 0]
NoRow      == [file |-> NoFile, parts |-> << >>]

\* loadFileForRead and loadDataPartsForRead: the cache goes before the database.
FileIn(e, row) == IF e.file # NoFile THEN e.file ELSE row.file

ByteIn(e, row, p) ==
  LET i == PartIdx(FileIn(e, row), p)
      j == (p % PartSize) + 1
  IN  IF i \in DOMAIN e.parts THEN e.parts[i][j]
      ELSE IF i \in DOMAIN row.parts THEN row.parts[i][j] ELSE 0

\* How much of a read is before the bytes that are kept.
Cut_None(file, off) == 0
Cut(file, off) == IF off < DataStartIdx(file) THEN DataStartIdx(file) - off ELSE 0

\* entry.readAt: where the data begins, and the data.
ReadAt(e, row, off, n) ==
  LET file == FileIn(e, row)
      want == IF off + n > file.size THEN file.size - off ELSE n
      cut  == Cut(file, off)
  IN  IF file.circ /\ want - cut <= 0
      THEN [offset |-> DataStartIdx(file), data |-> << >>]
      ELSE [offset |-> off + cut,
            data |-> [i \in 1 .. (want - cut) |-> ByteIn(e, row, off + cut + i - 1)]]

-------------------------------------------------------------------------------
(* What the store's state stands for.                                       *)

View(e, row) ==
  IF FileIn(e, row) = NoFile THEN NoFile
  ELSE [circ |-> FileIn(e, row).circ, size |-> FileIn(e, row).size,
        meta |-> FileIn(e, row).meta,
        at   |-> [p \in DataStartIdx(FileIn(e, row)) .. (FileIn(e, row).size - 1) |->
                    ByteIn(e, row, p)]]

EntryOf(n) == IF cache[n] = NoEntry THEN EmptyEntry ELSE heap[cache[n]]

Now(n)   == View(EntryOf(n), db[n])
Saved(n) == View(EmptyEntry, db[n])

Commands == Inputs \ {<< >>}

File(n) == INSTANCE ByteFile
             WITH now <- Now(n), saved <- Saved(n),
                  Inputs <- Inputs \cup OverInputs \cup {Append(d, Newline) : d \in Commands}

-------------------------------------------------------------------------------
Idle == [pc |-> "idle", name |-> NoFile, entry |-> NoEntry]

Init ==
  /\ db = [n \in Names |-> NoRow]
  /\ cache = [n \in Names |-> NoEntry]
  /\ heap = [e \in Entries |-> EmptyEntry]
  /\ worker = [w \in Workers |-> Idle]
  /\ todo = [f \in Flushers |-> {}]
  /\ flushing = FALSE

\* The address makeCacheEntry gets: neither the cache nor a worker has it.
Free == {e \in Entries : /\ \A n \in Names : cache[n] # e
                         /\ \A w \in Workers : worker[w].entry # e}

getEntryAndPin(w, n) ==
  \E e \in IF cache[n] = NoEntry THEN {e \in Free : \A x \in Free : e <= x}
                                 ELSE {cache[n]} :
    /\ cache' = [cache EXCEPT ![n] = e]
    /\ heap' = IF cache[n] = NoEntry
               THEN [heap EXCEPT ![e] = [EmptyEntry EXCEPT !.pins = 1]]
               ELSE [heap EXCEPT ![e].pins = @ + 1]
    /\ worker' = [worker EXCEPT ![w] = [pc |-> "pinned", name |-> n, entry |-> e]]

\* An entry whose last pin goes, and that has no file, is not needed.
Unneeded_AnyPins(e) == e.file = NoFile
Unneeded(e) == e.pins - 1 <= 0 /\ e.file = NoFile

unpinEntryAndTryDelete(w) ==
  LET n == worker[w].name
      e == cache[n]
  IN  IF e = NoEntry
      THEN UNCHANGED <<cache, heap>>
      ELSE /\ heap' = [heap EXCEPT ![e].pins = @ - 1]
           /\ cache' = IF Unneeded(heap[e]) THEN [cache EXCEPT ![n] = NoEntry]
                       ELSE cache

-------------------------------------------------------------------------------
(* What is done under the entry's lock: a step leaves the entry and the row *)
(* of the file as [e, row].                                                  *)

Clear(e) == [EmptyEntry EXCEPT !.pins = e.pins]

Load(e, row) == [e EXCEPT !.file = FileIn(e, row)]

\* dbWriteCacheEntry: size and metadata, not the options.
DbWrite(e, row, replace) ==
  [file  |-> [row.file EXCEPT !.size = e.file.size, !.meta = e.file.meta],
   parts |-> IF replace THEN e.parts ELSE Before(e.parts, row.parts)]

\* flushToDB.  The context may end after the transaction was committed; a row
\* that is gone is an error like any other.
FlushResults(e, row, replace) ==
  IF e.file = NoFile THEN {[e |-> e, row |-> row, ok |-> TRUE]}
  ELSE LET wrote == IF row.file = NoFile THEN {}
                    ELSE {DbWrite(e, row, replace)}
       IN  {[e |-> Clear(e), row |-> r, ok |-> TRUE] : r \in wrote}
           \cup {[e |-> e, row |-> r, ok |-> FALSE] : r \in wrote \cup {row}}
           \cup {[e |-> IF e.errs + 1 > MaxErrors THEN Clear(e)
                        ELSE [e EXCEPT !.errs = @ + 1],
                  row |-> row, ok |-> FALSE]}

\* The caller that holds the lock of its entry is done with it.
Leave(t, e, row) ==
  /\ heap' = [heap EXCEPT ![worker[t].entry] = e]
  /\ db' = [db EXCEPT ![worker[t].name] = row]
  /\ worker' = [worker EXCEPT ![t].pc = "done"]
  /\ UNCHANGED <<cache, todo, flushing>>

Entry(t) == heap[worker[t].entry]
Row(t)   == db[worker[t].name]
Locked(t) == worker[t].pc = "pinned"

Call(t) ==
  /\ worker[t].pc = "idle"
  /\ \E n \in Names : getEntryAndPin(t, n)
  /\ UNCHANGED <<db, todo, flushing>>

Return(t) ==
  /\ worker[t].pc = "done"
  /\ unpinEntryAndTryDelete(t)
  /\ worker' = [worker EXCEPT ![t] = Idle]
  /\ UNCHANGED <<db, todo, flushing>>

\* Stat, ReadAt, ReadFile and ListFiles leave everything as it is, and so does
\* an operation that fails before it changed anything.
Look(t) == Locked(t) /\ Leave(t, Entry(t), Row(t))

MakeFile(t) ==
  /\ Locked(t)
  /\ Entry(t).file = NoFile /\ Row(t).file = NoFile
  /\ \E c \in BOOLEAN, m \in Metas :
       Leave(t, Entry(t),
             [file |-> [circ |-> c, size |-> 0, meta |-> m], parts |-> Row(t).parts])

DeleteFile(t) == Locked(t) /\ Leave(t, Clear(Entry(t)), NoRow)

Loaded(t) == Load(Entry(t), Row(t))
Exists(t) == Locked(t) /\ Loaded(t).file # NoFile

WithMeta(e, m) == [e EXCEPT !.file = [@ EXCEPT !.meta = m]]

WriteMeta(t) ==
  /\ Exists(t)
  /\ \E m \in Metas : Leave(t, WithMeta(Loaded(t), m), Row(t))

\* A write that may truncate is flushed at once.
WriteFile(t) ==
  /\ Exists(t)
  /\ \E d \in Inputs :
       /\ Len(d) <= MaxBytes
       /\ \E r \in FlushResults(WriteAt(Loaded(t), 0, d, TRUE), Row(t), TRUE) :
            Leave(t, r.e, r.row)

\* The parts a write covers only in part are loaded before it.
Over(e, row, off, d) ==
  WriteAt(LoadParts(e, row, Incomplete(PartMap(e.file, off, Len(d)))), off, d, FALSE)

WriteOver(t, off, d) ==
  /\ off + Len(d) <= MaxBytes
  /\ Leave(t, Over(Loaded(t), Row(t), off, d), Row(t))

WriteAtOp(t) ==
  /\ Exists(t)
  /\ \E d \in OverInputs, off \in 0 .. Loaded(t).file.size :
       /\ WriteBefore \/ off >= DataStartIdx(Loaded(t).file)
       /\ WriteOver(t, off, d)

AppendData(t) ==
  /\ Exists(t)
  /\ \E d \in Inputs : WriteOver(t, Loaded(t).file.size, d)

\* The offset is past the end, or the parts cannot be read: the file stays
\* loaded, and counts as dirty.
WriteFails(t) == Exists(t) /\ Leave(t, Loaded(t), Row(t))

\* compactIJson: rewritten, but not flushed.
Compacted(e) ==
  {WriteAt(e, 0, c, TRUE) : c \in {x \in Inputs : Len(x) <= e.file.size}}

CompactIJson(t) ==
  /\ Exists(t) /\ ~Loaded(t).file.circ
  /\ \E e \in Compacted(Loaded(t)) : Leave(t, e, Row(t))

\* A command, then its newline; the parts are loaded for the command only.
Commanded(e, row, d) ==
  LET f == Over(e, row, e.file.size, d)
  IN  WriteAt(f, f.file.size, <<Newline>>, FALSE)

\* metaIncrement of the commands and the bytes, which are metadata.
Counted(e) == {WithMeta(e, m) : m \in Metas}

\* The first command is not counted; a later one is, and the file compacted
\* if the counters say that it has grown enough.
AppendIJson(t) ==
  /\ Exists(t) /\ ~Loaded(t).file.circ
  /\ \E d \in Commands :
       /\ Loaded(t).file.size + Len(d) < MaxBytes
       /\ LET e == Commanded(Loaded(t), Row(t), d)
          IN  \E f \in IF Loaded(t).file.size = 0 THEN {e}
                       ELSE UNION {{c} \cup Compacted(c) : c \in Counted(e)} :
                Leave(t, f, Row(t))

Work(t) ==
  \/ Look(t) \/ MakeFile(t) \/ DeleteFile(t) \/ WriteMeta(t) \/ WriteFile(t)
  \/ WriteAtOp(t) \/ AppendData(t) \/ WriteFails(t) \/ CompactIJson(t) \/ AppendIJson(t)

-------------------------------------------------------------------------------
(* FlushCache.                                                              *)

InCache(n) == EntryOf(n).file # NoFile

Dirty_Unpinned == {n \in Names : InCache(n) /\ EntryOf(n).pins = 0}
Dirty == {n \in Names : InCache(n)}

Pinned == {n \in Names : \E w \in Workers : worker[w].pc = "pinned"
                                            /\ worker[w].name = n}

\* getDirtyCacheKeys reads File without the entries' locks: of an entry that
\* is being worked on it may see a file that will not stay.
StartFlush(f) ==
  /\ worker[f].pc = "idle" /\ ~flushing
  /\ flushing' = TRUE
  /\ \E s \in SUBSET (Pinned \ Dirty) : todo' = [todo EXCEPT ![f] = Dirty \cup s]
  /\ worker' = [worker EXCEPT ![f].pc = "next"]
  /\ UNCHANGED <<db, cache, heap>>

FlushNext(f) ==
  /\ worker[f].pc = "next"
  /\ \E n \in todo[f] :
       /\ getEntryAndPin(f, n)
       /\ todo' = [todo EXCEPT ![f] = @ \ {n}]
  /\ UNCHANGED <<db, flushing>>

\* The first error ends the flush, and so does its context, which may end
\* after a write that succeeded.
FlushEntry(f, ok) ==
  /\ Locked(f)
  /\ \E r \in {x \in FlushResults(Entry(f), Row(f), FALSE) : x.ok = ok} :
       /\ heap' = [heap EXCEPT ![worker[f].entry] = r.e]
       /\ db' = [db EXCEPT ![worker[f].name] = r.row]
  /\ todo' \in (IF ok THEN {todo} ELSE {}) \cup {[todo EXCEPT ![f] = {}]}
  /\ worker' = [worker EXCEPT ![f].pc = "done"]
  /\ UNCHANGED <<cache, flushing>>

FlushUnpin(f) ==
  /\ worker[f].pc = "done"
  /\ unpinEntryAndTryDelete(f)
  /\ worker' = [worker EXCEPT ![f] = [Idle EXCEPT !.pc = "next"]]
  /\ UNCHANGED <<db, todo, flushing>>

EndFlush(f) ==
  /\ worker[f].pc = "next" /\ todo[f] = {}
  /\ worker' = [worker EXCEPT ![f] = Idle]
  /\ flushing' = FALSE
  /\ UNCHANGED <<db, cache, heap, todo>>

FlushStep(f) ==
  \/ FlushNext(f) \/ FlushEntry(f, TRUE) \/ FlushEntry(f, FALSE)
  \/ FlushUnpin(f) \/ EndFlush(f)

\* The server ends, whatever it is doing, and starts again.
Restart ==
  /\ cache' = [n \in Names |-> NoEntry]
  /\ heap' = [e \in Entries |-> EmptyEntry]
  /\ worker' = [w \in Workers |-> Idle]
  /\ todo' = [f \in Flushers |-> {}]
  /\ flushing' = FALSE
  /\ UNCHANGED db

Next ==
  \/ \E t \in Threads : Call(t) \/ Work(t) \/ Return(t)
  \/ \E f \in Flushers : StartFlush(f) \/ FlushStep(f)
  \/ Restart

Spec == Init /\ [][Next]_vars

(* Callers end what they began and the flusher runs again and again.  It    *)
(* visits the files in the order of a Go map, which is another each time,   *)
(* so that every file is before the one that fails in some round, and not   *)
(* every write of a file fails.                                             *)
Fairness ==
  /\ \A t \in Threads : WF_vars(Work(t)) /\ WF_vars(Return(t))
  /\ \A f \in Flushers :
       /\ WF_vars(StartFlush(f)) /\ WF_vars(FlushStep(f))
       /\ \A n \in Names : /\ SF_vars(FlushNext(f) /\ worker'[f].name = n)
                           /\ SF_vars(FlushEntry(f, TRUE) /\ worker[f].name = n)

FairSpec == Spec /\ Fairness

-------------------------------------------------------------------------------
Holds(w) == worker[w].entry # NoEntry

PinnedBy(n) == {w \in Workers : Holds(w) /\ worker[w].name = n}

(* One lock for each file: whoever works on a file holds the entry that the *)
(* cache has for it, its pins are those who do, and an entry that nobody    *)
(* pins is there for its file only (getEntryAndPin, unpinEntryAndTryDelete: *)
(* an entry removed too early would be locked apart from the next one).     *)
OneEntryPerFile ==
  /\ \A w \in Workers : Holds(w) => cache[worker[w].name] = worker[w].entry
  /\ \A n \in Names : cache[n] # NoEntry =>
       /\ heap[cache[n]].pins = Cardinality(PinnedBy(n))
       /\ PinnedBy(n) = {} => heap[cache[n]].file # NoFile
  /\ \A m, n \in Names : cache[m] = cache[n] /\ cache[m] # NoEntry => m = n

(* Any part of a file can be read, and reads as the bytes that were written *)
(* there, whether the parts are in the cache, in the database or in both    *)
(* (readAt; the offset moves up to the oldest byte that is kept).           *)
ReadsWhatWasWritten ==
  \A n \in Names : \A f \in {Now(n)} \ {NoFile} :
    \A off \in 0 .. f.size, len \in 1 .. MaxBytes :
      LET r    == ReadAt(EntryOf(n), db[n], off, len)
          want == {p \in DOMAIN f.at : p >= off /\ p < off + len}
      IN  /\ Len(r.data) = Cardinality(want)
          /\ \A p \in want : r.data[p - r.offset + 1] = f.at[p]

(* The cache, the parts and the flushes do not show: what is read is what   *)
(* was written, a flush changes nothing, a crash leaves the file as it was  *)
(* saved, and a file that was deleted stays so.                             *)
IsByteFile ==
  /\ \A n \in Names : File(n)!Init
  /\ [][\A n \in Names : [File(n)!Next]_<<Now(n), Saved(n)>>]_vars

(* What is in the cache only does not stay there: it is saved, or given up  *)
(* after MaxErrors errors.                                                  *)
CacheDrains == \A n \in Names : InCache(n) ~> ~InCache(n)

===============================================================================
