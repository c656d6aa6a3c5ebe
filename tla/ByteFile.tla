------------------------------- MODULE ByteFile -------------------------------
(***************************************************************************)
(* What one file of the file store is to its callers: a size, metadata and *)
(* the bytes kept of it, as they are now and as they were last saved.  A   *)
(* plain file keeps every byte, a circular one the last MaxSize.  The file *)
(* store refines this module for each of its files: the cache, the parts   *)
(* and the flushes must not show.                                          *)
(***************************************************************************)
EXTENDS Integers, Sequences

CONSTANTS Inputs,   \* what callers may write
          Metas,    \* values of a file's metadata
          MaxSize,  \* bytes a circular file keeps
          NoFile    \* there is no such file

VARIABLES now,      \* the file as readers see it
          saved     \* the file as a crash would leave it

vars == <<now, saved>>

Begin(circ, size) == IF circ /\ size > MaxSize THEN size - MaxSize ELSE 0

\* f with d written at off; only what the file keeps is there.
Written(f, off, d) ==
  LET size == IF off + Len(d) > f.size THEN off + Len(d) ELSE f.size
  IN  [f EXCEPT !.size = size,
                !.at = [p \in Begin(f.circ, size) .. (size - 1) |->
                          IF p \in off .. (off + Len(d) - 1)
                          THEN d[p - off + 1] ELSE f.at[p]]]

Replaced(f, d) == Written([f EXCEPT !.size = 0, !.at = << >>], 0, d)

Empty(circ, m) == [circ |-> circ, size |-> 0, meta |-> m, at |-> << >>]

\* From file f to file g by one operation.  What is appended to a file that
\* has something may be counted in its metadata, and the file rewritten.
Changed(f, g) ==
  \/ g = [f EXCEPT !.meta = g.meta] /\ g.meta \in Metas
  \/ /\ f.size > 0 /\ g.meta \in Metas
     /\ \E d \in Inputs : \E h \in {Written(f, f.size, d), Replaced(f, d)} :
          g = [h EXCEPT !.meta = g.meta]
  \/ \E d \in Inputs : \/ g = Replaced(f, d)
                       \/ \E off \in 0 .. f.size : g = Written(f, off, d)

-------------------------------------------------------------------------------
Init == now = NoFile /\ saved = NoFile

\* A crash, or changes that could not be saved and are given up.
Lose == now' = saved /\ saved' = saved

Save == now' = now /\ saved' = now

Create ==
  /\ now = NoFile
  /\ \E c \in BOOLEAN, m \in Metas : now' = Empty(c, m)
  /\ saved' = now'

Delete == now' = NoFile /\ saved' = NoFile

\* Most changes are saved later, some at once.
Change ==
  /\ now # NoFile
  /\ \E f \in {now}, g \in {now'} \ {NoFile} :
       Changed(f, g) /\ saved' \in {saved, g}

Next == Lose \/ Save \/ Create \/ Delete \/ Change

Spec == Init /\ [][Next]_vars
===============================================================================
