------------------------------ MODULE ByteStream ------------------------------
(* What a stream promises, whatever packets and acknowledgements do below:   *)
(* bytes come out in the order they went in, never more than window of them  *)
(* are inside it, and the end is seen only by a reader that has read         *)
(* everything.  A byte is the number of bytes written before it.             *)
EXTENDS Naturals, Sequences

VARIABLES window,        \* the most bytes it holds, chosen once
          sentBytes,     \* how many
          readBytes,     \* which, in the order they were read
          writerEnd,     \* "open", "eof" or "error"
          readerEnd      \* what the reader has seen: also "closed", by itself

svars == <<window, sentBytes, readBytes, writerEnd, readerEnd>>

SInit == window \in Nat /\ sentBytes = 0 /\ readBytes = << >> /\ writerEnd = "open" /\ readerEnd = "open"

Put == /\ writerEnd = "open"
       /\ sentBytes' > sentBytes
       /\ sentBytes' <= Len(readBytes) + window
       /\ UNCHANGED <<readBytes, writerEnd, readerEnd>>

Get == /\ readerEnd = "open"
       /\ \E n \in Len(readBytes) + 1 .. sentBytes : readBytes' = [i \in 1 .. n |-> i - 1]
       /\ UNCHANGED <<sentBytes, writerEnd, readerEnd>>

End == /\ writerEnd = "open" /\ writerEnd' \in {"eof", "error"}
       /\ UNCHANGED <<sentBytes, readBytes, readerEnd>>

SeeEnd == /\ readerEnd = "open"
          /\ \/ writerEnd = "eof" /\ Len(readBytes) = sentBytes /\ readerEnd' = "eof"
             \/ writerEnd = "error" /\ readerEnd' = "error"
             \/ readerEnd' = "closed"
          /\ UNCHANGED <<sentBytes, readBytes, writerEnd>>

SNext == (Put \/ Get \/ End \/ SeeEnd) /\ UNCHANGED window

SSpec == SInit /\ [][SNext]_svars
=============================================================================
