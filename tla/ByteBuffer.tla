------------------------------- MODULE ByteBuffer -------------------------------
(***************************************************************************)
(* What buffer.c promises to the rest of the editor: a buffer is a         *)
(* sequence of bytes.  There are two of them, the buffer that is edited    *)
(* and one that text is copied to and inserted from (a yank buffer, say).  *)
(* PageTable is shown to implement this.                                   *)
(***************************************************************************)
EXTENDS Integers, Sequences

CONSTANTS Data,     \* the byte sequences that are inserted or written
          MaxLen    \* bound: longest text

VARIABLES text,     \* the bytes of the buffer that is edited
          yank      \* the bytes of the other buffer

vars == <<text, yank>>

Part(t, offset, size) == SubSeq(t, offset + 1, offset + size)
Before(t, offset)     == SubSeq(t, 1, offset)
From(t, offset)       == SubSeq(t, offset + 1, Len(t))

(* What is copied to the other buffer must be something.                   *)
Ranges(t) == {r \in (0..Len(t)) \X (1..Len(t)) : r[1] + r[2] <= Len(t)}

Init == yank = << >>

Insert(offset, d) ==
    /\ text' = Before(text, offset) \o d \o From(text, offset)
    /\ UNCHANGED yank

Delete(offset, size) ==
    /\ text' = Before(text, offset) \o From(text, offset + size)
    /\ UNCHANGED yank

(* Overwrites; what goes past the end is appended.                         *)
Write(offset, d) ==
    /\ text' = Before(text, offset) \o d \o From(text, offset + Len(d))
    /\ UNCHANGED yank

(* Replaces the other buffer by a copy of a part of the text.              *)
Copy(offset, size) ==
    /\ yank' = Part(text, offset, size)
    /\ UNCHANGED text

(* Inserts a part of the other buffer.                                     *)
Paste(offset, from, size) ==
    /\ text' = Before(text, offset) \o Part(yank, from, size)
                 \o From(text, offset)
    /\ UNCHANGED yank

Next ==
    \/ \E r \in Ranges(text) :
         Delete(r[1], r[2]) \/ Copy(r[1], r[2])
    \/ \E offset \in 0..Len(text) :
         \/ \E d \in Data : Insert(offset, d) \/ Write(offset, d)
         \/ \E r \in Ranges(yank) : Paste(offset, r[1], r[2])

Spec == Init /\ [][Next]_vars
================================================================================
