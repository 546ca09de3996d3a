----------------------------- MODULE ByteQueue -----------------------------
(***************************************************************************)
(* What the README says of a buffer: a queue of bytes, written at the tail *)
(* and read at the head.  A reader of it reads the bytes the queue had,    *)
(* without removing them; a writer fills in, later, room that was kept     *)
(* free for it.  Nothing here knows of memory.                             *)
(***************************************************************************)
EXTENDS Bytes

CONSTANTS Junk, Str, Val, Num, Off, Types

VARIABLES
    queue,      \* the bytes
    be,         \* the byte order of what is put
    view,       \* the bytes a reader has not read yet
    taken,      \* how many it has read
    at,         \* where its next byte is in the queue; -1: it is not to be read
    hole,       \* what a writer may still fill: its place in the queue, -1: none
    room        \* and its size

vars == <<queue, be, view, taken, at, hole, room>>

Init ==
    /\ queue = <<>> /\ be = TRUE
    /\ view = <<>> /\ taken = 0 /\ at = -1
    /\ hole = -1 /\ room = 0

Reading == at >= 0

NoView == view' = <<>> /\ taken' = 0 /\ at' = -1
NoHole == hole' = -1 /\ room' = 0

\* Bytes are put behind the last; a reader is not to be read any more.
Put(s) ==
    /\ queue' = queue \o s
    /\ view' = <<>> /\ at' = -1
    /\ UNCHANGED <<be, taken, hole, room>>

\* Bytes go from the head, or from the tail, and every view with them.
Shift(n) == queue' = Drop(queue, Least(n, Len(queue))) /\ NoView /\ NoHole /\ UNCHANGED be
Pop(n) == queue' = Take(queue, Len(queue) - Least(n, Len(queue))) /\ NoView /\ NoHole /\ UNCHANGED be

over(q, from, s) ==
    [i \in DOMAIN q |-> IF from < i /\ i <= from + Len(s) THEN s[i - from] ELSE q[i]]

\* Bytes that are there are replaced; a reader that has not come there sees it.
Overwrite(from, s) ==
    /\ queue' = over(queue, from, s)
    /\ view' = IF Reading THEN over(view, from - at, s) ELSE view
    /\ UNCHANGED <<be, taken, at, hole, room>>

\* A length of four bytes is kept free, and filled in with what came after it.
EndLength(n) ==
    n \in 4..Len(queue) /\ Overwrite(n - 4, to_bytes(Len(queue) - n, 4, be))

-----------------------------------------------------------------------------
\* A reader of n bytes from offset off on.
View(bytes, off, n) == SubSeq(bytes, off + 1, Least(off + n, Len(bytes)))

OpenReader(off, n) ==
    LET from == IF off < Len(queue) THEN off ELSE 0
    IN /\ view' = View(queue, from, n) /\ taken' = 0 /\ at' = from
       /\ UNCHANGED <<queue, be, hole, room>>

SubReader(off, n) ==
    LET from == IF off < Len(view) THEN off ELSE 0
    IN /\ Reading
       /\ view' = View(view, from, n) /\ taken' = 0 /\ at' = at + from
       /\ UNCHANGED <<queue, be, hole, room>>

Passes(n) ==
    /\ view' = Drop(view, n) /\ taken' = taken + n /\ at' = at + n

Read(n) == Reading /\ Passes(Least(n, Len(view))) /\ UNCHANGED <<queue, be, hole, room>>

\* Reading a line leaves zeros where its end was.
ReadLine ==
    /\ Reading
    /\ Passes(NextLine(view).eaten)
    /\ queue' = over(queue, at, after_line(view))
    /\ UNCHANGED <<be, hole, room>>

-----------------------------------------------------------------------------
\* Room for n bytes, for a writer to fill.
OpenWriter(n) ==
    /\ Len(queue') = Len(queue) + n
    /\ Take(queue', Len(queue)) = queue
    /\ hole' = Len(queue) /\ room' = n
    /\ view' = <<>> /\ at' = -1
    /\ UNCHANGED <<be, taken>>

\* It moves on by some of them.  What it writes stays inside the room it
\* has (putw may fail after it has written, so it may write and not move on).
Fill ==
    \E n \in 0..room :
        /\ hole >= 0
        /\ hole' = hole + n /\ room' = room - n
        /\ queue' = over(queue, hole, SubSeq(queue', hole + 1, hole + room))
        /\ UNCHANGED <<be, view, taken, at>>

\* A new buffer in place of this one, in the first byte order.
Renew == queue' = <<>> /\ be' = TRUE /\ NoView /\ NoHole

SetOrder == be' \in BOOLEAN /\ UNCHANGED <<queue, view, taken, at, hole, room>>

-----------------------------------------------------------------------------
Next ==
    \/ /\ Len(queue') >= Len(queue)
       /\ Put(SubSeq(queue', Len(queue) + 1, Len(queue')))
    \/ \E n \in 0..Len(queue) : Shift(n) \/ Pop(n)
    \/ \E off \in Off, s \in Str \union {to_bytes(v, 4, be) : v \in Val} :
           off + Len(s) <= Len(queue) /\ Overwrite(off, s)
    \/ \E n \in 4..Len(queue) : EndLength(n)
    \/ \E off \in Off, n \in Num : OpenReader(off, n) \/ SubReader(off, n)
    \/ \E n \in 0..Len(view) : Read(n)
    \/ ReadLine
    \/ \E n \in Num : OpenWriter(n)
    \/ Fill
    \/ SetOrder \/ Renew

Spec == Init /\ [][Next]_vars
=============================================================================
