----------------------------- MODULE ByteStream -----------------------------
(***************************************************************************)
(* What a stream channel promises its reader about one connection: the     *)
(* bytes come out in the order in which they arrived, each once and none   *)
(* left out, and the end is reported only when the peer has ended the      *)
(* stream and everything before the end has been read.  (A read of a line  *)
(* reports it when no whole line is left.)  A connection that is reset or  *)
(* closed may lose what has not been read.  A byte is named by its         *)
(* position in the stream.                                                 *)
(***************************************************************************)
EXTENDS Naturals, Sequences

CONSTANT Newlines   \* which bytes end a line

VARIABLES
    phase,      \* "new", "open" or "closed"
    end,        \* how the peer has ended the stream: "no", "fin", "reset"
    pending,    \* the bytes that have arrived and are not read
    got,        \* the bytes that reads have returned
    eof         \* which kinds of read have reported the end

vars == <<phase, end, pending, got, eof>>

Init ==
    /\ phase \in {"new", "open"}
    /\ end = "no"
    /\ pending = <<>> /\ got = <<>>
    /\ eof = {}

\* The peer may have ended the stream before this side knows of it.
Open ==
    /\ phase = "new" /\ phase' = "open"
    /\ end' \in {"no", "fin", "reset"}
    /\ UNCHANGED <<pending, got, eof>>

Arrive ==
    /\ phase = "open" /\ end = "no"
    /\ Len(pending') > Len(pending)
    /\ pending' = pending \o [i \in 1..(Len(pending') - Len(pending)) |->
                                  Len(got) + Len(pending) + i]
    /\ UNCHANGED <<phase, end, got, eof>>

End ==
    /\ phase = "open"
    /\ \/ end = "no" /\ end' = "fin"
       \/ end # "reset" /\ end' = "reset"
    /\ UNCHANGED <<phase, pending, got, eof>>

\* A read returns the first bytes.
Deliver ==
    /\ \E n \in 1..Len(pending) :
           /\ got' = got \o SubSeq(pending, 1, n)
           /\ pending' = SubSeq(pending, n + 1, Len(pending))
    /\ UNCHANGED <<phase, end, eof>>

\* A read returns that there is nothing more.
ReportEnd ==
    /\ \/ end = "reset" /\ eof' \in {eof \cup {"bytes"}, eof \cup {"line"}}
       \/ end = "fin" /\ pending = <<>> /\ eof' = eof \cup {"bytes"}
       \/ /\ end = "fin" /\ \A i \in 1..Len(pending) : pending[i] \notin Newlines
          /\ eof' = eof \cup {"line"}
    /\ UNCHANGED <<phase, end, pending, got>>

Lose ==
    /\ end = "reset" /\ pending' = <<>>
    /\ UNCHANGED <<phase, end, got, eof>>

Close ==
    /\ phase = "open" /\ phase' = "closed"
    /\ end' = "no" /\ pending' = <<>>
    /\ UNCHANGED <<got, eof>>

Next == Open \/ Arrive \/ End \/ Deliver \/ ReportEnd \/ Lose \/ Close

Spec == Init /\ [][Next]_vars
=============================================================================
