---------------------------- MODULE MessageFifo ----------------------------
(***************************************************************************)
(* What a message channel promises: messages leave it for its readers in   *)
(* the order in which write and post accepted them.  Up to cap of them     *)
(* wait in the channel's buffer, the others together with their writers.   *)
(* A message is named by the number of messages sent up to it.             *)
(***************************************************************************)
EXTENDS Naturals, Sequences, SequencesExt

VARIABLES
    open,
    cap,        \* the capacity of the buffer
    sent,       \* how many messages were accepted
    queue,      \* the accepted messages no reader has got yet
    handed      \* the messages readers have got, in order

vars == <<open, cap, sent, queue, handed>>

Init ==
    /\ open = TRUE
    /\ cap \in Nat
    /\ sent = 0
    /\ queue = <<>>
    /\ handed = <<>>

\* A message enters the channel and waits for a reader.
Accept ==
    /\ open
    /\ sent' = sent + 1
    /\ queue' = Append(queue, sent')
    /\ UNCHANGED <<open, cap, handed>>

\* A message goes to a reader that has been waiting for one.
Pass ==
    /\ open /\ queue = <<>>
    /\ sent' = sent + 1
    /\ handed' = Append(handed, sent')
    /\ UNCHANGED <<open, cap, queue>>

\* The oldest message goes to a reader.
Hand ==
    /\ open /\ queue # <<>>
    /\ handed' = Append(handed, Head(queue))
    /\ queue' = Tail(queue)
    /\ UNCHANGED <<open, cap, sent>>

\* A writer stops waiting and takes its message back.
GiveUp ==
    /\ \E i \in (cap + 1)..Len(queue) : queue' = RemoveAt(queue, i)
    /\ UNCHANGED <<open, cap, sent, handed>>

\* What no reader has got is dropped.
Close ==
    /\ open /\ open' = FALSE
    /\ queue' = <<>>
    /\ UNCHANGED <<cap, sent, handed>>

Next == Accept \/ Pass \/ Hand \/ GiveUp \/ Close

Spec == Init /\ [][Next]_vars
============================================================================
