----------------------------- MODULE TaskQueue -----------------------------
(***************************************************************************)
(* The linked lists of waiting tasks that message.lua and service.lua keep *)
(* (push_task, unlink_task and taking the head).  A list is a head field   *)
(* of a channel or a service; its links are the fields t_svcnext and       *)
(* t_svcprev of the tasks, which all lists share.  The head's t_svcprev is *)
(* the tail, and the tail's t_svcnext is false.  A task that leaves a list *)
(* keeps its old links.                                                    *)
(*                                                                         *)
(* Beside the pointers the module carries the queue each list stands for,  *)
(* as a sequence.  That the two always agree is what allows the other      *)
(* modules to model these lists as sequences.                              *)
(***************************************************************************)
EXTENDS Integers, Sequences

CONSTANTS
    Task,   \* the tasks
    List,   \* the head fields: ch_rtaskq, ch_wtaskq, svc_taskq
    None    \* Lua's false

ASSUME NoneAssumption == None \notin Task

VARIABLES
    head,       \* the head field of each list
    t_svcnext,
    t_svcprev,
    queue       \* the tasks each list stands for, in order

vars == <<head, t_svcnext, t_svcprev, queue>>

Queued(t) == \E l \in List : \E i \in 1..Len(queue[l]) : queue[l][i] = t

Without(q, i) == [j \in 1..(Len(q) - 1) |-> IF j < i THEN q[j] ELSE q[j + 1]]

linked_last_no_back(l, t) == [t_svcprev EXCEPT ![t] = t_svcprev[head[l]]]

\* The t_svcprev fields after push_task appended t to a list that has a head.
linked_last(l, t) ==
    [t_svcprev EXCEPT ![t] = t_svcprev[head[l]], ![head[l]] = t]

\* push_task: a running task, which waits nowhere, enters list l.
push_task(l, t) ==
    /\ ~Queued(t)
    /\ IF head[l] # None
       THEN /\ t_svcprev' = linked_last(l, t)
            /\ t_svcnext' = [t_svcnext EXCEPT ![t_svcprev[head[l]]] = t, ![t] = None]
            /\ UNCHANGED head
       ELSE /\ t_svcprev' = [t_svcprev EXCEPT ![t] = t]
            /\ t_svcnext' = [t_svcnext EXCEPT ![t] = None]
            /\ head' = [head EXCEPT ![l] = t]
    /\ queue' = [queue EXCEPT ![l] = Append(@, t)]

\* The second task of a list becomes its head and takes over the tail link.
pass_tail_on(l) ==
    LET next == t_svcnext[head[l]]
    IN  IF next = None THEN t_svcprev
        ELSE [t_svcprev EXCEPT ![next] = t_svcprev[head[l]]]

\* read, write and post wake the head of a list and take it out.
take_head(l) ==
    /\ head[l] # None
    /\ head' = [head EXCEPT ![l] = t_svcnext[head[l]]]
    /\ t_svcprev' = pass_tail_on(l)
    /\ UNCHANGED t_svcnext
    /\ queue' = [queue EXCEPT ![l] = Tail(@)]

\* unlink_task, for a task that gave up waiting in list l.
unlink_task(l, t) ==
    LET prev == t_svcprev[t]
        next == t_svcnext[t]
    IN  \/ /\ t = head[l]
           /\ head' = [head EXCEPT ![l] = next]
           /\ t_svcprev' = IF next = None THEN t_svcprev
                           ELSE [t_svcprev EXCEPT ![next] = prev]
           /\ UNCHANGED t_svcnext
        \/ /\ t # head[l] /\ next # None
           /\ t_svcprev' = [t_svcprev EXCEPT ![next] = prev]
           /\ t_svcnext' = [t_svcnext EXCEPT ![prev] = next]
           /\ UNCHANGED head
        \/ /\ t # head[l] /\ next = None
           /\ t_svcnext' = [t_svcnext EXCEPT ![prev] = None]
           /\ t_svcprev' = [t_svcprev EXCEPT ![head[l]] = prev]
           /\ UNCHANGED head

\* The waiting task at position i of list l gives up.
give_up(l, i) ==
    /\ i \in 1..Len(queue[l])
    /\ unlink_task(l, queue[l][i])
    /\ queue' = [queue EXCEPT ![l] = Without(@, i)]

\* close drops a list; it has woken the tasks by following t_svcnext.
drop(l) ==
    /\ head' = [head EXCEPT ![l] = None]
    /\ queue' = [queue EXCEPT ![l] = <<>>]
    /\ UNCHANGED <<t_svcnext, t_svcprev>>

Init ==
    /\ head = [l \in List |-> None]
    /\ t_svcnext \in [Task -> {None}]
    /\ t_svcprev \in [Task -> {None}]
    /\ queue = [l \in List |-> <<>>]

Next ==
    \E l \in List :
        \/ \E t \in Task : push_task(l, t)
        \/ take_head(l)
        \/ \E i \in 1..Len(queue[l]) : give_up(l, i)
        \/ drop(l)

Spec == Init /\ [][Next]_vars

---------------------------------------------------------------------------
(* Properties *)

TypeOK ==
    /\ head \in [List -> Task \cup {None}]
    /\ t_svcnext \in [Task -> Task \cup {None}]
    /\ t_svcprev \in [Task -> Task \cup {None}]
    /\ queue \in [List -> Seq(Task)]

\* A task waits at most once, in one list: the lists share the link fields.
Disjoint ==
    \A k, l \in List : \A i \in 1..Len(queue[k]), j \in 1..Len(queue[l]) :
        queue[k][i] = queue[l][j] => k = l /\ i = j

\* The pointers of every list stand for its queue, from the head along
\* t_svcnext, back along t_svcprev, and from the head to the tail: no
\* operation on one list, with whatever stale links the tasks bring along,
\* loses, repeats or reorders a waiting task of any list.
Represents ==
    \A l \in List :
        LET q == queue[l] IN
        /\ head[l] = IF q = <<>> THEN None ELSE q[1]
        /\ \A i \in 1..Len(q) :
               /\ t_svcnext[q[i]] = IF i = Len(q) THEN None ELSE q[i + 1]
               /\ t_svcprev[q[i]] = IF i = 1 THEN q[Len(q)] ELSE q[i - 1]
============================================================================
