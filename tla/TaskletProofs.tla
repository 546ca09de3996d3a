--------------------------- MODULE TaskletProofs ---------------------------
(***************************************************************************)
(* Proofs about Tasklet for any number of tasks, any time-outs and any     *)
(* assignment of killers, reapers and joiners; about join_tasks, when no   *)
(* task calls kill_task; and what modules that extend Tasklet need, with   *)
(* the calls of TaskCalls that channels and sockets share.                 *)
(***************************************************************************)
EXTENDS TaskCalls, SequenceTheorems, FiniteSetTheorems, WellFoundedInduction, TLAPS

---------------------------------------------------------------------------
(* Numbers *)

\* A set of naturals that is not empty has a least member.
LEMMA LeastMember ==
    ASSUME NEW T, T \subseteq Nat, T # {}
    PROVE  \E x \in T : \A y \in T : x <= y
  <1>1. PICK x \in T : \A y \in T : <<y, x>> \notin OpToRel(<, Nat)
    BY NatLessThanWellFounded, WFMin
  <1>2. OpToRel(<, Nat) = {ss \in Nat \X Nat : ss[1] < ss[2]}
    BY DEF OpToRel
  <1>3. ASSUME NEW y \in T
        PROVE  x <= y
    <2>1. x \in Nat /\ y \in Nat
      OBVIOUS
    <2>2. ~(y < x)
      BY <1>1, <1>2, <2>1
    <2> QED BY <2>1, <2>2
  <1> QED BY <1>3

---------------------------------------------------------------------------
(* Sequences without repetition *)

\* Appending a new element keeps a sequence free of repetitions and adds
\* just that element.
LEMMA AppendNew ==
    ASSUME NEW S, NEW q \in Seq(S), NEW x \in S, NoDup(q), ~Within(x, q)
    PROVE  /\ NoDup(Append(q, x))
           /\ \A y : Within(y, Append(q, x)) <=> Within(y, q) \/ y = x
  <1>1. /\ Len(Append(q, x)) = Len(q) + 1
        /\ \A i \in 1..Len(q) : Append(q, x)[i] = q[i]
        /\ Append(q, x)[Len(q) + 1] = x
    BY AppendProperties
  <1>2. Len(q) \in Nat
    BY LenProperties
  <1>3. NoDup(Append(q, x))
    BY <1>1, <1>2 DEF NoDup, Within
  <1>4. \A y : Within(y, Append(q, x)) <=> Within(y, q) \/ y = x
    BY <1>1, <1>2 DEF Within
  <1> QED BY <1>3, <1>4

\* Removing the head of a sequence without repetitions removes just that
\* element.
LEMMA TailRemoves ==
    ASSUME NEW S, NEW q \in Seq(S), q # <<>>, NoDup(q)
    PROVE  /\ NoDup(Tail(q))
           /\ Within(Head(q), q)
           /\ \A y : Within(y, Tail(q)) <=> Within(y, q) /\ y # Head(q)
  <1>1. /\ Head(q) = q[1]
        /\ Tail(q) \in Seq(S)
        /\ Len(Tail(q)) = Len(q) - 1
        /\ \A i \in 1..(Len(q) - 1) : Tail(q)[i] = q[i + 1]
    BY HeadTailProperties
  <1>2. Len(q) \in Nat /\ Len(q) > 0
    BY EmptySeq, LenProperties
  <1>3. NoDup(Tail(q))
    BY <1>1, <1>2 DEF NoDup
  <1>4. Within(Head(q), q)
    BY <1>1, <1>2 DEF Within
  <1>5. ASSUME NEW y, Within(y, Tail(q))
        PROVE  Within(y, q) /\ y # Head(q)
    <2>1. PICK i \in 1..(Len(q) - 1) : q[i + 1] = y
      BY <1>1, <1>2, <1>5 DEF Within
    <2> QED BY <2>1, <1>1, <1>2 DEF Within, NoDup
  <1>6. ASSUME NEW y, Within(y, q), y # Head(q)
        PROVE  Within(y, Tail(q))
    <2>1. PICK i \in 1..Len(q) : q[i] = y
      BY <1>6 DEF Within
    <2>2. i - 1 \in 1..(Len(q) - 1) /\ (i - 1) + 1 = i
      BY <2>1, <1>1, <1>2, <1>6
    <2>3. Tail(q)[i - 1] = y
      BY <2>1, <2>2, <1>1
    <2> QED BY <2>2, <2>3, <1>1 DEF Within
  <1> QED BY <1>3, <1>4, <1>5, <1>6

\* What RemoveAt leaves.
LEMMA RemoveAtLeaves ==
    ASSUME NEW S, NEW q \in Seq(S), NEW i \in 1..Len(q)
    PROVE  /\ RemoveAt(q, i) \in Seq(S)
           /\ Len(RemoveAt(q, i)) = Len(q) - 1
           /\ \A k \in 1..(Len(q) - 1) :
                  RemoveAt(q, i)[k] = IF k < i THEN q[k] ELSE q[k + 1]
  <1> DEFINE a == SubSeq(q, 1, i - 1)
             b == SubSeq(q, i + 1, Len(q))
             r == a \o b
  <1>1. Len(q) \in Nat /\ i \in Nat /\ i <= Len(q) /\ i >= 1
    BY LenProperties
  <1>2. /\ a \in Seq(S) /\ Len(a) = i - 1
        /\ \A k \in 1..(i - 1) : a[k] = q[k]
    <2>1. \A k \in 1..(i - 1) : q[k] \in S
      BY <1>1, ElementOfSeq
    <2> QED BY <1>1, <2>1, SubSeqProperties
  <1>3. /\ b \in Seq(S) /\ Len(b) = Len(q) - i
        /\ \A k \in 1..(Len(q) - i) : b[k] = q[i + k]
    <2>1. \A k \in (i + 1)..Len(q) : q[k] \in S
      BY <1>1, ElementOfSeq
    <2>2. /\ b \in Seq(S)
          /\ Len(b) = IF i + 1 <= Len(q) THEN Len(q) - (i + 1) + 1 ELSE 0
          /\ \A k \in 1..(Len(q) - (i + 1) + 1) : b[k] = q[(i + 1) + k - 1]
      BY <1>1, <2>1, SubSeqProperties
    <2> QED BY <1>1, <2>2
  <1> HIDE DEF a, b
  <1>4. /\ r \in Seq(S) /\ Len(r) = Len(q) - 1
        /\ \A k \in 1..(Len(q) - 1) :
               r[k] = IF k <= i - 1 THEN a[k] ELSE b[k - (i - 1)]
    <2>1. Len(a) + Len(b) = Len(q) - 1
      BY <1>1, <1>2, <1>3
    <2>2. /\ r \in Seq(S) /\ Len(r) = Len(a) + Len(b)
          /\ \A k \in 1..(Len(a) + Len(b)) :
                 r[k] = IF k <= Len(a) THEN a[k] ELSE b[k - Len(a)]
      BY <1>2, <1>3, ConcatProperties
    <2> QED BY <1>2, <2>1, <2>2
  <1> HIDE DEF r
  <1>5. \A k \in 1..(Len(q) - 1) : r[k] = IF k < i THEN q[k] ELSE q[k + 1]
    <2> SUFFICES ASSUME NEW k \in 1..(Len(q) - 1)
                 PROVE  r[k] = IF k < i THEN q[k] ELSE q[k + 1]
      OBVIOUS
    <2>1. CASE k < i
      <3>1. k <= i - 1 /\ k \in 1..(i - 1)
        BY <1>1, <2>1
      <3> QED BY <2>1, <3>1, <1>2, <1>4
    <2>2. CASE ~(k < i)
      <3>1. ~(k <= i - 1) /\ k - (i - 1) \in 1..(Len(q) - i) /\ i + (k - (i - 1)) = k + 1
        BY <1>1, <2>2
      <3> QED BY <2>2, <3>1, <1>3, <1>4
    <2> QED BY <2>1, <2>2
  <1>6. RemoveAt(q, i) = r
    BY DEF RemoveAt, r, a, b
  <1> QED BY <1>4, <1>5, <1>6

\* Removing an element from a sequence without repetitions removes just that
\* element and keeps the order of the others.
LEMMA RemoveFirstRemoves ==
    ASSUME NEW S, NEW q \in Seq(S), NoDup(q), NEW i \in 1..Len(q)
    PROVE  /\ RemoveFirst(q, q[i]) = RemoveAt(q, i)
           /\ NoDup(RemoveAt(q, i))
           /\ \A y : Within(y, RemoveAt(q, i)) <=> Within(y, q) /\ y # q[i]
  <1> DEFINE r == RemoveAt(q, i)
  <1>1. Len(q) \in Nat /\ i \in Nat /\ i <= Len(q) /\ i >= 1
    BY LenProperties
  <1>2. RemoveFirst(q, q[i]) = r
    <2>1. {k \in 1..Len(q) : q[k] = q[i]} = {i}
      BY DEF NoDup
    <2>2. SelectInSeq(q, LAMBDA v : v = q[i]) = i
      <3>1. Min({i}) = i
        BY <1>1 DEF Min
      <3> QED BY <2>1, <3>1 DEF SelectInSeq
    <2> QED BY <2>2 DEF RemoveFirst
  <1>3. /\ r \in Seq(S) /\ Len(r) = Len(q) - 1
        /\ \A k \in 1..(Len(q) - 1) : r[k] = IF k < i THEN q[k] ELSE q[k + 1]
    BY RemoveAtLeaves
  <1> HIDE DEF r
  <1>4. NoDup(r)
    <2> SUFFICES ASSUME NEW j \in 1..(Len(q) - 1), NEW k \in 1..(Len(q) - 1), r[j] = r[k]
                 PROVE  j = k
      BY <1>3 DEF NoDup
    <2>1. /\ j \in 1..Len(q) /\ j + 1 \in 1..Len(q)
          /\ k \in 1..Len(q) /\ k + 1 \in 1..Len(q)
      BY <1>1
    <2>2. (IF j < i THEN j ELSE j + 1) = (IF k < i THEN k ELSE k + 1)
      BY <1>3, <2>1 DEF NoDup
    <2> QED BY <1>1, <2>2
  <1>5. ASSUME NEW y, Within(y, r)
        PROVE  Within(y, q) /\ y # q[i]
    <2>1. PICK k \in 1..(Len(q) - 1) : r[k] = y
      BY <1>3, <1>5 DEF Within
    <2>2. /\ k \in 1..Len(q) /\ k + 1 \in 1..Len(q)
          /\ y = IF k < i THEN q[k] ELSE q[k + 1]
      BY <1>1, <1>3, <2>1
    <2>3. Within(y, q)
      BY <2>2 DEF Within
    <2>4. y # q[i]
      BY <1>1, <2>2 DEF NoDup
    <2> QED BY <2>3, <2>4
  <1>6. ASSUME NEW y, Within(y, q), y # q[i]
        PROVE  Within(y, r)
    <2>1. PICK k \in 1..Len(q) : q[k] = y
      BY <1>6 DEF Within
    <2>2. CASE k < i
      BY <1>1, <1>3, <2>1, <2>2 DEF Within
    <2>3. CASE k > i
      <3>1. k - 1 \in 1..(Len(q) - 1) /\ ~(k - 1 < i) /\ (k - 1) + 1 = k
        BY <1>1, <2>1, <2>3
      <3>2. r[k - 1] = y
        BY <1>3, <2>1, <3>1
      <3> QED BY <1>3, <3>1, <3>2 DEF Within
    <2> QED BY <1>1, <1>6, <2>1, <2>2, <2>3
  <1> QED BY <1>2, <1>4, <1>5, <1>6 DEF r

\* Taking an element out of a queue without repetitions leaves the others in
\* their places, the first one too.
LEMMA RemoveFirstLeaves ==
    ASSUME NEW S, NEW q \in Seq(S), NoDup(q), NEW x, Within(x, q)
    PROVE  /\ RemoveFirst(q, x) \in Seq(S) /\ NoDup(RemoveFirst(q, x))
           /\ \A y : Within(y, RemoveFirst(q, x)) <=> Within(y, q) /\ y # x
           /\ Head(q) # x => RemoveFirst(q, x) # <<>> /\ Head(RemoveFirst(q, x)) = Head(q)
  <1>1. PICK i \in 1..Len(q) : q[i] = x
    BY DEF Within
  <1> DEFINE r == RemoveFirst(q, x)
  <1>2. /\ r \in Seq(S) /\ NoDup(r) /\ Len(r) = Len(q) - 1
        /\ \A y : Within(y, r) <=> Within(y, q) /\ y # x
        /\ \A k \in 1..(Len(q) - 1) : r[k] = IF k < i THEN q[k] ELSE q[k + 1]
    <2>1. /\ RemoveFirst(q, q[i]) = RemoveAt(q, i) /\ NoDup(RemoveAt(q, i))
          /\ \A y : Within(y, RemoveAt(q, i)) <=> Within(y, q) /\ y # q[i]
      BY RemoveFirstRemoves
    <2>2. r = RemoveAt(q, i)
      BY <1>1, <2>1
    <2> QED BY <1>1, <2>1, <2>2, RemoveAtLeaves
  <1> HIDE DEF r
  <1>3. ASSUME Head(q) # x
        PROVE  r # <<>> /\ Head(r) = Head(q)
    <2>1. Len(q) \in Nat /\ q # <<>>
      BY <1>1, EmptySeq, LenProperties
    <2>2. Head(q) = q[1]
      BY <2>1, HeadTailProperties
    <2>3. i > 1
      BY <1>1, <1>3, <2>1, <2>2
    <2>4. Len(r) >= 1 /\ r[1] = q[1]
      BY <1>2, <2>1, <2>3
    <2>5. r # <<>>
      BY <2>4, EmptySeq
    <2> QED BY <1>2, <2>2, <2>4, <2>5, HeadTailProperties
  <1> QED BY <1>2, <1>3 DEF r

---------------------------------------------------------------------------
(* The inductive invariant *)

\* The signal of a task is cleared before its sighandler runs, and no other
\* task runs meanwhile to send it another one.
NoSignalInside == \A t \in Task : co[t] = "handling" => ~t_sig[t]

\* A parent was created before its children.
ParentsExist ==
    \A t \in Task : t_parent[t] # None =>
        t_parent[t] # t /\ co[t_parent[t]] # "none"

IInv == /\ TypeOK /\ ListsMatch /\ OnePlace /\ SignalsPending
        /\ NoSignalInside /\ ParentsExist

\* The lists stay right when no task enters or leaves them.
LEMMA ListsStay ==
    ASSUME ListsMatch, UNCHANGED <<ready, batch, t_prev>>
    PROVE  ListsMatch'
  BY DEF ListsMatch, Queue, NoDup, Within

\* What push_ready does to a task, in a list already or not.
LEMMA PushReady ==
    ASSUME TypeOK, ListsMatch, OnePlace,
           NEW t \in Task, NEW e \in Errno, push_ready(t, e), batch' = batch
    PROVE  /\ ready' \in Seq(Task) /\ batch' \in Seq(Task)
           /\ t_err' \in [Task -> Errno]
           /\ t_blockedby' \in [Task -> Obj \cup {NoObj}]
           /\ t_prev' = [t_prev EXCEPT ![t] = TRUE]
           /\ rb_key' = [rb_key EXCEPT ![t] = NoTimer]
           /\ Queue' = IF t_prev[t] THEN Queue ELSE Append(Queue, t)
           /\ ListsMatch'
  <1> USE DEF push_ready, Linked, linked_into, disarm
  <1>1. CASE t_prev[t]
    <2>1. UNCHANGED <<readyVars, batch>>
      BY <1>1
    <2>2. rb_key[t] = NoTimer
      BY <1>1 DEF OnePlace
    <2>3. Queue' = Queue
      BY <2>1 DEF Queue, readyVars
    <2> QED BY <1>1, <2>1, <2>2, <2>3, ListsStay DEF readyVars, TypeOK
  <1>2. CASE ~t_prev[t]
    <2>1. /\ ready' = Append(ready, t)
          /\ t_prev' = [t_prev EXCEPT ![t] = TRUE]
          /\ t_err' = [t_err EXCEPT ![t] = e]
          /\ rb_key' = [rb_key EXCEPT ![t] = NoTimer]
          /\ t_blockedby' = [t_blockedby EXCEPT ![t] = NoObj]
      BY <1>2
    <2>2. ready \in Seq(Task) /\ batch \in Seq(Task)
      BY DEF TypeOK
    <2>3. ready' \in Seq(Task) /\ batch' \in Seq(Task)
      BY <2>1, <2>2, AppendProperties
    <2>4. Queue \in Seq(Task)
      BY <2>2, ConcatProperties DEF Queue
    <2>5. Queue' = Append(Queue, t)
      <3>1. /\ Append(ready, t) = ready \o <<t>>
            /\ Append(Queue, t) = Queue \o <<t>>
        BY <2>2, <2>4, AppendIsConcat
      <3>2. (batch \o ready) \o <<t>> = batch \o (ready \o <<t>>)
        <4>1. <<t>> \in Seq(Task)
          OBVIOUS
        <4> QED BY <4>1, <2>2, ConcatAssociative
      <3> QED BY <3>1, <3>2, <2>1 DEF Queue
    <2>6. NoDup(Queue) /\ ~Within(t, Queue)
      BY <1>2 DEF ListsMatch
    <2>7. /\ NoDup(Queue')
          /\ \A y : Within(y, Queue') <=> Within(y, Queue) \/ y = t
      BY <2>4, <2>5, <2>6, AppendNew
    <2>8. ListsMatch'
      BY <2>1, <2>7 DEF ListsMatch, TypeOK
    <2> QED BY <1>2, <2>1, <2>3, <2>5, <2>8 DEF TypeOK
  <1> QED BY <1>1, <1>2

\* The end of a running task preserves the invariant.
LEMMA Die ==
    ASSUME IInv, NEW t \in Task, current = t,
           NEW subs \in [Task -> Int], die(t, subs),
           UNCHANGED <<batch, caller, now>>,
           at' \in {at, "aborted"}
    PROVE  IInv'
  <1>1. co[t] \in {"run", "back", "handling"}
    BY DEF IInv, OnePlace
  <1>2. \A u \in Task : u # t => co[u] \notin {"run", "back", "handling"}
    BY DEF IInv, OnePlace
  <1>3. CASE t_parent[t] # None /\ LastChild(subs[t_parent[t]])
    <2> DEFINE p == t_parent[t]
    <2>1. p \in Task /\ p # t /\ co[p] # "none" /\ push_ready(p, 0)
      BY <1>3 DEF IInv, TypeOK, ParentsExist, die
    <2>2. /\ ready' \in Seq(Task) /\ batch' \in Seq(Task)
          /\ t_err' \in [Task -> Errno]
          /\ t_blockedby' \in [Task -> Obj \cup {NoObj}]
          /\ t_prev' = [t_prev EXCEPT ![p] = TRUE]
          /\ rb_key' = [rb_key EXCEPT ![p] = NoTimer]
          /\ ListsMatch'
      BY <2>1, PushReady DEF IInv, Errno
    <2>3. /\ co' = [co EXCEPT ![t] = "dead"]
          /\ op' = [op EXCEPT ![t] = "none"]
          /\ till' = [till EXCEPT ![t] = NoTimer]
          /\ ret' = [ret EXCEPT ![t] = 0]
          /\ current' = None
          /\ t_nsubs' \in [Task -> Int]
          /\ UNCHANGED <<t_sig, sighandler, t_parent>>
      BY <2>1 DEF die, count_off
    <2>4. TypeOK'
      <3>1. co' \in [Task -> CoState]
        BY <2>3 DEF IInv, TypeOK, CoState
      <3>2. op' \in [Task -> OpName]
        BY <2>3 DEF IInv, TypeOK, OpName
      <3>3. till' \in [Task -> Nat \cup {NoTimer}]
        BY <2>3 DEF IInv, TypeOK
      <3>4. ret' \in [Task -> Errno]
        BY <2>3 DEF IInv, TypeOK, Errno
      <3>5. t_prev' \in [Task -> BOOLEAN] /\ rb_key' \in [Task -> Nat \cup {NoTimer}]
        BY <2>2 DEF IInv, TypeOK
      <3> QED BY <2>2, <2>3, <3>1, <3>2, <3>3, <3>4, <3>5 DEF IInv, TypeOK
    <2>5. OnePlace'
      <3> SUFFICES ASSUME NEW u \in Task
                   PROVE  /\ rb_key'[u] # NoTimer =>
                               co'[u] = "parked" /\ ~t_prev'[u] /\ ~t_sig'[u]
                          /\ t_prev'[u] => co'[u] \in {"fresh", "parked", "dead"}
                          /\ co'[u] = "fresh" => t_prev'[u]
                          /\ co'[u] \in {"run", "back", "handling"} <=> current' = u
        BY DEF OnePlace
      <3>1. CASE u = t
        BY <3>1, <1>1, <2>1, <2>2, <2>3 DEF IInv, TypeOK, OnePlace, None, Task
      <3>2. CASE u = p
        BY <3>2, <1>2, <2>1, <2>2, <2>3 DEF IInv, TypeOK, OnePlace, None, Task, CoState
      <3>3. CASE u # t /\ u # p
        <4>1. /\ rb_key'[u] = rb_key[u] /\ co'[u] = co[u] /\ t_sig'[u] = t_sig[u]
              /\ t_prev'[u] = t_prev[u]
          BY <3>3, <2>2, <2>3 DEF IInv, TypeOK
        <4> QED BY <4>1, <1>2, <3>3, <2>3 DEF IInv, OnePlace, None, Task
      <3> QED BY <3>1, <3>2, <3>3
    <2>6. SignalsPending' /\ NoSignalInside' /\ ParentsExist'
      BY <1>1, <1>2, <2>1, <2>2, <2>3
      DEF IInv, TypeOK, SignalsPending, NoSignalInside, ParentsExist
    <2> QED BY <2>2, <2>4, <2>5, <2>6 DEF IInv
  <1>4. CASE ~(t_parent[t] # None /\ LastChild(subs[t_parent[t]]))
    <2>1. /\ UNCHANGED readyVars
          /\ co' = [co EXCEPT ![t] = "dead"]
          /\ op' = [op EXCEPT ![t] = "none"]
          /\ till' = [till EXCEPT ![t] = NoTimer]
          /\ ret' = [ret EXCEPT ![t] = 0]
          /\ current' = None
          /\ t_nsubs' \in [Task -> Int]
          /\ UNCHANGED <<t_sig, sighandler, t_parent>>
      BY <1>4 DEF die, count_off, IInv, TypeOK
    <2>2. ListsMatch'
      BY <2>1, ListsStay DEF IInv, readyVars
    <2>3. TypeOK'
      BY <2>1 DEF IInv, TypeOK, Errno, CoState, OpName, readyVars
    <2>4. OnePlace'
      BY <1>1, <1>2, <2>1 DEF IInv, TypeOK, OnePlace, None, Task, readyVars
    <2>5. SignalsPending' /\ NoSignalInside' /\ ParentsExist'
      BY <1>1, <1>2, <2>1
      DEF IInv, TypeOK, SignalsPending, NoSignalInside, ParentsExist, readyVars
    <2> QED BY <2>2, <2>3, <2>4, <2>5 DEF IInv
  <1> QED BY <1>3, <1>4

\* do_yield preserves it, whether it parks the running task or ends it.
LEMMA DoYield ==
    ASSUME IInv, NEW t \in Task, current = t, co[t] \in {"run", "back"},
           NEW o \in OpName, NEW sec \in Int, NEW obj \in Obj \cup {NoObj},
           NEW subs \in [Task -> Int], do_yield(t, o, sec, obj, subs),
           UNCHANGED <<batch, at, caller, now>>
    PROVE  IInv'
  <1>1. CASE t_sig[t]
    BY <1>1, Die DEF do_yield
  <1>2. CASE ~t_sig[t]
    <2>1. /\ rb_key' = [rb_key EXCEPT ![t] = timer_key(sec)]
          /\ till' = [till EXCEPT ![t] = IF sec < 0 THEN NoTimer ELSE now + Delay(sec)]
          /\ co' = [co EXCEPT ![t] = "parked"]
          /\ op' = [op EXCEPT ![t] = o]
          /\ t_blockedby' = [t_blockedby EXCEPT ![t] = obj]
          /\ current' = None
          /\ t_nsubs' = subs
          /\ UNCHANGED <<ready, t_prev, t_err, ret, t_sig, sighandler, t_parent>>
      BY <1>2 DEF do_yield
    <2>2. /\ timer_key(sec) \in Nat \cup {NoTimer}
          /\ (IF sec < 0 THEN NoTimer ELSE now + Delay(sec)) \in Nat \cup {NoTimer}
      BY DEF timer_key, Delay, NoTimer, IInv, TypeOK
    <2>3. ListsMatch'
      BY <2>1, ListsStay DEF IInv
    <2>4. TypeOK'
      BY <2>1, <2>2 DEF IInv, TypeOK, CoState
    <2>5. OnePlace'
      <3> SUFFICES ASSUME NEW u \in Task
                   PROVE  /\ rb_key'[u] # NoTimer =>
                               co'[u] = "parked" /\ ~t_prev'[u] /\ ~t_sig'[u]
                          /\ t_prev'[u] => co'[u] \in {"fresh", "parked", "dead"}
                          /\ co'[u] = "fresh" => t_prev'[u]
                          /\ co'[u] \in {"run", "back", "handling"} <=> current' = u
        BY DEF OnePlace
      <3>1. CASE u = t
        <4>1. ~t_prev[u] /\ ~t_sig[u] /\ u # None
          BY <3>1, <1>2 DEF IInv, OnePlace, Task, None
        <4> QED BY <3>1, <4>1, <2>1 DEF IInv, TypeOK
      <3>2. CASE u # t
        <4>1. /\ rb_key'[u] = rb_key[u] /\ co'[u] = co[u] /\ t_sig'[u] = t_sig[u]
              /\ t_prev'[u] = t_prev[u]
          BY <3>2, <2>1 DEF IInv, TypeOK
        <4> QED BY <4>1, <3>2, <2>1 DEF IInv, OnePlace, None, Task
      <3> QED BY <3>1, <3>2
    <2>6. SignalsPending' /\ NoSignalInside' /\ ParentsExist'
      BY <1>2, <2>1
      DEF IInv, TypeOK, SignalsPending, NoSignalInside, ParentsExist
    <2> QED BY <2>3, <2>4, <2>5, <2>6 DEF IInv
  <1> QED BY <1>1, <1>2

\* do_resume preserves the parts that do not depend on how the task was
\* taken out of the list or of rb_timer.
LEMMA DoResume ==
    ASSUME IInv, NEW t \in Task, current = None, NEW e \in Errno,
           co[t] \in {"fresh", "parked", "dead"}, do_resume(t, e),
           UNCHANGED <<sighandler, t_parent, t_nsubs>>
    PROVE  /\ co' \in [Task -> CoState] /\ op' \in [Task -> OpName]
           /\ till' \in [Task -> Nat \cup {NoTimer}]
           /\ ret' \in [Task -> Errno]
           /\ t_sig' \in [Task -> BOOLEAN]
           /\ current' = IF co[t] = "dead" THEN None ELSE t
           /\ co[t] = "dead" => co'[t] = "dead"
           /\ co[t] # "dead" => co'[t] \in {"run", "back", "handling"}
           /\ co'[t] \in {"back", "handling"} => ~t_sig'[t]
           /\ \A u \in Task : u # t => co'[u] = co[u] /\ t_sig'[u] = t_sig[u]
           /\ ParentsExist'
  <1>1. /\ co' \in [Task -> CoState] /\ op' \in [Task -> OpName]
        /\ till' \in [Task -> Nat \cup {NoTimer}]
        /\ ret' \in [Task -> Errno]
        /\ t_sig' \in [Task -> BOOLEAN]
    <2>1. CASE co[t] = "dead"
      <3>1. UNCHANGED <<coVars, t_sig>>
        BY <2>1 DEF do_resume
      <3> QED BY <3>1 DEF coVars, IInv, TypeOK
    <2>2. CASE co[t] = "fresh"
      <3>1. /\ co' = [co EXCEPT ![t] = "run"]
            /\ UNCHANGED <<op, till, ret, t_sig>>
        BY <2>2 DEF do_resume
      <3> QED BY <3>1 DEF IInv, TypeOK, CoState
    <2>3. CASE co[t] = "parked"
      <3>1. /\ co' \in [Task -> CoState]
            /\ UNCHANGED <<op, till>>
            /\ ret' = ret \/ ret' = [ret EXCEPT ![t] = e]
            /\ t_sig' = t_sig \/ t_sig' = [t_sig EXCEPT ![t] = FALSE]
        BY <2>3 DEF do_resume, IInv, TypeOK, CoState
      <3>2. ret' \in [Task -> Errno]
        BY <3>1 DEF IInv, TypeOK
      <3>3. t_sig' \in [Task -> BOOLEAN]
        BY <3>1 DEF IInv, TypeOK
      <3> QED BY <3>1, <3>2, <3>3 DEF IInv, TypeOK
    <2> QED BY <2>1, <2>2, <2>3
  <1>2. /\ current' = IF co[t] = "dead" THEN None ELSE t
        /\ co[t] = "dead" => co'[t] = "dead"
        /\ co[t] # "dead" => co'[t] \in {"run", "back", "handling"}
        /\ co'[t] \in {"back", "handling"} => ~t_sig'[t]
        /\ \A u \in Task : u # t => co'[u] = co[u] /\ t_sig'[u] = t_sig[u]
    <2>1. CASE co[t] = "dead"
      <3>1. UNCHANGED <<coVars, t_sig>>
        BY <2>1 DEF do_resume
      <3> QED BY <2>1, <3>1 DEF coVars
    <2>2. CASE co[t] = "fresh"
      BY <2>2 DEF do_resume, IInv, TypeOK
    <2>3. CASE co[t] = "parked"
      BY <2>3 DEF do_resume, IInv, TypeOK
    <2> QED BY <2>1, <2>2, <2>3
  <1>3. ParentsExist'
    <2> SUFFICES ASSUME NEW c \in Task, t_parent[c] # None
                 PROVE  t_parent[c] # c /\ co'[t_parent[c]] # "none"
      BY DEF ParentsExist
    <2>1. t_parent[c] \in Task /\ t_parent[c] # c /\ co[t_parent[c]] # "none"
      BY DEF IInv, TypeOK, ParentsExist
    <2> QED BY <1>2, <2>1
  <1> QED BY <1>1, <1>2, <1>3

\* Calls that do not block.
LEMMA CallStep ==
    ASSUME IInv, NEW t \in Task, Call(t)
    PROVE  IInv'
  <1>1. current = t /\ co[t] \in {"run", "handling"} /\ UNCHANGED <<loopVars, now>>
    BY DEF Call, Running, start_task, kill_task, reap_task
  <1>2. ASSUME NEW c \in Task, NEW j \in BOOLEAN, start_task(t, c, j)
        PROVE  IInv'
    <2>1. /\ co[c] = "none" /\ c # t
          /\ co' = [co EXCEPT ![c] = "fresh"]
          /\ t_parent' = [t_parent EXCEPT ![c] = IF j THEN t ELSE None]
          /\ t_nsubs' \in [Task -> Int]
          /\ push_ready(c, 0)
          /\ UNCHANGED <<t_sig, sighandler, current, op, till, ret, batch>>
      BY <1>1, <1>2 DEF start_task, NextId, loopVars, IInv, TypeOK
    <2>2. /\ ready' \in Seq(Task) /\ batch' \in Seq(Task)
          /\ t_err' \in [Task -> Errno]
          /\ t_blockedby' \in [Task -> Obj \cup {NoObj}]
          /\ t_prev' = [t_prev EXCEPT ![c] = TRUE]
          /\ rb_key' = [rb_key EXCEPT ![c] = NoTimer]
          /\ ListsMatch'
      BY <2>1, PushReady DEF IInv, Errno
    <2>3. TypeOK'
      BY <1>1, <2>1, <2>2 DEF IInv, TypeOK, CoState, loopVars
    <2>4. OnePlace'
      <3> SUFFICES ASSUME NEW u \in Task
                   PROVE  /\ rb_key'[u] # NoTimer =>
                               co'[u] = "parked" /\ ~t_prev'[u] /\ ~t_sig'[u]
                          /\ t_prev'[u] => co'[u] \in {"fresh", "parked", "dead"}
                          /\ co'[u] = "fresh" => t_prev'[u]
                          /\ co'[u] \in {"run", "back", "handling"} <=> current' = u
        BY DEF OnePlace
      <3>1. CASE u = c
        BY <3>1, <1>1, <2>1, <2>2 DEF IInv, TypeOK
      <3>2. CASE u # c
        <4>1. /\ rb_key'[u] = rb_key[u] /\ co'[u] = co[u] /\ t_sig'[u] = t_sig[u]
              /\ t_prev'[u] = t_prev[u] /\ current' = current
          BY <3>2, <2>1, <2>2 DEF IInv, TypeOK
        <4> QED BY <4>1 DEF IInv, OnePlace
      <3> QED BY <3>1, <3>2
    <2>5. SignalsPending' /\ NoSignalInside' /\ ParentsExist'
      BY <1>1, <2>1, <2>2
      DEF IInv, TypeOK, SignalsPending, NoSignalInside, ParentsExist
    <2> QED BY <2>2, <2>3, <2>4, <2>5 DEF IInv
  <1>3. ASSUME NEW v \in Task, kill_task(t, v) \/ reap_task(t, v)
        PROVE  IInv'
    <2>1. /\ v # t /\ co[v] \notin {"none", "dead"}
          /\ t_sig' = [t_sig EXCEPT ![v] = TRUE]
          /\ sighandler' \in [Task -> {"own", "exit"}]
          /\ push_ready(v, 0)
          /\ UNCHANGED <<t_parent, t_nsubs, coVars, batch>>
      BY <1>3 DEF kill_task, reap_task, loopVars, IInv, TypeOK, Alive
    <2>2. /\ ready' \in Seq(Task) /\ batch' \in Seq(Task)
          /\ t_err' \in [Task -> Errno]
          /\ t_blockedby' \in [Task -> Obj \cup {NoObj}]
          /\ t_prev' = [t_prev EXCEPT ![v] = TRUE]
          /\ rb_key' = [rb_key EXCEPT ![v] = NoTimer]
          /\ ListsMatch'
      BY <2>1, PushReady DEF IInv, Errno
    <2>3. co[v] \in {"fresh", "parked"}
      BY <1>1, <2>1 DEF IInv, TypeOK, OnePlace, CoState
    <2>4. TypeOK'
      BY <1>1, <2>1, <2>2 DEF IInv, TypeOK, coVars, loopVars
    <2>5. OnePlace'
      <3> SUFFICES ASSUME NEW u \in Task
                   PROVE  /\ rb_key'[u] # NoTimer =>
                               co'[u] = "parked" /\ ~t_prev'[u] /\ ~t_sig'[u]
                          /\ t_prev'[u] => co'[u] \in {"fresh", "parked", "dead"}
                          /\ co'[u] = "fresh" => t_prev'[u]
                          /\ co'[u] \in {"run", "back", "handling"} <=> current' = u
        BY DEF OnePlace
      <3>1. CASE u = v
        BY <3>1, <1>1, <2>1, <2>2, <2>3 DEF IInv, TypeOK, coVars
      <3>2. CASE u # v
        <4>1. /\ rb_key'[u] = rb_key[u] /\ co'[u] = co[u] /\ t_sig'[u] = t_sig[u]
              /\ t_prev'[u] = t_prev[u] /\ current' = current
          BY <3>2, <2>1, <2>2 DEF IInv, TypeOK, coVars
        <4> QED BY <4>1 DEF IInv, OnePlace
      <3> QED BY <3>1, <3>2
    <2>6. SignalsPending' /\ NoSignalInside' /\ ParentsExist'
      BY <1>1, <2>1, <2>2, <2>3
      DEF IInv, TypeOK, SignalsPending, NoSignalInside, ParentsExist, coVars
    <2> QED BY <2>2, <2>4, <2>5, <2>6 DEF IInv
  <1> QED BY <1>2, <1>3 DEF Call

\* Steps of the running task that give up the processor or return from a
\* blocking call.
LEMMA YieldStep ==
    ASSUME IInv, TaskAssumption, NEW t \in Task, Yield(t)
    PROVE  IInv'
  <1>1. ASSUME NEW s \in Secs, InProgram(t), sleep(t, s)
        PROVE  IInv'
    BY <1>1, DoYield DEF sleep, InProgram, TaskAssumption, OpName, IInv, TypeOK, loopVars
  <1>2. ASSUME NEW s \in JoinSecs, InProgram(t), join_tasks(t, s)
        PROVE  IInv'
    <2>1. joining(t) \in [Task -> Int]
      BY DEF joining, IInv, TypeOK
    <2> QED BY <1>2, <2>1, DoYield
            DEF join_tasks, InProgram, TaskAssumption, OpName, IInv, TypeOK, loopVars
  <1>3. CASE InProgram(t) /\ (join_assert(t) \/ finish(t))
    BY <1>3, Die DEF join_assert, finish, InProgram, IInv, TypeOK, loopVars
  <1>4. CASE handler_exit(t)
    BY <1>4, Die DEF handler_exit, IInv, TypeOK, loopVars
  <1>5. CASE sleep_return(t) \/ join_return(t)
    <2>1. /\ current = t /\ co[t] = "back" /\ UNCHANGED current
          /\ co' = [co EXCEPT ![t] = "run"]
          /\ op' = [op EXCEPT ![t] = "none"]
          /\ till' = [till EXCEPT ![t] = NoTimer]
          /\ ret' = [ret EXCEPT ![t] = 0]
          /\ t_nsubs' \in [Task -> Int]
          /\ UNCHANGED <<readyVars, t_sig, sighandler, t_parent, loopVars, now>>
      BY <1>5 DEF sleep_return, join_return, taskVars, IInv, TypeOK
    <2>2. ListsMatch'
      BY <2>1, ListsStay DEF IInv, readyVars, loopVars
    <2>3. TypeOK'
      <3>1. co' \in [Task -> CoState] /\ op' \in [Task -> OpName]
        BY <2>1 DEF IInv, TypeOK, CoState, OpName
      <3>2. till' \in [Task -> Nat \cup {NoTimer}] /\ ret' \in [Task -> Errno]
        BY <2>1 DEF IInv, TypeOK, Errno
      <3> QED BY <2>1, <3>1, <3>2 DEF IInv, TypeOK, readyVars, loopVars
    <2>4. OnePlace'
      BY <2>1 DEF IInv, TypeOK, OnePlace, readyVars
    <2>5. SignalsPending' /\ NoSignalInside' /\ ParentsExist'
      BY <2>1 DEF IInv, TypeOK, SignalsPending, NoSignalInside, ParentsExist, readyVars
    <2> QED BY <2>2, <2>3, <2>4, <2>5 DEF IInv
  <1>6. CASE handler_return(t)
    <2>1. /\ current = t /\ co[t] = "handling"
          /\ UNCHANGED <<ready, t_prev, t_err, t_blockedby, taskVars, op, till, loopVars, now>>
      BY <1>6 DEF handler_return
    <2>2. ListsMatch'
      BY <2>1, ListsStay DEF IInv, loopVars
    <2>3. \/ /\ co' = [co EXCEPT ![t] = "back"] /\ UNCHANGED <<current, rb_key>>
             /\ ret' \in [Task -> Errno]
          \/ /\ co' = [co EXCEPT ![t] = "parked"] /\ current' = None /\ UNCHANGED ret
             /\ rb_key' = [rb_key EXCEPT ![t] = till[t]]
      BY <1>6 DEF handler_return, IInv, TypeOK, Errno
    <2>4. ~t_sig[t] /\ ~t_prev[t]
      BY <2>1 DEF IInv, NoSignalInside, OnePlace
    <2>5. TypeOK'
      BY <2>1, <2>3 DEF IInv, TypeOK, CoState, taskVars, loopVars
    <2>6. OnePlace'
      <3> SUFFICES ASSUME NEW u \in Task
                   PROVE  /\ rb_key'[u] # NoTimer =>
                               co'[u] = "parked" /\ ~t_prev'[u] /\ ~t_sig'[u]
                          /\ t_prev'[u] => co'[u] \in {"fresh", "parked", "dead"}
                          /\ co'[u] = "fresh" => t_prev'[u]
                          /\ co'[u] \in {"run", "back", "handling"} <=> current' = u
        BY DEF OnePlace
      <3>1. t_sig' = t_sig /\ t_prev' = t_prev /\ t # None
        BY <2>1 DEF taskVars, Task, None
      <3>2. CASE u = t
        <4>1. rb_key[t] = NoTimer
          BY <2>1 DEF IInv, OnePlace
        <4> QED BY <2>1, <2>3, <2>4, <3>1, <3>2, <4>1 DEF IInv, TypeOK
      <3>3. CASE u # t
        <4>1. rb_key'[u] = rb_key[u] /\ co'[u] = co[u]
          BY <2>3, <3>3 DEF IInv, TypeOK
        <4>2. co[u] \notin {"run", "back", "handling"} /\ current' # u
          BY <2>1, <2>3, <3>3 DEF IInv, OnePlace, Task, None
        <4> QED BY <3>1, <4>1, <4>2 DEF IInv, OnePlace
      <3> QED BY <3>2, <3>3
    <2>7. SignalsPending' /\ NoSignalInside' /\ ParentsExist'
      BY <2>1, <2>3, <2>4
      DEF IInv, TypeOK, SignalsPending, NoSignalInside, ParentsExist, taskVars
    <2> QED BY <2>2, <2>5, <2>6, <2>7 DEF IInv
  <1> QED BY <1>1, <1>2, <1>3, <1>4, <1>5, <1>6 DEF Yield

\* The head of a concatenation comes from its first part.
LEMMA HeadTailOfConcat ==
    ASSUME NEW S, NEW a \in Seq(S), NEW b \in Seq(S), a # <<>>
    PROVE  /\ a \o b # <<>>
           /\ Head(a \o b) = Head(a)
           /\ Tail(a \o b) = Tail(a) \o b
  <1>1. a \o b \in Seq(S) /\ Len(a) \in Nat /\ Len(a) > 0 /\ Len(b) \in Nat
    BY ConcatProperties, EmptySeq, LenProperties
  <1>2. a \o b # <<>>
    BY ConcatEqualIffEmpty
  <1>3. /\ Len(a \o b) = Len(a) + Len(b)
        /\ \A i \in 1..(Len(a) + Len(b)) :
               (a \o b)[i] = IF i <= Len(a) THEN a[i] ELSE b[i - Len(a)]
    BY ConcatProperties
  <1>4. Head(a \o b) = Head(a)
    <2>1. Head(a \o b) = (a \o b)[1] /\ Head(a) = a[1]
      OBVIOUS
    <2> QED BY <1>1, <1>3, <2>1
  <1>5. /\ Tail(a) \in Seq(S) /\ Len(Tail(a)) = Len(a) - 1
        /\ \A i \in 1..(Len(a) - 1) : Tail(a)[i] = a[i + 1]
        /\ Tail(a \o b) \in Seq(S) /\ Len(Tail(a \o b)) = Len(a) + Len(b) - 1
        /\ \A i \in 1..(Len(a) + Len(b) - 1) : Tail(a \o b)[i] = (a \o b)[i + 1]
    BY <1>1, <1>2, <1>3, HeadTailProperties
  <1>6. /\ Tail(a) \o b \in Seq(S)
        /\ Len(Tail(a) \o b) = Len(a) + Len(b) - 1
        /\ \A i \in 1..(Len(a) + Len(b) - 1) :
               (Tail(a) \o b)[i] = IF i <= Len(a) - 1 THEN Tail(a)[i]
                                   ELSE b[i - (Len(a) - 1)]
    <2>1. Len(Tail(a)) + Len(b) = Len(a) + Len(b) - 1
      BY <1>1, <1>5
    <2> QED BY <1>5, <2>1, ConcatProperties
  <1>7. ASSUME NEW i \in 1..(Len(a) + Len(b) - 1)
        PROVE  Tail(a \o b)[i] = (Tail(a) \o b)[i]
    <2>1. i + 1 \in 1..(Len(a) + Len(b))
      BY <1>1
    <2>2. CASE i <= Len(a) - 1
      BY <1>1, <1>3, <1>5, <1>6, <2>1, <2>2
    <2>3. CASE i > Len(a) - 1
      <3>1. (i + 1) - Len(a) = i - (Len(a) - 1)
        BY <1>1
      <3> QED BY <1>1, <1>3, <1>5, <1>6, <2>1, <2>3, <3>1
    <2> QED BY <1>1, <2>2, <2>3
  <1>8. Tail(a \o b) = Tail(a) \o b
    BY <1>5, <1>6, <1>7, SeqEqual
  <1> QED BY <1>2, <1>4, <1>8

\* Taking a task out of a list to resume it.
LEMMA ResumeNextStep ==
    ASSUME IInv, resume_next
    PROVE  IInv'
  <1> DEFINE t == Head(batch)
  <1>1. /\ batch \in Seq(Task) /\ batch # <<>> /\ ready \in Seq(Task)
        /\ batch' = Tail(batch) /\ UNCHANGED ready
        /\ t \in Task
    BY HeadTailProperties DEF resume_next, IInv, TypeOK
  <1>2. /\ current = None
        /\ t_prev' = [t_prev EXCEPT ![t] = FALSE]
        /\ do_resume(t, t_err[t])
        /\ UNCHANGED <<t_err, rb_key, t_blockedby, sighandler, t_parent, t_nsubs, at, caller, now>>
    BY DEF resume_next, Idle
  <1>3. /\ Queue \in Seq(Task) /\ Queue # <<>>
        /\ Head(Queue) = t /\ Queue' = Tail(Queue)
    BY <1>1, ConcatProperties, HeadTailOfConcat DEF Queue
  <1>4. /\ NoDup(Queue') /\ Within(t, Queue)
        /\ \A y : Within(y, Queue') <=> Within(y, Queue) /\ y # t
    BY <1>3, TailRemoves DEF IInv, ListsMatch
  <1>5. ListsMatch'
    BY <1>2, <1>4 DEF IInv, TypeOK, ListsMatch
  <1>6. t_prev[t] /\ co[t] \in {"fresh", "parked", "dead"} /\ rb_key[t] = NoTimer
    BY <1>1, <1>4 DEF IInv, ListsMatch, OnePlace
  <1>7. /\ co' \in [Task -> CoState] /\ op' \in [Task -> OpName]
        /\ till' \in [Task -> Nat \cup {NoTimer}]
        /\ ret' \in [Task -> Errno]
        /\ t_sig' \in [Task -> BOOLEAN]
        /\ current' = IF co[t] = "dead" THEN None ELSE t
        /\ co[t] = "dead" => co'[t] = "dead"
        /\ co[t] # "dead" => co'[t] \in {"run", "back", "handling"}
        /\ co'[t] \in {"back", "handling"} => ~t_sig'[t]
        /\ \A u \in Task : u # t => co'[u] = co[u] /\ t_sig'[u] = t_sig[u]
        /\ ParentsExist'
    <2>1. t_err[t] \in Errno
      BY <1>1 DEF IInv, TypeOK
    <2> QED BY <1>1, <1>2, <1>6, <2>1, DoResume
  <1>8. TypeOK'
    <2>1. Tail(batch) \in Seq(Task)
      BY <1>1, HeadTailProperties
    <2> QED BY <1>1, <1>2, <1>7, <2>1 DEF IInv, TypeOK
  <1>9. OnePlace' /\ SignalsPending' /\ NoSignalInside'
    <2> SUFFICES ASSUME NEW u \in Task
                 PROVE  /\ rb_key'[u] # NoTimer =>
                             co'[u] = "parked" /\ ~t_prev'[u] /\ ~t_sig'[u]
                        /\ t_prev'[u] => co'[u] \in {"fresh", "parked", "dead"}
                        /\ co'[u] = "fresh" => t_prev'[u]
                        /\ co'[u] \in {"run", "back", "handling"} <=> current' = u
                        /\ co'[u] = "parked" /\ t_sig'[u] => t_prev'[u]
                        /\ co'[u] = "handling" => ~t_sig'[u]
      BY DEF OnePlace, SignalsPending, NoSignalInside
    <2>1. CASE u = t
      BY <2>1, <1>1, <1>2, <1>6, <1>7 DEF IInv, TypeOK, Task, None
    <2>2. CASE u # t
      <3>1. /\ rb_key'[u] = rb_key[u] /\ co'[u] = co[u] /\ t_sig'[u] = t_sig[u]
            /\ t_prev'[u] = t_prev[u]
        BY <2>2, <1>2, <1>7 DEF IInv, TypeOK
      <3>2. co[u] \notin {"run", "back", "handling"} /\ current' # u
        BY <1>2, <1>7, <2>2 DEF IInv, OnePlace, Task, None
      <3> QED BY <3>1, <3>2 DEF IInv, OnePlace, SignalsPending, NoSignalInside
    <2> QED BY <2>1, <2>2
  <1> QED BY <1>5, <1>7, <1>8, <1>9 DEF IInv

\* Expiring a timer.
LEMMA ExpireStep ==
    ASSUME IInv, NEW t \in Task, expire(t)
    PROVE  IInv'
  <1>1. /\ current = None /\ rb_key[t] # NoTimer
        /\ rb_key' = [rb_key EXCEPT ![t] = NoTimer]
        /\ t_err' = [t_err EXCEPT ![t] = ETIMEDOUT]
        /\ do_resume(t, ETIMEDOUT)
        /\ UNCHANGED <<ready, t_prev, t_blockedby, sighandler, t_parent, t_nsubs, loopVars, now>>
    BY DEF expire, Idle, IsNearest, Timers
  <1>2. co[t] = "parked" /\ ~t_prev[t] /\ ~t_sig[t]
    BY <1>1 DEF IInv, OnePlace
  <1>3. /\ co' \in [Task -> CoState] /\ op' \in [Task -> OpName]
        /\ till' \in [Task -> Nat \cup {NoTimer}]
        /\ ret' \in [Task -> Errno]
        /\ t_sig' \in [Task -> BOOLEAN]
        /\ current' = t
        /\ co'[t] \in {"run", "back", "handling"}
        /\ co'[t] \in {"back", "handling"} => ~t_sig'[t]
        /\ \A u \in Task : u # t => co'[u] = co[u] /\ t_sig'[u] = t_sig[u]
        /\ ParentsExist'
    BY <1>1, <1>2, DoResume DEF Errno
  <1>4. ListsMatch'
    BY <1>1, ListsStay DEF IInv, loopVars
  <1>5. TypeOK'
    BY <1>1, <1>3 DEF IInv, TypeOK, Errno, loopVars
  <1>6. OnePlace' /\ SignalsPending' /\ NoSignalInside'
    <2> SUFFICES ASSUME NEW u \in Task
                 PROVE  /\ rb_key'[u] # NoTimer =>
                             co'[u] = "parked" /\ ~t_prev'[u] /\ ~t_sig'[u]
                        /\ t_prev'[u] => co'[u] \in {"fresh", "parked", "dead"}
                        /\ co'[u] = "fresh" => t_prev'[u]
                        /\ co'[u] \in {"run", "back", "handling"} <=> current' = u
                        /\ co'[u] = "parked" /\ t_sig'[u] => t_prev'[u]
                        /\ co'[u] = "handling" => ~t_sig'[u]
      BY DEF OnePlace, SignalsPending, NoSignalInside
    <2>1. CASE u = t
      BY <2>1, <1>1, <1>2, <1>3 DEF IInv, TypeOK
    <2>2. CASE u # t
      <3>1. /\ rb_key'[u] = rb_key[u] /\ co'[u] = co[u] /\ t_sig'[u] = t_sig[u]
            /\ t_prev'[u] = t_prev[u]
        BY <2>2, <1>1, <1>3 DEF IInv, TypeOK
      <3>2. co[u] \notin {"run", "back", "handling"}
        BY <1>1 DEF IInv, OnePlace, Task, None
      <3> QED BY <3>1, <3>2, <2>2, <1>3 DEF IInv, OnePlace, SignalsPending, NoSignalInside
    <2> QED BY <2>1, <2>2
  <1> QED BY <1>3, <1>4, <1>5, <1>6 DEF IInv

\* The remaining steps of the loop only change the loop's own variables;
\* detach_list moves tasks between the lists without changing the queue.
LEMMA LoopStep ==
    ASSUME IInv,
           \/ detach_list \/ resume_list_done \/ modules_done \/ calc_waittime
           \/ poll_events \/ poll_nothing \/ expire_done \/ update_time
           \/ UNCHANGED vars
    PROVE  IInv'
  <1>1. CASE detach_list
    <2>1. /\ batch = <<>> /\ batch' = ready /\ ready' = <<>>
          /\ UNCHANGED <<t_prev, t_err, rb_key, t_blockedby, taskVars, coVars, at, caller, now>>
      BY <1>1 DEF detach_list
    <2>2. Queue' = Queue
      BY <2>1, ConcatEmptySeq DEF Queue, IInv, TypeOK
    <2>3. ListsMatch'
      BY <2>1, <2>2 DEF IInv, ListsMatch
    <2>4. TypeOK'
      BY <2>1, EmptySeq DEF IInv, TypeOK, taskVars, coVars
    <2>5. OnePlace' /\ SignalsPending' /\ NoSignalInside' /\ ParentsExist'
      BY <2>1 DEF IInv, OnePlace, SignalsPending, NoSignalInside, ParentsExist,
                  taskVars, coVars
    <2> QED BY <2>3, <2>4, <2>5 DEF IInv
  <1>2. CASE ~detach_list
    <2>1. UNCHANGED <<readyVars, taskVars, coVars, batch>>
      BY <1>2 DEF resume_list_done, modules_done, calc_waittime, poll_events,
                  poll_nothing, expire_done, update_time, vars, loopVars
    <2>2. ListsMatch'
      BY <2>1, ListsStay DEF IInv, readyVars
    <2>3. at' \in {"resume_list", "modules", "calc_waittime", "poll",
                   "resume_timedout", "aborted"}
      BY <1>2 DEF resume_list_done, modules_done, calc_waittime, poll_events,
                  poll_nothing, expire_done, update_time, vars, loopVars,
                  after_list, after_expiry, IInv, TypeOK
    <2>4. caller' \in {"boot", "modules", "events", "calc", "end"} /\ now' \in Nat
      BY <1>2 DEF resume_list_done, modules_done, calc_waittime, poll_events,
                  poll_nothing, expire_done, update_time, vars, loopVars, IInv, TypeOK
    <2>5. TypeOK'
      BY <2>1, <2>3, <2>4 DEF IInv, TypeOK, readyVars, taskVars, coVars
    <2>6. OnePlace' /\ SignalsPending' /\ NoSignalInside' /\ ParentsExist'
      BY <2>1 DEF IInv, OnePlace, SignalsPending, NoSignalInside, ParentsExist,
                  readyVars, taskVars, coVars
    <2> QED BY <2>2, <2>5, <2>6 DEF IInv
  <1> QED BY <1>1, <1>2

\* The boot tasks are queued, each once; nothing else exists.
LEMMA InitInvariant ==
    ASSUME Init, TaskAssumption
    PROVE  IInv
  <1>1. ready \in Seq(Task) /\ Len(ready) = NBoot
    <2>1. ready \in [1..NBoot -> Task] /\ NBoot \in Nat
      BY DEF Init, TaskAssumption, Task
    <2> QED BY <2>1
  <1>2. Queue = ready /\ batch \in Seq(Task)
    BY <1>1, ConcatEmptySeq, EmptySeq DEF Init, Queue
  <1>3. \A i \in 1..NBoot : ready[i] = i
    BY DEF Init
  <1>4. ListsMatch
    <2>1. NoDup(Queue)
      BY <1>1, <1>2, <1>3 DEF NoDup
    <2>2. \A t \in Task : t_prev[t] <=> t \in 1..NBoot
      <3>1. t_prev = [t \in Task |-> t <= NBoot]
        BY DEF Init
      <3>2. \A t \in Task : t_prev[t] <=> t <= NBoot
        BY <3>1, Zenon
      <3>3. \A t \in Task : t <= NBoot <=> t \in 1..NBoot
        BY DEF Task, TaskAssumption
      <3> QED BY <3>2, <3>3
    <2>3. \A t \in Task : Within(t, Queue) <=> t \in 1..NBoot
      BY <1>1, <1>2, <1>3 DEF Within
    <2> QED BY <2>1, <2>2, <2>3 DEF ListsMatch
  <1>5. TypeOK
    <2>1. co \in [Task -> CoState] /\ op \in [Task -> OpName]
      BY DEF Init, CoState, OpName
    <2>2. ret \in [Task -> Errno] /\ t_err \in [Task -> Errno]
      BY DEF Init, Errno
    <2>3. /\ t_prev \in [Task -> BOOLEAN] /\ t_sig \in [Task -> BOOLEAN]
          /\ t_blockedby \in [Task -> Obj \cup {NoObj}]
          /\ rb_key \in [Task -> Nat \cup {NoTimer}]
          /\ till \in [Task -> Nat \cup {NoTimer}]
      BY DEF Init
    <2>4. /\ sighandler \in [Task -> {"own", "exit"}]
          /\ t_parent \in [Task -> Task \cup {None}]
          /\ t_nsubs \in [Task -> Int]
          /\ current \in Task \cup {None} /\ now \in Nat
      BY DEF Init
    <2>5. at = "resume_list" /\ caller = "boot"
      BY DEF Init
    <2> QED BY <1>1, <1>2, <2>1, <2>2, <2>3, <2>4, <2>5 DEF TypeOK
  <1>6. OnePlace
    <2>1. \A t \in Task : t # None
      BY DEF Task, None
    <2>2. \A t \in Task : co[t] = IF t <= NBoot THEN "fresh" ELSE "none"
      BY DEF Init
    <2>3. \A t \in Task : (t_prev[t] <=> t <= NBoot) /\ rb_key[t] = NoTimer
      BY DEF Init
    <2>4. current = None
      BY DEF Init
    <2> QED BY <2>1, <2>2, <2>3, <2>4 DEF OnePlace
  <1>7. SignalsPending /\ NoSignalInside /\ ParentsExist
    BY DEF Init, SignalsPending, NoSignalInside, ParentsExist
  <1> QED BY <1>4, <1>5, <1>6, <1>7 DEF IInv

\* Every step of the scheduler preserves the inductive invariant.
LEMMA NextInvariant ==
    ASSUME IInv, TaskAssumption, [Next]_vars
    PROVE  IInv'
  <1>1. CASE UNCHANGED vars
    BY <1>1, LoopStep
  <1>2. ASSUME NEW t \in Task, Yield(t) \/ Call(t)
        PROVE  IInv'
    BY <1>2, YieldStep, CallStep
  <1>3. CASE Loop
    BY <1>3, ResumeNextStep, ExpireStep, LoopStep DEF Loop
  <1>4. CASE update_time \/ aborted
    BY <1>4, LoopStep DEF aborted
  <1> QED BY <1>1, <1>2, <1>3, <1>4 DEF Next

\* The inductive invariant holds in every reachable state.
LEMMA InvariantHolds == Spec => []IInv
  <1>1. Init => IInv
    BY InitInvariant, TaskAssumption
  <1>2. IInv /\ [Next]_vars => IInv'
    BY NextInvariant, TaskAssumption
  <1> QED BY <1>1, <1>2, PTL DEF Spec

\* The variables always have their types: error codes are errors, timers are
\* deadlines, and the loop is at one of its steps.
THEOREM TypeCorrect == Spec => []TypeOK
  <1>1. IInv => TypeOK
    BY DEF IInv
  <1> QED BY <1>1, InvariantHolds, PTL

\* push_ready's test of t_prev keeps every task at most once in ready_list
\* and the list being resumed, and t_prev is never stale.
THEOREM ListsConsistent == Spec => []ListsMatch
  <1>1. IInv => ListsMatch
    BY DEF IInv
  <1> QED BY <1>1, InvariantHolds, PTL

\* No task is both ready and timed, and only one task runs: resume_timedout
\* and resume_list never resume the same suspension twice.
THEOREM TasksInOnePlace == Spec => []OnePlace
  <1>1. IInv => OnePlace
    BY DEF IInv
  <1> QED BY <1>1, InvariantHolds, PTL

\* A blocked task with a pending signal is always on its way to be resumed.
THEOREM SignalsNotForgotten == Spec => []SignalsPending
  <1>1. IInv => SignalsPending
    BY DEF IInv
  <1> QED BY <1>1, InvariantHolds, PTL

---------------------------------------------------------------------------
(* start_task's order *)

\* Tasks are created one after the other.
Created == \A t, u \in Task : t < u /\ co[u] # "none" => co[t] # "none"

\* Tasks that have not run yet stand in the lists in the order of creation.
FreshSorted ==
    \A i, j \in 1..Len(Queue) :
        i < j /\ co[Queue[i]] = "fresh" /\ co[Queue[j]] = "fresh" =>
            Queue[i] < Queue[j]

OrderInv == StartOrder /\ Created /\ FreshSorted

\* A step that neither creates a task nor resumes one, and at most queues a
\* task that has run before, preserves the order.
LEMMA OrderStays ==
    ASSUME IInv, OrderInv,
           \A t \in Task : /\ co'[t] = "fresh" <=> co[t] = "fresh"
                           /\ co'[t] = "none" <=> co[t] = "none",
           \/ Queue' = Queue
           \/ \E p \in Task : co[p] # "fresh" /\ Queue' = Append(Queue, p)
    PROVE  OrderInv'
  <1>1. StartOrder' /\ Created'
    BY DEF OrderInv, StartOrder, Created
  <1>2. Queue \in Seq(Task) /\ Len(Queue) \in Nat
    BY ConcatProperties, LenProperties DEF Queue, IInv, TypeOK
  <1>3. \A i \in 1..Len(Queue) : Queue[i] \in Task
    BY <1>2, ElementOfSeq
  <1>4. CASE Queue' = Queue
    BY <1>2, <1>3, <1>4 DEF OrderInv, FreshSorted, StartOrder, Created
  <1>5. CASE \E p \in Task : co[p] # "fresh" /\ Queue' = Append(Queue, p)
    <2>1. PICK p \in Task : co[p] # "fresh" /\ Queue' = Append(Queue, p)
      BY <1>5
    <2>2. /\ Len(Queue') = Len(Queue) + 1
          /\ \A i \in 1..Len(Queue) : Queue'[i] = Queue[i]
          /\ Queue'[Len(Queue) + 1] = p
      BY <1>2, <2>1, AppendProperties
    <2>3. FreshSorted'
      <3> SUFFICES ASSUME NEW i \in 1..(Len(Queue) + 1), NEW j \in 1..(Len(Queue) + 1),
                          i < j, co'[Queue'[i]] = "fresh", co'[Queue'[j]] = "fresh"
                   PROVE  Queue'[i] < Queue'[j]
        BY <1>2, <2>2 DEF FreshSorted
      <3>1. j # Len(Queue) + 1
        BY <2>1, <2>2
      <3>2. i \in 1..Len(Queue) /\ j \in 1..Len(Queue)
        BY <1>2, <3>1
      <3>3. Queue'[i] = Queue[i] /\ Queue'[j] = Queue[j]
        BY <2>2, <3>2
      <3>4. co[Queue[i]] = "fresh" /\ co[Queue[j]] = "fresh"
        BY <1>3, <3>2, <3>3
      <3> QED BY <3>2, <3>3, <3>4 DEF OrderInv, FreshSorted
    <2> QED BY <1>1, <2>3 DEF OrderInv
  <1> QED BY <1>1, <1>4, <1>5 DEF OrderInv

\* What push_ready of a task that is not fresh does to the queue.
LEMMA PushQueue ==
    ASSUME IInv, NEW p \in Task, NEW e \in Errno, push_ready(p, e), batch' = batch,
           co[p] # "fresh" \/ t_prev[p]
    PROVE  \/ Queue' = Queue
           \/ \E q \in Task : co[q] # "fresh" /\ Queue' = Append(Queue, q)
  BY PushReady DEF IInv

LEMMA DieOrder ==
    ASSUME IInv, OrderInv, NEW t \in Task, current = t,
           NEW subs \in [Task -> Int], die(t, subs), batch' = batch
    PROVE  OrderInv'
  <1>1. /\ co' = [co EXCEPT ![t] = "dead"]
        /\ co[t] \in {"run", "back", "handling"}
    BY DEF die, IInv, OnePlace
  <1>2. \A u \in Task : /\ co'[u] = "fresh" <=> co[u] = "fresh"
                        /\ co'[u] = "none" <=> co[u] = "none"
    BY <1>1 DEF IInv, TypeOK
  <1>3. \/ Queue' = Queue
        \/ \E q \in Task : co[q] # "fresh" /\ Queue' = Append(Queue, q)
    <2>1. CASE UNCHANGED readyVars
      BY <2>1 DEF readyVars, Queue
    <2>2. CASE ~UNCHANGED readyVars
      <3> DEFINE p == t_parent[t]
      <3>1. p \in Task /\ push_ready(p, 0)
        BY <2>2 DEF die, IInv, TypeOK
      <3>2. co[p] # "fresh" \/ t_prev[p]
        BY <3>1 DEF IInv, OnePlace
      <3> QED BY <3>1, <3>2, PushQueue DEF Errno
    <2> QED BY <2>1, <2>2
  <1> QED BY <1>2, <1>3, OrderStays

\* A new task comes last in the queue and has the largest number.
LEMMA StartTaskOrder ==
    ASSUME IInv, OrderInv, NEW t \in Task, current = t,
           NEW c \in Task, NEW j \in BOOLEAN, start_task(t, c, j)
    PROVE  OrderInv'
  <1>1. /\ co[c] = "none" /\ \A u \in Task : u < c => co[u] # "none"
        /\ co' = [co EXCEPT ![c] = "fresh"]
        /\ push_ready(c, 0) /\ batch' = batch
    BY DEF start_task, NextId, loopVars
  <1>2. ~t_prev[c]
    BY <1>1 DEF IInv, OnePlace
  <1>3. Queue' = Append(Queue, c)
    BY <1>1, <1>2, PushReady DEF IInv, Errno
  <1>4. Queue \in Seq(Task) /\ Len(Queue) \in Nat
    BY ConcatProperties, LenProperties DEF Queue, IInv, TypeOK
  <1>5. \A i \in 1..Len(Queue) : Queue[i] \in Task
    BY <1>4, ElementOfSeq
  <1>6. /\ Len(Queue') = Len(Queue) + 1
        /\ \A i \in 1..Len(Queue) : Queue'[i] = Queue[i]
        /\ Queue'[Len(Queue) + 1] = c
    BY <1>3, <1>4, AppendProperties
  <1>7. /\ co'[c] = "fresh"
        /\ \A u \in Task : u # c => co'[u] = co[u]
    BY <1>1 DEF IInv, TypeOK
  <1>8. \A u \in Task : co[u] # "none" => u < c
    BY <1>1 DEF OrderInv, Created, Task
  <1>9. StartOrder' /\ Created'
    <2>1. Created'
      BY <1>1, <1>7, <1>8 DEF OrderInv, Created, Task
    <2>2. StartOrder'
      BY <1>7, <1>8 DEF OrderInv, StartOrder, Task
    <2> QED BY <2>1, <2>2
  <1>10. FreshSorted'
    <2> SUFFICES ASSUME NEW i \in 1..(Len(Queue) + 1), NEW k \in 1..(Len(Queue) + 1),
                        i < k, co'[Queue'[i]] = "fresh", co'[Queue'[k]] = "fresh"
                 PROVE  Queue'[i] < Queue'[k]
      BY <1>4, <1>6 DEF FreshSorted
    <2>1. i \in 1..Len(Queue) /\ Queue'[i] = Queue[i] /\ Queue[i] \in Task
      BY <1>4, <1>5, <1>6
    <2>2. Queue[i] # c
      <3>1. t_prev[Queue[i]]
        BY <2>1 DEF IInv, ListsMatch, Within
      <3> QED BY <3>1, <1>2
    <2>3. co[Queue[i]] = "fresh"
      BY <1>7, <2>1, <2>2
    <2>4. CASE k = Len(Queue) + 1
      BY <1>6, <1>8, <2>1, <2>3, <2>4
    <2>5. CASE k # Len(Queue) + 1
      <3>1. k \in 1..Len(Queue) /\ Queue'[k] = Queue[k] /\ Queue[k] \in Task
        BY <1>4, <1>5, <1>6, <2>5
      <3>2. Queue[k] # c
        <4>1. t_prev[Queue[k]]
          BY <3>1 DEF IInv, ListsMatch, Within
        <4> QED BY <4>1, <1>2
      <3> QED BY <1>7, <2>1, <2>3, <3>1, <3>2 DEF OrderInv, FreshSorted
    <2> QED BY <2>4, <2>5
  <1> QED BY <1>9, <1>10 DEF OrderInv

\* The task taken from the head of the list is the oldest of those that have
\* not run.
LEMMA ResumeNextOrder ==
    ASSUME IInv, OrderInv, resume_next
    PROVE  OrderInv'
  <1> DEFINE h == Head(batch)
  <1>1. /\ batch \in Seq(Task) /\ batch # <<>> /\ ready \in Seq(Task)
        /\ batch' = Tail(batch) /\ ready' = ready
        /\ h \in Task /\ current = None
        /\ do_resume(h, t_err[h])
    BY HeadTailProperties DEF resume_next, IInv, TypeOK, Idle
  <1>2. /\ Queue \in Seq(Task) /\ Queue # <<>>
        /\ Head(Queue) = h /\ Queue' = Tail(Queue)
    BY <1>1, ConcatProperties, HeadTailOfConcat DEF Queue
  <1>3. /\ Len(Queue) \in Nat /\ Len(Queue) > 0 /\ Queue[1] = h
        /\ Len(Queue') = Len(Queue) - 1
        /\ \A i \in 1..(Len(Queue) - 1) : Queue'[i] = Queue[i + 1]
        /\ \A i \in 1..Len(Queue) : Queue[i] \in Task
    BY <1>2, HeadTailProperties, EmptySeq, LenProperties, ElementOfSeq
  <1>4. NoDup(Queue)
    BY DEF IInv, ListsMatch
  <1>5. co[h] \in {"fresh", "parked", "dead"}
    <2>1. Within(h, Queue)
      BY <1>3 DEF Within
    <2> QED BY <1>1, <2>1 DEF IInv, ListsMatch, OnePlace
  <1>6. /\ co'[h] \notin {"none", "fresh"}
        /\ \A u \in Task : u # h => co'[u] = co[u]
    <2>1. UNCHANGED <<sighandler, t_parent, t_nsubs>>
      BY DEF resume_next
    <2>2. t_err[h] \in Errno
      BY <1>1 DEF IInv, TypeOK
    <2> QED BY <1>1, <1>5, <2>1, <2>2, DoResume
  <1>7. Created'
    BY <1>5, <1>6 DEF OrderInv, Created
  <1>8. \A u \in Task : u # h /\ co[u] = "fresh" =>
            \E i \in 1..(Len(Queue) - 1) : Queue[i + 1] = u
    <2> SUFFICES ASSUME NEW u \in Task, u # h, co[u] = "fresh"
                 PROVE  \E i \in 1..(Len(Queue) - 1) : Queue[i + 1] = u
      OBVIOUS
    <2>1. Within(u, Queue)
      BY DEF IInv, OnePlace, ListsMatch
    <2>2. PICK i \in 1..Len(Queue) : Queue[i] = u
      BY <2>1 DEF Within
    <2>3. i - 1 \in 1..(Len(Queue) - 1) /\ (i - 1) + 1 = i
      BY <1>3, <2>2
    <2> QED BY <2>2, <2>3
  <1>9. StartOrder'
    <2> SUFFICES ASSUME NEW t \in Task, NEW u \in Task, t < u, co'[t] = "fresh"
                 PROVE  co'[u] \in {"none", "fresh"}
      BY DEF StartOrder
    <2>1. t # h /\ co[t] = "fresh"
      BY <1>6
    <2>2. co[u] \in {"none", "fresh"}
      BY <2>1 DEF OrderInv, StartOrder
    <2>3. CASE u # h
      BY <1>6, <2>2, <2>3
    <2>4. CASE u = h
      <3>1. co[h] = "fresh"
        BY <1>5, <2>2, <2>4
      <3>2. PICK i \in 1..(Len(Queue) - 1) : Queue[i + 1] = t
        BY <1>8, <2>1
      <3>3. 1 \in 1..Len(Queue) /\ i + 1 \in 1..Len(Queue) /\ 1 < i + 1
        BY <1>3, <3>2
      <3>4. Queue[1] < Queue[i + 1]
        BY <1>3, <2>1, <3>1, <3>2, <3>3 DEF OrderInv, FreshSorted
      <3>5. h < t
        BY <1>3, <3>2, <3>4
      <3> QED BY <2>4, <3>5 DEF Task
    <2> QED BY <2>3, <2>4
  <1>10. FreshSorted'
    <2> SUFFICES ASSUME NEW i \in 1..(Len(Queue) - 1), NEW k \in 1..(Len(Queue) - 1),
                        i < k, co'[Queue'[i]] = "fresh", co'[Queue'[k]] = "fresh"
                 PROVE  Queue'[i] < Queue'[k]
      BY <1>3 DEF FreshSorted
    <2>1. /\ Queue'[i] = Queue[i + 1] /\ Queue'[k] = Queue[k + 1]
          /\ i + 1 \in 1..Len(Queue) /\ k + 1 \in 1..Len(Queue) /\ i + 1 < k + 1
      BY <1>3
    <2>2. Queue[i + 1] # h /\ Queue[k + 1] # h
      BY <1>6, <2>1
    <2>3. co[Queue[i + 1]] = "fresh" /\ co[Queue[k + 1]] = "fresh"
      BY <1>3, <1>6, <2>1, <2>2
    <2> QED BY <2>1, <2>3 DEF OrderInv, FreshSorted
  <1> QED BY <1>7, <1>9, <1>10 DEF OrderInv

\* A step that leaves the lists alone and neither creates nor starts a task.
LEMMA QuietOrder ==
    ASSUME IInv, OrderInv, Queue' = Queue,
           \/ co' = co
           \/ \E t \in Task, c \in CoState \ {"none", "fresh"} :
                  co[t] \notin {"none", "fresh"} /\ co' = [co EXCEPT ![t] = c]
    PROVE  OrderInv'
  <1>1. \A u \in Task : /\ co'[u] = "fresh" <=> co[u] = "fresh"
                        /\ co'[u] = "none" <=> co[u] = "none"
    BY DEF IInv, TypeOK
  <1> QED BY <1>1, OrderStays

LEMMA YieldOrder ==
    ASSUME IInv, OrderInv, TaskAssumption, NEW t \in Task, Yield(t)
    PROVE  OrderInv'
  <1>1. ASSUME NEW o, NEW sec, NEW subs \in [Task -> Int], InProgram(t),
               do_yield(t, o, sec, t_blockedby[t], subs), batch' = batch
        PROVE  OrderInv'
    <2>1. CASE t_sig[t]
      BY <1>1, <2>1, DieOrder DEF do_yield, InProgram
    <2>2. CASE ~t_sig[t]
      <3>1. co' = [co EXCEPT ![t] = "parked"] /\ ready' = ready
        BY <1>1, <2>2 DEF do_yield
      <3>2. co[t] = "run"
        BY <1>1 DEF InProgram
      <3> QED BY <1>1, <3>1, <3>2, QuietOrder DEF Queue, CoState
    <2> QED BY <2>1, <2>2
  <1>2. t_nsubs \in [Task -> Int] /\ joining(t) \in [Task -> Int]
    BY DEF joining, IInv, TypeOK
  <1>3. CASE InProgram(t) /\ \E s \in Secs : sleep(t, s)
    BY <1>1, <1>2, <1>3 DEF sleep, loopVars
  <1>4. CASE InProgram(t) /\ \E s \in JoinSecs : join_tasks(t, s)
    BY <1>1, <1>2, <1>4 DEF join_tasks, loopVars
  <1>5. CASE InProgram(t) /\ (join_assert(t) \/ finish(t))
    BY <1>2, <1>5, DieOrder DEF join_assert, finish, InProgram, loopVars
  <1>6. CASE handler_exit(t)
    BY <1>2, <1>6, DieOrder DEF handler_exit, loopVars
  <1>7. CASE sleep_return(t) \/ join_return(t)
    <2>1. co[t] = "back" /\ co' = [co EXCEPT ![t] = "run"] /\ Queue' = Queue
      BY <1>7 DEF sleep_return, join_return, readyVars, loopVars, Queue
    <2> QED BY <2>1, QuietOrder DEF CoState
  <1>8. CASE handler_return(t)
    <2>1. /\ co[t] = "handling" /\ Queue' = Queue
          /\ \/ co' = [co EXCEPT ![t] = "back"]
             \/ co' = [co EXCEPT ![t] = "parked"]
      BY <1>8 DEF handler_return, loopVars, Queue
    <2> QED BY <2>1, QuietOrder DEF CoState
  <1> QED BY <1>3, <1>4, <1>5, <1>6, <1>7, <1>8 DEF Yield

LEMMA CallOrder ==
    ASSUME IInv, OrderInv, NEW t \in Task, Call(t)
    PROVE  OrderInv'
  <1>1. current = t
    BY DEF Call, Running
  <1>2. ASSUME NEW v \in Task, kill_task(t, v) \/ reap_task(t, v)
        PROVE  OrderInv'
    <2>1. push_ready(v, 0) /\ batch' = batch /\ co' = co
      BY <1>2 DEF kill_task, reap_task, coVars, loopVars
    <2>2. co[v] # "fresh" \/ t_prev[v]
      BY DEF IInv, OnePlace
    <2>3. \/ Queue' = Queue
          \/ \E q \in Task : co[q] # "fresh" /\ Queue' = Append(Queue, q)
      BY <2>1, <2>2, PushQueue DEF Errno
    <2> QED BY <2>1, <2>3, OrderStays
  <1> QED BY <1>1, <1>2, StartTaskOrder DEF Call

LEMMA LoopOrder ==
    ASSUME IInv, OrderInv, Loop \/ update_time \/ UNCHANGED vars
    PROVE  OrderInv'
  <1>1. CASE detach_list
    <2>1. Queue' = Queue /\ co' = co
      BY <1>1, ConcatEmptySeq DEF detach_list, Queue, IInv, TypeOK, coVars
    <2> QED BY <2>1, QuietOrder
  <1>2. CASE resume_next
    BY <1>2, ResumeNextOrder
  <1>3. ASSUME NEW t \in Task, expire(t)
        PROVE  OrderInv'
    <2>1. /\ rb_key[t] # NoTimer /\ do_resume(t, ETIMEDOUT) /\ current = None
          /\ UNCHANGED <<ready, batch, sighandler, t_parent, t_nsubs>>
      BY <1>3 DEF expire, IsNearest, Timers, Idle, loopVars
    <2>2. co[t] = "parked"
      BY <2>1 DEF IInv, OnePlace
    <2>3. /\ co'[t] \in {"run", "back", "handling"}
          /\ \A u \in Task : u # t => co'[u] = co[u]
      BY <2>1, <2>2, DoResume DEF Errno
    <2>4. \A u \in Task : /\ co'[u] = "fresh" <=> co[u] = "fresh"
                          /\ co'[u] = "none" <=> co[u] = "none"
      BY <2>2, <2>3
    <2> QED BY <2>1, <2>4, OrderStays DEF Queue
  <1>4. CASE \/ resume_list_done \/ modules_done \/ calc_waittime
             \/ poll_events \/ poll_nothing \/ expire_done \/ update_time
             \/ UNCHANGED vars
    <2>1. Queue' = Queue /\ co' = co
      BY <1>4 DEF resume_list_done, modules_done, calc_waittime, poll_events,
                  poll_nothing, expire_done, update_time, vars, readyVars,
                  coVars, loopVars, Queue
    <2> QED BY <2>1, QuietOrder
  <1> QED BY <1>1, <1>2, <1>3, <1>4 DEF Loop

LEMMA InitOrder ==
    ASSUME Init, TaskAssumption
    PROVE  OrderInv
  <1>1. \A t \in Task : co[t] = IF t <= NBoot THEN "fresh" ELSE "none"
    BY DEF Init
  <1>2. StartOrder /\ Created
    BY <1>1 DEF StartOrder, Created, Task, TaskAssumption
  <1>3. ready \in Seq(Nat) /\ Len(ready) = NBoot
    <2>1. ready \in [1..NBoot -> Nat] /\ NBoot \in Nat
      BY DEF Init, TaskAssumption
    <2> QED BY <2>1
  <1>4. Queue = ready
    BY <1>3, ConcatEmptySeq DEF Init, Queue
  <1>5. \A i \in 1..NBoot : ready[i] = i
    BY DEF Init
  <1>6. FreshSorted
    BY <1>3, <1>4, <1>5 DEF FreshSorted, TaskAssumption
  <1> QED BY <1>2, <1>6 DEF OrderInv

\* "All tasks will be executed in the order they are created": no task runs
\* before an older one has, whatever is killed, reaped or woken in between.
THEOREM OrderOfStart == Spec => []StartOrder
  <1>1. Init => OrderInv
    BY InitOrder, TaskAssumption
  <1>2. IInv /\ OrderInv /\ [Next]_vars => OrderInv'
    <2> SUFFICES ASSUME IInv, OrderInv, [Next]_vars
                 PROVE  OrderInv'
      OBVIOUS
    <2>1. ASSUME NEW t \in Task, Yield(t) \/ Call(t)
          PROVE  OrderInv'
      BY <2>1, YieldOrder, CallOrder, TaskAssumption
    <2> QED BY <2>1, LoopOrder DEF Next, aborted
  <1>3. OrderInv => StartOrder
    BY DEF OrderInv
  <1> QED BY <1>1, <1>2, <1>3, InvariantHolds, PTL DEF Spec

---------------------------------------------------------------------------
(* The loop polls only when nothing is ready *)

\* resume_list empties both lists before it returns, and between it and
\* poll.wait no task runs that could fill them.
PhaseInv ==
    /\ at \notin {"resume_list", "aborted"} => batch = <<>>
    /\ at \in {"modules", "calc_waittime", "poll"} => ready = <<>> /\ current = None

LEMMA PhaseStep ==
    ASSUME IInv, PhaseInv, [Next]_vars
    PROVE  PhaseInv'
  <1>1. ASSUME NEW t \in Task, Yield(t) \/ Call(t)
        PROVE  PhaseInv'
    <2>1. current = t /\ t # None
      BY <1>1 DEF Yield, Call, InProgram, Running, sleep_return, join_return,
                  handler_return, handler_exit, Task, None
    <2>2. at \notin {"modules", "calc_waittime", "poll"}
      BY <2>1 DEF PhaseInv
    <2>3. batch' = batch /\ at' \in {at, "aborted"}
      BY <1>1 DEF Yield, Call, start_task, kill_task, reap_task, sleep, join_tasks,
                  join_assert, finish, sleep_return, join_return, handler_return,
                  handler_exit, loopVars
    <2> QED BY <2>2, <2>3 DEF PhaseInv
  <1>2. CASE detach_list \/ resume_next \/ \E t \in Task : expire(t)
    <2>1. at \in {"resume_list", "resume_timedout"} /\ at' = at
          /\ (at = "resume_timedout" => batch' = batch)
      BY <1>2 DEF detach_list, resume_next, expire, Idle, loopVars
    <2> QED BY <2>1 DEF PhaseInv
  <1>3. CASE resume_list_done
    BY <1>3 DEF resume_list_done, Idle, after_list, PhaseInv, readyVars, coVars
  <1>4. CASE modules_done \/ calc_waittime
    BY <1>4 DEF modules_done, calc_waittime, Idle, PhaseInv, readyVars, coVars
  <1>5. CASE poll_events \/ poll_nothing
    BY <1>5 DEF poll_events, poll_nothing, Idle, PhaseInv, readyVars, coVars
  <1>6. CASE expire_done
    BY <1>6 DEF expire_done, after_expiry, Idle, PhaseInv, readyVars, coVars
  <1>7. CASE update_time \/ UNCHANGED vars
    BY <1>7 DEF update_time, vars, PhaseInv, readyVars, coVars, loopVars
  <1> QED BY <1>1, <1>2, <1>3, <1>4, <1>5, <1>6, <1>7 DEF Next, Loop, aborted

\* The loop never goes to sleep in poll.wait with a ready task: every path
\* into it, those of timers that fire before the poll included, ends with an
\* exhausted ready list.
THEOREM NoReadyTaskAtPoll == Spec => []PollOnlyWhenIdle
  <1>1. Init => PhaseInv
    BY DEF Init, PhaseInv
  <1>2. PhaseInv /\ IInv /\ [Next]_vars => PhaseInv'
    BY PhaseStep
  <1>3. PhaseInv /\ IInv => PollOnlyWhenIdle
    <2> SUFFICES ASSUME PhaseInv, IInv, at = "poll"
                 PROVE  Queue = <<>>
      BY DEF PollOnlyWhenIdle
    <2>1. batch = <<>> /\ ready = <<>>
      BY DEF PhaseInv
    <2> QED BY <2>1, EmptySeq, ConcatEmptySeq DEF Queue
  <1> QED BY <1>1, <1>2, <1>3, InvariantHolds, PTL DEF Spec

---------------------------------------------------------------------------
(* join_tasks: the inductive invariant, for any joiners and reapers, when  *)
(* no task calls kill_task.  The lemmas about the building blocks are for  *)
(* any blocking call, so that modules that extend Tasklet can cite them.   *)

\* A task that was never created has no children and is in no call.
Unborn == \A t \in Task : co[t] = "none" => t_nsubs[t] = 0 /\ op[t] = "none"

\* A task is inside of a blocking call only while it is suspended in it,
\* runs its sighandler there or has just come back.
OpInside == \A t \in Task : op[t] # "none" => co[t] \in {"parked", "back", "handling"}

\* Without kill_task the only sighandler that runs is reap_task's.
OnlyReaped ==
    \A t \in Task : t_sig[t] \/ co[t] = "handling" => sighandler[t] = "exit"

\* A joining task that is on its way to be resumed was woken by the end of
\* its last child, or is to end.
JoinWoken ==
    \A t \in Task : co[t] = "parked" /\ op[t] = "join" /\ t_prev[t] /\ ~t_sig[t] =>
        t_err[t] = 0 /\ Children(t) = {}

JoinReturned ==
    \A t \in Task : co[t] = "back" /\ op[t] = "join" =>
        (ret[t] = 0 <=> Children(t) = {})

Counting == JoinCounts /\ Unborn
JoinWaits == JoinNotStranded /\ JoinWoken /\ JoinReturned
JoinInv == Counting /\ OpInside /\ OnlyReaped /\ JoinWaits

---------------------------------------------------------------------------
(* Children *)

LEMMA TasksFinite ==
    ASSUME TaskAssumption
    PROVE  IsFiniteSet(Task)
  BY FS_Interval DEF Task, TaskAssumption

LEMMA ChildrenFinite ==
    ASSUME TaskAssumption, NEW t \in Task
    PROVE  IsFiniteSet(Children(t)) /\ Cardinality(Children(t)) \in Nat
  <1>1. Children(t) \subseteq Task
    BY DEF Children
  <1> QED BY <1>1, TasksFinite, FS_Subset, FS_CardinalityType

\* The children stay the same when no task is created or ends.
LEMMA ChildrenStay ==
    ASSUME t_parent' = t_parent,
           \A u \in Task : co'[u] \in {"none", "dead"} <=> co[u] \in {"none", "dead"},
           NEW t \in Task
    PROVE  Children(t)' = Children(t)
  BY DEF Children, Alive

\* What the end of a task leaves of the children of another.
LEMMA ChildEnds ==
    ASSUME IInv, NEW t \in Task, Alive(t), co' = [co EXCEPT ![t] = "dead"],
           t_parent' = t_parent, NEW p \in Task
    PROVE  /\ Children(p)' = Children(p) \ {t}
           /\ t \in Children(p) <=> t_parent[t] = p
  BY DEF Children, Alive, IInv, TypeOK

\* The children of a task and their number after one was added.
LEMMA ChildStarts ==
    ASSUME IInv, TaskAssumption, NEW t \in Task, NEW c \in Task, co[c] = "none",
           co' = [co EXCEPT ![c] = "fresh"],
           NEW p \in Task \cup {None}, t_parent' = [t_parent EXCEPT ![c] = p]
    PROVE  /\ Children(t)' = IF t = p THEN Children(t) \cup {c} ELSE Children(t)
           /\ t = p => Cardinality(Children(t)') = Cardinality(Children(t)) + 1
  <1>1. c \notin Children(t)
    BY DEF Children, Alive
  <1>2. Children(t)' = IF t = p THEN Children(t) \cup {c} ELSE Children(t)
    BY DEF Children, Alive, IInv, TypeOK
  <1> QED BY <1>1, <1>2, ChildrenFinite, FS_AddElement

\* The number of children tells whether there are any.
LEMMA NoChildren ==
    ASSUME TaskAssumption, NEW t \in Task
    PROVE  Cardinality(Children(t)) = 0 <=> Children(t) = {}
  BY ChildrenFinite, FS_EmptySet

---------------------------------------------------------------------------
(* The building blocks *)

\* A step that creates and ends no task, and changes nothing about the tasks
\* that are joining, preserves the invariant.
LEMMA JoinFrame ==
    ASSUME JoinInv, t_parent' = t_parent, t_nsubs' = t_nsubs,
           \A u \in Task :
               /\ co'[u] \in {"none", "dead"} <=> co[u] \in {"none", "dead"}
               /\ co'[u] = "none" <=> co[u] = "none"
               /\ op'[u] = "join" <=> op[u] = "join"
               /\ op'[u] # "none" => co'[u] \in {"parked", "back", "handling"}
               /\ t_sig'[u] \/ co'[u] = "handling" => sighandler'[u] = "exit"
               /\ op[u] = "join" =>
                      /\ co'[u] = co[u] /\ t_prev'[u] = t_prev[u] /\ ret'[u] = ret[u]
                      /\ t_sig'[u] = t_sig[u] /\ t_err'[u] = t_err[u]
    PROVE  JoinInv'
  <1>1. \A u \in Task : Children(u)' = Children(u)
    BY ChildrenStay
  <1>2. Counting'
    BY <1>1 DEF JoinInv, Counting, JoinCounts, Unborn, Alive
  <1>3. OpInside' /\ OnlyReaped'
    BY DEF OpInside, OnlyReaped
  <1>4. JoinWaits'
    BY <1>1 DEF JoinInv, JoinWaits, JoinNotStranded, JoinWoken, JoinReturned
  <1> QED BY <1>2, <1>3, <1>4 DEF JoinInv

\* The end of a task: its parent's count stays right, and a parent waiting
\* for the last child is woken.
LEMMA JoinDie ==
    ASSUME IInv, JoinInv, TaskAssumption, NEW t \in Task, current = t,
           NEW subs \in [Task -> Int], \A u \in Task \ {t} : subs[u] = t_nsubs[u],
           die(t, subs)
    PROVE  JoinInv'
  <1> DEFINE p == t_parent[t]
  <1>1. /\ co[t] \in {"run", "back", "handling"} /\ Alive(t)
        /\ \A u \in Task \ {t} : co[u] \notin {"run", "back", "handling"}
    BY DEF IInv, OnePlace, Alive
  <1>2. /\ co' = [co EXCEPT ![t] = "dead"]
        /\ op' = [op EXCEPT ![t] = "none"]
        /\ ret' = [ret EXCEPT ![t] = 0]
        /\ t_nsubs' = IF p = None THEN subs ELSE [subs EXCEPT ![p] = count_off(@)]
        /\ UNCHANGED <<t_sig, sighandler, t_parent>>
    BY DEF die
  <1>3. p \in Task \cup {None} /\ (p # None => p # t /\ p \in Task)
    BY DEF IInv, TypeOK, ParentsExist
  <1>4. \A u \in Task : /\ Children(u)' = Children(u) \ {t}
                        /\ t \in Children(u) <=> p = u
    BY <1>1, <1>2, ChildEnds
  <1>5. \A u \in Task : /\ u # p => Children(u)' = Children(u)
                        /\ u = p => /\ Cardinality(Children(u)) > 0
                                    /\ Cardinality(Children(u)') = Cardinality(Children(u)) - 1
    <2> SUFFICES ASSUME NEW u \in Task
                 PROVE  /\ u # p => Children(u)' = Children(u)
                        /\ u = p => /\ Cardinality(Children(u)) > 0
                                    /\ Cardinality(Children(u)') = Cardinality(Children(u)) - 1
      OBVIOUS
    <2>1. CASE u # p
      <3>1. Children(u)' = Children(u) \ {t} /\ t \notin Children(u)
        BY <2>1, <1>4
      <3>2. Children(u) \ {t} = Children(u)
        BY <3>1
      <3> QED BY <2>1, <3>1, <3>2
    <2>2. CASE u = p
      <3>1. t \in Children(u) /\ Children(u)' = Children(u) \ {t}
        BY <2>2, <1>4
      <3>2. /\ IsFiniteSet(Children(u)) /\ Cardinality(Children(u)) \in Nat
        BY ChildrenFinite
      <3>4. Cardinality(Children(u)') = Cardinality(Children(u)) - 1
        BY <3>1, <3>2, FS_RemoveElement
      <3>3. Cardinality(Children(u)) # 0
        BY <3>1, NoChildren
      <3> QED BY <2>2, <3>2, <3>3, <3>4
    <2> QED BY <2>1, <2>2
  <1>6. \A u \in Task : /\ u # t => co'[u] = co[u] /\ op'[u] = op[u] /\ ret'[u] = ret[u]
                        /\ u = t => co'[u] = "dead" /\ op'[u] = "none"
    BY <1>2 DEF IInv, TypeOK
  <1>7. \A u \in Task : u # t =>
            t_nsubs'[u] = IF u = p THEN count_off(t_nsubs[u]) ELSE t_nsubs[u]
    BY <1>2, <1>3 DEF Task, None
  <1>8. Counting'
    <2>1. ASSUME NEW u \in Task, u # t, Alive(u)
          PROVE  t_nsubs'[u] = IF op[u] = "join" THEN -Cardinality(Children(u)')
                                                 ELSE Cardinality(Children(u)')
      <3>1. /\ Cardinality(Children(u)) \in Nat
            /\ t_nsubs[u] = IF op[u] = "join" THEN -Cardinality(Children(u))
                                              ELSE Cardinality(Children(u))
        BY <2>1, ChildrenFinite DEF JoinInv, Counting, JoinCounts
      <3> QED BY <2>1, <3>1, <1>5, <1>7 DEF count_off
    <2>2. JoinCounts'
      BY <2>1, <1>6 DEF JoinCounts, Alive
    <2>3. \A u \in Task : co[u] = "none" => u # p /\ u # t
      BY <1>1, <1>3 DEF IInv, ParentsExist, Task, None
    <2>4. Unborn'
      BY <2>3, <1>6, <1>7 DEF Unborn, JoinInv, Counting
    <2> QED BY <2>2, <2>4 DEF Counting
  <1>9. OpInside' /\ OnlyReaped'
    BY <1>2, <1>6 DEF JoinInv, OpInside, OnlyReaped
  <1>10. ASSUME NEW u \in Task, op'[u] = "join"
         PROVE  /\ u # t /\ co'[u] = "parked" /\ op[u] = "join" /\ co[u] = "parked"
                /\ ~t_prev'[u] => Children(u)' # {}
                /\ t_prev'[u] /\ ~t_sig'[u] => t_err'[u] = 0 /\ Children(u)' = {}
    <2>1. u # t /\ co'[u] = "parked" /\ op[u] = "join" /\ co[u] = "parked"
      BY <1>1, <1>6, <1>10 DEF JoinInv, OpInside
    <2>2. /\ t_nsubs[u] = -Cardinality(Children(u))
          /\ Cardinality(Children(u)) \in Nat
          /\ Cardinality(Children(u)) = 0 <=> Children(u) = {}
      BY <2>1, ChildrenFinite, NoChildren DEF JoinInv, Counting, JoinCounts, Alive
    <2>3. CASE u # p
      <3>1. t_prev'[u] = t_prev[u] /\ t_err'[u] = t_err[u] /\ t_sig'[u] = t_sig[u]
        BY <2>3, <1>2, <1>3
        DEF die, push_ready, linked_into, readyVars, IInv, TypeOK
      <3> QED BY <2>1, <2>3, <3>1, <1>5 DEF JoinInv, JoinWaits, JoinNotStranded, JoinWoken
    <2>4. CASE u = p
      <3>1. /\ p # None /\ subs[p] = t_nsubs[u]
            /\ Cardinality(Children(u)') = Cardinality(Children(u)) - 1
            /\ Cardinality(Children(u)) > 0
        BY <2>1, <2>4, <1>3, <1>5 DEF Task, None
      <3>2. Children(u) # {}
        BY <2>2, <3>1
      <3>3. t_prev[u] => t_sig[u]
        BY <2>1, <3>2 DEF JoinInv, JoinWaits, JoinWoken
      <3>4. Cardinality(Children(u)') = 0 <=> Children(u)' = {}
        <4>1. IsFiniteSet(Children(u)')
          BY <1>4, ChildrenFinite, FS_RemoveElement
        <4> QED BY <4>1, FS_EmptySet
      <3>5. CASE Cardinality(Children(u)) = 1
        <4>1. push_ready(u, 0)
          BY <2>2, <2>4, <3>1, <3>5 DEF die, LastChild
        <4>2. t_prev'[u] /\ (~t_prev[u] => t_err'[u] = 0)
          BY <4>1 DEF push_ready, Linked, readyVars, IInv, TypeOK
        <4> QED BY <2>1, <3>1, <3>3, <3>4, <3>5, <4>2, <1>2
      <3>6. CASE Cardinality(Children(u)) # 1
        <4>1. UNCHANGED readyVars
          BY <2>2, <2>4, <3>1, <3>6 DEF die, LastChild
        <4> QED BY <2>1, <2>2, <3>1, <3>3, <3>4, <3>6, <4>1, <1>2 DEF readyVars
      <3> QED BY <3>5, <3>6
    <2> QED BY <2>1, <2>3, <2>4
  <1>11. JoinWaits'
    BY <1>10 DEF JoinWaits, JoinNotStranded, JoinWoken, JoinReturned
  <1> QED BY <1>8, <1>9, <1>11 DEF JoinInv

\* do_yield of any call but join_tasks.
LEMMA JoinYieldOther ==
    ASSUME IInv, JoinInv, TaskAssumption, NEW t \in Task, current = t, co[t] = "run",
           NEW o, o # "join", NEW sec, NEW obj, do_yield(t, o, sec, obj, t_nsubs)
    PROVE  JoinInv'
  <1>1. CASE t_sig[t]
    BY <1>1, JoinDie DEF do_yield, IInv, TypeOK
  <1>2. CASE ~t_sig[t]
    <2>1. /\ co' = [co EXCEPT ![t] = "parked"]
          /\ op' = [op EXCEPT ![t] = o]
          /\ UNCHANGED <<t_nsubs, t_prev, t_err, ret, t_sig, sighandler, t_parent>>
      BY <1>2 DEF do_yield
    <2>2. op[t] = "none"
      BY DEF JoinInv, OpInside
    <2> QED BY <2>1, <2>2, JoinFrame DEF IInv, TypeOK, JoinInv, OpInside, OnlyReaped
  <1> QED BY <1>1, <1>2

\* do_yield of join_tasks.
LEMMA JoinYieldJoin ==
    ASSUME IInv, JoinInv, TaskAssumption, NEW t \in Task, InProgram(t),
           NEW sec, join_tasks(t, sec)
    PROVE  JoinInv'
  <1>1. /\ current = t /\ co[t] = "run" /\ t_nsubs[t] > 0 /\ op[t] = "none"
        /\ do_yield(t, "join", sec, t_blockedby[t], joining(t))
    BY DEF InProgram, join_tasks, JoinInv, OpInside
  <1>2. CASE t_sig[t]
    <2>1. /\ joining(t) \in [Task -> Int]
          /\ \A u \in Task \ {t} : joining(t)[u] = t_nsubs[u]
      BY DEF joining, IInv, TypeOK
    <2> QED BY <1>1, <1>2, <2>1, JoinDie DEF do_yield
  <1>3. CASE ~t_sig[t]
    <2>1. /\ co' = [co EXCEPT ![t] = "parked"]
          /\ op' = [op EXCEPT ![t] = "join"]
          /\ t_nsubs' = [t_nsubs EXCEPT ![t] = -@]
          /\ UNCHANGED <<t_prev, t_err, ret, t_sig, sighandler, t_parent>>
      BY <1>1, <1>3 DEF do_yield, joining
    <2>2. \A u \in Task : Children(u)' = Children(u)
      BY <1>1, <2>1, ChildrenStay DEF IInv, TypeOK
    <2>3. t_nsubs[t] = Cardinality(Children(t)) /\ Cardinality(Children(t)) # 0
      BY <1>1 DEF JoinInv, Counting, JoinCounts, Alive
    <2>4. Children(t) # {} /\ ~t_prev[t]
      BY <1>1, <2>3, NoChildren DEF IInv, OnePlace
    <2>5. \A u \in Task : /\ u # t => /\ co'[u] = co[u] /\ op'[u] = op[u]
                                      /\ t_nsubs'[u] = t_nsubs[u]
                          /\ u = t => /\ co'[u] = "parked" /\ op'[u] = "join"
                                      /\ t_nsubs'[u] = -t_nsubs[u]
      BY <2>1 DEF IInv, TypeOK
    <2>6. Counting'
      BY <1>1, <2>2, <2>3, <2>5 DEF JoinInv, Counting, JoinCounts, Unborn, Alive
    <2>7. OpInside' /\ OnlyReaped'
      BY <2>1, <2>5 DEF JoinInv, OpInside, OnlyReaped
    <2>8. JoinWaits'
      BY <2>1, <2>2, <2>4, <2>5
      DEF JoinInv, JoinWaits, JoinNotStranded, JoinWoken, JoinReturned
    <2> QED BY <2>6, <2>7, <2>8 DEF JoinInv
  <1> QED BY <1>2, <1>3

\* join_tasks returns and makes a count that is still negative positive.
LEMMA JoinReturns ==
    ASSUME IInv, JoinInv, TaskAssumption, NEW t \in Task, join_return(t)
    PROVE  JoinInv'
  <1>1. /\ current = t /\ co[t] = "back" /\ op[t] = "join"
        /\ co' = [co EXCEPT ![t] = "run"]
        /\ op' = [op EXCEPT ![t] = "none"]
        /\ ret' = [ret EXCEPT ![t] = 0]
        /\ t_nsubs' = [t_nsubs EXCEPT ![t] = IF @ < 0 THEN -@ ELSE @]
        /\ UNCHANGED <<readyVars, t_sig, sighandler, t_parent>>
    BY DEF join_return
  <1>2. \A u \in Task : Children(u)' = Children(u)
    BY <1>1, ChildrenStay DEF IInv, TypeOK
  <1>3. t_nsubs[t] = -Cardinality(Children(t)) /\ Cardinality(Children(t)) \in Nat
    BY <1>1, ChildrenFinite DEF JoinInv, Counting, JoinCounts, Alive
  <1>4. \A u \in Task : /\ u # t => /\ co'[u] = co[u] /\ op'[u] = op[u] /\ ret'[u] = ret[u]
                                    /\ t_nsubs'[u] = t_nsubs[u]
                        /\ u = t => /\ co'[u] = "run" /\ op'[u] = "none"
                                    /\ t_nsubs'[u] = Cardinality(Children(u))
    BY <1>1, <1>3 DEF IInv, TypeOK
  <1>5. Counting'
    BY <1>1, <1>2, <1>4 DEF JoinInv, Counting, JoinCounts, Unborn, Alive
  <1>6. OpInside' /\ OnlyReaped'
    BY <1>1, <1>4 DEF JoinInv, OpInside, OnlyReaped
  <1>7. JoinWaits'
    BY <1>1, <1>2, <1>4
    DEF JoinInv, JoinWaits, JoinNotStranded, JoinWoken, JoinReturned, readyVars
  <1> QED BY <1>5, <1>6, <1>7 DEF JoinInv

\* Any other call returns.
LEMMA JoinReturnOther ==
    ASSUME IInv, JoinInv, NEW t \in Task, co[t] = "back", op[t] # "join",
           co' = [co EXCEPT ![t] = "run"], op' = [op EXCEPT ![t] = "none"],
           ret' = [ret EXCEPT ![t] = 0],
           UNCHANGED <<readyVars, taskVars>>
    PROVE  JoinInv'
  BY JoinFrame DEF IInv, TypeOK, JoinInv, OpInside, OnlyReaped, readyVars, taskVars

\* A task other than a joining one is made ready.
LEMMA JoinPush ==
    ASSUME IInv, JoinInv, NEW p \in Task, op[p] # "join", NEW e \in Errno,
           push_ready(p, e), UNCHANGED <<taskVars, coVars>>
    PROVE  JoinInv'
  <1>1. \A u \in Task : u # p => t_prev'[u] = t_prev[u] /\ t_err'[u] = t_err[u]
    BY DEF push_ready, readyVars, IInv, TypeOK
  <1> QED BY <1>1, JoinFrame DEF JoinInv, OpInside, OnlyReaped, taskVars, coVars

\* A task is created, as a joinable child or not.
LEMMA JoinStart ==
    ASSUME IInv, JoinInv, TaskAssumption, NEW t \in Task, current = t, co[t] = "run",
           NEW c \in Task, NEW j \in BOOLEAN, start_task(t, c, j)
    PROVE  JoinInv'
  <1> DEFINE p == IF j THEN t ELSE None
  <1>1. /\ co[c] = "none" /\ c # t /\ p \in Task \cup {None} /\ (p # None => p = t)
        /\ co' = [co EXCEPT ![c] = "fresh"]
        /\ t_parent' = [t_parent EXCEPT ![c] = p]
        /\ t_nsubs' = IF j THEN [t_nsubs EXCEPT ![t] = @ + 1] ELSE t_nsubs
        /\ push_ready(c, 0)
        /\ UNCHANGED <<t_sig, sighandler, op, ret>>
    BY DEF start_task, NextId
  <1>2. \A u \in Task : /\ Children(u)' = IF u = p THEN Children(u) \cup {c} ELSE Children(u)
                        /\ u = p => Cardinality(Children(u)') = Cardinality(Children(u)) + 1
    BY <1>1, ChildStarts
  <1>3. op[c] = "none" /\ op[t] = "none" /\ t_nsubs[c] = 0
    BY <1>1 DEF JoinInv, Counting, Unborn, OpInside
  <1>4. \A u \in Task : /\ u # c => co'[u] = co[u]
                        /\ u = c => co'[u] = "fresh"
                        /\ t_nsubs'[u] = IF u = p THEN t_nsubs[u] + 1 ELSE t_nsubs[u]
    BY <1>1 DEF IInv, TypeOK, Task, None
  <1>5. Children(c)' = {} /\ Cardinality(Children(c)') = 0
    <2>1. Children(c) = {}
      BY <1>1 DEF Children, IInv, ParentsExist, Task, None
    <2> QED BY <1>1, <1>2, <2>1, FS_EmptySet DEF Task, None
  <1>6. Counting'
    <2>1. ASSUME NEW u \in Task, Alive(u)'
          PROVE  t_nsubs'[u] = IF op[u] = "join" THEN -Cardinality(Children(u)')
                                                 ELSE Cardinality(Children(u)')
      <3>1. CASE u = c
        BY <3>1, <1>1, <1>3, <1>4, <1>5 DEF Task, None
      <3>2. CASE u # c
        <4>1. t_nsubs[u] = IF op[u] = "join" THEN -Cardinality(Children(u))
                                             ELSE Cardinality(Children(u))
          BY <2>1, <3>2, <1>4 DEF JoinInv, Counting, JoinCounts, Alive
        <4> QED BY <4>1, <1>1, <1>2, <1>3, <1>4 DEF Task, None
      <3> QED BY <3>1, <3>2
    <2>2. JoinCounts'
      BY <2>1, <1>1 DEF JoinCounts
    <2>3. Unborn'
      BY <1>1, <1>4 DEF JoinInv, Counting, Unborn, Task, None
    <2> QED BY <2>2, <2>3 DEF Counting
  <1>7. OpInside' /\ OnlyReaped'
    BY <1>1, <1>3, <1>4 DEF JoinInv, OpInside, OnlyReaped
  <1>8. \A u \in Task : op[u] = "join" =>
            /\ u # c /\ u # p /\ co'[u] = co[u] /\ Children(u)' = Children(u)
            /\ t_prev'[u] = t_prev[u] /\ t_err'[u] = t_err[u]
    BY <1>1, <1>2, <1>3, <1>4 DEF push_ready, readyVars, IInv, TypeOK
  <1>9. JoinWaits'
    BY <1>1, <1>8 DEF JoinInv, JoinWaits, JoinNotStranded, JoinWoken, JoinReturned
  <1> QED BY <1>6, <1>7, <1>9 DEF JoinInv

\* A task is reaped.
LEMMA JoinReap ==
    ASSUME IInv, JoinInv, NEW t \in Task, current = t, NEW v \in Task, reap_task(t, v)
    PROVE  JoinInv'
  <1>1. /\ v # t /\ t_sig' = [t_sig EXCEPT ![v] = TRUE]
        /\ sighandler' = [sighandler EXCEPT ![v] = "exit"]
        /\ push_ready(v, 0)
        /\ UNCHANGED <<t_parent, t_nsubs, co, op, ret>>
    BY DEF reap_task, coVars
  <1>2. /\ \A u \in Task : u # v => /\ t_prev'[u] = t_prev[u] /\ t_err'[u] = t_err[u]
                                    /\ t_sig'[u] = t_sig[u] /\ sighandler'[u] = sighandler[u]
        /\ t_prev'[v] /\ t_sig'[v] /\ sighandler'[v] = "exit"
    BY <1>1 DEF push_ready, Linked, readyVars, IInv, TypeOK
  <1>3. \A u \in Task : Children(u)' = Children(u)
    BY <1>1, ChildrenStay
  <1>4. Counting' /\ OpInside' /\ OnlyReaped'
    BY <1>1, <1>2, <1>3
    DEF JoinInv, Counting, JoinCounts, Unborn, OpInside, OnlyReaped, Alive
  <1>5. JoinWaits'
    BY <1>1, <1>2, <1>3
    DEF JoinInv, JoinWaits, JoinNotStranded, JoinWoken, JoinReturned
  <1> QED BY <1>4, <1>5 DEF JoinInv

\* What do_resume leaves of the invariant: a task that was woken in
\* join_tasks, or timed out there, comes back with what it was woken with.
LEMMA JoinResume ==
    ASSUME IInv, JoinInv, NEW t \in Task, current = None, NEW e \in Errno,
           co[t] \in {"fresh", "parked", "dead"}, do_resume(t, e),
           co[t] = "parked" /\ op[t] = "join" /\ ~t_sig[t] => (e = 0 <=> Children(t) = {}),
           \A u \in Task \ {t} : t_prev'[u] = t_prev[u] /\ t_err'[u] = t_err[u],
           UNCHANGED <<sighandler, t_parent, t_nsubs>>
    PROVE  JoinInv'
  <1>1. /\ op' = op
        /\ co[t] = "dead" => co'[t] = "dead"
        /\ co[t] # "dead" => co'[t] \in {"run", "back", "handling"}
        /\ co[t] = "fresh" => co'[t] = "run"
        /\ co[t] = "parked" /\ t_sig[t] => co'[t] = "handling"
        /\ co[t] = "parked" /\ ~t_sig[t] => co'[t] = "back" /\ ret'[t] = e
        /\ t_sig'[t] => t_sig[t]
        /\ \A u \in Task \ {t} : co'[u] = co[u] /\ ret'[u] = ret[u] /\ t_sig'[u] = t_sig[u]
    <2>1. CASE co[t] = "dead"
      BY <2>1 DEF do_resume, coVars
    <2>2. CASE co[t] = "fresh"
      BY <2>2 DEF do_resume, IInv, TypeOK
    <2>3. CASE co[t] = "parked"
      BY <2>3 DEF do_resume, IInv, TypeOK
    <2> QED BY <2>1, <2>2, <2>3
  <1>2. \A u \in Task : Children(u)' = Children(u)
    <2>1. \A u \in Task : co'[u] \in {"none", "dead"} <=> co[u] \in {"none", "dead"}
      BY <1>1
    <2> QED BY <2>1, ChildrenStay
  <1>3. Counting' /\ OpInside'
    BY <1>1, <1>2 DEF JoinInv, Counting, JoinCounts, Unborn, OpInside, Alive
  <1>4. OnlyReaped'
    BY <1>1 DEF JoinInv, OnlyReaped
  <1>5. JoinWaits'
    BY <1>1, <1>2 DEF JoinInv, JoinWaits, JoinNotStranded, JoinWoken, JoinReturned
  <1> QED BY <1>3, <1>4, <1>5 DEF JoinInv

LEMMA JoinResumeNext ==
    ASSUME IInv, JoinInv, resume_next
    PROVE  JoinInv'
  <1> DEFINE t == Head(batch)
  <1>1. /\ current = None /\ batch # <<>> /\ batch \in Seq(Task)
        /\ t_prev' = [t_prev EXCEPT ![t] = FALSE]
        /\ do_resume(t, t_err[t])
        /\ UNCHANGED <<t_err, sighandler, t_parent, t_nsubs>>
    BY DEF resume_next, Idle, IInv, TypeOK
  <1>2. t \in Task
    BY <1>1, HeadTailProperties
  <1>3. t_prev[t]
    <2>1. Queue \in Seq(Task) /\ Queue # <<>> /\ Head(Queue) = t
      BY <1>1, ConcatProperties, HeadTailOfConcat DEF Queue, IInv, TypeOK
    <2>2. Within(t, Queue)
      BY <2>1, TailRemoves DEF IInv, ListsMatch
    <2> QED BY <1>2, <2>2 DEF IInv, ListsMatch
  <1>4. co[t] \in {"fresh", "parked", "dead"} /\ t_err[t] \in Errno
    BY <1>2, <1>3 DEF IInv, TypeOK, OnePlace
  <1>5. co[t] = "parked" /\ op[t] = "join" /\ ~t_sig[t] =>
            (t_err[t] = 0 <=> Children(t) = {})
    BY <1>2, <1>3 DEF JoinInv, JoinWaits, JoinWoken
  <1>6. \A u \in Task \ {t} : t_prev'[u] = t_prev[u] /\ t_err'[u] = t_err[u]
    BY <1>1 DEF IInv, TypeOK
  <1> QED BY <1>1, <1>2, <1>4, <1>5, <1>6, JoinResume

LEMMA JoinExpire ==
    ASSUME IInv, JoinInv, NEW t \in Task, expire(t)
    PROVE  JoinInv'
  <1>1. /\ current = None /\ rb_key[t] # NoTimer
        /\ t_err' = [t_err EXCEPT ![t] = ETIMEDOUT]
        /\ do_resume(t, ETIMEDOUT)
        /\ UNCHANGED <<t_prev, sighandler, t_parent, t_nsubs>>
    BY DEF expire, Idle, IsNearest, Timers
  <1>2. co[t] = "parked" /\ ~t_prev[t]
    BY <1>1 DEF IInv, OnePlace
  <1>3. op[t] = "join" => Children(t) # {}
    BY <1>2 DEF JoinInv, JoinWaits, JoinNotStranded
  <1>4. \A u \in Task \ {t} : t_prev'[u] = t_prev[u] /\ t_err'[u] = t_err[u]
    BY <1>1 DEF IInv, TypeOK
  <1>5. ETIMEDOUT \in Errno /\ ETIMEDOUT # 0
    BY DEF ETIMEDOUT, Errno
  <1> QED BY <1>1, <1>2, <1>3, <1>4, <1>5, JoinResume

---------------------------------------------------------------------------
(* The steps of the scheduler *)

LEMMA JoinYieldStep ==
    ASSUME IInv, JoinInv, TaskAssumption, NEW t \in Task, Yield(t)
    PROVE  JoinInv'
  <1>1. ASSUME NEW s \in Secs, InProgram(t), sleep(t, s)
        PROVE  JoinInv'
    BY <1>1, JoinYieldOther DEF sleep, InProgram
  <1>2. CASE InProgram(t) /\ \E s \in JoinSecs : join_tasks(t, s)
    BY <1>2, JoinYieldJoin
  <1>3. CASE InProgram(t) /\ (join_assert(t) \/ finish(t))
    BY <1>3, JoinDie DEF InProgram, join_assert, finish, IInv, TypeOK
  <1>4. CASE handler_exit(t)
    BY <1>4, JoinDie DEF handler_exit, IInv, TypeOK
  <1>5. CASE sleep_return(t)
    BY <1>5, JoinReturnOther DEF sleep_return
  <1>6. CASE join_return(t)
    BY <1>6, JoinReturns
  <1>7. CASE handler_return(t)
    BY <1>7 DEF handler_return, JoinInv, OnlyReaped
  <1> QED BY <1>1, <1>2, <1>3, <1>4, <1>5, <1>6, <1>7 DEF Yield

LEMMA JoinCallStep ==
    ASSUME IInv, JoinInv, TaskAssumption, Killers = {}, NEW t \in Task, Call(t)
    PROVE  JoinInv'
  <1>1. current = t /\ co[t] = "run"
    BY DEF Call, Running, JoinInv, OnlyReaped
  <1> QED BY <1>1, JoinStart, JoinReap DEF Call, kill_task

LEMMA JoinLoopStep ==
    ASSUME IInv, JoinInv, Loop \/ update_time \/ UNCHANGED vars
    PROVE  JoinInv'
  <1>1. CASE resume_next \/ \E t \in Task : expire(t)
    BY <1>1, JoinResumeNext, JoinExpire
  <1>2. CASE ~(resume_next \/ \E t \in Task : expire(t))
    <2>1. UNCHANGED <<t_prev, t_err, taskVars, coVars>>
      BY <1>2 DEF Loop, detach_list, resume_list_done, modules_done, calc_waittime,
                  poll_events, poll_nothing, expire_done, update_time, vars, readyVars
    <2> QED BY <2>1, JoinFrame DEF taskVars, coVars, JoinInv, OpInside, OnlyReaped
  <1> QED BY <1>1, <1>2

LEMMA JoinInit ==
    ASSUME Init, TaskAssumption
    PROVE  JoinInv
  <1>1. \A t \in Task : Children(t) = {} /\ Cardinality(Children(t)) = 0
    <2>1. \A t \in Task : Children(t) = {}
      BY DEF Init, Children, Task, None
    <2> QED BY <2>1, FS_EmptySet
  <1>2. \A t \in Task : /\ co[t] \in {"fresh", "none"} /\ op[t] = "none" /\ t_nsubs[t] = 0
                        /\ ~t_sig[t]
    BY DEF Init
  <1> QED BY <1>1, <1>2
          DEF JoinInv, Counting, JoinCounts, Unborn, OpInside, OnlyReaped, JoinWaits,
              JoinNotStranded, JoinWoken, JoinReturned

LEMMA JoinInvHolds ==
    ASSUME Killers = {}
    PROVE  Spec => []JoinInv
  <1>1. Init => JoinInv
    BY JoinInit, TaskAssumption
  <1>2. IInv /\ JoinInv /\ [Next]_vars => JoinInv'
    <2> SUFFICES ASSUME IInv, JoinInv, [Next]_vars
                 PROVE  JoinInv'
      OBVIOUS
    <2>1. ASSUME NEW t \in Task, Yield(t) \/ Call(t)
          PROVE  JoinInv'
      BY <2>1, JoinYieldStep, JoinCallStep, TaskAssumption
    <2> QED BY <2>1, JoinLoopStep DEF Next, aborted
  <1> QED BY <1>1, <1>2, InvariantHolds, PTL DEF Spec

\* join_tasks of any number of tasks: unless somebody uses kill_task, the end
\* of the last child wakes a parent that waits for it, however children end
\* (by return, error or reap_task) and whatever time-outs pass meanwhile.
THEOREM JoinsNotStranded ==
    ASSUME Killers = {}
    PROVE  Spec => []JoinNotStranded
  <1>1. JoinInv => JoinNotStranded
    BY DEF JoinInv, JoinWaits
  <1> QED BY <1>1, JoinInvHolds, PTL

\* Unless somebody uses kill_task, t_nsubs counts the live joinable children
\* at every moment, and join_tasks returns 0 if and only if none is left.
THEOREM JoinsExact ==
    ASSUME Killers = {}
    PROVE  Spec => []JoinExact
  <1>1. JoinInv => JoinExact
    BY DEF JoinInv, Counting, JoinWaits, JoinReturned, JoinExact
  <1> QED BY <1>1, JoinInvHolds, PTL

---------------------------------------------------------------------------
(* What modules that extend Tasklet need: blocking calls of their own, as   *)
(* long as nobody uses kill_task or reap_task                               *)

\* Nobody uses kill_task or reap_task.
Peaceful == Killers = {} /\ Reapers = {}

NoSignals == \A t \in Task : ~t_sig[t] /\ co[t] # "handling"

\* A wait that nobody has ended yet, or that has timed out.
Unserved(t) == \/ co[t] = "parked" /\ ~t_prev[t]
               \/ co[t] = "back" /\ ret[t] = ETIMEDOUT

\* A wait that was ended with e.
Ended(t, e) == \/ co[t] = "parked" /\ t_prev[t] /\ t_err[t] = e
               \/ co[t] = "back" /\ ret[t] = e

\* What a step of the scheduler may do to a task inside of a blocking call of
\* another module: leave it alone, or resume it.
Aside(u) ==
    /\ op'[u] = op[u] /\ t_blockedby'[u] = t_blockedby[u]
    /\ rb_key'[u] \in {rb_key[u], NoTimer}
    /\ \/ /\ co'[u] = co[u] /\ ret'[u] = ret[u]
          /\ t_prev'[u] = t_prev[u] /\ t_err'[u] = t_err[u]
       \/ /\ co[u] = "parked" /\ co'[u] = "back"
          /\ \/ t_prev[u] /\ ret'[u] = t_err[u]
             \/ ~t_prev[u] /\ rb_key[u] # NoTimer /\ ret'[u] = ETIMEDOUT

OwnCall == {"none", "sleep", "join"}

AllAside ==
    \A u \in Task :
        /\ op[u] \notin OwnCall => Aside(u)
        /\ op'[u] \notin OwnCall => op'[u] = op[u]
        /\ t_blockedby'[u] \in {t_blockedby[u], NoObj}

\* A suspended task is made ready.
LEMMA ParkedPushed ==
    ASSUME IInv, NEW p \in Task, NEW e \in Errno, co[p] = "parked", push_ready(p, e),
           UNCHANGED <<taskVars, coVars, loopVars, now>>
    PROVE  IInv'
  <1>1. /\ ready' \in Seq(Task) /\ batch' \in Seq(Task)
        /\ t_err' \in [Task -> Errno]
        /\ t_blockedby' \in [Task -> Obj \cup {NoObj}]
        /\ t_prev' = [t_prev EXCEPT ![p] = TRUE]
        /\ rb_key' = [rb_key EXCEPT ![p] = NoTimer]
        /\ ListsMatch'
    BY PushReady DEF IInv, loopVars
  <1>2. TypeOK'
    BY <1>1 DEF IInv, TypeOK, taskVars, coVars, loopVars
  <1>3. OnePlace'
    BY <1>1 DEF IInv, TypeOK, OnePlace, taskVars, coVars
  <1>4. SignalsPending' /\ NoSignalInside' /\ ParentsExist'
    BY <1>1 DEF IInv, TypeOK, SignalsPending, NoSignalInside, ParentsExist, taskVars, coVars
  <1> QED BY <1>1, <1>2, <1>3, <1>4 DEF IInv

\* A blocking call returns to the program; it may set what the task is
\* blocked by.
LEMMA CallLeft ==
    ASSUME IInv, NEW t \in Task, current = t, co[t] = "back",
           co' = [co EXCEPT ![t] = "run"], op' = [op EXCEPT ![t] = "none"],
           till' = [till EXCEPT ![t] = NoTimer], ret' = [ret EXCEPT ![t] = 0],
           t_blockedby' \in [Task -> Obj \cup {NoObj}],
           UNCHANGED <<ready, t_prev, t_err, rb_key, taskVars, current, loopVars, now>>
    PROVE  IInv'
  <1>1. ListsMatch'
    BY ListsStay DEF IInv, loopVars
  <1>2. TypeOK'
    <2>1. co' \in [Task -> CoState] /\ op' \in [Task -> OpName]
      BY DEF IInv, TypeOK, CoState, OpName
    <2>2. till' \in [Task -> Nat \cup {NoTimer}] /\ ret' \in [Task -> Errno]
      BY DEF IInv, TypeOK, Errno
    <2> QED BY <2>1, <2>2 DEF IInv, TypeOK, taskVars, loopVars
  <1>3. OnePlace'
    BY DEF IInv, TypeOK, OnePlace, taskVars
  <1>4. SignalsPending' /\ NoSignalInside' /\ ParentsExist'
    BY DEF IInv, TypeOK, SignalsPending, NoSignalInside, ParentsExist, taskVars
  <1> QED BY <1>1, <1>2, <1>3, <1>4 DEF IInv

LEMMA CallReturns ==
    ASSUME IInv, NEW t \in Task, current = t, co[t] = "back",
           co' = [co EXCEPT ![t] = "run"], op' = [op EXCEPT ![t] = "none"],
           till' = [till EXCEPT ![t] = NoTimer], ret' = [ret EXCEPT ![t] = 0],
           UNCHANGED <<readyVars, taskVars, current, loopVars, now>>
    PROVE  IInv'
  BY CallLeft DEF readyVars, IInv, TypeOK

\* Only the end of the last child of a task that waits in join_tasks makes
\* another task ready.
LEMMA DieAside ==
    ASSUME IInv, JoinInv, NoSignals, TaskAssumption, NEW t \in Task, current = t,
           co[t] = "run", die(t, t_nsubs)
    PROVE  AllAside /\ NoSignals'
  <1>1. op[t] = "none"
    BY DEF JoinInv, OpInside
  <1>2. /\ co' = [co EXCEPT ![t] = "dead"]
        /\ op' = [op EXCEPT ![t] = "none"]
        /\ ret' = [ret EXCEPT ![t] = 0]
        /\ UNCHANGED t_sig
        /\ \/ UNCHANGED readyVars
           \/ t_parent[t] # None /\ push_ready(t_parent[t], 0)
    BY DEF die
  <1>3. \A u \in Task : op[u] \notin OwnCall =>
            /\ t_prev'[u] = t_prev[u] /\ t_err'[u] = t_err[u]
            /\ rb_key'[u] = rb_key[u] /\ t_blockedby'[u] = t_blockedby[u]
    <2> SUFFICES ASSUME NEW u \in Task, op[u] \notin OwnCall
                 PROVE  /\ t_prev'[u] = t_prev[u] /\ t_err'[u] = t_err[u]
                        /\ rb_key'[u] = rb_key[u] /\ t_blockedby'[u] = t_blockedby[u]
      OBVIOUS
    <2>1. Alive(u) /\ op[u] # "join"
      BY DEF JoinInv, OpInside, Alive, OwnCall
    <2>2. t_nsubs[u] = Cardinality(Children(u)) /\ Cardinality(Children(u)) \in Nat
      BY <2>1, ChildrenFinite DEF JoinInv, Counting, JoinCounts
    <2>3. CASE u = t_parent[t]
      <3>1. UNCHANGED readyVars
        BY <2>2, <2>3 DEF die, LastChild
      <3> QED BY <3>1 DEF readyVars
    <2>4. CASE u # t_parent[t]
      <3>1. t_parent[t] # None => t_parent[t] \in Task
        BY DEF IInv, TypeOK
      <3> QED BY <1>2, <2>4, <3>1
              DEF push_ready, disarm, readyVars, IInv, TypeOK
    <2> QED BY <2>3, <2>4
  <1>4. \A u \in Task : t_blockedby'[u] \in {t_blockedby[u], NoObj}
    <2>1. t_parent[t] # None => t_parent[t] \in Task
      BY DEF IInv, TypeOK
    <2> QED BY <1>2, <2>1 DEF push_ready, readyVars, IInv, TypeOK
  <1>5. \A u \in Task : u # t => co'[u] = co[u] /\ op'[u] = op[u] /\ ret'[u] = ret[u]
    BY <1>2 DEF IInv, TypeOK
  <1>6. co'[t] = "dead" /\ op'[t] = "none"
    BY <1>2 DEF IInv, TypeOK
  <1>7. AllAside
    BY <1>1, <1>3, <1>4, <1>5, <1>6 DEF AllAside, Aside, OwnCall
  <1>8. NoSignals'
    BY <1>2, <1>5, <1>6 DEF NoSignals
  <1> QED BY <1>7, <1>8

LEMMA YieldAside ==
    ASSUME IInv, JoinInv, NoSignals, TaskAssumption, NEW t \in Task, Yield(t)
    PROVE  AllAside /\ NoSignals'
  <1>1. CASE InProgram(t) /\ (join_assert(t) \/ finish(t))
    BY <1>1, DieAside DEF InProgram, join_assert, finish
  <1>2. ASSUME NEW o \in {"sleep", "join"}, NEW sec, NEW subs,
               InProgram(t), do_yield(t, o, sec, t_blockedby[t], subs)
        PROVE  AllAside /\ NoSignals'
    <2>1. co[t] = "run" /\ op[t] = "none"
      BY <1>2 DEF InProgram, JoinInv, OpInside
    <2>2. /\ co' = [co EXCEPT ![t] = "parked"]
          /\ op' = [op EXCEPT ![t] = o]
          /\ rb_key' = [rb_key EXCEPT ![t] = timer_key(sec)]
          /\ t_blockedby' = [t_blockedby EXCEPT ![t] = t_blockedby[t]]
          /\ UNCHANGED <<t_prev, t_err, ret, t_sig>>
      BY <1>2 DEF do_yield, NoSignals
    <2>3. /\ \A u \in Task : u # t =>
                 co'[u] = co[u] /\ op'[u] = op[u] /\ rb_key'[u] = rb_key[u]
          /\ \A u \in Task : t_blockedby'[u] = t_blockedby[u]
          /\ co'[t] = "parked" /\ op'[t] = o
      BY <2>2 DEF IInv, TypeOK
    <2> QED BY <2>1, <2>2, <2>3 DEF AllAside, Aside, OwnCall, NoSignals
  <1>3. CASE InProgram(t) /\ \/ \E s \in Secs : sleep(t, s)
                             \/ \E s \in JoinSecs : join_tasks(t, s)
    BY <1>2, <1>3 DEF sleep, join_tasks
  <1>4. CASE sleep_return(t) \/ join_return(t)
    <2>1. /\ co[t] = "back" /\ op[t] \in OwnCall
          /\ co' = [co EXCEPT ![t] = "run"]
          /\ op' = [op EXCEPT ![t] = "none"]
          /\ ret' = [ret EXCEPT ![t] = 0]
          /\ UNCHANGED <<readyVars, t_sig>>
      BY <1>4 DEF sleep_return, join_return, taskVars, OwnCall
    <2>2. /\ \A u \in Task : u # t => co'[u] = co[u] /\ op'[u] = op[u] /\ ret'[u] = ret[u]
          /\ co'[t] = "run" /\ op'[t] = "none"
      BY <2>1 DEF IInv, TypeOK
    <2> QED BY <2>1, <2>2 DEF AllAside, Aside, OwnCall, NoSignals, readyVars
  <1>5. ~handler_return(t) /\ ~handler_exit(t)
    BY DEF handler_return, handler_exit, NoSignals
  <1> QED BY <1>1, <1>3, <1>4, <1>5 DEF Yield

LEMMA CallAside ==
    ASSUME IInv, JoinInv, NoSignals, Peaceful, NEW t \in Task, Call(t)
    PROVE  AllAside /\ NoSignals'
  <1>1. PICK c \in Task, j \in BOOLEAN : start_task(t, c, j)
    BY DEF Call, kill_task, reap_task, Peaceful
  <1>2. /\ co[c] = "none" /\ co' = [co EXCEPT ![c] = "fresh"] /\ push_ready(c, 0)
        /\ UNCHANGED <<op, ret, t_sig>>
    BY <1>1 DEF start_task, NextId
  <1>3. op[c] = "none"
    BY <1>2 DEF JoinInv, Counting, Unborn
  <1>4. \A u \in Task : u # c =>
            /\ t_prev'[u] = t_prev[u] /\ t_err'[u] = t_err[u]
            /\ rb_key'[u] = rb_key[u] /\ t_blockedby'[u] = t_blockedby[u]
    BY <1>2 DEF push_ready, disarm, readyVars, IInv, TypeOK
  <1>5. t_blockedby'[c] \in {t_blockedby[c], NoObj}
    BY <1>2 DEF push_ready, readyVars, IInv, TypeOK
  <1>6. co'[c] = "fresh" /\ \A u \in Task : u # c => co'[u] = co[u]
    BY <1>2 DEF IInv, TypeOK
  <1> QED BY <1>2, <1>3, <1>4, <1>5, <1>6 DEF AllAside, Aside, OwnCall, NoSignals

\* A wait that was served ends with the code it was served with, and one
\* that was not ends with ETIMEDOUT.
LEMMA ResumeAside ==
    ASSUME IInv, JoinInv, NoSignals, resume_next \/ \E t \in Task : expire(t)
    PROVE  AllAside /\ NoSignals'
  <1>1. CASE resume_next
    <2>1. batch # <<>> /\ batch \in Seq(Task)
      BY <1>1 DEF resume_next, IInv, TypeOK
    <2>2. PICK t \in Task : t = Head(batch)
      BY <2>1, HeadTailProperties
    <2>3. t_prev[t]
      <3>1. Queue \in Seq(Task) /\ Queue # <<>> /\ Head(Queue) = t
        BY <2>1, <2>2, ConcatProperties, HeadTailOfConcat DEF Queue, IInv, TypeOK
      <3>2. Within(t, Queue)
        BY <3>1, TailRemoves DEF IInv, ListsMatch
      <3> QED BY <3>2 DEF IInv, ListsMatch
    <2>4. /\ t_prev' = [t_prev EXCEPT ![t] = FALSE]
          /\ do_resume(t, t_err[t])
          /\ UNCHANGED <<t_err, rb_key, t_blockedby>>
      BY <1>1, <2>2 DEF resume_next
    <2>5. /\ UNCHANGED <<op, t_sig>>
          /\ \A u \in Task \ {t} : co'[u] = co[u] /\ ret'[u] = ret[u] /\ t_prev'[u] = t_prev[u]
          /\ co[t] = "parked" => co'[t] = "back" /\ ret'[t] = t_err[t]
          /\ co[t] # "parked" => co'[t] \in {"run", "dead"}
      BY <2>3, <2>4 DEF do_resume, coVars, NoSignals, IInv, TypeOK, OnePlace
    <2>6. op[t] \notin OwnCall => co[t] = "parked"
      BY <2>3 DEF JoinInv, OpInside, IInv, OnePlace, OwnCall
    <2> QED BY <2>3, <2>4, <2>5, <2>6 DEF AllAside, Aside, NoSignals
  <1>2. ASSUME NEW t \in Task, expire(t)
        PROVE  AllAside /\ NoSignals'
    <2>1. /\ rb_key[t] # NoTimer
          /\ rb_key' = [rb_key EXCEPT ![t] = NoTimer]
          /\ t_err' = [t_err EXCEPT ![t] = ETIMEDOUT]
          /\ do_resume(t, ETIMEDOUT)
          /\ UNCHANGED <<t_prev, t_blockedby>>
      BY <1>2 DEF expire, IsNearest, Timers
    <2>2. co[t] = "parked" /\ ~t_prev[t]
      BY <2>1 DEF IInv, OnePlace
    <2>3. /\ UNCHANGED <<op, t_sig>>
          /\ co' = [co EXCEPT ![t] = "back"] /\ ret' = [ret EXCEPT ![t] = ETIMEDOUT]
      BY <2>1, <2>2 DEF do_resume, NoSignals
    <2>4. /\ \A u \in Task \ {t} : /\ co'[u] = co[u] /\ ret'[u] = ret[u]
                                   /\ t_err'[u] = t_err[u] /\ rb_key'[u] = rb_key[u]
          /\ co'[t] = "back" /\ ret'[t] = ETIMEDOUT /\ rb_key'[t] = NoTimer
      BY <2>1, <2>3 DEF IInv, TypeOK
    <2> QED BY <2>1, <2>2, <2>3, <2>4 DEF AllAside, Aside, NoSignals
  <1> QED BY <1>1, <1>2

\* All steps of the scheduler.
LEMMA StepAside ==
    ASSUME IInv, JoinInv, NoSignals, Peaceful, TaskAssumption,
           \/ \E t \in Task : Yield(t) \/ Call(t)
           \/ Loop \/ update_time \/ UNCHANGED vars
    PROVE  IInv' /\ JoinInv' /\ AllAside /\ NoSignals'
  <1>1. IInv'
    <2>1. [Next]_vars
      BY DEF Next
    <2> QED BY <2>1, NextInvariant
  <1>2. JoinInv'
    BY JoinYieldStep, JoinCallStep, JoinLoopStep DEF Peaceful
  <1>3. AllAside /\ NoSignals'
    <2>1. CASE \E t \in Task : Yield(t) \/ Call(t)
      BY <2>1, YieldAside, CallAside
    <2>2. CASE resume_next \/ \E t \in Task : expire(t)
      BY <2>2, ResumeAside
    <2>3. CASE \/ Loop /\ ~(resume_next \/ \E t \in Task : expire(t))
               \/ update_time \/ UNCHANGED vars
      <3>1. UNCHANGED <<t_prev, t_err, rb_key, t_blockedby, taskVars, coVars>>
        BY <2>3 DEF Loop, detach_list, resume_list_done, modules_done, calc_waittime,
                    poll_events, poll_nothing, expire_done, update_time, vars, readyVars
      <3> QED BY <3>1 DEF taskVars, coVars, NoSignals, AllAside, Aside
    <2> QED BY <2>1, <2>2, <2>3
  <1> QED BY <1>1, <1>2, <1>3

\* A waiting task is made ready.
LEMMA Served ==
    ASSUME IInv, NEW u \in Task, co[u] = "parked", ~t_prev[u], push_ready(u, 0),
           UNCHANGED coVars
    PROVE  /\ op' = op /\ ret' = ret
           /\ Ended(u, 0)' /\ ~Unserved(u)' /\ ~Ended(u, EPIPE)'
           /\ \A v \in Task \ {u} : /\ Unserved(v)' <=> Unserved(v)
                                    /\ Ended(v, 0)' <=> Ended(v, 0)
                                    /\ Ended(v, EPIPE)' <=> Ended(v, EPIPE)
  <1>1. /\ t_prev' = [t_prev EXCEPT ![u] = TRUE]
        /\ t_err' = [t_err EXCEPT ![u] = 0]
        /\ co' = co /\ op' = op /\ ret' = ret
    BY DEF push_ready, Linked, coVars
  <1>2. t_prev'[u] /\ t_err'[u] = 0
    BY <1>1 DEF IInv, TypeOK
  <1>3. \A v \in Task \ {u} : t_prev'[v] = t_prev[v] /\ t_err'[v] = t_err[v]
    BY <1>1 DEF IInv, TypeOK
  <1> QED BY <1>1, <1>2, <1>3 DEF Ended, Unserved, EPIPE, ETIMEDOUT

\* Nobody's wait changes.
LEMMA NoneServed ==
    ASSUME UNCHANGED <<readyVars, coVars>>
    PROVE  /\ op' = op /\ ret' = ret
           /\ \A v \in Task : /\ Unserved(v)' <=> Unserved(v)
                              /\ Ended(v, 0)' <=> Ended(v, 0)
                              /\ Ended(v, EPIPE)' <=> Ended(v, EPIPE)
  BY DEF Ended, Unserved, readyVars, coVars

\* A task blocks.
LEMMA Waits ==
    ASSUME IInv, JoinInv, NoSignals, NEW t \in Task, Running(t), NEW o, NEW sec, NEW obj,
           do_yield(t, o, sec, obj, t_nsubs)
    PROVE  /\ op' = [op EXCEPT ![t] = o] /\ NoSignals'
           /\ Unserved(t)' /\ ~Ended(t, 0)' /\ ~Ended(t, EPIPE)'
           /\ \A v \in Task \ {t} : /\ Unserved(v)' <=> Unserved(v)
                                    /\ Ended(v, 0)' <=> Ended(v, 0)
                                    /\ Ended(v, EPIPE)' <=> Ended(v, EPIPE)
  <1>1. current = t /\ co[t] = "run" /\ ~t_prev[t] /\ ~t_sig[t]
    BY DEF Running, NoSignals, IInv, OnePlace
  <1>2. /\ co' = [co EXCEPT ![t] = "parked"]
        /\ op' = [op EXCEPT ![t] = o]
        /\ UNCHANGED <<t_prev, t_err, ret, t_sig>>
    BY <1>1 DEF do_yield
  <1>3. co'[t] = "parked" /\ \A v \in Task \ {t} : co'[v] = co[v]
    BY <1>2 DEF IInv, TypeOK
  <1> QED BY <1>1, <1>2, <1>3 DEF Ended, Unserved, NoSignals

\* A blocking call returns, by success or not.
LEMMA WaitOver ==
    ASSUME IInv, NoSignals, NEW t \in Task, co[t] = "back",
           co' = [co EXCEPT ![t] = "run"], op' = [op EXCEPT ![t] = "none"],
           ret' = [ret EXCEPT ![t] = 0], UNCHANGED <<readyVars, taskVars>>
    PROVE  /\ op'[t] = "none" /\ NoSignals'
           /\ \A v \in Task \ {t} : /\ op'[v] = op[v]
                                    /\ Unserved(v)' <=> Unserved(v)
                                    /\ Ended(v, 0)' <=> Ended(v, 0)
                                    /\ Ended(v, EPIPE)' <=> Ended(v, EPIPE)
           /\ Unserved(t) <=> ret[t] = ETIMEDOUT
           /\ \A e : Ended(t, e) <=> ret[t] = e
  <1>1. /\ co'[t] = "run" /\ op'[t] = "none"
        /\ \A v \in Task \ {t} : co'[v] = co[v] /\ ret'[v] = ret[v] /\ op'[v] = op[v]
        /\ UNCHANGED <<t_prev, t_err, t_sig>>
    BY DEF IInv, TypeOK, readyVars, taskVars
  <1> QED BY <1>1 DEF Ended, Unserved, NoSignals

\* A wait is in one state only.
LEMMA OneOutcome ==
    ASSUME NEW u
    PROVE  /\ Unserved(u) => ~Ended(u, 0) /\ ~Ended(u, EPIPE)
           /\ Ended(u, 0) => ~Ended(u, EPIPE)
  BY DEF Unserved, Ended, EPIPE, ETIMEDOUT

\* Steps that leave the tasks' control states alone.
LEMMA ServeScheduled ==
    ASSUME IInv, JoinInv, NoSignals, UNCHANGED <<taskVars, coVars, loopVars, now>>,
           \/ UNCHANGED readyVars
           \/ \E u \in Task : /\ co[u] = "parked" /\ op[u] # "join" /\ push_ready(u, 0)
    PROVE  IInv' /\ JoinInv' /\ NoSignals'
  <1>1. CASE UNCHANGED readyVars
    <2>1. UNCHANGED vars
      BY <1>1 DEF vars
    <2>2. IInv' /\ JoinInv'
      BY <2>1, LoopStep, JoinLoopStep
    <2> QED BY <2>2 DEF NoSignals, taskVars, coVars
  <1>2. CASE \E u \in Task : co[u] = "parked" /\ op[u] # "join" /\ push_ready(u, 0)
    <2>1. IInv' /\ JoinInv'
      BY <1>2, ParkedPushed, JoinPush DEF Errno
    <2> QED BY <2>1 DEF NoSignals, taskVars, coVars
  <1> QED BY <1>1, <1>2

---------------------------------------------------------------------------
(* Waking tasks from an event handler or a call.  Lemmas that speak of
   NoSignals are about programs in which nobody uses kill_task or reap_task. *)

\* A new element at the end of the second of two lists.
LEMMA BehindBoth ==
    ASSUME NEW S, NEW b \in Seq(S), NEW q \in Seq(S), NEW x \in S,
           NoDup(b \o q), ~Within(x, b \o q)
    PROVE  /\ q \o <<x>> \in Seq(S)
           /\ NoDup(b \o (q \o <<x>>))
           /\ \A y : Within(y, b \o (q \o <<x>>)) <=> Within(y, b \o q) \/ y = x
  <1>1. <<x>> \in Seq(S)
    OBVIOUS
  <1>2. b \o q \in Seq(S) /\ q \o <<x>> \in Seq(S)
    BY <1>1, ConcatProperties
  <1>3. b \o (q \o <<x>>) = Append(b \o q, x)
    <2>1. (b \o q) \o <<x>> = b \o (q \o <<x>>)
      BY <1>1, ConcatAssociative
    <2> QED BY <1>2, <2>1, AppendIsConcat
  <1>4. /\ NoDup(Append(b \o q, x))
        /\ \A y : Within(y, Append(b \o q, x)) <=> Within(y, b \o q) \/ y = x
    BY <1>2, AppendNew
  <1> QED BY <1>2, <1>3, <1>4

\* The tasks that wake_both puts into the ready list.
Roused(t, u) == {v \in {t, u} \ {None} : ~t_prev[v]}

\* Tasks enter the ready list, once each, and lose their timers; the others
\* stay as they are.
LEMMA WakeBoth ==
    ASSUME IInv, NEW t \in Task \cup {None}, NEW e \in Errno,
           NEW u \in Task \cup {None}, NEW f \in Errno, wake_both(t, e, u, f), batch' = batch
    PROVE  /\ ready' \in Seq(Task) /\ ListsMatch'
           /\ t_prev' \in [Task -> BOOLEAN] /\ t_err' \in [Task -> Errno]
           /\ rb_key' \in [Task -> Nat \cup {NoTimer}]
           /\ t_blockedby' \in [Task -> Obj \cup {NoObj}]
           /\ \A v \in Task :
                  /\ t_prev'[v] <=> v \in Roused(t, u) \/ t_prev[v]
                  /\ v \notin Roused(t, u) => /\ t_err'[v] = t_err[v] /\ rb_key'[v] = rb_key[v]
                                              /\ t_blockedby'[v] = t_blockedby[v]
                  /\ v \in Roused(t, u) => /\ t_err'[v] = IF v = t THEN e ELSE f
                                           /\ rb_key'[v] = NoTimer /\ t_blockedby'[v] = NoObj
  <1> DEFINE W == Roused(t, u)
             first == ready \o (IF t \in W THEN <<t>> ELSE <<>>)
             second == first \o (IF u \in W \ {t} THEN <<u>> ELSE <<>>)
  <1>1. W = {v \in {t, u} \ {None} : ~Linked(v)}
    BY DEF Roused, Linked
  <1>2. /\ ready' = second
        /\ t_prev' = [v \in Task |-> v \in W \/ t_prev[v]]
        /\ t_err' = [v \in Task |-> IF v \notin W THEN t_err[v] ELSE IF v = t THEN e ELSE f]
        /\ rb_key' = [v \in Task |-> IF v \in W THEN NoTimer ELSE rb_key[v]]
        /\ t_blockedby' = [v \in Task |-> IF v \in W THEN NoObj ELSE t_blockedby[v]]
    BY <1>1 DEF wake_both
  <1>3. /\ batch \in Seq(Task) /\ ready \in Seq(Task) /\ NoDup(batch \o ready)
        /\ \A v \in Task : t_prev[v] <=> Within(v, batch \o ready)
    BY DEF IInv, TypeOK, ListsMatch, Queue
  <1>4. \A v \in W : v \in Task /\ ~t_prev[v] /\ v \in {t, u}
    BY DEF Roused
  <1> HIDE DEF W
  <1>5. /\ first \in Seq(Task) /\ NoDup(batch \o first)
        /\ \A y : Within(y, batch \o first) <=> Within(y, batch \o ready) \/ (t \in W /\ y = t)
    <2>1. CASE t \in W
      BY <1>3, <1>4, <2>1, BehindBoth
    <2>2. CASE t \notin W
      <3>1. first = ready
        BY <1>3, <2>2, ConcatEmptySeq
      <3> QED BY <1>3, <2>2, <3>1
    <2> QED BY <2>1, <2>2
  <1> HIDE DEF first
  <1>6. /\ second \in Seq(Task) /\ NoDup(batch \o second)
        /\ \A y : Within(y, batch \o second) <=>
                      Within(y, batch \o first) \/ (u \in W \ {t} /\ y = u)
    <2>1. CASE u \in W \ {t}
      <3>1. u \in Task /\ ~Within(u, batch \o first)
        BY <1>3, <1>4, <1>5, <2>1
      <3> QED BY <1>3, <1>5, <2>1, <3>1, BehindBoth
    <2>2. CASE u \notin W \ {t}
      <3>1. second = first
        BY <1>5, <2>2, ConcatEmptySeq
      <3> QED BY <1>5, <2>2, <3>1
    <2> QED BY <2>1, <2>2
  <1> HIDE DEF second
  <1>7. \A v \in Task : Within(v, batch \o second) <=> Within(v, batch \o ready) \/ v \in W
    BY <1>4, <1>5, <1>6
  <1>8. ListsMatch'
    BY <1>2, <1>3, <1>6, <1>7 DEF ListsMatch, Queue
  <1>9. /\ t_prev' \in [Task -> BOOLEAN] /\ t_err' \in [Task -> Errno]
        /\ rb_key' \in [Task -> Nat \cup {NoTimer}]
        /\ t_blockedby' \in [Task -> Obj \cup {NoObj}]
    <2>1. t_prev' \in [Task -> BOOLEAN]
      BY <1>2 DEF IInv, TypeOK
    <2> QED BY <1>2, <2>1 DEF IInv, TypeOK
  <1> QED BY <1>2, <1>6, <1>8, <1>9 DEF W

\* Waking nobody.
LEMMA NobodyWoken ==
    ASSUME IInv
    PROVE  /\ UNCHANGED readyVars => wake_both(None, 0, None, 0)
           /\ \A e, f : wake_both(None, e, None, f) => UNCHANGED readyVars
  <1>1. ready \in Seq(Task) /\ (ready \o <<>>) \o <<>> = ready
    <2>1. ready \in Seq(Task)
      BY DEF IInv, TypeOK
    <2>2. ready \o <<>> = ready
      BY <2>1, ConcatEmptySeq
    <2> QED BY <2>1, <2>2
  <1>2. {v \in {None, None} \ {None} : ~Linked(v)} = {}
    OBVIOUS
  <1>3. /\ t_prev = [v \in Task |-> v \in {} \/ t_prev[v]]
        /\ t_err = [v \in Task |-> IF v \notin {} THEN t_err[v] ELSE 0]
        /\ rb_key = [v \in Task |-> IF v \in {} THEN NoTimer ELSE rb_key[v]]
        /\ t_blockedby = [v \in Task |-> IF v \in {} THEN NoObj ELSE t_blockedby[v]]
    BY DEF IInv, TypeOK
  <1>4. UNCHANGED readyVars => wake_both(None, 0, None, 0)
    BY <1>1, <1>2, <1>3 DEF wake_both, readyVars
  <1>5. ASSUME NEW e, NEW f, wake_both(None, e, None, f)
        PROVE  UNCHANGED readyVars
    BY <1>1, <1>2, <1>3, <1>5 DEF wake_both, readyVars
  <1> QED BY <1>4, <1>5

\* What a task that runs in a call may do to itself: enter the call's loop,
\* or return from it.
Moves(c) ==
    /\ current = c /\ co[c] \in {"run", "back"} /\ op[c] # "join"
    /\ \E s \in {"run", "back"}, o \in OpName \ {"join"} :
           /\ co' = [co EXCEPT ![c] = s] /\ op' = [op EXCEPT ![c] = o]
           /\ o # "none" => s = "back"
    /\ \/ UNCHANGED <<till, ret>>
       \/ till' = [till EXCEPT ![c] = NoTimer] /\ ret' = [ret EXCEPT ![c] = 0]
    /\ UNCHANGED current

\* A step that wakes suspended tasks, or tasks that have ended, while the
\* running task may enter or leave a call: it keeps the invariants of the
\* scheduler, with task signals about or not.
LEMMA CallsKeep ==
    ASSUME IInv, OpInside,
           NEW t \in Task \cup {None}, NEW e \in Errno,
           NEW u \in Task \cup {None}, NEW f \in Errno, wake_both(t, e, u, f),
           \A v \in {t, u} \ {None} : op[v] # "join" /\ co[v] \in {"parked", "dead"},
           UNCHANGED coVars \/ \E c \in Task : Moves(c),
           UNCHANGED <<taskVars, batch, now>>,
           at' \in {at, "resume_list"}, caller' \in {caller, "events"}
    PROVE  /\ IInv' /\ OpInside' /\ (JoinInv => JoinInv')
           /\ \A v \in Task : co'[v] = "handling" <=> co[v] = "handling"
  <1> DEFINE W == Roused(t, u)
  <1>1. /\ ready' \in Seq(Task) /\ ListsMatch'
        /\ t_prev' \in [Task -> BOOLEAN] /\ t_err' \in [Task -> Errno]
        /\ rb_key' \in [Task -> Nat \cup {NoTimer}]
        /\ t_blockedby' \in [Task -> Obj \cup {NoObj}]
        /\ \A v \in Task :
               /\ t_prev'[v] <=> v \in W \/ t_prev[v]
               /\ v \notin W => t_err'[v] = t_err[v] /\ rb_key'[v] = rb_key[v]
               /\ v \in W => rb_key'[v] = NoTimer
    <2>1. batch' = batch
      OBVIOUS
    <2>2. /\ ready' \in Seq(Task) /\ ListsMatch'
          /\ t_prev' \in [Task -> BOOLEAN] /\ t_err' \in [Task -> Errno]
          /\ rb_key' \in [Task -> Nat \cup {NoTimer}]
          /\ t_blockedby' \in [Task -> Obj \cup {NoObj}]
          /\ \A v \in Task :
                 /\ t_prev'[v] <=> v \in Roused(t, u) \/ t_prev[v]
                 /\ v \notin Roused(t, u) => /\ t_err'[v] = t_err[v] /\ rb_key'[v] = rb_key[v]
                                             /\ t_blockedby'[v] = t_blockedby[v]
                 /\ v \in Roused(t, u) => /\ t_err'[v] = IF v = t THEN e ELSE f
                                          /\ rb_key'[v] = NoTimer /\ t_blockedby'[v] = NoObj
      BY <2>1, WakeBoth
    <2> QED BY <2>2
  <1>2. \A v \in Task : v \in W => op[v] # "join" /\ co[v] \in {"parked", "dead"}
    BY DEF Roused
  <1> HIDE DEF W
  <1>3. /\ co' \in [Task -> CoState] /\ op' \in [Task -> OpName]
        /\ till' \in [Task -> Nat \cup {NoTimer}] /\ ret' \in [Task -> Errno]
        /\ UNCHANGED current
        /\ \A v \in Task :
               /\ op'[v] = "join" <=> op[v] = "join"
               /\ op'[v] # "none" => co'[v] \in {"parked", "back", "handling"}
               /\ co'[v] = "handling" <=> co[v] = "handling"
               /\ \/ co'[v] = co[v] /\ op'[v] = op[v] /\ ret'[v] = ret[v]
                  \/ /\ v = current /\ co[v] \in {"run", "back"} /\ co'[v] \in {"run", "back"}
                     /\ op[v] # "join"
    <2>1. CASE UNCHANGED coVars
      BY <2>1 DEF coVars, IInv, TypeOK, OpInside
    <2>2. CASE \E c \in Task : Moves(c)
      <3>1. PICK c \in Task : Moves(c)
        BY <2>2
      <3>2. PICK s \in {"run", "back"}, o \in OpName \ {"join"} :
                /\ co' = [co EXCEPT ![c] = s] /\ op' = [op EXCEPT ![c] = o]
                /\ o # "none" => s = "back"
        BY <3>1 DEF Moves
      <3>3. /\ till' \in [Task -> Nat \cup {NoTimer}] /\ ret' \in [Task -> Errno]
            /\ \A v \in Task : v # c => ret'[v] = ret[v]
        <4>1. till \in [Task -> Nat \cup {NoTimer}] /\ ret \in [Task -> Errno] /\ 0 \in Errno
          BY DEF IInv, TypeOK, Errno
        <4>2. CASE UNCHANGED <<till, ret>>
          BY <4>1, <4>2
        <4>3. CASE till' = [till EXCEPT ![c] = NoTimer] /\ ret' = [ret EXCEPT ![c] = 0]
          BY <4>1, <4>3
        <4> QED BY <3>1, <4>2, <4>3 DEF Moves
      <3>6. current = c /\ UNCHANGED current /\ co[c] \in {"run", "back"} /\ op[c] # "join"
        BY <3>1 DEF Moves
      <3>4. co' \in [Task -> CoState] /\ op' \in [Task -> OpName]
        BY <3>2 DEF IInv, TypeOK, CoState
      <3>5. \A v \in Task : /\ v # c => co'[v] = co[v] /\ op'[v] = op[v]
                            /\ v = c => co'[v] = s /\ op'[v] = o
        BY <3>2 DEF IInv, TypeOK
      <3> QED BY <3>2, <3>3, <3>4, <3>5, <3>6 DEF OpInside
    <2> QED BY <2>1, <2>2
  <1>4. TypeOK'
    <2>1. at' \in {"resume_list", "modules", "calc_waittime", "poll", "resume_timedout", "aborted"}
      BY DEF IInv, TypeOK
    <2>2. caller' \in {"boot", "modules", "events", "calc", "end"}
      BY DEF IInv, TypeOK
    <2> QED BY <1>1, <1>3, <2>1, <2>2 DEF IInv, TypeOK, taskVars
  <1>5. OnePlace'
    <2>1. \A v \in Task :
              /\ rb_key'[v] # NoTimer => co'[v] = "parked" /\ ~t_prev'[v] /\ ~t_sig'[v]
              /\ t_prev'[v] => co'[v] \in {"fresh", "parked", "dead"}
              /\ co'[v] = "fresh" => t_prev'[v]
              /\ co'[v] \in {"run", "back", "handling"} <=> current' = v
      BY <1>1, <1>2, <1>3 DEF IInv, OnePlace, taskVars
    <2> QED BY <2>1 DEF OnePlace
  <1>6. SignalsPending' /\ NoSignalInside' /\ ParentsExist'
    <2>1. \A v \in Task : /\ co'[v] = "none" <=> co[v] = "none"
                          /\ co'[v] = "parked" <=> co[v] = "parked"
                          /\ t_prev[v] => t_prev'[v]
      BY <1>1, <1>3
    <2>2. t_parent' = t_parent /\ t_sig' = t_sig
      BY DEF taskVars
    <2>3. ParentsExist'
      BY <2>1, <2>2 DEF IInv, TypeOK, ParentsExist
    <2>4. SignalsPending' /\ NoSignalInside'
      BY <1>3, <2>1, <2>2 DEF IInv, SignalsPending, NoSignalInside
    <2> QED BY <2>3, <2>4
  <1>7. ASSUME JoinInv
        PROVE  JoinInv'
    <2>1. t_parent' = t_parent /\ t_nsubs' = t_nsubs /\ t_sig' = t_sig /\ sighandler' = sighandler
      BY DEF taskVars
    <2>2. ASSUME NEW v \in Task
          PROVE  /\ co'[v] \in {"none", "dead"} <=> co[v] \in {"none", "dead"}
                 /\ co'[v] = "none" <=> co[v] = "none"
                 /\ op'[v] = "join" <=> op[v] = "join"
                 /\ op'[v] # "none" => co'[v] \in {"parked", "back", "handling"}
                 /\ t_sig'[v] \/ co'[v] = "handling" => sighandler'[v] = "exit"
                 /\ op[v] = "join" =>
                        /\ co'[v] = co[v] /\ t_prev'[v] = t_prev[v] /\ ret'[v] = ret[v]
                        /\ t_sig'[v] = t_sig[v] /\ t_err'[v] = t_err[v]
      <3>1. op[v] = "join" => v \notin W
        BY <1>2
      <3>2. /\ t_prev'[v] \in BOOLEAN /\ t_prev[v] \in BOOLEAN
        BY <1>1 DEF IInv, TypeOK
      <3>3. t_sig'[v] \/ co'[v] = "handling" => sighandler'[v] = "exit"
        BY <1>3, <1>7, <2>1 DEF JoinInv, OnlyReaped
      <3> QED BY <1>1, <1>3, <2>1, <3>1, <3>2, <3>3
    <2> QED BY <1>7, <2>1, <2>2, JoinFrame
  <1>8. OpInside'
    BY <1>3 DEF OpInside
  <1> QED BY <1>3, <1>4, <1>1, <1>5, <1>6, <1>7, <1>8 DEF IInv

\* A step of a channel: it may wake two tasks, and the running task may enter
\* or leave a call.
LEMMA ChannelStep ==
    ASSUME IInv, JoinInv, NoSignals,
           NEW t \in Task \cup {None}, NEW e \in Errno,
           NEW u \in Task \cup {None}, NEW f \in Errno, wake_both(t, e, u, f),
           \A v \in {t, u} \ {None} : op[v] \notin OwnCall /\ v # current,
           UNCHANGED coVars \/ \E c \in Task : Moves(c),
           UNCHANGED <<taskVars, batch, now>>,
           at' \in {at, "resume_list"}, caller' \in {caller, "events"}
    PROVE  IInv' /\ JoinInv' /\ NoSignals'
  <1>1. \A v \in {t, u} \ {None} : op[v] # "join" /\ co[v] \in {"parked", "dead"}
    BY DEF JoinInv, OpInside, NoSignals, IInv, OnePlace, OwnCall
  <1>2. /\ IInv' /\ (JoinInv => JoinInv')
        /\ \A v \in Task : co'[v] = "handling" <=> co[v] = "handling"
    BY <1>1, CallsKeep DEF JoinInv
  <1>3. NoSignals'
    BY <1>2 DEF NoSignals, taskVars
  <1> QED BY <1>2, <1>3

\* How such a step changes the waits of the tasks that it leaves alone.
LEMMA WaitsSeen ==
    ASSUME IInv, JoinInv, NoSignals,
           NEW t \in Task \cup {None}, NEW e \in Errno,
           NEW u \in Task \cup {None}, NEW f \in Errno, wake_both(t, e, u, f),
           \A v \in {t, u} \ {None} : op[v] \notin OwnCall /\ v # current,
           batch' = batch, UNCHANGED coVars \/ \E c \in Task : Moves(c),
           NEW v \in Task, v # current \/ UNCHANGED coVars
    PROVE  /\ op'[v] = op[v] /\ co'[v] = co[v] /\ ret'[v] = ret[v]
           /\ t_prev'[v] <=> t_prev[v] \/ v \in {t, u}
           /\ \A x : Ended(v, x)' <=> \/ Ended(v, x)
                                      \/ /\ v \in {t, u} /\ ~t_prev[v]
                                         /\ x = IF v = t THEN e ELSE f
  <1>1. op'[v] = op[v] /\ co'[v] = co[v] /\ ret'[v] = ret[v]
    <2>1. CASE UNCHANGED coVars
      BY <2>1 DEF coVars
    <2>2. CASE \E c \in Task : Moves(c) /\ v # c
      <3>1. PICK c \in Task : Moves(c) /\ v # c
        BY <2>2
      <3>2. PICK s \in {"run", "back"}, o \in OpName \ {"join"} :
                co' = [co EXCEPT ![c] = s] /\ op' = [op EXCEPT ![c] = o]
        BY <3>1 DEF Moves
      <3>3. ret' = ret \/ ret' = [ret EXCEPT ![c] = 0]
        BY <3>1 DEF Moves
      <3> QED BY <3>1, <3>2, <3>3 DEF IInv, TypeOK
    <2> QED BY <2>1, <2>2 DEF Moves
  <1>2. /\ t_prev'[v] <=> v \in Roused(t, u) \/ t_prev[v]
        /\ v \notin Roused(t, u) => t_err'[v] = t_err[v]
        /\ v \in Roused(t, u) => t_err'[v] = IF v = t THEN e ELSE f
    BY WakeBoth
  <1>3. v \in Roused(t, u) <=> v \in {t, u} /\ ~t_prev[v]
    BY DEF Roused, Task, None
  <1>4. v \in {t, u} => co[v] = "parked"
    <2>1. v # None
      BY DEF Task, None
    <2>2. v \in {t, u} => op[v] \notin OwnCall /\ v # current
      BY <2>1
    <2> QED BY <2>2 DEF JoinInv, OpInside, NoSignals, IInv, OnePlace, OwnCall
  <1>5. t_prev[v] \in BOOLEAN
    BY DEF IInv, TypeOK
  <1> QED BY <1>1, <1>2, <1>3, <1>4, <1>5 DEF Ended

\* A task that has come back into a call waits again.
LEMMA WaitsAgain ==
    ASSUME IInv, JoinInv, NoSignals, TaskAssumption, NEW t \in Task, current = t,
           co[t] \in {"run", "back"}, op[t] # "join", NEW o \in OpName \ OwnCall, NEW sec \in Int,
           NEW obj \in Obj \cup {NoObj}, do_yield(t, o, sec, obj, t_nsubs),
           UNCHANGED <<loopVars, now>>
    PROVE  /\ IInv' /\ JoinInv' /\ NoSignals'
           /\ op' = [op EXCEPT ![t] = o] /\ co' = [co EXCEPT ![t] = "parked"]
           /\ current' = None /\ UNCHANGED <<ret, t_prev, t_err>>
  <1>1. IInv'
    BY DoYield DEF IInv, TypeOK, loopVars
  <1>2. /\ co' = [co EXCEPT ![t] = "parked"] /\ op' = [op EXCEPT ![t] = o]
        /\ current' = None
        /\ UNCHANGED <<t_nsubs, t_prev, t_err, ret, t_sig, sighandler, t_parent>>
    BY DEF do_yield, NoSignals
  <1>3. JoinInv'
    BY <1>2, JoinFrame DEF IInv, TypeOK, JoinInv, OpInside, NoSignals, OwnCall
  <1>4. NoSignals'
    BY <1>2 DEF NoSignals, IInv, TypeOK
  <1> QED BY <1>1, <1>2, <1>3, <1>4
============================================================================
