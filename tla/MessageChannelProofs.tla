------------------------ MODULE MessageChannelProofs ------------------------
(***************************************************************************)
(* Proofs about MessageChannel, for any capacities, any number of tasks    *)
(* and messages and any time-outs, as long as no task uses kill_task or    *)
(* reap_task: the safety invariants, and that the channel implements       *)
(* MessageFifo.                                                            *)
(*                                                                         *)
(* The order of the module: the inductive invariant; push_all; the steps   *)
(* of the scheduler that leave the channel alone; the ring as a sequence   *)
(* of messages; the order of the messages; who is in which list; what      *)
(* becomes of the messages; one lemma per step of the channel; the         *)
(* theorems.                                                               *)
(***************************************************************************)
EXTENDS MessageChannel, TaskletProofs

---------------------------------------------------------------------------
(* The inductive invariant *)

\* The slot of message k of the buffer, counted from 0.
Slot(k) == IF ch_rcursor + k <= ch_cap THEN ch_rcursor + k ELSE ch_rcursor + k - ch_cap

\* A slot's content, and what t_svcreq holds.
Stored == 0..MaxMsg

\* Types, and ch_wcursor follows from the other two counters.
StoreOK ==
    /\ ch_cap \in Nat
    /\ ch_num \in -1..ch_cap
    /\ ch_rcursor \in Nat \ {0} /\ (ch_cap > 0 => ch_rcursor <= ch_cap)
    /\ Open => ch_wcursor = Slot(ch_num)
    /\ ch_msgring \in [1..ch_cap -> Stored]
    /\ ch_rtaskq \in Seq(Task) /\ ch_wtaskq \in Seq(Task)
    /\ t_svcreq \in [Task -> Stored]
    /\ sending \in [Task -> Stored]
    /\ sent \in 0..MaxMsg

\* The lists hold just the tasks whose waits nobody has ended, the readers
\* only when there is nothing to read, the writers only when the buffer is
\* full; and every wait that was ended was ended by success or by close.
QueuesOK ==
    /\ NoDup(ch_rtaskq) /\ NoDup(ch_wtaskq)
    /\ \A t \in Task : Within(t, ch_rtaskq) <=> op[t] = "read" /\ Unserved(t)
    /\ \A t \in Task : Within(t, ch_wtaskq) <=> op[t] = "write" /\ Unserved(t)
    /\ ~Open => ch_rtaskq = <<>> /\ ch_wtaskq = <<>>
    /\ ch_rtaskq # <<>> => ch_num = 0 /\ ch_wtaskq = <<>>
    /\ ch_wtaskq # <<>> => ch_num = ch_cap
    /\ \A t \in Task : op[t] \in {"read", "write"} =>
           Unserved(t) \/ Ended(t, 0) \/ (Ended(t, EPIPE) /\ ~Open)

\* What was handed out and what is still in the channel, together, is in the
\* order of acceptance.
Ascending(q) == \A i, j \in 1..Len(q) : i < j => q[i] < q[j]
Ordered(n, h, q) ==
    /\ h \in Seq(1..n) /\ q \in Seq(1..n)
    /\ Ascending(h) /\ Ascending(q)
    /\ \A i \in 1..Len(h), j \in 1..Len(q) : h[i] < q[j]

\* What becomes of the message of a write that a task is inside of.
WritesOK ==
    /\ \A t, u \in Task :
           op[t] = "write" /\ op[u] = "write" /\ sending[t] = sending[u] => t = u
    /\ \A t \in Task : op[t] = "write" =>
        /\ sending[t] \in 1..sent
        /\ Unserved(t) => t_svcreq[t] = sending[t]
        /\ Unserved(t) \/ Ended(t, EPIPE) => ~Handed(sending[t])
        /\ Ended(t, 0) => Handed(sending[t]) \/ Contains(Content, sending[t]) \/ ~Open

FailedOK ==
    \A m \in failed : m \in 1..sent /\ ~Handed(m) /\ ~Contains(Content, m)

HeldOK ==
    \A m \in Msg : Handed(m) =>
        Received(m) \/ \E t \in Task : t_svcreq[t] = m /\ op[t] = "read" /\ Ended(t, 0)

ChanInv ==
    /\ StoreOK /\ QueuesOK /\ Ordered(sent, handed, Content)
    /\ WritesOK /\ FailedOK /\ HeldOK

ChIInv == IInv /\ JoinInv /\ NoSignals /\ ChanInv
---------------------------------------------------------------------------
(* push_all *)

\* The elements of a sequence are appended one after the other to another,
\* as long as none of them is in a list.
LEMMA PushedAll ==
    ASSUME NEW S, NEW r \in Seq(S), NEW q \in Seq(S),
           \A i \in 1..Len(q) : ~Linked(q[i])
    PROVE  LET pushed[i \in 0..Len(q)] ==
                   IF i = 0 THEN r
                   ELSE IF Linked(q[i]) THEN pushed[i - 1]
                   ELSE linked_into(pushed[i - 1], q[i])
           IN  pushed[Len(q)] = r \o q
  <1> DEFINE n == Len(q)
             Step(p) == [i \in 0..n |-> IF i = 0 THEN r
                                        ELSE IF Linked(q[i]) THEN p[i - 1]
                                        ELSE linked_into(p[i - 1], q[i])]
             g == [i \in 0..n |-> r \o SubSeq(q, 1, i)]
             p == CHOOSE f : f = Step(f)
  <1>1. n \in Nat
    BY LenProperties
  <1>2. ASSUME NEW i \in 1..n
        PROVE  g[i] = Append(g[i - 1], q[i])
    <2>1. i \in Nat /\ i - 1 \in 0..n /\ i \in 0..n /\ 1 <= i /\ i <= n
      BY <1>1
    <2>2. /\ SubSeq(q, 1, i) = Append(SubSeq(q, 1, i - 1), q[i])
          /\ SubSeq(q, 1, i - 1) \in Seq(S) /\ q[i] \in S
      <3>1. \A k \in 1..n : q[k] \in S
        BY ElementOfSeq
      <3>2. SubSeq(q, 1, i - 1) \in Seq(S)
        BY <2>1, <3>1, SubSeqProperties
      <3>3. SubSeq(q, 1, i) = Append(SubSeq(q, 1, i - 1), q[i])
        BY <1>1, <2>1, SubSeqRecursiveSecond
      <3> QED BY <3>1, <3>2, <3>3
    <2>3. r \o Append(SubSeq(q, 1, i - 1), q[i]) = Append(r \o SubSeq(q, 1, i - 1), q[i])
      BY <2>2
    <2> QED BY <2>1, <2>2, <2>3
  <1>3. g[0] = r
    <2>1. SubSeq(q, 1, 0) = <<>>
      BY <1>1, SubSeqEmpty
    <2> QED BY <1>1, <2>1, ConcatEmptySeq
  <1>4. g = [i \in 0..n |-> g[i]]
    OBVIOUS
  <1> HIDE DEF g
  <1>5. p = Step(p)
    <2>1. ASSUME NEW i \in 0..n
          PROVE  g[i] = Step(g)[i]
      <3>1. CASE i = 0
        BY <1>1, <1>3, <3>1
      <3>2. CASE i # 0
        <4>1. i \in 1..n
          BY <1>1, <3>2
        <4> QED BY <1>2, <3>2, <4>1 DEF linked_into
      <3> QED BY <3>1, <3>2
    <2>2. g = Step(g)
      BY <1>4, <2>1
    <2> QED BY <2>2
  <1> HIDE DEF p
  <1>6. \A i \in 0..n : p[i] = g[i]
    <2> DEFINE T == {i \in 0..n : p[i] # g[i]}
    <2> SUFFICES ASSUME T # {}
                 PROVE  FALSE
      OBVIOUS
    <2>1. T \subseteq Nat
      BY <1>1
    <2>2. PICK i \in T : \A k \in T : i <= k
      BY <2>1, LeastMember
    <2>3. i # 0
      BY <1>1, <1>3, <1>5
    <2>4. i \in 1..n /\ i - 1 \in 0..n /\ i - 1 \notin T
      BY <1>1, <2>1, <2>2, <2>3
    <2>5. p[i] = Append(p[i - 1], q[i])
      <3>1. i \in 0..n /\ i # 0 /\ ~Linked(q[i])
        BY <2>4
      <3>2. p[i] = Step(p)[i]
        BY <1>5
      <3> QED BY <3>1, <3>2 DEF linked_into
    <2>6. p[i] = g[i]
      BY <1>2, <2>4, <2>5
    <2> QED BY <2>2, <2>6
  <1>7. p[n] = r \o q
    <2>1. SubSeq(q, 1, n) = q
      BY SubSeqFull
    <2>2. g[n] = r \o q
      BY <1>1, <2>1 DEF g
    <2>3. n \in 0..n
      BY <1>1
    <2> QED BY <1>6, <2>2, <2>3
  <1> QED BY <1>7 DEF p

\* Appending new elements to a sequence without repetitions.
LEMMA ConcatNew ==
    ASSUME NEW S, NEW a \in Seq(S), NEW b \in Seq(S), NoDup(a), NoDup(b),
           \A y : ~(Within(y, a) /\ Within(y, b))
    PROVE  /\ a \o b \in Seq(S)
           /\ NoDup(a \o b)
           /\ \A y : Within(y, a \o b) <=> Within(y, a) \/ Within(y, b)
  <1> DEFINE m == Len(a)
             n == Len(b)
             c == a \o b
  <1>1. m \in Nat /\ n \in Nat
    BY LenProperties
  <1>2. /\ c \in Seq(S) /\ Len(c) = m + n
        /\ \A i \in 1..(m + n) : c[i] = IF i <= m THEN a[i] ELSE b[i - m]
    BY ConcatProperties
  <1> HIDE DEF m, n, c
  <1>3. /\ \A i \in 1..m : i \in 1..(m + n) /\ c[i] = a[i]
        /\ \A i \in 1..n : i + m \in 1..(m + n) /\ c[i + m] = b[i]
    BY <1>1, <1>2
  <1>4. \A i \in 1..(m + n) : \/ i \in 1..m /\ c[i] = a[i]
                              \/ i - m \in 1..n /\ c[i] = b[i - m]
    BY <1>1, <1>2
  <1>5. \A y : Within(y, c) <=> Within(y, a) \/ Within(y, b)
    <2>1. ASSUME NEW y, Within(y, c)
          PROVE  Within(y, a) \/ Within(y, b)
      <3>1. PICK i \in 1..(m + n) : c[i] = y
        BY <1>2, <2>1 DEF Within
      <3> QED BY <1>4, <3>1 DEF Within, m, n
    <2>2. ASSUME NEW y, Within(y, a)
          PROVE  Within(y, c)
      BY <1>2, <1>3, <2>2 DEF Within, m
    <2>3. ASSUME NEW y, Within(y, b)
          PROVE  Within(y, c)
      <3>1. PICK i \in 1..n : b[i] = y
        BY <2>3 DEF Within, n
      <3> QED BY <1>2, <1>3, <3>1 DEF Within
    <2> QED BY <2>1, <2>2, <2>3
  <1>6. NoDup(c)
    <2> SUFFICES ASSUME NEW i \in 1..(m + n), NEW j \in 1..(m + n), c[i] = c[j]
                 PROVE  i = j
      BY <1>2 DEF NoDup
    <2>1. CASE i \in 1..m /\ c[i] = a[i] /\ j \in 1..m /\ c[j] = a[j]
      BY <2>1 DEF NoDup, m
    <2>2. CASE i - m \in 1..n /\ c[i] = b[i - m] /\ j - m \in 1..n /\ c[j] = b[j - m]
      <3>1. i - m = j - m
        BY <2>2 DEF NoDup, n
      <3> QED BY <1>1, <3>1
    <2>3. ~(i \in 1..m /\ c[i] = a[i] /\ j - m \in 1..n /\ c[j] = b[j - m])
      BY DEF Within, m, n
    <2>4. ~(j \in 1..m /\ c[j] = a[j] /\ i - m \in 1..n /\ c[i] = b[i - m])
      BY DEF Within, m, n
    <2> QED BY <1>4, <2>1, <2>2, <2>3, <2>4
  <1> QED BY <1>2, <1>5, <1>6 DEF c

\* What push_all does when every task of q is in no list.
LEMMA PushAll ==
    ASSUME IInv, NEW q \in Seq(Task), \A t \in Task : Within(t, q) => ~t_prev[t],
           push_all(q)
    PROVE  /\ ready' = ready \o q
           /\ t_prev' = [t \in Task |-> t_prev[t] \/ Within(t, q)]
           /\ t_err' = [t \in Task |-> IF Within(t, q) THEN EPIPE ELSE t_err[t]]
           /\ rb_key' = [t \in Task |-> IF Within(t, q) THEN NoTimer ELSE rb_key[t]]
           /\ t_blockedby' = [t \in Task |-> IF Within(t, q) THEN NoObj ELSE t_blockedby[t]]
  <1>1. \A i \in 1..Len(q) : ~Linked(q[i])
    BY ElementOfSeq DEF Within, Linked
  <1>2. ready' = ready \o q
    <2>1. ready \in Seq(Task)
      BY DEF IInv, TypeOK
    <2> QED BY <1>1, <2>1, PushedAll DEF push_all
  <1>3. \A t \in Task : Contains(q, t) /\ ~Linked(t) <=> Within(t, q)
    BY DEF Contains, Within, Linked
  <1>4. /\ t_prev' = [t \in Task |-> t_prev[t] \/ (Contains(q, t) /\ ~Linked(t))]
        /\ t_err' = [t \in Task |-> IF Contains(q, t) /\ ~Linked(t) THEN EPIPE ELSE t_err[t]]
        /\ rb_key' = [t \in Task |-> IF Contains(q, t) /\ ~Linked(t) THEN NoTimer
                                     ELSE rb_key[t]]
        /\ t_blockedby' = [t \in Task |-> IF Contains(q, t) /\ ~Linked(t) THEN NoObj
                                          ELSE t_blockedby[t]]
    BY DEF push_all
  <1> QED BY <1>2, <1>3, <1>4

\* All tasks of a list of suspended tasks are made ready.
LEMMA AllPushed ==
    ASSUME IInv, NEW q \in Seq(Task), NoDup(q),
           \A t \in Task : Within(t, q) => co[t] = "parked" /\ ~t_prev[t],
           push_all(q), UNCHANGED <<taskVars, coVars, loopVars, now>>
    PROVE  IInv'
  <1>1. /\ ready' = ready \o q
        /\ t_prev' = [t \in Task |-> t_prev[t] \/ Within(t, q)]
        /\ t_err' = [t \in Task |-> IF Within(t, q) THEN EPIPE ELSE t_err[t]]
        /\ rb_key' = [t \in Task |-> IF Within(t, q) THEN NoTimer ELSE rb_key[t]]
        /\ t_blockedby' = [t \in Task |-> IF Within(t, q) THEN NoObj ELSE t_blockedby[t]]
    BY PushAll
  <1>2. ready \in Seq(Task) /\ batch \in Seq(Task)
    BY DEF IInv, TypeOK
  <1>3. Queue' = Queue \o q
    <2>1. batch \o (ready \o q) = (batch \o ready) \o q
      BY <1>2, ConcatAssociative, SMTT(30)
    <2> QED BY <1>1, <2>1 DEF Queue, loopVars
  <1>4. Queue \in Seq(Task) /\ ready' \in Seq(Task)
    BY <1>1, <1>2, ConcatProperties DEF Queue
  <1>5. ListsMatch'
    <2>1. \A y : ~(Within(y, Queue) /\ Within(y, q))
      <3> SUFFICES ASSUME NEW y, Within(y, Queue), Within(y, q)
                   PROVE  FALSE
        OBVIOUS
      <3>1. y \in Task
        BY ElementOfSeq DEF Within
      <3> QED BY <3>1 DEF IInv, ListsMatch
    <2>2. /\ NoDup(Queue \o q)
          /\ \A y : Within(y, Queue \o q) <=> Within(y, Queue) \/ Within(y, q)
      BY <1>4, <2>1, ConcatNew DEF IInv, ListsMatch
    <2> QED BY <1>1, <1>3, <2>2 DEF IInv, ListsMatch
  <1>6. TypeOK'
    <2>1. t_err' \in [Task -> Errno]
      BY <1>1 DEF IInv, TypeOK, Errno
    <2>2. /\ t_prev' \in [Task -> BOOLEAN] /\ rb_key' \in [Task -> Nat \cup {NoTimer}]
          /\ t_blockedby' \in [Task -> Obj \cup {NoObj}]
      <3>1. t_prev' \in [Task -> BOOLEAN]
        BY <1>1, Zenon DEF IInv, TypeOK, Within
      <3> QED BY <1>1, <3>1 DEF IInv, TypeOK
    <2> QED BY <1>4, <2>1, <2>2 DEF IInv, TypeOK, taskVars, coVars, loopVars
  <1>7. \A t \in Task : /\ t_prev'[t] <=> t_prev[t] \/ Within(t, q)
                        /\ rb_key'[t] = IF Within(t, q) THEN NoTimer ELSE rb_key[t]
    BY <1>1
  <1>8. OnePlace'
    BY <1>7 DEF IInv, OnePlace, taskVars, coVars
  <1>9. SignalsPending' /\ NoSignalInside' /\ ParentsExist'
    BY <1>7 DEF IInv, SignalsPending, NoSignalInside, ParentsExist, taskVars, coVars
  <1> QED BY <1>5, <1>6, <1>8, <1>9 DEF IInv

---------------------------------------------------------------------------
(* The scheduler's steps *)

\* A step that neither starts, serves nor ends a wait for the channel.
WaitsStay ==
    \A u \in Task :
        /\ op'[u] = "read" <=> op[u] = "read"
        /\ op'[u] = "write" <=> op[u] = "write"
        /\ op[u] \in {"read", "write"} =>
               /\ Unserved(u)' <=> Unserved(u)
               /\ Ended(u, 0)' <=> Ended(u, 0)
               /\ Ended(u, EPIPE)' <=> Ended(u, EPIPE)

\* Such a step that leaves the channel alone preserves its invariant.
LEMMA ChanStays ==
    ASSUME ChanInv, WaitsStay, UNCHANGED chVars
    PROVE  ChanInv'
  <1>1. UNCHANGED <<ch_cap, ch_num, ch_rcursor, ch_wcursor, ch_msgring, ch_rtaskq, ch_wtaskq,
                    t_svcreq, sent, handed, received, failed, sending>>
    BY DEF chVars, storeVars, queueVars, historyVars
  <1>2. Content' = Content
    BY <1>1 DEF Content, Open
  <1>3. \A m : (Handed(m)' <=> Handed(m)) /\ (Received(m)' <=> Received(m))
    BY <1>1 DEF Handed, Received
  <1>4. StoreOK'
    BY <1>1 DEF ChanInv, StoreOK, Open, Slot
  <1>5. QueuesOK'
    BY <1>1 DEF ChanInv, QueuesOK, WaitsStay, Open, NoDup, Within
  <1>6. Ordered(sent, handed, Content)'
    BY <1>1, <1>2 DEF ChanInv, Ordered, Ascending
  <1>7. WritesOK'
    BY <1>1, <1>2, <1>3 DEF ChanInv, WritesOK, WaitsStay, Open, Contains
  <1>8. FailedOK' /\ HeldOK'
    BY <1>1, <1>2, <1>3 DEF ChanInv, FailedOK, HeldOK, WaitsStay, Contains
  <1> QED BY <1>4, <1>5, <1>6, <1>7, <1>8 DEF ChanInv

\* A wait that was served ends with the code it was served with.
LEMMA AsideWaits ==
    ASSUME QueuesOK, AllAside
    PROVE  WaitsStay
  <1> SUFFICES ASSUME NEW u \in Task
               PROVE  /\ op'[u] = "read" <=> op[u] = "read"
                      /\ op'[u] = "write" <=> op[u] = "write"
                      /\ op[u] \in {"read", "write"} =>
                             /\ Unserved(u)' <=> Unserved(u)
                             /\ Ended(u, 0)' <=> Ended(u, 0)
                             /\ Ended(u, EPIPE)' <=> Ended(u, EPIPE)
    BY DEF WaitsStay
  <1>1. /\ op'[u] = "read" <=> op[u] = "read"
        /\ op'[u] = "write" <=> op[u] = "write"
    BY DEF AllAside, Aside, OwnCall
  <1>2. op[u] \in {"read", "write"} => Aside(u)
    BY DEF AllAside, OwnCall
  <1>3. op[u] \in {"read", "write"} => Unserved(u) \/ Ended(u, 0) \/ Ended(u, EPIPE)
    BY DEF QueuesOK
  <1> QED BY <1>1, <1>2, <1>3 DEF Aside, Unserved, Ended, EPIPE, ETIMEDOUT

\* The scheduler's own steps preserve the channel's invariant.
LEMMA SchedStays ==
    ASSUME ChIInv, Peaceful, TaskAssumption,
           \/ \E t \in Task : Yield(t) \/ Call(t)
           \/ Loop \/ update_time \/ UNCHANGED vars,
           UNCHANGED chVars
    PROVE  ChIInv'
  <1>1. IInv' /\ JoinInv' /\ AllAside /\ NoSignals'
    BY StepAside DEF ChIInv
  <1>2. ChanInv'
    BY <1>1, AsideWaits, ChanStays DEF ChIInv, ChanInv
  <1> QED BY <1>1, <1>2 DEF ChIInv

---------------------------------------------------------------------------
(* The ring *)

\* Slot k of a ring of c slots, counted from 0 at slot r.
SlotOf(c, r, k) == IF r + k <= c THEN r + k ELSE r + k - c

NextSlot(c, r) == IF r = c THEN 1 ELSE r + 1

LEMMA Slots ==
    ASSUME NEW c \in Nat, NEW r \in 1..c, NEW k \in 0..c
    PROVE  /\ SlotOf(c, r, k) \in 1..c
           /\ SlotOf(c, r, 0) = r /\ SlotOf(c, r, c) = r
           /\ k \in 1..(c - 1) => SlotOf(c, r, k) # r
           /\ k < c => /\ SlotOf(c, NextSlot(c, r), k) = SlotOf(c, r, k + 1)
                       /\ NextSlot(c, SlotOf(c, r, k)) = SlotOf(c, r, k + 1)
  BY DEF SlotOf, NextSlot

LEMMA NextSlotType ==
    ASSUME NEW c \in Nat, NEW r \in 1..c
    PROVE  NextSlot(c, r) \in 1..c
  BY DEF NextSlot

\* Different places in the ring have different slots.
LEMMA SlotsDiffer ==
    ASSUME NEW c \in Nat, NEW r \in 1..c, NEW k \in 0..(c - 1), NEW j \in 0..(c - 1),
           SlotOf(c, r, k) = SlotOf(c, r, j)
    PROVE  k = j
  BY DEF SlotOf

LEMMA SlotModulo ==
    ASSUME NEW c \in Nat, NEW r \in 1..c, NEW i \in 1..c
    PROVE  ((r + i - 2) % c) + 1 = SlotOf(c, r, i - 1)
  <1> DEFINE a == r + i - 2
  <1>1. a \in 0..(2 * c - 2) /\ c > 0
    OBVIOUS
  <1>2. CASE a < c
    <2>1. a % c = a
      BY <1>1, <1>2
    <2> QED BY <1>2, <2>1 DEF SlotOf
  <1>3. CASE a >= c
    <2>1. a = c * 1 + (a - c) /\ a - c \in 0..(c - 1)
      BY <1>1, <1>3
    <2>2. a % c = a - c
      BY <1>1, <2>1
    <2> QED BY <1>3, <2>2 DEF SlotOf
  <1> QED BY <1>1, <1>2, <1>3

\* The messages in the ring and those of the waiting writers.
Messages(c, n, r, ring, wq, req) ==
    [i \in 1..n |-> ring[((r + i - 2) % c) + 1]] \o [i \in 1..Len(wq) |-> req[wq[i]]]

\* What they are, one by one.
AreMessages(S, q, m, c, n, r, ring, wq, req) ==
    /\ q \in Seq(S) /\ Len(q) = m
    /\ \A i \in 1..m :
           q[i] = IF i <= n THEN ring[SlotOf(c, r, i - 1)] ELSE req[wq[i - n]]

LEMMA MessagesAre ==
    ASSUME NEW S, NEW c \in Nat, NEW n \in 0..c, NEW r \in Nat \ {0}, c > 0 => r <= c,
           NEW ring \in [1..c -> S], NEW wq \in Seq(Task), NEW req \in [Task -> S]
    PROVE  AreMessages(S, Messages(c, n, r, ring, wq, req), n + Len(wq),
                       c, n, r, ring, wq, req)
  <1> DEFINE a == [i \in 1..n |-> ring[((r + i - 2) % c) + 1]]
             b == [i \in 1..Len(wq) |-> req[wq[i]]]
  <1>1. n \in Nat /\ Len(wq) \in Nat
    BY LenProperties
  <1>2. \A i \in 1..n : /\ SlotOf(c, r, i - 1) \in 1..c
                        /\ ((r + i - 2) % c) + 1 = SlotOf(c, r, i - 1)
    <2> SUFFICES ASSUME NEW i \in 1..n
                 PROVE  /\ SlotOf(c, r, i - 1) \in 1..c
                        /\ ((r + i - 2) % c) + 1 = SlotOf(c, r, i - 1)
      OBVIOUS
    <2>1. r \in 1..c /\ i \in 1..c /\ i - 1 \in 0..c
      OBVIOUS
    <2>2. SlotOf(c, r, i - 1) \in 1..c
      BY <2>1, Slots
    <2>3. ((r + i - 2) % c) + 1 = SlotOf(c, r, i - 1)
      BY <2>1, SlotModulo
    <2> QED BY <2>2, <2>3
  <1>3. /\ a \in Seq(S) /\ Len(a) = n
        /\ \A i \in 1..n : a[i] = ring[SlotOf(c, r, i - 1)]
    <2>1. a \in [1..n -> S]
      BY <1>2
    <2> QED BY <1>1, <1>2, <2>1
  <1>4. /\ b \in Seq(S) /\ Len(b) = Len(wq)
        /\ \A i \in 1..Len(wq) : b[i] = req[wq[i]]
    <2>1. b \in [1..Len(wq) -> S]
      BY ElementOfSeq
    <2> QED BY <1>1, <2>1
  <1> HIDE DEF a, b
  <1>5. /\ a \o b \in Seq(S) /\ Len(a \o b) = n + Len(wq)
        /\ \A i \in 1..(n + Len(wq)) : (a \o b)[i] = IF i <= n THEN a[i] ELSE b[i - n]
    <2>1. a \in Seq(S) /\ b \in Seq(S)
      BY <1>3, <1>4
    <2>2. /\ a \o b \in Seq(S) /\ Len(a \o b) = Len(a) + Len(b)
          /\ \A i \in 1..(Len(a) + Len(b)) :
                 (a \o b)[i] = IF i <= Len(a) THEN a[i] ELSE b[i - Len(a)]
      BY <2>1, ConcatProperties
    <2> QED BY <1>3, <1>4, <2>2
  <1>6. \A i \in 1..(n + Len(wq)) :
            (a \o b)[i] = IF i <= n THEN ring[SlotOf(c, r, i - 1)] ELSE req[wq[i - n]]
    <2> SUFFICES ASSUME NEW i \in 1..(n + Len(wq))
                 PROVE  (a \o b)[i] = IF i <= n THEN ring[SlotOf(c, r, i - 1)]
                                      ELSE req[wq[i - n]]
      OBVIOUS
    <2>1. CASE i <= n
      <3>1. i \in 1..n
        BY <1>1, <2>1
      <3> QED BY <1>3, <1>5, <2>1, <3>1
    <2>2. CASE ~(i <= n)
      <3>1. i - n \in 1..Len(wq)
        BY <1>1, <2>2
      <3> QED BY <1>4, <1>5, <2>2, <3>1
    <2> QED BY <2>1, <2>2
  <1> QED BY <1>5, <1>6 DEF a, b, Messages, AreMessages

\* From q, the first message m is taken out, which leaves z.
TakesFirst(q, m, z) == q # <<>> /\ Head(q) = m /\ z = Tail(q)

\* The first message is taken out of the ring, and no writer waits.
LEMMA TakeStored ==
    ASSUME NEW S, NEW c \in Nat, NEW n \in 1..c, NEW r \in 1..c, NEW ring \in [1..c -> S],
           NEW ring2 \in [1..c -> S], \A k \in 1..c : k # r => ring2[k] = ring[k],
           NEW wq \in Seq(Task), wq = <<>>, NEW req \in [Task -> S]
    PROVE  TakesFirst(Messages(c, n, r, ring, wq, req), ring[r],
                      Messages(c, n - 1, NextSlot(c, r), ring2, wq, req))
  <1> DEFINE q == Messages(c, n, r, ring, wq, req)
             z == Messages(c, n - 1, NextSlot(c, r), ring2, wq, req)
  <1>0. /\ q = Messages(c, n, r, ring, wq, req)
        /\ z = Messages(c, n - 1, NextSlot(c, r), ring2, wq, req)
    OBVIOUS
  <1> HIDE DEF q, z
  <1>1. /\ n \in 0..c /\ r \in Nat \ {0} /\ r <= c /\ n - 1 \in 0..c
        /\ n = n + Len(wq) /\ n - 1 = n - 1 + Len(wq)
        /\ NextSlot(c, r) \in Nat \ {0} /\ NextSlot(c, r) <= c
    <2>1. Len(wq) = 0
      BY EmptySeq
    <2>2. NextSlot(c, r) \in 1..c
      BY NextSlotType
    <2> QED BY <2>1, <2>2
  <1>2. /\ q \in Seq(S) /\ Len(q) = n
        /\ \A i \in 1..n : q[i] = ring[SlotOf(c, r, i - 1)]
    <2>1. AreMessages(S, q, n + Len(wq), c, n, r, ring, wq, req)
      BY <1>0, <1>1, MessagesAre
    <2> QED BY <1>1, <2>1 DEF AreMessages
  <1>3. /\ z \in Seq(S) /\ Len(z) = n - 1
        /\ \A i \in 1..(n - 1) : z[i] = ring2[SlotOf(c, NextSlot(c, r), i - 1)]
    <2>1. AreMessages(S, z, n - 1 + Len(wq), c, n - 1, NextSlot(c, r), ring2, wq, req)
      BY <1>0, <1>1, MessagesAre
    <2> QED BY <1>1, <2>1 DEF AreMessages
  <1>4. q # <<>> /\ Head(q) = ring[r]
    <2>1. q[1] = ring[SlotOf(c, r, 0)]
      BY <1>2
    <2>2. SlotOf(c, r, 0) = r
      BY Slots
    <2>3. q # <<>> /\ Head(q) = q[1]
      BY <1>1, <1>2, EmptySeq, HeadTailProperties
    <2> QED BY <2>1, <2>2, <2>3
  <1>5. /\ Tail(q) \in Seq(S) /\ Len(Tail(q)) = n - 1
        /\ \A i \in 1..(n - 1) : Tail(q)[i] = q[i + 1]
    BY <1>2, <1>4, HeadTailProperties
  <1>6. ASSUME NEW i \in 1..(n - 1)
        PROVE  z[i] = Tail(q)[i]
    <2>1. /\ i + 1 \in 1..n /\ i - 1 \in 0..c /\ i - 1 < c /\ (i - 1) + 1 = i
          /\ (i + 1) - 1 = i /\ i \in 0..c /\ i \in 1..(c - 1)
      OBVIOUS
    <2>2. SlotOf(c, NextSlot(c, r), i - 1) = SlotOf(c, r, i)
      BY <2>1, Slots
    <2>3. SlotOf(c, r, i) # r /\ SlotOf(c, r, i) \in 1..c
      BY <2>1, Slots
    <2> QED BY <1>2, <1>3, <1>5, <2>1, <2>2, <2>3
  <1>7. z = Tail(q)
    BY <1>3, <1>5, <1>6, SeqEqual
  <1> QED BY <1>4, <1>7 DEF q, z, TakesFirst

\* The first message is taken out of a full ring, and that of the first
\* writer takes its place.
LEMMA TakeRefilled ==
    ASSUME NEW S, NEW c \in Nat, NEW r \in 1..c, NEW ring \in [1..c -> S],
           NEW wq \in Seq(Task), wq # <<>>, NEW req \in [Task -> S],
           NEW ring2 \in [1..c -> S], \A k \in 1..c : k # r => ring2[k] = ring[k],
           ring2[r] = req[Head(wq)]
    PROVE  TakesFirst(Messages(c, c, r, ring, wq, req), ring[r],
                      Messages(c, c, NextSlot(c, r), ring2, Tail(wq), req))
  <1> DEFINE q == Messages(c, c, r, ring, wq, req)
             z == Messages(c, c, NextSlot(c, r), ring2, Tail(wq), req)
             m == Len(wq)
  <1>0. /\ q = Messages(c, c, r, ring, wq, req)
        /\ z = Messages(c, c, NextSlot(c, r), ring2, Tail(wq), req)
    OBVIOUS
  <1> HIDE DEF q, z
  <1>1. /\ m \in Nat /\ m > 0 /\ Head(wq) = wq[1]
        /\ Tail(wq) \in Seq(Task) /\ Len(Tail(wq)) = m - 1
        /\ \A i \in 1..(m - 1) : Tail(wq)[i] = wq[i + 1]
    BY LenProperties, EmptySeq, HeadTailProperties
  <1>2. /\ c \in 0..c /\ c > 0 /\ r \in Nat \ {0} /\ r <= c
        /\ NextSlot(c, r) \in Nat \ {0} /\ NextSlot(c, r) <= c
    <2>1. NextSlot(c, r) \in 1..c
      BY NextSlotType
    <2> QED BY <2>1
  <1>3. /\ q \in Seq(S) /\ Len(q) = c + m
        /\ \A i \in 1..(c + m) :
               q[i] = IF i <= c THEN ring[SlotOf(c, r, i - 1)] ELSE req[wq[i - c]]
    <2>1. AreMessages(S, q, c + Len(wq), c, c, r, ring, wq, req)
      BY <1>0, <1>2, MessagesAre
    <2> QED BY <2>1 DEF AreMessages
  <1>4. /\ z \in Seq(S) /\ Len(z) = c + (m - 1)
        /\ \A i \in 1..(c + (m - 1)) :
               z[i] = IF i <= c THEN ring2[SlotOf(c, NextSlot(c, r), i - 1)]
                      ELSE req[Tail(wq)[i - c]]
    <2>1. AreMessages(S, z, c + Len(Tail(wq)), c, c, NextSlot(c, r), ring2, Tail(wq), req)
      BY <1>0, <1>1, <1>2, MessagesAre
    <2> QED BY <1>1, <2>1 DEF AreMessages
  <1> HIDE DEF m
  <1>5. q # <<>> /\ Head(q) = ring[r]
    <2>1. q[1] = ring[SlotOf(c, r, 0)]
      BY <1>1, <1>2, <1>3
    <2>2. SlotOf(c, r, 0) = r
      BY Slots
    <2>3. q # <<>> /\ Head(q) = q[1]
      BY <1>1, <1>2, <1>3, EmptySeq, HeadTailProperties
    <2> QED BY <2>1, <2>2, <2>3
  <1>6. /\ Tail(q) \in Seq(S) /\ Len(Tail(q)) = c + m - 1
        /\ \A i \in 1..(c + m - 1) : Tail(q)[i] = q[i + 1]
    <2>1. /\ Tail(q) \in Seq(S) /\ Len(Tail(q)) = Len(q) - 1
          /\ \A i \in 1..(Len(q) - 1) : Tail(q)[i] = q[i + 1]
      BY <1>3, <1>5, HeadTailProperties
    <2> QED BY <1>1, <1>3, <2>1
  <1>7. ASSUME NEW i \in 1..(c + m - 1)
        PROVE  z[i] = Tail(q)[i]
    <2>1. i + 1 \in 1..(c + m) /\ (i + 1) - 1 = i /\ i \in 1..(c + (m - 1))
      BY <1>1
    <2>2. CASE i < c
      <3>1. i - 1 \in 0..c /\ i - 1 < c /\ (i - 1) + 1 = i /\ i \in 0..c /\ i \in 1..(c - 1)
        BY <2>1, <2>2
      <3>2. SlotOf(c, NextSlot(c, r), i - 1) = SlotOf(c, r, i)
        BY <3>1, Slots
      <3>3. SlotOf(c, r, i) # r /\ SlotOf(c, r, i) \in 1..c
        BY <3>1, Slots
      <3> QED BY <1>3, <1>4, <1>6, <2>1, <2>2, <3>2, <3>3
    <2>3. CASE i = c
      <3>1. SlotOf(c, NextSlot(c, r), c - 1) = SlotOf(c, r, c) /\ SlotOf(c, r, c) = r
        <4>1. c - 1 \in 0..c /\ c - 1 < c /\ (c - 1) + 1 = c
          BY <1>2
        <4> QED BY <1>2, <4>1, Slots
      <3>2. z[c] = req[wq[1]]
        <4>1. c \in 1..(c + (m - 1)) /\ c <= c
          BY <1>2, <2>1, <2>3
        <4> QED BY <1>1, <1>4, <3>1, <4>1
      <3>3. Tail(q)[c] = req[wq[(c + 1) - c]] /\ (c + 1) - c = 1
        BY <1>1, <1>2, <1>3, <1>6, <2>1, <2>3
      <3> QED BY <2>3, <3>2, <3>3
    <2>4. CASE i > c
      <3>1. /\ i - c \in 1..(m - 1) /\ (i - c) + 1 = (i + 1) - c
            /\ ~(i <= c) /\ ~(i + 1 <= c)
        BY <1>1, <2>1, <2>4
      <3>2. z[i] = req[Tail(wq)[i - c]] /\ Tail(wq)[i - c] = wq[(i + 1) - c]
        BY <1>1, <1>4, <2>1, <3>1
      <3>3. Tail(q)[i] = q[i + 1] /\ q[i + 1] = req[wq[(i + 1) - c]]
        BY <1>3, <1>6, <2>1, <3>1
      <3> QED BY <3>2, <3>3
    <2>5. i < c \/ i = c \/ i > c
      BY <1>1
    <2> QED BY <2>2, <2>3, <2>4, <2>5
  <1>8. z = Tail(q)
    <2>1. c + (m - 1) = c + m - 1
      BY <1>1
    <2> QED BY <1>4, <1>6, <1>7, <2>1, SeqEqual
  <1> QED BY <1>5, <1>8 DEF q, z, TakesFirst

\* The message of the first writer is taken while the ring is empty.
LEMMA TakeWaiting ==
    ASSUME NEW S, NEW c \in Nat, NEW r \in Nat \ {0}, c > 0 => r <= c,
           NEW ring \in [1..c -> S], NEW wq \in Seq(Task), wq # <<>>, NoDup(wq),
           NEW req \in [Task -> S], NEW req2 \in [Task -> S],
           \A t \in Task : t # Head(wq) => req2[t] = req[t]
    PROVE  TakesFirst(Messages(c, 0, r, ring, wq, req), req[Head(wq)],
                      Messages(c, 0, r, ring, Tail(wq), req2))
  <1> DEFINE q == Messages(c, 0, r, ring, wq, req)
             z == Messages(c, 0, r, ring, Tail(wq), req2)
             m == Len(wq)
  <1>0. /\ q = Messages(c, 0, r, ring, wq, req)
        /\ z = Messages(c, 0, r, ring, Tail(wq), req2)
    OBVIOUS
  <1> HIDE DEF q, z
  <1>1. /\ m \in Nat /\ m > 0 /\ Head(wq) = wq[1]
        /\ Tail(wq) \in Seq(Task) /\ Len(Tail(wq)) = m - 1
        /\ \A i \in 1..(m - 1) : Tail(wq)[i] = wq[i + 1]
    BY LenProperties, EmptySeq, HeadTailProperties
  <1>2. 0 \in 0..c
    OBVIOUS
  <1>3. /\ q \in Seq(S) /\ Len(q) = m
        /\ \A i \in 1..m : q[i] = req[wq[i]]
    <2>1. AreMessages(S, q, 0 + Len(wq), c, 0, r, ring, wq, req)
      BY <1>0, <1>2, MessagesAre
    <2> QED BY <1>1, <2>1 DEF AreMessages
  <1>4. /\ z \in Seq(S) /\ Len(z) = m - 1
        /\ \A i \in 1..(m - 1) : z[i] = req2[Tail(wq)[i]]
    <2>1. AreMessages(S, z, 0 + Len(Tail(wq)), c, 0, r, ring, Tail(wq), req2)
      BY <1>0, <1>1, <1>2, MessagesAre
    <2> QED BY <1>1, <2>1 DEF AreMessages
  <1>5. q # <<>> /\ Head(q) = q[1] /\ q[1] = req[wq[1]]
    BY <1>1, <1>3, EmptySeq, HeadTailProperties
  <1>6. /\ Tail(q) \in Seq(S) /\ Len(Tail(q)) = m - 1
        /\ \A i \in 1..(m - 1) : Tail(q)[i] = q[i + 1]
    BY <1>3, <1>5, HeadTailProperties
  <1>7. ASSUME NEW i \in 1..(m - 1)
        PROVE  z[i] = Tail(q)[i]
    <2>1. i + 1 \in 1..m /\ 1 \in 1..m /\ i + 1 # 1
      BY <1>1
    <2>2. wq[i + 1] \in Task /\ wq[i + 1] # wq[1]
      BY <2>1, ElementOfSeq DEF NoDup
    <2> QED BY <1>1, <1>3, <1>4, <1>6, <2>1, <2>2
  <1>8. z = Tail(q)
    BY <1>4, <1>6, <1>7, SeqEqual
  <1> QED BY <1>1, <1>5, <1>8 DEF q, z, TakesFirst

\* Message m comes last, behind q, which gives z.
JoinsLast(S, q, m, z) == q \in Seq(S) /\ z = Append(q, m)

\* A message is stored in the first free slot, and no writer waits.
LEMMA StoreAppends ==
    ASSUME NEW S, NEW c \in Nat, NEW n \in 0..(c - 1), NEW r \in 1..c,
           NEW ring \in [1..c -> S], NEW m \in S, NEW ring2 \in [1..c -> S],
           \A k \in 1..c : ring2[k] = IF k = SlotOf(c, r, n) THEN m ELSE ring[k],
           NEW wq \in Seq(Task), wq = <<>>, NEW req \in [Task -> S]
    PROVE  JoinsLast(S, Messages(c, n, r, ring, wq, req), m,
                     Messages(c, n + 1, r, ring2, wq, req))
  <1> DEFINE q == Messages(c, n, r, ring, wq, req)
             z == Messages(c, n + 1, r, ring2, wq, req)
  <1>0. q = Messages(c, n, r, ring, wq, req) /\ z = Messages(c, n + 1, r, ring2, wq, req)
    OBVIOUS
  <1> HIDE DEF q, z
  <1>1. n \in 0..c /\ n + 1 \in 0..c /\ r \in Nat \ {0} /\ r <= c
    OBVIOUS
  <1>2. n + Len(wq) = n /\ n + 1 + Len(wq) = n + 1
    BY EmptySeq
  <1>3. /\ q \in Seq(S) /\ Len(q) = n
        /\ \A i \in 1..n : q[i] = ring[SlotOf(c, r, i - 1)]
    <2>1. AreMessages(S, q, n + Len(wq), c, n, r, ring, wq, req)
      BY <1>0, <1>1, MessagesAre
    <2> QED BY <1>2, <2>1 DEF AreMessages
  <1>4. /\ z \in Seq(S) /\ Len(z) = n + 1
        /\ \A i \in 1..(n + 1) : z[i] = ring2[SlotOf(c, r, i - 1)]
    <2>1. AreMessages(S, z, n + 1 + Len(wq), c, n + 1, r, ring2, wq, req)
      BY <1>0, <1>1, MessagesAre
    <2> QED BY <1>2, <2>1 DEF AreMessages
  <1>5. /\ Append(q, m) \in Seq(S) /\ Len(Append(q, m)) = n + 1
        /\ \A i \in 1..n : Append(q, m)[i] = q[i]
        /\ Append(q, m)[n + 1] = m
    BY <1>3, AppendProperties
  <1>6. ASSUME NEW i \in 1..(n + 1)
        PROVE  z[i] = Append(q, m)[i]
    <2>1. i - 1 \in 0..(c - 1) /\ n \in 0..(c - 1) /\ i - 1 \in 0..c
      OBVIOUS
    <2>2. SlotOf(c, r, i - 1) \in 1..c
      BY <2>1, Slots
    <2>3. CASE i = n + 1
      <3>1. i - 1 = n
        BY <2>3
      <3> QED BY <1>4, <1>5, <2>2, <2>3, <3>1
    <2>4. CASE i # n + 1
      <3>1. i \in 1..n /\ i - 1 # n
        BY <2>4
      <3>2. SlotOf(c, r, i - 1) # SlotOf(c, r, n)
        BY <2>1, <3>1, SlotsDiffer
      <3> QED BY <1>3, <1>4, <1>5, <2>2, <3>1, <3>2
    <2> QED BY <2>3, <2>4
  <1>7. z = Append(q, m)
    BY <1>4, <1>5, <1>6, SeqEqual
  <1> QED BY <1>3, <1>7 DEF q, z, JoinsLast

\* A writer joins the waiting ones with a message.
LEMMA WaitAppends ==
    ASSUME NEW S, NEW c \in Nat, NEW n \in 0..c, NEW r \in Nat \ {0}, c > 0 => r <= c,
           NEW ring \in [1..c -> S], NEW wq \in Seq(Task), NEW t \in Task, ~Within(t, wq),
           NEW req \in [Task -> S], NEW m \in S
    PROVE  JoinsLast(S, Messages(c, n, r, ring, wq, req), m,
                     Messages(c, n, r, ring, Append(wq, t), [req EXCEPT ![t] = m]))
  <1> DEFINE q == Messages(c, n, r, ring, wq, req)
             req2 == [req EXCEPT ![t] = m]
             wq2 == Append(wq, t)
             z == Messages(c, n, r, ring, wq2, req2)
             l == Len(wq)
  <1>0. q = Messages(c, n, r, ring, wq, req) /\ z = Messages(c, n, r, ring, wq2, req2)
    OBVIOUS
  <1>1. /\ req2 \in [Task -> S] /\ req2[t] = m
        /\ \A u \in Task : u # t => req2[u] = req[u]
    OBVIOUS
  <1>2. /\ l \in Nat /\ wq2 \in Seq(Task) /\ Len(wq2) = l + 1
        /\ \A i \in 1..l : wq2[i] = wq[i] /\ wq[i] \in Task
        /\ wq2[l + 1] = t
    BY AppendProperties, LenProperties, ElementOfSeq
  <1>3. \A i \in 1..l : wq[i] # t
    BY DEF Within
  <1> HIDE DEF q, z, req2, wq2, l
  <1>4. /\ q \in Seq(S) /\ Len(q) = n + l
        /\ \A i \in 1..(n + l) :
               q[i] = IF i <= n THEN ring[SlotOf(c, r, i - 1)] ELSE req[wq[i - n]]
    <2>1. AreMessages(S, q, n + Len(wq), c, n, r, ring, wq, req)
      BY <1>0, MessagesAre
    <2> QED BY <2>1 DEF AreMessages, l
  <1>5. /\ z \in Seq(S) /\ Len(z) = n + l + 1
        /\ \A i \in 1..(n + l + 1) :
               z[i] = IF i <= n THEN ring[SlotOf(c, r, i - 1)] ELSE req2[wq2[i - n]]
    <2>1. AreMessages(S, z, n + Len(wq2), c, n, r, ring, wq2, req2)
      BY <1>0, <1>1, <1>2, MessagesAre
    <2>2. n + Len(wq2) = n + l + 1
      BY <1>2
    <2> QED BY <2>1, <2>2 DEF AreMessages
  <1>6. /\ Append(q, m) \in Seq(S) /\ Len(Append(q, m)) = n + l + 1
        /\ \A i \in 1..(n + l) : Append(q, m)[i] = q[i]
        /\ Append(q, m)[n + l + 1] = m
    BY <1>4, AppendProperties
  <1>7. ASSUME NEW i \in 1..(n + l + 1)
        PROVE  z[i] = Append(q, m)[i]
    <2>1. CASE i <= n
      <3>1. i \in 1..(n + l)
        BY <1>2, <2>1
      <3> QED BY <1>4, <1>5, <1>6, <2>1, <3>1
    <2>2. CASE n < i /\ i <= n + l
      <3>1. i \in 1..(n + l) /\ i - n \in 1..l /\ ~(i <= n)
        BY <1>2, <2>2
      <3>2. z[i] = req2[wq2[i - n]] /\ wq2[i - n] = wq[i - n] /\ wq[i - n] \in Task
        BY <1>2, <1>5, <3>1
      <3>3. Append(q, m)[i] = req[wq[i - n]]
        BY <1>4, <1>6, <3>1
      <3> QED BY <1>1, <1>3, <3>1, <3>2, <3>3
    <2>3. CASE i = n + l + 1
      <3>1. ~(i <= n) /\ i - n = l + 1
        BY <1>2, <2>3
      <3> QED BY <1>1, <1>2, <1>5, <1>6, <2>3, <3>1
    <2>4. i <= n \/ (n < i /\ i <= n + l) \/ i = n + l + 1
      BY <1>2
    <2> QED BY <2>1, <2>2, <2>3, <2>4
  <1>8. z = Append(q, m)
    BY <1>5, <1>6, <1>7, SeqEqual
  <1> QED BY <1>4, <1>8 DEF q, z, req2, wq2, JoinsLast

\* Message m is taken from place i of q, behind the first n, which gives z.
LeavesFrom(S, q, n, i, m, z) ==
    q \in Seq(S) /\ i \in (n + 1)..Len(q) /\ q[i] = m /\ z = RemoveAt(q, i)

\* A waiting writer leaves.
LEMMA GiveUpRemoves ==
    ASSUME NEW S, NEW c \in Nat, NEW n \in 0..c, NEW r \in Nat \ {0}, c > 0 => r <= c,
           NEW ring \in [1..c -> S], NEW wq \in Seq(Task), NEW p \in 1..Len(wq),
           NEW req \in [Task -> S]
    PROVE  LeavesFrom(S, Messages(c, n, r, ring, wq, req), n, n + p, req[wq[p]],
                      Messages(c, n, r, ring, RemoveAt(wq, p), req))
  <1> DEFINE q == Messages(c, n, r, ring, wq, req)
             wq2 == RemoveAt(wq, p)
             z == Messages(c, n, r, ring, wq2, req)
             l == Len(wq)
  <1>0. q = Messages(c, n, r, ring, wq, req) /\ z = Messages(c, n, r, ring, wq2, req)
    OBVIOUS
  <1>1. /\ l \in Nat /\ p \in 1..l /\ wq2 \in Seq(Task) /\ Len(wq2) = l - 1
        /\ \A i \in 1..(l - 1) : wq2[i] = IF i < p THEN wq[i] ELSE wq[i + 1]
    BY LenProperties, RemoveAtLeaves
  <1> HIDE DEF q, z, wq2, l
  <1>2. /\ q \in Seq(S) /\ Len(q) = n + l
        /\ \A i \in 1..(n + l) :
               q[i] = IF i <= n THEN ring[SlotOf(c, r, i - 1)] ELSE req[wq[i - n]]
    <2>1. AreMessages(S, q, n + Len(wq), c, n, r, ring, wq, req)
      BY <1>0, MessagesAre
    <2> QED BY <2>1 DEF AreMessages, l
  <1>3. /\ z \in Seq(S) /\ Len(z) = n + l - 1
        /\ \A i \in 1..(n + l - 1) :
               z[i] = IF i <= n THEN ring[SlotOf(c, r, i - 1)] ELSE req[wq2[i - n]]
    <2>1. AreMessages(S, z, n + Len(wq2), c, n, r, ring, wq2, req)
      BY <1>0, <1>1, MessagesAre
    <2>2. n + Len(wq2) = n + l - 1
      BY <1>1
    <2> QED BY <2>1, <2>2 DEF AreMessages
  <1>4. n + p \in (n + 1)..Len(q) /\ n + p \in 1..Len(q) /\ q[n + p] = req[wq[p]]
    <2>1. n + p \in 1..(n + l) /\ ~(n + p <= n) /\ (n + p) - n = p
      BY <1>1
    <2> QED BY <1>1, <1>2, <2>1
  <1>5. /\ RemoveAt(q, n + p) \in Seq(S) /\ Len(RemoveAt(q, n + p)) = n + l - 1
        /\ \A i \in 1..(n + l - 1) :
               RemoveAt(q, n + p)[i] = IF i < n + p THEN q[i] ELSE q[i + 1]
    <2>1. /\ RemoveAt(q, n + p) \in Seq(S) /\ Len(RemoveAt(q, n + p)) = Len(q) - 1
          /\ \A i \in 1..(Len(q) - 1) :
                 RemoveAt(q, n + p)[i] = IF i < n + p THEN q[i] ELSE q[i + 1]
      BY <1>2, <1>4, RemoveAtLeaves
    <2> QED BY <1>1, <1>2, <2>1
  <1>6. ASSUME NEW i \in 1..(n + l - 1)
        PROVE  z[i] = RemoveAt(q, n + p)[i]
    <2>1. i \in 1..(n + l) /\ i + 1 \in 1..(n + l)
      BY <1>1
    <2>2. CASE i <= n
      <3>1. i < n + p
        BY <1>1, <2>2
      <3> QED BY <1>2, <1>3, <1>5, <2>1, <2>2, <3>1
    <2>3. CASE i > n
      <3>1. /\ i - n \in 1..(l - 1) /\ ~(i <= n) /\ ~(i + 1 <= n)
            /\ (i - n) + 1 = (i + 1) - n /\ (i - n < p <=> i < n + p)
        BY <1>1, <2>1, <2>3
      <3>2. z[i] = req[IF i < n + p THEN wq[i - n] ELSE wq[(i + 1) - n]]
        <4>1. wq2[i - n] = IF i - n < p THEN wq[i - n] ELSE wq[(i - n) + 1]
          BY <1>1, <3>1
        <4>2. z[i] = req[wq2[i - n]]
          BY <1>3, <3>1
        <4> QED BY <3>1, <4>1, <4>2
      <3>3. q[i] = req[wq[i - n]]
        BY <1>2, <2>1, <3>1
      <3>4. q[i + 1] = req[wq[(i + 1) - n]]
        BY <1>2, <2>1, <3>1
      <3> QED BY <1>5, <3>2, <3>3, <3>4
    <2>4. i <= n \/ i > n
      BY <1>1
    <2> QED BY <2>2, <2>3, <2>4
  <1>7. z = RemoveAt(q, n + p)
    BY <1>3, <1>5, <1>6, SeqEqual
  <1> QED BY <1>2, <1>4, <1>7 DEF q, z, wq2, LeavesFrom

\* What t_svcreq holds of other tasks than the waiting writers is no message
\* of the channel.
LEMMA OthersNoMatter ==
    ASSUME NEW c, NEW n, NEW r, NEW ring, NEW wq \in Seq(Task), NEW req, NEW req2,
           \A u \in Task : Within(u, wq) => req2[u] = req[u]
    PROVE  Messages(c, n, r, ring, wq, req2) = Messages(c, n, r, ring, wq, req)
  <1>1. \A i \in 1..Len(wq) : req2[wq[i]] = req[wq[i]]
    BY ElementOfSeq DEF Within
  <1> QED BY <1>1 DEF Messages

---------------------------------------------------------------------------
(* The order of the messages *)

LEMMA AscendingAppend ==
    ASSUME NEW n \in Nat, NEW q \in Seq(1..n), Ascending(q), NEW m \in Nat,
           \A i \in 1..Len(q) : q[i] < m
    PROVE  Ascending(Append(q, m))
  <1>1. /\ Len(q) \in Nat /\ Len(Append(q, m)) = Len(q) + 1
        /\ \A i \in 1..Len(q) : Append(q, m)[i] = q[i]
        /\ Append(q, m)[Len(q) + 1] = m
    BY AppendProperties, LenProperties
  <1>2. ASSUME NEW i \in 1..(Len(q) + 1), NEW j \in 1..(Len(q) + 1), i < j
        PROVE  Append(q, m)[i] < Append(q, m)[j]
    <2>1. Len(q) \in Nat
      BY LenProperties
    <2>2. i \in 1..Len(q) /\ (j \in 1..Len(q) \/ j = Len(q) + 1)
      <3>1. \A l \in Nat : \A x, y \in 1..(l + 1) :
               x < y => x \in 1..l /\ (y \in 1..l \/ y = l + 1)
        OBVIOUS
      <3> QED BY <1>2, <2>1, <3>1, Zenon
    <2>3. CASE j \in 1..Len(q)
      BY <1>1, <1>2, <2>2, <2>3 DEF Ascending
    <2>4. CASE j = Len(q) + 1
      BY <1>1, <2>2, <2>4
    <2> QED BY <2>2, <2>3, <2>4
  <1> QED BY <1>1, <1>2 DEF Ascending

\* Messages from 1..n stay such when there are more.
LEMMA SeqWider ==
    ASSUME NEW n \in Nat, NEW q \in Seq(1..n)
    PROVE  q \in Seq(1..(n + 1))
  <1>1. \A i \in 1..Len(q) : q[i] \in 1..n
    BY ElementOfSeq
  <1>2. \A i \in 1..Len(q) : q[i] \in 1..(n + 1)
    BY <1>1
  <1>3. q = [i \in 1..Len(q) |-> q[i]] /\ Len(q) \in Nat
    BY LenProperties
  <1>4. q \in [1..Len(q) -> 1..(n + 1)]
    BY <1>2, <1>3
  <1> QED BY <1>3, <1>4

LEMMA AscendingOnce ==
    ASSUME NEW n \in Nat, NEW q \in Seq(1..n), Ascending(q)
    PROVE  NoDup(q)
  <1>1. ASSUME NEW i \in 1..Len(q), NEW j \in 1..Len(q), q[i] = q[j]
        PROVE  i = j
    <2>1. q[i] \in 1..n /\ i \in Nat /\ j \in Nat
      BY ElementOfSeq, LenProperties
    <2>2. ~(i < j) /\ ~(j < i)
      BY <1>1, <2>1 DEF Ascending
    <2> QED BY <2>1, <2>2
  <1> QED BY <1>1 DEF NoDup

\* The first message goes to a reader.
LEMMA OrderedHand ==
    ASSUME NEW n \in Nat, NEW h, NEW q, Ordered(n, h, q), q # <<>>
    PROVE  /\ Ordered(n, Append(h, Head(q)), Tail(q))
           /\ Head(q) \in 1..n /\ Within(Head(q), q) /\ ~Within(Head(q), h)
           /\ \A m : Within(m, Tail(q)) <=> Within(m, q) /\ m # Head(q)
           /\ \A m : Within(m, Append(h, Head(q))) <=> Within(m, h) \/ m = Head(q)
  <1>1. /\ h \in Seq(1..n) /\ q \in Seq(1..n) /\ Ascending(h) /\ Ascending(q)
        /\ \A i \in 1..Len(h), j \in 1..Len(q) : h[i] < q[j]
    BY DEF Ordered
  <1>2. /\ Len(q) \in Nat /\ Len(q) > 0 /\ Head(q) = q[1] /\ Head(q) \in 1..n
        /\ Tail(q) \in Seq(1..n) /\ Len(Tail(q)) = Len(q) - 1
        /\ \A i \in 1..(Len(q) - 1) : Tail(q)[i] = q[i + 1]
    BY <1>1, HeadTailProperties, LenProperties, EmptySeq
  <1>3. \A i \in 1..Len(h) : h[i] < Head(q) /\ h[i] \in 1..n
    BY <1>1, <1>2, ElementOfSeq
  <1>4. ~Within(Head(q), h)
    BY <1>2, <1>3 DEF Within
  <1>5. NoDup(h) /\ NoDup(q)
    BY <1>1, AscendingOnce
  <1>6. /\ Within(Head(q), q)
        /\ \A m : Within(m, Tail(q)) <=> Within(m, q) /\ m # Head(q)
    BY <1>1, <1>5, TailRemoves
  <1>7. \A m : Within(m, Append(h, Head(q))) <=> Within(m, h) \/ m = Head(q)
    BY <1>1, <1>2, <1>4, <1>5, AppendNew
  <1>8. Ascending(Append(h, Head(q)))
    BY <1>1, <1>2, <1>3, AscendingAppend
  <1>9. Ascending(Tail(q))
    <2> SUFFICES ASSUME NEW i \in 1..(Len(q) - 1), NEW j \in 1..(Len(q) - 1), i < j
                 PROVE  Tail(q)[i] < Tail(q)[j]
      BY <1>2 DEF Ascending
    <2>1. i + 1 \in 1..Len(q) /\ j + 1 \in 1..Len(q) /\ i + 1 < j + 1
      BY <1>2
    <2> QED BY <1>1, <1>2, <2>1 DEF Ascending
  <1>10. /\ Append(h, Head(q)) \in Seq(1..n) /\ Len(h) \in Nat
         /\ Len(Append(h, Head(q))) = Len(h) + 1
         /\ \A i \in 1..Len(h) : Append(h, Head(q))[i] = h[i]
         /\ Append(h, Head(q))[Len(h) + 1] = Head(q)
    BY <1>1, <1>2, AppendProperties, LenProperties
  <1>11. ASSUME NEW i \in 1..(Len(h) + 1), NEW j \in 1..(Len(q) - 1)
         PROVE  Append(h, Head(q))[i] < Tail(q)[j]
    <2>1. j + 1 \in 1..Len(q) /\ 1 \in 1..Len(q) /\ 1 < j + 1 /\ Tail(q)[j] = q[j + 1]
      BY <1>2
    <2>2. CASE i = Len(h) + 1
      <3>1. q[1] < q[j + 1]
        BY <1>1, <2>1 DEF Ascending
      <3> QED BY <1>2, <1>10, <2>1, <2>2, <3>1
    <2>3. CASE i # Len(h) + 1
      <3>1. i \in 1..Len(h)
        BY <1>10, <2>3
      <3> QED BY <1>1, <1>10, <2>1, <3>1
    <2> QED BY <2>2, <2>3
  <1>12. Ordered(n, Append(h, Head(q)), Tail(q))
    BY <1>2, <1>8, <1>9, <1>10, <1>11 DEF Ordered
  <1> QED BY <1>2, <1>4, <1>6, <1>7, <1>12

\* A new message joins the others in the channel.
LEMMA OrderedAccept ==
    ASSUME NEW n \in Nat, NEW h, NEW q, Ordered(n, h, q)
    PROVE  /\ Ordered(n + 1, h, Append(q, n + 1))
           /\ ~Within(n + 1, h) /\ ~Within(n + 1, q)
           /\ \A m : Within(m, Append(q, n + 1)) <=> Within(m, q) \/ m = n + 1
  <1>1. /\ h \in Seq(1..n) /\ q \in Seq(1..n) /\ Ascending(h) /\ Ascending(q)
        /\ \A i \in 1..Len(h), j \in 1..Len(q) : h[i] < q[j]
    BY DEF Ordered
  <1>2. /\ \A i \in 1..Len(h) : h[i] \in 1..n /\ h[i] < n + 1
        /\ \A i \in 1..Len(q) : q[i] \in 1..n /\ q[i] < n + 1
    BY <1>1, ElementOfSeq
  <1>3. ~Within(n + 1, h) /\ ~Within(n + 1, q)
    BY <1>2 DEF Within
  <1>4. NoDup(q)
    BY <1>1, AscendingOnce
  <1>5. n + 1 \in 1..(n + 1) /\ n + 1 \in Nat /\ q \in Seq(1..(n + 1)) /\ h \in Seq(1..(n + 1))
    BY <1>1, SeqWider
  <1>6. \A m : Within(m, Append(q, n + 1)) <=> Within(m, q) \/ m = n + 1
    BY <1>3, <1>4, <1>5, AppendNew
  <1>7. Ascending(Append(q, n + 1))
    BY <1>1, <1>2, <1>5, AscendingAppend
  <1>8. /\ Append(q, n + 1) \in Seq(1..(n + 1)) /\ Len(q) \in Nat
        /\ Len(Append(q, n + 1)) = Len(q) + 1
        /\ \A i \in 1..Len(q) : Append(q, n + 1)[i] = q[i]
        /\ Append(q, n + 1)[Len(q) + 1] = n + 1
    BY <1>5, AppendProperties, LenProperties
  <1>9. ASSUME NEW i \in 1..Len(h), NEW j \in 1..(Len(q) + 1)
        PROVE  h[i] < Append(q, n + 1)[j]
    <2>1. j \in 1..Len(q) \/ j = Len(q) + 1
      BY <1>8
    <2> QED BY <1>1, <1>2, <1>8, <2>1
  <1>10. Ordered(n + 1, h, Append(q, n + 1))
    BY <1>1, <1>5, <1>7, <1>8, <1>9 DEF Ordered
  <1> QED BY <1>3, <1>6, <1>10

\* A new message goes straight to a reader.
LEMMA OrderedPass ==
    ASSUME NEW n \in Nat, NEW h, NEW q, Ordered(n, h, q), q = <<>>
    PROVE  /\ Ordered(n + 1, Append(h, n + 1), q)
           /\ ~Within(n + 1, h)
           /\ \A m : Within(m, Append(h, n + 1)) <=> Within(m, h) \/ m = n + 1
  <1>1. h \in Seq(1..n) /\ q \in Seq(1..n) /\ Ascending(h) /\ Ascending(q)
    BY DEF Ordered
  <1>2. \A i \in 1..Len(h) : h[i] \in 1..n /\ h[i] < n + 1
    BY <1>1, ElementOfSeq
  <1>3. ~Within(n + 1, h)
    BY <1>2 DEF Within
  <1>4. NoDup(h)
    BY <1>1, AscendingOnce
  <1>5. n + 1 \in 1..(n + 1) /\ n + 1 \in Nat /\ q \in Seq(1..(n + 1)) /\ h \in Seq(1..(n + 1))
    BY <1>1, SeqWider
  <1>6. \A m : Within(m, Append(h, n + 1)) <=> Within(m, h) \/ m = n + 1
    BY <1>3, <1>4, <1>5, AppendNew
  <1>7. Ascending(Append(h, n + 1))
    BY <1>1, <1>2, <1>5, AscendingAppend
  <1>8. Append(h, n + 1) \in Seq(1..(n + 1)) /\ Len(q) = 0
    BY <1>5, AppendProperties, EmptySeq
  <1>9. Ordered(n + 1, Append(h, n + 1), q)
    BY <1>1, <1>5, <1>7, <1>8 DEF Ordered
  <1> QED BY <1>3, <1>6, <1>9

\* A message is taken back.
LEMMA OrderedGiveUp ==
    ASSUME NEW n \in Nat, NEW h, NEW q, Ordered(n, h, q), NEW p \in 1..Len(q)
    PROVE  /\ Ordered(n, h, RemoveAt(q, p))
           /\ ~Within(q[p], h) /\ ~Within(q[p], RemoveAt(q, p))
           /\ \A m : Within(m, RemoveAt(q, p)) => Within(m, q)
           /\ \A m : Within(m, q) /\ m # q[p] => Within(m, RemoveAt(q, p))
  <1> DEFINE z == RemoveAt(q, p)
  <1>1. /\ h \in Seq(1..n) /\ q \in Seq(1..n) /\ Ascending(h) /\ Ascending(q)
        /\ \A i \in 1..Len(h), j \in 1..Len(q) : h[i] < q[j]
    BY DEF Ordered
  <1>2. /\ Len(q) \in Nat /\ z \in Seq(1..n) /\ Len(z) = Len(q) - 1
        /\ \A i \in 1..(Len(q) - 1) : z[i] = IF i < p THEN q[i] ELSE q[i + 1]
    BY <1>1, RemoveAtLeaves, LenProperties
  <1>3. \A m : Within(m, z) <=> Within(m, q) /\ m # q[p]
    BY <1>1, AscendingOnce, RemoveFirstRemoves
  <1>4. ~Within(q[p], h)
    <2>1. \A i \in 1..Len(h) : h[i] \in 1..n /\ h[i] < q[p] /\ q[p] \in 1..n
      BY <1>1, ElementOfSeq
    <2>2. \A i \in 1..Len(h) : h[i] # q[p]
      BY <2>1
    <2> QED BY <2>2 DEF Within
  <1> HIDE DEF z
  <1>5. Ascending(z)
    <2> SUFFICES ASSUME NEW i \in 1..(Len(q) - 1), NEW j \in 1..(Len(q) - 1), i < j
                 PROVE  z[i] < z[j]
      BY <1>2 DEF Ascending
    <2>1. /\ i \in 1..Len(q) /\ i + 1 \in 1..Len(q) /\ j \in 1..Len(q) /\ j + 1 \in 1..Len(q)
          /\ i < j /\ i < j + 1 /\ i + 1 < j + 1 /\ (j < p => i < p)
      BY <1>2
    <2> QED BY <1>1, <1>2, <2>1 DEF Ascending
  <1>6. ASSUME NEW i \in 1..Len(h), NEW j \in 1..(Len(q) - 1)
        PROVE  h[i] < z[j]
    <2>1. j \in 1..Len(q) /\ j + 1 \in 1..Len(q)
      BY <1>2
    <2> QED BY <1>1, <1>2, <2>1
  <1>7. Ordered(n, h, z)
    BY <1>1, <1>2, <1>5, <1>6 DEF Ordered
  <1> QED BY <1>3, <1>4, <1>7 DEF z

\* The messages in the channel are dropped.
LEMMA OrderedClose ==
    ASSUME NEW n \in Nat, NEW h, NEW q, Ordered(n, h, q)
    PROVE  Ordered(n, h, <<>>) /\ \A m : ~Within(m, <<>>)
  <1>1. <<>> \in Seq(1..n) /\ Len(<<>>) = 0
    BY EmptySeq
  <1> QED BY <1>1 DEF Ordered, Ascending, Within

---------------------------------------------------------------------------
(* The waiting tasks *)

\* While the program of a task runs, the tasks in the channel's lists are
\* suspended and not yet woken.
LEMMA QueuedSuspended ==
    ASSUME IInv, JoinInv, NoSignals, QueuesOK, NEW t \in Task, Running(t)
    PROVE  /\ current = t /\ co[t] = "run" /\ op[t] = "none"
           /\ \A u \in Task : Within(u, ch_rtaskq) \/ Within(u, ch_wtaskq) =>
                  u # t /\ co[u] = "parked" /\ ~t_prev[u]
  <1>1. current = t /\ co[t] = "run" /\ op[t] = "none"
    BY DEF Running, NoSignals, JoinInv, OpInside
  <1>2. \A u \in Task : co[u] # "back"
    BY <1>1 DEF IInv, OnePlace
  <1> QED BY <1>1, <1>2 DEF QueuesOK, Unserved

\* The messages of the waiting writers are in the channel.
LEMMA WritersInside ==
    ASSUME NEW S, NEW c \in Nat, NEW n \in 0..c, NEW r \in Nat \ {0}, c > 0 => r <= c,
           NEW ring \in [1..c -> S], NEW wq \in Seq(Task), NEW req \in [Task -> S],
           NEW u, Within(u, wq)
    PROVE  Within(req[u], Messages(c, n, r, ring, wq, req))
  <1>1. PICK p \in 1..Len(wq) : wq[p] = u
    BY DEF Within
  <1>2. AreMessages(S, Messages(c, n, r, ring, wq, req), n + Len(wq), c, n, r, ring, wq, req)
    BY MessagesAre
  <1>3. /\ n + p \in 1..(n + Len(wq)) /\ ~(n + p <= n) /\ (n + p) - n = p
        /\ Len(wq) \in Nat
    BY LenProperties
  <1>4. Messages(c, n, r, ring, wq, req)[n + p] = req[u]
    BY <1>1, <1>2, <1>3 DEF AreMessages
  <1>5. n + p \in 1..Len(Messages(c, n, r, ring, wq, req))
    BY <1>2, <1>3 DEF AreMessages
  <1> QED BY <1>4, <1>5 DEF Within

---------------------------------------------------------------------------
(* What becomes of the messages *)

LEMMA InsideIs ==
    ASSUME NEW q, NEW m
    PROVE  Contains(q, m) <=> Within(m, q)
  BY DEF Contains, Within

\* The oldest message goes to a reader, and perhaps a waiting writer is
\* served.
LEMMA HandKeeps ==
    ASSUME ChanInv, Open, Content # <<>>, NEW e \in {0, Nil},
           handed' = Append(handed, Head(Content)), Content' = Tail(Content),
           received' = received \cup {<<Head(Content), e>>},
           UNCHANGED <<sent, failed, sending, op>>,
           \A u \in Task : op[u] = "write" =>
               /\ Unserved(u) => Within(t_svcreq[u], Content)
               /\ Unserved(u)' => /\ Unserved(u) /\ t_svcreq'[u] = t_svcreq[u]
                                  /\ Within(t_svcreq[u], Content')
               /\ ~Ended(u, EPIPE)'
               /\ Ended(u, 0)' => Ended(u, 0) \/ Unserved(u),
           \A u \in Task : op[u] = "read" /\ Ended(u, 0) =>
               Ended(u, 0)' /\ t_svcreq'[u] = t_svcreq[u]
    PROVE  /\ Ordered(sent, handed, Content)'
           /\ WritesOK' /\ FailedOK' /\ HeldOK'
  <1>1. Ordered(sent, handed, Content) /\ sent \in Nat
    BY DEF ChanInv, StoreOK
  <1>2. PICK m \in 1..sent : m = Head(Content)
    BY <1>1, OrderedHand
  <1>3. /\ Ordered(sent, handed', Content')
        /\ Within(m, Content) /\ ~Within(m, handed)
        /\ \A x : Within(x, Content') <=> Within(x, Content) /\ x # m
        /\ \A x : Within(x, handed') <=> Within(x, handed) \/ x = m
    BY <1>1, <1>2, OrderedHand
  <1>4. Ordered(sent, handed, Content)'
    BY <1>3 DEF Ordered, Ascending
  <1>5. /\ \A x : Handed(x) <=> Within(x, handed)
        /\ \A x : Handed(x)' <=> Within(x, handed')
        /\ \A x : Contains(Content, x) <=> Within(x, Content)
        /\ \A x : Contains(Content, x)' <=> Within(x, Content')
    BY DEF Handed, Contains, Within
  <1>6. FailedOK'
    BY <1>3, <1>5 DEF ChanInv, FailedOK
  <1>7. HeldOK'
    <2> SUFFICES ASSUME NEW x \in Msg, Handed(x)'
                 PROVE  \/ Received(x)'
                        \/ \E u \in Task : t_svcreq'[u] = x /\ op'[u] = "read" /\ Ended(u, 0)'
      BY DEF HeldOK
    <2>1. CASE x = m
      BY <1>2, <2>1 DEF Received
    <2>2. CASE x # m
      <3>1. Received(x) \/ \E u \in Task : t_svcreq[u] = x /\ op[u] = "read" /\ Ended(u, 0)
        BY <1>3, <1>5, <2>2 DEF ChanInv, HeldOK
      <3> QED BY <3>1 DEF Received
    <2> QED BY <2>1, <2>2
  <1>8. WritesOK'
    <2>1. ASSUME NEW u \in Task, op[u] = "write"
          PROVE  /\ sending[u] \in 1..sent
                 /\ Unserved(u)' => t_svcreq'[u] = sending[u]
                 /\ Unserved(u)' => ~Handed(sending[u])'
                 /\ Ended(u, 0)' => Handed(sending[u])' \/ Contains(Content, sending[u])'
      <3>1. /\ sending[u] \in 1..sent
            /\ Unserved(u) => t_svcreq[u] = sending[u]
            /\ Unserved(u) => ~Handed(sending[u])
            /\ Ended(u, 0) => Handed(sending[u]) \/ Contains(Content, sending[u])
        BY <2>1 DEF ChanInv, WritesOK
      <3> QED BY <2>1, <3>1, <1>3, <1>5
    <2> QED BY <2>1 DEF WritesOK, ChanInv
  <1> QED BY <1>4, <1>6, <1>7, <1>8

\* A message from the running task t enters the channel; if o = "write", t
\* waits with it.
LEMMA AcceptKeeps ==
    ASSUME ChanInv, Open, Open', NEW t \in Task, op[t] = "none", NEW o \in {"none", "write"},
           sent' = sent + 1, sent + 1 \in Nat, Content' = Append(Content, sent + 1),
           UNCHANGED <<handed, failed, received>>,
           op' = [op EXCEPT ![t] = o], op \in [Task -> OpName],
           o = "write" => /\ sending' = [sending EXCEPT ![t] = sent + 1]
                          /\ t_svcreq' = [t_svcreq EXCEPT ![t] = sent + 1]
                          /\ Unserved(t)',
           o = "none" => UNCHANGED <<sending, t_svcreq>>,
           \A v \in Task \ {t} : /\ Unserved(v)' <=> Unserved(v)
                                 /\ Ended(v, 0)' <=> Ended(v, 0)
                                 /\ Ended(v, EPIPE)' <=> Ended(v, EPIPE)
    PROVE  /\ Ordered(sent, handed, Content)'
           /\ WritesOK' /\ FailedOK' /\ HeldOK'
  <1>1. Ordered(sent, handed, Content) /\ sent \in Nat
    BY DEF ChanInv, StoreOK
  <1>2. PICK m \in Nat : m = sent + 1
    OBVIOUS
  <1>3. /\ Ordered(m, handed, Content')
        /\ ~Within(m, handed) /\ ~Within(m, Content)
        /\ \A x : Within(x, Content') <=> Within(x, Content) \/ x = m
    BY <1>1, <1>2, OrderedAccept
  <1>4. Ordered(sent, handed, Content)'
    BY <1>2, <1>3 DEF Ordered, Ascending
  <1>5. /\ \A x : Handed(x) <=> Within(x, handed)
        /\ \A x : Handed(x)' <=> Within(x, handed)
        /\ \A x : Contains(Content, x) <=> Within(x, Content)
        /\ \A x : Contains(Content, x)' <=> Within(x, Content')
    BY DEF Handed, Contains, Within
  <1>6. \A x \in 1..sent : x \in 1..sent' /\ x # m
    BY <1>1, <1>2
  <1>7. FailedOK'
    BY <1>3, <1>5, <1>6 DEF ChanInv, FailedOK
  <1>8. /\ op'[t] = o
        /\ \A v \in Task \ {t} : /\ op'[v] = op[v] /\ sending'[v] = sending[v]
                                 /\ t_svcreq'[v] = t_svcreq[v]
        /\ o = "write" => sending'[t] = m /\ t_svcreq'[t] = m
    BY <1>2 DEF ChanInv, StoreOK
  <1>9. HeldOK'
    <2> SUFFICES ASSUME NEW x \in Msg, Handed(x)'
                 PROVE  \/ Received(x)'
                        \/ \E u \in Task : t_svcreq'[u] = x /\ op'[u] = "read" /\ Ended(u, 0)'
      BY DEF HeldOK
    <2>1. Received(x) \/ \E u \in Task : t_svcreq[u] = x /\ op[u] = "read" /\ Ended(u, 0)
      BY <1>5 DEF ChanInv, HeldOK
    <2> QED BY <1>8, <2>1 DEF Received
  <1>10. ASSUME NEW u \in Task, op'[u] = "write"
         PROVE  /\ u = t \/ (u # t /\ op[u] = "write" /\ sending[u] \in 1..sent)
                /\ sending'[u] \in 1..sent'
                /\ Unserved(u)' => t_svcreq'[u] = sending'[u]
                /\ Unserved(u)' \/ Ended(u, EPIPE)' => ~Handed(sending[u])'
                /\ Ended(u, 0)' => \/ Handed(sending[u])' \/ Contains(Content, sending[u])'
                                   \/ ~Open'
    <2>1. CASE u = t
      <3>1. sending'[u] = m /\ t_svcreq'[u] = m /\ m \in 1..sent' /\ ~Within(m, handed)
            /\ Within(m, Content')
        BY <1>1, <1>2, <1>3, <1>8, <1>10, <2>1
      <3> QED BY <1>5, <2>1, <3>1
    <2>2. CASE u # t
      <3>1. /\ op[u] = "write" /\ sending'[u] = sending[u] /\ t_svcreq'[u] = t_svcreq[u]
            /\ sending[u] \in 1..sent
            /\ Unserved(u) => t_svcreq[u] = sending[u]
            /\ Unserved(u) \/ Ended(u, EPIPE) => ~Handed(sending[u])
            /\ Ended(u, 0) => Handed(sending[u]) \/ Contains(Content, sending[u]) \/ ~Open
        BY <1>8, <1>10, <2>2 DEF ChanInv, WritesOK
      <3> QED BY <1>3, <1>5, <1>6, <2>2, <3>1
    <2> QED BY <2>1, <2>2
  <1>11. \A u, v \in Task :
             op'[u] = "write" /\ op'[v] = "write" /\ sending'[u] = sending'[v] => u = v
    <2> SUFFICES ASSUME NEW u \in Task, NEW v \in Task, op'[u] = "write", op'[v] = "write",
                        sending'[u] = sending'[v]
                 PROVE  u = v
      OBVIOUS
    <2>1. CASE u = t \/ v = t
      BY <1>6, <1>8, <1>10, <2>1
    <2>2. CASE u # t /\ v # t
      BY <1>8, <2>2 DEF ChanInv, WritesOK
    <2> QED BY <2>1, <2>2
  <1>12. WritesOK'
    BY <1>10, <1>11 DEF WritesOK
  <1> QED BY <1>4, <1>7, <1>9, <1>12

\* A message from the running task goes straight to the waiting reader r.
LEMMA PassKeeps ==
    ASSUME ChanInv, Open, Open', Content = <<>>, Content' = <<>>,
           NEW r \in Task, op[r] = "read", ~Ended(r, 0), Ended(r, 0)',
           sent' = sent + 1, handed' = Append(handed, sent + 1),
           t_svcreq' = [t_svcreq EXCEPT ![r] = sent + 1],
           UNCHANGED <<failed, received, sending, op>>,
           \A v \in Task \ {r} : /\ Unserved(v)' <=> Unserved(v)
                                 /\ Ended(v, 0)' <=> Ended(v, 0)
                                 /\ Ended(v, EPIPE)' <=> Ended(v, EPIPE)
    PROVE  /\ Ordered(sent, handed, Content)'
           /\ WritesOK' /\ FailedOK' /\ HeldOK'
  <1>1. Ordered(sent, handed, Content) /\ sent \in Nat
    BY DEF ChanInv, StoreOK
  <1>2. PICK m \in Nat : m = sent + 1
    BY <1>1
  <1>3. /\ Ordered(m, handed', <<>>)
        /\ ~Within(m, handed)
        /\ \A x : Within(x, handed') <=> Within(x, handed) \/ x = m
    BY <1>1, <1>2, OrderedPass
  <1>4. Ordered(sent, handed, Content)'
    BY <1>2, <1>3 DEF Ordered, Ascending
  <1>5. /\ \A x : Handed(x) <=> Within(x, handed)
        /\ \A x : Handed(x)' <=> Within(x, handed')
        /\ \A x : Contains(Content, x)' <=> Contains(Content, x)
    BY DEF Handed, Contains, Within
  <1>6. \A x \in 1..sent : x \in 1..sent' /\ x # m
    BY <1>1, <1>2
  <1>7. FailedOK'
    BY <1>3, <1>5, <1>6 DEF ChanInv, FailedOK
  <1>8. /\ t_svcreq'[r] = m
        /\ \A v \in Task \ {r} : t_svcreq'[v] = t_svcreq[v]
    BY <1>2 DEF ChanInv, StoreOK
  <1>9. HeldOK'
    <2> SUFFICES ASSUME NEW x \in Msg, Handed(x)'
                 PROVE  \/ Received(x)'
                        \/ \E u \in Task : t_svcreq'[u] = x /\ op'[u] = "read" /\ Ended(u, 0)'
      BY DEF HeldOK
    <2>1. CASE x = m
      BY <1>8, <2>1
    <2>2. CASE x # m
      <3>1. Received(x) \/ \E u \in Task : t_svcreq[u] = x /\ op[u] = "read" /\ Ended(u, 0)
        BY <1>3, <1>5, <2>2 DEF ChanInv, HeldOK
      <3> QED BY <1>8, <3>1 DEF Received
    <2> QED BY <2>1, <2>2
  <1>10. ASSUME NEW u \in Task, op[u] = "write"
         PROVE  /\ sending[u] \in 1..sent'
                /\ Unserved(u)' => t_svcreq'[u] = sending[u]
                /\ Unserved(u)' \/ Ended(u, EPIPE)' => ~Handed(sending[u])'
                /\ Ended(u, 0)' => Handed(sending[u])' \/ Contains(Content, sending[u])'
    <2>1. /\ u # r /\ t_svcreq'[u] = t_svcreq[u] /\ sending[u] \in 1..sent
          /\ Unserved(u) => t_svcreq[u] = sending[u]
          /\ Unserved(u) \/ Ended(u, EPIPE) => ~Handed(sending[u])
          /\ Ended(u, 0) => Handed(sending[u]) \/ Contains(Content, sending[u])
      BY <1>8, <1>10 DEF ChanInv, WritesOK
    <2> QED BY <1>3, <1>5, <1>6, <2>1
  <1>11. WritesOK'
    BY <1>10 DEF WritesOK, ChanInv
  <1> QED BY <1>4, <1>7, <1>9, <1>11

\* The write that t is inside of returns, and its message may leave the
\* channel.
LEMMA WriteOverKeeps ==
    ASSUME ChanInv, Open' <=> Open, NEW t \in Task, op[t] = "write", op \in [Task -> OpName],
           op' = [op EXCEPT ![t] = "none"], sending' = [sending EXCEPT ![t] = NoMsg],
           UNCHANGED <<sent, handed, received, t_svcreq>>,
           Ordered(sent, handed, Content'),
           \A x : Within(x, Content') => Within(x, Content),
           \A x : Within(x, Content) /\ x # sending[t] => Within(x, Content'),
           \/ failed' = failed
           \/ /\ failed' = failed \cup {sending[t]}
              /\ ~Handed(sending[t]) /\ ~Within(sending[t], Content'),
           \A v \in Task \ {t} : /\ Unserved(v)' <=> Unserved(v)
                                 /\ Ended(v, 0)' <=> Ended(v, 0)
                                 /\ Ended(v, EPIPE)' <=> Ended(v, EPIPE)
    PROVE  /\ Ordered(sent, handed, Content)'
           /\ WritesOK' /\ FailedOK' /\ HeldOK'
  <1>1. Ordered(sent, handed, Content)'
    BY DEF Ordered, Ascending
  <1>2. /\ \A x : Handed(x)' <=> Handed(x)
        /\ \A x : Received(x)' <=> Received(x)
        /\ \A x : Contains(Content, x) <=> Within(x, Content)
        /\ \A x : Contains(Content, x)' <=> Within(x, Content')
    BY DEF Handed, Received, Contains, Within
  <1>3. sending[t] \in 1..sent
    BY DEF ChanInv, WritesOK
  <1>4. FailedOK'
    BY <1>2, <1>3 DEF ChanInv, FailedOK
  <1>5. /\ op'[t] = "none"
        /\ \A v \in Task \ {t} : op'[v] = op[v] /\ sending'[v] = sending[v]
    BY DEF ChanInv, StoreOK
  <1>6. HeldOK'
    BY <1>2, <1>5 DEF ChanInv, HeldOK
  <1>7. ASSUME NEW u \in Task, op'[u] = "write"
        PROVE  /\ u # t /\ op[u] = "write" /\ sending'[u] = sending[u] /\ sending[u] \in 1..sent
               /\ Unserved(u)' => t_svcreq'[u] = sending[u]
               /\ Unserved(u)' \/ Ended(u, EPIPE)' => ~Handed(sending[u])'
               /\ Ended(u, 0)' => \/ Handed(sending[u])' \/ Contains(Content, sending[u])'
                                  \/ ~Open'
    <2>1. /\ u # t /\ op[u] = "write" /\ sending'[u] = sending[u] /\ sending[u] # sending[t]
          /\ sending[u] \in 1..sent
          /\ Unserved(u) => t_svcreq[u] = sending[u]
          /\ Unserved(u) \/ Ended(u, EPIPE) => ~Handed(sending[u])
          /\ Ended(u, 0) => Handed(sending[u]) \/ Contains(Content, sending[u]) \/ ~Open
      BY <1>5, <1>7 DEF ChanInv, WritesOK
    <2> QED BY <1>2, <2>1
  <1>8. WritesOK'
    BY <1>7 DEF WritesOK, ChanInv
  <1> QED BY <1>1, <1>4, <1>6, <1>8

\* The read that t is inside of returns, with the message it was given or
\* with none.
LEMMA ReadOverKeeps ==
    ASSUME ChanInv, Open' <=> Open, Content' = Content,
           NEW t \in Task, op[t] = "read", op \in [Task -> OpName],
           op' = [op EXCEPT ![t] = "none"],
           UNCHANGED <<sent, handed, failed, sending>>,
           \/ ~Ended(t, 0) /\ UNCHANGED <<t_svcreq, received>>
           \/ /\ received' = received \cup {<<t_svcreq[t], 0>>}
              /\ t_svcreq' = [t_svcreq EXCEPT ![t] = NoMsg],
           \A v \in Task \ {t} : /\ Unserved(v)' <=> Unserved(v)
                                 /\ Ended(v, 0)' <=> Ended(v, 0)
                                 /\ Ended(v, EPIPE)' <=> Ended(v, EPIPE)
    PROVE  /\ Ordered(sent, handed, Content)'
           /\ WritesOK' /\ FailedOK' /\ HeldOK'
  <1>1. Ordered(sent, handed, Content)'
    BY DEF ChanInv, Ordered, Ascending
  <1>2. /\ \A x : Handed(x)' <=> Handed(x)
        /\ \A x : Contains(Content, x)' <=> Contains(Content, x)
        /\ \A x : Received(x) => Received(x)'
    BY DEF Handed, Received
  <1>3. FailedOK'
    BY <1>2 DEF ChanInv, FailedOK
  <1>4. /\ op'[t] = "none"
        /\ \A v \in Task \ {t} : op'[v] = op[v] /\ t_svcreq'[v] = t_svcreq[v]
    BY DEF ChanInv, StoreOK
  <1>5. HeldOK'
    <2> SUFFICES ASSUME NEW x \in Msg, Handed(x)'
                 PROVE  \/ Received(x)'
                        \/ \E u \in Task : t_svcreq'[u] = x /\ op'[u] = "read" /\ Ended(u, 0)'
      BY DEF HeldOK
    <2>1. Received(x) \/ \E u \in Task : t_svcreq[u] = x /\ op[u] = "read" /\ Ended(u, 0)
      BY <1>2 DEF ChanInv, HeldOK
    <2>2. CASE t_svcreq[t] = x /\ Ended(t, 0)
      BY <2>2 DEF Received
    <2> QED BY <1>2, <1>4, <2>1, <2>2
  <1>6. WritesOK'
    BY <1>2, <1>4 DEF WritesOK, ChanInv
  <1> QED BY <1>1, <1>3, <1>5, <1>6

\* The messages in the channel are dropped, and every wait ends.
LEMMA CloseKeeps ==
    ASSUME ChanInv, Open, ~Open', Content' = <<>>,
           UNCHANGED <<sent, handed, failed, received, sending, t_svcreq, op>>,
           \A v \in Task : op[v] \in {"read", "write"} =>
               /\ ~Unserved(v)'
               /\ Ended(v, 0)' <=> Ended(v, 0)
               /\ Ended(v, EPIPE)' => Unserved(v) \/ Ended(v, EPIPE)
    PROVE  /\ Ordered(sent, handed, Content)'
           /\ WritesOK' /\ FailedOK' /\ HeldOK'
  <1>1. Ordered(sent, handed, Content) /\ sent \in Nat
    BY DEF ChanInv, StoreOK
  <1>2. Ordered(sent, handed, <<>>) /\ \A x : ~Within(x, <<>>)
    BY <1>1, OrderedClose
  <1>3. Ordered(sent, handed, Content)'
    BY <1>2 DEF Ordered, Ascending
  <1>4. /\ \A x : Handed(x)' <=> Handed(x)
        /\ \A x : ~Contains(Content, x)'
        /\ \A x : Received(x)' <=> Received(x)
    BY <1>2 DEF Handed, Received, Contains, Within
  <1>5. FailedOK' /\ HeldOK'
    BY <1>4 DEF ChanInv, FailedOK, HeldOK
  <1>6. WritesOK'
    BY <1>4 DEF WritesOK, ChanInv
  <1> QED BY <1>3, <1>5, <1>6

---------------------------------------------------------------------------
(* What the channel holds *)

LEMMA ContentIs ==
    /\ Open => Content = Messages(ch_cap, ch_num, ch_rcursor, ch_msgring, ch_wtaskq, t_svcreq)
    /\ ~Open => Content = <<>>
    /\ Open' => Content' = Messages(ch_cap', ch_num', ch_rcursor', ch_msgring', ch_wtaskq',
                                    t_svcreq')
    /\ ~Open' => Content' = <<>>
  BY DEF Content, Messages

\* Without a stored message and without a waiting writer there is none.
LEMMA NothingInside ==
    ASSUME StoreOK, ch_num = 0, ch_wtaskq = <<>>
    PROVE  Content = <<>>
  <1>1. Open
    BY DEF Open
  <1>2. AreMessages(Stored, Content, 0 + Len(ch_wtaskq), ch_cap, 0, ch_rcursor, ch_msgring,
                    ch_wtaskq, t_svcreq)
    <2>1. 0 \in 0..ch_cap /\ ch_cap \in Nat
      BY DEF StoreOK
    <2>2. Content = Messages(ch_cap, 0, ch_rcursor, ch_msgring, ch_wtaskq, t_svcreq)
      BY <1>1, ContentIs
    <2> QED BY <2>1, <2>2, MessagesAre DEF StoreOK
  <1>3. Len(ch_wtaskq) = 0
    BY EmptySeq
  <1>4. Content \in Seq(Stored) /\ Len(Content) = 0
    BY <1>2, <1>3 DEF AreMessages
  <1> QED BY <1>4, EmptySeq

LEMMA NoMsgStored ==
    NoMsg \in Stored
  BY ChannelAssumption DEF NoMsg, Stored

\* A list is not empty if it has a member.
LEMMA HasMember ==
    ASSUME NEW S, NEW q \in Seq(S)
    PROVE  q # <<>> <=> \E x \in S : Within(x, q)
  <1>1. ASSUME q # <<>>
        PROVE  \E x \in S : Within(x, q)
    <2>1. 1 \in 1..Len(q)
      BY <1>1, EmptySeq, LenProperties
    <2> QED BY <2>1, ElementOfSeq DEF Within
  <1>2. ASSUME NEW x, Within(x, q)
        PROVE  q # <<>>
    BY <1>2, EmptySeq DEF Within
  <1> QED BY <1>1, <1>2

\* The first waiting writer is served.
LEMMA WriterServed ==
    ASSUME ChIInv, NEW t \in Task, Running(t), ch_wtaskq # <<>>,
           NEW w \in Task, w = Head(ch_wtaskq), push_ready(w, 0),
           ch_wtaskq' = Tail(ch_wtaskq),
           UNCHANGED <<ch_rtaskq, ch_num, ch_cap, taskVars, coVars, loopVars, now>>
    PROVE  /\ IInv' /\ JoinInv' /\ NoSignals' /\ QueuesOK'
           /\ Open /\ Open' /\ ch_num = ch_cap /\ ch_wtaskq' \in Seq(Task)
           /\ op' = op /\ op[w] = "write" /\ ~Within(w, ch_wtaskq')
           /\ \A u \in Task : op[u] = "write" =>
                  /\ Unserved(u) <=> Within(u, ch_wtaskq)
                  /\ Unserved(u)' <=> Within(u, ch_wtaskq')
                  /\ Unserved(u)' => Unserved(u) /\ u # w
                  /\ ~Ended(u, EPIPE)'
                  /\ Ended(u, 0)' => Ended(u, 0) \/ Unserved(u)
           /\ \A u \in Task : op[u] = "read" /\ Ended(u, 0) => Ended(u, 0)'
  <1>1. IInv /\ JoinInv /\ NoSignals /\ QueuesOK /\ ch_wtaskq \in Seq(Task)
    BY DEF ChIInv, ChanInv, StoreOK
  <1>2. /\ NoDup(ch_wtaskq') /\ ch_wtaskq' \in Seq(Task) /\ Within(w, ch_wtaskq)
        /\ \A u : Within(u, ch_wtaskq') <=> Within(u, ch_wtaskq) /\ u # w
    BY <1>1, TailRemoves, HeadTailProperties DEF QueuesOK
  <1>3. co[w] = "parked" /\ ~t_prev[w] /\ op[w] = "write"
    BY <1>1, <1>2, QueuedSuspended DEF QueuesOK
  <1>4. Open /\ Open' /\ ch_num = ch_cap
    BY <1>1 DEF QueuesOK, Open
  <1>5. /\ op' = op
        /\ Ended(w, 0)' /\ ~Unserved(w)' /\ ~Ended(w, EPIPE)'
        /\ \A v \in Task \ {w} : /\ Unserved(v)' <=> Unserved(v)
                                 /\ Ended(v, 0)' <=> Ended(v, 0)
                                 /\ Ended(v, EPIPE)' <=> Ended(v, EPIPE)
    BY <1>1, <1>3, Served
  <1>6. IInv' /\ JoinInv' /\ NoSignals'
    BY <1>1, <1>3, ServeScheduled
  <1>7. \A u \in Task : /\ Within(u, ch_rtaskq)' <=> Within(u, ch_rtaskq)
                        /\ Within(u, ch_wtaskq)' <=> Within(u, ch_wtaskq')
    BY DEF Within
  <1>8. \A u \in Task : op[u] = "write" =>
            /\ Unserved(u) <=> Within(u, ch_wtaskq)
            /\ Unserved(u)' <=> Within(u, ch_wtaskq')
            /\ Unserved(u)' => Unserved(u) /\ u # w
            /\ ~Ended(u, EPIPE)'
            /\ Ended(u, 0)' => Ended(u, 0) \/ Unserved(u)
    BY <1>1, <1>2, <1>3, <1>4, <1>5, OneOutcome DEF QueuesOK
  <1>9. \A u \in Task : op[u] = "read" =>
            /\ u # w
            /\ Unserved(u)' <=> Unserved(u)
            /\ Ended(u, 0)' <=> Ended(u, 0)
    BY <1>3, <1>5
  <1>10. QueuesOK'
    <2>1. NoDup(ch_rtaskq)' /\ NoDup(ch_wtaskq)'
      BY <1>1, <1>2 DEF QueuesOK, NoDup
    <2>2. \A u \in Task : (Within(u, ch_rtaskq) <=> op[u] = "read" /\ Unserved(u))'
      BY <1>1, <1>5, <1>7, <1>9 DEF QueuesOK
    <2>3. \A u \in Task : (Within(u, ch_wtaskq) <=> op[u] = "write" /\ Unserved(u))'
      BY <1>1, <1>2, <1>5, <1>7, <1>8 DEF QueuesOK
    <2>4. ch_rtaskq' = <<>> /\ ch_num' = ch_cap'
      BY <1>1, <1>4 DEF QueuesOK
    <2>5. \A u \in Task : op'[u] \in {"read", "write"} =>
              Unserved(u)' \/ Ended(u, 0)' \/ (Ended(u, EPIPE) /\ ~Open)'
      BY <1>1, <1>4, <1>5 DEF QueuesOK
    <2> QED BY <1>4, <2>1, <2>2, <2>3, <2>4, <2>5 DEF QueuesOK
  <1> QED BY <1>2, <1>3, <1>4, <1>5, <1>6, <1>8, <1>9, <1>10

\* The first waiting reader is served.
LEMMA ReaderServed ==
    ASSUME ChIInv, NEW t \in Task, Running(t), ch_rtaskq # <<>>,
           NEW r \in Task, r = Head(ch_rtaskq), push_ready(r, 0),
           ch_rtaskq' = Tail(ch_rtaskq),
           UNCHANGED <<ch_wtaskq, ch_num, ch_cap, taskVars, coVars, loopVars, now>>
    PROVE  /\ IInv' /\ JoinInv' /\ NoSignals' /\ QueuesOK'
           /\ Open /\ Open' /\ ch_num = 0 /\ ch_wtaskq = <<>> /\ ch_rtaskq' \in Seq(Task)
           /\ op' = op /\ op[r] = "read" /\ ~Ended(r, 0) /\ Ended(r, 0)'
           /\ \A u \in Task \ {r} : /\ Unserved(u)' <=> Unserved(u)
                                    /\ Ended(u, 0)' <=> Ended(u, 0)
                                    /\ Ended(u, EPIPE)' <=> Ended(u, EPIPE)
  <1>1. IInv /\ JoinInv /\ NoSignals /\ QueuesOK /\ ch_rtaskq \in Seq(Task)
    BY DEF ChIInv, ChanInv, StoreOK
  <1>2. /\ NoDup(ch_rtaskq') /\ ch_rtaskq' \in Seq(Task) /\ Within(r, ch_rtaskq)
        /\ \A u : Within(u, ch_rtaskq') <=> Within(u, ch_rtaskq) /\ u # r
    BY <1>1, TailRemoves, HeadTailProperties DEF QueuesOK
  <1>3. co[r] = "parked" /\ ~t_prev[r] /\ op[r] = "read" /\ ~Ended(r, 0)
    BY <1>1, <1>2, QueuedSuspended, OneOutcome DEF QueuesOK
  <1>4. Open /\ Open' /\ ch_num = 0 /\ ch_wtaskq = <<>>
    BY <1>1 DEF QueuesOK, Open
  <1>5. /\ op' = op
        /\ Ended(r, 0)' /\ ~Unserved(r)' /\ ~Ended(r, EPIPE)'
        /\ \A v \in Task \ {r} : /\ Unserved(v)' <=> Unserved(v)
                                 /\ Ended(v, 0)' <=> Ended(v, 0)
                                 /\ Ended(v, EPIPE)' <=> Ended(v, EPIPE)
    BY <1>1, <1>3, Served
  <1>6. IInv' /\ JoinInv' /\ NoSignals'
    BY <1>1, <1>3, ServeScheduled
  <1>7. \A u \in Task : /\ Within(u, ch_rtaskq)' <=> Within(u, ch_rtaskq')
                        /\ Within(u, ch_wtaskq)' <=> Within(u, ch_wtaskq)
    BY DEF Within
  <1>8. QueuesOK'
    <2>1. NoDup(ch_rtaskq)' /\ NoDup(ch_wtaskq)'
      BY <1>1, <1>2 DEF QueuesOK, NoDup
    <2>2. \A u \in Task : (Within(u, ch_rtaskq) <=> op[u] = "read" /\ Unserved(u))'
      BY <1>1, <1>2, <1>5, <1>7 DEF QueuesOK
    <2>3. \A u \in Task : (Within(u, ch_wtaskq) <=> op[u] = "write" /\ Unserved(u))'
      BY <1>1, <1>3, <1>5, <1>7 DEF QueuesOK
    <2>4. ch_wtaskq' = <<>> /\ ch_num' = 0
      BY <1>4
    <2>5. \A u \in Task : op'[u] \in {"read", "write"} =>
              Unserved(u)' \/ Ended(u, 0)' \/ (Ended(u, EPIPE) /\ ~Open)'
      BY <1>1, <1>4, <1>5 DEF QueuesOK
    <2> QED BY <1>4, <2>1, <2>2, <2>3, <2>4, <2>5 DEF QueuesOK
  <1> QED BY <1>2, <1>3, <1>4, <1>5, <1>6, <1>8

---------------------------------------------------------------------------
(* The steps of read *)

\* The buffer has a message, and no writer waits.
LEMMA ReadStored ==
    ASSUME ChIInv, NEW t \in Task, Running(t), read_buffered(t), ch_wtaskq = <<>>,
           UNCHANGED <<loopVars, now>>
    PROVE  ChIInv' /\ Fifo!Hand
  <1>1. IInv /\ JoinInv /\ NoSignals /\ ChanInv /\ StoreOK /\ QueuesOK
    BY DEF ChIInv, ChanInv
  <1>2. /\ ch_num > 0 /\ ch_rcursor' = ring_next(ch_rcursor)
        /\ ch_msgring' = [ch_msgring EXCEPT ![ch_rcursor] = NoMsg]
        /\ ch_num' = ch_num - 1
        /\ handed' = Append(handed, ch_msgring[ch_rcursor])
        /\ received' = received \cup {<<ch_msgring[ch_rcursor], 0>>}
        /\ UNCHANGED <<ch_cap, ch_rtaskq, ch_wtaskq, ch_wcursor, t_svcreq, sent, failed,
                       sending, readyVars, taskVars, coVars>>
    BY DEF read_buffered
  <1>3. /\ ch_cap \in Nat /\ ch_num \in 1..ch_cap /\ ch_rcursor \in 1..ch_cap
        /\ ch_msgring \in [1..ch_cap -> Stored] /\ ch_wtaskq \in Seq(Task)
        /\ t_svcreq \in [Task -> Stored] /\ NoMsg \in Stored
    BY <1>1, <1>2, NoMsgStored DEF StoreOK
  <1>4. Open /\ Open'
    BY <1>2, <1>3 DEF Open
  <1>5. /\ ch_msgring' \in [1..ch_cap -> Stored]
        /\ \A k \in 1..ch_cap : k # ch_rcursor => ch_msgring'[k] = ch_msgring[k]
    BY <1>2, <1>3
  <1>6. ch_rcursor' = NextSlot(ch_cap, ch_rcursor)
    BY <1>2 DEF ring_next, NextSlot
  <1>7. /\ Content # <<>> /\ Head(Content) = ch_msgring[ch_rcursor]
        /\ Content' = Tail(Content)
    <2>1. TakesFirst(Messages(ch_cap, ch_num, ch_rcursor, ch_msgring, ch_wtaskq, t_svcreq),
                     ch_msgring[ch_rcursor],
                     Messages(ch_cap, ch_num - 1, NextSlot(ch_cap, ch_rcursor), ch_msgring',
                              ch_wtaskq, t_svcreq))
      BY <1>3, <1>5, TakeStored
    <2> QED BY <1>2, <1>4, <1>6, <2>1, ContentIs DEF TakesFirst
  <1>8. StoreOK'
    <2>1. ch_rcursor' \in 1..ch_cap
      BY <1>3, <1>6, NextSlotType
    <2>2. ch_num - 1 \in 0..ch_cap /\ ch_num - 1 < ch_cap /\ (ch_num - 1) + 1 = ch_num
      BY <1>3
    <2>3. SlotOf(ch_cap, NextSlot(ch_cap, ch_rcursor), ch_num - 1)
              = SlotOf(ch_cap, ch_rcursor, (ch_num - 1) + 1)
      BY <1>3, <2>2, Slots
    <2>4. ch_wcursor = SlotOf(ch_cap, ch_rcursor, ch_num)
      BY <1>1, <1>4 DEF StoreOK, Slot, SlotOf
    <2>5. ch_wcursor' = Slot(ch_num)'
      BY <1>2, <1>6, <2>2, <2>3, <2>4 DEF Slot, SlotOf
    <2> QED BY <1>1, <1>2, <1>3, <1>5, <2>1, <2>2, <2>5 DEF StoreOK
  <1>9. /\ op' = op
        /\ \A v \in Task : /\ Unserved(v)' <=> Unserved(v)
                           /\ Ended(v, 0)' <=> Ended(v, 0)
                           /\ Ended(v, EPIPE)' <=> Ended(v, EPIPE)
    BY <1>2, NoneServed
  <1>10. ch_rtaskq = <<>>
    BY <1>1, <1>3 DEF QueuesOK
  <1>11. QueuesOK'
    BY <1>1, <1>2, <1>4, <1>9, <1>10 DEF QueuesOK, NoDup, Within
  <1>12. \A u \in Task : op[u] = "write" => ~Unserved(u) /\ ~Ended(u, EPIPE)
    BY <1>1, <1>3, <1>4, HasMember, OneOutcome DEF QueuesOK
  <1>13. /\ Ordered(sent, handed, Content)'
         /\ WritesOK' /\ FailedOK' /\ HeldOK'
    BY <1>1, <1>2, <1>4, <1>7, <1>9, <1>12, HandKeeps
  <1>14. IInv' /\ JoinInv' /\ NoSignals'
    BY <1>1, <1>2, ServeScheduled
  <1>15. Fifo!Hand
    BY <1>2, <1>4, <1>7 DEF Fifo!Hand
  <1> QED BY <1>8, <1>11, <1>13, <1>14, <1>15 DEF ChIInv, ChanInv

\* The buffer has a message, and the first writer's takes its place.
LEMMA ReadRefilled ==
    ASSUME ChIInv, NEW t \in Task, Running(t), read_buffered(t), ch_wtaskq # <<>>,
           UNCHANGED <<loopVars, now>>
    PROVE  ChIInv' /\ Fifo!Hand
  <1>1. IInv /\ JoinInv /\ NoSignals /\ ChanInv /\ StoreOK /\ QueuesOK /\ WritesOK
    BY DEF ChIInv, ChanInv
  <1>2. PICK w \in Task : w = Head(ch_wtaskq)
    BY <1>1, HeadTailProperties DEF StoreOK
  <1>3. /\ ch_num > 0 /\ ch_rcursor' = ring_next(ch_rcursor)
        /\ ch_msgring' = [[ch_msgring EXCEPT ![ch_rcursor] = NoMsg]
                              EXCEPT ![ch_wcursor] = t_svcreq[w]]
        /\ ch_wcursor' = ring_next(ch_wcursor)
        /\ push_ready(w, 0) /\ ch_wtaskq' = Tail(ch_wtaskq)
        /\ handed' = Append(handed, ch_msgring[ch_rcursor])
        /\ received' = received \cup {<<ch_msgring[ch_rcursor], 0>>}
        /\ UNCHANGED <<ch_num, ch_cap, ch_rtaskq, t_svcreq, sent, failed, sending, taskVars,
                       coVars>>
    BY <1>2 DEF read_buffered, left_behind
  <1>4. /\ IInv' /\ JoinInv' /\ NoSignals' /\ QueuesOK'
        /\ Open /\ Open' /\ ch_num = ch_cap /\ ch_wtaskq' \in Seq(Task)
        /\ op' = op
        /\ \A u \in Task : op[u] = "write" =>
               /\ Unserved(u) <=> Within(u, ch_wtaskq)
               /\ Unserved(u)' <=> Within(u, ch_wtaskq')
               /\ Unserved(u)' => Unserved(u) /\ u # w
               /\ ~Ended(u, EPIPE)'
               /\ Ended(u, 0)' => Ended(u, 0) \/ Unserved(u)
        /\ \A u \in Task : op[u] = "read" /\ Ended(u, 0) => Ended(u, 0)'
    BY <1>2, <1>3, WriterServed
  <1>5. /\ ch_cap \in Nat /\ ch_cap > 0 /\ ch_rcursor \in 1..ch_cap
        /\ ch_rcursor \in Nat \ {0} /\ ch_rcursor <= ch_cap /\ ch_cap \in 0..ch_cap
        /\ ch_msgring \in [1..ch_cap -> Stored] /\ ch_wtaskq \in Seq(Task)
        /\ t_svcreq \in [Task -> Stored] /\ NoMsg \in Stored
    BY <1>1, <1>3, <1>4, NoMsgStored DEF StoreOK
  <1>6. ch_wcursor = ch_rcursor
    <2>1. SlotOf(ch_cap, ch_rcursor, ch_cap) = ch_rcursor
      BY <1>5, Slots
    <2> QED BY <1>1, <1>4, <2>1 DEF StoreOK, Slot, SlotOf
  <1>7. /\ ch_msgring' \in [1..ch_cap -> Stored]
        /\ \A k \in 1..ch_cap : k # ch_rcursor => ch_msgring'[k] = ch_msgring[k]
        /\ ch_msgring'[ch_rcursor] = t_svcreq[w]
    BY <1>3, <1>5, <1>6
  <1>8. ch_rcursor' = NextSlot(ch_cap, ch_rcursor) /\ ch_wcursor' = ch_rcursor'
    BY <1>3, <1>6 DEF ring_next, NextSlot
  <1>9. ch_rcursor' \in 1..ch_cap
    BY <1>5, <1>8, NextSlotType
  <1>10. /\ Content # <<>> /\ Head(Content) = ch_msgring[ch_rcursor]
         /\ Content' = Tail(Content)
    <2>1. TakesFirst(Messages(ch_cap, ch_cap, ch_rcursor, ch_msgring, ch_wtaskq, t_svcreq),
                     ch_msgring[ch_rcursor],
                     Messages(ch_cap, ch_cap, NextSlot(ch_cap, ch_rcursor), ch_msgring',
                              Tail(ch_wtaskq), t_svcreq))
      BY <1>2, <1>5, <1>7, TakeRefilled
    <2> QED BY <1>3, <1>4, <1>8, <2>1, ContentIs DEF TakesFirst
  <1>11. StoreOK'
    <2>1. SlotOf(ch_cap, ch_rcursor', ch_cap) = ch_rcursor'
      BY <1>5, <1>9, Slots
    <2>2. ch_wcursor' = Slot(ch_num)'
      BY <1>3, <1>4, <1>8, <2>1 DEF Slot, SlotOf
    <2>3. ch_rcursor' \in Nat \ {0} /\ ch_rcursor' <= ch_cap
      BY <1>5, <1>9
    <2> QED BY <1>1, <1>3, <1>4, <1>5, <1>7, <2>2, <2>3 DEF StoreOK
  <1>12. \A u \in Task :
             /\ Within(u, ch_wtaskq) => Within(t_svcreq[u], Content)
             /\ Within(u, ch_wtaskq') => Within(t_svcreq[u], Content')
    <2> SUFFICES ASSUME NEW u \in Task
                 PROVE  /\ Within(u, ch_wtaskq) => Within(t_svcreq[u], Content)
                        /\ Within(u, ch_wtaskq') => Within(t_svcreq[u], Content')
      OBVIOUS
    <2>1. Within(u, ch_wtaskq) =>
              Within(t_svcreq[u], Messages(ch_cap, ch_cap, ch_rcursor, ch_msgring, ch_wtaskq,
                                           t_svcreq))
      BY <1>5, WritersInside
    <2>2. ch_rcursor' \in Nat \ {0} /\ ch_rcursor' <= ch_cap
      BY <1>5, <1>9
    <2>3. Within(u, ch_wtaskq') =>
              Within(t_svcreq[u], Messages(ch_cap, ch_cap, ch_rcursor', ch_msgring', ch_wtaskq',
                                           t_svcreq))
      BY <1>4, <1>5, <1>7, <2>2, WritersInside
    <2> QED BY <1>3, <1>4, <2>1, <2>3, ContentIs
  <1>13. /\ Ordered(sent, handed, Content)'
         /\ WritesOK' /\ FailedOK' /\ HeldOK'
    BY <1>1, <1>3, <1>4, <1>10, <1>12, HandKeeps
  <1>14. Fifo!Hand
    BY <1>3, <1>4, <1>10 DEF Fifo!Hand
  <1> QED BY <1>4, <1>11, <1>13, <1>14 DEF ChIInv, ChanInv

\* The buffer is empty, and the first writer's message is taken.
LEMMA ReadWaiting ==
    ASSUME ChIInv, NEW t \in Task, Running(t), read_writer(t), UNCHANGED <<loopVars, now>>
    PROVE  ChIInv' /\ Fifo!Hand
  <1>1. IInv /\ JoinInv /\ NoSignals /\ ChanInv /\ StoreOK /\ QueuesOK /\ WritesOK
    BY DEF ChIInv, ChanInv
  <1>2. PICK w \in Task : w = Head(ch_wtaskq)
    BY <1>1, HeadTailProperties DEF StoreOK, read_writer
  <1>3. /\ ch_num = 0 /\ ch_wtaskq # <<>> /\ ch_wtaskq' = Tail(ch_wtaskq)
        /\ push_ready(w, 0)
        /\ t_svcreq' = [t_svcreq EXCEPT ![w] = NoMsg]
        /\ handed' = Append(handed, t_svcreq[w])
        /\ received' = received \cup {<<t_svcreq[w], Nil>>}
        /\ UNCHANGED <<ch_cap, ch_num, ch_rcursor, ch_wcursor, ch_msgring, ch_rtaskq, sent,
                       failed, sending, taskVars, coVars>>
    BY <1>2 DEF read_writer, left_behind, storeVars
  <1>4. /\ IInv' /\ JoinInv' /\ NoSignals' /\ QueuesOK'
        /\ Open /\ Open' /\ ch_wtaskq' \in Seq(Task)
        /\ op' = op /\ op[w] = "write"
        /\ \A u \in Task : op[u] = "write" =>
               /\ Unserved(u) <=> Within(u, ch_wtaskq)
               /\ Unserved(u)' <=> Within(u, ch_wtaskq')
               /\ Unserved(u)' => Unserved(u) /\ u # w
               /\ ~Ended(u, EPIPE)'
               /\ Ended(u, 0)' => Ended(u, 0) \/ Unserved(u)
        /\ \A u \in Task : op[u] = "read" /\ Ended(u, 0) => Ended(u, 0)'
    BY <1>2, <1>3, WriterServed
  <1>5. /\ ch_cap \in Nat /\ ch_rcursor \in Nat \ {0} /\ (ch_cap > 0 => ch_rcursor <= ch_cap)
        /\ 0 \in 0..ch_cap
        /\ ch_msgring \in [1..ch_cap -> Stored] /\ ch_wtaskq \in Seq(Task) /\ NoDup(ch_wtaskq)
        /\ t_svcreq \in [Task -> Stored] /\ NoMsg \in Stored
    BY <1>1, NoMsgStored DEF StoreOK, QueuesOK
  <1>6. /\ t_svcreq' \in [Task -> Stored]
        /\ \A u \in Task : u # w => t_svcreq'[u] = t_svcreq[u]
    BY <1>3, <1>5
  <1>7. /\ Content # <<>> /\ Head(Content) = t_svcreq[w]
        /\ Content' = Tail(Content)
    <2>1. TakesFirst(Messages(ch_cap, 0, ch_rcursor, ch_msgring, ch_wtaskq, t_svcreq),
                     t_svcreq[w],
                     Messages(ch_cap, 0, ch_rcursor, ch_msgring, Tail(ch_wtaskq), t_svcreq'))
      BY <1>2, <1>3, <1>5, <1>6, TakeWaiting
    <2> QED BY <1>3, <1>4, <2>1, ContentIs DEF TakesFirst
  <1>8. StoreOK'
    BY <1>1, <1>3, <1>4, <1>6 DEF StoreOK, Slot
  <1>9. \A u \in Task :
            /\ Within(u, ch_wtaskq) => Within(t_svcreq[u], Content)
            /\ Within(u, ch_wtaskq') => Within(t_svcreq'[u], Content')
    <2> SUFFICES ASSUME NEW u \in Task
                 PROVE  /\ Within(u, ch_wtaskq) => Within(t_svcreq[u], Content)
                        /\ Within(u, ch_wtaskq') => Within(t_svcreq'[u], Content')
      OBVIOUS
    <2>1. Within(u, ch_wtaskq) =>
              Within(t_svcreq[u], Messages(ch_cap, 0, ch_rcursor, ch_msgring, ch_wtaskq,
                                           t_svcreq))
      BY <1>5, WritersInside
    <2>2. Within(u, ch_wtaskq') =>
              Within(t_svcreq'[u], Messages(ch_cap, 0, ch_rcursor, ch_msgring, ch_wtaskq',
                                            t_svcreq'))
      BY <1>4, <1>5, <1>6, WritersInside
    <2> QED BY <1>3, <1>4, <2>1, <2>2, ContentIs
  <1>10. /\ Ordered(sent, handed, Content)'
         /\ WritesOK' /\ FailedOK' /\ HeldOK'
    BY <1>1, <1>3, <1>4, <1>6, <1>7, <1>9, HandKeeps
  <1>11. Fifo!Hand
    BY <1>3, <1>4, <1>7 DEF Fifo!Hand, Open
  <1> QED BY <1>4, <1>8, <1>10, <1>11 DEF ChIInv, ChanInv

\* There is nothing to read.
LEMMA ReadBlock ==
    ASSUME ChIInv, TaskAssumption, NEW t \in Task, Running(t), NEW sec \in ChSecs,
           read_block(t, sec), UNCHANGED <<loopVars, now>>
    PROVE  ChIInv' /\ UNCHANGED <<Open, ch_cap, sent, Content, handed>>
  <1>1. IInv /\ JoinInv /\ NoSignals /\ ChanInv /\ StoreOK /\ QueuesOK
    BY DEF ChIInv, ChanInv
  <1>2. /\ ch_num = 0 /\ ch_wtaskq = <<>>
        /\ ch_rtaskq' = Append(ch_rtaskq, t)
        /\ do_yield(t, "read", sec, "channel", t_nsubs)
        /\ UNCHANGED <<ch_cap, ch_num, ch_rcursor, ch_wcursor, ch_msgring, ch_wtaskq, t_svcreq,
                       sent, handed, received, failed, sending>>
    BY DEF read_block, queued, storeVars, historyVars
  <1>3. current = t /\ co[t] = "run" /\ op[t] = "none"
    BY <1>1, QueuedSuspended
  <1>4. sec \in Int /\ "channel" \in Obj \cup {NoObj} /\ "read" \in OpName
        /\ t_nsubs \in [Task -> Int]
    BY <1>1, ChannelAssumption DEF OpName, IInv, TypeOK
  <1>5. IInv' /\ JoinInv'
    BY <1>1, <1>2, <1>3, <1>4, DoYield, JoinYieldOther DEF loopVars
  <1>6. /\ op' = [op EXCEPT ![t] = "read"] /\ NoSignals'
        /\ Unserved(t)' /\ ~Ended(t, 0)' /\ ~Ended(t, EPIPE)'
        /\ \A v \in Task \ {t} : /\ Unserved(v)' <=> Unserved(v)
                                 /\ Ended(v, 0)' <=> Ended(v, 0)
                                 /\ Ended(v, EPIPE)' <=> Ended(v, EPIPE)
    BY <1>1, <1>2, Waits
  <1>7. op'[t] = "read" /\ \A v \in Task \ {t} : op'[v] = op[v]
    BY <1>1, <1>6 DEF IInv, TypeOK
  <1>8. Open /\ Open'
    BY <1>2 DEF Open
  <1>9. Content' = Content
    BY <1>2, <1>8, ContentIs
  <1>10. /\ NoDup(ch_rtaskq') /\ ch_rtaskq' \in Seq(Task)
         /\ \A u : Within(u, ch_rtaskq') <=> Within(u, ch_rtaskq) \/ u = t
    <2>1. ch_rtaskq \in Seq(Task) /\ NoDup(ch_rtaskq) /\ ~Within(t, ch_rtaskq)
      BY <1>1, <1>3 DEF StoreOK, QueuesOK
    <2> QED BY <1>2, <2>1, AppendNew, AppendProperties
  <1>11. StoreOK'
    BY <1>1, <1>2, <1>8, <1>10 DEF StoreOK, Slot
  <1>12. QueuesOK'
    <2>1. NoDup(ch_rtaskq)' /\ NoDup(ch_wtaskq)'
      BY <1>1, <1>2, <1>10 DEF QueuesOK, NoDup
    <2>2. \A u \in Task : /\ Within(u, ch_rtaskq)' <=> Within(u, ch_rtaskq')
                          /\ Within(u, ch_wtaskq)' <=> Within(u, ch_wtaskq)
      BY <1>2 DEF Within
    <2>3. \A u \in Task : (Within(u, ch_rtaskq) <=> op[u] = "read" /\ Unserved(u))'
      BY <1>1, <1>6, <1>7, <1>10, <2>2 DEF QueuesOK
    <2>4. \A u \in Task : (Within(u, ch_wtaskq) <=> op[u] = "write" /\ Unserved(u))'
      BY <1>1, <1>3, <1>6, <1>7, <2>2 DEF QueuesOK
    <2>5. \A u \in Task : op'[u] \in {"read", "write"} =>
              Unserved(u)' \/ Ended(u, 0)' \/ (Ended(u, EPIPE) /\ ~Open)'
      BY <1>1, <1>6, <1>7, <1>8 DEF QueuesOK
    <2> QED BY <1>2, <1>8, <2>1, <2>3, <2>4, <2>5 DEF QueuesOK
  <1>13. /\ \A x : Handed(x)' <=> Handed(x)
         /\ \A x : Received(x)' <=> Received(x)
         /\ \A x : Contains(Content, x)' <=> Contains(Content, x)
    BY <1>2, <1>9 DEF Handed, Received
  <1>14. Ordered(sent, handed, Content)'
    BY <1>1, <1>2, <1>9 DEF ChanInv, Ordered, Ascending
  <1>15. FailedOK'
    BY <1>1, <1>2, <1>13 DEF ChanInv, FailedOK
  <1>16. HeldOK'
    BY <1>1, <1>2, <1>3, <1>6, <1>7, <1>13 DEF ChanInv, HeldOK
  <1>17. WritesOK'
    BY <1>1, <1>2, <1>6, <1>7, <1>8, <1>13 DEF ChanInv, WritesOK
  <1> QED BY <1>2, <1>5, <1>6, <1>8, <1>9, <1>11, <1>12, <1>14, <1>15, <1>16, <1>17
          DEF ChIInv, ChanInv

\* A list of waiting tasks from which a task is unlinked.
LEMMA Unlinked ==
    ASSUME NEW q \in Seq(Task), NoDup(q), NEW t \in Task, Within(t, q)
    PROVE  /\ NoDup(give_up(q, t)) /\ give_up(q, t) \in Seq(Task)
           /\ \A u : Within(u, give_up(q, t)) <=> Within(u, q) /\ u # t
           /\ \E p \in 1..Len(q) : q[p] = t /\ give_up(q, t) = RemoveAt(q, p)
  <1>1. PICK p \in 1..Len(q) : q[p] = t
    BY DEF Within
  <1> QED BY <1>1, RemoveFirstRemoves, RemoveAtLeaves DEF give_up

\* read returns.
LEMMA ReadReturn ==
    ASSUME ChIInv, NEW t \in Task, read_return(t)
    PROVE  ChIInv' /\ UNCHANGED <<Open, ch_cap, sent, Content, handed>>
  <1>1. IInv /\ JoinInv /\ NoSignals /\ ChanInv /\ StoreOK /\ QueuesOK
    BY DEF ChIInv, ChanInv
  <1>2. /\ current = t /\ co[t] = "back" /\ op[t] = "read"
        /\ co' = [co EXCEPT ![t] = "run"]
        /\ op' = [op EXCEPT ![t] = "none"]
        /\ till' = [till EXCEPT ![t] = NoTimer]
        /\ ret' = [ret EXCEPT ![t] = 0]
        /\ UNCHANGED <<ch_cap, ch_num, ch_rcursor, ch_wcursor, ch_msgring, ch_wtaskq,
                       sent, handed, failed, sending, readyVars, taskVars, current, loopVars,
                       now>>
    BY DEF read_return, storeVars
  <1>3. IInv' /\ JoinInv'
    BY <1>1, <1>2, CallReturns, JoinReturnOther
  <1>4. /\ op'[t] = "none" /\ NoSignals'
        /\ \A v \in Task \ {t} : /\ op'[v] = op[v]
                                 /\ Unserved(v)' <=> Unserved(v)
                                 /\ Ended(v, 0)' <=> Ended(v, 0)
                                 /\ Ended(v, EPIPE)' <=> Ended(v, EPIPE)
        /\ Unserved(t) <=> ret[t] = ETIMEDOUT
        /\ \A e : Ended(t, e) <=> ret[t] = e
    BY <1>1, <1>2, WaitOver
  <1>5. \/ /\ ~Ended(t, 0) /\ UNCHANGED <<t_svcreq, received>>
           /\ ch_rtaskq' = IF Open THEN give_up(ch_rtaskq, t) ELSE ch_rtaskq
        \/ /\ Ended(t, 0) /\ ch_rtaskq' = ch_rtaskq
           /\ received' = received \cup {<<t_svcreq[t], 0>>}
           /\ t_svcreq' = [t_svcreq EXCEPT ![t] = NoMsg]
    BY <1>4 DEF read_return
  <1>6. Open' <=> Open
    BY <1>2 DEF Open
  <1>7. /\ t_svcreq' \in [Task -> Stored]
        /\ \A u \in Task \ {t} : t_svcreq'[u] = t_svcreq[u]
    BY <1>1, <1>5, NoMsgStored DEF StoreOK
  <1>8. Content' = Content
    <2>1. \A u \in Task : Within(u, ch_wtaskq) => t_svcreq'[u] = t_svcreq[u]
      BY <1>1, <1>2, <1>7 DEF QueuesOK
    <2>2. ch_wtaskq \in Seq(Task)
      BY <1>1 DEF StoreOK
    <2>3. Messages(ch_cap, ch_num, ch_rcursor, ch_msgring, ch_wtaskq, t_svcreq')
              = Messages(ch_cap, ch_num, ch_rcursor, ch_msgring, ch_wtaskq, t_svcreq)
      BY <2>1, <2>2, OthersNoMatter
    <2> QED BY <1>2, <1>6, <2>3, ContentIs
  <1>9. /\ NoDup(ch_rtaskq') /\ ch_rtaskq' \in Seq(Task)
        /\ \A u \in Task : Within(u, ch_rtaskq') <=> Within(u, ch_rtaskq) /\ u # t
        /\ ~Open => ch_rtaskq' = <<>>
    <2>1. /\ ch_rtaskq \in Seq(Task) /\ NoDup(ch_rtaskq)
          /\ Within(t, ch_rtaskq) <=> Unserved(t)
          /\ ~Open => ch_rtaskq = <<>>
      BY <1>1, <1>2 DEF StoreOK, QueuesOK
    <2>2. CASE ~Ended(t, 0) /\ Open
      <3>1. Unserved(t)
        BY <1>1, <1>2, <2>2 DEF QueuesOK
      <3> QED BY <1>5, <2>1, <2>2, <3>1, Unlinked
    <2>3. CASE Ended(t, 0) \/ ~Open
      <3>1. ch_rtaskq' = ch_rtaskq
        BY <1>5, <2>3
      <3>2. ~Within(t, ch_rtaskq)
        BY <2>1, <2>3, HasMember, OneOutcome
      <3> QED BY <2>1, <3>1, <3>2
    <2> QED BY <2>2, <2>3
  <1>10. StoreOK'
    BY <1>1, <1>2, <1>6, <1>7, <1>9 DEF StoreOK, Slot
  <1>11. QueuesOK'
    <2>1. NoDup(ch_rtaskq)' /\ NoDup(ch_wtaskq)'
      BY <1>1, <1>2, <1>9 DEF QueuesOK, NoDup
    <2>2. \A u \in Task : /\ Within(u, ch_rtaskq)' <=> Within(u, ch_rtaskq')
                          /\ Within(u, ch_wtaskq)' <=> Within(u, ch_wtaskq)
      BY <1>2 DEF Within
    <2>3. \A u \in Task : (Within(u, ch_rtaskq) <=> op[u] = "read" /\ Unserved(u))'
      BY <1>1, <1>4, <1>9, <2>2 DEF QueuesOK
    <2>4. \A u \in Task : (Within(u, ch_wtaskq) <=> op[u] = "write" /\ Unserved(u))'
      BY <1>1, <1>2, <1>4, <2>2 DEF QueuesOK
    <2>5. \A u \in Task : op'[u] \in {"read", "write"} =>
              Unserved(u)' \/ Ended(u, 0)' \/ (Ended(u, EPIPE) /\ ~Open)'
      BY <1>1, <1>4, <1>6 DEF QueuesOK
    <2>6. ch_rtaskq' # <<>> => ch_rtaskq # <<>>
      BY <1>1, <1>9, HasMember DEF StoreOK
    <2> QED BY <1>1, <1>2, <1>6, <1>9, <2>1, <2>3, <2>4, <2>5, <2>6 DEF QueuesOK
  <1>12. /\ Ordered(sent, handed, Content)'
         /\ WritesOK' /\ FailedOK' /\ HeldOK'
    <2>1. op \in [Task -> OpName]
      BY <1>1 DEF IInv, TypeOK
    <2> QED BY <1>1, <1>2, <1>4, <1>5, <1>6, <1>8, <2>1, ReadOverKeeps
  <1> QED BY <1>2, <1>3, <1>4, <1>6, <1>8, <1>10, <1>11, <1>12 DEF ChIInv, ChanInv

---------------------------------------------------------------------------
(* The steps of write and post *)

\* Message sent + 1 goes to the first waiting reader.
LEMMA GiveStep ==
    ASSUME ChIInv, NEW t \in Task, Running(t), sent < MaxMsg, sent' = sent + 1,
           give_reader(sent + 1),
           UNCHANGED <<received, failed, sending, taskVars, coVars, loopVars, now>>
    PROVE  ChIInv' /\ Fifo!Pass
  <1>1. IInv /\ JoinInv /\ NoSignals /\ ChanInv /\ StoreOK /\ QueuesOK
    BY DEF ChIInv, ChanInv
  <1>2. PICK r \in Task : r = Head(ch_rtaskq)
    BY <1>1, HeadTailProperties DEF StoreOK, give_reader
  <1>3. /\ ch_rtaskq # <<>> /\ ch_rtaskq' = Tail(ch_rtaskq)
        /\ t_svcreq' = [t_svcreq EXCEPT ![r] = sent + 1]
        /\ push_ready(r, 0)
        /\ handed' = Append(handed, sent + 1)
        /\ UNCHANGED <<ch_cap, ch_num, ch_rcursor, ch_wcursor, ch_msgring, ch_wtaskq>>
    BY <1>2 DEF give_reader, left_behind, storeVars
  <1>4. /\ IInv' /\ JoinInv' /\ NoSignals' /\ QueuesOK'
        /\ Open /\ Open' /\ ch_num = 0 /\ ch_wtaskq = <<>> /\ ch_rtaskq' \in Seq(Task)
        /\ op' = op /\ op[r] = "read" /\ ~Ended(r, 0) /\ Ended(r, 0)'
        /\ \A u \in Task \ {r} : /\ Unserved(u)' <=> Unserved(u)
                                 /\ Ended(u, 0)' <=> Ended(u, 0)
                                 /\ Ended(u, EPIPE)' <=> Ended(u, EPIPE)
    BY <1>2, <1>3, ReaderServed
  <1>5. sent \in Nat /\ sent' \in 0..MaxMsg /\ t_svcreq' \in [Task -> Stored]
    BY <1>1, <1>3, ChannelAssumption DEF StoreOK, Stored
  <1>6. StoreOK'
    BY <1>1, <1>3, <1>4, <1>5 DEF StoreOK, Slot
  <1>7. Content = <<>> /\ Content' = <<>>
    <2>1. Content = <<>>
      BY <1>1, <1>4, NothingInside
    <2>2. ch_wtaskq \in Seq(Task) /\ \A u : ~Within(u, ch_wtaskq)
      BY <1>1, <1>4, EmptySeq DEF StoreOK, Within
    <2>3. Messages(ch_cap, ch_num, ch_rcursor, ch_msgring, ch_wtaskq, t_svcreq')
              = Messages(ch_cap, ch_num, ch_rcursor, ch_msgring, ch_wtaskq, t_svcreq)
      BY <2>2, OthersNoMatter
    <2> QED BY <1>3, <1>4, <2>1, <2>3, ContentIs
  <1>8. /\ Ordered(sent, handed, Content)'
        /\ WritesOK' /\ FailedOK' /\ HeldOK'
    BY <1>1, <1>3, <1>4, <1>7, PassKeeps
  <1>9. Fifo!Pass
    BY <1>3, <1>4, <1>7 DEF Fifo!Pass
  <1> QED BY <1>4, <1>6, <1>8, <1>9 DEF ChIInv, ChanInv

\* Message sent + 1 is stored.
LEMMA StoreStep ==
    ASSUME ChIInv, NEW t \in Task, Running(t), Open, sent < MaxMsg, sent' = sent + 1,
           store(sent + 1),
           UNCHANGED <<received, failed, sending, taskVars, coVars, loopVars, now>>
    PROVE  ChIInv' /\ Fifo!Accept
  <1>1. IInv /\ JoinInv /\ NoSignals /\ ChanInv /\ StoreOK /\ QueuesOK
    BY DEF ChIInv, ChanInv
  <1>2. PICK m \in Nat : m = sent + 1
    BY <1>1 DEF StoreOK
  <1>3. /\ ch_rtaskq = <<>> /\ ch_num < ch_cap
        /\ ch_msgring' = [ch_msgring EXCEPT ![ch_wcursor] = m]
        /\ ch_wcursor' = ring_next(ch_wcursor)
        /\ ch_num' = ch_num + 1
        /\ UNCHANGED <<ch_cap, ch_rcursor, ch_rtaskq, ch_wtaskq, t_svcreq, handed, readyVars>>
    BY <1>2 DEF store, ring_put, queueVars
  <1>4. /\ ch_cap \in Nat /\ ch_num \in 0..(ch_cap - 1) /\ ch_rcursor \in 1..ch_cap
        /\ ch_num \in 0..ch_cap
        /\ ch_msgring \in [1..ch_cap -> Stored] /\ ch_wtaskq \in Seq(Task)
        /\ t_svcreq \in [Task -> Stored]
        /\ m \in 1..MaxMsg /\ m \in Stored
    BY <1>1, <1>2, <1>3, ChannelAssumption DEF StoreOK, Stored, Open
  <1>5. ch_wcursor = SlotOf(ch_cap, ch_rcursor, ch_num)
    BY <1>1 DEF StoreOK, Slot, SlotOf
  <1>6. /\ ch_wcursor \in 1..ch_cap
        /\ ch_wcursor' = SlotOf(ch_cap, ch_rcursor, ch_num + 1)
    <2>1. /\ ch_cap \in Nat /\ ch_rcursor \in 1..ch_cap
          /\ ch_num \in 0..ch_cap /\ ch_num < ch_cap
      BY <1>3, <1>4
    <2>2. /\ SlotOf(ch_cap, ch_rcursor, ch_num) \in 1..ch_cap
          /\ NextSlot(ch_cap, SlotOf(ch_cap, ch_rcursor, ch_num))
                 = SlotOf(ch_cap, ch_rcursor, ch_num + 1)
      BY <2>1, Slots
    <2> QED BY <1>3, <1>5, <2>2 DEF ring_next, NextSlot
  <1>7. /\ ch_msgring' \in [1..ch_cap -> Stored]
        /\ \A k \in 1..ch_cap :
               ch_msgring'[k] = IF k = SlotOf(ch_cap, ch_rcursor, ch_num) THEN m
                                ELSE ch_msgring[k]
    BY <1>3, <1>4, <1>5, <1>6
  <1>8. ch_wtaskq = <<>>
    BY <1>1, <1>4 DEF QueuesOK
  <1>9. Open'
    BY <1>3, <1>4 DEF Open
  <1>10. Content' = Append(Content, m)
    <2>1. JoinsLast(Stored,
                    Messages(ch_cap, ch_num, ch_rcursor, ch_msgring, ch_wtaskq, t_svcreq), m,
                    Messages(ch_cap, ch_num + 1, ch_rcursor, ch_msgring', ch_wtaskq, t_svcreq))
      BY <1>4, <1>7, <1>8, StoreAppends
    <2> QED BY <1>3, <1>9, <2>1, ContentIs DEF JoinsLast
  <1>11. StoreOK'
    <2>1. ch_wcursor' = Slot(ch_num)'
      BY <1>3, <1>6 DEF Slot, SlotOf
    <2>2. ch_num' \in -1..ch_cap' /\ sent' \in 0..MaxMsg
      BY <1>2, <1>3, <1>4
    <2> QED BY <1>1, <1>3, <1>7, <2>1, <2>2 DEF StoreOK
  <1>12. /\ op' = op
         /\ \A v \in Task : /\ Unserved(v)' <=> Unserved(v)
                            /\ Ended(v, 0)' <=> Ended(v, 0)
                            /\ Ended(v, EPIPE)' <=> Ended(v, EPIPE)
    BY <1>3, NoneServed
  <1>13. QueuesOK'
    BY <1>1, <1>3, <1>8, <1>9, <1>12 DEF QueuesOK, NoDup, Within
  <1>14. /\ Ordered(sent, handed, Content)'
         /\ WritesOK' /\ FailedOK' /\ HeldOK'
    <2>1. op[t] = "none"
      BY <1>1, QueuedSuspended
    <2>2. op \in [Task -> OpName] /\ op' = [op EXCEPT ![t] = "none"]
      BY <1>1, <1>12, <2>1 DEF IInv, TypeOK
    <2>3. sent + 1 \in Nat /\ Content' = Append(Content, sent + 1)
      BY <1>2, <1>10
    <2> QED BY <1>1, <1>3, <1>9, <1>12, <2>1, <2>2, <2>3, AcceptKeeps
  <1>15. IInv' /\ JoinInv' /\ NoSignals'
    BY <1>1, <1>3, ServeScheduled
  <1>16. Fifo!Accept
    BY <1>2, <1>3, <1>9, <1>10 DEF Fifo!Accept
  <1> QED BY <1>11, <1>13, <1>14, <1>15, <1>16 DEF ChIInv, ChanInv

\* The writer of message sent + 1 has to wait.
LEMMA WriteBlock ==
    ASSUME ChIInv, TaskAssumption, NEW t \in Task, Running(t), NEW sec \in ChSecs, Open,
           sent < MaxMsg, sent' = sent + 1, write_block(t, sec, sent + 1),
           UNCHANGED <<received, failed, loopVars, now>>
    PROVE  ChIInv' /\ Fifo!Accept
  <1>1. IInv /\ JoinInv /\ NoSignals /\ ChanInv /\ StoreOK /\ QueuesOK
    BY DEF ChIInv, ChanInv
  <1>2. PICK m \in Nat : m = sent + 1
    BY <1>1 DEF StoreOK
  <1>3. /\ ch_rtaskq = <<>> /\ ch_num >= ch_cap
        /\ ch_wtaskq' = Append(ch_wtaskq, t)
        /\ t_svcreq' = [t_svcreq EXCEPT ![t] = m]
        /\ sending' = [sending EXCEPT ![t] = m]
        /\ do_yield(t, "write", sec, "channel", t_nsubs)
        /\ UNCHANGED <<ch_cap, ch_num, ch_rcursor, ch_wcursor, ch_msgring, ch_rtaskq, handed>>
    BY <1>2 DEF write_block, queued, storeVars
  <1>4. current = t /\ co[t] = "run" /\ op[t] = "none"
    BY <1>1, QueuedSuspended
  <1>5. sec \in Int /\ "channel" \in Obj \cup {NoObj} /\ "write" \in OpName
        /\ t_nsubs \in [Task -> Int]
    BY <1>1, ChannelAssumption DEF OpName, IInv, TypeOK
  <1>6. IInv' /\ JoinInv'
    BY <1>1, <1>3, <1>4, <1>5, DoYield, JoinYieldOther DEF loopVars
  <1>7. /\ op' = [op EXCEPT ![t] = "write"] /\ NoSignals'
        /\ Unserved(t)' /\ ~Ended(t, 0)' /\ ~Ended(t, EPIPE)'
        /\ \A v \in Task \ {t} : /\ Unserved(v)' <=> Unserved(v)
                                 /\ Ended(v, 0)' <=> Ended(v, 0)
                                 /\ Ended(v, EPIPE)' <=> Ended(v, EPIPE)
    BY <1>1, <1>3, Waits
  <1>8. op'[t] = "write" /\ \A v \in Task \ {t} : op'[v] = op[v]
    BY <1>1, <1>7 DEF IInv, TypeOK
  <1>9. /\ ch_cap \in Nat /\ ch_num = ch_cap /\ ch_num \in 0..ch_cap
        /\ ch_rcursor \in Nat \ {0} /\ (ch_cap > 0 => ch_rcursor <= ch_cap)
        /\ ch_msgring \in [1..ch_cap -> Stored]
        /\ t_svcreq \in [Task -> Stored] /\ sending \in [Task -> Stored]
        /\ m \in 1..MaxMsg /\ m \in Stored
    BY <1>1, <1>2, <1>3, ChannelAssumption DEF StoreOK, Stored
  <1>10. ch_wtaskq \in Seq(Task) /\ NoDup(ch_wtaskq) /\ ~Within(t, ch_wtaskq)
    BY <1>1, <1>4 DEF StoreOK, QueuesOK
  <1>11. /\ NoDup(ch_wtaskq') /\ ch_wtaskq' \in Seq(Task)
         /\ \A u : Within(u, ch_wtaskq') <=> Within(u, ch_wtaskq) \/ u = t
    BY <1>3, <1>10, AppendNew, AppendProperties
  <1>12. Open'
    BY <1>3 DEF Open
  <1>13. Content' = Append(Content, m)
    <2>1. JoinsLast(Stored,
                    Messages(ch_cap, ch_num, ch_rcursor, ch_msgring, ch_wtaskq, t_svcreq), m,
                    Messages(ch_cap, ch_num, ch_rcursor, ch_msgring, Append(ch_wtaskq, t),
                             [t_svcreq EXCEPT ![t] = m]))
      BY <1>9, <1>10, WaitAppends
    <2> QED BY <1>3, <1>12, <2>1, ContentIs DEF JoinsLast
  <1>14. StoreOK'
    <2>1. t_svcreq' \in [Task -> Stored] /\ sending' \in [Task -> Stored]
          /\ sent' \in 0..MaxMsg
      BY <1>2, <1>3, <1>9
    <2> QED BY <1>1, <1>3, <1>11, <2>1 DEF StoreOK, Slot
  <1>15. QueuesOK'
    <2>1. NoDup(ch_rtaskq)' /\ NoDup(ch_wtaskq)'
      BY <1>1, <1>3, <1>11 DEF QueuesOK, NoDup
    <2>2. \A u \in Task : /\ Within(u, ch_rtaskq)' <=> Within(u, ch_rtaskq)
                          /\ Within(u, ch_wtaskq)' <=> Within(u, ch_wtaskq')
      BY <1>3 DEF Within
    <2>3. \A u \in Task : (Within(u, ch_rtaskq) <=> op[u] = "read" /\ Unserved(u))'
      BY <1>1, <1>4, <1>7, <1>8, <2>2 DEF QueuesOK
    <2>4. \A u \in Task : (Within(u, ch_wtaskq) <=> op[u] = "write" /\ Unserved(u))'
      BY <1>1, <1>7, <1>8, <1>11, <2>2 DEF QueuesOK
    <2>5. \A u \in Task : op'[u] \in {"read", "write"} =>
              Unserved(u)' \/ Ended(u, 0)' \/ (Ended(u, EPIPE) /\ ~Open)'
      BY <1>1, <1>7, <1>8 DEF QueuesOK
    <2> QED BY <1>3, <1>9, <1>12, <2>1, <2>3, <2>4, <2>5 DEF QueuesOK
  <1>16. /\ Ordered(sent, handed, Content)'
         /\ WritesOK' /\ FailedOK' /\ HeldOK'
    <2>1. op \in [Task -> OpName]
      BY <1>1 DEF IInv, TypeOK
    <2>2. /\ sent + 1 \in Nat /\ Content' = Append(Content, sent + 1)
          /\ sending' = [sending EXCEPT ![t] = sent + 1]
          /\ t_svcreq' = [t_svcreq EXCEPT ![t] = sent + 1]
      BY <1>2, <1>3, <1>13
    <2> QED BY <1>1, <1>3, <1>4, <1>7, <1>12, <2>1, <2>2, AcceptKeeps
  <1>17. Fifo!Accept
    BY <1>2, <1>3, <1>12, <1>13 DEF Fifo!Accept
  <1> QED BY <1>6, <1>7, <1>14, <1>15, <1>16, <1>17 DEF ChIInv, ChanInv

\* write returns.
LEMMA WriteReturn ==
    ASSUME ChIInv, NEW t \in Task, write_return(t)
    PROVE  ChIInv' /\ (Fifo!GiveUp \/ UNCHANGED <<Open, ch_cap, sent, Content, handed>>)
  <1>1. IInv /\ JoinInv /\ NoSignals /\ ChanInv /\ StoreOK /\ QueuesOK /\ WritesOK
    BY DEF ChIInv, ChanInv
  <1>2. /\ current = t /\ co[t] = "back" /\ op[t] = "write"
        /\ co' = [co EXCEPT ![t] = "run"]
        /\ op' = [op EXCEPT ![t] = "none"]
        /\ till' = [till EXCEPT ![t] = NoTimer]
        /\ ret' = [ret EXCEPT ![t] = 0]
        /\ ch_wtaskq' = IF ret[t] # 0 /\ Open THEN give_up(ch_wtaskq, t) ELSE ch_wtaskq
        /\ failed' = IF ret[t] # 0 THEN failed \cup {sending[t]} ELSE failed
        /\ sending' = [sending EXCEPT ![t] = NoMsg]
        /\ UNCHANGED <<ch_cap, ch_num, ch_rcursor, ch_wcursor, ch_msgring, ch_rtaskq, t_svcreq,
                       sent, handed, received, readyVars, taskVars, current, loopVars, now>>
    BY DEF write_return, storeVars
  <1>3. IInv' /\ JoinInv'
    BY <1>1, <1>2, CallReturns, JoinReturnOther
  <1>4. /\ op'[t] = "none" /\ NoSignals'
        /\ \A v \in Task \ {t} : /\ op'[v] = op[v]
                                 /\ Unserved(v)' <=> Unserved(v)
                                 /\ Ended(v, 0)' <=> Ended(v, 0)
                                 /\ Ended(v, EPIPE)' <=> Ended(v, EPIPE)
        /\ Unserved(t) <=> ret[t] = ETIMEDOUT
        /\ \A e : Ended(t, e) <=> ret[t] = e
    BY <1>1, <1>2, WaitOver
  <1>5. Open' <=> Open
    BY <1>2 DEF Open
  <1>6. sending' \in [Task -> Stored]
    BY <1>1, <1>2, NoMsgStored DEF StoreOK
  <1>7. /\ ch_wtaskq \in Seq(Task) /\ NoDup(ch_wtaskq)
        /\ Within(t, ch_wtaskq) <=> Unserved(t)
        /\ ~Open => ch_wtaskq = <<>>
    BY <1>1, <1>2 DEF StoreOK, QueuesOK
  <1>8. /\ sending[t] \in 1..sent
        /\ Unserved(t) => t_svcreq[t] = sending[t]
        /\ Unserved(t) \/ Ended(t, EPIPE) => ~Handed(sending[t])
    BY <1>1, <1>2 DEF WritesOK
  <1>9. Ordered(sent, handed, Content) /\ sent \in Nat
    BY <1>1 DEF ChanInv, StoreOK
  <1>10. /\ NoDup(ch_wtaskq') /\ ch_wtaskq' \in Seq(Task)
         /\ \A u \in Task : Within(u, ch_wtaskq') <=> Within(u, ch_wtaskq) /\ u # t
         /\ ~Open => ch_wtaskq' = <<>>
         /\ Ordered(sent, handed, Content')
         /\ \A x : Within(x, Content') => Within(x, Content)
         /\ \A x : Within(x, Content) /\ x # sending[t] => Within(x, Content')
         /\ \/ failed' = failed
            \/ /\ failed' = failed \cup {sending[t]}
               /\ ~Handed(sending[t]) /\ ~Within(sending[t], Content')
         /\ \/ Content' = Content
            \/ \E i \in (ch_cap + 1)..Len(Content) : Content' = RemoveAt(Content, i)
    <2>1. CASE Unserved(t)
      <3>1. Open /\ ret[t] # 0 /\ Within(t, ch_wtaskq) /\ ch_wtaskq # <<>>
        BY <1>4, <1>7, <2>1, HasMember DEF ETIMEDOUT
      <3>2. ch_wtaskq' = give_up(ch_wtaskq, t) /\ failed' = failed \cup {sending[t]}
        BY <1>2, <3>1
      <3>3. /\ NoDup(ch_wtaskq') /\ ch_wtaskq' \in Seq(Task)
            /\ \A u : Within(u, ch_wtaskq') <=> Within(u, ch_wtaskq) /\ u # t
        BY <1>7, <3>1, <3>2, Unlinked
      <3>4. PICK p \in 1..Len(ch_wtaskq) :
                ch_wtaskq[p] = t /\ ch_wtaskq' = RemoveAt(ch_wtaskq, p)
        BY <1>7, <3>1, <3>2, Unlinked
      <3>5. /\ ch_cap \in Nat /\ ch_num = ch_cap /\ ch_num \in 0..ch_cap
            /\ ch_rcursor \in Nat \ {0} /\ (ch_cap > 0 => ch_rcursor <= ch_cap)
            /\ ch_msgring \in [1..ch_cap -> Stored]
            /\ t_svcreq \in [Task -> Stored]
        BY <1>1, <3>1 DEF StoreOK, QueuesOK
      <3>6. LeavesFrom(Stored,
                       Messages(ch_cap, ch_num, ch_rcursor, ch_msgring, ch_wtaskq, t_svcreq),
                       ch_num, ch_num + p, t_svcreq[ch_wtaskq[p]],
                       Messages(ch_cap, ch_num, ch_rcursor, ch_msgring, RemoveAt(ch_wtaskq, p),
                                t_svcreq))
        BY <1>7, <3>5, GiveUpRemoves
      <3>7. /\ Content = Messages(ch_cap, ch_num, ch_rcursor, ch_msgring, ch_wtaskq, t_svcreq)
            /\ Content' = Messages(ch_cap, ch_num, ch_rcursor, ch_msgring, ch_wtaskq', t_svcreq)
        BY <1>2, <1>5, <3>1, ContentIs
      <3>8. LeavesFrom(Stored, Content, ch_cap, ch_cap + p, sending[t], Content')
        BY <1>8, <2>1, <3>4, <3>5, <3>6, <3>7
      <3>9. PICK i \in (ch_cap + 1)..Len(Content) :
                Content[i] = sending[t] /\ Content' = RemoveAt(Content, i)
        BY <3>8 DEF LeavesFrom
      <3>10. i \in 1..Len(Content)
        <4>1. Len(Content) \in Nat
          BY <3>8, LenProperties DEF LeavesFrom
        <4> QED BY <3>5, <3>9, <4>1
      <3>11. /\ Ordered(sent, handed, Content') /\ ~Within(sending[t], Content')
             /\ \A x : Within(x, Content') => Within(x, Content)
             /\ \A x : Within(x, Content) /\ x # sending[t] => Within(x, Content')
        BY <1>9, <3>9, <3>10, OrderedGiveUp
      <3> QED BY <1>8, <2>1, <3>1, <3>2, <3>3, <3>9, <3>11
    <2>2. CASE ~Unserved(t)
      <3>1. ret[t] # 0 => Ended(t, EPIPE) /\ ~Open
        BY <1>1, <1>2, <1>4, <2>2 DEF QueuesOK
      <3>2. ch_wtaskq' = ch_wtaskq
        BY <1>2, <3>1
      <3>3. Content' = Content
        BY <1>2, <1>5, <3>2, ContentIs
      <3>4. ~Open => ~Within(sending[t], Content')
        BY <3>3, ContentIs, EmptySeq DEF Within
      <3>5. \/ failed' = failed
            \/ /\ failed' = failed \cup {sending[t]}
               /\ ~Handed(sending[t]) /\ ~Within(sending[t], Content')
        BY <1>2, <1>8, <3>1, <3>4
      <3> QED BY <1>7, <1>9, <2>2, <3>2, <3>3, <3>5
    <2> QED BY <2>1, <2>2
  <1>11. StoreOK'
    BY <1>1, <1>2, <1>5, <1>6, <1>10 DEF StoreOK, Slot
  <1>12. QueuesOK'
    <2>1. NoDup(ch_rtaskq)' /\ NoDup(ch_wtaskq)'
      BY <1>1, <1>2, <1>10 DEF QueuesOK, NoDup
    <2>2. \A u \in Task : /\ Within(u, ch_rtaskq)' <=> Within(u, ch_rtaskq)
                          /\ Within(u, ch_wtaskq)' <=> Within(u, ch_wtaskq')
      BY <1>2 DEF Within
    <2>3. \A u \in Task : (Within(u, ch_rtaskq) <=> op[u] = "read" /\ Unserved(u))'
      BY <1>1, <1>2, <1>4, <2>2 DEF QueuesOK
    <2>4. \A u \in Task : (Within(u, ch_wtaskq) <=> op[u] = "write" /\ Unserved(u))'
      BY <1>1, <1>4, <1>10, <2>2 DEF QueuesOK
    <2>5. \A u \in Task : op'[u] \in {"read", "write"} =>
              Unserved(u)' \/ Ended(u, 0)' \/ (Ended(u, EPIPE) /\ ~Open)'
      BY <1>1, <1>4, <1>5 DEF QueuesOK
    <2>6. ch_wtaskq' # <<>> => ch_wtaskq # <<>>
      BY <1>7, <1>10, HasMember
    <2> QED BY <1>1, <1>2, <1>5, <1>10, <2>1, <2>3, <2>4, <2>5, <2>6 DEF QueuesOK
  <1>13. /\ Ordered(sent, handed, Content)'
         /\ WritesOK' /\ FailedOK' /\ HeldOK'
    <2>1. op \in [Task -> OpName]
      BY <1>1 DEF IInv, TypeOK
    <2> QED BY <1>1, <1>2, <1>4, <1>5, <1>10, <2>1, WriteOverKeeps
  <1>14. Fifo!GiveUp \/ UNCHANGED <<Open, ch_cap, sent, Content, handed>>
    BY <1>2, <1>5, <1>10 DEF Fifo!GiveUp, Fifo!RemoveAt, RemoveAt
  <1> QED BY <1>3, <1>4, <1>11, <1>12, <1>13, <1>14 DEF ChIInv, ChanInv

---------------------------------------------------------------------------
(* close and post's assertion *)

LEMMA CloseStep ==
    ASSUME ChIInv, NEW t \in Task, Running(t), close(t)
    PROVE  ChIInv' /\ Fifo!Close
  <1> DEFINE q == ch_rtaskq \o ch_wtaskq
  <1>1. IInv /\ JoinInv /\ NoSignals /\ ChanInv /\ StoreOK /\ QueuesOK
    BY DEF ChIInv, ChanInv
  <1>2. /\ Open /\ ch_num' = -1 /\ push_all(q)
        /\ ch_rtaskq' = <<>> /\ ch_wtaskq' = <<>>
        /\ ch_msgring' = [i \in 1..ch_cap |-> IF i \in cleared THEN NoMsg ELSE ch_msgring[i]]
        /\ UNCHANGED <<ch_cap, ch_rcursor, ch_wcursor, t_svcreq, sent, handed, received, failed,
                       sending, taskVars, coVars, loopVars, now>>
    BY DEF close, close_wakes, historyVars
  <1>3. /\ current = t /\ co[t] = "run" /\ op[t] = "none"
        /\ \A u \in Task : Within(u, ch_rtaskq) \/ Within(u, ch_wtaskq) =>
               co[u] = "parked" /\ ~t_prev[u]
    BY <1>1, QueuedSuspended
  <1>4. /\ q \in Seq(Task) /\ NoDup(q)
        /\ \A u \in Task : Within(u, q) <=> op[u] \in {"read", "write"} /\ Unserved(u)
    <2>1. /\ ch_rtaskq \in Seq(Task) /\ ch_wtaskq \in Seq(Task)
          /\ NoDup(ch_rtaskq) /\ NoDup(ch_wtaskq)
          /\ \A u \in Task : Within(u, ch_rtaskq) <=> op[u] = "read" /\ Unserved(u)
          /\ \A u \in Task : Within(u, ch_wtaskq) <=> op[u] = "write" /\ Unserved(u)
      BY <1>1 DEF StoreOK, QueuesOK
    <2>2. \A y : ~(Within(y, ch_rtaskq) /\ Within(y, ch_wtaskq))
      <3> SUFFICES ASSUME NEW y, Within(y, ch_rtaskq), Within(y, ch_wtaskq)
                   PROVE  FALSE
        OBVIOUS
      <3>1. y \in Task
        BY <2>1, ElementOfSeq DEF Within
      <3> QED BY <2>1, <3>1
    <2> QED BY <2>1, <2>2, ConcatNew
  <1> HIDE DEF q
  <1>5. \A u \in Task : Within(u, q) => co[u] = "parked" /\ ~t_prev[u]
    BY <1>1, <1>3, <1>4 DEF QueuesOK
  <1>6. IInv'
    BY <1>1, <1>2, <1>4, <1>5, AllPushed
  <1>7. /\ t_prev' = [u \in Task |-> t_prev[u] \/ Within(u, q)]
        /\ t_err' = [u \in Task |-> IF Within(u, q) THEN EPIPE ELSE t_err[u]]
    BY <1>1, <1>2, <1>4, <1>5, PushAll
  <1>8. \A u \in Task : /\ t_prev'[u] <=> t_prev[u] \/ Within(u, q)
                        /\ t_err'[u] = IF Within(u, q) THEN EPIPE ELSE t_err[u]
    BY <1>7
  <1>9. co' = co /\ op' = op /\ ret' = ret /\ UNCHANGED taskVars
    BY <1>2 DEF coVars
  <1>10. JoinInv'
    <2>1. \A u \in Task : op[u] = "join" => t_prev'[u] = t_prev[u] /\ t_err'[u] = t_err[u]
      <3> SUFFICES ASSUME NEW u \in Task, op[u] = "join"
                   PROVE  t_prev'[u] = t_prev[u] /\ t_err'[u] = t_err[u]
        OBVIOUS
      <3>1. ~Within(u, q)
        BY <1>4
      <3>2. t_prev'[u] \in BOOLEAN /\ t_prev[u] \in BOOLEAN
        BY <1>1, <1>6 DEF IInv, TypeOK
      <3> QED BY <1>8, <3>1, <3>2
    <2> QED BY <1>1, <1>9, <2>1, JoinFrame DEF JoinInv, OpInside, OnlyReaped, taskVars
  <1>11. NoSignals'
    BY <1>1, <1>9 DEF NoSignals, taskVars
  <1>12. \A u \in Task : op[u] \in {"read", "write"} =>
             /\ ~Unserved(u)'
             /\ Ended(u, 0)' <=> Ended(u, 0)
             /\ Ended(u, EPIPE)' <=> Unserved(u) \/ Ended(u, EPIPE)
    <2> SUFFICES ASSUME NEW u \in Task, op[u] \in {"read", "write"}
                 PROVE  /\ ~Unserved(u)'
                        /\ Ended(u, 0)' <=> Ended(u, 0)
                        /\ Ended(u, EPIPE)' <=> Unserved(u) \/ Ended(u, EPIPE)
      OBVIOUS
    <2>1. co[u] = "parked"
      BY <1>1, <1>3 DEF JoinInv, OpInside, IInv, OnePlace
    <2> QED BY <1>4, <1>8, <1>9, <2>1 DEF Unserved, Ended, EPIPE, ETIMEDOUT
  <1>13. ~Open'
    BY <1>2 DEF Open
  <1>14. Content' = <<>>
    BY <1>13, ContentIs
  <1>15. StoreOK'
    <2>1. ch_msgring' \in [1..ch_cap -> Stored]
      BY <1>1, <1>2, NoMsgStored DEF StoreOK
    <2>2. <<>> \in Seq(Task)
      BY EmptySeq
    <2>3. -1 \in -1..ch_cap
      BY <1>1 DEF StoreOK
    <2> QED BY <1>1, <1>2, <1>13, <2>1, <2>2, <2>3 DEF StoreOK
  <1>16. QueuesOK'
    <2>1. NoDup(<<>>) /\ \A u : ~Within(u, <<>>)
      BY EmptySeq DEF NoDup, Within
    <2>2. NoDup(ch_rtaskq)' /\ NoDup(ch_wtaskq)'
      BY <1>2, <2>1 DEF NoDup
    <2>3. \A u : ~Within(u, ch_rtaskq)' /\ ~Within(u, ch_wtaskq)'
      BY <1>2, <2>1 DEF Within
    <2>4. \A u \in Task : op'[u] \in {"read", "write"} =>
              ~Unserved(u)' /\ (Ended(u, 0)' \/ Ended(u, EPIPE)')
      BY <1>1, <1>9, <1>12 DEF QueuesOK
    <2> QED BY <1>2, <1>13, <2>2, <2>3, <2>4 DEF QueuesOK
  <1>17. /\ Ordered(sent, handed, Content)'
         /\ WritesOK' /\ FailedOK' /\ HeldOK'
    BY <1>1, <1>2, <1>9, <1>12, <1>13, <1>14, CloseKeeps
  <1>18. Fifo!Close
    BY <1>2, <1>13, <1>14 DEF Fifo!Close
  <1> QED BY <1>6, <1>10, <1>11, <1>15, <1>16, <1>17, <1>18 DEF ChIInv, ChanInv

\* A step that leaves the channel's variables alone leaves it as it is.
LEMMA ChannelStays ==
    ASSUME UNCHANGED chVars
    PROVE  UNCHANGED <<Open, ch_cap, sent, Content, handed>>
  BY DEF chVars, storeVars, queueVars, historyVars, Open, Content

LEMMA AssertStep ==
    ASSUME ChIInv, TaskAssumption, NEW t \in Task, Running(t), post_assert(t)
    PROVE  ChIInv' /\ UNCHANGED <<Open, ch_cap, sent, Content, handed>>
  <1>1. IInv /\ JoinInv /\ NoSignals /\ ChanInv /\ QueuesOK
    BY DEF ChIInv, ChanInv
  <1>2. /\ die(t, t_nsubs) /\ at' \in {at, "aborted"}
        /\ UNCHANGED <<chVars, batch, caller, now>>
    BY DEF post_assert
  <1>3. current = t /\ co[t] = "run"
    BY <1>1, QueuedSuspended
  <1>4. t_nsubs \in [Task -> Int]
    BY <1>1 DEF IInv, TypeOK
  <1>5. IInv' /\ JoinInv'
    BY <1>1, <1>2, <1>3, <1>4, Die, JoinDie
  <1>6. ChanInv' /\ NoSignals'
    BY <1>1, <1>2, <1>3, DieAside, AsideWaits, ChanStays
  <1> QED BY <1>2, <1>5, <1>6, ChannelStays DEF ChIInv

---------------------------------------------------------------------------
(* The theorems *)

\* What holds of the channel's state variables before the first step.
LEMMA ChInitInvariant ==
    ASSUME ChInit, TaskAssumption, ChannelAssumption
    PROVE  ChIInv /\ Content = <<>>
  <1>1. IInv /\ JoinInv
    BY InitInvariant, JoinInit DEF ChInit
  <1>2. \A t \in Task : ~t_sig[t] /\ co[t] \in {"fresh", "none"} /\ op[t] = "none"
    BY DEF ChInit, Init
  <1>3. /\ ch_cap \in Nat /\ ch_num = 0 /\ ch_rcursor = 1 /\ ch_wcursor = 1
        /\ ch_msgring = [i \in 1..ch_cap |-> NoMsg]
        /\ ch_rtaskq = <<>> /\ ch_wtaskq = <<>>
        /\ t_svcreq = [t \in Task |-> NoMsg]
        /\ sent = 0 /\ handed = <<>> /\ received = {} /\ failed = {}
        /\ sending = [t \in Task |-> NoMsg]
    BY DEF ChInit, ChannelAssumption
  <1>4. StoreOK
    <2>1. <<>> \in Seq(Task)
      BY EmptySeq
    <2>2. 0 \in 0..MaxMsg /\ 0 \in -1..ch_cap /\ (ch_cap > 0 => 1 <= ch_cap)
      BY <1>3, ChannelAssumption
    <2>3. ch_wcursor = Slot(ch_num)
      BY <1>3 DEF Slot
    <2> QED BY <1>3, <2>1, <2>2, <2>3, NoMsgStored DEF StoreOK
  <1>5. Content = <<>>
    BY <1>3, <1>4, NothingInside
  <1>6. QueuesOK
    <2>1. NoDup(<<>>) /\ \A u : ~Within(u, <<>>)
      BY EmptySeq DEF NoDup, Within
    <2> QED BY <1>2, <1>3, <2>1 DEF QueuesOK
  <1>7. Ordered(sent, handed, Content)
    BY <1>3, <1>5, EmptySeq DEF Ordered, Ascending
  <1>8. \A m : ~Handed(m)
    BY <1>3, EmptySeq DEF Handed
  <1>9. WritesOK /\ FailedOK /\ HeldOK
    BY <1>2, <1>3, <1>8 DEF WritesOK, FailedOK, HeldOK
  <1> QED BY <1>1, <1>2, <1>4, <1>5, <1>6, <1>7, <1>9 DEF ChIInv, ChanInv, NoSignals

\* A call that the running task makes of the channel.
LEMMA ChannelCall ==
    ASSUME ChIInv, TaskAssumption, NEW t \in Task, Running(t),
           (\E s \in ChSecs : read(t, s) \/ write(t, s)) \/ post(t) \/ post_assert(t) \/ close(t)
    PROVE  /\ ChIInv'
           /\ Fifo!Next \/ UNCHANGED <<Open, ch_cap, sent, Content, handed>>
  <1>1. ASSUME NEW s \in ChSecs, read(t, s)
        PROVE  /\ ChIInv'
               /\ Fifo!Next \/ UNCHANGED <<Open, ch_cap, sent, Content, handed>>
    <2>1. /\ read_buffered(t) \/ read_writer(t) \/ read_block(t, s)
          /\ UNCHANGED <<loopVars, now>>
      BY <1>1 DEF read
    <2> QED BY <2>1, ReadStored, ReadRefilled, ReadWaiting, ReadBlock DEF Fifo!Next
  <1>2. ASSUME NEW s \in ChSecs, write(t, s)
        PROVE  ChIInv' /\ Fifo!Next
    <2>1. /\ Open /\ sent < MaxMsg /\ sent' = sent + 1
          /\ UNCHANGED <<received, failed, loopVars, now>>
          /\ \/ /\ give_reader(sent + 1) \/ store(sent + 1)
                /\ UNCHANGED <<taskVars, coVars, sending>>
             \/ write_block(t, s, sent + 1)
      BY <1>2 DEF write
    <2>2. CASE write_block(t, s, sent + 1)
      BY <2>1, <2>2, WriteBlock DEF Fifo!Next
    <2>3. CASE give_reader(sent + 1) /\ UNCHANGED <<taskVars, coVars, sending>>
      BY <2>1, <2>3, GiveStep DEF Fifo!Next
    <2>4. CASE store(sent + 1) /\ UNCHANGED <<taskVars, coVars, sending>>
      BY <2>1, <2>4, StoreStep DEF Fifo!Next
    <2> QED BY <2>1, <2>2, <2>3, <2>4
  <1>3. CASE post(t)
    BY <1>3, GiveStep, StoreStep DEF post, Fifo!Next
  <1>4. CASE post_assert(t)
    BY <1>4, AssertStep
  <1>5. CASE close(t)
    BY <1>5, CloseStep DEF Fifo!Next
  <1> QED BY <1>1, <1>2, <1>3, <1>4, <1>5

LEMMA ChNextStep ==
    ASSUME ChIInv, Peaceful, TaskAssumption, [ChNext]_allVars
    PROVE  ChIInv' /\ [Fifo!Next]_(Fifo!vars)
  <1>1. ASSUME UNCHANGED chVars,
               \/ \E t \in Task : Yield(t) \/ Call(t)
               \/ Loop \/ update_time \/ UNCHANGED vars
        PROVE  ChIInv' /\ UNCHANGED <<Open, ch_cap, sent, Content, handed>>
    BY <1>1, SchedStays, ChannelStays
  <1>2. ASSUME NEW t \in Task, InProgram(t), \E s \in ChSecs : read(t, s) \/ write(t, s)
        PROVE  /\ ChIInv'
               /\ Fifo!Next \/ UNCHANGED <<Open, ch_cap, sent, Content, handed>>
    BY <1>2, ChannelCall DEF InProgram, Running
  <1>3. ASSUME NEW t \in Task, read_return(t) \/ write_return(t)
        PROVE  /\ ChIInv'
               /\ Fifo!Next \/ UNCHANGED <<Open, ch_cap, sent, Content, handed>>
    BY <1>3, ReadReturn, WriteReturn DEF Fifo!Next
  <1>4. ASSUME NEW t \in Task, Running(t), post(t) \/ post_assert(t) \/ close(t)
        PROVE  /\ ChIInv'
               /\ Fifo!Next \/ UNCHANGED <<Open, ch_cap, sent, Content, handed>>
    BY <1>4, ChannelCall
  <1>5. /\ ChIInv'
        /\ Fifo!Next \/ UNCHANGED <<Open, ch_cap, sent, Content, handed>>
    <2>1. CASE ChNext
      BY <1>1, <1>2, <1>3, <1>4, <2>1 DEF ChNext, ChYield, ChCall, aborted
    <2>2. CASE UNCHANGED allVars
      BY <1>1, <2>2 DEF allVars
    <2> QED BY <2>1, <2>2
  <1> QED BY <1>5 DEF Fifo!vars

LEMMA ChInvHolds ==
    ASSUME Peaceful
    PROVE  ChSpec => []ChIInv
  <1>1. ChInit => ChIInv
    BY ChInitInvariant, TaskAssumption, ChannelAssumption
  <1>2. ChIInv /\ [ChNext]_allVars => ChIInv'
    BY ChNextStep, TaskAssumption
  <1> QED BY <1>1, <1>2, PTL DEF ChSpec

\* For any number of tasks, any capacity and any time-outs: no reader waits
\* while there is something to read, no writer while there is room, and each
\* is in the list that serves it.
THEOREM NobodyStranded ==
    ASSUME Peaceful
    PROVE  ChSpec => []NoStranded
  <1>1. ChIInv => NoStranded
    <2> SUFFICES ASSUME ChIInv, NEW t \in Task
                 PROVE  /\ Waiting(t, "read") =>
                               Open /\ Contains(ch_rtaskq, t) /\ Content = <<>>
                        /\ Waiting(t, "write") =>
                               Open /\ Contains(ch_wtaskq, t) /\ ch_num = ch_cap
      BY DEF NoStranded
    <2>1. StoreOK /\ QueuesOK
      BY DEF ChIInv, ChanInv
    <2>2. /\ Contains(ch_rtaskq, t) <=> Within(t, ch_rtaskq)
          /\ Contains(ch_wtaskq, t) <=> Within(t, ch_wtaskq)
      BY InsideIs
    <2>3. /\ Within(t, ch_rtaskq) => ch_rtaskq # <<>>
          /\ Within(t, ch_wtaskq) => ch_wtaskq # <<>>
      BY <2>1, HasMember DEF StoreOK
    <2> QED BY <2>1, <2>2, <2>3, NothingInside DEF Waiting, QueuesOK, Unserved
  <1> QED BY <1>1, ChInvHolds, PTL

\* read and write unlink their task only from a list it is in, and never
\* forget to: the doubly linked lists stay intact.
THEOREM OnlyQueuedUnlinked ==
    ASSUME Peaceful
    PROVE  ChSpec => []UnlinkOnlyQueued
  <1>1. ChIInv => UnlinkOnlyQueued
    <2> SUFFICES ASSUME ChIInv, NEW t \in Task, co[t] = "back", Open
                 PROVE  /\ op[t] = "read" => (ret[t] # 0 <=> Contains(ch_rtaskq, t))
                        /\ op[t] = "write" => (ret[t] # 0 <=> Contains(ch_wtaskq, t))
      BY DEF UnlinkOnlyQueued
    <2>1. QueuesOK
      BY DEF ChIInv, ChanInv
    <2>2. op[t] \in {"read", "write"} => (Unserved(t) <=> ret[t] # 0)
      BY <2>1 DEF QueuesOK, Unserved, Ended, ETIMEDOUT
    <2> QED BY <2>1, <2>2, InsideIs DEF QueuesOK
  <1> QED BY <1>1, ChInvHolds, PTL

\* Every message that has left the channel was returned by a read or is on
\* its way to be, and write tells the truth about its message.
THEOREM MessagesAccounted ==
    ASSUME Peaceful
    PROVE  ChSpec => []OnTheWay
  <1>1. ChIInv => OnTheWay
    <2> SUFFICES ASSUME ChIInv
                 PROVE  HeldOrReceived /\ WriteExact
      BY DEF OnTheWay
    <2>1. HeldOrReceived
      BY DEF ChIInv, ChanInv, HeldOK, HeldOrReceived, Ended
    <2>2. WriteExact
      BY DEF ChIInv, ChanInv, WritesOK, FailedOK, WriteExact, Ended
    <2> QED BY <2>1, <2>2
  <1> QED BY <1>1, ChInvHolds, PTL

\* The message channel implements MessageFifo: every step of the tasks that
\* use it hands out the oldest message, accepts a new one behind all others,
\* passes it straight to a waiting reader while nothing is stored, takes a
\* waiting writer's message back, drops everything, or changes nothing.
THEOREM ImplementsFifo ==
    ASSUME Peaceful
    PROVE  ChSpec => IsFifo
  <1>1. ChInit => Fifo!Init
    <2> SUFFICES ASSUME ChInit
                 PROVE  Fifo!Init
      OBVIOUS
    <2>1. Content = <<>>
      BY ChInitInvariant, TaskAssumption, ChannelAssumption
    <2>2. ch_cap \in Nat /\ ch_num = 0 /\ sent = 0 /\ handed = <<>>
      BY ChannelAssumption DEF ChInit
    <2> QED BY <2>1, <2>2 DEF Fifo!Init, Open
  <1>2. ChIInv /\ [ChNext]_allVars => [Fifo!Next]_(Fifo!vars)
    BY ChNextStep, TaskAssumption
  <1> QED BY <1>1, <1>2, ChInvHolds, PTL DEF ChSpec, IsFifo, Fifo!Spec
=============================================================================
