-------------------------- MODULE TaskQueueProofs --------------------------
(***************************************************************************)
(* The linked lists of waiting tasks stand for their queues, for any set   *)
(* of tasks and any number of lists that share the link fields.            *)
(***************************************************************************)
EXTENDS TaskQueue, SequenceTheorems, TLAPS

QInv == TypeOK /\ Disjoint /\ Represents

\* Removing one element of a sequence.
LEMMA WithoutProperties ==
    ASSUME NEW S, NEW q \in Seq(S), NEW i \in 1..Len(q)
    PROVE  /\ Without(q, i) \in Seq(S)
           /\ Len(Without(q, i)) = Len(q) - 1
           /\ \A j \in 1..(Len(q) - 1) :
                  Without(q, i)[j] = IF j < i THEN q[j] ELSE q[j + 1]
  <1>1. Len(q) \in Nat /\ \A j \in 1..Len(q) : q[j] \in S
    BY LenProperties, ElementOfSeq
  <1>2. Len(q) - 1 \in Nat
    BY <1>1
  <1>3. Without(q, i) \in [1..(Len(q) - 1) -> S]
    BY <1>1 DEF Without
  <1>4. Without(q, i) \in Seq(S) /\ Len(Without(q, i)) = Len(q) - 1
    BY <1>2, <1>3
  <1> QED BY <1>4 DEF Without

LEMMA QueueFacts ==
    ASSUME QInv, NEW l \in List
    PROVE  /\ queue[l] \in Seq(Task) /\ Len(queue[l]) \in Nat
           /\ \A i \in 1..Len(queue[l]) : queue[l][i] \in Task /\ queue[l][i] # None
           /\ queue[l] = <<>> <=> Len(queue[l]) = 0
           /\ head[l] = None <=> queue[l] = <<>>
           /\ queue[l] # <<>> => head[l] = queue[l][1]
  <1>1. queue[l] \in Seq(Task)
    BY DEF QInv, TypeOK
  <1>2. /\ Len(queue[l]) \in Nat
        /\ \A i \in 1..Len(queue[l]) : queue[l][i] \in Task /\ queue[l][i] # None
    BY <1>1, LenProperties, ElementOfSeq, NoneAssumption
  <1>3. queue[l] = <<>> <=> Len(queue[l]) = 0
    BY <1>1, <1>2, EmptySeq
  <1>4. /\ queue[l] = <<>> => head[l] = None
        /\ queue[l] # <<>> => head[l] = queue[l][1]
    BY DEF QInv, Represents
  <1>5. queue[l] # <<>> => queue[l][1] # None
    BY <1>2, <1>3
  <1> QED BY <1>1, <1>2, <1>3, <1>4, <1>5

\* push_task
LEMMA PushTask ==
    ASSUME QInv, NEW l \in List, NEW t \in Task, push_task(l, t)
    PROVE  QInv'
  <1> DEFINE q == queue[l]
  <1>1. /\ \A k \in List : \A i \in 1..Len(queue[k]) : queue[k][i] # t
        /\ queue' = [queue EXCEPT ![l] = Append(@, t)]
    BY DEF push_task, Queued
  <1>2. /\ q \in Seq(Task) /\ Len(q) \in Nat
        /\ queue'[l] \in Seq(Task) /\ Len(queue'[l]) = Len(q) + 1
        /\ \A i \in 1..Len(q) : queue'[l][i] = q[i]
        /\ queue'[l][Len(q) + 1] = t
        /\ \A k \in List : k # l => queue'[k] = queue[k]
    BY <1>1, QueueFacts, AppendProperties DEF QInv, TypeOK
  <1>3. Disjoint'
    <2> SUFFICES ASSUME NEW k \in List, NEW m \in List,
                        NEW i \in 1..Len(queue'[k]), NEW j \in 1..Len(queue'[m]),
                        queue'[k][i] = queue'[m][j]
                 PROVE  k = m /\ i = j
      BY DEF Disjoint
    <2>1. CASE k # l /\ m # l
      BY <1>2, <2>1 DEF QInv, Disjoint
    <2>2. CASE k = l /\ m = l
      BY <1>1, <1>2, <2>2 DEF QInv, Disjoint
    <2>3. CASE k = l /\ m # l
      BY <1>1, <1>2, <2>3 DEF QInv, Disjoint
    <2>4. CASE k # l /\ m = l
      BY <1>1, <1>2, <2>4 DEF QInv, Disjoint
    <2> QED BY <2>1, <2>2, <2>3, <2>4
  <1>4. CASE head[l] = None
    <2>1. /\ q = <<>> /\ Len(q) = 0
          /\ t_svcprev' = [t_svcprev EXCEPT ![t] = t]
          /\ t_svcnext' = [t_svcnext EXCEPT ![t] = None]
          /\ head' = [head EXCEPT ![l] = t]
      BY <1>4, QueueFacts DEF push_task
    <2>2. TypeOK'
      BY <1>1, <1>2, <2>1 DEF QInv, TypeOK
    <2>3. Represents'
      <3> SUFFICES ASSUME NEW k \in List
                   PROVE  /\ head'[k] = IF queue'[k] = <<>> THEN None ELSE queue'[k][1]
                          /\ \A i \in 1..Len(queue'[k]) :
                               /\ t_svcnext'[queue'[k][i]] =
                                    IF i = Len(queue'[k]) THEN None ELSE queue'[k][i + 1]
                               /\ t_svcprev'[queue'[k][i]] =
                                    IF i = 1 THEN queue'[k][Len(queue'[k])]
                                    ELSE queue'[k][i - 1]
        BY DEF Represents
      <3>1. CASE k = l
        <4>1. queue'[l] # <<>>
          BY <1>2, <2>1, EmptySeq
        <4> QED BY <1>2, <2>1, <3>1, <4>1, SMTT(30) DEF QInv, TypeOK
      <3>2. CASE k # l
        <4>1. \A i \in 1..Len(queue[k]) : queue[k][i] # t /\ queue[k][i] \in Task
          BY <1>1, QueueFacts
        <4>2. /\ queue'[k] = queue[k] /\ head'[k] = head[k]
              /\ \A u \in Task : u # t =>
                     t_svcnext'[u] = t_svcnext[u] /\ t_svcprev'[u] = t_svcprev[u]
          BY <1>2, <2>1, <3>2 DEF QInv, TypeOK
        <4> QED BY <4>1, <4>2 DEF QInv, Represents
      <3> QED BY <3>1, <3>2
    <2> QED BY <1>3, <2>2, <2>3 DEF QInv
  <1>5. CASE head[l] # None
    <2> DEFINE n == Len(q)
    <2>1. /\ q # <<>> /\ n > 0 /\ head[l] = q[1] /\ q[1] \in Task /\ q[n] \in Task
      BY <1>2, <1>5, QueueFacts
    <2>2. t_svcprev[q[1]] = q[n]
      BY <1>2, <2>1 DEF QInv, Represents
    <2>3. /\ t_svcprev' = [t_svcprev EXCEPT ![t] = q[n], ![q[1]] = t]
          /\ t_svcnext' = [t_svcnext EXCEPT ![q[n]] = t, ![t] = None]
          /\ head' = head
      BY <1>5, <2>1, <2>2 DEF push_task, linked_last
    <2>4. TypeOK'
      BY <1>1, <1>2, <2>1, <2>3 DEF QInv, TypeOK
    <2>5. \A u \in Task :
            /\ t_svcprev'[u] = IF u = q[1] THEN t ELSE IF u = t THEN q[n] ELSE t_svcprev[u]
            /\ t_svcnext'[u] = IF u = t THEN None ELSE IF u = q[n] THEN t ELSE t_svcnext[u]
      BY <2>1, <2>3 DEF QInv, TypeOK
    <2>6. Represents'
      <3> SUFFICES ASSUME NEW k \in List
                   PROVE  /\ head'[k] = IF queue'[k] = <<>> THEN None ELSE queue'[k][1]
                          /\ \A i \in 1..Len(queue'[k]) :
                               /\ t_svcnext'[queue'[k][i]] =
                                    IF i = Len(queue'[k]) THEN None ELSE queue'[k][i + 1]
                               /\ t_svcprev'[queue'[k][i]] =
                                    IF i = 1 THEN queue'[k][Len(queue'[k])]
                                    ELSE queue'[k][i - 1]
        BY DEF Represents
      <3>1. CASE k = l
        <4>1. queue'[l] # <<>> /\ queue'[l][1] = q[1]
          BY <1>2, <2>1, EmptySeq
        <4>2. ASSUME NEW i \in 1..(n + 1)
              PROVE  /\ t_svcnext'[queue'[l][i]] =
                          IF i = n + 1 THEN None ELSE queue'[l][i + 1]
                     /\ t_svcprev'[queue'[l][i]] =
                          IF i = 1 THEN t ELSE queue'[l][i - 1]
          <5>1. CASE i = n + 1
            <6>1. queue'[l][i] = t /\ queue'[l][i - 1] = q[n] /\ i # 1 /\ t # q[1]
              BY <1>1, <1>2, <2>1, <5>1
            <6> QED BY <2>5, <5>1, <6>1
          <5>2. CASE i # n + 1
            <6>1. i \in 1..n /\ queue'[l][i] = q[i] /\ q[i] \in Task /\ q[i] # t
              BY <1>1, <1>2, <5>2, QueueFacts
            <6>2. q[i] = q[1] <=> i = 1
              BY <1>2, <2>1, <6>1 DEF QInv, Disjoint
            <6>3. q[i] = q[n] <=> i = n
              BY <1>2, <2>1, <6>1 DEF QInv, Disjoint
            <6>4. /\ t_svcnext[q[i]] = IF i = n THEN None ELSE q[i + 1]
                  /\ i # 1 => t_svcprev[q[i]] = q[i - 1]
              BY <6>1 DEF QInv, Represents
            <6>5. /\ i # n => queue'[l][i + 1] = q[i + 1]
                  /\ i = n => queue'[l][i + 1] = t
                  /\ i # 1 => queue'[l][i - 1] = q[i - 1]
              BY <1>2, <6>1
            <6> QED BY <2>5, <5>2, <6>1, <6>2, <6>3, <6>4, <6>5
          <5> QED BY <5>1, <5>2
        <4>3. head'[k] = IF queue'[k] = <<>> THEN None ELSE queue'[k][1]
          BY <2>1, <2>3, <3>1, <4>1
        <4>4. Len(queue'[l]) = n + 1 /\ queue'[l][n + 1] = t
          BY <1>2
        <4> QED BY <3>1, <4>2, <4>3, <4>4
      <3>2. CASE k # l
        <4>1. \A i \in 1..Len(queue[k]) :
                 queue[k][i] # t /\ queue[k][i] \in Task
                 /\ queue[k][i] # q[1] /\ queue[k][i] # q[n]
          BY <1>1, <1>2, <2>1, <3>2, QueueFacts DEF QInv, Disjoint
        <4>2. queue'[k] = queue[k] /\ head'[k] = head[k]
          BY <1>2, <2>3, <3>2
        <4>3. \A i \in 1..Len(queue[k]) :
                 /\ t_svcnext'[queue[k][i]] = t_svcnext[queue[k][i]]
                 /\ t_svcprev'[queue[k][i]] = t_svcprev[queue[k][i]]
          BY <2>5, <4>1
        <4> QED BY <4>2, <4>3 DEF QInv, Represents
      <3> QED BY <3>1, <3>2
    <2> QED BY <1>3, <2>4, <2>6 DEF QInv
  <1> QED BY <1>4, <1>5

\* Removing the element at position i of a list from the queue keeps the
\* queues apart.
LEMMA WithoutDisjoint ==
    ASSUME QInv, NEW l \in List, NEW i \in 1..Len(queue[l]),
           queue' = [queue EXCEPT ![l] = Without(@, i)]
    PROVE  /\ Disjoint'
           /\ queue' \in [List -> Seq(Task)]
           /\ \A k \in List : k # l => queue'[k] = queue[k]
           /\ Len(queue'[l]) = Len(queue[l]) - 1
           /\ \A j \in 1..(Len(queue[l]) - 1) :
                  queue'[l][j] = IF j < i THEN queue[l][j] ELSE queue[l][j + 1]
  <1>1. /\ queue[l] \in Seq(Task) /\ Len(queue[l]) \in Nat
        /\ queue'[l] = Without(queue[l], i)
        /\ \A k \in List : k # l => queue'[k] = queue[k]
    BY QueueFacts DEF QInv, TypeOK
  <1>2. /\ queue'[l] \in Seq(Task)
        /\ Len(queue'[l]) = Len(queue[l]) - 1
        /\ \A j \in 1..(Len(queue[l]) - 1) :
               queue'[l][j] = IF j < i THEN queue[l][j] ELSE queue[l][j + 1]
    <2>1. /\ Without(queue[l], i) \in Seq(Task)
          /\ Len(Without(queue[l], i)) = Len(queue[l]) - 1
          /\ \A j \in 1..(Len(queue[l]) - 1) :
                 Without(queue[l], i)[j] =
                     IF j < i THEN queue[l][j] ELSE queue[l][j + 1]
      BY <1>1, WithoutProperties
    <2> QED BY <1>1, <2>1
  <1>3. queue' \in [List -> Seq(Task)]
    BY <1>1, <1>2 DEF QInv, TypeOK
  <1>4. Disjoint'
    <2> SUFFICES ASSUME NEW k \in List, NEW m \in List,
                        NEW a \in 1..Len(queue'[k]), NEW b \in 1..Len(queue'[m]),
                        queue'[k][a] = queue'[m][b]
                 PROVE  k = m /\ a = b
      BY DEF Disjoint
    <2> DEFINE old(j) == IF j < i THEN j ELSE j + 1
    <2>1. \A j \in 1..(Len(queue[l]) - 1) :
             old(j) \in 1..Len(queue[l]) /\ queue'[l][j] = queue[l][old(j)]
      BY <1>1, <1>2
    <2>2. CASE k # l /\ m # l
      BY <1>1, <2>2 DEF QInv, Disjoint
    <2>3. CASE k = l /\ m = l
      <3>1. old(a) = old(b)
        <4>1. a \in 1..(Len(queue[l]) - 1) /\ b \in 1..(Len(queue[l]) - 1)
          BY <1>2, <2>3
        <4>2. queue[l][old(a)] = queue[l][old(b)]
          BY <2>1, <2>3, <4>1
        <4>3. old(a) \in 1..Len(queue[l]) /\ old(b) \in 1..Len(queue[l])
          BY <2>1, <4>1
        <4> HIDE DEF old
        <4> QED BY <4>2, <4>3 DEF QInv, Disjoint
      <3>2. a = b
        BY <1>1, <1>2, <2>3, <3>1
      <3> QED BY <2>3, <3>2
    <2>4. CASE k = l /\ m # l
      <3>1. a \in 1..(Len(queue[l]) - 1) /\ b \in 1..Len(queue[m])
        BY <1>1, <1>2, <2>4
      <3>2. /\ old(a) \in 1..Len(queue[l])
            /\ queue[l][old(a)] = queue[m][b]
        BY <1>1, <2>1, <2>4, <3>1
      <3> HIDE DEF old
      <3> QED BY <3>1, <3>2, <2>4 DEF QInv, Disjoint
    <2>5. CASE k # l /\ m = l
      <3>1. b \in 1..(Len(queue[l]) - 1) /\ a \in 1..Len(queue[k])
        BY <1>1, <1>2, <2>5
      <3>2. /\ old(b) \in 1..Len(queue[l])
            /\ queue[l][old(b)] = queue[k][a]
        BY <1>1, <2>1, <2>5, <3>1
      <3> HIDE DEF old
      <3> QED BY <3>1, <3>2, <2>5 DEF QInv, Disjoint
    <2> QED BY <2>2, <2>3, <2>4, <2>5
  <1> QED BY <1>1, <1>2, <1>3, <1>4

\* A sequence that is neither empty nor a single element has a second one.
LEMMA SecondExists ==
    ASSUME NEW n \in Nat, n > 0, n # 1
    PROVE  2 \in 1..n /\ 1 \in 1..(n - 1)
  OBVIOUS

\* unlink_task of a task that waits in the list, wherever it stands.
LEMMA UnlinkTask ==
    ASSUME QInv, NEW l \in List, NEW i \in 1..Len(queue[l]), give_up(l, i)
    PROVE  QInv'
  <1> DEFINE q == queue[l]
             n == Len(q)
             t == q[i]
  <1>1. /\ queue' = [queue EXCEPT ![l] = Without(@, i)]
        /\ unlink_task(l, t)
    BY DEF give_up
  <1>2. /\ Disjoint'
        /\ queue' \in [List -> Seq(Task)]
        /\ \A k \in List : k # l => queue'[k] = queue[k]
        /\ Len(queue'[l]) = n - 1
        /\ \A j \in 1..(n - 1) : queue'[l][j] = IF j < i THEN q[j] ELSE q[j + 1]
    BY <1>1, WithoutDisjoint
  <1>3. /\ n \in Nat /\ n > 0 /\ q # <<>> /\ head[l] = q[1]
        /\ \A j \in 1..n : q[j] \in Task /\ q[j] # None
    BY QueueFacts
  <1>size. n \in Nat /\ n > 0 /\ i \in 1..n
    BY <1>3
  <1>4. /\ \A j \in 1..n : t_svcnext[q[j]] = IF j = n THEN None ELSE q[j + 1]
        /\ \A j \in 1..n : t_svcprev[q[j]] = IF j = 1 THEN q[n] ELSE q[j - 1]
    BY DEF QInv, Represents
  <1>5. \A a, b \in 1..n : q[a] = q[b] => a = b
    BY DEF QInv, Disjoint
  <1>6. \A k \in List : k # l =>
           \A a \in 1..Len(queue[k]), b \in 1..n :
               queue[k][a] # q[b] /\ queue[k][a] \in Task
    BY QueueFacts DEF QInv, Disjoint
  <1>7. /\ queue'[l] = <<>> <=> n = 1
        /\ \A k \in List : queue'[k] \in Seq(Task)
    <2>1. \A k \in List : queue'[k] \in Seq(Task)
      BY <1>2
    <2>2. queue'[l] = <<>> <=> Len(queue'[l]) = 0
      BY <2>1, EmptySeq
    <2> QED BY <1>2, <1>3, <2>1, <2>2
  \* It is enough to know the new links of this list, and that those of other
  \* tasks stay.
  <1>8. SUFFICES /\ head' \in [List -> Task \cup {None}]
                 /\ t_svcnext' \in [Task -> Task \cup {None}]
                 /\ t_svcprev' \in [Task -> Task \cup {None}]
                 /\ \A k \in List : k # l => head'[k] = head[k]
                 /\ \A u \in Task : (\A b \in 1..n : u # q[b]) =>
                        t_svcnext'[u] = t_svcnext[u] /\ t_svcprev'[u] = t_svcprev[u]
                 /\ head'[l] = IF n = 1 THEN None ELSE IF i = 1 THEN q[2] ELSE q[1]
                 /\ \A j \in 1..n : j # i =>
                        /\ t_svcnext'[q[j]] =
                              IF j = n \/ (j = n - 1 /\ i = n) THEN None
                              ELSE IF j + 1 = i THEN q[j + 2] ELSE q[j + 1]
                        /\ t_svcprev'[q[j]] =
                              IF j = 1 \/ (j = 2 /\ i = 1)
                              THEN (IF i = n THEN q[n - 1] ELSE q[n])
                              ELSE IF j - 1 = i THEN q[j - 2] ELSE q[j - 1]
    <2>1. TypeOK'
      BY <1>2, <1>8 DEF TypeOK
    <2>2. Represents'
      <3> SUFFICES ASSUME NEW k \in List
                   PROVE  /\ head'[k] = IF queue'[k] = <<>> THEN None ELSE queue'[k][1]
                          /\ \A j \in 1..Len(queue'[k]) :
                               /\ t_svcnext'[queue'[k][j]] =
                                    IF j = Len(queue'[k]) THEN None ELSE queue'[k][j + 1]
                               /\ t_svcprev'[queue'[k][j]] =
                                    IF j = 1 THEN queue'[k][Len(queue'[k])]
                                    ELSE queue'[k][j - 1]
        BY DEF Represents
      <3>1. CASE k # l
        <4>1. queue'[k] = queue[k] /\ head'[k] = head[k]
          BY <1>2, <1>8, <3>1
        <4>2. \A j \in 1..Len(queue[k]) :
                 /\ t_svcnext'[queue[k][j]] = t_svcnext[queue[k][j]]
                 /\ t_svcprev'[queue[k][j]] = t_svcprev[queue[k][j]]
          BY <1>6, <1>8, <3>1
        <4> QED BY <4>1, <4>2 DEF QInv, Represents
      <3>2. CASE k = l
        <4>1. head'[l] = IF queue'[l] = <<>> THEN None ELSE queue'[l][1]
          <5>1. CASE n = 1
            BY <1>7, <1>8, <5>1
          <5>2. CASE n # 1
            <6>1. 1 \in 1..(n - 1) /\ queue'[l] # <<>>
              BY <1>size, <1>7, <5>2, SecondExists
            <6>2. queue'[l][1] = IF 1 < i THEN q[1] ELSE q[2]
              BY <1>2, <6>1
            <6>3. i = 1 <=> ~(1 < i)
              BY <1>3
            <6> QED BY <1>8, <5>2, <6>1, <6>2, <6>3
          <5> QED BY <5>1, <5>2
        <4>2. ASSUME NEW j \in 1..(n - 1)
              PROVE  /\ t_svcnext'[queue'[l][j]] =
                          IF j = n - 1 THEN None ELSE queue'[l][j + 1]
                     /\ t_svcprev'[queue'[l][j]] =
                          IF j = 1 THEN queue'[l][n - 1] ELSE queue'[l][j - 1]
          <5> DEFINE o == IF j < i THEN j ELSE j + 1
          <5>1. o \in 1..n /\ o # i /\ queue'[l][j] = q[o]
            BY <1>2, <1>3
          <5>2. t_svcnext'[q[o]] = IF j = n - 1 THEN None ELSE queue'[l][j + 1]
            <6>1. t_svcnext'[q[o]] =
                      IF o = n \/ (o = n - 1 /\ i = n) THEN None
                      ELSE IF o + 1 = i THEN q[o + 2] ELSE q[o + 1]
              BY <1>8, <5>1
            <6>2. j # n - 1 => queue'[l][j + 1] = IF j + 1 < i THEN q[j + 1] ELSE q[j + 2]
              BY <1>2, <1>3
            <6>3. j = n - 1 <=> (o = n \/ (o = n - 1 /\ i = n))
              BY <1>3
            <6>4. CASE j < i
              BY <1>3, <6>1, <6>2, <6>3, <6>4
            <6>5. CASE ~(j < i)
              BY <1>3, <6>1, <6>2, <6>3, <6>5
            <6> QED BY <6>4, <6>5
          <5>3. t_svcprev'[q[o]] = IF j = 1 THEN queue'[l][n - 1] ELSE queue'[l][j - 1]
            <6>1. t_svcprev'[q[o]] =
                      IF o = 1 \/ (o = 2 /\ i = 1)
                      THEN (IF i = n THEN q[n - 1] ELSE q[n])
                      ELSE IF o - 1 = i THEN q[o - 2] ELSE q[o - 1]
              BY <1>8, <5>1
            <6>2. j # 1 => queue'[l][j - 1] = IF j - 1 < i THEN q[j - 1] ELSE q[j]
              BY <1>2, <1>3
            <6>3. j = 1 <=> (o = 1 \/ (o = 2 /\ i = 1))
              BY <1>3
            <6>4. queue'[l][n - 1] = IF i = n THEN q[n - 1] ELSE q[n]
              <7>1. n - 1 \in 1..(n - 1) /\ (n - 1 < i <=> i = n)
                BY <1>3
              <7>3. queue'[l][n - 1] = IF n - 1 < i THEN q[n - 1] ELSE q[(n - 1) + 1]
                BY <1>2, <7>1
              <7>4. (n - 1) + 1 = n
                BY <1>size
              <7> QED BY <7>1, <7>3, <7>4
            <6>5. CASE j < i
              BY <1>3, <6>1, <6>2, <6>3, <6>4, <6>5
            <6>6. CASE ~(j < i)
              BY <1>3, <6>1, <6>2, <6>3, <6>4, <6>6
            <6> QED BY <6>5, <6>6
          <5> QED BY <5>1, <5>2, <5>3
        <4>3. Len(queue'[l]) = n - 1
          BY <1>2
        <4> QED BY <3>2, <4>1, <4>2, <4>3
      <3> QED BY <3>1, <3>2
    <2> QED BY <1>2, <2>1, <2>2 DEF QInv
  <1>9. t \in Task /\ t_svcnext[t] = (IF i = n THEN None ELSE q[i + 1])
        /\ t_svcprev[t] = (IF i = 1 THEN q[n] ELSE q[i - 1])
    BY <1>3, <1>4
  <1>10. CASE i = 1
    <2>1. /\ head' = [head EXCEPT ![l] = IF n = 1 THEN None ELSE q[2]]
          /\ t_svcprev' = IF n = 1 THEN t_svcprev ELSE [t_svcprev EXCEPT ![q[2]] = q[n]]
          /\ t_svcnext' = t_svcnext
      <3>1. t = head[l]
        BY <1>3, <1>10
      <3>2. t_svcnext[t] = None <=> n = 1
        <4>1. n # 1 => 2 \in 1..n
          BY <1>size, SecondExists
        <4>2. t_svcnext[t] = IF n = 1 THEN None ELSE q[2]
          BY <1>size, <1>9, <1>10
        <4> QED BY <1>3, <4>1, <4>2
      <3> QED BY <1>1, <1>9, <1>10, <3>1, <3>2 DEF unlink_task
    <2>2. /\ head' \in [List -> Task \cup {None}]
          /\ t_svcnext' \in [Task -> Task \cup {None}]
          /\ t_svcprev' \in [Task -> Task \cup {None}]
      <3>1. (IF n = 1 THEN None ELSE q[2]) \in Task \cup {None}
        <4>1. n # 1 => 2 \in 1..n
          BY <1>size, SecondExists
        <4> QED BY <1>3, <4>1
      <3>2. q[n] \in Task
        BY <1>3
      <3> QED BY <2>1, <3>1, <3>2 DEF QInv, TypeOK
    <2>3. \A u \in Task : /\ t_svcnext'[u] = t_svcnext[u]
                          /\ t_svcprev'[u] = IF n # 1 /\ u = q[2] THEN q[n] ELSE t_svcprev[u]
      BY <1>3, <2>1 DEF QInv, TypeOK
    <2>4. ASSUME NEW j \in 1..n, j # i
          PROVE  /\ t_svcnext'[q[j]] =
                        IF j = n \/ (j = n - 1 /\ i = n) THEN None
                        ELSE IF j + 1 = i THEN q[j + 2] ELSE q[j + 1]
                 /\ t_svcprev'[q[j]] =
                        IF j = 1 \/ (j = 2 /\ i = 1)
                        THEN (IF i = n THEN q[n - 1] ELSE q[n])
                        ELSE IF j - 1 = i THEN q[j - 2] ELSE q[j - 1]
      <3>1. n # 1 /\ 2 \in 1..n /\ (q[j] = q[2] <=> j = 2)
        BY <1>3, <1>5, <1>10, <2>4
      <3> QED BY <1>3, <1>4, <1>10, <2>3, <2>4, <3>1, SMTT(30)
    <2>5. head'[l] = IF n = 1 THEN None ELSE IF i = 1 THEN q[2] ELSE q[1]
      BY <1>10, <2>1 DEF QInv, TypeOK
    <2>6. \A k \in List : k # l => head'[k] = head[k]
      BY <2>1 DEF QInv, TypeOK
    <2>7. \A u \in Task : (\A b \in 1..n : u # q[b]) =>
              t_svcnext'[u] = t_svcnext[u] /\ t_svcprev'[u] = t_svcprev[u]
      <3>1. n # 1 => 2 \in 1..n
        BY <1>size, SecondExists
      <3> QED BY <2>3, <3>1
    <2> QED BY <2>2, <2>4, <2>5, <2>6, <2>7
  <1>11. CASE i # 1
    <2>1. t # head[l] /\ i - 1 \in 1..n /\ n # 1 /\ 1 \in 1..n
      BY <1>3, <1>5, <1>11
    <2>2. /\ head' = head
          /\ t_svcnext' = [t_svcnext EXCEPT ![q[i - 1]] = IF i = n THEN None ELSE q[i + 1]]
          /\ t_svcprev' = [t_svcprev EXCEPT ![IF i = n THEN q[1] ELSE q[i + 1]] = q[i - 1]]
      <3>1. t_svcnext[t] = None <=> i = n
        BY <1>3, <1>9
      <3> QED BY <1>1, <1>3, <1>9, <1>11, <2>1, <3>1 DEF unlink_task
    <2>3. /\ head' \in [List -> Task \cup {None}]
          /\ t_svcnext' \in [Task -> Task \cup {None}]
          /\ t_svcprev' \in [Task -> Task \cup {None}]
      BY <1>3, <2>1, <2>2 DEF QInv, TypeOK
    <2>4. \A u \in Task :
             /\ t_svcnext'[u] = IF u = q[i - 1] THEN (IF i = n THEN None ELSE q[i + 1])
                                ELSE t_svcnext[u]
             /\ t_svcprev'[u] = IF u = (IF i = n THEN q[1] ELSE q[i + 1]) THEN q[i - 1]
                                ELSE t_svcprev[u]
      BY <2>2 DEF QInv, TypeOK
    <2>5. ASSUME NEW j \in 1..n, j # i
          PROVE  /\ t_svcnext'[q[j]] =
                        IF j = n \/ (j = n - 1 /\ i = n) THEN None
                        ELSE IF j + 1 = i THEN q[j + 2] ELSE q[j + 1]
                 /\ t_svcprev'[q[j]] =
                        IF j = 1 \/ (j = 2 /\ i = 1)
                        THEN (IF i = n THEN q[n - 1] ELSE q[n])
                        ELSE IF j - 1 = i THEN q[j - 2] ELSE q[j - 1]
      <3>1. q[j] = q[i - 1] <=> j = i - 1
        BY <1>5, <2>1
      <3>2. q[j] = (IF i = n THEN q[1] ELSE q[i + 1]) <=> j = (IF i = n THEN 1 ELSE i + 1)
        BY <1>3, <1>5, <2>1
      <3>3. t_svcnext'[q[j]] =
                        IF j = n \/ (j = n - 1 /\ i = n) THEN None
                        ELSE IF j + 1 = i THEN q[j + 2] ELSE q[j + 1]
        BY <1>3, <1>4, <2>4, <2>5, <3>1, SMTT(30)
      <3>4. t_svcprev'[q[j]] =
                        IF j = 1 \/ (j = 2 /\ i = 1)
                        THEN (IF i = n THEN q[n - 1] ELSE q[n])
                        ELSE IF j - 1 = i THEN q[j - 2] ELSE q[j - 1]
        BY <1>3, <1>4, <1>11, <2>4, <2>5, <3>2, SMTT(30)
      <3> QED BY <3>3, <3>4
    <2>6. \A u \in Task : (\A b \in 1..n : u # q[b]) =>
              t_svcnext'[u] = t_svcnext[u] /\ t_svcprev'[u] = t_svcprev[u]
      <3>1. i # n => i + 1 \in 1..n
        BY <1>3
      <3> QED BY <2>1, <2>4, <3>1
    <2> QED BY <1>3, <1>11, <2>1, <2>2, <2>3, <2>5, <2>6
  <1> QED BY <1>10, <1>11

\* Taking the head is unlinking the first task.
LEMMA TakeHead ==
    ASSUME QInv, NEW l \in List, take_head(l)
    PROVE  QInv'
  <1> DEFINE q == queue[l]
  <1>1. /\ q \in Seq(Task) /\ Len(q) \in Nat /\ Len(q) # 0 /\ q # <<>>
        /\ head[l] = q[1] /\ q[1] \in Task /\ 1 \in 1..Len(q)
    BY QueueFacts DEF take_head
  <1>2. Tail(q) = Without(q, 1)
    <2>1. /\ Tail(q) \in Seq(Task) /\ Len(Tail(q)) = Len(q) - 1
          /\ \A j \in 1..Len(Tail(q)) : Tail(q)[j] = q[j + 1]
      BY <1>1, HeadTailProperties
    <2>2. /\ Without(q, 1) \in Seq(Task) /\ Len(Without(q, 1)) = Len(q) - 1
          /\ \A j \in 1..(Len(q) - 1) : Without(q, 1)[j] = q[j + 1]
      <3>1. /\ Without(q, 1) \in Seq(Task) /\ Len(Without(q, 1)) = Len(q) - 1
            /\ \A j \in 1..(Len(q) - 1) :
                   Without(q, 1)[j] = IF j < 1 THEN q[j] ELSE q[j + 1]
        BY <1>1, WithoutProperties
      <3> QED BY <1>1, <3>1
    <2>3. \A j \in 1..Len(Tail(q)) : Tail(q)[j] = Without(q, 1)[j]
      BY <2>1, <2>2
    <2>4. Len(Tail(q)) = Len(Without(q, 1))
      BY <2>1, <2>2
    <2> HIDE DEF q
    <2> QED BY <2>1, <2>2, <2>3, <2>4, SeqEqual, Zenon
  <1>3. queue' = [queue EXCEPT ![l] = Without(@, 1)]
    BY <1>2 DEF take_head
  <1>4. unlink_task(l, q[1])
    BY <1>1 DEF take_head, pass_tail_on, unlink_task
  <1>5. give_up(l, 1)
    BY <1>1, <1>3, <1>4 DEF give_up
  <1> QED BY <1>1, <1>5, UnlinkTask

LEMMA Drop ==
    ASSUME QInv, NEW l \in List, drop(l)
    PROVE  QInv'
  <1>1. /\ queue'[l] = <<>> /\ Len(queue'[l]) = 0 /\ head'[l] = None
        /\ \A k \in List : k # l => queue'[k] = queue[k] /\ head'[k] = head[k]
        /\ t_svcnext' = t_svcnext /\ t_svcprev' = t_svcprev
    BY DEF QInv, TypeOK, drop
  <1>2. TypeOK'
    BY <1>1 DEF QInv, TypeOK, drop
  <1>3. Disjoint'
    BY <1>1 DEF QInv, Disjoint
  <1>4. Represents'
    <2> SUFFICES ASSUME NEW k \in List
                 PROVE  /\ head'[k] = IF queue'[k] = <<>> THEN None ELSE queue'[k][1]
                        /\ \A j \in 1..Len(queue'[k]) :
                             /\ t_svcnext'[queue'[k][j]] =
                                  IF j = Len(queue'[k]) THEN None ELSE queue'[k][j + 1]
                             /\ t_svcprev'[queue'[k][j]] =
                                  IF j = 1 THEN queue'[k][Len(queue'[k])]
                                  ELSE queue'[k][j - 1]
      BY DEF Represents
    <2>1. CASE k = l
      BY <1>1, <2>1
    <2>2. CASE k # l
      BY <1>1, <2>2 DEF QInv, Represents
    <2> QED BY <2>1, <2>2
  <1> QED BY <1>2, <1>3, <1>4 DEF QInv

LEMMA InitInvariant == Init => QInv
  <1> SUFFICES ASSUME Init PROVE QInv
    OBVIOUS
  <1>1. \A l \in List : queue[l] = <<>> /\ Len(queue[l]) = 0 /\ head[l] = None
    BY DEF Init
  <1>2. TypeOK
    BY DEF Init, TypeOK
  <1> QED BY <1>1, <1>2 DEF QInv, Disjoint, Represents

LEMMA NextInvariant == QInv /\ [Next]_vars => QInv'
  <1> SUFFICES ASSUME QInv, [Next]_vars PROVE QInv'
    OBVIOUS
  <1>1. ASSUME NEW l \in List, NEW t \in Task, push_task(l, t) PROVE QInv'
    BY <1>1, PushTask
  <1>2. ASSUME NEW l \in List, take_head(l) PROVE QInv'
    BY <1>2, TakeHead
  <1>3. ASSUME NEW l \in List, NEW i \in 1..Len(queue[l]), give_up(l, i) PROVE QInv'
    BY <1>3, UnlinkTask
  <1>4. ASSUME NEW l \in List, drop(l) PROVE QInv'
    BY <1>4, Drop
  <1>5. CASE UNCHANGED vars
    BY <1>5 DEF vars, QInv, TypeOK, Disjoint, Represents
  <1> QED BY <1>1, <1>2, <1>3, <1>4, <1>5 DEF Next

\* Whatever sequence of pushes, wake-ups and give-ups the tasks run through,
\* and whatever links they bring from other lists, the pointers message.lua
\* and service.lua follow always stand for the queue of each list.
THEOREM QueuesFaithful == Spec => []Represents
  <1>1. QInv => Represents
    BY DEF QInv
  <1> QED BY <1>1, InitInvariant, NextInvariant, PTL DEF Spec
============================================================================
