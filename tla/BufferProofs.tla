---------------------------- MODULE BufferProofs ----------------------------
(***************************************************************************)
(* Proofs about Buffer, for every size of the first block, every bound on  *)
(* the memory, and any strings, integers, formats, counts and offsets.     *)
(***************************************************************************)
EXTENDS Buffer, SequenceTheorems, WellFoundedInduction, TLAPS

---------------------------------------------------------------------------
(* Numbers and recursion *)

\* A set of naturals that is not empty has a least member.
LEMMA LeastMember ==
    ASSUME NEW T, T \subseteq Nat, T # {}
    PROVE  \E x \in T : \A y \in T : x <= y
  <1>1. PICK x \in T : \A y \in T : <<y, x>> \notin OpToRel(<, Nat)
    BY NatLessThanWellFounded, WFMin
  <1>2. OpToRel(<, Nat) = {ss \in Nat \X Nat : ss[1] < ss[2]}
    BY DEF OpToRel
  <1>3. ASSUME NEW y \in T
        PROVE  x <= y
    <2>1. x \in Nat /\ y \in Nat
      OBVIOUS
    <2>2. ~(y < x)
      BY <1>1, <1>2, <2>1
    <2> QED BY <2>1, <2>2
  <1> QED BY <1>3

\* A set that holds 0 and with each number the next, up to n, holds 0..n.
LEMMA Upwards ==
    ASSUME NEW n \in Nat, NEW T, 0 \in T, \A i \in 1..n : i - 1 \in T => i \in T
    PROVE  \A i \in 0..n : i \in T
  <1> DEFINE out == {i \in 0..n : i \notin T}
  <1>1. SUFFICES ASSUME out # {} PROVE FALSE
    OBVIOUS
  <1>2. out \subseteq Nat
    OBVIOUS
  <1> HIDE DEF out
  <1>3. PICK i \in out : \A j \in out : i <= j
    BY <1>1, <1>2, LeastMember
  <1> USE DEF out
  <1>4. i \in 1..n /\ i \notin T
    BY <1>3
  <1>5. i - 1 \in T
    BY <1>3, <1>4
  <1> QED BY <1>4, <1>5

\* A function whose first value is in X, and each with the one before it, has
\* all its values there.
LEMMA Stays ==
    ASSUME NEW n \in Nat, NEW f, NEW X, f[0] \in X,
           \A i \in 1..n : f[i - 1] \in X => f[i] \in X
    PROVE  \A i \in 0..n : f[i] \in X
  <1> DEFINE T == {i \in 0..n : f[i] \in X}
  <1>1. 0 \in T /\ \A i \in 1..n : i - 1 \in T => i \in T
    OBVIOUS
  <1> HIDE DEF T
  <1>2. \A i \in 0..n : i \in T
    BY <1>1, Upwards
  <1> QED BY <1>2 DEF T

Solves(f, n, X, x0, step) ==
    /\ f \in [0..n -> X] /\ f[0] = x0
    /\ \A i \in 1..n : f[i] = step[i][f[i - 1]]

\* A recursive definition over 0..n within X has a solution.
LEMMA Recursion ==
    ASSUME NEW n \in Nat, NEW X, NEW x0 \in X, NEW step \in [1..n -> [X -> X]]
    PROVE  \E f : Solves(f, n, X, x0, step)
  <1> DEFINE P(m) == \E f \in [0..m -> X] :
                         f[0] = x0 /\ \A i \in 1..m : f[i] = step[i][f[i - 1]]
             T == {m \in 0..n : P(m)}
  <1>1. 0 \in T
    <2> DEFINE f == [i \in 0..0 |-> x0]
    <2>1. f \in [0..0 -> X] /\ f[0] = x0
      OBVIOUS
    <2>2. 1..0 = {}
      OBVIOUS
    <2> HIDE DEF f
    <2>3. P(0)
      BY <2>1, <2>2
    <2> QED BY <2>3
  <1>2. ASSUME NEW m \in 1..n, m - 1 \in T
        PROVE  m \in T
    <2>1. PICK f \in [0..(m - 1) -> X] :
              f[0] = x0 /\ \A i \in 1..(m - 1) : f[i] = step[i][f[i - 1]]
      BY <1>2
    <2> DEFINE g == [i \in 0..m |-> IF i < m THEN f[i] ELSE step[m][f[m - 1]]]
    <2>2. g \in [0..m -> X] /\ g[0] = x0
      BY <2>1
    <2>3. ASSUME NEW i \in 1..m
          PROVE  g[i] = step[i][g[i - 1]]
      <3>1. i < m => g[i] = f[i]
        OBVIOUS
      <3>2. g[i - 1] = f[i - 1]
        OBVIOUS
      <3>3. CASE i = m
        BY <3>2, <3>3
      <3>4. CASE i < m
        BY <3>1, <3>2, <3>4, <2>1
      <3> QED BY <3>3, <3>4
    <2> HIDE DEF g
    <2>4. P(m)
      BY <2>2, <2>3
    <2> HIDE DEF P
    <2> QED BY <2>4
  <1> HIDE DEF T
  <1>3. \A m \in 0..n : m \in T
    BY <1>1, <1>2, Upwards
  <1>4. n \in T
    BY <1>3
  <1> QED BY <1>4 DEF T, Solves

\* Of widths that are naturals: where the pieces end.
LEMMA Ends ==
    ASSUME NEW n \in Nat, NEW widths \in [1..n -> Nat], Len(widths) = n
    PROVE  /\ ends_at(widths) \in [0..n -> Nat]
           /\ ends_at(widths)[0] = 0
           /\ \A i \in 1..n : ends_at(widths)[i] = ends_at(widths)[i - 1] + widths[i]
  <1> DEFINE step == [i \in 1..n |-> [x \in Nat |-> x + widths[i]]]
             E(f) == f = [i \in 0..n |-> IF i = 0 THEN 0 ELSE f[i - 1] + widths[i]]
  <1>1. step \in [1..n -> [Nat -> Nat]] /\ 0 \in Nat
    OBVIOUS
  <1> HIDE DEF step
  <1>2. PICK g : Solves(g, n, Nat, 0, step)
    BY <1>1, Recursion
  <1>3. ASSUME NEW i \in 1..n
        PROVE  g[i] = g[i - 1] + widths[i]
    <2>1. g[i - 1] \in Nat
      BY <1>2 DEF Solves
    <2> QED BY <1>2, <2>1 DEF step, Solves
  <1>4. E(g)
    BY <1>2, <1>3 DEF Solves
  <1>5. ends_at(widths) = CHOOSE f : E(f)
    BY DEF ends_at
  <1>6. E(ends_at(widths))
    BY <1>4, <1>5
  <1> DEFINE e == ends_at(widths)
  <1>7. e[0] = 0 /\ \A i \in 1..n : e[i] = e[i - 1] + widths[i]
    BY <1>6
  <1>8. \A i \in 0..n : e[i] \in Nat
    <2> HIDE DEF e
    <2>1. \A i \in 1..n : e[i - 1] \in Nat => e[i] \in Nat
      BY <1>7
    <2>2. e[0] \in Nat
      BY <1>7
    <2> QED BY <2>1, <2>2, Stays, Zenon
  <1>9. e = [i \in 0..n |-> e[i]]
    BY <1>6
  <1> QED BY <1>7, <1>8, <1>9

LEMMA Total ==
    ASSUME NEW n \in Nat, NEW widths \in [1..n -> Nat], Len(widths) = n
    PROVE  total(widths) \in Nat
  BY Ends DEF total

\* Some number of the pieces fits, and the next does not.
LEMMA Fit ==
    ASSUME NEW n \in Nat, NEW widths \in [1..n -> Nat], Len(widths) = n, NEW room \in Nat
    PROVE  /\ fit(widths, room) \in 0..n
           /\ ends_at(widths)[fit(widths, room)] <= room
  <1> DEFINE e == ends_at(widths)
             T == {k \in 0..n : k < n => e[k + 1] > room}
             F(k) == e[k] <= room /\ (k = n \/ e[k + 1] > room)
  <1>1. e \in [0..n -> Nat] /\ e[0] = 0
    BY Ends
  <1>2. T \subseteq Nat /\ n \in T
    OBVIOUS
  <1> HIDE DEF T
  <1>3. PICK k \in T : \A j \in T : k <= j
    BY <1>2, LeastMember
  <1> USE DEF T
  <1>4. e[k] <= room
    <2>1. CASE k = 0
      BY <2>1, <1>1
    <2>2. CASE k # 0
      <3>1. k - 1 \in 0..n /\ k - 1 < n /\ k - 1 \notin T
        BY <2>2, <1>3
      <3>2. ~(e[k - 1 + 1] > room)
        BY <3>1
      <3>3. e[k] \in Nat /\ k - 1 + 1 = k
        BY <1>1
      <3> QED BY <3>2, <3>3
    <2> QED BY <2>1, <2>2
  <1>5. k \in 0..n /\ F(k)
    BY <1>4
  <1>6. fit(widths, room) = CHOOSE j \in 0..n : F(j)
    BY DEF fit
  <1> HIDE DEF F
  <1>7. fit(widths, room) \in 0..n /\ F(fit(widths, room))
    BY <1>5, <1>6
  <1> QED BY <1>7 DEF F

\* The sizes of blocks that hold the data and a growth.
LEMMA Sizes ==
    ASSUME NEW b, Len(b.mem) \in Nat, NEW growth
    PROVE  \A s \in newsiz(b, growth) : s \in Nat /\ s >= growth + b.datasiz
  <1> DEFINE first == IF memsiz(b) = 0 THEN minsiz ELSE 2 * memsiz(b)
             step == [i \in 1..MaxMem |-> [x \in Nat |-> 2 * x]]
             E(f) == f = [k \in 0..MaxMem |-> IF k = 0 THEN first ELSE 2 * f[k - 1]]
             size == CHOOSE f : E(f)
  <1>1. step \in [1..MaxMem -> [Nat -> Nat]] /\ MaxMem \in Nat
    BY BoundAssumption
  <1>2. first \in Nat
    BY MinsizAssumption DEF memsiz
  <1> HIDE DEF step, first
  <1>3. PICK g : Solves(g, MaxMem, Nat, first, step)
    BY <1>1, <1>2, Recursion
  <1>4. ASSUME NEW i \in 1..MaxMem
        PROVE  g[i] = 2 * g[i - 1]
    <2>1. g[i - 1] \in Nat
      BY <1>1, <1>3 DEF Solves
    <2> QED BY <1>3, <2>1 DEF step, Solves
  <1>5. E(g)
    BY <1>1, <1>3, <1>4 DEF Solves
  <1>6. E(size)
    <2> HIDE DEF E
    <2> QED BY <1>5
  <1> HIDE DEF size
  <1>7. size[0] = first /\ \A i \in 1..MaxMem : size[i] = 2 * size[i - 1]
    <2>1. size = [k \in 0..MaxMem |-> IF k = 0 THEN first ELSE 2 * size[k - 1]]
      BY <1>6 DEF E
    <2>2. size[0] = first
      BY <1>1, <2>1
    <2>3. ASSUME NEW i \in 1..MaxMem
          PROVE  size[i] = 2 * size[i - 1]
      <3>1. i \in 0..MaxMem /\ i # 0
        BY <1>1
      <3> QED BY <2>1, <3>1
    <2> QED BY <2>2, <2>3
  <1>8. \A i \in 0..MaxMem : size[i] \in Nat
    <2>1. \A i \in 1..MaxMem : size[i - 1] \in Nat => size[i] \in Nat
      BY <1>7
    <2>2. size[0] \in Nat
      BY <1>2, <1>7
    <2> QED BY <2>1, <2>2, <1>1, Stays, Zenon
  <1>9. newsiz(b, growth) =
            {s \in {size[k] : k \in 0..MaxMem} : s >= growth + b.datasiz /\ s <= MaxMem}
    BY DEF newsiz, size, first
  <1> QED BY <1>8, <1>9
---------------------------------------------------------------------------
(* Sequences, of whatever elements *)

IsSeq(s) == \E n \in Nat : s = [i \in 1..n |-> s[i]]

Elements(s) == {s[i] : i \in DOMAIN s}

LEMMA MakeSeq ==
    ASSUME NEW n \in Nat, NEW s, s = [i \in 1..n |-> s[i]]
    PROVE  /\ IsSeq(s) /\ Len(s) = n /\ DOMAIN s = 1..n
           /\ s \in Seq(Elements(s))
  <1>1. DOMAIN s = 1..n
    OBVIOUS
  <1>2. s \in [1..n -> Elements(s)]
    BY <1>1 DEF Elements
  <1>3. s \in Seq(Elements(s))
    BY <1>2
  <1>4. Len(s) = n
    BY <1>1, <1>3
  <1> QED BY <1>1, <1>3, <1>4 DEF IsSeq

LEMMA SeqIs ==
    ASSUME NEW s, IsSeq(s)
    PROVE  /\ Len(s) \in Nat /\ DOMAIN s = 1..Len(s)
           /\ s = [i \in 1..Len(s) |-> s[i]]
           /\ s \in Seq(Elements(s))
  BY MakeSeq DEF IsSeq

LEMMA TypedSeq ==
    ASSUME NEW S, NEW s \in Seq(S)
    PROVE  IsSeq(s) /\ Len(s) \in Nat
  <1>1. Len(s) \in Nat /\ s \in [1..Len(s) -> S]
    BY LenProperties
  <1> QED BY <1>1 DEF IsSeq

LEMMA SameSeq ==
    ASSUME NEW s, NEW t, IsSeq(s), IsSeq(t), Len(s) = Len(t),
           \A i \in 1..Len(s) : s[i] = t[i]
    PROVE  s = t
  <1>1. Len(s) \in Nat /\ s = [i \in 1..Len(s) |-> s[i]] /\ t = [i \in 1..Len(s) |-> t[i]]
    BY SeqIs
  <1> HIDE DEF IsSeq
  <1> QED BY <1>1

LEMMA SubSeqIs ==
    ASSUME NEW s, IsSeq(s), NEW m \in Nat \ {0}, NEW n \in Nat, m <= n + 1, n <= Len(s)
    PROVE  /\ IsSeq(SubSeq(s, m, n)) /\ Len(SubSeq(s, m, n)) = n + 1 - m
           /\ \A i \in 1..(n + 1 - m) : SubSeq(s, m, n)[i] = s[m + i - 1]
  <1>1. Len(s) \in Nat /\ DOMAIN s = 1..Len(s) /\ s \in Seq(Elements(s))
    BY SeqIs
  <1>2. \A i \in m..n : s[i] \in Elements(s)
    BY <1>1 DEF Elements
  <1>3. /\ SubSeq(s, m, n) \in Seq(Elements(s))
        /\ Len(SubSeq(s, m, n)) = IF m <= n THEN n - m + 1 ELSE 0
        /\ \A i \in 1..(n - m + 1) : SubSeq(s, m, n)[i] = s[m + i - 1]
    BY <1>2, SubSeqProperties
  <1>4. IsSeq(SubSeq(s, m, n))
    BY <1>3, TypedSeq
  <1>5. n - m + 1 = n + 1 - m
    OBVIOUS
  <1> QED BY <1>3, <1>4, <1>5

---------------------------------------------------------------------------
(* Buffers *)

IsBuf(b) ==
    /\ b = [mem |-> b.mem, lgap |-> b.lgap, datasiz |-> b.datasiz, be |-> b.be]
    /\ IsSeq(b.mem) /\ b.lgap \in Nat /\ b.datasiz \in Nat /\ b.be \in BOOLEAN
    /\ b.lgap + b.datasiz <= Len(b.mem)

\* c holds n bytes of b's data, those behind the first k.
Holds(c, n, b, k) ==
    /\ n <= c.datasiz
    /\ \A i \in 1..n : c.mem[c.lgap + i] = b.mem[b.lgap + k + i]

\* c is b in another block, or with bytes put behind its data.
Extends(c, b) == c.datasiz \in Nat /\ Holds(c, b.datasiz, b, 0) /\ c.be = b.be

\* c has what is left of b's data when k bytes are taken from the front and
\* others from the end.
Part(c, b, k) == Holds(c, c.datasiz, b, k) /\ k + c.datasiz <= b.datasiz /\ c.be = b.be

LEMMA MemIs ==
    ASSUME NEW b, IsBuf(b)
    PROVE  /\ memsiz(b) \in Nat /\ Len(b.mem) = memsiz(b)
           /\ b.lgap \in Nat /\ b.datasiz \in Nat /\ b.be \in BOOLEAN
           /\ b.lgap + b.datasiz <= memsiz(b)
           /\ rgap(b) \in Nat /\ rgap(b) = memsiz(b) - b.datasiz - b.lgap
  <1>1. Len(b.mem) \in Nat
    BY SeqIs DEF IsBuf
  <1> QED BY <1>1 DEF IsBuf, memsiz, rgap

LEMMA ContentIs ==
    ASSUME NEW b, IsBuf(b)
    PROVE  /\ IsSeq(Content(b)) /\ Len(Content(b)) = b.datasiz
           /\ \A i \in 1..b.datasiz : Content(b)[i] = b.mem[b.lgap + i]
  <1>1. b.lgap \in Nat /\ b.datasiz \in Nat /\ b.lgap + b.datasiz <= Len(b.mem) /\ Len(b.mem) \in Nat
    BY SeqIs DEF IsBuf
  <1> DEFINE m == b.lgap + 1
             n == b.lgap + b.datasiz
  <1>2. /\ m \in Nat \ {0} /\ n \in Nat /\ m <= n + 1 /\ n <= Len(b.mem)
        /\ n + 1 - m = b.datasiz /\ \A i \in 1..b.datasiz : m + i - 1 = b.lgap + i
    BY <1>1
  <1>3. Content(b) = SubSeq(b.mem, m, n)
    BY DEF Content
  <1> HIDE DEF m, n
  <1>4. /\ IsSeq(SubSeq(b.mem, m, n)) /\ Len(SubSeq(b.mem, m, n)) = n + 1 - m
        /\ \A i \in 1..(n + 1 - m) : SubSeq(b.mem, m, n)[i] = b.mem[m + i - 1]
    <2>1. IsSeq(b.mem)
      BY DEF IsBuf
    <2>2. m \in Nat \ {0} /\ n \in Nat /\ m <= n + 1 /\ n <= Len(b.mem)
      BY <1>2
    <2> QED BY <2>1, <2>2, SubSeqIs
  <1> QED BY <1>2, <1>3, <1>4

\* A block of siz bytes that starts with n of b's bytes.
IsBlock(m, b, from, n, siz) ==
    /\ IsSeq(m) /\ Len(m) = siz
    /\ \A i \in 1..siz : i <= n => m[i] = b.mem[from + i]

LEMMA BlockIs ==
    ASSUME NEW b, NEW from \in Nat, NEW n \in Nat, NEW siz \in Nat
    PROVE  IsBlock(block(b, from, n, siz), b, from, n, siz)
  <1>1. block(b, from, n, siz) = [i \in 1..siz |-> block(b, from, n, siz)[i]]
    BY DEF block
  <1>2. IsSeq(block(b, from, n, siz)) /\ Len(block(b, from, n, siz)) = siz
    BY <1>1, MakeSeq
  <1> QED BY <1>2 DEF block, IsBlock

\* The data moved to the front of a block that is large enough.
LEMMA Moved ==
    ASSUME NEW b, IsBuf(b), NEW siz \in Nat, b.datasiz <= siz,
           NEW c, c = [b EXCEPT !.mem = block(b, b.lgap, b.datasiz, siz), !.lgap = 0]
    PROVE  /\ IsBuf(c) /\ memsiz(c) = siz /\ c.lgap = 0 /\ c.datasiz = b.datasiz
           /\ c.be = b.be /\ Holds(c, b.datasiz, b, 0)
  <1>1. b.lgap \in Nat /\ b.datasiz \in Nat /\ b.be \in BOOLEAN
    BY DEF IsBuf
  <1>2. c = [mem |-> block(b, b.lgap, b.datasiz, siz), lgap |-> 0,
             datasiz |-> b.datasiz, be |-> b.be]
    BY DEF IsBuf
  <1>3. /\ c.mem = block(b, b.lgap, b.datasiz, siz) /\ c.lgap = 0
        /\ c.datasiz = b.datasiz /\ c.be = b.be
    BY <1>2
  <1>4. /\ IsSeq(c.mem) /\ Len(c.mem) = siz
        /\ \A i \in 1..siz : i <= b.datasiz => c.mem[i] = b.mem[b.lgap + i]
    <2>1. IsBlock(block(b, b.lgap, b.datasiz, siz), b, b.lgap, b.datasiz, siz)
      BY <1>1, BlockIs
    <2> QED BY <1>3, <2>1 DEF IsBlock
  <1>5. IsBuf(c)
    <2>1. c = [mem |-> c.mem, lgap |-> c.lgap, datasiz |-> c.datasiz, be |-> c.be]
      BY <1>2
    <2> QED BY <1>1, <1>3, <1>4, <2>1 DEF IsBuf
  <1>6. ASSUME NEW i \in 1..b.datasiz
        PROVE  c.mem[c.lgap + i] = b.mem[b.lgap + 0 + i]
    <2>1. i \in 1..siz /\ i <= b.datasiz /\ c.lgap + i = i /\ b.lgap + 0 + i = b.lgap + i
      BY <1>1, <1>3
    <2> QED BY <2>1, <1>4
  <1> QED BY <1>1, <1>3, <1>4, <1>5, <1>6 DEF Holds, memsiz
LEMMA HoldsTransitive ==
    ASSUME NEW b, NEW c, NEW d, NEW k \in Nat, NEW l \in Nat, NEW n \in Nat, NEW m \in Nat,
           b.lgap \in Int, c.lgap \in Int,
           Holds(c, n, b, k), Holds(d, m, c, l), l + m <= n
    PROVE  Holds(d, m, b, k + l)
  <1>1. ASSUME NEW i \in 1..m
        PROVE  d.mem[d.lgap + i] = b.mem[b.lgap + (k + l) + i]
    <2>1. l + i \in 1..n
      OBVIOUS
    <2>2. c.lgap + l + i = c.lgap + (l + i) /\ b.lgap + k + (l + i) = b.lgap + (k + l) + i
      OBVIOUS
    <2>3. d.mem[d.lgap + i] = c.mem[c.lgap + l + i]
      BY DEF Holds
    <2>4. c.mem[c.lgap + (l + i)] = b.mem[b.lgap + k + (l + i)]
      BY <2>1 DEF Holds
    <2> QED BY <2>2, <2>3, <2>4
  <1> QED BY <1>1 DEF Holds

LEMMA Fronted ==
    ASSUME NEW b, IsBuf(b)
    PROVE  /\ IsBuf(to_front(b)) /\ memsiz(to_front(b)) = memsiz(b) /\ to_front(b).lgap = 0
           /\ to_front(b).datasiz = b.datasiz /\ to_front(b).be = b.be
           /\ Holds(to_front(b), b.datasiz, b, 0)
  <1> DEFINE siz == memsiz(b)
             c == [b EXCEPT !.mem = block(b, b.lgap, b.datasiz, siz), !.lgap = 0]
  <1>1. siz \in Nat /\ b.datasiz <= siz
    BY MemIs
  <1>2. to_front(b) = c
    BY DEF to_front
  <1> HIDE DEF siz
  <1>3. /\ IsBuf(c) /\ memsiz(c) = siz /\ c.lgap = 0 /\ c.datasiz = b.datasiz
        /\ c.be = b.be /\ Holds(c, b.datasiz, b, 0)
    BY <1>1, Moved
  <1> HIDE DEF c
  <1> QED BY <1>2, <1>3 DEF siz

\* buffer_grow, in each of its three branches.
LEMMA Grown ==
    ASSUME NEW b, IsBuf(b), NEW growth \in Nat, Affordable(b, growth)
    PROVE  /\ IsBuf(grow(b, growth)) /\ grow(b, growth).datasiz = b.datasiz + growth
           /\ Extends(grow(b, growth), b)
  <1>1. /\ memsiz(b) \in Nat /\ Len(b.mem) = memsiz(b)
        /\ b.lgap \in Nat /\ b.datasiz \in Nat /\ b.be \in BOOLEAN
        /\ b.lgap + b.datasiz <= memsiz(b)
        /\ rgap(b) \in Nat /\ rgap(b) = memsiz(b) - b.datasiz - b.lgap
    BY MemIs
  <1> DEFINE siz == CHOOSE s \in newsiz(b, growth) : \A t \in newsiz(b, growth) : s <= t
             larger == [b EXCEPT !.mem = block(b, b.lgap, b.datasiz, siz), !.lgap = 0]
             room == IF rgap(b) >= growth THEN b
                     ELSE IF b.lgap + rgap(b) >= growth THEN to_front(b)
                     ELSE larger
  <1> HIDE DEF siz
  <1>2. /\ IsBuf(room) /\ room.lgap + room.datasiz + growth <= memsiz(room)
        /\ room.datasiz = b.datasiz /\ room.be = b.be /\ Holds(room, b.datasiz, b, 0)
    <2>1. CASE rgap(b) >= growth
      BY <1>1, <2>1 DEF Holds
    <2>2. CASE ~(rgap(b) >= growth) /\ b.lgap + rgap(b) >= growth
      <3>1. room = to_front(b)
        BY <2>2
      <3>2. /\ IsBuf(to_front(b)) /\ memsiz(to_front(b)) = memsiz(b) /\ to_front(b).lgap = 0
            /\ to_front(b).datasiz = b.datasiz
            /\ to_front(b).be = b.be /\ Holds(to_front(b), b.datasiz, b, 0)
        BY <1>1, Fronted
      <3> HIDE DEF room
      <3> QED BY <1>1, <2>2, <3>1, <3>2
    <2>3. CASE ~(rgap(b) >= growth) /\ ~(b.lgap + rgap(b) >= growth)
      <3>1. room = larger
        BY <2>3
      <3>2. newsiz(b, growth) # {}
        BY <1>1, <2>3 DEF Affordable
      <3>3. \A s \in newsiz(b, growth) : s \in Nat /\ s >= growth + b.datasiz
        BY <1>1, Sizes
      <3>4. \E s \in newsiz(b, growth) : \A t \in newsiz(b, growth) : s <= t
        <4>1. newsiz(b, growth) \subseteq Nat
          BY <3>3
        <4> QED BY <3>2, <4>1, LeastMember
      <3>5. siz \in newsiz(b, growth)
        BY <3>4 DEF siz
      <3>6. siz \in Nat /\ siz >= growth + b.datasiz /\ siz >= b.datasiz
        BY <1>1, <3>3, <3>5
      <3>7. larger = [b EXCEPT !.mem = block(b, b.lgap, b.datasiz, siz), !.lgap = 0]
        OBVIOUS
      <3> HIDE DEF room, larger
      <3>8. /\ IsBuf(larger) /\ memsiz(larger) = siz /\ larger.lgap = 0
            /\ larger.datasiz = b.datasiz /\ larger.be = b.be
            /\ Holds(larger, b.datasiz, b, 0)
        <4>1. siz \in Nat /\ b.datasiz <= siz
          BY <1>1, <3>6
        <4> QED BY <3>7, <4>1, Moved
      <3> QED BY <1>1, <3>1, <3>6, <3>8
    <2> QED BY <2>1, <2>2, <2>3
  <1> DEFINE c == [room EXCEPT !.datasiz = @ + growth]
  <1>3. grow(b, growth) = c
    BY DEF grow, siz
  <1> HIDE DEF room
  <1>4. /\ c.mem = room.mem /\ c.lgap = room.lgap /\ c.be = room.be
        /\ c.datasiz = b.datasiz + growth
        /\ c = [mem |-> c.mem, lgap |-> c.lgap, datasiz |-> c.datasiz, be |-> c.be]
    BY <1>2 DEF IsBuf
  <1> HIDE DEF c
  <1>5. IsBuf(c)
    BY <1>1, <1>2, <1>4 DEF IsBuf, memsiz
  <1>6. Holds(c, b.datasiz, b, 0)
    BY <1>1, <1>2, <1>4 DEF Holds
  <1> QED BY <1>1, <1>2, <1>3, <1>4, <1>5, <1>6 DEF Extends

\* What of c's memory differs from b's: s, written from offset at of the data on.
IsWritten(c, b, at, s) ==
    /\ IsBuf(c) /\ memsiz(c) = memsiz(b)
    /\ c.lgap = b.lgap /\ c.datasiz = b.datasiz /\ c.be = b.be
    /\ \A i \in 1..memsiz(b) :
           c.mem[i] = IF b.lgap + at < i /\ i <= b.lgap + at + Len(s)
                      THEN s[i - b.lgap - at] ELSE b.mem[i]

LEMMA Written ==
    ASSUME NEW b, IsBuf(b), NEW at, NEW s
    PROVE  IsWritten(written(b, at, s), b, at, s)
  <1>1. /\ memsiz(b) \in Nat /\ Len(b.mem) = memsiz(b)
        /\ b.lgap \in Nat /\ b.datasiz \in Nat /\ b.be \in BOOLEAN
        /\ b.lgap + b.datasiz <= memsiz(b)
    BY MemIs
  <1> DEFINE m == [i \in 1..memsiz(b) |->
                      IF b.lgap + at < i /\ i <= b.lgap + at + Len(s)
                      THEN s[i - b.lgap - at] ELSE b.mem[i]]
             c == written(b, at, s)
  <1>2. c = [b EXCEPT !.mem = m]
    BY DEF written
  <1>3. c = [mem |-> m, lgap |-> b.lgap, datasiz |-> b.datasiz, be |-> b.be]
    <2> HIDE DEF m, c
    <2> QED BY <1>2 DEF IsBuf
  <1>4. \A i \in 1..memsiz(b) :
            m[i] = IF b.lgap + at < i /\ i <= b.lgap + at + Len(s)
                   THEN s[i - b.lgap - at] ELSE b.mem[i]
    OBVIOUS
  <1>5. m = [i \in 1..memsiz(b) |-> m[i]]
    OBVIOUS
  <1> HIDE DEF m, c
  <1>6. IsSeq(m) /\ Len(m) = memsiz(b)
    BY <1>1, <1>5, MakeSeq
  <1>7. c.mem = m /\ c.lgap = b.lgap /\ c.datasiz = b.datasiz /\ c.be = b.be
    BY <1>3
  <1>8. c = [mem |-> c.mem, lgap |-> c.lgap, datasiz |-> c.datasiz, be |-> c.be]
    BY <1>3, <1>7
  <1>9. IsBuf(c) /\ memsiz(c) = memsiz(b)
    BY <1>1, <1>6, <1>7, <1>8 DEF IsBuf, memsiz
  <1>10. IsWritten(c, b, at, s)
    BY <1>4, <1>7, <1>9 DEF IsWritten
  <1> QED BY <1>10 DEF c

LEMMA Pushed ==
    ASSUME NEW b, IsBuf(b), NEW s, Len(s) \in Nat, Affordable(b, Len(s))
    PROVE  IsBuf(buffer_push(b, s)) /\ Extends(buffer_push(b, s), b)
  <1> DEFINE g == grow(b, Len(s))
             c == buffer_push(b, s)
  <1>1. b.lgap \in Nat /\ b.datasiz \in Nat
    BY MemIs
  <1>2. IsBuf(g) /\ g.datasiz = b.datasiz + Len(s) /\ Extends(g, b)
    BY Grown
  <1>3. c = written(g, b.datasiz, s)
    BY DEF buffer_push
  <1> HIDE DEF g, c
  <1>4. IsWritten(c, g, b.datasiz, s)
    BY <1>2, <1>3, Written
  <1>5. memsiz(g) \in Nat /\ g.lgap \in Nat /\ g.lgap + g.datasiz <= memsiz(g)
    BY <1>2, MemIs
  <1>6. ASSUME NEW i \in 1..b.datasiz
        PROVE  c.mem[c.lgap + i] = b.mem[b.lgap + 0 + i]
    <2>1. g.lgap + i \in 1..memsiz(g) /\ ~(g.lgap + b.datasiz < g.lgap + i)
      BY <1>1, <1>2, <1>5
    <2>2. c.mem[g.lgap + i] = g.mem[g.lgap + i]
      BY <1>4, <2>1 DEF IsWritten
    <2>3. c.lgap = g.lgap /\ g.mem[g.lgap + i] = b.mem[b.lgap + 0 + i]
      BY <1>2, <1>4 DEF IsWritten, Extends, Holds
    <2> QED BY <2>2, <2>3
  <1>7. Extends(c, b)
    BY <1>1, <1>2, <1>4, <1>6 DEF Extends, Holds, IsWritten
  <1> QED BY <1>4, <1>7 DEF c, IsWritten
LEMMA HoldsAll ==
    ASSUME NEW b, NEW n \in Int, b.lgap \in Int, n <= b.datasiz
    PROVE  Holds(b, n, b, 0)
  <1>1. \A i \in 1..n : b.lgap + 0 + i = b.lgap + i
    OBVIOUS
  <1> QED BY <1>1 DEF Holds

\* buffer_adjust.
LEMMA Adjusted ==
    ASSUME NEW b, IsBuf(b)
    PROVE  /\ IsBuf(adjust(b)) /\ memsiz(adjust(b)) = memsiz(b)
           /\ adjust(b).datasiz = b.datasiz /\ adjust(b).be = b.be
           /\ Holds(adjust(b), b.datasiz, b, 0)
  <1>1. /\ memsiz(b) \in Nat /\ b.lgap \in Nat /\ b.datasiz \in Nat /\ b.be \in BOOLEAN
        /\ b.lgap + b.datasiz <= memsiz(b)
    BY MemIs
  <1> DEFINE c == [b EXCEPT !.lgap = 0]
  <1>2. /\ IsBuf(to_front(b)) /\ memsiz(to_front(b)) = memsiz(b)
        /\ to_front(b).datasiz = b.datasiz /\ to_front(b).be = b.be
        /\ Holds(to_front(b), b.datasiz, b, 0)
    BY Fronted
  <1>3. adjust(b) = IF b.datasiz = 0 THEN c ELSE adjust(b)
    BY DEF adjust
  <1>4. b.datasiz # 0 => adjust(b) \in {b, to_front(b)}
    BY DEF adjust
  <1>5. Holds(b, b.datasiz, b, 0)
    BY <1>1, HoldsAll
  <1>6. CASE b.datasiz = 0
    <2>1. /\ c = [mem |-> c.mem, lgap |-> c.lgap, datasiz |-> c.datasiz, be |-> c.be]
          /\ c.mem = b.mem /\ c.lgap = 0 /\ c.datasiz = 0 /\ c.be = b.be
      BY <1>6 DEF IsBuf
    <2> HIDE DEF c
    <2>2. IsBuf(c) /\ memsiz(c) = memsiz(b)
      BY <1>1, <2>1 DEF IsBuf, memsiz
    <2>3. Holds(c, 0, b, 0)
      BY <2>1 DEF Holds
    <2> QED BY <1>3, <1>6, <2>1, <2>2, <2>3
  <1>7. CASE b.datasiz # 0
    BY <1>2, <1>4, <1>5, <1>7
  <1> QED BY <1>6, <1>7

LEMMA Forgotten ==
    ASSUME NEW b, IsBuf(b)
    PROVE  /\ IsBuf(forget(b)) /\ memsiz(forget(b)) = memsiz(b)
           /\ forget(b).datasiz = b.datasiz /\ forget(b).be = b.be
           /\ Holds(forget(b), b.datasiz, b, 0)
  <1>1. /\ memsiz(b) \in Nat /\ b.lgap \in Nat /\ b.datasiz \in Nat /\ b.be \in BOOLEAN
        /\ b.lgap + b.datasiz <= memsiz(b)
    BY MemIs
  <1> DEFINE m == [i \in 1..memsiz(b) |->
                      IF b.lgap < i /\ i <= b.lgap + b.datasiz THEN b.mem[i] ELSE Junk]
             c == forget(b)
  <1>2. m = [i \in 1..memsiz(b) |-> m[i]]
    OBVIOUS
  <1>3. ASSUME NEW i \in 1..b.datasiz
        PROVE  m[b.lgap + i] = b.mem[b.lgap + 0 + i]
    <2>1. b.lgap + i \in 1..memsiz(b) /\ b.lgap < b.lgap + i /\ b.lgap + i <= b.lgap + b.datasiz
      BY <1>1
    <2>2. b.lgap + 0 + i = b.lgap + i
      BY <1>1
    <2> QED BY <2>1, <2>2
  <1>4. c = [b EXCEPT !.mem = m]
    BY DEF forget
  <1> HIDE DEF m, c
  <1>5. c = [mem |-> m, lgap |-> b.lgap, datasiz |-> b.datasiz, be |-> b.be]
    BY <1>4 DEF IsBuf
  <1>6. IsSeq(m) /\ Len(m) = memsiz(b)
    BY <1>1, <1>2, MakeSeq
  <1>7. c.mem = m /\ c.lgap = b.lgap /\ c.datasiz = b.datasiz /\ c.be = b.be
    BY <1>5
  <1>8. c = [mem |-> c.mem, lgap |-> c.lgap, datasiz |-> c.datasiz, be |-> c.be]
    BY <1>5, <1>7
  <1>9. IsBuf(c) /\ memsiz(c) = memsiz(b)
    BY <1>1, <1>6, <1>7, <1>8 DEF IsBuf, memsiz
  <1>10. Holds(c, b.datasiz, b, 0)
    BY <1>1, <1>3, <1>7 DEF Holds
  <1> QED BY <1>7, <1>9, <1>10 DEF c

LEMMA Consumed ==
    ASSUME NEW b, IsBuf(b), NEW n \in 0..b.datasiz
    PROVE  /\ IsBuf(consumed(b, n)) /\ memsiz(consumed(b, n)) = memsiz(b)
           /\ consumed(b, n).datasiz = b.datasiz - n /\ consumed(b, n).be = b.be
           /\ Holds(consumed(b, n), b.datasiz - n, b, n)
  <1>1. /\ memsiz(b) \in Nat /\ b.lgap \in Nat /\ b.datasiz \in Nat /\ b.be \in BOOLEAN
        /\ b.lgap + b.datasiz <= memsiz(b) /\ n \in Nat
    BY MemIs
  <1> DEFINE gap == b.lgap + n
             rest == b.datasiz - n
             c == [mem |-> b.mem, lgap |-> gap, datasiz |-> rest, be |-> b.be]
  <1>2. consumed(b, n) = c
    <2>1. consumed(b, n) = [b EXCEPT !.datasiz = rest, !.lgap = gap]
      BY DEF consumed
    <2> HIDE DEF gap, rest
    <2> QED BY <2>1 DEF IsBuf
  <1>3. /\ c = [mem |-> c.mem, lgap |-> c.lgap, datasiz |-> c.datasiz, be |-> c.be]
        /\ c.mem = b.mem /\ c.lgap = b.lgap + n /\ c.datasiz = b.datasiz - n /\ c.be = b.be
    OBVIOUS
  <1> HIDE DEF c
  <1>4. IsBuf(c) /\ memsiz(c) = memsiz(b)
    BY <1>1, <1>3 DEF IsBuf, memsiz
  <1>5. Holds(c, b.datasiz - n, b, n)
    BY <1>1, <1>3 DEF Holds
  <1> QED BY <1>2, <1>3, <1>4, <1>5

\* What adjusting and forgetting leave of a buffer that is part of another.
LEMMA Settled ==
    ASSUME NEW b, IsBuf(b), NEW c, IsBuf(c), NEW k \in Nat, Part(c, b, k), memsiz(c) = memsiz(b)
    PROVE  /\ IsBuf(forget(adjust(c))) /\ Part(forget(adjust(c)), b, k)
           /\ memsiz(forget(adjust(c))) = memsiz(b)
           /\ forget(adjust(c)).datasiz = c.datasiz
           /\ IsBuf(forget(c)) /\ Part(forget(c), b, k) /\ memsiz(forget(c)) = memsiz(b)
  <1> DEFINE d == adjust(c)
             e == forget(d)
             f == forget(c)
             n == c.datasiz
  <1>1. n \in Nat /\ b.lgap \in Int /\ c.lgap \in Int
    BY MemIs
  <1>2. /\ IsBuf(d) /\ memsiz(d) = memsiz(c)
        /\ d.datasiz = n /\ d.be = c.be /\ Holds(d, n, c, 0)
    BY Adjusted
  <1> HIDE DEF d
  <1>3. /\ IsBuf(e) /\ memsiz(e) = memsiz(d)
        /\ e.datasiz = d.datasiz /\ e.be = d.be /\ Holds(e, d.datasiz, d, 0)
    BY <1>2, Forgotten
  <1>4. /\ IsBuf(f) /\ memsiz(f) = memsiz(c)
        /\ f.datasiz = n /\ f.be = c.be /\ Holds(f, n, c, 0)
    BY Forgotten
  <1> HIDE DEF e, f
  <1>5. d.lgap \in Int
    BY <1>2, MemIs
  <1>6. Holds(c, n, b, k) /\ k + n <= b.datasiz /\ c.be = b.be
    BY DEF Part
  <1> HIDE DEF n
  <1>7. 0 + n <= n /\ k + 0 = k /\ 0 \in Nat
    BY <1>1
  <1>8. Holds(d, n, b, k + 0)
    BY <1>1, <1>2, <1>6, <1>7, HoldsTransitive
  <1>9. Holds(f, n, b, k + 0)
    BY <1>1, <1>4, <1>6, <1>7, HoldsTransitive
  <1>10. Holds(e, n, b, k + 0)
    BY <1>1, <1>2, <1>3, <1>5, <1>7, <1>8, HoldsTransitive
  <1> QED BY <1>2, <1>3, <1>4, <1>6, <1>7, <1>9, <1>10 DEF Part, d, e, f, n

\* buffer_shift, and getlstr, which does not adjust.
LEMMA Shifted ==
    ASSUME NEW b, IsBuf(b), NEW siz \in Nat
    PROVE  LET n == Least(siz, b.datasiz)
           IN /\ n \in 0..b.datasiz
              /\ IsBuf(buffer_shift(b, siz)) /\ Part(buffer_shift(b, siz), b, n)
              /\ buffer_shift(b, siz).datasiz = b.datasiz - n
              /\ memsiz(buffer_shift(b, siz)) = memsiz(b)
              /\ IsBuf(forget(consumed(b, n))) /\ Part(forget(consumed(b, n)), b, n)
              /\ forget(consumed(b, n)).datasiz = b.datasiz - n
  <1> DEFINE n == Least(siz, b.datasiz)
             c == consumed(b, n)
  <1>1. b.datasiz \in Nat
    BY MemIs
  <1>2. n \in 0..b.datasiz
    BY <1>1 DEF Least
  <1> HIDE DEF n
  <1>3. /\ IsBuf(c) /\ memsiz(c) = memsiz(b) /\ c.datasiz = b.datasiz - n /\ c.be = b.be
        /\ Holds(c, b.datasiz - n, b, n)
    BY <1>2, Consumed
  <1>4. buffer_shift(b, siz) = forget(adjust(c))
    BY DEF buffer_shift, n
  <1> HIDE DEF c
  <1>5. Part(c, b, n) /\ n \in Nat
    BY <1>1, <1>2, <1>3 DEF Part
  <1>6. /\ IsBuf(forget(adjust(c))) /\ Part(forget(adjust(c)), b, n)
        /\ memsiz(forget(adjust(c))) = memsiz(b)
        /\ forget(adjust(c)).datasiz = c.datasiz
        /\ IsBuf(forget(c)) /\ Part(forget(c), b, n) /\ memsiz(forget(c)) = memsiz(b)
    BY <1>3, <1>5, Settled
  <1>7. forget(c).datasiz = c.datasiz
    BY <1>3, Forgotten
  <1> QED BY <1>2, <1>3, <1>4, <1>6, <1>7 DEF n, c

LEMMA Popped ==
    ASSUME NEW b, IsBuf(b), NEW siz \in Nat
    PROVE  LET n == Least(siz, b.datasiz)
           IN /\ n \in 0..b.datasiz
              /\ IsBuf(buffer_pop(b, siz)) /\ Part(buffer_pop(b, siz), b, 0)
              /\ buffer_pop(b, siz).datasiz = b.datasiz - n
  <1> DEFINE n == Least(siz, b.datasiz)
             c == [mem |-> b.mem, lgap |-> b.lgap, datasiz |-> b.datasiz - n, be |-> b.be]
  <1>1. /\ memsiz(b) \in Nat /\ b.lgap \in Nat /\ b.datasiz \in Nat /\ b.be \in BOOLEAN
        /\ b.lgap + b.datasiz <= memsiz(b)
    BY MemIs
  <1>2. n \in 0..b.datasiz
    BY <1>1 DEF Least
  <1>3. buffer_pop(b, siz) = forget(adjust(c))
    BY DEF buffer_pop, IsBuf
  <1> HIDE DEF n
  <1>4. /\ c = [mem |-> c.mem, lgap |-> c.lgap, datasiz |-> c.datasiz, be |-> c.be]
        /\ c.mem = b.mem /\ c.lgap = b.lgap /\ c.datasiz = b.datasiz - n /\ c.be = b.be
    OBVIOUS
  <1> HIDE DEF c
  <1>5. IsBuf(c) /\ memsiz(c) = memsiz(b)
    BY <1>1, <1>2, <1>4 DEF IsBuf, memsiz
  <1>6. Part(c, b, 0)
    BY <1>1, <1>2, <1>4 DEF Part, Holds
  <1>7. /\ IsBuf(forget(adjust(c))) /\ Part(forget(adjust(c)), b, 0)
        /\ forget(adjust(c)).datasiz = c.datasiz
    BY <1>5, <1>6, Settled
  <1> QED BY <1>2, <1>3, <1>4, <1>7 DEF n
---------------------------------------------------------------------------
(* Operations of several steps *)

LEMMA ExtendsTransitive ==
    ASSUME NEW b, NEW c, NEW d, IsBuf(b), IsBuf(c), IsBuf(d), Extends(c, b), Extends(d, c)
    PROVE  Extends(d, b)
  <1>1. /\ b.lgap \in Int /\ c.lgap \in Int /\ b.datasiz \in Nat /\ c.datasiz \in Nat
        /\ d.datasiz \in Nat /\ b.datasiz <= c.datasiz /\ c.datasiz <= d.datasiz
    BY MemIs DEF Extends, Holds
  <1>2. Holds(c, b.datasiz, b, 0) /\ Holds(d, b.datasiz, c, 0)
    BY <1>1 DEF Extends, Holds
  <1>3. Holds(d, b.datasiz, b, 0 + 0)
    <2>1. 0 + b.datasiz <= b.datasiz /\ 0 \in Nat
      BY <1>1
    <2> QED BY <1>1, <1>2, <2>1, HoldsTransitive
  <1>4. 0 + 0 = 0
    OBVIOUS
  <1> QED BY <1>1, <1>3, <1>4 DEF Extends

LEMMA PartTransitive ==
    ASSUME NEW b, NEW c, NEW d, IsBuf(b), IsBuf(c), IsBuf(d), NEW k \in Nat, NEW l \in Nat,
           Part(c, b, k), Part(d, c, l)
    PROVE  Part(d, b, k + l)
  <1>1. /\ b.lgap \in Int /\ c.lgap \in Int /\ b.datasiz \in Nat /\ c.datasiz \in Nat
        /\ d.datasiz \in Nat
    BY DEF IsBuf
  <1>2. /\ Holds(c, c.datasiz, b, k) /\ Holds(d, d.datasiz, c, l)
        /\ k + c.datasiz <= b.datasiz /\ l + d.datasiz <= c.datasiz
        /\ c.be = b.be /\ d.be = c.be
    BY DEF Part
  <1>3. Holds(d, d.datasiz, b, k + l)
    BY <1>1, <1>2, HoldsTransitive
  <1>4. k + l + d.datasiz <= b.datasiz
    BY <1>1, <1>2
  <1> QED BY <1>2, <1>3, <1>4 DEF Part

\* The recursive definition of pushes has a solution.
LEMMA PushesAre ==
    ASSUME NEW n \in Nat, NEW strs, Len(strs) = n
    PROVE  /\ pushes(strs)[0] = buf
           /\ \A i \in 1..n : pushes(strs)[i] = buffer_push(pushes(strs)[i - 1], strs[i])
  <1> DEFINE P(f, m) == f = [i \in 0..m |-> IF i = 0 THEN buf
                                            ELSE buffer_push(f[i - 1], strs[i])]
             T == {m \in Nat : \E f : P(f, m)}
  <1>1. 0 \in T
    <2> DEFINE f == [i \in 0..0 |-> buf]
    <2>1. f = [i \in 0..0 |-> IF i = 0 THEN buf ELSE buffer_push(f[i - 1], strs[i])]
      OBVIOUS
    <2> HIDE DEF f
    <2> QED BY <2>1
  <1>2. ASSUME NEW m \in 1..n, m - 1 \in T
        PROVE  m \in T
    <2>1. PICK f : P(f, m - 1)
      BY <1>2
    <2> DEFINE last == buffer_push(f[m - 1], strs[m])
               g == [i \in 0..m |-> IF i < m THEN f[i] ELSE last]
    <2>2. ASSUME NEW i \in 0..m
          PROVE  g[i] = IF i = 0 THEN buf ELSE buffer_push(g[i - 1], strs[i])
      <3>1. CASE i = 0
        <4>1. 0 \in 0..(m - 1) /\ 0 < m
          OBVIOUS
        <4>2. f[0] = buf
          BY <2>1, <4>1
        <4> QED BY <3>1, <4>1, <4>2
      <3>2. CASE i # 0 /\ i < m
        <4>1. i \in 0..(m - 1) /\ i - 1 \in 0..m /\ i - 1 < m
          BY <3>2
        <4>2. f[i] = buffer_push(f[i - 1], strs[i])
          BY <2>1, <3>2, <4>1
        <4> HIDE DEF last
        <4>3. g[i] = f[i] /\ g[i - 1] = f[i - 1]
          BY <3>2, <4>1
        <4> QED BY <3>2, <4>2, <4>3
      <3>3. CASE i = m
        <4>1. i # 0 /\ i - 1 \in 0..m /\ i - 1 < m
          BY <3>3
        <4>2. g[i] = last /\ g[i - 1] = f[i - 1]
          <5> HIDE DEF last
          <5> QED BY <3>3, <4>1
        <4> HIDE DEF g
        <4> QED BY <3>3, <4>1, <4>2
      <3> QED BY <3>1, <3>2, <3>3
    <2>3. g = [i \in 0..m |-> g[i]]
      OBVIOUS
    <2> HIDE DEF g
    <2>4. P(g, m)
      BY <2>2, <2>3
    <2> HIDE DEF P
    <2> QED BY <2>4
  <1> HIDE DEF T
  <1>3. \A m \in 0..n : m \in T
    BY <1>1, <1>2, Upwards
  <1>4. n \in T
    BY <1>3
  <1>5. \E f : P(f, n)
    BY <1>4 DEF T
  <1>6. pushes(strs) = CHOOSE f : P(f, n)
    BY DEF pushes
  <1> HIDE DEF P
  <1>7. P(pushes(strs), n)
    BY <1>5, <1>6
  <1> DEFINE p == pushes(strs)
  <1>8. p = [i \in 0..n |-> IF i = 0 THEN buf ELSE buffer_push(p[i - 1], strs[i])]
    BY <1>7 DEF P
  <1> HIDE DEF p
  <1>9. p[0] = buf
    BY <1>8
  <1>10. ASSUME NEW i \in 1..n
         PROVE  p[i] = buffer_push(p[i - 1], strs[i])
    BY <1>8
  <1> QED BY <1>9, <1>10 DEF p

LEMMA PushesExtend ==
    ASSUME IsBuf(buf), NEW n \in Nat, NEW strs, Len(strs) = n,
           \A i \in 1..n : Len(strs[i]) \in Nat,
           \A i \in 1..n : Affordable(pushes(strs)[i - 1], Len(strs[i]))
    PROVE  IsBuf(pushes(strs)[n]) /\ Extends(pushes(strs)[n], buf)
  <1> DEFINE p == pushes(strs)
             T == {i \in 0..n : IsBuf(p[i]) /\ Extends(p[i], buf)}
  <1>1. p[0] = buf /\ \A i \in 1..n : p[i] = buffer_push(p[i - 1], strs[i])
    BY PushesAre
  <1> HIDE DEF p
  <1>2. 0 \in T
    <2>1. buf.lgap \in Int /\ buf.datasiz \in Nat
      BY MemIs
    <2>2. Extends(buf, buf)
      BY <2>1, HoldsAll DEF Extends
    <2> QED BY <1>1, <2>2
  <1>3. ASSUME NEW i \in 1..n, i - 1 \in T
        PROVE  i \in T
    <2>1. IsBuf(p[i - 1]) /\ Extends(p[i - 1], buf)
      BY <1>3
    <2>2. Affordable(p[i - 1], Len(strs[i])) /\ Len(strs[i]) \in Nat
      BY DEF p
    <2>3. IsBuf(buffer_push(p[i - 1], strs[i])) /\ Extends(buffer_push(p[i - 1], strs[i]), p[i - 1])
      BY <2>1, <2>2, Pushed
    <2>4. IsBuf(p[i]) /\ Extends(p[i], p[i - 1])
      BY <1>1, <2>3
    <2>5. Extends(p[i], buf)
      BY <2>1, <2>4, ExtendsTransitive
    <2> QED BY <2>4, <2>5
  <1> HIDE DEF T
  <1>4. \A i \in 0..n : i \in T
    BY <1>2, <1>3, Upwards
  <1>5. n \in T
    BY <1>4
  <1> QED BY <1>5 DEF T, p
\* The recursive definition of shifts has a solution.
LEMMA ShiftsAre ==
    ASSUME NEW n \in Nat, NEW widths, Len(widths) = n
    PROVE  /\ shifts(widths)[0] = buf
           /\ \A i \in 1..n : shifts(widths)[i] = buffer_shift(shifts(widths)[i - 1], widths[i])
  <1> DEFINE P(f, m) == f = [i \in 0..m |-> IF i = 0 THEN buf
                                            ELSE buffer_shift(f[i - 1], widths[i])]
             T == {m \in Nat : \E f : P(f, m)}
  <1>1. 0 \in T
    <2> DEFINE f == [i \in 0..0 |-> buf]
    <2>1. f = [i \in 0..0 |-> IF i = 0 THEN buf ELSE buffer_shift(f[i - 1], widths[i])]
      OBVIOUS
    <2> HIDE DEF f
    <2> QED BY <2>1
  <1>2. ASSUME NEW m \in 1..n, m - 1 \in T
        PROVE  m \in T
    <2>1. PICK f : P(f, m - 1)
      BY <1>2
    <2> DEFINE last == buffer_shift(f[m - 1], widths[m])
               g == [i \in 0..m |-> IF i < m THEN f[i] ELSE last]
    <2>2. ASSUME NEW i \in 0..m
          PROVE  g[i] = IF i = 0 THEN buf ELSE buffer_shift(g[i - 1], widths[i])
      <3>1. CASE i = 0
        <4>1. 0 \in 0..(m - 1) /\ 0 < m
          OBVIOUS
        <4>2. f[0] = buf
          BY <2>1, <4>1
        <4> QED BY <3>1, <4>1, <4>2
      <3>2. CASE i # 0 /\ i < m
        <4>1. i \in 0..(m - 1) /\ i - 1 \in 0..m /\ i - 1 < m
          BY <3>2
        <4>2. f[i] = buffer_shift(f[i - 1], widths[i])
          BY <2>1, <3>2, <4>1
        <4> HIDE DEF last
        <4>3. g[i] = f[i] /\ g[i - 1] = f[i - 1]
          BY <3>2, <4>1
        <4> QED BY <3>2, <4>2, <4>3
      <3>3. CASE i = m
        <4>1. i # 0 /\ i - 1 \in 0..m /\ i - 1 < m
          BY <3>3
        <4>2. g[i] = last /\ g[i - 1] = f[i - 1]
          <5> HIDE DEF last
          <5> QED BY <3>3, <4>1
        <4> HIDE DEF g
        <4> QED BY <3>3, <4>1, <4>2
      <3> QED BY <3>1, <3>2, <3>3
    <2>3. g = [i \in 0..m |-> g[i]]
      OBVIOUS
    <2> HIDE DEF g
    <2>4. P(g, m)
      BY <2>2, <2>3
    <2> HIDE DEF P
    <2> QED BY <2>4
  <1> HIDE DEF T
  <1>3. \A m \in 0..n : m \in T
    BY <1>1, <1>2, Upwards
  <1>4. n \in T
    BY <1>3
  <1>5. \E f : P(f, n)
    BY <1>4 DEF T
  <1>6. shifts(widths) = CHOOSE f : P(f, n)
    BY DEF shifts
  <1> HIDE DEF P
  <1>7. P(shifts(widths), n)
    BY <1>5, <1>6
  <1> DEFINE p == shifts(widths)
  <1>8. p = [i \in 0..n |-> IF i = 0 THEN buf ELSE buffer_shift(p[i - 1], widths[i])]
    BY <1>7 DEF P
  <1> HIDE DEF p
  <1>9. p[0] = buf
    BY <1>8
  <1>10. ASSUME NEW i \in 1..n
         PROVE  p[i] = buffer_shift(p[i - 1], widths[i])
    BY <1>8
  <1> QED BY <1>9, <1>10 DEF p


LEMMA ShiftsTake ==
    ASSUME IsBuf(buf), NEW n \in Nat, NEW widths \in [1..n -> Nat], Len(widths) = n
    PROVE  /\ IsBuf(shifts(widths)[n])
           /\ \E k \in Nat : /\ Part(shifts(widths)[n], buf, k)
                             /\ shifts(widths)[n].datasiz = buf.datasiz - k
  <1> DEFINE p == shifts(widths)
             Q1(i) == /\ IsBuf(p[i])
                      /\ \E k \in Nat : Part(p[i], buf, k) /\ p[i].datasiz = buf.datasiz - k
             T == {i \in 0..n : Q1(i)}
  <1>1. p[0] = buf /\ \A i \in 1..n : p[i] = buffer_shift(p[i - 1], widths[i])
    BY ShiftsAre
  <1>2. buf.lgap \in Int /\ buf.datasiz \in Nat
    BY MemIs
  <1> HIDE DEF p
  <1>3. 0 \in T
    <2>1. Part(buf, buf, 0)
      BY <1>2, HoldsAll DEF Part
    <2>2. 0 \in Nat /\ buf.datasiz = buf.datasiz - 0
      BY <1>2
    <2> QED BY <1>1, <2>1, <2>2
  <1>4. ASSUME NEW i \in 1..n, i - 1 \in T
        PROVE  i \in T
    <2>1. IsBuf(p[i - 1])
      BY <1>4
    <2>2. PICK k \in Nat : Part(p[i - 1], buf, k) /\ p[i - 1].datasiz = buf.datasiz - k
      BY <1>4
    <2> DEFINE l == Least(widths[i], p[i - 1].datasiz)
    <2>3. /\ l \in 0..p[i - 1].datasiz
          /\ IsBuf(buffer_shift(p[i - 1], widths[i])) /\ Part(buffer_shift(p[i - 1], widths[i]), p[i - 1], l)
          /\ buffer_shift(p[i - 1], widths[i]).datasiz = p[i - 1].datasiz - l
      BY <2>1, Shifted
    <2> HIDE DEF l
    <2>4. IsBuf(p[i]) /\ Part(p[i], p[i - 1], l) /\ p[i].datasiz = p[i - 1].datasiz - l
      BY <1>1, <2>3
    <2>5. p[i - 1].datasiz \in Nat
      BY <2>1, MemIs
    <2>6. l \in Nat /\ k + l \in Nat /\ p[i].datasiz = buf.datasiz - (k + l)
      BY <1>2, <2>2, <2>3, <2>4, <2>5
    <2>7. Part(p[i], buf, k + l)
      BY <2>1, <2>2, <2>4, <2>6, PartTransitive
    <2>8. Q1(i)
      BY <2>4, <2>6, <2>7
    <2> HIDE DEF Q1
    <2> QED BY <2>8
  <1> HIDE DEF T
  <1>5. \A i \in 0..n : i \in T
    BY <1>3, <1>4, Upwards
  <1>6. n \in T
    BY <1>5
  <1> QED BY <1>6 DEF T, p

---------------------------------------------------------------------------
(* What is put and what is taken *)

LEMMA BytesAre ==
    ASSUME NEW v, NEW n \in Nat, NEW be
    PROVE  IsSeq(to_bytes(v, n, be)) /\ Len(to_bytes(v, n, be)) = n
  <1>1. to_bytes(v, n, be) = [i \in 1..n |-> to_bytes(v, n, be)[i]]
    BY DEF to_bytes
  <1> QED BY <1>1, MakeSeq

LEMMA WidthIs ==
    ASSUME NEW c
    PROVE  Width(c) \in {0, 1, 2, 4}
  BY DEF Width

LEMMA ListWidths ==
    ASSUME NEW types, IsSeq(types), NEW d, IsSeq(d)
    PROVE  /\ Len(list_widths(types, d)) \in Nat
           /\ list_widths(types, d) \in [1..Len(list_widths(types, d)) -> Nat]
  <1> DEFINE n == Len(types)
             widths == [i \in DOMAIN types |-> Width(types[i])]
             k == fit(widths, Len(d))
             taken == Take(widths, k)
  <1>1. n \in Nat /\ DOMAIN types = 1..n /\ Len(d) \in Nat
    BY SeqIs
  <1>2. widths \in [1..n -> Nat] /\ widths = [i \in 1..n |-> widths[i]]
    BY <1>1, WidthIs
  <1> HIDE DEF n, widths
  <1>3. IsSeq(widths) /\ Len(widths) = n
    BY <1>1, <1>2, MakeSeq
  <1>4. k \in 0..n
    BY <1>1, <1>2, <1>3, Fit
  <1> HIDE DEF k
  <1>5. /\ IsSeq(SubSeq(widths, 1, k)) /\ Len(SubSeq(widths, 1, k)) = k + 1 - 1
        /\ \A i \in 1..(k + 1 - 1) : SubSeq(widths, 1, k)[i] = widths[1 + i - 1]
    <2>1. 1 \in Nat \ {0} /\ k \in Nat /\ 1 <= k + 1 /\ k <= Len(widths)
      BY <1>1, <1>3, <1>4
    <2> QED BY <1>3, <2>1, SubSeqIs
  <1>6. taken = SubSeq(widths, 1, k)
    BY DEF Take
  <1> HIDE DEF taken
  <1>7. IsSeq(taken) /\ Len(taken) = k /\ \A i \in 1..k : taken[i] = widths[i]
    BY <1>1, <1>4, <1>5, <1>6
  <1>8. taken = [i \in 1..k |-> taken[i]]
    BY <1>7, SeqIs
  <1>9. taken \in [1..k -> Nat]
    <2>1. ASSUME NEW i \in 1..k
          PROVE  taken[i] \in Nat
      <3>1. i \in 1..n
        BY <1>1, <1>4
      <3>2. widths[i] \in Nat
        BY <1>2, <3>1
      <3> QED BY <1>7, <3>2
    <2> QED BY <1>8, <2>1
  <1>10. list_widths(types, d) = taken
    BY DEF list_widths, taken, k, widths
  <1> QED BY <1>1, <1>4, <1>7, <1>9, <1>10

LEMMA SameWidths ==
    ASSUME NEW d, IsSeq(d), NEW num \in Nat, NEW w \in {1, 2, 4}
    PROVE  total(same_width(d, num, w)) \in Nat
  <1> DEFINE n == Least(num, Len(d) \div w)
             widths == same_width(d, num, w)
  <1>1. Len(d) \in Nat
    BY SeqIs
  <1>2. n \in Nat
    BY <1>1 DEF Least
  <1>3. widths = [i \in 1..n |-> w]
    BY DEF same_width
  <1> HIDE DEF n, widths
  <1>4. widths \in [1..n -> Nat] /\ widths = [i \in 1..n |-> widths[i]]
    BY <1>3
  <1>5. Len(widths) = n
    BY <1>2, <1>4, MakeSeq
  <1>6. total(widths) \in Nat
    BY <1>2, <1>4, <1>5, Total
  <1> QED BY <1>6 DEF widths

LEMMA EatenIs ==
    ASSUME NEW d, IsSeq(d)
    PROVE  NextLine(d).eaten \in 0..Len(d)
  <1>1. Len(d) \in Nat /\ DOMAIN d = 1..Len(d)
    BY SeqIs
  <1> DEFINE none == d = <<>> \/ d[1] = NUL \/ \A i \in DOMAIN d : d[i] # LF
             L(i) == d[i] = LF /\ \A j \in 1..(i - 1) : d[j] # LF
             lf == CHOOSE i \in DOMAIN d : L(i)
  <1>2. CASE none
    BY <1>1, <1>2 DEF NextLine, NoLine
  <1>3. CASE ~none
    <2> DEFINE T == {i \in DOMAIN d : d[i] = LF}
    <2>1. T \subseteq Nat /\ T # {}
      BY <1>1, <1>3
    <2> HIDE DEF T
    <2>2. PICK i \in T : \A j \in T : i <= j
      BY <2>1, LeastMember
    <2> USE DEF T
    <2>3. L(i) /\ i \in DOMAIN d
      BY <1>1, <2>2
    <2> HIDE DEF L
    <2>4. lf \in DOMAIN d
      BY <2>3
    <2>5. NextLine(d).eaten = lf
      BY <1>3 DEF NextLine, L
    <2> QED BY <1>1, <2>4, <2>5
  <1> QED BY <1>2, <1>3
LEMMA LineEnds ==
    ASSUME NEW d, IsSeq(d), NEW num \in Nat
    PROVE  line_ends(d, num)[num] \in 0..Len(d)
  <1> DEFINE X == 0..Len(d)
             eaten(x) == NextLine(Drop(d, x)).eaten
             step == [i \in 1..num |-> [x \in X |-> x + eaten(x)]]
             E(f) == f = [i \in 0..num |-> IF i = 0 THEN 0 ELSE f[i - 1] + eaten(f[i - 1])]
             at == line_ends(d, num)
  <1>1. Len(d) \in Nat
    BY SeqIs
  <1>2. ASSUME NEW x \in X
        PROVE  x + eaten(x) \in X
    <2> DEFINE m == x + 1
               s == SubSeq(d, m, Len(d))
    <2>1. m \in Nat \ {0} /\ m <= Len(d) + 1 /\ Len(d) <= Len(d)
      BY <1>1
    <2> HIDE DEF m
    <2>2. IsSeq(s) /\ Len(s) = Len(d) + 1 - m
      BY <1>1, <2>1, SubSeqIs
    <2>3. Drop(d, x) = s
      BY DEF Drop, m
    <2> HIDE DEF s
    <2>4. NextLine(s).eaten \in 0..Len(s)
      BY <2>2, EatenIs
    <2> QED BY <1>1, <2>2, <2>3, <2>4 DEF m
  <1> HIDE DEF eaten
  <1>3. step \in [1..num -> [X -> X]] /\ 0 \in X
    BY <1>1, <1>2
  <1> HIDE DEF X, step
  <1>4. PICK g : Solves(g, num, X, 0, step)
    BY <1>3, Recursion
  <1>5. ASSUME NEW i \in 1..num
        PROVE  g[i] = g[i - 1] + eaten(g[i - 1])
    <2>1. g[i - 1] \in X
      BY <1>4 DEF Solves
    <2> QED BY <1>4, <2>1 DEF step, Solves
  <1>6. E(g)
    BY <1>4, <1>5 DEF Solves
  <1>7. at = CHOOSE f : E(f)
    BY DEF line_ends, eaten
  <1> HIDE DEF E, at
  <1>8. E(at)
    BY <1>6, <1>7
  <1>9. at[0] = 0 /\ \A i \in 1..num : at[i] = at[i - 1] + eaten(at[i - 1])
    <2>1. at = [i \in 0..num |-> IF i = 0 THEN 0 ELSE at[i - 1] + eaten(at[i - 1])]
      BY <1>8 DEF E
    <2> QED BY <2>1
  <1>10. \A i \in 0..num : at[i] \in X
    <2>1. \A i \in 1..num : at[i - 1] \in X => at[i] \in X
      BY <1>2, <1>9
    <2>2. at[0] \in X
      BY <1>3, <1>9
    <2> QED BY <2>1, <2>2, Stays, Zenon
  <1> QED BY <1>10 DEF X, at

\* n pieces, and where each ends when they are put together.
ArePieces(strs, n, S, e) ==
    /\ IsSeq(strs) /\ Len(strs) = n /\ e[0] = 0
    /\ \A i \in 1..n : strs[i] \in Seq(S) /\ e[i] = e[i - 1] + Len(strs[i])

LEMMA Flattened ==
    ASSUME NEW n \in Nat, NEW strs, NEW S, NEW e, ArePieces(strs, n, S, e)
    PROVE  IsSeq(FlattenSeq(strs)) /\ Len(FlattenSeq(strs)) = e[n]
  <1> DEFINE step == [i \in 1..n |-> [x \in Seq(S) |-> x \o strs[i]]]
             E(f) == f = [i \in 1..n |-> IF i = 1 THEN strs[i] ELSE f[i - 1] \o strs[i]]
             flat == CHOOSE f : E(f)
  <1> USE DEF ArePieces
  <1>1. CASE n = 0
    <2>1. FlattenSeq(strs) = strs
      BY <1>1 DEF FlattenSeq
    <2> QED BY <1>1, <2>1
  <1>2. CASE n # 0
    <2>1. FlattenSeq(strs) = flat[n]
      BY <1>2 DEF FlattenSeq
    <2>2. step \in [1..n -> [Seq(S) -> Seq(S)]] /\ <<>> \in Seq(S)
      BY ConcatProperties
    <2> HIDE DEF step
    <2>3. PICK g : Solves(g, n, Seq(S), <<>>, step)
      BY <2>2, Recursion
    <2> DEFINE h == [i \in 1..n |-> g[i]]
    <2>4. ASSUME NEW i \in 1..n
          PROVE  g[i] = g[i - 1] \o strs[i]
      <3>1. g[i - 1] \in Seq(S)
        BY <2>3 DEF Solves
      <3> QED BY <2>3, <3>1 DEF step, Solves
    <2>5. ASSUME NEW i \in 1..n
          PROVE  h[i] = IF i = 1 THEN strs[i] ELSE h[i - 1] \o strs[i]
      <3>1. CASE i = 1
        <4>1. g[i - 1] = <<>>
          BY <2>3, <3>1 DEF Solves
        <4>2. g[i] = <<>> \o strs[i]
          BY <2>4, <4>1
        <4>3. <<>> \o strs[i] = strs[i]
          BY ConcatEmptySeq
        <4>4. h[i] = g[i]
          OBVIOUS
        <4> QED BY <3>1, <4>2, <4>3, <4>4
      <3>2. CASE i # 1
        <4>1. h[i] = g[i] /\ h[i - 1] = g[i - 1]
          BY <3>2
        <4> HIDE DEF h
        <4> QED BY <2>4, <3>2, <4>1
      <3> QED BY <3>1, <3>2
    <2>6. h = [i \in 1..n |-> h[i]]
      OBVIOUS
    <2> HIDE DEF h
    <2>7. E(h)
      BY <2>5, <2>6
    <2> HIDE DEF E, flat
    <2>8. E(flat)
      BY <2>7 DEF flat
    <2>9. \A i \in 1..n : flat[i] = IF i = 1 THEN strs[i] ELSE flat[i - 1] \o strs[i]
      <3>1. flat = [i \in 1..n |-> IF i = 1 THEN strs[i] ELSE flat[i - 1] \o strs[i]]
        BY <2>8 DEF E
      <3> QED BY <3>1
    <2> DEFINE T == {i \in 0..n : i # 0 => flat[i] \in Seq(S) /\ Len(flat[i]) = e[i]}
    <2>10. 0 \in T
      OBVIOUS
    <2>11. ASSUME NEW i \in 1..n, i - 1 \in T
           PROVE  i \in T
      <3>1. strs[i] \in Seq(S) /\ Len(strs[i]) \in Nat /\ e[i] = e[i - 1] + Len(strs[i])
        BY LenProperties
      <3>2. CASE i = 1
        BY <2>9, <3>1, <3>2
      <3>3. CASE i # 1
        <4>1. flat[i - 1] \in Seq(S) /\ Len(flat[i - 1]) = e[i - 1]
          BY <2>11, <3>3
        <4>2. flat[i] = flat[i - 1] \o strs[i]
          BY <2>9, <3>3
        <4>3. flat[i] \in Seq(S) /\ Len(flat[i]) = Len(flat[i - 1]) + Len(strs[i])
          BY <3>1, <4>1, <4>2, ConcatProperties
        <4> QED BY <3>1, <4>1, <4>3
      <3> QED BY <3>2, <3>3
    <2> HIDE DEF T
    <2>12. \A i \in 0..n : i \in T
      BY <2>10, <2>11, Upwards
    <2>13. n \in T
      BY <2>12
    <2>14. flat[n] \in Seq(S) /\ Len(flat[n]) = e[n]
      BY <1>2, <2>13 DEF T
    <2> QED BY <2>1, <2>14, TypedSeq
  <1> QED BY <1>1, <1>2

\* The pieces of which an operation is given some.
IsPieces(strs) == IsSeq(strs) /\ \A i \in DOMAIN strs : IsSeq(strs[i])

LEMMA PiecesAre ==
    ASSUME NEW strs, IsPieces(strs)
    PROVE  /\ \E S : \A i \in 1..Len(strs) : strs[i] \in Seq(S)
           /\ \A i \in 1..Len(strs) : Len(strs[i]) \in Nat
  <1>1. DOMAIN strs = 1..Len(strs)
    BY SeqIs DEF IsPieces
  <1> DEFINE S == UNION {Elements(strs[i]) : i \in DOMAIN strs}
  <1>2. ASSUME NEW i \in DOMAIN strs
        PROVE  strs[i] \in Seq(S) /\ Len(strs[i]) \in Nat
    <2>1. IsSeq(strs[i])
      BY DEF IsPieces
    <2>2. strs[i] \in Seq(Elements(strs[i])) /\ Len(strs[i]) \in Nat
      BY <2>1, SeqIs
    <2>3. Elements(strs[i]) \subseteq S
      OBVIOUS
    <2> HIDE DEF S
    <2> QED BY <2>2, <2>3, SeqMonotonic
  <1> HIDE DEF S
  <1> QED BY <1>1, <1>2

LEMMA Fitting ==
    ASSUME NEW pieces, IsPieces(pieces), NEW room \in Nat
    PROVE  /\ IsSeq(fitting(pieces, room))
           /\ Len(fitting(pieces, room)) \in Nat /\ Len(fitting(pieces, room)) <= room
  <1> DEFINE n == Len(pieces)
             widths == [i \in DOMAIN pieces |-> Len(pieces[i])]
             e == ends_at(widths)
             k == fit(widths, room)
             taken == SubSeq(pieces, 1, k)
  <1>1. n \in Nat /\ DOMAIN pieces = 1..n /\ IsSeq(pieces)
    BY SeqIs DEF IsPieces
  <1>2. \A i \in 1..n : Len(pieces[i]) \in Nat
    BY PiecesAre
  <1>3. PICK S : \A i \in 1..n : pieces[i] \in Seq(S)
    BY PiecesAre
  <1>4. /\ widths \in [1..n -> Nat] /\ widths = [i \in 1..n |-> widths[i]]
        /\ \A i \in 1..n : widths[i] = Len(pieces[i])
    BY <1>1, <1>2
  <1>5. fitting(pieces, room) = FlattenSeq(taken)
    BY DEF fitting, Take
  <1> HIDE DEF widths
  <1>6. Len(widths) = n
    BY <1>1, <1>4, MakeSeq
  <1>7. /\ e \in [0..n -> Nat] /\ e[0] = 0
        /\ \A i \in 1..n : e[i] = e[i - 1] + widths[i]
    BY <1>1, <1>4, <1>6, Ends
  <1>8. k \in 0..n /\ e[k] <= room
    BY <1>1, <1>4, <1>6, Fit
  <1> HIDE DEF e, k, n
  <1>9. IsSeq(taken) /\ Len(taken) = k /\ \A i \in 1..k : taken[i] = pieces[i]
    <2>1. /\ IsSeq(taken) /\ Len(taken) = k + 1 - 1
          /\ \A i \in 1..(k + 1 - 1) : taken[i] = pieces[1 + i - 1]
      <3>1. 1 \in Nat \ {0} /\ k \in Nat /\ 1 <= k + 1 /\ k <= Len(pieces)
        BY <1>1, <1>8 DEF n
      <3> QED BY <1>1, <3>1, SubSeqIs
    <2> HIDE DEF taken
    <2> QED BY <1>1, <1>8, <2>1
  <1> HIDE DEF taken
  <1>10. /\ \A i \in 1..k : taken[i] \in Seq(S)
         /\ \A i \in 1..k : e[i] = e[i - 1] + Len(taken[i])
    <2>1. ASSUME NEW i \in 1..k
          PROVE  taken[i] \in Seq(S) /\ e[i] = e[i - 1] + Len(taken[i])
      <3>1. i \in 1..n
        BY <1>1, <1>8
      <3> QED BY <1>3, <1>4, <1>7, <1>9, <3>1
    <2> QED BY <2>1
  <1>11. k \in Nat
    BY <1>1, <1>8
  <1>12. ArePieces(taken, k, S, e)
    BY <1>7, <1>9, <1>10 DEF ArePieces
  <1>13. IsSeq(FlattenSeq(taken)) /\ Len(FlattenSeq(taken)) = e[k]
    BY <1>11, <1>12, Flattened
  <1>14. e[k] \in Nat
    BY <1>7, <1>8
  <1> QED BY <1>5, <1>8, <1>13, <1>14
LEMMA FlatIs ==
    ASSUME NEW strs, IsPieces(strs)
    PROVE  IsSeq(FlattenSeq(strs)) /\ Len(FlattenSeq(strs)) \in Nat
  <1> DEFINE n == Len(strs)
             widths == [i \in 1..n |-> Len(strs[i])]
             e == ends_at(widths)
  <1>1. n \in Nat /\ IsSeq(strs)
    BY SeqIs DEF IsPieces
  <1>2. \A i \in 1..n : Len(strs[i]) \in Nat
    BY PiecesAre
  <1>3. PICK S : \A i \in 1..n : strs[i] \in Seq(S)
    BY PiecesAre
  <1>4. /\ widths \in [1..n -> Nat] /\ widths = [i \in 1..n |-> widths[i]]
        /\ \A i \in 1..n : widths[i] = Len(strs[i])
    BY <1>2
  <1> HIDE DEF widths
  <1>5. Len(widths) = n
    BY <1>1, <1>4, MakeSeq
  <1>6. /\ e \in [0..n -> Nat] /\ e[0] = 0
        /\ \A i \in 1..n : e[i] = e[i - 1] + widths[i]
    BY <1>1, <1>4, <1>5, Ends
  <1> HIDE DEF e
  <1>7. ArePieces(strs, n, S, e)
    <2>1. Len(strs) = n
      OBVIOUS
    <2> HIDE DEF n
    <2> QED BY <1>1, <1>3, <1>4, <1>6, <2>1 DEF ArePieces
  <1> HIDE DEF n
  <1>8. IsSeq(FlattenSeq(strs)) /\ Len(FlattenSeq(strs)) = e[n]
    BY <1>1, <1>7, Flattened
  <1>9. e[n] \in Nat
    BY <1>1, <1>6
  <1> QED BY <1>8, <1>9

LEMMA TupleIs ==
    /\ IsSeq(<<>>)
    /\ \A x : IsSeq(<<x>>) /\ DOMAIN <<x>> = 1..1 /\ Len(<<x>>) = 1
    /\ \A x, y : IsSeq(<<x, y>>) /\ DOMAIN <<x, y>> = 1..2 /\ Len(<<x, y>>) = 2
  <1>1. <<>> \in Seq({})
    OBVIOUS
  <1>2. ASSUME NEW x
        PROVE  <<x>> \in Seq({x}) /\ DOMAIN <<x>> = 1..1 /\ Len(<<x>>) = 1
    OBVIOUS
  <1>3. ASSUME NEW x, NEW y
        PROVE  <<x, y>> \in Seq({x, y}) /\ DOMAIN <<x, y>> = 1..2 /\ Len(<<x, y>>) = 2
    OBVIOUS
  <1>4. ASSUME NEW x
        PROVE  IsSeq(<<x>>)
    BY <1>2, TypedSeq
  <1>5. ASSUME NEW x, NEW y
        PROVE  IsSeq(<<x, y>>)
    BY <1>3, TypedSeq
  <1>6. IsSeq(<<>>)
    BY <1>1, TypedSeq
  <1> QED BY <1>2, <1>3, <1>4, <1>5, <1>6

\* The strings, integers and formats that operations are called with.
LEMMA StrIs ==
    ASSUME NEW s \in Str
    PROVE  IsSeq(s) /\ Len(s) \in Nat
  <1>1. s \in Seq(0..255)
    BY ArgumentAssumption
  <1> QED BY <1>1, TypedSeq

LEMMA StrsAre ==
    ASSUME NEW strs \in Strs
    PROVE  IsPieces(strs)
  <1>1. PICK s \in Str, t \in Str \union {<<>>} : strs = <<s, t>>
    BY DEF Strs
  <1>2. IsSeq(s)
    BY StrIs
  <1>3. IsSeq(t)
    BY StrIs, TupleIs
  <1>4. IsSeq(<<s, t>>) /\ DOMAIN <<s, t>> = 1..2
    BY TupleIs
  <1>5. \A i \in 1..2 : <<s, t>>[i] = s \/ <<s, t>>[i] = t
    OBVIOUS
  <1> QED BY <1>1, <1>2, <1>3, <1>4, <1>5 DEF IsPieces

LEMMA ValsAre ==
    ASSUME NEW vals \in Vals
    PROVE  IsSeq(vals) /\ Len(vals) \in Nat
  <1>1. vals = <<>> \/ \E v \in Val : vals = <<v>> \/ vals = <<v, v>>
    BY DEF Vals
  <1>2. IsSeq(vals)
    BY <1>1, TupleIs
  <1> QED BY <1>2, SeqIs

\* Integers put one behind the other, each in its width.
LEMMA BytesOfAre ==
    ASSUME NEW n \in Nat, NEW pieces, DOMAIN pieces = 1..n,
           pieces = [i \in 1..n |-> pieces[i]],
           \A i \in 1..n : \E v, be : \E w \in Nat : pieces[i] = to_bytes(v, w, be)
    PROVE  IsPieces(pieces)
  <1>1. IsSeq(pieces)
    BY MakeSeq
  <1>2. ASSUME NEW i \in 1..n
        PROVE  IsSeq(pieces[i])
    BY BytesAre
  <1> QED BY <1>1, <1>2 DEF IsPieces

LEMMA TypesAre ==
    ASSUME NEW types \in Types
    PROVE  IsSeq(types) /\ Len(types) \in Nat /\ DOMAIN types = 1..Len(types)
  <1>1. types \in Seq(STRING)
    BY ArgumentAssumption
  <1> QED BY <1>1, TypedSeq, SeqIs

---------------------------------------------------------------------------
(* What the operations do *)

\* Something is put behind the data.
LEMMA PutstrPuts ==
    ASSUME IsBuf(buf), NEW strs, IsPieces(strs), lbuffer_putstr(strs)
    PROVE  \E c : IsBuf(c) /\ Extends(c, buf) /\ Puts(c)
  <1> DEFINE n == Len(strs)
  <1>1. n \in Nat /\ DOMAIN strs = 1..n
    BY SeqIs DEF IsPieces
  <1>2. \A i \in 1..n : Len(strs[i]) \in Nat
    BY PiecesAre
  <1>3. \A i \in 1..n : Affordable(pushes(strs)[i - 1], Len(strs[i]))
    BY <1>1 DEF lbuffer_putstr
  <1>4. IsBuf(pushes(strs)[n]) /\ Extends(pushes(strs)[n], buf)
    BY <1>1, <1>2, <1>3, PushesExtend
  <1> QED BY <1>4 DEF lbuffer_putstr

LEMMA PushPuts ==
    ASSUME IsBuf(buf), NEW s, Len(s) \in Nat, Affordable(buf, Len(s)), Puts(buffer_push(buf, s))
    PROVE  \E c : IsBuf(c) /\ Extends(c, buf) /\ Puts(c)
  BY Pushed

LEMMA PutStep ==
    ASSUME IsBuf(buf), PutNext
    PROVE  \E c : IsBuf(c) /\ Extends(c, buf) /\ Puts(c)
  <1>1. ASSUME NEW strs \in Strs, lbuffer_putstr(strs)
        PROVE  \E c : IsBuf(c) /\ Extends(c, buf) /\ Puts(c)
    BY <1>1, StrsAre, PutstrPuts
  <1>2. ASSUME NEW vals \in Vals, NEW w \in Widths, lbuffer_put(vals, w)
        PROVE  \E c : IsBuf(c) /\ Extends(c, buf) /\ Puts(c)
    <2> DEFINE pieces == [i \in DOMAIN vals |-> to_bytes(vals[i], w, buf.be)]
               put == FlattenSeq(pieces)
    <2>1. Len(vals) \in Nat /\ DOMAIN vals = 1..Len(vals) /\ w \in Nat
      BY ValsAre, SeqIs, ArgumentAssumption
    <2>2. DOMAIN pieces = 1..Len(vals) /\ pieces = [i \in 1..Len(vals) |-> pieces[i]]
      BY <2>1
    <2>3. \A i \in 1..Len(vals) : pieces[i] = to_bytes(vals[i], w, buf.be)
      BY <2>1
    <2>4. Affordable(buf, Len(put)) /\ Puts(buffer_push(buf, put))
      BY <1>2 DEF lbuffer_put
    <2> HIDE DEF pieces
    <2>5. IsPieces(pieces)
      BY <2>1, <2>2, <2>3, BytesOfAre
    <2>6. Len(put) \in Nat
      BY <2>5, FlatIs
    <2> QED BY <2>4, <2>6, PushPuts
  <1>3. ASSUME NEW types \in Types, NEW vals \in ValsFor(types), lbuffer_putlist(types, vals)
        PROVE  \E c : IsBuf(c) /\ Extends(c, buf) /\ Puts(c)
    <2> DEFINE pieces == [i \in DOMAIN types |-> to_bytes(vals[i], Width(types[i]), buf.be)]
    <2>1. Len(types) \in Nat /\ DOMAIN types = 1..Len(types)
      BY TypesAre
    <2>2. DOMAIN pieces = 1..Len(types) /\ pieces = [i \in 1..Len(types) |-> pieces[i]]
      BY <2>1
    <2>3. \A i \in 1..Len(types) : pieces[i] = to_bytes(vals[i], Width(types[i]), buf.be)
      BY <2>1
    <2>4. \A i \in 1..Len(types) : Width(types[i]) \in Nat
      BY WidthIs
    <2>5. lbuffer_putstr(pieces)
      BY <1>3 DEF lbuffer_putlist
    <2> HIDE DEF pieces
    <2>6. IsPieces(pieces)
      BY <2>1, <2>2, <2>3, <2>4, BytesOfAre
    <2> QED BY <2>5, <2>6, PutstrPuts
  <1>4. ASSUME NEW s \in Str, NEW off \in Off, NEW num \in Num, lbuffer_putreader(s, off, num)
        PROVE  \E c : IsBuf(c) /\ Extends(c, buf) /\ Puts(c)
    <2> DEFINE n == IF off >= Len(s) THEN 0 ELSE Least(num, Len(s) - off)
               part == SubSeq(s, off + 1, off + n)
    <2>1. s \in Seq(0..255) /\ Len(s) \in Nat /\ off \in Nat /\ num \in Nat
      BY StrIs, ArgumentAssumption
    <2>2. n \in Nat /\ \A i \in (off + 1)..(off + n) : i \in 1..Len(s)
      BY <2>1 DEF Least
    <2>3. lbuffer_putstr(<<part>>)
      BY <1>4 DEF lbuffer_putreader
    <2> HIDE DEF n
    <2>4. \A i \in (off + 1)..(off + n) : s[i] \in 0..255
      BY <2>1, <2>2, ElementOfSeq
    <2>5. part \in Seq(0..255)
      BY <2>1, <2>2, <2>4, SubSeqProperties
    <2> HIDE DEF part
    <2>6. IsSeq(part)
      BY <2>5, TypedSeq
    <2>7. IsSeq(<<part>>) /\ DOMAIN <<part>> = 1..1
      BY TupleIs
    <2>8. \A i \in 1..1 : <<part>>[i] = part
      OBVIOUS
    <2>9. IsPieces(<<part>>)
      BY <2>6, <2>7, <2>8 DEF IsPieces
    <2> QED BY <2>3, <2>9, PutstrPuts
  <1>5. ASSUME NEW v \in Val, NEW n \in Num, lbuffer_fill(v, n)
        PROVE  \E c : IsBuf(c) /\ Extends(c, buf) /\ Puts(c)
    <2> DEFINE s == [i \in 1..n |-> v % 256]
    <2>1. n \in Nat
      BY ArgumentAssumption
    <2>2. s = [i \in 1..n |-> s[i]]
      OBVIOUS
    <2>3. Affordable(buf, n) /\ Puts(buffer_push(buf, s))
      BY <1>5 DEF lbuffer_fill
    <2> HIDE DEF s
    <2>4. Len(s) = n
      BY <2>1, <2>2, MakeSeq
    <2> QED BY <2>1, <2>3, <2>4, PushPuts
  <1>6. ASSUME lbuffer_beginlen
        PROVE  \E c : IsBuf(c) /\ Extends(c, buf) /\ Puts(c)
    <2>1. Affordable(buf, 4) /\ Puts(grow(buf, 4)) /\ 4 \in Nat
      BY <1>6 DEF lbuffer_beginlen
    <2> QED BY <2>1, Grown
  <1> QED BY <1>1, <1>2, <1>3, <1>4, <1>5, <1>6 DEF PutNext
\* c is the buffer with k bytes taken from its front, or with some from its
\* end, or a new buffer.
Taken(c, k) ==
    /\ IsBuf(c)
    /\ \/ c = Fresh
       \/ Part(c, buf, k) /\ (k # 0 => c.datasiz = buf.datasiz - k)

LEMMA FreshIs == IsBuf(Fresh)
  <1> DEFINE c == Fresh
  <1>1. /\ c = [mem |-> c.mem, lgap |-> c.lgap, datasiz |-> c.datasiz, be |-> c.be]
        /\ c.mem = <<>> /\ c.lgap = 0 /\ c.datasiz = 0 /\ c.be = TRUE
    BY DEF Fresh
  <1>2. Len(c.mem) = 0
    BY <1>1, EmptySeq
  <1>3. IsSeq(c.mem)
    BY <1>1, TupleIs
  <1> HIDE DEF c
  <1>4. c.lgap \in Nat /\ c.datasiz \in Nat /\ c.lgap + c.datasiz <= Len(c.mem)
    BY <1>1, <1>2
  <1>5. c.be \in BOOLEAN
    BY <1>1
  <1>6. c = [mem |-> c.mem, lgap |-> c.lgap, datasiz |-> c.datasiz, be |-> c.be]
    BY <1>1
  <1>7. IsBuf(c)
    BY <1>3, <1>4, <1>5, <1>6 DEF IsBuf
  <1> QED BY <1>7 DEF c

\* A buffer of which only the block, without any data, is left.
LEMMA Emptied ==
    ASSUME NEW b, IsBuf(b), NEW m, IsSeq(m)
    PROVE  LET c == [mem |-> m, lgap |-> 0, datasiz |-> 0, be |-> b.be]
           IN /\ [b EXCEPT !.mem = m, !.lgap = 0, !.datasiz = 0] = c
              /\ m = b.mem => [b EXCEPT !.lgap = 0, !.datasiz = 0] = c
              /\ IsBuf(c) /\ c.datasiz = 0 /\ c.be = b.be
  <1> DEFINE c == [mem |-> m, lgap |-> 0, datasiz |-> 0, be |-> b.be]
  <1>1. [b EXCEPT !.mem = m, !.lgap = 0, !.datasiz = 0] = c
    <2> DEFINE d == [b EXCEPT !.mem = m, !.lgap = 0, !.datasiz = 0]
    <2>1. d = [b EXCEPT !.mem = m, !.lgap = 0, !.datasiz = 0]
      OBVIOUS
    <2> HIDE DEF d
    <2>2. d = [mem |-> m, lgap |-> 0, datasiz |-> 0, be |-> b.be]
      BY <2>1 DEF IsBuf
    <2> QED BY <2>2 DEF d
  <1>2. ASSUME m = b.mem
        PROVE  [b EXCEPT !.lgap = 0, !.datasiz = 0] = c
    <2> DEFINE d == [b EXCEPT !.lgap = 0, !.datasiz = 0]
    <2>1. d = [b EXCEPT !.lgap = 0, !.datasiz = 0]
      OBVIOUS
    <2> HIDE DEF d
    <2>2. d = [mem |-> b.mem, lgap |-> 0, datasiz |-> 0, be |-> b.be]
      BY <2>1 DEF IsBuf
    <2> QED BY <1>2, <2>2 DEF d
  <1>3. /\ c = [mem |-> c.mem, lgap |-> c.lgap, datasiz |-> c.datasiz, be |-> c.be]
        /\ c.mem = m /\ c.lgap = 0 /\ c.datasiz = 0 /\ c.be = b.be
    OBVIOUS
  <1> HIDE DEF c
  <1>4. Len(m) \in Nat /\ b.be \in BOOLEAN
    BY SeqIs DEF IsBuf
  <1>5. IsBuf(c)
    BY <1>3, <1>4 DEF IsBuf
  <1>6. /\ [b EXCEPT !.mem = m, !.lgap = 0, !.datasiz = 0] = c
        /\ m = b.mem => [b EXCEPT !.lgap = 0, !.datasiz = 0] = c
        /\ IsBuf(c) /\ c.datasiz = 0 /\ c.be = b.be
    BY <1>1, <1>2, <1>3, <1>5
  <1> QED BY <1>6 DEF c

LEMMA ShiftTakes ==
    ASSUME IsBuf(buf), NEW siz \in Nat
    PROVE  \E k \in Nat : Taken(buffer_shift(buf, siz), k)
  <1> DEFINE n == Least(siz, buf.datasiz)
             c == buffer_shift(buf, siz)
  <1>1. buf.datasiz \in Nat
    BY MemIs
  <1>2. n \in 0..buf.datasiz /\ IsBuf(c) /\ Part(c, buf, n) /\ c.datasiz = buf.datasiz - n
    BY Shifted
  <1> HIDE DEF n, c
  <1>3. n \in Nat /\ Taken(c, n)
    BY <1>1, <1>2 DEF Taken
  <1> QED BY <1>3 DEF c

LEMMA EmptyTakes ==
    ASSUME IsBuf(buf), NEW c, IsBuf(c), c.datasiz = 0, c.be = buf.be
    PROVE  Taken(c, 0)
  <1>1. buf.datasiz \in Nat
    BY MemIs
  <1>2. Part(c, buf, 0)
    BY <1>1 DEF Part, Holds
  <1> QED BY <1>2 DEF Taken

LEMMA GetStep ==
    ASSUME IsBuf(buf), rd.shifted \in Nat, GetNext
    PROVE  \E c : \E k \in Nat : Taken(c, k) /\ Removes(c)
  <1>0. /\ memsiz(buf) \in Nat /\ buf.lgap \in Nat /\ buf.datasiz \in Nat /\ buf.be \in BOOLEAN
        /\ buf.lgap + buf.datasiz <= memsiz(buf)
    BY MemIs
  <1>c. IsSeq(Content(buf)) /\ Len(Content(buf)) = buf.datasiz
    BY ContentIs
  <1>1. ASSUME NEW n \in Num, lbuffer_getline(n)
        PROVE  \E c : \E k \in Nat : Taken(c, k) /\ Removes(c)
    <2> DEFINE at == line_ends(Content(buf), n)[n]
    <2>1. n \in Nat
      BY ArgumentAssumption
    <2>2. at \in 0..Len(Content(buf))
      BY <1>c, <2>1, LineEnds
    <2>3. Removes(buffer_shift(buf, at))
      BY <1>1 DEF lbuffer_getline
    <2> HIDE DEF at
    <2>4. at \in Nat
      BY <1>0, <1>c, <2>2
    <2> QED BY <2>3, <2>4, ShiftTakes
  <1>2. ASSUME NEW n \in Num, lbuffer_getlstr(n)
        PROVE  \E c : \E k \in Nat : Taken(c, k) /\ Removes(c)
    <2> DEFINE k == Least(n, buf.datasiz)
               c == forget(consumed(buf, k))
    <2>1. n \in Nat
      BY ArgumentAssumption
    <2>2. k \in 0..buf.datasiz /\ IsBuf(c) /\ Part(c, buf, k) /\ c.datasiz = buf.datasiz - k
      BY <2>1, Shifted
    <2>3. Removes(c)
      BY <1>2 DEF lbuffer_getlstr
    <2> HIDE DEF k, c
    <2>4. k \in Nat /\ Taken(c, k)
      BY <1>0, <2>2 DEF Taken
    <2> QED BY <2>3, <2>4
  <1>3. ASSUME NEW n \in Num, NEW w \in Widths, lbuffer_get(n, w)
        PROVE  \E c : \E k \in Nat : Taken(c, k) /\ Removes(c)
    <2> DEFINE siz == total(same_width(Content(buf), n, w))
    <2>1. n \in Nat /\ w \in {1, 2, 4}
      BY ArgumentAssumption
    <2>2. siz \in Nat
      BY <1>c, <2>1, SameWidths
    <2>3. Removes(buffer_shift(buf, siz))
      BY <1>3 DEF lbuffer_get
    <2> HIDE DEF siz
    <2> QED BY <2>2, <2>3, ShiftTakes
  <1>4. ASSUME NEW types \in Types, lbuffer_getlist(types)
        PROVE  \E c : \E k \in Nat : Taken(c, k) /\ Removes(c)
    <2> DEFINE widths == list_widths(types, Content(buf))
               n == Len(widths)
               c == shifts(widths)[n]
    <2>1. n \in Nat /\ widths \in [1..n -> Nat]
      BY <1>c, TypesAre, ListWidths
    <2>2. Removes(c)
      BY <1>4 DEF lbuffer_getlist
    <2> HIDE DEF widths
    <2>3. IsBuf(c) /\ \E k \in Nat : Part(c, buf, k) /\ c.datasiz = buf.datasiz - k
      BY <2>1, ShiftsTake
    <2> HIDE DEF c
    <2>4. \E k \in Nat : Taken(c, k)
      BY <2>3 DEF Taken
    <2> QED BY <2>2, <2>4
  <1>5. ASSUME NEW n \in Num, lbuffer_pop(n)
        PROVE  \E c : \E k \in Nat : Taken(c, k) /\ Removes(c)
    <2>1. n \in Nat
      BY ArgumentAssumption
    <2>2. IsBuf(buffer_pop(buf, n)) /\ Part(buffer_pop(buf, n), buf, 0)
      BY <2>1, Popped
    <2>3. Taken(buffer_pop(buf, n), 0) /\ 0 \in Nat
      BY <2>2 DEF Taken
    <2> QED BY <1>5, <2>3 DEF lbuffer_pop
  <1>6. ASSUME NEW n \in Nat, lbuffer_shift(n)
        PROVE  \E c : \E k \in Nat : Taken(c, k) /\ Removes(c)
    BY <1>6, ShiftTakes DEF lbuffer_shift
  <1>7. ASSUME lbuffer_rewind
        PROVE  \E c : \E k \in Nat : Taken(c, k) /\ Removes(c)
    <2> DEFINE c == [buf EXCEPT !.lgap = 0, !.datasiz = 0]
    <2>1. IsBuf(c) /\ c.datasiz = 0 /\ c.be = buf.be
      <3>1. IsSeq(buf.mem)
        BY DEF IsBuf
      <3> HIDE DEF c
      <3>2. /\ c = [mem |-> buf.mem, lgap |-> 0, datasiz |-> 0, be |-> buf.be]
            /\ IsBuf([mem |-> buf.mem, lgap |-> 0, datasiz |-> 0, be |-> buf.be])
        BY <3>1, Emptied DEF c
      <3> QED BY <3>2
    <2>2. Removes(forget(c))
      BY <1>7 DEF lbuffer_rewind, buffer_rewind
    <2> HIDE DEF c
    <2>3. IsBuf(forget(c)) /\ forget(c).datasiz = 0 /\ forget(c).be = buf.be
      BY <2>1, Forgotten
    <2>4. Taken(forget(c), 0) /\ 0 \in Nat
      BY <2>3, EmptyTakes
    <2> QED BY <2>2, <2>4
  <1>8. ASSUME lbuffer_reset
        PROVE  \E c : \E k \in Nat : Taken(c, k) /\ Removes(c)
    <2> DEFINE small == IF memsiz(buf) > minsiz THEN minsiz ELSE memsiz(buf)
               m == block(buf, 0, 0, small)
               c == [buf EXCEPT !.mem = m, !.lgap = 0, !.datasiz = 0]
    <2>1. small \in Nat
      BY <1>0, MinsizAssumption
    <2>2. Removes(c)
      BY <1>8 DEF lbuffer_reset, buffer_reset
    <2> HIDE DEF small
    <2>3. IsSeq(m)
      <3>1. IsBlock(m, buf, 0, 0, small)
        BY <2>1, BlockIs
      <3> QED BY <3>1 DEF IsBlock
    <2> HIDE DEF m
    <2>4. IsBuf(c) /\ c.datasiz = 0 /\ c.be = buf.be
      <3> HIDE DEF c
      <3>1. /\ c = [mem |-> m, lgap |-> 0, datasiz |-> 0, be |-> buf.be]
            /\ IsBuf([mem |-> m, lgap |-> 0, datasiz |-> 0, be |-> buf.be])
        BY <2>3, Emptied DEF c
      <3> QED BY <3>1
    <2> HIDE DEF c
    <2>5. Taken(c, 0) /\ 0 \in Nat
      BY <2>4, EmptyTakes
    <2> QED BY <2>2, <2>5
  <1>9. ASSUME lbuffer_gc
        PROVE  \E c : \E k \in Nat : Taken(c, k) /\ Removes(c)
    <2>1. Taken(Fresh, 0) /\ 0 \in Nat
      BY FreshIs DEF Taken
    <2> QED BY <1>9, <2>1 DEF lbuffer_gc
  <1>10. Num \subseteq Nat
    BY ArgumentAssumption
  <1> QED BY <1>1, <1>2, <1>3, <1>4, <1>5, <1>6, <1>7, <1>8, <1>9, <1>10
          DEF GetNext, lbuffer_shift_reader
---------------------------------------------------------------------------
(* What is seen of the memory: the data, and what a reader has not read *)

\* d is the n elements of s behind the first k.
IsPiece(d, s, k, n) == IsSeq(d) /\ Len(d) = n /\ \A i \in 1..n : d[i] = s[k + i]

LEMMA DropIs ==
    ASSUME NEW s, IsSeq(s), NEW k \in 0..Len(s), NEW n, n = Len(s) - k
    PROVE  IsPiece(Drop(s, k), s, k, n)
  <1> DEFINE m == k + 1
             j == Len(s)
             d == SubSeq(s, m, j)
  <1>1. j \in Nat /\ k \in Nat /\ m \in Nat \ {0} /\ m <= j + 1 /\ j <= Len(s) /\ j + 1 - m = n
    BY SeqIs
  <1>2. Drop(s, k) = d
    BY DEF Drop
  <1>3. \A i \in 1..n : m + i - 1 = k + i
    BY <1>1
  <1> HIDE DEF m, j
  <1>4. IsSeq(d) /\ Len(d) = j + 1 - m /\ \A i \in 1..(j + 1 - m) : d[i] = s[m + i - 1]
    BY <1>1, SubSeqIs
  <1> HIDE DEF d
  <1> QED BY <1>1, <1>2, <1>3, <1>4 DEF IsPiece

LEMMA TakeIs ==
    ASSUME NEW s, IsSeq(s), NEW n \in 0..Len(s)
    PROVE  /\ IsSeq(Take(s, n)) /\ Len(Take(s, n)) = n
           /\ \A i \in 1..n : Take(s, n)[i] = s[i]
  <1> DEFINE d == SubSeq(s, 1, n)
  <1>1. Len(s) \in Nat /\ n \in Nat /\ 1 \in Nat \ {0} /\ 1 <= n + 1 /\ n <= Len(s) /\ n + 1 - 1 = n
    BY SeqIs
  <1>2. Take(s, n) = d
    BY DEF Take
  <1>3. \A i \in 1..n : 1 + i - 1 = i
    BY <1>1
  <1>4. IsSeq(d) /\ Len(d) = n + 1 - 1 /\ \A i \in 1..(n + 1 - 1) : d[i] = s[1 + i - 1]
    BY <1>1, SubSeqIs
  <1> HIDE DEF d
  <1> QED BY <1>1, <1>2, <1>3, <1>4

IsConcat(r, s, t) ==
    /\ IsSeq(r) /\ Len(r) = Len(s) + Len(t)
    /\ \A i \in 1..Len(s) : r[i] = s[i]
    /\ \A i \in 1..Len(t) : r[Len(s) + i] = t[i]

LEMMA ConcatIs ==
    ASSUME NEW s, IsSeq(s), NEW t, IsSeq(t)
    PROVE  IsConcat(s \o t, s, t)
  <1> DEFINE S == Elements(s) \union Elements(t)
  <1>1. s \in Seq(S) /\ t \in Seq(S) /\ Len(s) \in Nat /\ Len(t) \in Nat
    <2>1. s \in Seq(Elements(s)) /\ t \in Seq(Elements(t)) /\ Len(s) \in Nat /\ Len(t) \in Nat
      BY SeqIs
    <2>2. Elements(s) \subseteq S /\ Elements(t) \subseteq S
      OBVIOUS
    <2> HIDE DEF S
    <2> QED BY <2>1, <2>2, SeqMonotonic
  <1> HIDE DEF S
  <1>2. /\ s \o t \in Seq(S) /\ Len(s \o t) = Len(s) + Len(t)
        /\ \A i \in 1..(Len(s) + Len(t)) :
               (s \o t)[i] = IF i <= Len(s) THEN s[i] ELSE t[i - Len(s)]
    BY <1>1, ConcatProperties
  <1>3. IsSeq(s \o t)
    BY <1>2, TypedSeq
  <1>4. ASSUME NEW i \in 1..Len(s)
        PROVE  (s \o t)[i] = s[i]
    BY <1>1, <1>2
  <1>5. ASSUME NEW i \in 1..Len(t)
        PROVE  (s \o t)[Len(s) + i] = t[i]
    <2>1. Len(s) + i \in 1..(Len(s) + Len(t)) /\ ~(Len(s) + i <= Len(s)) /\ Len(s) + i - Len(s) = i
      BY <1>1
    <2> QED BY <1>2, <2>1
  <1> QED BY <1>2, <1>3, <1>4, <1>5 DEF IsConcat

\* What overwriting does to a run of bytes.
IsOver(d, q, from, s) ==
    /\ IsSeq(d) /\ Len(d) = Len(q)
    /\ \A i \in 1..Len(q) :
           d[i] = IF from < i /\ i <= from + Len(s) THEN s[i - from] ELSE q[i]

LEMMA OverIs ==
    ASSUME NEW q, IsSeq(q), NEW from \in Int, NEW s
    PROVE  IsOver(Q!over(q, from, s), q, from, s)
  <1> DEFINE d == Q!over(q, from, s)
             n == Len(q)
  <1>1. n \in Nat /\ DOMAIN q = 1..n
    BY SeqIs
  <1>2. d = [i \in 1..n |-> IF from < i /\ i <= from + Len(s) THEN s[i - from] ELSE q[i]]
    BY <1>1 DEF Q!over
  <1> HIDE DEF d, n
  <1>3. d = [i \in 1..n |-> d[i]]
    BY <1>2
  <1>4. IsSeq(d) /\ Len(d) = n
    BY <1>1, <1>3, MakeSeq
  <1>5. \A i \in 1..n : d[i] = IF from < i /\ i <= from + Len(s) THEN s[i - from] ELSE q[i]
    BY <1>2
  <1>6. IsOver(d, q, from, s)
    BY <1>4, <1>5 DEF IsOver, n
  <1> QED BY <1>6 DEF d

\* The n bytes of b's memory from p on.
Piece(b, p, n) == SubSeq(b.mem, p + 1, p + n)

LEMMA PieceIs ==
    ASSUME NEW b, IsBuf(b), NEW p \in Nat, NEW n \in Nat, p + n <= memsiz(b)
    PROVE  IsPiece(Piece(b, p, n), b.mem, p, n)
  <1> DEFINE m == p + 1
             k == p + n
             d == SubSeq(b.mem, m, k)
  <1>1. IsSeq(b.mem) /\ Len(b.mem) = memsiz(b)
    BY MemIs DEF IsBuf
  <1>2. /\ m \in Nat \ {0} /\ k \in Nat /\ m <= k + 1 /\ k <= Len(b.mem) /\ k + 1 - m = n
        /\ \A i \in 1..n : m + i - 1 = p + i
    BY <1>1
  <1> HIDE DEF m, k
  <1>3. IsSeq(d) /\ Len(d) = k + 1 - m /\ \A i \in 1..(k + 1 - m) : d[i] = b.mem[m + i - 1]
    BY <1>1, <1>2, SubSeqIs
  <1> HIDE DEF d
  <1>4. IsPiece(d, b.mem, p, n)
    BY <1>2, <1>3 DEF IsPiece
  <1> QED BY <1>4 DEF Piece, d, m, k

---------------------------------------------------------------------------
(* The operations on the queue of bytes *)

LEMMA ContentPut ==
    ASSUME NEW b, IsBuf(b), NEW c, IsBuf(c), Extends(c, b)
    PROVE  /\ Len(Content(c)) >= Len(Content(b))
           /\ Content(c) = Content(b) \o SubSeq(Content(c), Len(Content(b)) + 1, Len(Content(c)))
           /\ Take(Content(c), Len(Content(b))) = Content(b)
  <1> DEFINE q == Content(b)
             r == Content(c)
             n == b.datasiz
             m == c.datasiz
             t == Drop(r, n)
  <1>1. /\ n \in Nat /\ m \in Nat /\ n <= m /\ b.lgap \in Nat /\ c.lgap \in Nat
        /\ \A i \in 1..n : c.mem[c.lgap + i] = b.mem[b.lgap + 0 + i]
    BY MemIs DEF Extends, Holds
  <1>2. /\ IsSeq(q) /\ Len(q) = n /\ \A i \in 1..n : q[i] = b.mem[b.lgap + i]
        /\ IsSeq(r) /\ Len(r) = m /\ \A i \in 1..m : r[i] = c.mem[c.lgap + i]
    BY ContentIs
  <1>3. \A i \in 1..n : r[i] = q[i]
    BY <1>1, <1>2
  <1> HIDE DEF q, r, n, m
  <1>4. n \in 0..Len(r)
    BY <1>1, <1>2
  <1>5. IsSeq(t) /\ Len(t) = m - n /\ \A i \in 1..(m - n) : t[i] = r[n + i]
    <2>1. m - n = Len(r) - n
      BY <1>2
    <2>2. IsPiece(Drop(r, n), r, n, m - n)
      BY <1>2, <1>4, <2>1, DropIs
    <2> QED BY <2>2 DEF IsPiece
  <1>6. t = SubSeq(r, n + 1, Len(r))
    BY DEF Drop
  <1> HIDE DEF t
  <1>7. /\ IsSeq(q \o t) /\ Len(q \o t) = n + (m - n)
        /\ \A i \in 1..n : (q \o t)[i] = q[i]
        /\ \A i \in 1..(m - n) : (q \o t)[n + i] = t[i]
    <2>1. IsConcat(q \o t, q, t)
      BY <1>2, <1>5, ConcatIs
    <2> QED BY <1>2, <1>5, <2>1 DEF IsConcat
  <1>8. ASSUME NEW i \in 1..m
        PROVE  r[i] = (q \o t)[i]
    <2>1. CASE i \in 1..n
      BY <1>3, <1>7, <2>1
    <2>2. CASE i \notin 1..n
      <3>1. i - n \in 1..(m - n) /\ n + (i - n) = i
        BY <1>1, <2>2
      <3>2. (q \o t)[n + (i - n)] = t[i - n] /\ t[i - n] = r[n + (i - n)]
        BY <1>5, <1>7, <3>1
      <3> QED BY <3>1, <3>2
    <2> QED BY <2>1, <2>2
  <1>9. r = q \o t
    <2>1. Len(r) = Len(q \o t)
      BY <1>1, <1>2, <1>7
    <2> QED BY <1>2, <1>7, <1>8, <2>1, SameSeq
  <1>10. Take(r, n) = q
    <2>1. IsSeq(Take(r, n)) /\ Len(Take(r, n)) = n /\ \A i \in 1..n : Take(r, n)[i] = r[i]
      BY <1>2, <1>4, TakeIs
    <2>2. \A i \in 1..n : Take(r, n)[i] = q[i]
      BY <1>3, <2>1
    <2> QED BY <1>2, <2>1, <2>2, SameSeq
  <1>11. Len(r) >= Len(q)
    BY <1>1, <1>2
  <1>12. r = q \o SubSeq(r, Len(q) + 1, Len(r)) /\ Take(r, Len(q)) = q
    BY <1>2, <1>6, <1>9, <1>10
  <1> QED BY <1>11, <1>12 DEF q, r

LEMMA ContentPart ==
    ASSUME NEW b, IsBuf(b), NEW c, IsBuf(c), NEW k \in Nat, Part(c, b, k)
    PROVE  /\ c.datasiz = b.datasiz - k => Content(c) = Drop(Content(b), k)
           /\ k = 0 => Content(c) = Take(Content(b), c.datasiz)
  <1> DEFINE q == Content(b)
             r == Content(c)
             n == b.datasiz
             m == c.datasiz
  <1>1. /\ n \in Nat /\ m \in Nat /\ k + m <= n /\ b.lgap \in Nat /\ c.lgap \in Nat
        /\ \A i \in 1..m : c.mem[c.lgap + i] = b.mem[b.lgap + k + i]
    BY MemIs DEF Part, Holds
  <1>2. /\ IsSeq(q) /\ Len(q) = n /\ \A i \in 1..n : q[i] = b.mem[b.lgap + i]
        /\ IsSeq(r) /\ Len(r) = m /\ \A i \in 1..m : r[i] = c.mem[c.lgap + i]
    BY ContentIs
  <1>3. ASSUME NEW i \in 1..m
        PROVE  r[i] = q[k + i]
    <2>1. k + i \in 1..n /\ b.lgap + k + i = b.lgap + (k + i)
      BY <1>1
    <2>2. r[i] = b.mem[b.lgap + k + i]
      BY <1>1, <1>2
    <2>3. q[k + i] = b.mem[b.lgap + (k + i)]
      BY <1>2, <2>1
    <2> QED BY <2>1, <2>2, <2>3
  <1> HIDE DEF q, r, n, m
  <1>4. ASSUME m = n - k
        PROVE  r = Drop(q, k)
    <2>1. k \in 0..Len(q)
      BY <1>1, <1>2
    <2>2. IsSeq(Drop(q, k)) /\ Len(Drop(q, k)) = m /\ \A i \in 1..m : Drop(q, k)[i] = q[k + i]
      <3>1. m = Len(q) - k
        BY <1>2, <1>4
      <3>2. IsPiece(Drop(q, k), q, k, m)
        BY <1>2, <2>1, <3>1, DropIs
      <3> QED BY <3>2 DEF IsPiece
    <2>3. \A i \in 1..m : Drop(q, k)[i] = r[i]
      BY <1>3, <2>2
    <2> QED BY <1>2, <2>2, <2>3, SameSeq
  <1>5. ASSUME k = 0
        PROVE  r = Take(q, m)
    <2>1. m \in 0..Len(q) /\ \A i \in 1..m : k + i = i
      BY <1>1, <1>2, <1>5
    <2>2. IsSeq(Take(q, m)) /\ Len(Take(q, m)) = m /\ \A i \in 1..m : Take(q, m)[i] = q[i]
      BY <1>2, <2>1, TakeIs
    <2>3. \A i \in 1..m : Take(q, m)[i] = r[i]
      BY <1>3, <2>1, <2>2
    <2> QED BY <1>2, <2>2, <2>3, SameSeq
  <1> QED BY <1>4, <1>5 DEF q, r, n, m

\* Bytes that are written over, seen from p on.
LEMMA PieceOver ==
    ASSUME NEW b, IsBuf(b), NEW c, NEW at \in Int, NEW s, Len(s) \in Nat, IsWritten(c, b, at, s),
           NEW p \in Nat, NEW n \in Nat, p + n <= memsiz(b),
           NEW from, from = at - (p - b.lgap)
    PROVE  Piece(c, p, n) = Q!over(Piece(b, p, n), from, s)
  <1> DEFINE d == Piece(b, p, n)
             e == Piece(c, p, n)
             o == Q!over(d, from, s)
  <1>1. /\ memsiz(b) \in Nat /\ b.lgap \in Nat /\ b.datasiz \in Nat
        /\ b.lgap + b.datasiz <= memsiz(b)
    BY MemIs
  <1>2. IsBuf(c) /\ memsiz(c) = memsiz(b)
    BY DEF IsWritten
  <1>3. IsSeq(d) /\ Len(d) = n /\ \A i \in 1..n : d[i] = b.mem[p + i]
    BY PieceIs DEF IsPiece
  <1>4. IsSeq(e) /\ Len(e) = n /\ \A i \in 1..n : e[i] = c.mem[p + i]
    BY <1>2, PieceIs DEF IsPiece
  <1>5. from \in Int
    BY <1>1
  <1> HIDE DEF d, e
  <1>6. /\ IsSeq(o) /\ Len(o) = n
        /\ \A i \in 1..n : o[i] = IF from < i /\ i <= from + Len(s) THEN s[i - from] ELSE d[i]
    <2>1. IsOver(Q!over(d, from, s), d, from, s)
      BY <1>3, <1>5, OverIs
    <2> QED BY <1>3, <2>1 DEF IsOver
  <1> HIDE DEF o
  <1>7. ASSUME NEW i \in 1..n
        PROVE  e[i] = o[i]
    <2> DEFINE j == p + i
    <2>1. /\ j \in 1..memsiz(b) /\ j - b.lgap - at = i - from
          /\ (b.lgap + at < j /\ j <= b.lgap + at + Len(s)) <=> (from < i /\ i <= from + Len(s))
      <3>1. j \in 1..memsiz(b)
        BY <1>1
      <3>2. j - b.lgap - at = i - from
        <4> DEFINE g == b.lgap
        <4>1. g \in Nat /\ at \in Int /\ p \in Nat /\ i \in Nat /\ from = at - (p - g)
          BY <1>1
        <4> HIDE DEF g
        <4>2. (p + i) - g - at = i - from
          BY <4>1
        <4> QED BY <4>2 DEF g
      <3>3. b.lgap + at < j <=> from < i
        BY <1>1
      <3>4. j <= b.lgap + at + Len(s) <=> i <= from + Len(s)
        <4> DEFINE l == Len(s)
                   g == b.lgap
        <4>1. l \in Nat /\ g \in Nat /\ at \in Int /\ p \in Nat /\ i \in Nat /\ from = at - (p - g)
          BY <1>1
        <4> HIDE DEF l, g
        <4>2. p + i <= g + at + l <=> i <= from + l
          BY <4>1
        <4> QED BY <4>2 DEF l, g
      <3> HIDE DEF j
      <3> QED BY <3>1, <3>2, <3>3, <3>4
    <2>2. e[i] = c.mem[j] /\ d[i] = b.mem[j]
      BY <1>3, <1>4
    <2> HIDE DEF j
    <2>3. c.mem[j] = IF b.lgap + at < j /\ j <= b.lgap + at + Len(s)
                     THEN s[j - b.lgap - at] ELSE b.mem[j]
      BY <2>1 DEF IsWritten
    <2> QED BY <1>6, <2>1, <2>2, <2>3
  <1>8. e = o
    BY <1>3, <1>4, <1>6, <1>7, SameSeq
  <1> QED BY <1>8 DEF e, o, d

LEMMA ContentOver ==
    ASSUME NEW b, IsBuf(b), NEW c, NEW at \in Int, NEW s, Len(s) \in Nat, IsWritten(c, b, at, s)
    PROVE  Content(c) = Q!over(Content(b), at, s)
  <1> DEFINE p == b.lgap
             n == b.datasiz
  <1>1. p \in Nat /\ n \in Nat /\ p + n <= memsiz(b)
    BY MemIs
  <1>2. Content(b) = Piece(b, p, n) /\ Content(c) = Piece(c, p, n)
    BY DEF Content, IsWritten, Piece
  <1>3. at = at - (p - b.lgap)
    BY <1>1
  <1> HIDE DEF p, n
  <1>4. Piece(c, p, n) = Q!over(Piece(b, p, n), at, s)
    BY <1>1, <1>3, PieceOver
  <1> QED BY <1>2, <1>4

---------------------------------------------------------------------------
(* The invariant, and the step of the queue that each effect is *)

Readers == [base : Nat, shifted : Nat, left : Nat, usable : BOOLEAN]
Writers == [offset : Nat, length : Nat, cursor : Nat, usable : BOOLEAN]

\* A usable reader points into the data, a usable writer's room is in the
\* data, and with Views below 2 not both of them are in use.
Sound(b, r, w) ==
    /\ IsBuf(b) /\ r \in Readers /\ w \in Writers
    /\ r.usable => /\ b.lgap <= r.base
                   /\ r.base + r.shifted + r.left <= b.lgap + b.datasiz
    /\ w.usable => w.cursor <= w.length /\ w.offset + w.length <= b.datasiz
    /\ Views # 2 => ~(r.usable /\ w.usable)

BInv == Sound(buf, rd, wr) /\ mem_total = memsiz(buf)

\* What becomes of the invariant and of the queue in a step.
Step == BInv' /\ (Views # 2 => Q!Next \/ UNCHANGED Q!vars)

\* The queue's bytes are the buffer's.
LEMMA SameBytes ==
    /\ \A x, y : Q!Least(x, y) = Least(x, y)
    /\ \A d, n : Q!Drop(d, n) = Drop(d, n) /\ Q!Take(d, n) = Take(d, n)
    /\ \A v, n, be : Q!to_bytes(v, n, be) = to_bytes(v, n, be)
    /\ \A d : Q!NextLine(d) = NextLine(d) /\ Q!after_line(d) = after_line(d)
  <1>1. \A x, y : Q!Least(x, y) = Least(x, y)
    BY DEF Q!Least, Least
  <1>2. \A d, n : Q!Drop(d, n) = Drop(d, n) /\ Q!Take(d, n) = Take(d, n)
    BY DEF Q!Drop, Drop, Q!Take, Take
  <1>3. \A v, n, be : Q!to_bytes(v, n, be) = to_bytes(v, n, be)
    BY DEF Q!to_bytes, to_bytes
  <1>4. \A d : Q!NextLine(d) = NextLine(d)
    BY <1>2 DEF Q!NextLine, NextLine, Q!NoLine, NoLine, Q!NUL, NUL, Q!LF, LF, Q!CR, CR
  <1>5. \A d : Q!after_line(d) = after_line(d)
    BY <1>4 DEF Q!after_line, after_line, Q!NUL, NUL, Q!CR, CR
  <1> QED BY <1>1, <1>2, <1>3, <1>4, <1>5

LEMMA ViewsAre ==
    /\ NoReader \in Readers /\ ~NoReader.usable /\ NoReader.shifted = 0
    /\ NoWriter \in Writers /\ ~NoWriter.usable
    /\ rd \in Readers => stale \in Readers /\ ~stale.usable /\ stale.shifted = rd.shifted
  BY DEF NoReader, NoWriter, stale, Readers, Writers

LEMMA PutsStep ==
    ASSUME BInv, NEW c, IsBuf(c), Extends(c, buf), Puts(c)
    PROVE  Step
  <1>1. /\ buf' = c /\ mem_total' = mem_total - memsiz(buf) + memsiz(c)
        /\ rd' = stale /\ wr' = wr
    BY DEF Puts, set_buffer
  <1>2. IsBuf(buf) /\ rd \in Readers /\ wr \in Writers /\ mem_total = memsiz(buf)
    BY DEF BInv, Sound
  <1>3. memsiz(buf) \in Nat /\ memsiz(c) \in Nat /\ buf.datasiz \in Nat /\ c.datasiz \in Nat
    BY <1>2, MemIs
  <1>4. buf.datasiz <= c.datasiz /\ c.be = buf.be
    BY DEF Extends, Holds
  <1>5. stale \in Readers /\ ~stale.usable /\ stale.shifted = rd.shifted
    BY <1>2, ViewsAre
  <1>6. Sound(c, stale, wr)
    <2>1. wr.usable => wr.cursor <= wr.length /\ wr.offset + wr.length <= c.datasiz
      <3>1. wr.offset \in Nat /\ wr.length \in Nat
        BY <1>2 DEF Writers
      <3> QED BY <1>3, <1>4, <3>1 DEF BInv, Sound
    <2> QED BY <1>2, <1>5, <2>1 DEF Sound
  <1>7. BInv'
    <2>1. mem_total' = memsiz(c)
      BY <1>1, <1>2, <1>3
    <2> QED BY <1>1, <1>6, <2>1 DEF BInv, Sound, memsiz
  <1>8. Q!Next
    <2>1. /\ Len(Content(c)) >= Len(Content(buf))
          /\ Content(c) = Content(buf) \o SubSeq(Content(c), Len(Content(buf)) + 1, Len(Content(c)))
      BY <1>2, ContentPut
    <2>2. Content(buf)' = Content(c)
      BY <1>1 DEF Content
    <2>3. ~rd'.usable /\ rd'.shifted = rd.shifted /\ buf'.be = buf.be /\ wr' = wr
      BY <1>1, <1>4, <1>5
    <2>4. Q!Put(SubSeq(Content(c), Len(Content(buf)) + 1, Len(Content(c))))
      BY <2>1, <2>2, <2>3 DEF Q!Put
    <2> QED BY <2>1, <2>2, <2>4 DEF Q!Next
  <1> QED BY <1>7, <1>8 DEF Step
LEMMA RemovesStep ==
    ASSUME BInv, NEW c, NEW k \in Nat, Taken(c, k), Removes(c)
    PROVE  Step
  <1>1. /\ buf' = c /\ mem_total' = mem_total - memsiz(buf) + memsiz(c)
        /\ rd' = NoReader /\ wr' = NoWriter
    BY DEF Removes, set_buffer
  <1>2. IsBuf(buf) /\ mem_total = memsiz(buf) /\ IsBuf(c)
    BY DEF BInv, Sound, Taken
  <1>3. memsiz(buf) \in Nat /\ memsiz(c) \in Nat /\ buf.datasiz \in Nat /\ c.datasiz \in Nat
    BY <1>2, MemIs
  <1>4. /\ NoReader \in Readers /\ ~NoReader.usable /\ NoReader.shifted = 0
        /\ NoWriter \in Writers /\ ~NoWriter.usable
    BY ViewsAre
  <1>5. Sound(c, NoReader, NoWriter)
    BY <1>2, <1>4 DEF Sound
  <1>6. BInv'
    <2>1. mem_total' = memsiz(c)
      BY <1>1, <1>2, <1>3
    <2> QED BY <1>1, <1>5, <2>1 DEF BInv, Sound, memsiz
  <1>7. Q!Next
    <2>1. Content(buf)' = Content(c)
      BY <1>1 DEF Content
    <2>2. ~rd'.usable /\ rd'.shifted = 0 /\ ~wr'.usable /\ buf'.be = c.be
      BY <1>1, <1>4
    <2>3. Len(Content(buf)) = buf.datasiz
      BY <1>2, ContentIs
    <2>4. CASE c = Fresh
      <3>1. Content(Fresh) = <<>> /\ Fresh.be = TRUE
        <4>1. Fresh.lgap + 1 = 1 /\ Fresh.lgap + Fresh.datasiz = 0 /\ Fresh.be = TRUE
          BY DEF Fresh
        <4>2. IsBuf(Fresh) /\ Fresh.datasiz = 0
          BY FreshIs DEF Fresh
        <4>3. IsSeq(Content(Fresh)) /\ Len(Content(Fresh)) = 0
          BY <4>2, ContentIs
        <4>4. Content(Fresh) \in Seq(Elements(Content(Fresh)))
          BY <4>3, SeqIs
        <4> QED BY <4>1, <4>3, <4>4, EmptySeq
      <3>2. Q!Renew
        BY <2>1, <2>2, <2>4, <3>1 DEF Q!Renew, Q!NoView, Q!NoHole
      <3> QED BY <3>2 DEF Q!Next
    <2>5. CASE Part(c, buf, k) /\ k # 0 /\ c.datasiz = buf.datasiz - k
      <3>1. k \in 0..Len(Content(buf)) /\ Least(k, Len(Content(buf))) = k
        BY <1>3, <2>3, <2>5 DEF Least
      <3>2. Content(c) = Drop(Content(buf), k) /\ c.be = buf.be
        BY <1>2, <2>5, ContentPart DEF Part
      <3>3. Q!Shift(k)
        BY <2>1, <2>2, <3>1, <3>2, SameBytes DEF Q!Shift, Q!NoView, Q!NoHole
      <3> QED BY <3>1, <3>3 DEF Q!Next
    <2>6. CASE Part(c, buf, 0)
      <3> DEFINE n == buf.datasiz - c.datasiz
      <3>1. c.datasiz <= buf.datasiz /\ c.be = buf.be
        BY <1>3, <2>6 DEF Part
      <3>2. /\ n \in 0..Len(Content(buf))
            /\ Len(Content(buf)) - Least(n, Len(Content(buf))) = c.datasiz
        BY <1>3, <2>3, <3>1 DEF Least
      <3>3. Content(c) = Take(Content(buf), c.datasiz)
        BY <1>2, <2>6, ContentPart
      <3> HIDE DEF n
      <3>4. Q!Pop(n)
        BY <2>1, <2>2, <3>1, <3>2, <3>3, SameBytes DEF Q!Pop, Q!NoView, Q!NoHole
      <3> QED BY <3>2, <3>4 DEF Q!Next
    <2> QED BY <2>4, <2>5, <2>6 DEF Taken
  <1> QED BY <1>6, <1>7 DEF Step

\* A reader that looks elsewhere: the data and the writer stay.
LEMMA LooksSound ==
    ASSUME BInv, NEW r, Looks(r), r \in Readers,
           r.usable => /\ buf.lgap <= r.base
                       /\ r.base + r.shifted + r.left <= buf.lgap + buf.datasiz,
           Views # 2 => ~(r.usable /\ wr.usable)
    PROVE  BInv'
  <1>1. buf' = buf /\ wr' = wr /\ mem_total' = mem_total /\ rd' = r
    BY DEF Looks
  <1>2. Sound(buf, r, wr) /\ mem_total = memsiz(buf)
    BY DEF BInv, Sound
  <1> QED BY <1>1, <1>2 DEF BInv, Sound, memsiz
\* A reader that may be read has its bytes in the data.
LEMMA ReaderIs ==
    ASSUME BInv
    PROVE  /\ rd.base \in Nat /\ rd.shifted \in Nat /\ rd.left \in Nat /\ rd.usable \in BOOLEAN
           /\ rd.base + rd.shifted \in Nat
           /\ rd.usable => /\ rd.base + rd.shifted + rd.left <= memsiz(buf)
                           /\ rd.base + rd.shifted - buf.lgap \in Nat
                           /\ IsPiece(Unread, buf.mem, rd.base + rd.shifted, rd.left)
           /\ Unread = Piece(buf, rd.base + rd.shifted, rd.left)
           /\ Q!Reading <=> rd.usable
  <1>1. rd.base \in Nat /\ rd.shifted \in Nat /\ rd.left \in Nat /\ rd.usable \in BOOLEAN
    BY DEF BInv, Sound, Readers
  <1>2. IsBuf(buf)
    BY DEF BInv, Sound
  <1>3. /\ memsiz(buf) \in Nat /\ buf.lgap \in Nat /\ buf.datasiz \in Nat
        /\ buf.lgap + buf.datasiz <= memsiz(buf)
    BY <1>2, MemIs
  <1>4. rd.usable => /\ rd.base + rd.shifted + rd.left <= memsiz(buf)
                     /\ rd.base + rd.shifted - buf.lgap \in Nat
    BY <1>1, <1>3 DEF BInv, Sound
  <1> DEFINE p == rd.base + rd.shifted
  <1>5. p \in Nat
    BY <1>1
  <1>6. Unread = Piece(buf, p, rd.left)
    BY DEF Unread, Piece
  <1>7. rd.usable => p + rd.left <= memsiz(buf)
    BY <1>4
  <1> HIDE DEF p
  <1>8. rd.usable => IsPiece(Unread, buf.mem, p, rd.left)
    BY <1>1, <1>2, <1>5, <1>6, <1>7, PieceIs
  <1>9. Q!Reading <=> rd.usable
    BY <1>1, <1>4 DEF Q!Reading
  <1> QED BY <1>1, <1>4, <1>5, <1>6, <1>8, <1>9 DEF p

LEMMA OverStep ==
    ASSUME BInv, NEW at \in Nat, NEW s, Len(s) \in Nat,
           Overwrites(written(buf, at, s))
    PROVE  BInv' /\ Q!Overwrite(at, s)
  <1> DEFINE c == written(buf, at, s)
  <1>1. buf' = c /\ rd' = rd /\ wr' = wr /\ mem_total' = mem_total
    BY DEF Overwrites
  <1>2. IsBuf(buf) /\ mem_total = memsiz(buf) /\ rd \in Readers /\ wr \in Writers
    BY DEF BInv, Sound
  <1>3. IsWritten(c, buf, at, s)
    BY <1>2, Written
  <1> HIDE DEF c
  <1>4. /\ IsBuf(c) /\ memsiz(c) = memsiz(buf)
        /\ c.lgap = buf.lgap /\ c.datasiz = buf.datasiz /\ c.be = buf.be
    BY <1>3 DEF IsWritten
  <1>5. BInv'
    <2>1. Sound(c, rd, wr)
      BY <1>2, <1>4 DEF BInv, Sound
    <2> QED BY <1>1, <1>2, <1>4, <2>1 DEF BInv, Sound, memsiz
  <1>6. Q!Overwrite(at, s)
    <2> DEFINE p == rd.base + rd.shifted
               n == rd.left
               v == Q!over(Unread, at - (p - buf.lgap), s)
    <2>1. Content(buf)' = Q!over(Content(buf), at, s)
      <3>1. Content(c) = Q!over(Content(buf), at, s)
        BY <1>2, <1>3, ContentOver
      <3>2. Content(buf)' = Content(c)
        BY <1>1 DEF Content
      <3> QED BY <3>1, <3>2
    <2>2. rd.usable => Unread' = v
      <3>1. p \in Nat /\ n \in Nat /\ (rd.usable => p + n <= memsiz(buf))
        BY ReaderIs
      <3>2. Unread = Piece(buf, p, n)
        BY ReaderIs
      <3>3. Unread' = Piece(c, p, n)
        BY <1>1 DEF Unread, Piece
      <3> HIDE DEF p, n
      <3>4. rd.usable => Piece(c, p, n) = Q!over(Piece(buf, p, n), at - (p - buf.lgap), s)
        BY <1>2, <1>3, <3>1, PieceOver
      <3> QED BY <3>2, <3>3, <3>4
    <2>4. Q!Reading <=> rd.usable
      BY ReaderIs
    <2>5. buf'.be = buf.be /\ buf'.lgap = buf.lgap
      BY <1>1, <1>4
    <2>6. CASE rd.usable
      <3> DEFINE there == IF rd.usable THEN rd.base + rd.shifted - buf.lgap ELSE -1
                 view == IF rd.usable THEN Unread ELSE <<>>
      <3>1. there = p - buf.lgap /\ view = Unread /\ view' = Unread' /\ there' = there
        <4>1. there = p - buf.lgap
          <5>1. rd.base \in Nat /\ rd.shifted \in Nat /\ buf.lgap \in Nat
            BY <1>2, ReaderIs, MemIs
          <5>2. rd.base + rd.shifted - buf.lgap = p - buf.lgap
            BY <5>1
          <5> QED BY <2>6, <5>2
        <4>2. rd'.usable
          BY <1>1, <2>6
        <4>3. view = Unread /\ view' = Unread'
          BY <2>6, <4>2
        <4>4. there' = there
          BY <1>1, <2>5
        <4> QED BY <4>1, <4>3, <4>4
      <3>2. view' = Q!over(view, at - there, s)
        BY <2>2, <2>6, <3>1
      <3> HIDE DEF v, p
      <3>3. /\ Content(buf)' = Q!over(Content(buf), at, s)
            /\ view' = IF Q!Reading THEN Q!over(view, at - there, s) ELSE view
            /\ buf'.be = buf.be /\ rd'.shifted = rd.shifted /\ there' = there /\ wr' = wr
        BY <1>1, <2>1, <2>4, <2>5, <2>6, <3>1, <3>2
      <3> QED BY <3>3 DEF Q!Overwrite
    <2>7. CASE ~rd.usable
      BY <1>1, <2>1, <2>4, <2>5, <2>7 DEF Q!Overwrite
    <2> QED BY <2>6, <2>7
  <1> QED BY <1>5, <1>6

LEMMA OverwriteStep ==
    ASSUME BInv, OverwriteNext
    PROVE  Step
  <1>1. /\ IsBuf(buf) /\ buf.datasiz \in Nat /\ buf.lgap \in Nat /\ buf.be \in BOOLEAN
        /\ IsSeq(Content(buf)) /\ Len(Content(buf)) = buf.datasiz
    BY MemIs, ContentIs DEF BInv, Sound
  <1>2. ASSUME Overwrites(buf)
        PROVE  Step
    <2>1. buf' = buf /\ rd' = rd /\ wr' = wr /\ mem_total' = mem_total
      BY <1>2 DEF Overwrites
    <2>2. BInv'
      BY <2>1 DEF BInv, Sound, memsiz
    <2>3. UNCHANGED Q!vars
      BY <2>1 DEF Q!vars, Content, Unread
    <2> QED BY <2>2, <2>3 DEF Step
  <1>3. ASSUME NEW n \in {4, 5}, lbuffer_endlen(n)
        PROVE  Step
    <2> DEFINE s == to_bytes(buf.datasiz - n, 4, buf.be)
    <2>1. CASE n >= 4 /\ n <= buf.datasiz
      <3>1. Overwrites(written(buf, n - 4, s))
        BY <1>3, <2>1 DEF lbuffer_endlen
      <3>2. Len(s) = 4 /\ Len(s) \in Nat /\ n - 4 \in Nat
        <4>1. 4 \in Nat
          OBVIOUS
        <4>2. Len(s) = 4
          BY <4>1, BytesAre
        <4> QED BY <4>2
      <3>3. s = Q!to_bytes(Len(Content(buf)) - n, 4, buf.be)
        BY <1>1, SameBytes
      <3> HIDE DEF s
      <3>4. BInv' /\ Q!Overwrite(n - 4, s)
        BY <3>1, <3>2, OverStep
      <3>5. n \in 4..Len(Content(buf))
        BY <1>1, <2>1
      <3>6. Q!EndLength(n)
        BY <3>3, <3>4, <3>5 DEF Q!EndLength
      <3> QED BY <3>4, <3>5, <3>6 DEF Step, Q!Next
    <2>2. CASE ~(n >= 4 /\ n <= buf.datasiz)
      <3>1. Overwrites(buf)
        BY <1>3, <2>2 DEF lbuffer_endlen
      <3> QED BY <1>2, <3>1
    <2> QED BY <2>1, <2>2
  <1>4. ASSUME NEW off \in Off, NEW s \in Str \union {to_bytes(v, 4, buf.be) : v \in Val},
               lbuffer_overwrite(off, s)
        PROVE  Step
    <2>1. off \in Nat /\ Len(s) \in Nat
      <3>1. s \in Str \/ \E v \in Val : s = to_bytes(v, 4, buf.be)
        BY <1>4
      <3> QED BY <3>1, StrIs, BytesAre, ArgumentAssumption
    <2>2. CASE off >= 0 /\ off + Len(s) <= buf.datasiz
      <3>1. Overwrites(written(buf, off, s))
        BY <1>4, <2>2 DEF lbuffer_overwrite
      <3>2. BInv' /\ Q!Overwrite(off, s)
        BY <2>1, <3>1, OverStep
      <3>3. off + Len(s) <= Len(Content(buf))
        BY <1>1, <2>2
      <3>4. s \in Str \union {Q!to_bytes(v, 4, buf.be) : v \in Val}
        BY SameBytes
      <3> QED BY <3>2, <3>3, <3>4 DEF Step, Q!Next
    <2>3. CASE ~(off >= 0 /\ off + Len(s) <= buf.datasiz)
      <3>1. Overwrites(buf)
        BY <1>4, <2>3 DEF lbuffer_overwrite
      <3> QED BY <1>2, <3>1
    <2> QED BY <2>2, <2>3
  <1>5. ASSUME NEW be \in Orders, lbuffer_setbe(be)
        PROVE  Step
    <2> DEFINE c == [buf EXCEPT !.be = be]
    <2>1. c = [mem |-> buf.mem, lgap |-> buf.lgap, datasiz |-> buf.datasiz, be |-> be]
      <3>1. c = [buf EXCEPT !.be = be]
        OBVIOUS
      <3> HIDE DEF c
      <3> QED BY <1>1, <3>1 DEF IsBuf
    <2>2. buf' = c /\ rd' = rd /\ wr' = wr /\ mem_total' = mem_total /\ be \in BOOLEAN
      BY <1>5, ArgumentAssumption DEF lbuffer_setbe, Overwrites
    <2> HIDE DEF c
    <2>3. c.mem = buf.mem /\ c.lgap = buf.lgap /\ c.datasiz = buf.datasiz /\ c.be = be
      BY <2>1
    <2>4. IsBuf(c)
      BY <1>1, <2>1, <2>2, <2>3 DEF IsBuf
    <2>5. BInv'
      BY <2>2, <2>3, <2>4 DEF BInv, Sound, memsiz
    <2>6. Content(buf)' = Content(buf) /\ Unread' = Unread
      BY <2>2, <2>3 DEF Content, Unread
    <2>7. Q!SetOrder
      BY <2>2, <2>3, <2>6 DEF Q!SetOrder
    <2> QED BY <2>5, <2>7 DEF Step, Q!Next
  <1> QED BY <1>3, <1>4, <1>5 DEF OverwriteNext
\* Part of a reader's bytes, where they are in memory.
LEMMA SubPiece ==
    ASSUME NEW b, IsBuf(b), NEW q, NEW p \in Nat, NEW m \in Nat, IsPiece(q, b.mem, p, m),
           p + m <= memsiz(b), NEW from \in 0..m, NEW k \in Nat,
           NEW n, n = Least(k, m - from), NEW place, place = p + from
    PROVE  /\ Q!View(q, from, k) = Piece(b, place, n)
           /\ k = m - from => Drop(q, from) = Piece(b, place, n)
  <1> DEFINE e == Piece(b, place, n)
             i0 == from + 1
             i1 == from + n
             d == SubSeq(q, i0, i1)
  <1>1. /\ n \in Nat /\ from + n <= m /\ place \in Nat /\ place + n <= memsiz(b)
        /\ Least(from + k, m) = from + n /\ IsSeq(q) /\ Len(q) = m
    <2>1. memsiz(b) \in Nat /\ IsSeq(q) /\ Len(q) = m
      BY MemIs DEF IsPiece
    <2> QED BY <2>1 DEF Least
  <1>2. IsSeq(e) /\ Len(e) = n /\ \A i \in 1..n : e[i] = b.mem[place + i]
    BY <1>1, PieceIs DEF IsPiece
  <1>3. /\ i0 \in Nat \ {0} /\ i1 \in Nat /\ i0 <= i1 + 1 /\ i1 <= Len(q) /\ i1 + 1 - i0 = n
        /\ \A i \in 1..n : i0 + i - 1 = from + i
    <2>1. from \in Nat /\ n \in Nat /\ from + n <= Len(q) /\ Len(q) \in Nat
      BY <1>1
    <2> QED BY <2>1
  <1>4. Q!View(q, from, k) = d
    <2>1. Q!View(q, from, k) = SubSeq(q, from + 1, Least(from + k, Len(q)))
      BY SameBytes DEF Q!View
    <2> QED BY <1>1, <2>1
  <1>5. k = m - from => Drop(q, from) = d
    <2>1. k = m - from => from + n = m
      BY DEF Least
    <2>2. Drop(q, from) = SubSeq(q, from + 1, Len(q))
      BY DEF Drop
    <2> QED BY <1>1, <2>1, <2>2
  <1> HIDE DEF i0, i1
  <1>6. IsSeq(d) /\ Len(d) = n /\ \A i \in 1..n : d[i] = q[from + i]
    <2>1. IsSeq(q) /\ i0 \in Nat \ {0} /\ i1 \in Nat /\ i0 <= i1 + 1 /\ i1 <= Len(q)
      BY <1>1, <1>3
    <2>2. IsSeq(d) /\ Len(d) = i1 + 1 - i0 /\ \A i \in 1..(i1 + 1 - i0) : d[i] = q[i0 + i - 1]
      BY <2>1, SubSeqIs
    <2> HIDE DEF d
    <2> QED BY <1>3, <2>2
  <1> HIDE DEF d, e
  <1>7. ASSUME NEW i \in 1..n
        PROVE  d[i] = e[i]
    <2>1. from + i \in 1..m /\ p + (from + i) = place + i
      BY <1>1
    <2>2. q[from + i] = b.mem[p + (from + i)]
      BY <2>1 DEF IsPiece
    <2> QED BY <1>2, <1>6, <2>1, <2>2
  <1>8. d = e
    BY <1>2, <1>6, <1>7, SameSeq
  <1> QED BY <1>4, <1>5, <1>8 DEF e

LEMMA DropPiece ==
    ASSUME NEW b, IsBuf(b), NEW q, NEW p \in Nat, NEW m \in Nat, IsPiece(q, b.mem, p, m),
           p + m <= memsiz(b), NEW from \in 0..m, NEW n, n = m - from, NEW place, place = p + from
    PROVE  Drop(q, from) = Piece(b, place, n)
  <1>1. n \in Nat /\ n = Least(n, m - from)
    BY DEF Least
  <1>2. /\ Q!View(q, from, n) = Piece(b, place, n)
        /\ n = m - from => Drop(q, from) = Piece(b, place, n)
    BY <1>1, SubPiece
  <1> QED BY <1>2

LEMMA WindowIs ==
    ASSUME NEW size \in Nat, NEW off \in Nat, NEW k \in Nat
    PROVE  LET w == window(size, off, k)
           IN /\ w.from \in 0..size /\ w.n \in Nat /\ w.from + w.n <= size
              /\ w.n = Least(k, size - w.from)
              /\ w.from = IF off < size THEN off ELSE 0
  BY DEF window, Least

\* What a usable reader that looks elsewhere makes of the queue's variables.
LEMMA LooksTo ==
    ASSUME BInv, NEW r \in Readers, Looks(r), r.usable, Views = 2 \/ ~wr.usable,
           buf.lgap <= r.base, r.base + r.shifted + r.left <= buf.lgap + buf.datasiz
    PROVE  /\ BInv'
           /\ rd' = r /\ wr' = wr /\ buf' = buf
           /\ Content(buf)' = Content(buf)
           /\ Unread' = Piece(buf, r.base + r.shifted, r.left)
  <1>1. buf' = buf /\ wr' = wr /\ mem_total' = mem_total /\ rd' = r
    BY DEF Looks
  <1>2. Sound(buf, r, wr) /\ mem_total = memsiz(buf)
    BY DEF BInv, Sound
  <1>3. BInv'
    BY <1>1, <1>2 DEF BInv, Sound, memsiz
  <1>4. Unread' = Piece(buf, r.base + r.shifted, r.left)
    BY <1>1 DEF Unread, Piece
  <1> QED BY <1>1, <1>3, <1>4 DEF Content

LEMMA OpenReaderStep ==
    ASSUME BInv, NEW off \in Off, NEW k \in Num, lbuffer_reader(off, k)
    PROVE  Step
  <1> DEFINE w == window(buf.datasiz, off, k)
             from == w.from
             n == w.n
             r == [base |-> buf.lgap + from, shifted |-> 0, left |-> n, usable |-> TRUE]
  <1>1. /\ IsBuf(buf) /\ memsiz(buf) \in Nat /\ buf.lgap \in Nat /\ buf.datasiz \in Nat
        /\ buf.lgap + buf.datasiz <= memsiz(buf) /\ off \in Nat /\ k \in Nat
    BY MemIs, ArgumentAssumption DEF BInv, Sound
  <1>2. /\ from \in 0..buf.datasiz /\ n \in Nat /\ from + n <= buf.datasiz
        /\ n = Least(k, buf.datasiz - from)
        /\ from = IF off < buf.datasiz THEN off ELSE 0
    <2>1. buf.datasiz \in Nat /\ off \in Nat /\ k \in Nat
      BY <1>1
    <2> QED BY <2>1, WindowIs
  <1>3. Looks(r) /\ (Views = 2 \/ ~wr.usable)
    BY DEF lbuffer_reader
  <1> HIDE DEF w, from, n
  <1>4. /\ r \in Readers /\ r.usable /\ r.base = buf.lgap + from /\ r.shifted = 0 /\ r.left = n
        /\ r.base + r.shifted = buf.lgap + from
        /\ buf.lgap <= r.base /\ r.base + r.shifted + r.left <= buf.lgap + buf.datasiz
        /\ r.base + r.shifted - buf.lgap = from
    BY <1>1, <1>2 DEF Readers
  <1> HIDE DEF r
  <1>5. /\ BInv'
        /\ rd' = r /\ wr' = wr /\ buf' = buf
        /\ Content(buf)' = Content(buf)
        /\ Unread' = Piece(buf, r.base + r.shifted, r.left)
    BY <1>3, <1>4, LooksTo
  <1>6. Q!View(Content(buf), from, k) = Unread'
    <2>1. IsPiece(Content(buf), buf.mem, buf.lgap, buf.datasiz)
      BY <1>1, ContentIs DEF IsPiece
    <2> DEFINE place == buf.lgap + from
               q == Content(buf)
               p == buf.lgap
               m == buf.datasiz
    <2>2. place = p + from /\ IsPiece(q, buf.mem, p, m) /\ n = Least(k, m - from)
      BY <1>2, <2>1
    <2>3. p \in Nat /\ m \in Nat /\ p + m <= memsiz(buf) /\ from \in 0..m /\ k \in Nat
      BY <1>1, <1>2
    <2>4. Unread' = Piece(buf, place, n)
      BY <1>4, <1>5
    <2> HIDE DEF place, q, p, m
    <2>5. Q!View(q, from, k) = Piece(buf, place, n)
      BY <1>1, <2>2, <2>3, SubPiece
    <2> QED BY <2>4, <2>5 DEF q
  <1>7. Len(Content(buf)) = buf.datasiz
    BY <1>1, ContentIs
  <1>8. from = IF off < Len(Content(buf)) THEN off ELSE 0
    BY <1>2, <1>7
  <1>9. rd'.usable /\ rd'.shifted = 0 /\ rd'.base + rd'.shifted - buf'.lgap = from
    BY <1>4, <1>5
  <1>10. Q!OpenReader(off, k)
    BY <1>5, <1>6, <1>8, <1>9 DEF Q!OpenReader
  <1> QED BY <1>5, <1>10 DEF Step, Q!Next
LEMMA SubReaderStep ==
    ASSUME BInv, NEW off \in Off, NEW k \in Num, lreader_sub(off, k)
    PROVE  Step
  <1> DEFINE w == window(rd.left, off, k)
             from == w.from
             n == w.n
             p == rd.base + rd.shifted
             m == rd.left
             r == [base |-> p + from, shifted |-> 0, left |-> n, usable |-> TRUE]
  <1>1. /\ IsBuf(buf) /\ memsiz(buf) \in Nat /\ buf.lgap \in Nat /\ buf.datasiz \in Nat
        /\ buf.lgap + buf.datasiz <= memsiz(buf) /\ off \in Nat /\ k \in Nat
    BY MemIs, ArgumentAssumption DEF BInv, Sound
  <1>2. Looks(r) /\ rd.usable
    BY DEF lreader_sub
  <1>3. /\ p \in Nat /\ m \in Nat /\ p + m <= memsiz(buf) /\ IsPiece(Unread, buf.mem, p, m)
        /\ Unread = Piece(buf, p, m) /\ Q!Reading
    BY <1>2, ReaderIs
  <1>4. /\ from \in 0..m /\ n \in Nat /\ from + n <= m /\ n = Least(k, m - from)
        /\ from = IF off < m THEN off ELSE 0
    <2>1. rd.left \in Nat /\ off \in Nat /\ k \in Nat
      BY <1>1, ReaderIs
    <2> QED BY <2>1, WindowIs
  <1>5. /\ rd.base \in Nat /\ rd.shifted \in Nat /\ buf.lgap <= rd.base
        /\ p + m <= buf.lgap + buf.datasiz
        /\ rd.base + rd.shifted - buf.lgap = p - buf.lgap
        /\ (Views = 2 \/ ~wr.usable)
    <2>1. rd.base \in Nat /\ rd.shifted \in Nat
      BY ReaderIs
    <2>2. buf.lgap <= rd.base /\ rd.base + rd.shifted + rd.left <= buf.lgap + buf.datasiz
      BY <1>2 DEF BInv, Sound
    <2>3. Views = 2 \/ ~wr.usable
      BY <1>2 DEF BInv, Sound
    <2> QED BY <1>1, <2>1, <2>2, <2>3
  <1>p. p = rd.base + rd.shifted /\ m = rd.left
    OBVIOUS
  <1> HIDE DEF w, from, n, p, m
  <1>6. /\ r \in Readers /\ r.usable /\ r.base = p + from /\ r.shifted = 0 /\ r.left = n
        /\ r.base + r.shifted = p + from
        /\ buf.lgap <= r.base /\ r.base + r.shifted + r.left <= buf.lgap + buf.datasiz
        /\ r.base + r.shifted - buf.lgap = p - buf.lgap + from
    <2>1. r \in Readers /\ r.usable /\ r.base = p + from /\ r.shifted = 0 /\ r.left = n
      BY <1>3, <1>4 DEF Readers
    <2>2. buf.lgap <= p
      BY <1>1, <1>5, <1>p
    <2> HIDE DEF r
    <2> QED BY <1>1, <1>3, <1>4, <1>5, <2>1, <2>2
  <1> HIDE DEF r
  <1>7. /\ BInv'
        /\ rd' = r /\ wr' = wr /\ buf' = buf
        /\ Content(buf)' = Content(buf)
        /\ Unread' = Piece(buf, r.base + r.shifted, r.left)
    BY <1>2, <1>5, <1>6, LooksTo
  <1>8. Q!View(Unread, from, k) = Unread'
    <2> DEFINE place == p + from
               q == Unread
    <2>1. Unread' = Piece(buf, place, n)
      BY <1>6, <1>7
    <2>2. place = p + from /\ IsPiece(q, buf.mem, p, m) /\ n = Least(k, m - from)
      BY <1>3, <1>4
    <2>3. p \in Nat /\ m \in Nat /\ p + m <= memsiz(buf) /\ from \in 0..m /\ k \in Nat
      BY <1>1, <1>3, <1>4
    <2> HIDE DEF place, q
    <2>4. IsBuf(buf)
      BY <1>1
    <2>5. Q!View(q, from, k) = Piece(buf, place, n)
      BY <2>2, <2>3, <2>4, SubPiece
    <2> QED BY <2>1, <2>5 DEF q
  <1>9. from = IF off < Len(Unread) THEN off ELSE 0
    BY <1>3, <1>4 DEF IsPiece
  <1>10. rd'.usable /\ rd'.shifted = 0 /\ rd'.base + rd'.shifted - buf'.lgap = p - buf.lgap + from
    BY <1>6, <1>7
  <1>11. Q!SubReader(off, k)
    <2> DEFINE view == IF rd.usable THEN Unread ELSE <<>>
               there == IF rd.usable THEN rd.base + rd.shifted - buf.lgap ELSE -1
    <2>1. view = Unread /\ view' = Unread' /\ there = p - buf.lgap /\ there' = there + from
      BY <1>2, <1>5, <1>10
    <2>2. /\ Q!Reading /\ view' = Q!View(view, from, k) /\ rd'.shifted = 0
          /\ there' = there + from /\ from = IF off < Len(view) THEN off ELSE 0
          /\ buf' = buf /\ wr' = wr
      BY <1>3, <1>7, <1>8, <1>9, <1>10, <2>1
    <2>3. Content(buf)' = Content(buf) /\ buf'.be = buf.be
      BY <1>7
    <2> HIDE DEF view, there
    <2> QED BY <2>2, <2>3 DEF Q!SubReader, view, there
  <1> QED BY <1>7, <1>11 DEF Step, Q!Next

LEMMA ReaderShifted ==
    ASSUME BInv, NEW siz \in Nat
    PROVE  LET n == Least(siz, rd.left)
               r == reader_shift(siz)
           IN /\ n \in 0..rd.left
              /\ r = [base |-> rd.base, shifted |-> rd.shifted + n, left |-> rd.left - n,
                      usable |-> rd.usable]
  <1> DEFINE n == Least(siz, rd.left)
             x == rd.left - n
             y == rd.shifted + n
             r == reader_shift(siz)
  <1>1. rd.left \in Nat /\ n \in 0..rd.left
    BY ReaderIs DEF Least
  <1>2. r = [rd EXCEPT !.left = x, !.shifted = y]
    BY DEF reader_shift
  <1>3. rd \in Readers
    BY DEF BInv, Sound
  <1> HIDE DEF n, x, y, r
  <1>4. r = [base |-> rd.base, shifted |-> y, left |-> x, usable |-> rd.usable]
    BY <1>2, <1>3 DEF Readers
  <1> QED BY <1>1, <1>4 DEF n, x, y, r

LEMMA ReadsStep ==
    ASSUME BInv, NEW siz \in Nat, Reads(siz)
    PROVE  Step
  <1> DEFINE n == Least(siz, rd.left)
             p == rd.base + rd.shifted
             m == rd.left
             r == reader_shift(siz)
  <1>1. /\ IsBuf(buf) /\ memsiz(buf) \in Nat /\ buf.lgap \in Nat /\ buf.datasiz \in Nat
        /\ buf.lgap + buf.datasiz <= memsiz(buf)
    BY MemIs DEF BInv, Sound
  <1>2. Looks(r) /\ rd.usable
    BY DEF Reads
  <1>3. /\ p \in Nat /\ m \in Nat /\ p + m <= memsiz(buf) /\ IsPiece(Unread, buf.mem, p, m)
        /\ Unread = Piece(buf, p, m) /\ Q!Reading
    BY <1>2, ReaderIs
  <1>4. /\ n \in 0..m
        /\ r = [base |-> rd.base, shifted |-> rd.shifted + n, left |-> m - n,
                usable |-> rd.usable]
    BY ReaderShifted
  <1>5. /\ rd.base \in Nat /\ rd.shifted \in Nat /\ buf.lgap <= rd.base
        /\ p + m <= buf.lgap + buf.datasiz
        /\ rd.base + rd.shifted - buf.lgap = p - buf.lgap
        /\ (Views = 2 \/ ~wr.usable)
    <2>1. rd.base \in Nat /\ rd.shifted \in Nat
      BY ReaderIs
    <2>2. buf.lgap <= rd.base /\ rd.base + rd.shifted + rd.left <= buf.lgap + buf.datasiz
      BY <1>2 DEF BInv, Sound
    <2>3. Views = 2 \/ ~wr.usable
      BY <1>2 DEF BInv, Sound
    <2> QED BY <1>1, <2>1, <2>2, <2>3
  <1>p. p = rd.base + rd.shifted /\ m = rd.left
    OBVIOUS
  <1> HIDE DEF n, p, m, r
  <1>6. /\ r \in Readers /\ r.usable
        /\ r.base = rd.base /\ r.shifted = rd.shifted + n /\ r.left = m - n
        /\ r.base + r.shifted = p + n
        /\ buf.lgap <= r.base /\ r.base + r.shifted + r.left <= buf.lgap + buf.datasiz
        /\ r.base + r.shifted - buf.lgap = p - buf.lgap + n
    <2>1. /\ r \in Readers /\ r.usable
          /\ r.base = rd.base /\ r.shifted = rd.shifted + n /\ r.left = m - n
      BY <1>2, <1>3, <1>4, <1>5 DEF Readers
    <2> QED BY <1>1, <1>3, <1>4, <1>5, <1>p, <2>1
  <1>7. /\ BInv'
        /\ rd' = r /\ wr' = wr /\ buf' = buf
        /\ Content(buf)' = Content(buf)
        /\ Unread' = Piece(buf, r.base + r.shifted, r.left)
    BY <1>2, <1>5, <1>6, LooksTo
  <1>8. Drop(Unread, n) = Unread' /\ Len(Unread) = m
    <2> DEFINE place == p + n
               k == m - n
               q == Unread
    <2>1. place = p + n /\ k = Least(k, m - n) /\ k = m - n /\ k \in Nat /\ Unread' = Piece(buf, place, k)
      BY <1>3, <1>4, <1>6, <1>7 DEF Least
    <2> HIDE DEF place, k
    <2>2. IsPiece(q, buf.mem, p, m) /\ IsBuf(buf)
      BY <1>1, <1>3
    <2>3. p \in Nat /\ m \in Nat /\ p + m <= memsiz(buf) /\ n \in 0..m /\ k \in Nat
      BY <1>3, <1>4, <2>1
    <2> HIDE DEF q
    <2>4. Drop(q, n) = Piece(buf, place, k)
      BY <2>1, <2>2, <2>3, DropPiece
    <2> QED BY <1>3, <2>1, <2>4 DEF IsPiece, q
  <1>9. rd'.usable /\ rd'.shifted = rd.shifted + n /\ rd'.base + rd'.shifted - buf'.lgap = p - buf.lgap + n
    BY <1>6, <1>7
  <1>10. Q!Read(n) /\ n \in 0..Len(IF rd.usable THEN Unread ELSE <<>>)
    <2> DEFINE view == IF rd.usable THEN Unread ELSE <<>>
               there == IF rd.usable THEN rd.base + rd.shifted - buf.lgap ELSE -1
    <2>1. view = Unread /\ view' = Unread' /\ there = p - buf.lgap /\ there' = there + n
      BY <1>2, <1>5, <1>9
    <2>2. n \in 0..Len(view) /\ Q!Least(n, Len(view)) = n
      BY <1>3, <1>4, <1>8, <2>1, SameBytes DEF Least
    <2>3. view' = Q!Drop(view, n) /\ rd'.shifted = rd.shifted + n /\ there' = there + n
      BY <1>8, <1>9, <2>1, SameBytes
    <2>4. Content(buf)' = Content(buf) /\ buf'.be = buf.be /\ wr' = wr
      BY <1>7
    <2> HIDE DEF view, there
    <2>5. Q!Passes(n)
      BY <2>3 DEF Q!Passes, view, there
    <2>6. Q!Read(n)
      BY <1>3, <2>2, <2>4, <2>5 DEF Q!Read, view
    <2> QED BY <2>2, <2>6 DEF view
  <1> QED BY <1>7, <1>10 DEF Step, Q!Next
\* Only the end of a line is written over.
LEMMA AfterLine ==
    ASSUME NEW d, IsSeq(d)
    PROVE  /\ IsSeq(after_line(d)) /\ Len(after_line(d)) = Len(d)
           /\ \A i \in 1..Len(d) : i > NextLine(d).eaten => after_line(d)[i] = d[i]
  <1> DEFINE n == NextLine(d).eaten
             s == after_line(d)
             m == Len(d)
  <1>1. m \in Nat /\ DOMAIN d = 1..m /\ n \in 0..m
    BY SeqIs, EatenIs
  <1>2. s = [i \in 1..m |-> IF i = n \/ (i = n - 1 /\ d[i] = CR) THEN NUL ELSE d[i]]
    BY <1>1 DEF after_line
  <1> HIDE DEF n, s, m
  <1>3. s = [i \in 1..m |-> s[i]]
    BY <1>2
  <1>4. IsSeq(s) /\ Len(s) = m
    BY <1>1, <1>3, MakeSeq
  <1>5. ASSUME NEW i \in 1..m, i > n
        PROVE  s[i] = d[i]
    <2>1. i # n /\ i # n - 1
      BY <1>1, <1>5
    <2> QED BY <1>2, <2>1
  <1> QED BY <1>4, <1>5 DEF n, s, m

LEMMA ReadLineStep ==
    ASSUME BInv, lreader_getline
    PROVE  Step
  <1> DEFINE n == NextLine(Unread).eaten
             p == rd.base + rd.shifted
             m == rd.left
             s == after_line(Unread)
             at == p - buf.lgap
             c == written(buf, at, s)
             r == reader_shift(n)
  <1>1. /\ IsBuf(buf) /\ memsiz(buf) \in Nat /\ buf.lgap \in Nat /\ buf.datasiz \in Nat
        /\ buf.lgap + buf.datasiz <= memsiz(buf) /\ mem_total = memsiz(buf) /\ wr \in Writers
    BY MemIs DEF BInv, Sound
  <1>2. buf' = c /\ rd' = r /\ wr' = wr /\ mem_total' = mem_total /\ rd.usable
    BY DEF lreader_getline
  <1>3. /\ p \in Nat /\ m \in Nat /\ p + m <= memsiz(buf) /\ IsPiece(Unread, buf.mem, p, m)
        /\ Q!Reading
    BY <1>2, ReaderIs
  <1>4. IsSeq(Unread) /\ Len(Unread) = m
    BY <1>3 DEF IsPiece
  <1>5. n \in 0..m /\ n \in Nat
    BY <1>3, <1>4, EatenIs
  <1>6. IsSeq(s) /\ Len(s) = m /\ \A i \in 1..m : i > n => s[i] = Unread[i]
    BY <1>4, AfterLine
  <1>7. IsWritten(c, buf, at, s)
    BY <1>1, Written
  <1>8. r = [base |-> rd.base, shifted |-> rd.shifted + n, left |-> m - n, usable |-> rd.usable]
    <2>1. Least(n, rd.left) = n
      <3>1. n \in Nat /\ rd.left \in Nat /\ n <= rd.left
        BY <1>3, <1>5
      <3> HIDE DEF n
      <3> QED BY <3>1 DEF Least
    <2>2. r = [base |-> rd.base, shifted |-> rd.shifted + Least(n, rd.left),
               left |-> rd.left - Least(n, rd.left), usable |-> rd.usable]
      <3> HIDE DEF n
      <3> QED BY <1>5, ReaderShifted
    <2> QED BY <2>1, <2>2
  <1>9. /\ rd.base \in Nat /\ rd.shifted \in Nat /\ buf.lgap <= rd.base
        /\ p + m <= buf.lgap + buf.datasiz /\ buf.lgap <= p /\ at \in Nat
        /\ rd.base + rd.shifted - buf.lgap = at
        /\ (Views = 2 \/ ~wr.usable)
    <2>1. rd.base \in Nat /\ rd.shifted \in Nat
      BY ReaderIs
    <2>2. buf.lgap <= rd.base /\ rd.base + rd.shifted + rd.left <= buf.lgap + buf.datasiz
      BY <1>2 DEF BInv, Sound
    <2>3. Views = 2 \/ ~wr.usable
      BY <1>2 DEF BInv, Sound
    <2> QED BY <1>1, <2>1, <2>2, <2>3
  <1>p. p = rd.base + rd.shifted /\ m = rd.left /\ at = p - buf.lgap
    OBVIOUS
  <1>u. Unread' = Piece(c, r.base + r.shifted, r.left)
    BY <1>2 DEF Unread, Piece
  <1>q. s = after_line(Unread) /\ n = NextLine(Unread).eaten
    OBVIOUS
  <1> HIDE DEF c, n, p, m, s, at, r
  <1>10. /\ IsBuf(c) /\ memsiz(c) = memsiz(buf)
         /\ c.lgap = buf.lgap /\ c.datasiz = buf.datasiz /\ c.be = buf.be
    BY <1>7 DEF IsWritten
  <1>11. /\ r \in Readers /\ r.usable
         /\ r.base = rd.base /\ r.shifted = rd.shifted + n /\ r.left = m - n
         /\ r.base + r.shifted = p + n
         /\ c.lgap <= r.base /\ r.base + r.shifted + r.left <= c.lgap + c.datasiz
         /\ r.base + r.shifted - c.lgap = at + n
    <2>1. /\ r \in Readers /\ r.usable
          /\ r.base = rd.base /\ r.shifted = rd.shifted + n /\ r.left = m - n
      BY <1>2, <1>3, <1>5, <1>8, <1>9 DEF Readers
    <2> QED BY <1>1, <1>3, <1>5, <1>9, <1>10, <1>p, <2>1
  <1>12. BInv'
    <2>1. wr.usable => wr.cursor <= wr.length /\ wr.offset + wr.length <= c.datasiz
      BY <1>10 DEF BInv, Sound
    <2>2. Sound(c, r, wr)
      BY <1>1, <1>9, <1>10, <1>11, <2>1 DEF Sound
    <2> QED BY <1>1, <1>2, <1>10, <2>2 DEF BInv, Sound, memsiz
  <1>13. Content(buf)' = Q!over(Content(buf), at, s)
    <2>1. Content(c) = Q!over(Content(buf), at, s)
      <3>1. at \in Int /\ Len(s) \in Nat
        BY <1>3, <1>6, <1>9
      <3> QED BY <1>1, <1>7, <3>1, ContentOver
    <2>2. Content(buf)' = Content(c)
      BY <1>2 DEF Content
    <2> QED BY <2>1, <2>2
  <1>14. Unread' = Drop(Unread, n)
    <2> DEFINE d == Drop(Unread, n)
               e == Piece(c, p + n, m - n)
               k == m - n
    <2>1. Unread' = e
      BY <1>11, <1>u
    <2>2. k \in Nat /\ k = Len(Unread) - n /\ n \in 0..Len(Unread)
      BY <1>3, <1>4, <1>5
    <2>3. IsSeq(d) /\ Len(d) = k /\ \A i \in 1..k : d[i] = Unread[n + i]
      BY <1>4, <2>2, DropIs DEF IsPiece
    <2>4. IsSeq(e) /\ Len(e) = k /\ \A i \in 1..k : e[i] = c.mem[p + n + i]
      <3> DEFINE place == p + n
      <3>1. place \in Nat /\ place + k <= memsiz(c)
        BY <1>3, <1>5, <1>10
      <3> HIDE DEF place, k
      <3>2. IsPiece(Piece(c, place, k), c.mem, place, k)
        BY <1>10, <2>2, <3>1, PieceIs
      <3> QED BY <3>2 DEF IsPiece, place, k
    <2> HIDE DEF d, e
    <2>5. ASSUME NEW i \in 1..k
          PROVE  e[i] = d[i]
      <3> DEFINE j == p + n + i
      <3>1. /\ n + i \in 1..m /\ n + i > n /\ j \in 1..memsiz(buf)
            /\ buf.lgap + at < j /\ j <= buf.lgap + at + m /\ j - buf.lgap - at = n + i
        BY <1>1, <1>3, <1>5, <1>9, <1>p
      <3>2. e[i] = c.mem[j]
        BY <2>4
      <3> HIDE DEF j
      <3>3. c.mem[j] = s[j - buf.lgap - at]
        BY <1>6, <1>7, <3>1 DEF IsWritten
      <3>4. s[n + i] = Unread[n + i]
        BY <1>6, <3>1
      <3> QED BY <2>3, <3>1, <3>2, <3>3, <3>4
    <2> HIDE DEF k
    <2>6. e = d
      BY <2>2, <2>3, <2>4, <2>5, SameSeq
    <2> QED BY <2>1, <2>6 DEF d
  <1>15. Q!ReadLine
    <2> DEFINE view == IF rd.usable THEN Unread ELSE <<>>
               there == IF rd.usable THEN rd.base + rd.shifted - buf.lgap ELSE -1
    <2>1. rd'.usable /\ rd'.shifted = rd.shifted + n /\ rd'.base + rd'.shifted - buf'.lgap = at + n
      BY <1>2, <1>11
    <2>2. view = Unread /\ view' = Unread' /\ there = at /\ there' = at + n
      BY <1>2, <1>9, <2>1
    <2>3. n = Q!NextLine(view).eaten /\ s = Q!after_line(view)
      BY <1>q, <2>2, SameBytes
    <2>4. view' = Q!Drop(view, n) /\ rd'.shifted = rd.shifted + n /\ there' = there + n
      BY <1>14, <2>1, <2>2, SameBytes
    <2>5. Content(buf)' = Q!over(Content(buf), there, s) /\ buf'.be = buf.be /\ wr' = wr
      BY <1>2, <1>10, <1>13, <2>2
    <2> HIDE DEF view, there
    <2>6. Q!Passes(n)
      BY <2>4 DEF Q!Passes, view, there
    <2> QED BY <1>3, <2>3, <2>5, <2>6 DEF Q!ReadLine, view, there
  <1> QED BY <1>12, <1>15 DEF Step, Q!Next

LEMMA ReaderStep ==
    ASSUME BInv, ReaderNext
    PROVE  Step
  <1>1. Num \subseteq Nat /\ Widths \subseteq {1, 2, 4}
    BY ArgumentAssumption
  <1>2. ASSUME rd.usable
        PROVE  IsSeq(Unread)
    BY <1>2, ReaderIs DEF IsPiece
  <1>3. ASSUME NEW n \in Num, NEW w \in Widths, lreader_get(n, w)
        PROVE  Step
    <2>1. Reads(total(same_width(Unread, n, w))) /\ rd.usable
      BY <1>3 DEF lreader_get, Reads
    <2>2. total(same_width(Unread, n, w)) \in Nat
      BY <1>1, <1>2, <2>1, SameWidths
    <2> QED BY <2>1, <2>2, ReadsStep
  <1>4. ASSUME NEW types \in Types, lreader_getlist(types)
        PROVE  Step
    <2> DEFINE widths == list_widths(types, Unread)
    <2>1. Reads(total(widths)) /\ rd.usable
      BY <1>4 DEF lreader_getlist, Reads
    <2>2. Len(widths) \in Nat /\ widths \in [1..Len(widths) -> Nat]
      BY <1>2, <2>1, TypesAre, ListWidths
    <2> HIDE DEF widths
    <2>3. total(widths) \in Nat
      BY <2>2, Total
    <2> QED BY <2>1, <2>3, ReadsStep
  <1>5. ASSUME NEW n \in Num, lreader_getlstr(n) \/ lreader_skip(n)
        PROVE  Step
    BY <1>1, <1>5, ReadsStep DEF lreader_getlstr, lreader_skip
  <1> QED BY <1>3, <1>4, <1>5, OpenReaderStep, SubReaderStep, ReadLineStep DEF ReaderNext
LEMMA OpenWriterStep ==
    ASSUME BInv, NEW n \in Num, lbuffer_writer(n)
    PROVE  Step
  <1> DEFINE c == grow(buf, n)
             w == [offset |-> buf.datasiz, length |-> n, cursor |-> 0, usable |-> TRUE]
  <1>1. /\ buf' = c /\ mem_total' = mem_total - memsiz(buf) + memsiz(c)
        /\ rd' = stale /\ wr' = w /\ Affordable(buf, n) /\ n \in Nat
    BY ArgumentAssumption DEF lbuffer_writer, set_buffer
  <1>2. IsBuf(buf) /\ rd \in Readers /\ mem_total = memsiz(buf)
    BY DEF BInv, Sound
  <1>3. IsBuf(c) /\ c.datasiz = buf.datasiz + n /\ Extends(c, buf)
    BY <1>1, <1>2, Grown
  <1> HIDE DEF c
  <1>4. memsiz(buf) \in Nat /\ memsiz(c) \in Nat /\ buf.datasiz \in Nat /\ c.be = buf.be
    BY <1>2, <1>3, MemIs DEF Extends
  <1>5. /\ w \in Writers /\ w.offset = buf.datasiz /\ w.length = n /\ w.cursor = 0 /\ w.usable
        /\ w.offset + w.cursor = buf.datasiz /\ w.length - w.cursor = n
    BY <1>1, <1>4 DEF Writers
  <1> HIDE DEF w
  <1>6. stale \in Readers /\ ~stale.usable /\ stale.shifted = rd.shifted
    BY <1>2, ViewsAre
  <1>7. BInv'
    <2>1. w.cursor <= w.length /\ w.offset + w.length <= c.datasiz
      BY <1>1, <1>3, <1>4, <1>5
    <2>2. Sound(c, stale, w)
      BY <1>3, <1>5, <1>6, <2>1 DEF Sound
    <2>3. mem_total' = memsiz(c)
      BY <1>1, <1>2, <1>4
    <2> QED BY <1>1, <2>2, <2>3 DEF BInv, Sound, memsiz
  <1>8. Q!OpenWriter(n)
    <2>1. Take(Content(c), Len(Content(buf))) = Content(buf)
      BY <1>2, <1>3, ContentPut
    <2>2. Len(Content(c)) = Len(Content(buf)) + n /\ Len(Content(buf)) = buf.datasiz
      BY <1>2, <1>3, ContentIs
    <2>3. Content(buf)' = Content(c)
      BY <1>1 DEF Content
    <2>4. ~rd'.usable /\ rd'.shifted = rd.shifted /\ buf'.be = buf.be
      BY <1>1, <1>4, <1>6
    <2>5. wr'.usable /\ wr'.offset + wr'.cursor = Len(Content(buf)) /\ wr'.length - wr'.cursor = n
      BY <1>1, <1>5, <2>2
    <2> QED BY <2>1, <2>2, <2>3, <2>4, <2>5, SameBytes DEF Q!OpenWriter
  <1> QED BY <1>7, <1>8 DEF Step, Q!Next

\* What is written stays in the room it was kept free for.
LEMMA ContentFilled ==
    ASSUME NEW b, IsBuf(b), NEW c, NEW at \in Nat, NEW s, Len(s) \in Nat, IsWritten(c, b, at, s),
           NEW room \in Nat, Len(s) <= room, at + room <= b.datasiz,
           NEW end, end = at + room
    PROVE  Content(c) = Q!over(Content(b), at, SubSeq(Content(c), at + 1, end))
  <1> DEFINE q == Content(b)
             r == Content(c)
             m == b.datasiz
             i0 == at + 1
             t == SubSeq(r, i0, end)
             o == Q!over(q, at, t)
  <1>1. /\ memsiz(b) \in Nat /\ b.lgap \in Nat /\ m \in Nat /\ b.lgap + m <= memsiz(b)
    BY MemIs
  <1>2. IsBuf(c) /\ c.lgap = b.lgap /\ c.datasiz = b.datasiz
    BY DEF IsWritten
  <1>3. /\ IsSeq(q) /\ Len(q) = m /\ \A i \in 1..m : q[i] = b.mem[b.lgap + i]
        /\ IsSeq(r) /\ Len(r) = m /\ \A i \in 1..m : r[i] = c.mem[b.lgap + i]
    BY <1>2, ContentIs
  <1> HIDE DEF q, r
  <1>4. IsSeq(t) /\ Len(t) = room /\ \A i \in 1..room : t[i] = r[at + i]
    <2>1. /\ i0 \in Nat \ {0} /\ end \in Nat /\ i0 <= end + 1 /\ end <= Len(r)
          /\ end + 1 - i0 = room /\ \A i \in 1..room : i0 + i - 1 = at + i
      BY <1>1, <1>3
    <2> HIDE DEF i0
    <2>2. IsSeq(r)
      BY <1>3
    <2>3. IsSeq(t) /\ Len(t) = end + 1 - i0 /\ \A i \in 1..(end + 1 - i0) : t[i] = r[i0 + i - 1]
      BY <2>1, <2>2, SubSeqIs
    <2> HIDE DEF t
    <2> QED BY <2>1, <2>3
  <1>t. t = SubSeq(r, at + 1, end)
    OBVIOUS
  <1> HIDE DEF t, m
  <1>5. /\ IsSeq(o) /\ Len(o) = m
        /\ \A i \in 1..m : o[i] = IF at < i /\ i <= at + room THEN t[i - at] ELSE q[i]
    <2>1. at \in Int
      OBVIOUS
    <2>2. IsOver(Q!over(q, at, t), q, at, t)
      BY <1>3, <2>1, OverIs
    <2> QED BY <1>3, <1>4, <2>2 DEF IsOver
  <1> HIDE DEF o
  <1>6. ASSUME NEW i \in 1..m
        PROVE  r[i] = o[i]
    <2>1. CASE at < i /\ i <= at + room
      <3>1. i - at \in 1..room /\ at + (i - at) = i
        BY <1>1, <2>1
      <3>2. t[i - at] = r[at + (i - at)]
        BY <1>4, <3>1
      <3> QED BY <1>5, <2>1, <3>1, <3>2
    <2>2. CASE ~(at < i /\ i <= at + room)
      <3> DEFINE j == b.lgap + i
      <3>1. j \in 1..memsiz(b) /\ ~(b.lgap + at < j /\ j <= b.lgap + at + Len(s))
        <4>1. j \in 1..memsiz(b)
          BY <1>1
        <4>2. b.lgap + at < j => at < i
          BY <1>1
        <4>3. j <= b.lgap + at + Len(s) => i <= at + room
          BY <1>1
        <4> HIDE DEF j
        <4> QED BY <2>2, <4>1, <4>2, <4>3
      <3>2. r[i] = c.mem[j] /\ q[i] = b.mem[j]
        BY <1>3
      <3> HIDE DEF j
      <3>3. c.mem[j] = b.mem[j]
        BY <3>1 DEF IsWritten
      <3> QED BY <1>5, <2>2, <3>2, <3>3
    <2> QED BY <2>1, <2>2
  <1>7. r = o
    BY <1>3, <1>5, <1>6, SameSeq
  <1> QED BY <1>7, <1>t DEF r, o, q

\* A writer writes s where it is, and moves on by k bytes.
LEMMA WritesStep ==
    ASSUME BInv, wr.usable, NEW s, Len(s) \in Nat, Len(s) <= wr.length - wr.cursor,
           NEW k \in Nat, k <= wr.length - wr.cursor,
           buf' = written(buf, wr.offset + wr.cursor, s),
           wr' = [offset |-> wr.offset, length |-> wr.length, cursor |-> wr.cursor + k,
                  usable |-> wr.usable],
           rd' = rd, mem_total' = mem_total
    PROVE  Step
  <1> DEFINE at == wr.offset + wr.cursor
             room == wr.length - wr.cursor
             c == written(buf, at, s)
             w == [offset |-> wr.offset, length |-> wr.length, cursor |-> wr.cursor + k,
                   usable |-> wr.usable]
  <1>1. /\ IsBuf(buf) /\ buf.datasiz \in Nat /\ mem_total = memsiz(buf) /\ rd \in Readers
        /\ wr.offset \in Nat /\ wr.length \in Nat /\ wr.cursor \in Nat
        /\ wr.cursor <= wr.length /\ wr.offset + wr.length <= buf.datasiz
    BY MemIs DEF BInv, Sound, Writers
  <1>2. at \in Nat /\ room \in Nat /\ Len(s) <= room /\ at + room <= buf.datasiz /\ k \in 0..room
    <2>1. at \in Nat /\ room \in Nat
      BY <1>1
    <2>2. at + room <= buf.datasiz
      BY <1>1
    <2> HIDE DEF at
    <2>3. Len(s) <= room /\ k <= room
      OBVIOUS
    <2> HIDE DEF room
    <2> QED BY <2>1, <2>2, <2>3
  <1>3. IsWritten(c, buf, at, s)
    BY <1>1, Written
  <1>4. buf' = c /\ wr' = w
    OBVIOUS
  <1> HIDE DEF c
  <1>5. /\ IsBuf(c) /\ memsiz(c) = memsiz(buf)
        /\ c.lgap = buf.lgap /\ c.datasiz = buf.datasiz /\ c.be = buf.be
    BY <1>3 DEF IsWritten
  <1>6. /\ w \in Writers /\ w.usable /\ w.offset = wr.offset /\ w.length = wr.length
        /\ w.cursor = wr.cursor + k
    BY <1>1 DEF Writers
  <1> HIDE DEF w
  <1>7. /\ w.cursor <= w.length /\ w.offset + w.length <= c.datasiz
        /\ w.offset + w.cursor = at + k /\ w.length - w.cursor = room - k
    <2>1. w.cursor <= w.length
      BY <1>1, <1>6
    <2>2. w.offset + w.length <= c.datasiz
      BY <1>1, <1>5, <1>6
    <2>3. w.offset + w.cursor = at + k
      BY <1>1, <1>6
    <2>4. w.length - w.cursor = room - k
      BY <1>1, <1>6
    <2> QED BY <2>1, <2>2, <2>3, <2>4
  <1>8. BInv'
    <2>1. Sound(c, rd, w)
      <3>1. rd.usable => /\ c.lgap <= rd.base
                         /\ rd.base + rd.shifted + rd.left <= c.lgap + c.datasiz
        BY <1>5 DEF BInv, Sound
      <3>2. Views # 2 => ~(rd.usable /\ w.usable)
        BY DEF BInv, Sound
      <3> QED BY <1>1, <1>5, <1>6, <1>7, <3>1, <3>2 DEF Sound
    <2> QED BY <1>1, <1>4, <1>5, <2>1 DEF BInv, Sound, memsiz
  <1>9. ASSUME Views # 2
        PROVE  Q!Fill
    <2>1. ~rd.usable /\ ~rd'.usable
      BY <1>9 DEF BInv, Sound
    <2>2. Content(buf)' = Q!over(Content(buf), at, SubSeq(Content(buf)', at + 1, at + room))
      <3> DEFINE end == at + room
      <3>1. end = at + room
        OBVIOUS
      <3>2. Content(buf)' = Content(c)
        BY <1>4 DEF Content
      <3> HIDE DEF end, at, room
      <3>3. Content(c) = Q!over(Content(buf), at, SubSeq(Content(c), at + 1, end))
        BY <1>1, <1>2, <1>3, <3>1, ContentFilled
      <3> QED BY <3>1, <3>2, <3>3
    <2> DEFINE hole == IF wr.usable THEN wr.offset + wr.cursor ELSE -1
               free == IF wr.usable THEN wr.length - wr.cursor ELSE 0
               view == IF rd.usable THEN Unread ELSE <<>>
               there == IF rd.usable THEN rd.base + rd.shifted - buf.lgap ELSE -1
    <2>3. hole = at /\ free = room /\ hole' = at + k /\ free' = room - k
      BY <1>4, <1>6, <1>7
    <2>4. view' = view /\ there' = there /\ rd'.shifted = rd.shifted /\ buf'.be = buf.be
      BY <1>4, <1>5, <2>1
    <2>5. hole >= 0
      BY <1>2, <2>3
    <2> HIDE DEF at, room, hole, free, view, there
    <2> QED BY <1>2, <2>2, <2>3, <2>4, <2>5 DEF Q!Fill, hole, free, view, there
  <1> QED BY <1>8, <1>9 DEF Step, Q!Next
LEMMA StutterStep ==
    ASSUME BInv, UNCHANGED vars
    PROVE  Step
  <1>1. buf' = buf /\ rd' = rd /\ wr' = wr /\ mem_total' = mem_total
    BY DEF vars
  <1>2. BInv'
    BY <1>1 DEF BInv, Sound, memsiz
  <1>3. UNCHANGED Q!vars
    BY <1>1 DEF Q!vars, Content, Unread
  <1> QED BY <1>2, <1>3 DEF Step

\* Fills(s) when s fits into the writer's room.
LEMMA FillsStep ==
    ASSUME BInv, wr.usable, NEW s, Len(s) \in Nat, Len(s) <= wr.length - wr.cursor, Fills(s)
    PROVE  Step
  <1> DEFINE k == Len(s)
             x == wr.cursor + k
             w == [wr EXCEPT !.cursor = x]
  <1>1. wr' = w /\ wr \in Writers
    BY DEF Fills, BInv, Sound
  <1>w. w = [wr EXCEPT !.cursor = x]
    OBVIOUS
  <1> HIDE DEF w, x
  <1>2. w = [offset |-> wr.offset, length |-> wr.length, cursor |-> x, usable |-> wr.usable]
    BY <1>1, <1>w DEF Writers
  <1>3. buf' = written(buf, wr.offset + wr.cursor, s) /\ rd' = rd /\ mem_total' = mem_total
    BY DEF Fills
  <1>4. wr' = [offset |-> wr.offset, length |-> wr.length, cursor |-> wr.cursor + k,
               usable |-> wr.usable]
    BY <1>1, <1>2 DEF x
  <1>5. k \in Nat /\ k <= wr.length - wr.cursor
    OBVIOUS
  <1> HIDE DEF k
  <1> QED BY <1>3, <1>4, <1>5, WritesStep

LEMMA PutstrFills ==
    ASSUME BInv, NEW strs, IsPieces(strs), lwriter_putstr(strs)
    PROVE  Step
  <1> DEFINE room == wr.length - wr.cursor
             s == fitting(strs, room)
  <1>1. wr.usable /\ Fills(s)
    BY DEF lwriter_putstr
  <1>2. room \in Nat
    BY <1>1 DEF BInv, Sound, Writers
  <1> HIDE DEF room
  <1>3. Len(s) \in Nat /\ Len(s) <= room
    BY <1>2, Fitting
  <1> HIDE DEF s
  <1> QED BY <1>1, <1>3, FillsStep DEF room

\* putw and putu, which go wrong.
LEMMA PutStrays ==
    ASSUME BInv, NEW num \in Num, NEW w \in Widths \ {1}, lwriter_put(num, w)
    PROVE  Step
  <1> DEFINE room == wr.length - wr.cursor
             n == Least(num, room \div w)
             s == [i \in 1..w |-> Junk]
             garbage == written(buf, wr.offset + wr.cursor, s)
  <1>1. /\ wr.usable /\ rd' = rd /\ mem_total' = mem_total
        /\ \/ n > 0 /\ UNCHANGED <<buf, wr>>
           \/ n > 1 /\ buf' = garbage /\ UNCHANGED wr
           \/ n = 1 /\ buf' = garbage /\ wr' = [wr EXCEPT !.cursor = @ + 2]
           \/ n = 0 /\ UNCHANGED <<buf, wr>>
    BY DEF lwriter_put
  <1>2. w \in {2, 4} /\ num \in Nat
    BY ArgumentAssumption
  <1>3. wr \in Writers /\ wr.cursor <= wr.length
    BY <1>1 DEF BInv, Sound
  <1>4. room \in Nat
    BY <1>3 DEF Writers
  <1>5. Len(s) = w
    <2>1. s = [i \in 1..w |-> s[i]] /\ w \in Nat
      BY <1>2
    <2> HIDE DEF s
    <2> QED BY <2>1, MakeSeq
  <1>6. n > 0 => w <= room
    <2>1. n > 0 => room \div w > 0
      BY <1>2, <1>4 DEF Least
    <2>2. w = 2 => (room \div 2 > 0 => 2 <= room)
      BY <1>4
    <2>3. w = 4 => (room \div 4 > 0 => 4 <= room)
      BY <1>4
    <2> QED BY <1>2, <2>1, <2>2, <2>3
  <1>7. n > 1 => n > 0
    BY <1>2, <1>4 DEF Least
  <1>8. wr = [offset |-> wr.offset, length |-> wr.length, cursor |-> wr.cursor + 0,
              usable |-> wr.usable]
    BY <1>3 DEF Writers
  <1>9. [wr EXCEPT !.cursor = @ + 2]
            = [offset |-> wr.offset, length |-> wr.length, cursor |-> wr.cursor + 2,
               usable |-> wr.usable]
    <2> DEFINE x == wr.cursor + 2
               v == [wr EXCEPT !.cursor = x]
    <2>1. v = [wr EXCEPT !.cursor = x]
      OBVIOUS
    <2> HIDE DEF x, v
    <2>2. v = [offset |-> wr.offset, length |-> wr.length, cursor |-> x, usable |-> wr.usable]
      BY <1>3, <2>1 DEF Writers
    <2> QED BY <2>2 DEF v, x
  <1> HIDE DEF n, s
  <1>10. CASE UNCHANGED <<buf, wr>>
    BY <1>1, <1>10, StutterStep DEF vars
  <1>11. CASE n > 1 /\ buf' = garbage /\ UNCHANGED wr
    <2>1. Len(s) \in Nat /\ Len(s) <= wr.length - wr.cursor
      BY <1>2, <1>5, <1>6, <1>7, <1>11
    <2>2. 0 \in Nat /\ 0 <= wr.length - wr.cursor
      BY <1>4
    <2>3. wr' = [offset |-> wr.offset, length |-> wr.length, cursor |-> wr.cursor + 0,
                 usable |-> wr.usable]
      BY <1>8, <1>11
    <2>4. buf' = written(buf, wr.offset + wr.cursor, s)
      BY <1>11
    <2> QED BY <1>1, <2>1, <2>2, <2>3, <2>4, WritesStep
  <1>12. CASE n = 1 /\ buf' = garbage /\ wr' = [wr EXCEPT !.cursor = @ + 2]
    <2>1. Len(s) \in Nat /\ Len(s) <= wr.length - wr.cursor /\ 2 <= wr.length - wr.cursor
      BY <1>2, <1>4, <1>5, <1>6, <1>12
    <2>2. 2 \in Nat
      OBVIOUS
    <2>3. wr' = [offset |-> wr.offset, length |-> wr.length, cursor |-> wr.cursor + 2,
                 usable |-> wr.usable]
      BY <1>9, <1>12
    <2>4. buf' = written(buf, wr.offset + wr.cursor, s)
      BY <1>12
    <2> QED BY <1>1, <2>1, <2>2, <2>3, <2>4, WritesStep
  <1> QED BY <1>1, <1>10, <1>11, <1>12

LEMMA WriterStep ==
    ASSUME BInv, WriterNext
    PROVE  Step
  <1>1. ASSUME NEW vals \in Vals, lwriter_putc(vals)
        PROVE  Step
    <2> DEFINE n == Least(Len(vals), wr.length - wr.cursor)
               s == [i \in 1..n |-> vals[i] % 256]
    <2>1. wr.usable /\ Fills(s)
      BY <1>1 DEF lwriter_putc
    <2>2. wr.length - wr.cursor \in Nat /\ Len(vals) \in Nat
      BY <2>1, ValsAre DEF BInv, Sound, Writers
    <2>3. n \in Nat /\ n <= wr.length - wr.cursor
      BY <2>2 DEF Least
    <2>4. s = [i \in 1..n |-> s[i]]
      OBVIOUS
    <2> HIDE DEF n, s
    <2>5. Len(s) = n
      BY <2>3, <2>4, MakeSeq
    <2> QED BY <2>1, <2>3, <2>5, FillsStep
  <1>2. ASSUME NEW strs \in Strs, lwriter_putstr(strs)
        PROVE  Step
    BY <1>2, StrsAre, PutstrFills
  <1>3. ASSUME NEW types \in Types, NEW vals \in ValsFor(types), lwriter_putlist(types, vals)
        PROVE  Step
    <2> DEFINE width(i) == IF types[i] = "b" THEN 0 ELSE Width(types[i])
               pieces == [i \in DOMAIN types |->
                             to_bytes(vals[i], IF types[i] = "b" THEN 0 ELSE Width(types[i]), buf.be)]
    <2>1. Len(types) \in Nat /\ DOMAIN types = 1..Len(types)
      BY TypesAre
    <2>2. DOMAIN pieces = 1..Len(types) /\ pieces = [i \in 1..Len(types) |-> pieces[i]]
      BY <2>1
    <2>3. \A i \in 1..Len(types) : pieces[i] = to_bytes(vals[i], width(i), buf.be)
      BY <2>1
    <2>4. \A i \in 1..Len(types) : width(i) \in Nat
      BY WidthIs
    <2>5. lwriter_putstr(pieces)
      BY <1>3 DEF lwriter_putlist
    <2> HIDE DEF pieces, width
    <2>6. IsPieces(pieces)
      BY <2>1, <2>2, <2>3, <2>4, BytesOfAre
    <2> QED BY <2>5, <2>6, PutstrFills
  <1> QED BY <1>1, <1>2, <1>3, OpenWriterStep, PutStrays DEF WriterNext

---------------------------------------------------------------------------
(* The theorems *)

LEMMA BInit ==
    ASSUME Init
    PROVE  BInv /\ Q!Init
  <1>1. buf = Fresh /\ rd = NoReader /\ wr = NoWriter /\ mem_total = 0
    BY DEF Init
  <1>2. IsBuf(Fresh) /\ Fresh.be = TRUE /\ Fresh.datasiz = 0 /\ memsiz(Fresh) = 0
    <2>1. Fresh.mem = <<>> /\ Fresh.be = TRUE /\ Fresh.datasiz = 0
      BY DEF Fresh
    <2> QED BY <2>1, FreshIs, EmptySeq DEF memsiz
  <1>3. /\ NoReader \in Readers /\ ~NoReader.usable /\ NoReader.shifted = 0
        /\ NoWriter \in Writers /\ ~NoWriter.usable
    BY ViewsAre
  <1>4. BInv
    BY <1>1, <1>2, <1>3 DEF BInv, Sound
  <1>5. Content(Fresh) = <<>>
    <2>1. IsSeq(Content(Fresh)) /\ Len(Content(Fresh)) = 0
      BY <1>2, ContentIs
    <2>2. Content(Fresh) \in Seq(Elements(Content(Fresh)))
      BY <2>1, SeqIs
    <2> QED BY <2>1, <2>2, EmptySeq
  <1>6. Q!Init
    BY <1>1, <1>2, <1>3, <1>5 DEF Q!Init
  <1> QED BY <1>4, <1>6

LEMMA BStep ==
    ASSUME BInv, [Next]_vars
    PROVE  Step
  <1>1. IsBuf(buf) /\ rd.shifted \in Nat
    BY ReaderIs DEF BInv, Sound
  <1>2. ASSUME PutNext
        PROVE  Step
    BY <1>1, <1>2, PutStep, PutsStep
  <1>3. ASSUME GetNext
        PROVE  Step
    BY <1>1, <1>3, GetStep, RemovesStep
  <1> QED BY <1>2, <1>3, OverwriteStep, ReaderStep, WriterStep, StutterStep DEF Next

\* The data lies in the block, a reader that may be read in the data, and so
\* does the room of a writer, and stdmem() counts the block: for whatever the
\* buffer, its readers and its writers are asked, in any order.
THEOREM BufferSafe == Spec => []BufTypeOK
  <1>1. Init => BInv
    BY BInit
  <1>2. BInv /\ [Next]_vars => BInv'
    BY BStep DEF Step
  <1>3. BInv => BufTypeOK
    BY MemIs DEF BInv, Sound, BufTypeOK
  <1> QED BY <1>1, <1>2, <1>3, PTL DEF Spec

\* The buffer is a queue of bytes, as long as no writer changes what a reader
\* has yet to read: then every operation, with the moves of the data within
\* its block and to another, is one of the queue or changes nothing in it.
THEOREM BufferIsByteQueue == Views # 2 => (Spec => IsByteQueue)
  <1> SUFFICES ASSUME Views # 2
               PROVE  Spec => IsByteQueue
    OBVIOUS
  <1>1. Init => BInv /\ Q!Init
    BY BInit
  <1>2. BInv /\ [Next]_vars => BInv' /\ [Q!Next]_(Q!vars)
    BY BStep DEF Step
  <1> QED BY <1>1, <1>2, PTL DEF Spec, IsByteQueue, Q!Spec
=============================================================================
