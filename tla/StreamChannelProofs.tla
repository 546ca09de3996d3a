------------------------ MODULE StreamChannelProofs ------------------------
(***************************************************************************)
(* Proofs about StreamChannel for any number of tasks, any sizes of the    *)
(* buffers and of the reads and writes, any time-outs and any set of line  *)
(* ends, as long as nobody uses kill_task or reap_task.                    *)
(***************************************************************************)
EXTENDS StreamChannel, TaskletProofs

---------------------------------------------------------------------------
(* Numbers and sequences *)

LEMMA MinOfTwo ==
    ASSUME NEW a \in Int, NEW b \in Int
    PROVE  /\ Min({a, b}) \in {a, b}
           /\ Min({a, b}) <= a /\ Min({a, b}) <= b
  <1>1. \E x \in {a, b} : \A y \in {a, b} : x =< y
    <2>1. CASE a <= b
      BY <2>1
    <2>2. CASE ~(a <= b)
      BY <2>2
    <2> QED BY <2>1, <2>2
  <1> DEFINE P(x) == x \in {a, b} /\ \A y \in {a, b} : x =< y
  <1>2. P(CHOOSE x : P(x))
    BY <1>1
  <1>3. Min({a, b}) = CHOOSE x : P(x)
    BY DEF Min
  <1> QED BY <1>2, <1>3

\* A prefix and the rest.
LEMMA Split ==
    ASSUME NEW S, NEW a \in Seq(S), NEW n \in 0..Len(a)
    PROVE  /\ SubSeq(a, 1, n) \in Seq(S) /\ Len(SubSeq(a, 1, n)) = n
           /\ \A i \in 1..n : SubSeq(a, 1, n)[i] = a[i]
           /\ without(a, n) \in Seq(S) /\ Len(without(a, n)) = Len(a) - n
           /\ \A i \in 1..(Len(a) - n) : without(a, n)[i] = a[n + i]
           /\ n = 0 => SubSeq(a, 1, n) = <<>> /\ without(a, n) = a
           /\ n = Len(a) => without(a, n) = <<>>
           /\ SubSeq(a, 1, n) \o without(a, n) = a
  <1>1. Len(a) \in Nat /\ \A i \in 1..Len(a) : a[i] \in S
    BY LenProperties, ElementOfSeq
  <1>2. /\ SubSeq(a, 1, n) \in Seq(S) /\ Len(SubSeq(a, 1, n)) = n
        /\ \A i \in 1..n : SubSeq(a, 1, n)[i] = a[i]
    <2>1. \A i \in 1..n : a[i] \in S
      BY <1>1
    <2>2. /\ SubSeq(a, 1, n) \in Seq(S)
          /\ Len(SubSeq(a, 1, n)) = IF 1 <= n THEN n - 1 + 1 ELSE 0
          /\ \A i \in 1..(n - 1 + 1) : SubSeq(a, 1, n)[i] = a[1 + i - 1]
      BY <2>1, SubSeqProperties
    <2> QED BY <2>2
  <1>3. /\ without(a, n) \in Seq(S) /\ Len(without(a, n)) = Len(a) - n
        /\ \A i \in 1..(Len(a) - n) : without(a, n)[i] = a[n + i]
    <2> DEFINE m == n + 1
               l == Len(a)
    <2>1. m \in Int /\ l \in Int /\ \A i \in m..l : a[i] \in S
      BY <1>1
    <2>2. without(a, n) = SubSeq(a, m, l)
      BY DEF without
    <2> HIDE DEF m
    <2>3. /\ SubSeq(a, m, l) \in Seq(S)
          /\ Len(SubSeq(a, m, l)) = IF m <= l THEN l - m + 1 ELSE 0
          /\ \A i \in 1..(l - m + 1) : SubSeq(a, m, l)[i] = a[m + i - 1]
      BY <2>1, SubSeqProperties
    <2> QED BY <1>1, <2>2, <2>3 DEF m
  <1>4. n = 0 => SubSeq(a, 1, n) = <<>> /\ without(a, n) = a
    BY SubSeqEmpty, SubSeqFull DEF without
  <1>5. n = Len(a) => without(a, n) = <<>>
    BY <1>1, SubSeqEmpty DEF without
  <1>6. SubSeq(a, 1, n) \o without(a, n) = a
    <2> DEFINE c == SubSeq(a, 1, n) \o without(a, n)
    <2>1. /\ c \in Seq(S) /\ Len(c) = n + (Len(a) - n)
          /\ \A i \in 1..(n + (Len(a) - n)) :
                 c[i] = IF i <= n THEN SubSeq(a, 1, n)[i] ELSE without(a, n)[i - n]
      BY <1>2, <1>3, ConcatProperties
    <2> HIDE DEF c
    <2>2. Len(c) = Len(a)
      BY <1>1, <2>1
    <2>3. \A i \in 1..Len(c) : c[i] = a[i]
      BY <1>1, <1>2, <1>3, <2>1
    <2>4. c = a
      BY <2>1, <2>2, <2>3, SeqEqual
    <2> QED BY <2>4 DEF c
  <1> QED BY <1>2, <1>3, <1>4, <1>5, <1>6

\* A prefix of a concatenation that does not reach into the second part.
LEMMA SplitConcat ==
    ASSUME NEW S, NEW a \in Seq(S), NEW b \in Seq(S), NEW n \in 0..Len(a)
    PROVE  /\ SubSeq(a \o b, 1, n) = SubSeq(a, 1, n)
           /\ without(a \o b, n) = without(a, n) \o b
  <1>1. /\ a \o b \in Seq(S) /\ Len(a \o b) = Len(a) + Len(b)
        /\ \A i \in 1..(Len(a) + Len(b)) :
               (a \o b)[i] = IF i <= Len(a) THEN a[i] ELSE b[i - Len(a)]
    BY ConcatProperties
  <1> DEFINE c == a \o b
  <1> HIDE DEF c
  <1>2. Len(a) \in Nat /\ Len(b) \in Nat
    BY LenProperties
  <1>3. n \in 0..Len(c)
    BY <1>1, <1>2 DEF c
  <1>4. /\ SubSeq(a, 1, n) \in Seq(S) /\ Len(SubSeq(a, 1, n)) = n
        /\ \A i \in 1..n : SubSeq(a, 1, n)[i] = a[i]
        /\ without(a, n) \in Seq(S) /\ Len(without(a, n)) = Len(a) - n
        /\ \A i \in 1..(Len(a) - n) : without(a, n)[i] = a[n + i]
    BY Split
  <1>5. /\ SubSeq(c, 1, n) \in Seq(S) /\ Len(SubSeq(c, 1, n)) = n
        /\ \A i \in 1..n : SubSeq(c, 1, n)[i] = c[i]
        /\ without(c, n) \in Seq(S) /\ Len(without(c, n)) = Len(c) - n
        /\ \A i \in 1..(Len(c) - n) : without(c, n)[i] = c[n + i]
    <2>1. c \in Seq(S)
      BY <1>1 DEF c
    <2> QED BY <1>3, <2>1, Split
  <1>6. SubSeq(c, 1, n) = SubSeq(a, 1, n)
    <2>1. \A i \in 1..n : c[i] = a[i]
      BY <1>1, <1>2 DEF c
    <2> QED BY <1>4, <1>5, <2>1, SeqEqual
  <1> DEFINE r == without(a, n)
             d == r \o b
  <1>7. /\ d \in Seq(S) /\ Len(d) = Len(r) + Len(b)
        /\ \A i \in 1..(Len(r) + Len(b)) : d[i] = IF i <= Len(r) THEN r[i] ELSE b[i - Len(r)]
    BY <1>4, ConcatProperties
  <1>8. without(c, n) = d
    <2>1. Len(without(c, n)) = Len(d)
      BY <1>1, <1>2, <1>4, <1>5, <1>7 DEF c
    <2>2. ASSUME NEW i \in 1..Len(d)
          PROVE  without(c, n)[i] = d[i]
      <3>1. i \in 1..(Len(c) - n) /\ i \in 1..(Len(r) + Len(b)) /\ n + i \in 1..(Len(a) + Len(b))
        BY <1>1, <1>2, <1>4, <1>7 DEF c
      <3>2. without(c, n)[i] = c[n + i] /\ d[i] = IF i <= Len(r) THEN r[i] ELSE b[i - Len(r)]
        BY <1>5, <1>7, <3>1
      <3>3. c[n + i] = IF n + i <= Len(a) THEN a[n + i] ELSE b[n + i - Len(a)]
        BY <1>1, <3>1 DEF c
      <3>4. ASSUME i <= Len(r)
            PROVE  r[i] = a[n + i]
        <4>1. i \in 1..(Len(a) - n)
          BY <1>2, <1>4, <3>1, <3>4
        <4> QED BY <1>4, <4>1
      <3>5. /\ i <= Len(r) <=> n + i <= Len(a)
            /\ i - Len(r) = n + i - Len(a)
        BY <1>2, <1>4, <3>1
      <3> QED BY <3>2, <3>3, <3>4, <3>5
    <2> HIDE DEF d
    <2> QED BY <1>5, <1>7, <2>1, <2>2, SeqEqual
  <1> QED BY <1>6, <1>8 DEF c

\* Names for concatenations and prefixes, to reason about without looking
\* at the elements.
Cat(a, b) == a \o b
Prefix(a, n) == SubSeq(a, 1, n)

LEMMA CatProperties ==
    ASSUME NEW S, NEW a \in Seq(S), NEW b \in Seq(S)
    PROVE  /\ Cat(a, b) \in Seq(S) /\ Len(Cat(a, b)) = Len(a) + Len(b)
           /\ \A i \in 1..(Len(a) + Len(b)) :
                  Cat(a, b)[i] = IF i <= Len(a) THEN a[i] ELSE b[i - Len(a)]
           /\ a = <<>> => Cat(a, b) = b
           /\ b = <<>> => Cat(a, b) = a
           /\ Len(a) \in Nat /\ Len(b) \in Nat
  <1>1. /\ Cat(a, b) \in Seq(S) /\ Len(Cat(a, b)) = Len(a) + Len(b)
        /\ \A i \in 1..(Len(a) + Len(b)) :
               Cat(a, b)[i] = IF i <= Len(a) THEN a[i] ELSE b[i - Len(a)]
    BY ConcatProperties DEF Cat
  <1>2. /\ a = <<>> => Cat(a, b) = b
        /\ b = <<>> => Cat(a, b) = a
    BY ConcatEmptySeq DEF Cat
  <1> QED BY <1>1, <1>2, LenProperties

LEMMA CatAssociative ==
    ASSUME NEW S, NEW a \in Seq(S), NEW b \in Seq(S), NEW c \in Seq(S)
    PROVE  Cat(Cat(a, b), c) = Cat(a, Cat(b, c))
  BY ConcatAssociative DEF Cat

LEMMA PrefixProperties ==
    ASSUME NEW S, NEW a \in Seq(S), NEW n \in 0..Len(a)
    PROVE  /\ Prefix(a, n) \in Seq(S) /\ Len(Prefix(a, n)) = n
           /\ \A i \in 1..n : Prefix(a, n)[i] = a[i]
           /\ without(a, n) \in Seq(S) /\ Len(without(a, n)) = Len(a) - n
           /\ \A i \in 1..(Len(a) - n) : without(a, n)[i] = a[n + i]
           /\ n = 0 => Prefix(a, n) = <<>> /\ without(a, n) = a
           /\ without(a, n) = <<>> <=> n = Len(a)
           /\ Cat(Prefix(a, n), without(a, n)) = a
  <1>1. /\ Prefix(a, n) \in Seq(S) /\ Len(Prefix(a, n)) = n
        /\ \A i \in 1..n : Prefix(a, n)[i] = a[i]
        /\ without(a, n) \in Seq(S) /\ Len(without(a, n)) = Len(a) - n
        /\ \A i \in 1..(Len(a) - n) : without(a, n)[i] = a[n + i]
        /\ n = 0 => Prefix(a, n) = <<>> /\ without(a, n) = a
        /\ n = Len(a) => without(a, n) = <<>>
    BY Split DEF Prefix
  <1>2. Cat(Prefix(a, n), without(a, n)) = a
    BY Split DEF Prefix, Cat
  <1>3. without(a, n) = <<>> => n = Len(a)
    BY <1>1, LenProperties
  <1> QED BY <1>1, <1>2, <1>3

LEMMA NothingOut ==
    ASSUME NEW b \in Seq(Nat)
    PROVE  without(b, 0) = b /\ Cat(<<>>, b) = b
  <1>1. 0 \in 0..Len(b)
    BY LenProperties
  <1>2. without(b, 0) = b
    BY <1>1, PrefixProperties
  <1>3. <<>> \in Seq(Nat)
    OBVIOUS
  <1> QED BY <1>2, <1>3, CatProperties

LEMMA PrefixOfCat ==
    ASSUME NEW S, NEW a \in Seq(S), NEW b \in Seq(S), NEW n \in 0..Len(a)
    PROVE  /\ Prefix(Cat(a, b), n) = Prefix(a, n)
           /\ without(Cat(a, b), n) = Cat(without(a, n), b)
  BY SplitConcat DEF Prefix, Cat

\* The first line is a prefix that ends with a line end, or nothing if there
\* is no line end.
LEMMA FirstLine ==
    ASSUME NEW b \in Seq(Nat)
    PROVE  \/ /\ first_line(b) = <<>>
              /\ \A i \in 1..Len(b) : b[i] \notin Newlines
           \/ \E m \in 1..Len(b) : /\ first_line(b) = SubSeq(b, 1, m)
                                   /\ first_line(b) # <<>> /\ Len(first_line(b)) = m
                                   /\ b[m] \in Newlines
  <1> DEFINE Ends == {i \in 1..Len(b) : b[i] \in Newlines}
  <1>1. first_line(b) = IF Ends = {} THEN <<>> ELSE SubSeq(b, 1, Min(Ends))
    BY DEF first_line
  <1>2. CASE Ends = {}
    BY <1>1, <1>2
  <1>3. CASE Ends # {}
    <2> DEFINE P(x) == x \in Ends /\ \A y \in Ends : x =< y
    <2>1. Len(b) \in Nat /\ Ends \subseteq Nat
      BY LenProperties
    <2>2. \E x : P(x)
      <3> HIDE DEF Ends
      <3> QED BY <1>3, <2>1, LeastMember
    <2>3. Min(Ends) = CHOOSE x : P(x)
      BY DEF Min
    <2>4. Min(Ends) \in Ends
      <3> HIDE DEF Ends
      <3> QED BY <2>2, <2>3
    <2> DEFINE m == Min(Ends)
    <2>5. m \in 1..Len(b) /\ b[m] \in Newlines
      BY <2>4
    <2> HIDE DEF m
    <2>6. Len(SubSeq(b, 1, m)) = m
      BY <2>1, <2>5, Split
    <2>7. SubSeq(b, 1, m) # <<>>
      BY <2>5, <2>6
    <2>8. first_line(b) = SubSeq(b, 1, m)
      BY <1>1, <1>3 DEF m
    <2> QED BY <2>5, <2>6, <2>7, <2>8
  <1> QED BY <1>2, <1>3

---------------------------------------------------------------------------
(* The inductive invariant *)

StrTypes ==
    /\ ch_state \in {CLOSED, ERRORED, HALFCLOSED, CONNECTING, ESTABLISHED, READABLE}
    /\ ch_rbuf \in Seq(Nat) /\ Len(ch_rbuf) <= RBufSiz
    /\ ch_nshift \in 0..Len(ch_rbuf)
    /\ ch_line \in Seq(Nat) /\ kin \in Seq(Nat) /\ got \in Seq(Nat)
    /\ ch_rtask \in Task \cup {None} /\ ch_wtask \in Task \cup {None}
    /\ rd \in [Task -> [bytes : Nat, neg : BOOLEAN, until : Int]]
    /\ wr \in [Task -> [left : Nat, once : BOOLEAN, until : Int]]
    /\ link \in {"none", "connecting", "up", "refused", "closed"}
    /\ end \in {"no", "fin", "reset"}
    /\ room \in 0..Room /\ edge \in BOOLEAN /\ sent \in 0..MaxByte

\* At most one task reads or connects, and at most one writes; the channel
\* knows it whenever it waits.
UsersOK ==
    /\ ch_rtask # None => op[ch_rtask] \in {"read", "connect"}
    /\ ch_wtask # None => op[ch_wtask] = "write"
    /\ \A t \in Task :
        /\ op[t] \in {"read", "connect"} =>
               ch_rtask = t \/ (ch_rtask = None /\ co[t] = "back" /\ op[t] = "read")
        /\ op[t] = "write" => ch_wtask = t \/ (ch_wtask = None /\ co[t] = "back")
        /\ op[t] \in Blocking => link # "none"
        /\ op[t] = "connect" => ch_state \in {CONNECTING, ERRORED, CLOSED}
        /\ op[t] = "connect" /\ Ended(t, 0) /\ ch_state = CONNECTING /\ ch_err = 0 => link = "up"
    /\ ch_state = CONNECTING => ch_rtask # None /\ op[ch_rtask] = "connect"

\* The state of the channel and that of the kernel's connection.
LinkOK ==
    /\ ch_state = CLOSED <=> link \in {"none", "closed"}
    /\ ch_state \in {ESTABLISHED, READABLE, HALFCLOSED} => link = "up"
    /\ link # "up" => kin = <<>> /\ end = "no"
    /\ link \in {"none", "connecting", "refused"} =>
           ch_rbuf = <<>> /\ ch_line = <<>> /\ got = <<>> /\ sent = 0
    /\ link = "closed" => ch_err = EBADF
    /\ ch_state = ERRORED => ch_err = ECONN

StateOK ==
    /\ StateTrue
    /\ ch_state = HALFCLOSED /\ ~Pipe => end = "reset" \/ kin = <<>>

\* What the handler is to look for is what the reader waits for, and a line
\* that has been set aside is for a reader that is on its way.
ReaderOK ==
    /\ \A t \in Task : op[t] = "read" =>
        /\ ch_nshift = 0
        /\ co[t] = "parked" /\ ch_state >= 0 =>
               ch_rreqsiz = IF rd[t].bytes = Line THEN -1 ELSE rd[t].bytes
    /\ ch_line # <<>> /\ ch_state >= 0 =>
        \E t \in Task : op[t] = "read" /\ rd[t].bytes = Line /\ Ended(t, 0)

\* s are the n bytes of the stream that follow the first k.
Follows(s, k, n) == Len(s) + k = n /\ \A i \in 1..Len(s) : s[i] = k + i

Content == ch_state >= 0 => Follows(Pending, Len(got), sent)

Sched == IInv /\ JoinInv /\ NoSignals /\ PhaseInv
Chan == StrTypes /\ UsersOK /\ LinkOK /\ StateOK /\ ReaderOK /\ Content
StrIInv == Sched /\ Chan

---------------------------------------------------------------------------
(* Reading from the kernel *)

\* The first n elements of b move to the end of a.
LEMMA Moved ==
    ASSUME NEW S, NEW a \in Seq(S), NEW b \in Seq(S), NEW n \in 0..Len(b)
    PROVE  /\ Cat(a, Prefix(b, n)) \in Seq(S) /\ Len(Cat(a, Prefix(b, n))) = Len(a) + n
           /\ without(b, n) \in Seq(S) /\ Len(without(b, n)) = Len(b) - n
           /\ \A k \in 0..Len(a) :
                  Cat(without(Cat(a, Prefix(b, n)), k), without(b, n)) = Cat(without(a, k), b)
           /\ n = 0 => Cat(a, Prefix(b, n)) = a /\ without(b, n) = b
           /\ without(b, n) = <<>> <=> n = Len(b)
  <1>0. PICK c, rest : c = Cat(a, Prefix(b, n)) /\ rest = without(b, n)
    OBVIOUS
  <1>1. PICK taken \in Seq(S) : taken = Prefix(b, n)
    BY PrefixProperties
  <1>2. /\ Len(taken) = n /\ rest \in Seq(S) /\ Len(rest) = Len(b) - n
        /\ n = 0 => taken = <<>> /\ rest = b
        /\ rest = <<>> <=> n = Len(b)
        /\ Cat(taken, rest) = b
    BY <1>0, <1>1, PrefixProperties
  <1>3. c = Cat(a, taken)
    BY <1>0, <1>1
  <1>4. c \in Seq(S) /\ Len(c) = Len(a) + n /\ (n = 0 => c = a)
    <2>1. /\ Cat(a, taken) \in Seq(S) /\ Len(Cat(a, taken)) = Len(a) + Len(taken)
          /\ taken = <<>> => Cat(a, taken) = a
      BY CatProperties
    <2> QED BY <1>2, <1>3, <2>1
  <1>5. ASSUME NEW k \in 0..Len(a)
        PROVE  Cat(without(c, k), rest) = Cat(without(a, k), b)
    <2>1. PICK w \in Seq(S) : w = without(a, k)
      BY PrefixProperties
    <2>2. without(c, k) = Cat(w, taken)
      BY <1>3, <2>1, PrefixOfCat
    <2>3. Cat(Cat(w, taken), rest) = Cat(w, Cat(taken, rest))
      BY <1>2, CatAssociative
    <2> QED BY <1>2, <2>1, <2>2, <2>3
  <1> QED BY <1>0, <1>2, <1>4, <1>5

\* What stream_channel_read makes of the buffer, the kernel's bytes and the
\* state.
LEMMA KernelRead ==
    ASSUME StrTypes, StreamAssumption, NEW f, f = stream_channel_read
    PROVE  /\ f.rbuf \in Seq(Nat) /\ Len(f.rbuf) <= RBufSiz /\ Len(ch_rbuf) <= Len(f.rbuf)
           /\ f.kin \in Seq(Nat) /\ Len(f.kin) <= Len(kin)
           /\ \A k \in 0..Len(ch_rbuf) : Cat(without(f.rbuf, k), f.kin) = Cat(without(ch_rbuf, k), kin)
           /\ f.updated <=> Len(ch_rbuf) < RBufSiz
           /\ f.left <=> f.updated /\ f.kin # <<>>
           /\ ~f.updated => f.rbuf = ch_rbuf /\ f.kin = kin /\ f.state = ch_state
           /\ f.updated =>
                  \/ f.state = READABLE /\ f.kin # <<>> /\ Len(f.rbuf) = RBufSiz
                  \/ f.state = ESTABLISHED /\ f.kin = <<>>
                  \/ /\ f.state = IF end = "reset" THEN ERRORED ELSE HALFCLOSED
                     /\ kin = <<>> /\ f.kin = <<>> /\ f.rbuf = ch_rbuf
  <1>1. PICK b, l, m : b = Len(ch_rbuf) /\ l = Len(kin) /\ m = free
    OBVIOUS
  <1>2. b \in Nat /\ l \in Nat /\ m \in Nat /\ RBufSiz \in Nat /\ m = RBufSiz - b
    <2>1. Len(ch_rbuf) \in Nat /\ Len(kin) \in Nat /\ Len(ch_rbuf) <= RBufSiz
      BY LenProperties DEF StrTypes
    <2> QED BY <1>1, <2>1 DEF StreamAssumption, free
  <1>3. PICK n : n = Min({m, l})
    OBVIOUS
  <1>4. n \in {m, l} /\ n <= m /\ n <= l
    BY <1>2, <1>3, MinOfTwo
  <1>5. PICK rest : rest = without(kin, n)
    OBVIOUS
  <1>6. /\ f.rbuf = Cat(ch_rbuf, Prefix(kin, n)) /\ f.kin = rest
        /\ f.state = IF m = 0 THEN ch_state ELSE state_read(n, rest)
        /\ f.updated = (m > 0) /\ f.left = (m > 0 /\ rest # <<>>)
    BY <1>1, <1>3, <1>5 DEF stream_channel_read, Cat, Prefix
  <1>7. /\ f.rbuf \in Seq(Nat) /\ Len(f.rbuf) = b + n
        /\ f.kin \in Seq(Nat) /\ Len(f.kin) = l - n
        /\ \A k \in 0..Len(ch_rbuf) : Cat(without(f.rbuf, k), f.kin) = Cat(without(ch_rbuf, k), kin)
        /\ n = 0 => f.rbuf = ch_rbuf /\ f.kin = kin
        /\ n = l <=> rest = <<>>
    <2>1. ch_rbuf \in Seq(Nat) /\ kin \in Seq(Nat) /\ n \in 0..Len(kin)
      BY <1>1, <1>2, <1>4 DEF StrTypes
    <2>2. /\ Cat(ch_rbuf, Prefix(kin, n)) \in Seq(Nat)
          /\ Len(Cat(ch_rbuf, Prefix(kin, n))) = Len(ch_rbuf) + n
      BY <2>1, Moved
    <2>3. /\ without(kin, n) \in Seq(Nat) /\ Len(without(kin, n)) = Len(kin) - n
          /\ without(kin, n) = <<>> <=> n = Len(kin)
      BY <2>1, PrefixProperties
    <2>4. \A i \in 0..Len(ch_rbuf) :
              Cat(without(Cat(ch_rbuf, Prefix(kin, n)), i), without(kin, n))
                  = Cat(without(ch_rbuf, i), kin)
      BY <2>1, Moved
    <2>5. n = 0 => Cat(ch_rbuf, Prefix(kin, n)) = ch_rbuf /\ without(kin, n) = kin
      BY <2>1, Moved
    <2> QED BY <1>1, <1>5, <1>6, <2>2, <2>3, <2>4, <2>5
  <1>8. l = 0 <=> kin = <<>>
    BY <1>1, EmptySeq DEF StrTypes
  <1>9. CASE m = 0
    <2>1. n = 0
      BY <1>2, <1>4, <1>9
    <2>2. ~f.updated /\ ~f.left /\ f.state = ch_state
      <3>1. ~(m > 0)
        BY <1>9
      <3> QED BY <1>6, <1>9, <3>1, Zenon
    <2> QED BY <1>1, <1>2, <1>7, <1>9, <2>1, <2>2
  <1>10. CASE m > 0
    <2>1. f.updated /\ f.state = state_read(n, rest)
      <3>1. m # 0
        BY <1>2, <1>10
      <3> QED BY <1>6, <1>10, <3>1, Zenon
    <2>2. \/ f.state = READABLE /\ n = m /\ rest # <<>>
          \/ f.state = ESTABLISHED /\ ~(n = m /\ rest # <<>>)
          \/ f.state = (IF end = "reset" THEN ERRORED ELSE HALFCLOSED) /\ n = 0
      <3>1. PICK st : st = f.state
        OBVIOUS
      <3>2. st = IF n = m /\ rest # <<>> THEN READABLE
                 ELSE IF n > 0 THEN ESTABLISHED ELSE IF end = "reset" THEN ERRORED ELSE HALFCLOSED
        BY <1>1, <2>1, <3>1 DEF state_read
      <3>3. n > 0 \/ n = 0
        BY <1>2, <1>4
      <3> QED BY <3>1, <3>2, <3>3, Zenon
    <2>3. \/ f.state = READABLE /\ f.kin # <<>> /\ Len(f.rbuf) = RBufSiz
          \/ f.state = ESTABLISHED /\ f.kin = <<>>
          \/ /\ f.state = IF end = "reset" THEN ERRORED ELSE HALFCLOSED
             /\ kin = <<>> /\ f.kin = <<>> /\ f.rbuf = ch_rbuf
      BY <1>2, <1>4, <1>6, <1>7, <1>8, <1>10, <2>2
    <2>4. Len(f.rbuf) <= RBufSiz /\ b <= Len(f.rbuf) /\ Len(f.kin) <= l
      BY <1>2, <1>4, <1>7
    <2>5. f.left <=> f.updated /\ f.kin # <<>>
      BY <1>6, <1>10, <2>1, Zenon
    <2> QED BY <1>1, <1>2, <1>7, <1>10, <2>1, <2>3, <2>4, <2>5
  <1> QED BY <1>2, <1>9, <1>10

---------------------------------------------------------------------------
(* The tasks *)

\* A task that reads or connects, and runs, is the only one that does; and
\* one that writes.
LEMMA OneUser ==
    ASSUME IInv, UsersOK, NEW t \in Task, current = t
    PROVE  /\ op[t] \in {"read", "connect"} =>
                  /\ ch_rtask \in {t, None}
                  /\ \A v \in Task \ {t} : op[v] \notin {"read", "connect"}
           /\ op[t] = "write" =>
                  /\ ch_wtask \in {t, None}
                  /\ \A v \in Task \ {t} : op[v] # "write"
  <1>1. \A v \in Task \ {t} : co[v] # "back"
    BY DEF IInv, OnePlace
  <1>2. \A v \in Task :
            /\ op[v] \in {"read", "connect"} => ch_rtask = v \/ (ch_rtask = None /\ co[v] = "back")
            /\ op[v] = "write" => ch_wtask = v \/ (ch_wtask = None /\ co[v] = "back")
    BY DEF UsersOK
  <1>3. \A v \in Task : v # None
    BY DEF Task, None
  <1>4. ASSUME op[t] \in {"read", "connect"}
        PROVE  /\ ch_rtask \in {t, None}
               /\ \A v \in Task \ {t} : op[v] \notin {"read", "connect"}
    BY <1>1, <1>2, <1>3, <1>4
  <1>5. ASSUME op[t] = "write"
        PROVE  ch_wtask \in {t, None} /\ \A v \in Task \ {t} : op[v] # "write"
    BY <1>1, <1>2, <1>3, <1>5
  <1> QED BY <1>4, <1>5

\* Nobody runs when the channel has no reader that waits, or no writer.
LEMMA NoUser ==
    ASSUME IInv, UsersOK, NEW t \in Task, current = t, op[t] = "none"
    PROVE  /\ ch_rtask = None => \A v \in Task : op[v] \notin {"read", "connect"}
           /\ ch_wtask = None => \A v \in Task : op[v] # "write"
           /\ ch_rtask # t /\ ch_wtask # t
  <1>1. \A v \in Task \ {t} : co[v] # "back"
    BY DEF IInv, OnePlace
  <1>2. \A v \in Task :
            /\ op[v] \in {"read", "connect"} => ch_rtask = v \/ (ch_rtask = None /\ co[v] = "back")
            /\ op[v] = "write" => ch_wtask = v \/ (ch_wtask = None /\ co[v] = "back")
    BY DEF UsersOK
  <1>3. t # None /\ \A v \in Task : v # None
    BY DEF Task, None
  <1>4. ch_rtask # t /\ ch_wtask # t
    BY <1>3 DEF UsersOK
  <1> QED BY <1>1, <1>2, <1>3, <1>4

\* Nobody is on the way to be resumed when the loop polls.
LEMMA AtPoll ==
    ASSUME Sched, Idle("poll")
    PROVE  \A v \in Task : /\ ~t_prev[v] /\ co[v] \notin {"run", "back"}
                           /\ \A x : ~Ended(v, x)
  <1>1. batch = <<>> /\ ready = <<>>
    BY DEF Sched, PhaseInv, Idle
  <1>2. Queue = <<>>
    BY <1>1, EmptySeq, ConcatEmptySeq DEF Queue
  <1>3. \A v \in Task : ~t_prev[v]
    BY <1>2, EmptySeq DEF Sched, IInv, ListsMatch, Within
  <1>4. \A v \in Task : current # v
    BY DEF Idle, Task, None
  <1>5. \A v \in Task : co[v] \notin {"run", "back"}
    BY <1>4 DEF Sched, IInv, OnePlace
  <1> QED BY <1>3, <1>5 DEF Ended

\* A step of the channel: it wakes at most two tasks that are in its calls,
\* and the running task may enter or leave one.
Step(t, e, u, f) ==
    /\ wake_both(t, e, u, f)
    /\ t \in Task \cup {None} /\ e \in Errno /\ u \in Task \cup {None} /\ f \in Errno
    /\ \A v \in {t, u} \ {None} : op[v] \in Blocking /\ v # current
    /\ UNCHANGED coVars \/ \E c \in Task : Moves(c)
    /\ UNCHANGED <<taskVars, batch, now>>
    /\ \/ current # None /\ UNCHANGED <<at, caller>>
       \/ at' = "resume_list" /\ caller' = "events"

LEMMA ChannelSteps ==
    ASSUME Sched, NEW t, NEW e, NEW u, NEW f, Step(t, e, u, f)
    PROVE  /\ Sched'
           /\ \A v \in Task : v # current \/ UNCHANGED coVars =>
                  /\ op'[v] = op[v] /\ co'[v] = co[v] /\ ret'[v] = ret[v]
                  /\ t_prev'[v] <=> t_prev[v] \/ v \in {t, u}
                  /\ \A x : Ended(v, x)' <=> \/ Ended(v, x)
                                             \/ /\ v \in {t, u} /\ ~t_prev[v]
                                                /\ x = IF v = t THEN e ELSE f
  <1>1. \A v \in {t, u} \ {None} : op[v] \notin OwnCall /\ v # current
    BY DEF Step, Blocking, OwnCall
  <1>2. IInv' /\ JoinInv' /\ NoSignals'
    BY <1>1, ChannelStep DEF Step, Sched
  <1>3. PhaseInv'
    <2>1. batch' = batch
      BY DEF Step
    <2>2. CASE current # None /\ UNCHANGED <<at, caller>>
      BY <2>1, <2>2 DEF Sched, PhaseInv
    <2>3. CASE at' = "resume_list"
      BY <2>3 DEF PhaseInv
    <2> QED BY <2>2, <2>3 DEF Step
  <1>4. \A v \in Task : v # current \/ UNCHANGED coVars =>
            /\ op'[v] = op[v] /\ co'[v] = co[v] /\ ret'[v] = ret[v]
            /\ t_prev'[v] <=> t_prev[v] \/ v \in {t, u}
            /\ \A x : Ended(v, x)' <=> \/ Ended(v, x)
                                       \/ /\ v \in {t, u} /\ ~t_prev[v]
                                          /\ x = IF v = t THEN e ELSE f
    <2>1. IInv /\ JoinInv /\ NoSignals
      BY DEF Sched
    <2>2. /\ t \in Task \cup {None} /\ e \in Errno /\ u \in Task \cup {None} /\ f \in Errno
          /\ wake_both(t, e, u, f) /\ batch' = batch
          /\ UNCHANGED coVars \/ \E c \in Task : Moves(c)
      BY DEF Step
    <2> SUFFICES ASSUME NEW v \in Task, v # current \/ UNCHANGED coVars
                 PROVE  /\ op'[v] = op[v] /\ co'[v] = co[v] /\ ret'[v] = ret[v]
                        /\ t_prev'[v] <=> t_prev[v] \/ v \in {t, u}
                        /\ \A x : Ended(v, x)' <=> \/ Ended(v, x)
                                                   \/ /\ v \in {t, u} /\ ~t_prev[v]
                                                      /\ x = IF v = t THEN e ELSE f
      OBVIOUS
    <2>3. op'[v] = op[v] /\ co'[v] = co[v] /\ ret'[v] = ret[v]
      BY <1>1, <2>1, <2>2, WaitsSeen
    <2>4. t_prev'[v] <=> t_prev[v] \/ v \in {t, u}
      BY <1>1, <2>1, <2>2, WaitsSeen
    <2>5. \A x : Ended(v, x)' <=>
              \/ Ended(v, x)
              \/ v \in {t, u} /\ ~t_prev[v] /\ x = IF v = t THEN e ELSE f
      BY <1>1, <2>1, <2>2, WaitsSeen
    <2> QED BY <2>3, <2>4, <2>5
  <1> QED BY <1>2, <1>3, <1>4 DEF Sched

\* error() in a task that another task's call keeps out.
LEMMA ErrorStep ==
    ASSUME Sched, TaskAssumption, NEW t \in Task, InProgram(t), error(t)
    PROVE  Sched' /\ AllAside
  <1>1. /\ current = t /\ co[t] = "run" /\ die(t, t_nsubs)
        /\ UNCHANGED <<batch, caller, now>> /\ at' \in {at, "aborted"}
    BY DEF InProgram, error
  <1>2. t_nsubs \in [Task -> Int] /\ t # None
    BY DEF Sched, IInv, TypeOK, Task, None
  <1>3. IInv' /\ JoinInv' /\ NoSignals' /\ AllAside
    BY <1>1, <1>2, Die, JoinDie, DieAside DEF Sched
  <1>4. PhaseInv'
    BY <1>1, <1>2 DEF Sched, PhaseInv
  <1> QED BY <1>3, <1>4 DEF Sched

\* The steps of the scheduler.
LEMMA SchedulerSteps ==
    ASSUME Sched, Peaceful, TaskAssumption,
           \/ \E t \in Task : Yield(t) \/ Call(t)
           \/ Loop \/ update_time \/ UNCHANGED vars
    PROVE  Sched' /\ AllAside
  <1>1. IInv' /\ JoinInv' /\ AllAside /\ NoSignals'
    BY StepAside DEF Sched
  <1>2. [Next]_vars
    BY DEF Next
  <1>3. PhaseInv'
    BY <1>2, PhaseStep DEF Sched
  <1> QED BY <1>1, <1>3 DEF Sched

\* What such a step does to the tasks in the calls of the channel.
LEMMA AsideSeen ==
    ASSUME AllAside, NEW v \in Task, op[v] \in Blocking \/ op'[v] \in Blocking
    PROVE  /\ op'[v] = op[v]
           /\ co[v] = "back" => co'[v] = "back"
           /\ co'[v] = "parked" => co[v] = "parked" /\ t_prev'[v] = t_prev[v]
           /\ Ended(v, 0)' <=> Ended(v, 0)
  <1>1. op'[v] = op[v] /\ Aside(v)
    <2>1. /\ op[v] \notin OwnCall => Aside(v)
          /\ op'[v] \notin OwnCall => op'[v] = op[v]
      BY DEF AllAside
    <2>2. op[v] \notin OwnCall \/ op'[v] \notin OwnCall
      BY DEF OwnCall, Blocking
    <2>3. op'[v] = op[v]
      BY <2>1, <2>2 DEF Aside
    <2> QED BY <2>1, <2>2, <2>3
  <1>2. CASE /\ co'[v] = co[v] /\ ret'[v] = ret[v]
             /\ t_prev'[v] = t_prev[v] /\ t_err'[v] = t_err[v]
    BY <1>1, <1>2 DEF Ended
  <1>3. CASE /\ co[v] = "parked" /\ co'[v] = "back"
             /\ \/ t_prev[v] /\ ret'[v] = t_err[v]
                \/ ~t_prev[v] /\ rb_key[v] # NoTimer /\ ret'[v] = ETIMEDOUT
    BY <1>1, <1>3 DEF Ended, ETIMEDOUT
  <1> QED BY <1>1, <1>2, <1>3 DEF Aside

---------------------------------------------------------------------------
(* The content of the stream *)

\* What has arrived, as the channel and the kernel hold it.
Rest == Cat(Cat(ch_line, without(ch_rbuf, ch_nshift)), kin)

LEMMA PendingIs ==
    /\ Pending = IF ch_state < 0 THEN <<>> ELSE Rest
    /\ Pending' = IF ch_state' < 0 THEN <<>> ELSE Rest'
  BY DEF Pending, Rest, Cat, without

LEMMA PendingType ==
    ASSUME StrTypes
    PROVE  Pending \in Seq(Nat) /\ Len(Pending) \in Nat /\ got \in Seq(Nat) /\ Len(got) \in Nat
  <1>1. /\ ch_line \in Seq(Nat) /\ kin \in Seq(Nat) /\ ch_rbuf \in Seq(Nat)
        /\ ch_nshift \in 0..Len(ch_rbuf) /\ got \in Seq(Nat)
    BY DEF StrTypes
  <1>2. PICK w \in Seq(Nat) : w = without(ch_rbuf, ch_nshift)
    BY <1>1, PrefixProperties
  <1>3. PICK x \in Seq(Nat) : x = Cat(ch_line, w)
    BY <1>1, CatProperties
  <1>4. Cat(x, kin) \in Seq(Nat)
    BY <1>1, CatProperties
  <1>5. Rest \in Seq(Nat)
    BY <1>2, <1>3, <1>4 DEF Rest
  <1>6. Pending \in Seq(Nat)
    <2>1. <<>> \in Seq(Nat)
      OBVIOUS
    <2> QED BY <1>5, <2>1, PendingIs
  <1> QED BY <1>1, <1>6, LenProperties

\* What a step may do to the content: nothing, give the first n bytes to a
\* read, or add what arrives.
Same == Pending' = Pending /\ UNCHANGED <<got, sent>>
Gave(n) ==
    /\ n \in 1..Len(Pending)
    /\ got' = Cat(got, Prefix(Pending, n)) /\ Pending' = without(Pending, n) /\ sent' = sent
Came(n) ==
    /\ n \in Nat \ {0} /\ got' = got /\ sent' = sent + n
    /\ Pending' = Cat(Pending, [i \in 1..n |-> sent + i])

LEMMA ContentStep ==
    ASSUME StrTypes, Content, ch_state >= 0, Same \/ (\E n : Gave(n) \/ Came(n))
    PROVE  Content'
  <1>1. PICK p \in Seq(Nat), g \in Seq(Nat) : p = Pending /\ g = got
    BY PendingType
  <1>2. sent \in Nat /\ Len(p) \in Nat /\ Len(g) \in Nat
    BY LenProperties DEF StrTypes
  <1>3. Len(p) + Len(g) = sent /\ \A i \in 1..Len(p) : p[i] = Len(g) + i
    BY <1>1 DEF Content, Follows
  <1>4. CASE Same
    <2>1. Follows(Pending', Len(got'), sent')
      BY <1>1, <1>3, <1>4 DEF Same, Follows
    <2> QED BY <2>1 DEF Content, Follows
  <1>5. ASSUME NEW n, Gave(n)
        PROVE  Content'
    <2>1. /\ n \in 0..Len(p) /\ n \in Nat
          /\ got' = Cat(g, Prefix(p, n)) /\ Pending' = without(p, n) /\ sent' = sent
      BY <1>1, <1>2, <1>5 DEF Gave
    <2>2. PICK x, y : x = Prefix(p, n) /\ y = without(p, n)
      OBVIOUS
    <2>3. x \in Seq(Nat) /\ Len(x) = n
      <3>1. Prefix(p, n) \in Seq(Nat) /\ Len(Prefix(p, n)) = n
        BY <1>1, <2>1, PrefixProperties
      <3> QED BY <2>2, <3>1
    <2>4. Len(Cat(g, x)) = Len(g) + n
      BY <1>1, <2>3, CatProperties
    <2>5. Pending' = y /\ Len(got') = Len(g) + n /\ sent' = sent
      BY <2>1, <2>2, <2>4
    <2>6. Len(y) = Len(p) - n /\ \A i \in 1..(Len(p) - n) : y[i] = p[n + i]
      <3>1. /\ Len(without(p, n)) = Len(p) - n
            /\ \A i \in 1..(Len(p) - n) : without(p, n)[i] = p[n + i]
        <4>1. p \in Seq(Nat)
          BY <1>1
        <4>2. n \in 0..Len(p)
          BY <2>1
        <4> QED BY <4>1, <4>2, PrefixProperties
      <3> QED BY <2>2, <3>1
    <2>7. PICK lp \in Nat, lg \in Nat, ly \in {Len(y)} : lp = Len(p) /\ lg = Len(g)
      BY <1>2
    <2>8. ly = lp - n /\ lp + lg = sent
      BY <1>3, <2>6, <2>7
    <2>9. ASSUME NEW i \in 1..ly
          PROVE  y[i] = lg + n + i
      <3>1. i \in 1..(lp - n) /\ n + i \in 1..lp
        BY <2>1, <2>8
      <3>2. y[i] = p[n + i] /\ p[n + i] = lg + (n + i)
        BY <1>3, <2>6, <2>7, <3>1
      <3> QED BY <2>1, <2>8, <3>1, <3>2
    <2>10. ly + (lg + n) = sent
      <3>1. n \in Nat
        BY <2>1
      <3> QED BY <2>7, <2>8, <3>1
    <2> QED BY <2>5, <2>7, <2>9, <2>10 DEF Content, Follows
  <1>6. ASSUME NEW n, Came(n)
        PROVE  Content'
    <2>1. PICK x : x = [i \in 1..n |-> sent + i]
      OBVIOUS
    <2>2. n \in Nat /\ x \in Seq(Nat) /\ Len(x) = n /\ \A i \in 1..n : x[i] = sent + i
      <3>1. n \in Nat
        BY <1>6 DEF Came
      <3> QED BY <1>2, <2>1, <3>1
    <2>3. PICK y : y = Cat(p, x)
      OBVIOUS
    <2>4. got' = g /\ sent' = sent + n /\ Pending' = y
      BY <1>1, <1>6, <2>1, <2>3 DEF Came
    <2>5. /\ Len(y) = Len(p) + n
          /\ \A i \in 1..(Len(p) + n) : y[i] = IF i <= Len(p) THEN p[i] ELSE x[i - Len(p)]
      BY <2>2, <2>3, CatProperties
    <2>6. PICK lp \in Nat, lg \in Nat, ly \in {Len(y)} : lp = Len(p) /\ lg = Len(g)
      BY <1>2
    <2>7. n \in Nat /\ ly = lp + n /\ lp + lg = sent
      BY <1>3, <2>2, <2>5, <2>6
    <2>8. ASSUME NEW i \in 1..ly
          PROVE  y[i] = lg + i
      <3>1. y[i] = IF i <= lp THEN p[i] ELSE x[i - lp]
        BY <2>5, <2>6, <2>7
      <3>2. CASE i <= lp
        <4>1. i \in 1..lp
          BY <2>7, <3>2
        <4>2. p[i] = lg + i
          BY <1>3, <2>6, <4>1
        <4> QED BY <3>1, <3>2, <4>2
      <3>3. CASE ~(i <= lp)
        <4>1. i - lp \in 1..n
          BY <2>7, <3>3
        <4>2. x[i - lp] = sent + (i - lp)
          BY <2>2, <4>1
        <4> QED BY <1>2, <2>7, <3>1, <3>3, <4>2
      <3> QED BY <3>2, <3>3
    <2>9. ly + lg = sent + n
      BY <1>2, <2>7
    <2> QED BY <1>1, <2>4, <2>6, <2>8, <2>9 DEF Content, Follows
  <1> QED BY <1>4, <1>5, <1>6

---------------------------------------------------------------------------
(* Every step preserves the invariant *)

\* The state of the channel and the connection stays, and the tasks change
\* only as the scheduler changes them.
LEMMA UsersFrame ==
    ASSUME StrTypes, UsersOK,
           \A v \in Task : op[v] \in Blocking \/ op'[v] \in Blocking =>
               /\ op'[v] = op[v]
               /\ co[v] = "back" => co'[v] = "back"
               /\ Ended(v, 0)' <=> Ended(v, 0),
           UNCHANGED <<ch_rtask, ch_wtask, link, ch_state, ch_err>>
    PROVE  UsersOK'
  <1>1. /\ ch_rtask' # None => op'[ch_rtask'] \in {"read", "connect"}
        /\ ch_wtask' # None => op'[ch_wtask'] = "write"
    BY DEF UsersOK, StrTypes, Blocking
  <1>2. ASSUME NEW v \in Task
        PROVE  /\ op'[v] \in {"read", "connect"} =>
                      ch_rtask' = v \/ (ch_rtask' = None /\ co'[v] = "back" /\ op'[v] = "read")
               /\ op'[v] = "write" => ch_wtask' = v \/ (ch_wtask' = None /\ co'[v] = "back")
               /\ op'[v] \in Blocking => link' # "none"
               /\ op'[v] = "connect" => ch_state' \in {CONNECTING, ERRORED, CLOSED}
               /\ op'[v] = "connect" /\ Ended(v, 0)' /\ ch_state' = CONNECTING /\ ch_err' = 0 =>
                      link' = "up"
    BY DEF UsersOK, Blocking
  <1>3. ch_state' = CONNECTING => ch_rtask' # None /\ op'[ch_rtask'] = "connect"
    BY DEF UsersOK, StrTypes, Blocking
  <1> QED BY <1>1, <1>2, <1>3 DEF UsersOK

LEMMA ReaderFrame ==
    ASSUME ReaderOK,
           \A v \in Task : op[v] \in Blocking \/ op'[v] \in Blocking =>
               /\ op'[v] = op[v]
               /\ co'[v] = "parked" => co[v] = "parked"
               /\ Ended(v, 0)' <=> Ended(v, 0),
           UNCHANGED <<rd, ch_nshift, ch_state, ch_rreqsiz, ch_line>>
    PROVE  ReaderOK'
  <1>1. ASSUME NEW v \in Task, op'[v] = "read"
        PROVE  /\ ch_nshift' = 0
               /\ co'[v] = "parked" /\ ch_state' >= 0 =>
                      ch_rreqsiz' = IF rd'[v].bytes = Line THEN -1 ELSE rd'[v].bytes
    BY <1>1 DEF ReaderOK, Blocking
  <1>2. ASSUME ch_line' # <<>>, ch_state' >= 0
        PROVE  \E v \in Task : op'[v] = "read" /\ rd'[v].bytes = Line /\ Ended(v, 0)'
    <2>1. PICK v \in Task : op[v] = "read" /\ rd[v].bytes = Line /\ Ended(v, 0)
      BY <1>2 DEF ReaderOK
    <2> QED BY <2>1 DEF Blocking
  <1> QED BY <1>1, <1>2 DEF ReaderOK

\* The steps of the scheduler, and of tasks that are kept out.
LEMMA SchedulerStr ==
    ASSUME StrIInv, Sched', AllAside, edge' \in BOOLEAN,
           UNCHANGED <<chVars, rd, wr, link, kin, end, room, historyVars>>
    PROVE  StrIInv'
  <1> USE DEF StrIInv, Chan
  <1>1. UNCHANGED <<ch_state, ch_err, ch_rbuf, ch_nshift, ch_rreqsiz, ch_line, ch_rtask, ch_wtask,
                    rd, wr, link, kin, end, room, sent, got>>
    BY DEF chVars, bufVars, dataVars, historyVars
  <1>2. StrTypes'
    BY <1>1 DEF StrTypes
  <1>3. \A v \in Task : op[v] \in Blocking \/ op'[v] \in Blocking =>
            /\ op'[v] = op[v]
            /\ co[v] = "back" => co'[v] = "back"
            /\ co'[v] = "parked" => co[v] = "parked"
            /\ Ended(v, 0)' <=> Ended(v, 0)
    BY AsideSeen
  <1>4. UsersOK'
    BY <1>1, <1>3, UsersFrame
  <1>5. LinkOK' /\ StateOK'
    BY <1>1 DEF LinkOK, StateOK, StateTrue
  <1>6. ReaderOK'
    BY <1>1, <1>3, ReaderFrame
  <1>7. Content'
    BY <1>1 DEF Content, Follows, Pending
  <1> QED BY <1>2, <1>4, <1>5, <1>6, <1>7

\* The peer and the kernel.
LEMMA EnvironmentStr ==
    ASSUME StrIInv, Peaceful, TaskAssumption, StreamAssumption, Environment
    PROVE  /\ StrIInv'
           /\ arrive => \/ ch_state < 0 /\ UNCHANGED <<Pending, got>>
                        \/ \E n : Came(n)
           /\ ~arrive => UNCHANGED <<Pending, got>>
  <1> USE DEF StrIInv, Chan
  <1>1. /\ UNCHANGED <<vars, ch_state, ch_err, ch_events, ch_rbuf, ch_nshift, ch_rreqsiz, ch_line,
                       ch_rtask, ch_wtask, rd, wr, got, eof, slip>>
        /\ edge' \in BOOLEAN
    BY DEF Environment, connected, arrive, peer_ends, drain, env, chVars, bufVars, dataVars,
           StrTypes
  <1>2. Sched' /\ AllAside
    BY <1>1, SchedulerSteps
  <1>3. \A v \in Task : op[v] \in Blocking \/ op'[v] \in Blocking =>
            /\ op'[v] = op[v]
            /\ co[v] = "back" => co'[v] = "back"
            /\ co'[v] = "parked" => co[v] = "parked"
            /\ Ended(v, 0)' <=> Ended(v, 0)
    BY <1>2, AsideSeen
  <1>4. ReaderOK'
    BY <1>1, <1>3, ReaderFrame
  <1>5. CASE connected
    <2>1. link = "connecting" /\ link' \in {"up", "refused"} /\ UNCHANGED <<kin, end, room, sent>>
      BY <1>5 DEF connected, env
    <2>2. StrTypes'
      BY <1>1, <2>1 DEF StrTypes
    <2>3. UsersOK'
      <3>1. UNCHANGED <<op, co, t_prev, t_err, ret>>
        BY <1>1 DEF vars, readyVars, coVars
      <3> QED BY <1>1, <2>1, <3>1 DEF UsersOK, Ended
    <2>4. LinkOK'
      BY <1>1, <2>1 DEF LinkOK
    <2>5. StateOK'
      BY <1>1, <2>1 DEF StateOK, StateTrue
    <2>6. Pending' = Pending
      BY <1>1, <2>1 DEF Pending
    <2>7. Content'
      BY <1>1, <2>1, <2>6 DEF Content, Follows
    <2>8. ~arrive
      BY <2>1 DEF arrive
    <2> QED BY <1>1, <1>2, <1>4, <2>2, <2>3, <2>4, <2>5, <2>6, <2>7, <2>8
  <1>6. CASE arrive
    <2>1. PICK n \in 1..(MaxByte - sent) :
              kin' = kin \o [i \in 1..n |-> sent + i] /\ sent' = sent + n
      BY <1>6 DEF arrive
    <2>2. link = "up" /\ end = "no" /\ UNCHANGED <<link, end, room>>
      BY <1>6 DEF arrive, env
    <2>3. PICK x : x = [i \in 1..n |-> sent + i]
      OBVIOUS
    <2>4. sent \in Nat /\ MaxByte \in Nat /\ n \in Nat \ {0} /\ sent + n \in 0..MaxByte
      BY <2>1 DEF StrTypes, StreamAssumption
    <2>5. x \in Seq(Nat) /\ Len(x) = n
      BY <2>3, <2>4
    <2>6. kin' = Cat(kin, x)
      BY <2>1, <2>3 DEF Cat
    <2>7. PICK k \in Seq(Nat), w \in Seq(Nat), l \in Seq(Nat) :
              k = kin /\ w = without(ch_rbuf, ch_nshift) /\ l = ch_line
      BY PrefixProperties DEF StrTypes
    <2>8. /\ Cat(k, x) \in Seq(Nat) /\ Len(Cat(k, x)) = Len(k) + n /\ Len(k) \in Nat
      <3>1. ASSUME NEW c \in Seq(Nat), NEW d \in Seq(Nat)
            PROVE  Cat(c, d) \in Seq(Nat) /\ Len(Cat(c, d)) = Len(c) + Len(d) /\ Len(c) \in Nat
        BY CatProperties
      <3>2. Cat(k, x) \in Seq(Nat) /\ Len(Cat(k, x)) = Len(k) + Len(x) /\ Len(k) \in Nat
        BY <2>5, <2>7, <3>1
      <3> QED BY <2>5, <3>2
    <2>9. kin' \in Seq(Nat) /\ kin' # <<>>
      <3>1. Len(Cat(k, x)) # 0
        BY <2>4, <2>8
      <3> QED BY <2>6, <2>7, <2>8, <3>1
    <2>10. StrTypes'
      BY <1>1, <2>1, <2>2, <2>4, <2>9 DEF StrTypes
    <2>11. UsersOK'
      BY <1>1, <1>3, <2>2, UsersFrame
    <2>12. LinkOK'
      BY <1>1, <2>2 DEF LinkOK
    <2>13. StateOK'
      BY <1>1, <2>2, <2>9 DEF StateOK, StateTrue
    <2>14. CASE ch_state >= 0
      <3>1. Cat(Cat(Cat(l, w), k), x) = Cat(Cat(l, w), Cat(k, x))
        <4>1. Cat(l, w) \in Seq(Nat)
          BY <2>7, CatProperties
        <4> QED BY <2>5, <2>7, <4>1, CatAssociative
      <3>2. Rest = Cat(Cat(l, w), k) /\ Rest' = Cat(Cat(l, w), Cat(k, x))
        BY <1>1, <2>6, <2>7 DEF Rest
      <3>3. ~(ch_state < 0) /\ ~(ch_state' < 0)
        BY <1>1, <2>14 DEF StrTypes, CLOSED, ERRORED, HALFCLOSED, CONNECTING, ESTABLISHED, READABLE
      <3>4. Pending' = Cat(Pending, x)
        BY <3>1, <3>2, <3>3, PendingIs
      <3>5. Came(n)
        BY <1>1, <2>1, <2>3, <2>4, <3>4 DEF Came
      <3>6. Content'
        BY <2>14, <3>5, ContentStep
      <3> QED BY <1>2, <1>4, <1>6, <2>10, <2>11, <2>12, <2>13, <3>5, <3>6
    <2>15. CASE ~(ch_state >= 0)
      <3>1. ch_state < 0
        BY <2>15 DEF StrTypes, CLOSED, ERRORED, HALFCLOSED, CONNECTING, ESTABLISHED, READABLE
      <3>2. UNCHANGED <<Pending, got>> /\ Content'
        BY <1>1, <2>15, <3>1, PendingIs DEF Content
      <3> QED BY <1>2, <1>4, <1>6, <2>10, <2>11, <2>12, <2>13, <3>1, <3>2
    <2> QED BY <2>14, <2>15
  <1>7. CASE peer_ends \/ drain
    <2>1. link = "up" /\ UNCHANGED <<link, kin, sent>> /\ room' \in 0..Room
      <3>1. link = "up" /\ UNCHANGED <<link, kin, sent>> /\ room' \in {room, Room}
        BY <1>7 DEF peer_ends, drain, env
      <3>2. room \in 0..Room /\ Room \in 0..Room
        BY DEF StrTypes, StreamAssumption
      <3> QED BY <3>1, <3>2
    <2>2. /\ end' \in {"no", "fin", "reset"} /\ (end = "no" \/ end' \in {end, "reset"})
          /\ end' = "no" => end = "no"
      BY <1>7 DEF peer_ends, drain, env, StrTypes
    <2>3. StrTypes'
      BY <1>1, <2>1, <2>2 DEF StrTypes
    <2>4. UsersOK'
      BY <1>1, <1>3, <2>1, UsersFrame
    <2>5. LinkOK'
      BY <1>1, <2>1 DEF LinkOK
    <2>6. StateOK'
      BY <1>1, <2>1, <2>2 DEF StateOK, StateTrue
    <2>7. Pending' = Pending
      BY <1>1, <2>1 DEF Pending
    <2>8. Content'
      BY <1>1, <2>1, <2>7 DEF Content, Follows
    <2>9. ~arrive
      <3>1. ASSUME arrive
            PROVE  sent' # sent
        BY <3>1 DEF arrive, StrTypes
      <3> QED BY <2>1, <3>1
    <2> QED BY <1>1, <1>2, <1>4, <2>3, <2>4, <2>5, <2>6, <2>7, <2>8, <2>9
  <1> QED BY <1>5, <1>6, <1>7 DEF Environment

\* Nobody reads or connects: no line is set aside, and the buffer of the
\* last read may be cut.
LEMMA ReadStr ==
    ASSUME StrIInv, TaskAssumption, StreamAssumption, NEW t \in Task, InProgram(t),
           NEW req \in Reqs, NEW sec \in RdSecs, read(t, req, sec)
    PROVE  StrIInv' /\ UNCHANGED <<Pending, got>>
  <1> USE DEF StrIInv, Chan
  <1>1. /\ ch_state \notin {CLOSED, ERRORED} /\ ch_rtask = None
        /\ rd' = [rd EXCEPT ![t] = [bytes |-> IF req < 0 THEN -req ELSE Min({req, RBufSiz}),
                                    neg |-> req < 0, until |-> deadline(sec)]]
        /\ ch_rbuf' = shifted /\ ch_nshift' = 0 /\ enters(t, "read")
        /\ UNCHANGED <<ch_state, ch_err, ch_events, ch_rreqsiz, ch_line, ch_rtask, ch_wtask,
                       wr, link, kin, end, room, edge, sent, got, eof, slip, loopVars, now>>
    BY DEF read, kernelVars, historyVars
  <1>2. current = t /\ co[t] = "run" /\ op[t] = "none"
    BY DEF InProgram, Sched, JoinInv, OpInside
  <1>3. \A v \in Task : op[v] \notin {"read", "connect"}
    BY <1>1, <1>2, NoUser DEF Sched
  <1>4. Step(None, 0, None, 0)
    <2>1. Moves(t)
      BY <1>1, <1>2 DEF enters, Moves, OpName
    <2>2. current # None
      BY <1>2 DEF Task, None
    <2> QED BY <1>1, <2>1, <2>2, NobodyWoken DEF Step, Sched, enters, Errno, loopVars
  <1>5. /\ Sched'
        /\ \A v \in Task \ {t} : /\ op'[v] = op[v] /\ co'[v] = co[v]
                                 /\ Ended(v, 0)' <=> Ended(v, 0)
    BY <1>2, <1>4, ChannelSteps DEF Task, None
  <1>6. op'[t] = "read" /\ co'[t] = "back"
    BY <1>1 DEF enters, Sched, IInv, TypeOK
  <1>7. ch_line = <<>> /\ ch_state >= 0
    <2>1. ch_state >= 0
      BY <1>1 DEF StrTypes, CLOSED, ERRORED, HALFCLOSED, CONNECTING, ESTABLISHED, READABLE
    <2>2. ch_line = <<>>
      BY <1>3, <2>1 DEF ReaderOK
    <2> QED BY <2>1, <2>2
  <1>8. StrTypes'
    <2>1. req \in Int /\ RBufSiz \in Nat /\ sec \in Int /\ now \in Int
      BY DEF StreamAssumption, Sched, IInv, TypeOK
    <2>2. Min({req, RBufSiz}) \in {req, RBufSiz}
      <3>1. req \in Int /\ RBufSiz \in Int
        BY <2>1
      <3> QED BY <3>1, MinOfTwo
    <2>3. (IF req < 0 THEN -req ELSE Min({req, RBufSiz})) \in Nat
      BY <2>1, <2>2
    <2>4. deadline(sec) \in Int /\ (req < 0) \in BOOLEAN
      BY <2>1 DEF deadline, NoTimer
    <2>5. rd' \in [Task -> [bytes : Nat, neg : BOOLEAN, until : Int]]
      BY <1>1, <2>3, <2>4 DEF StrTypes
    <2>6. PICK b \in Seq(Nat), n \in Nat : b = ch_rbuf /\ n = ch_nshift /\ n \in 0..Len(b)
      BY DEF StrTypes
    <2>7. /\ without(b, n) \in Seq(Nat) /\ Len(without(b, n)) = Len(b) - n
      BY <2>6, PrefixProperties
    <2>8. Len(b) <= RBufSiz /\ Len(b) \in Nat
      BY <2>6, LenProperties DEF StrTypes
    <2>9. ch_rbuf' \in Seq(Nat) /\ Len(ch_rbuf') <= RBufSiz /\ 0 \in 0..Len(ch_rbuf')
      BY <1>1, <2>1, <2>6, <2>7, <2>8 DEF shifted
    <2> QED BY <1>1, <2>5, <2>9 DEF StrTypes
  <1>9. LinkOK'
    <2>1. link \in {"none", "connecting", "refused"} => ch_rbuf' = <<>>
      <3>1. ASSUME link \in {"none", "connecting", "refused"}
            PROVE  ch_rbuf' = <<>>
        <4>1. ch_rbuf = <<>> /\ ch_nshift \in 0..Len(ch_rbuf)
          BY <3>1 DEF LinkOK, StrTypes
        <4>2. ch_nshift = 0 /\ ch_rbuf \in Seq(Nat)
          BY <4>1, EmptySeq DEF StrTypes
        <4>3. without(ch_rbuf, 0) = ch_rbuf
          BY <4>2, NothingOut
        <4> QED BY <1>1, <4>1, <4>2, <4>3 DEF shifted
      <3> QED BY <3>1
    <2> QED BY <1>1, <2>1 DEF LinkOK
  <1>10. UsersOK'
    <2>1. link # "none"
      BY <1>1 DEF LinkOK
    <2> QED BY <1>1, <1>2, <1>3, <1>5, <1>6, <2>1 DEF UsersOK, StrTypes, Blocking
  <1>11. StateOK'
    BY <1>1 DEF StateOK, StateTrue
  <1>12. ReaderOK'
    BY <1>1, <1>3, <1>5, <1>6, <1>7 DEF ReaderOK
  <1>13. Pending' = Pending
    <2>1. PICK b \in Seq(Nat), n \in Nat : b = ch_rbuf /\ n = ch_nshift /\ n \in 0..Len(b)
      BY DEF StrTypes
    <2>2. PICK w : w = without(b, n)
      OBVIOUS
    <2>3. w \in Seq(Nat)
      BY <2>1, <2>2, PrefixProperties
    <2>4. without(w, 0) = w
      BY <2>3, NothingOut
    <2>5. without(ch_rbuf', ch_nshift') = without(ch_rbuf, ch_nshift)
      BY <1>1, <2>1, <2>2, <2>4 DEF shifted
    <2>6. Rest' = Rest
      BY <1>1, <2>5 DEF Rest
    <2> QED BY <1>1, <2>6, PendingIs
  <1>14. Content'
    BY <1>1, <1>7, <1>13, ContentStep DEF Same
  <1> QED BY <1>1, <1>5, <1>8, <1>9, <1>10, <1>11, <1>12, <1>13, <1>14

\* A call of the channel returns into the program.
LEMMA Returned ==
    ASSUME Sched, NEW t \in Task, current = t, co[t] = "back", op[t] \in Blocking, returns(t),
           UNCHANGED <<loopVars, now>>, NEW a \in Task \cup {None}, NEW e \in Errno,
           wake_both(a, e, None, 0), a # None => op[a] \in Blocking /\ a # t
    PROVE  /\ Sched' /\ op'[t] = "none" /\ Step(a, e, None, 0)
           /\ \A v \in Task \ {t} :
                  /\ op'[v] = op[v] /\ co'[v] = co[v]
                  /\ t_prev'[v] <=> t_prev[v] \/ v = a
                  /\ Ended(v, 0)' => Ended(v, 0) \/ e = 0
  <1>1. Moves(t)
    <2>1. op[t] # "join"
      BY DEF Blocking
    <2> QED BY <2>1 DEF returns, Moves, OpName
  <1>2. Step(a, e, None, 0)
    <2>1. current # None /\ 0 \in Errno
      BY DEF Task, None, Errno
    <2>2. \A v \in {a, None} \ {None} : op[v] \in Blocking /\ v # current
      OBVIOUS
    <2>3. UNCHANGED <<taskVars, batch, now, at, caller>>
      BY DEF returns, loopVars
    <2> QED BY <1>1, <2>1, <2>2, <2>3 DEF Step
  <1>3. op'[t] = "none"
    BY DEF returns, Sched, IInv, TypeOK
  <1>4. \A v \in Task : v # None
    BY DEF Task, None
  <1>5. /\ Sched'
        /\ \A v \in Task : v # current \/ UNCHANGED coVars =>
               /\ op'[v] = op[v] /\ co'[v] = co[v] /\ ret'[v] = ret[v]
               /\ t_prev'[v] <=> t_prev[v] \/ v \in {a, None}
               /\ \A x : Ended(v, x)' <=>
                      \/ Ended(v, x)
                      \/ v \in {a, None} /\ ~t_prev[v] /\ x = IF v = a THEN e ELSE 0
    BY <1>2, ChannelSteps
  <1>6. ASSUME NEW v \in Task \ {t}
        PROVE  /\ op'[v] = op[v] /\ co'[v] = co[v]
               /\ t_prev'[v] <=> t_prev[v] \/ v = a
               /\ Ended(v, 0)' => Ended(v, 0) \/ e = 0
    BY <1>4, <1>5
  <1> QED BY <1>2, <1>3, <1>5, <1>6

\* What holds while a task is in read's loop.
LEMMA Reading ==
    ASSUME StrIInv, NEW t \in Task, current = t, co[t] = "back", op[t] = "read"
    PROVE  /\ ch_nshift = 0
           /\ ch_state >= 0 =>
                  /\ link = "up" /\ ch_state \in {ESTABLISHED, READABLE, HALFCLOSED}
                  /\ ch_line # <<>> => ret[t] = 0 /\ rd[t].bytes = Line
           /\ \A v \in Task \ {t} : op[v] \notin {"read", "connect"}
           /\ ch_rtask \in {t, None} /\ ch_state # CONNECTING
  <1> USE DEF StrIInv, Chan
  <1>1. /\ \A v \in Task \ {t} : op[v] \notin {"read", "connect"}
        /\ ch_rtask \in {t, None}
    BY OneUser DEF Sched
  <1>2. ch_state # CONNECTING
    BY <1>1 DEF UsersOK
  <1>3. ch_nshift = 0
    BY DEF ReaderOK
  <1>4. ch_state >= 0 => link = "up" /\ ch_state \in {ESTABLISHED, READABLE, HALFCLOSED}
    BY <1>2 DEF StrTypes, LinkOK, CLOSED, ERRORED, HALFCLOSED, CONNECTING, ESTABLISHED, READABLE
  <1>5. ASSUME ch_state >= 0, ch_line # <<>>
        PROVE  ret[t] = 0 /\ rd[t].bytes = Line
    <2>1. PICK v \in Task : op[v] = "read" /\ rd[v].bytes = Line /\ Ended(v, 0)
      BY <1>5 DEF ReaderOK
    <2>2. v = t
      BY <1>1, <2>1
    <2> QED BY <2>1, <2>2 DEF Ended
  <1> QED BY <1>1, <1>2, <1>3, <1>4, <1>5

\* A read returns.
LEMMA ReadOver ==
    ASSUME StrIInv, NEW t \in Task, current = t, co[t] = "back", op[t] = "read", read_ends(t),
           ch_rtask' = None,
           UNCHANGED <<readyVars, loopVars, now, ch_state, ch_err, ch_wtask, wr, link, kin, end,
                       room, edge, sent>>,
           ch_rbuf' \in Seq(Nat), Len(ch_rbuf') <= RBufSiz, ch_nshift' \in 0..Len(ch_rbuf'),
           ch_line' \in Seq(Nat), got' \in Seq(Nat),
           IF ch_state >= 0 THEN ch_line' = <<>> ELSE UNCHANGED <<ch_rbuf, ch_line, got>>,
           Content'
    PROVE  StrIInv'
  <1> USE DEF StrIInv, Chan
  <1>1. returns(t) /\ rd' = [rd EXCEPT ![t] = NoRead]
    BY DEF read_ends
  <1>2. op[t] \in Blocking /\ wake_both(None, 0, None, 0) /\ 0 \in Errno
    BY NobodyWoken DEF Blocking, Errno, Sched
  <1>3. /\ Sched' /\ op'[t] = "none"
        /\ \A v \in Task \ {t} : /\ op'[v] = op[v] /\ co'[v] = co[v]
    BY <1>1, <1>2, Returned
  <1>4. /\ \A v \in Task \ {t} : op[v] \notin {"read", "connect"}
        /\ ch_state # CONNECTING
        /\ ch_state >= 0 => link = "up"
    BY Reading
  <1>5. StrTypes'
    <2>1. NoRead \in [bytes : Nat, neg : BOOLEAN, until : Int]
      BY DEF NoRead, NoTimer, Line
    <2>2. rd' \in [Task -> [bytes : Nat, neg : BOOLEAN, until : Int]]
      BY <1>1, <2>1 DEF StrTypes
    <2> QED BY <2>2 DEF StrTypes
  <1>6. \A v \in Task : op'[v] \notin {"read", "connect"}
    BY <1>3, <1>4
  <1>7. UsersOK'
    <2>1. ch_wtask' # None => op'[ch_wtask'] = "write"
      <3>1. ch_wtask # None => ch_wtask \in Task \ {t} /\ op[ch_wtask] = "write"
        BY DEF UsersOK, StrTypes
      <3> QED BY <1>3, <3>1
    <2>2. ASSUME NEW v \in Task
          PROVE  /\ op'[v] = "write" => ch_wtask' = v \/ (ch_wtask' = None /\ co'[v] = "back")
                 /\ op'[v] \in Blocking => link' # "none"
      <3>1. v # t => op'[v] = op[v] /\ co'[v] = co[v]
        BY <1>3
      <3>2. op'[v] \in Blocking => v # t
        BY <1>3 DEF Blocking
      <3> QED BY <3>1, <3>2 DEF UsersOK, Blocking
    <2> QED BY <1>4, <1>6, <2>1, <2>2 DEF UsersOK
  <1>8. LinkOK'
    BY <1>4 DEF LinkOK
  <1>9. StateOK'
    BY DEF StateOK, StateTrue
  <1>10. ReaderOK'
    BY <1>6 DEF ReaderOK
  <1> QED BY <1>3, <1>5, <1>7, <1>8, <1>9, <1>10

\* A round of read's loop, and one after which the channel has no reader.
ReadRound(t) ==
    /\ current = t /\ co[t] = "back" /\ op[t] = "read"
    /\ UNCHANGED <<ch_events, ch_wtask, wr, link, end, room, edge, sent, loopVars, now>>
ReaderGone(t) == ReadRound(t) /\ ch_rtask' = None /\ ch_rreqsiz' = 0

LEMMA ReadRounds ==
    ASSUME NEW t \in Task, read_step(t)
    PROVE  /\ ReadRound(t)
           /\ \/ /\ ReaderGone(t)
                 /\ \/ read_fails(t) \/ read_bytes(t) \/ read_line(t)
                    \/ read_more(t) \/ read_timedout(t)
              \/ /\ read_wait(t) /\ ch_rtask' = t
                 /\ ch_rreqsiz' = IF rd[t].bytes = Line THEN -1 ELSE rd[t].bytes
  BY DEF read_step, ReadRound, ReaderGone

LEMMA ReadFails ==
    ASSUME StrIInv, NEW t \in Task, ReaderGone(t), read_fails(t) \/ read_timedout(t)
    PROVE  StrIInv' /\ UNCHANGED <<Pending, got, eof, ch_state, end>>
  <1> USE DEF StrIInv, Chan
  <1>1. /\ current = t /\ co[t] = "back" /\ op[t] = "read" /\ read_ends(t) /\ ch_rtask' = None
        /\ UNCHANGED <<ch_rbuf, ch_nshift, ch_line, ch_state, ch_err, kin, got, eof, slip, readyVars,
                       ch_events, ch_wtask, wr, link, end, room, edge, sent, loopVars, now>>
    BY DEF ReaderGone, ReadRound, read_fails, read_timedout, dataVars
  <1>3. IF ch_state >= 0 THEN ch_line' = <<>> ELSE UNCHANGED <<ch_rbuf, ch_line, got>>
    <2>1. CASE ch_state >= 0
      <3>1. ch_line # <<>> => ret[t] = 0 /\ rd[t].bytes = Line
        BY <1>1, <2>1, Reading
      <3>2. ch_state \in Int /\ ~(ch_state < 0)
        BY <2>1 DEF StrTypes, CLOSED, ERRORED, HALFCLOSED, CONNECTING, ESTABLISHED, READABLE
      <3>3. ch_line = <<>>
        BY <3>1, <3>2 DEF read_fails, read_timedout, Broken, Exhausted, CanReturn, HasLine
      <3> QED BY <1>1, <2>1, <3>3
    <2> QED BY <1>1, <2>1
  <1>4. Pending' = Pending
    BY <1>1 DEF Pending
  <1>5. Content'
    BY <1>1, <1>4 DEF Content, Follows
  <1>6. /\ ch_rbuf' \in Seq(Nat) /\ Len(ch_rbuf') <= RBufSiz /\ ch_nshift' \in 0..Len(ch_rbuf')
        /\ ch_line' \in Seq(Nat) /\ got' \in Seq(Nat)
    BY <1>1 DEF StrTypes
  <1>7. StrIInv'
    BY <1>1, <1>3, <1>5, <1>6, ReadOver
  <1> QED BY <1>1, <1>4, <1>7

\* The bytes of a prefix of the buffer, when no line is set aside, are the
\* first that have not been read.
LEMMA FirstOfRest ==
    ASSUME StrTypes, ch_line = <<>>, ch_nshift = 0, NEW n \in 0..Len(ch_rbuf)
    PROVE  /\ Rest = Cat(ch_rbuf, kin)
           /\ n \in 0..Len(Rest) /\ Prefix(ch_rbuf, n) = Prefix(Rest, n)
           /\ Cat(without(ch_rbuf, n), kin) = without(Rest, n)
  <1>1. PICK b \in Seq(Nat), k \in Seq(Nat) : b = ch_rbuf /\ k = kin
    BY DEF StrTypes
  <1>2. n \in 0..Len(b)
    BY <1>1
  <1>3. Rest = Cat(b, k)
    <2>1. without(b, 0) = b /\ Cat(<<>>, b) = b
      BY <1>1, NothingOut
    <2>2. Rest = Cat(Cat(<<>>, without(b, 0)), k)
      BY <1>1 DEF Rest
    <2> QED BY <2>1, <2>2
  <1>4. Prefix(Cat(b, k), n) = Prefix(b, n) /\ without(Cat(b, k), n) = Cat(without(b, n), k)
    BY <1>1, <1>2, PrefixOfCat
  <1>5. n \in 0..Len(Rest)
    <2>1. Len(Cat(b, k)) = Len(b) + Len(k) /\ Len(b) \in Nat /\ Len(k) \in Nat
      BY <1>1, CatProperties
    <2>2. PICK lb \in Nat, lk \in Nat, lc \in {Len(Cat(b, k))} : lb = Len(b) /\ lk = Len(k)
      BY <2>1
    <2>3. n \in 0..lb /\ lc = lb + lk
      BY <1>2, <2>1, <2>2
    <2>4. n \in 0..lc
      BY <2>2, <2>3
    <2> QED BY <1>3, <2>2, <2>4
  <1> QED BY <1>1, <1>3, <1>4, <1>5

\* What a read may report at the end of the stream.
EndSeen(kinds) ==
    /\ eof' \in {eof \cup {k} : k \in kinds}
    /\ UNCHANGED <<Pending, got>>
    /\ end # "no"
    /\ \/ end = "reset" \/ Pipe
       \/ /\ "line" \notin kinds => Pending = <<>>
          /\ \A i \in 1..Len(Pending) : Pending[i] \notin Newlines

LEMMA ReadBytes ==
    ASSUME StrIInv, StreamAssumption, NEW t \in Task, ReaderGone(t), read_bytes(t)
    PROVE  /\ StrIInv' /\ UNCHANGED <<ch_state, end>>
           /\ (\E n : Gave(n) /\ UNCHANGED eof) \/ EndSeen({"bytes"})
  <1> USE DEF StrIInv, Chan
  <1>1. PICK n : n = IF HasBytes(t) /\ ~rd[t].neg THEN rd[t].bytes ELSE Len(ch_rbuf)
    OBVIOUS
  <1>2. /\ current = t /\ co[t] = "back" /\ op[t] = "read" /\ read_ends(t) /\ ch_rtask' = None
        /\ ~Broken(t) /\ CanReturn(t) /\ rd[t].bytes # Line
        /\ got' = Cat(got, Prefix(ch_rbuf, n)) /\ ch_nshift' = n
        /\ eof' = IF n = 0 THEN eof \cup {"bytes"} ELSE eof
        /\ UNCHANGED <<ch_rbuf, ch_line, ch_state, ch_err, kin, slip, readyVars,
                       ch_events, ch_wtask, wr, link, end, room, edge, sent, loopVars, now>>
    BY <1>1 DEF ReaderGone, ReadRound, read_bytes, Cat, Prefix
  <1>3. n \in 0..Len(ch_rbuf) /\ (n = 0 => ch_state = HALFCLOSED /\ Len(ch_rbuf) = 0)
    <2>1. Len(ch_rbuf) \in Nat /\ rd[t].bytes \in Nat /\ rd[t].bytes # 0
      BY <1>2, LenProperties DEF StrTypes, Line
    <2>2. CASE HasBytes(t)
      <3>1. Len(ch_rbuf) >= rd[t].bytes
        BY <2>2 DEF HasBytes
      <3> QED BY <1>1, <2>1, <2>2, <3>1
    <2>3. CASE ~HasBytes(t)
      <3>1. ch_state = HALFCLOSED
        BY <1>2, <2>3 DEF CanReturn, HasLine
      <3> QED BY <1>1, <2>1, <2>3, <3>1
    <2> QED BY <2>2, <2>3
  <1>4. ch_state >= 0 /\ ~(ch_state < 0)
    BY <1>2 DEF Broken, StrTypes, CLOSED, ERRORED, HALFCLOSED, CONNECTING, ESTABLISHED, READABLE
  <1>5. ch_nshift = 0 /\ ch_line = <<>>
    BY <1>2, <1>4, Reading
  <1>6. /\ Pending = Rest /\ Rest = Cat(ch_rbuf, kin)
        /\ n \in 0..Len(Rest) /\ Prefix(ch_rbuf, n) = Prefix(Rest, n)
        /\ Cat(without(ch_rbuf, n), kin) = without(Rest, n)
    BY <1>3, <1>4, <1>5, FirstOfRest, PendingIs
  <1>7. Pending' = without(Pending, n)
    <2>1. without(ch_rbuf, n) \in Seq(Nat) /\ <<>> \in Seq(Nat)
      BY <1>3, PrefixProperties DEF StrTypes
    <2>2. Cat(<<>>, without(ch_rbuf, n)) = without(ch_rbuf, n)
      <3>1. PICK w \in Seq(Nat) : w = without(ch_rbuf, n)
        BY <2>1
      <3>2. Cat(<<>>, w) = w
        BY NothingOut
      <3> QED BY <3>1, <3>2
    <2>3. Rest' = Cat(Cat(<<>>, without(ch_rbuf, n)), kin)
      BY <1>2, <1>5 DEF Rest
    <2> QED BY <1>2, <1>4, <1>6, <2>2, <2>3, PendingIs
  <1>8. got' = Cat(got, Prefix(Pending, n)) /\ sent' = sent /\ n \in 0..Len(Pending)
    BY <1>2, <1>6
  <1>9. CASE n # 0
    <2>1. Gave(n)
      BY <1>7, <1>8, <1>9, PendingType DEF Gave
    <2>2. Content'
      BY <1>4, <2>1, ContentStep
    <2>3. got' \in Seq(Nat)
      <3>1. Prefix(ch_rbuf, n) \in Seq(Nat) /\ got \in Seq(Nat)
        BY <1>3, PrefixProperties DEF StrTypes
      <3> QED BY <1>2, <3>1, CatProperties
    <2>4. StrIInv'
      BY <1>2, <1>3, <1>4, <1>5, <2>2, <2>3, ReadOver DEF StrTypes
    <2> QED BY <1>2, <1>9, <2>1, <2>4
  <1>10. CASE n = 0
    <2>1. Pending' = Pending /\ got' = got
      <3>1. PICK p \in Seq(Nat), g \in Seq(Nat) : p = Pending /\ g = got
        BY PendingType
      <3>2. 0 \in 0..Len(p)
        BY <3>1, LenProperties
      <3>3. without(p, 0) = p /\ Prefix(p, 0) = <<>>
        BY <3>1, <3>2, PrefixProperties
      <3>4. Cat(g, <<>>) = g
        <4>1. <<>> \in Seq(Nat)
          OBVIOUS
        <4> QED BY <3>1, <4>1, CatProperties
      <3> QED BY <1>7, <1>8, <1>10, <3>1, <3>3, <3>4
    <2>2. Content'
      BY <1>2, <1>4, <2>1, ContentStep DEF Same
    <2>3. StrIInv'
      BY <1>2, <1>3, <1>4, <1>5, <2>1, <2>2, ReadOver DEF StrTypes
    <2>4. EndSeen({"bytes"})
      <3>1. eof' = eof \cup {"bytes"}
        BY <1>2, <1>10
      <3>2. ch_rbuf = <<>> /\ ch_state = HALFCLOSED
        BY <1>3, <1>10, EmptySeq DEF StrTypes
      <3>3. end # "no" /\ (end = "reset" \/ Pipe \/ kin = <<>>)
        BY <3>2 DEF StateOK, StateTrue
      <3>4. kin = <<>> => Pending = <<>>
        <4>1. <<>> \in Seq(Nat)
          OBVIOUS
        <4>2. Cat(<<>>, <<>>) = <<>>
          BY <4>1, CatProperties
        <4> QED BY <1>6, <3>2, <4>2
      <3>5. Pending = <<>> => \A i \in 1..Len(Pending) : Pending[i] \notin Newlines
        BY EmptySeq
      <3> QED BY <2>1, <3>1, <3>3, <3>4, <3>5 DEF EndSeen
    <2> QED BY <1>2, <2>3, <2>4
  <1> QED BY <1>9, <1>10

\* A line that is set aside is the first that has not been read.
LEMMA LineFirst ==
    ASSUME StrTypes, ch_nshift = 0
    PROVE  /\ Len(ch_line) \in 0..Len(Rest) /\ ch_line = Prefix(Rest, Len(ch_line))
           /\ Cat(ch_rbuf, kin) = without(Rest, Len(ch_line))
           /\ without(ch_rbuf, 0) = ch_rbuf /\ Cat(<<>>, ch_rbuf) = ch_rbuf
  <1>1. PICK l \in Seq(Nat), b \in Seq(Nat), k \in Seq(Nat) : l = ch_line /\ b = ch_rbuf /\ k = kin
    BY DEF StrTypes
  <1>2. without(b, 0) = b
    BY <1>1, NothingOut
  <1>3. PICK n \in Nat : n = Len(l)
    BY <1>1, LenProperties
  <1>4. n \in 0..Len(l)
    BY <1>3
  <1>5. without(l, n) = <<>> /\ Prefix(l, n) = l
    <2>1. without(l, n) = <<>> /\ Prefix(l, n) \in Seq(Nat) /\ Cat(Prefix(l, n), without(l, n)) = l
      BY <1>1, <1>3, <1>4, PrefixProperties
    <2>2. <<>> \in Seq(Nat)
      OBVIOUS
    <2>3. Cat(Prefix(l, n), <<>>) = Prefix(l, n)
      BY <2>1, <2>2, CatProperties
    <2> QED BY <2>1, <2>3
  <1>6. PICK c \in Seq(Nat) : c = Cat(b, k)
    BY <1>1, CatProperties
  <1>7. Rest = Cat(l, c)
    <2>1. Cat(Cat(l, b), k) = Cat(l, Cat(b, k))
      BY <1>1, CatAssociative
    <2> QED BY <1>1, <1>2, <1>6, <2>1 DEF Rest
  <1>8. Prefix(Cat(l, c), n) = Prefix(l, n) /\ without(Cat(l, c), n) = Cat(without(l, n), c)
    BY <1>1, <1>4, <1>6, PrefixOfCat
  <1>9. Cat(<<>>, c) = c /\ Cat(<<>>, b) = b
    BY <1>1, <1>6, NothingOut
  <1>10. n \in 0..Len(Cat(l, c))
    <2>1. Len(Cat(l, c)) = Len(l) + Len(c) /\ Len(c) \in Nat
      BY <1>1, <1>6, CatProperties
    <2> QED BY <1>3, <2>1
  <1> QED BY <1>1, <1>2, <1>3, <1>5, <1>6, <1>7, <1>8, <1>9, <1>10

LEMMA ReadLine ==
    ASSUME StrIInv, StreamAssumption, NEW t \in Task, ReaderGone(t), read_line(t)
    PROVE  /\ StrIInv' /\ UNCHANGED <<ch_state, end>>
           /\ (\E n : Gave(n) /\ UNCHANGED eof) \/ EndSeen({"line"})
  <1> USE DEF StrIInv, Chan
  <1>1. PICK line : line = IF ch_line # <<>> THEN ch_line ELSE first_line(ch_rbuf)
    OBVIOUS
  <1>2. /\ current = t /\ co[t] = "back" /\ op[t] = "read" /\ read_ends(t) /\ ch_rtask' = None
        /\ ~Broken(t) /\ CanReturn(t) /\ rd[t].bytes = Line
        /\ got' = Cat(got, line) /\ ch_line' = <<>>
        /\ ch_rbuf' = IF ch_line # <<>> THEN ch_rbuf ELSE without(ch_rbuf, Len(line))
        /\ eof' = IF line = <<>> THEN eof \cup {"line"} ELSE eof
        /\ UNCHANGED <<ch_nshift, ch_state, ch_err, kin, slip, readyVars,
                       ch_events, ch_wtask, wr, link, end, room, edge, sent, loopVars, now>>
    BY <1>1 DEF ReaderGone, ReadRound, read_line, Cat
  <1>3. ch_state >= 0 /\ ~(ch_state < 0)
    BY <1>2 DEF Broken, StrTypes, CLOSED, ERRORED, HALFCLOSED, CONNECTING, ESTABLISHED, READABLE
  <1>4. ch_nshift = 0
    BY <1>2, Reading
  <1>5. Pending = Rest /\ Pending' = Rest'
    BY <1>2, <1>3, PendingIs
  <1>6. ch_rbuf \in Seq(Nat) /\ ch_line \in Seq(Nat) /\ kin \in Seq(Nat) /\ <<>> \in Seq(Nat)
    BY DEF StrTypes
  <1>7. \/ ch_line # <<>> /\ line = ch_line
        \/ /\ ch_line = <<>> /\ line = <<>> /\ ch_state = HALFCLOSED
           /\ \A i \in 1..Len(ch_rbuf) : ch_rbuf[i] \notin Newlines
        \/ /\ ch_line = <<>> /\ line # <<>>
           /\ \E m \in 1..Len(ch_rbuf) : line = Prefix(ch_rbuf, m) /\ Len(line) = m
    <2>1. CASE ch_line # <<>>
      BY <1>1, <2>1
    <2>2. CASE ch_line = <<>> /\ first_line(ch_rbuf) = <<>>
      <3>1. ~HasLine(t) /\ ~HasBytes(t)
        BY <1>2, <2>2 DEF HasLine, HasBytes
      <3>2. ch_state = HALFCLOSED
        BY <1>2, <3>1 DEF CanReturn
      <3>3. \A i \in 1..Len(ch_rbuf) : ch_rbuf[i] \notin Newlines
        BY <1>6, <2>2, FirstLine
      <3> QED BY <1>1, <2>2, <3>2, <3>3
    <2>3. CASE ch_line = <<>> /\ first_line(ch_rbuf) # <<>>
      <3>1. line = first_line(ch_rbuf)
        BY <1>1, <2>3
      <3>2. \E m \in 1..Len(ch_rbuf) : /\ first_line(ch_rbuf) = SubSeq(ch_rbuf, 1, m)
                                       /\ Len(first_line(ch_rbuf)) = m
        BY <1>6, <2>3, FirstLine
      <3> QED BY <2>3, <3>1, <3>2 DEF Prefix
    <2> QED BY <2>1, <2>2, <2>3
  <1>8. CASE ch_line # <<>> /\ line = ch_line
    <2>1. PICK n \in Nat : n = Len(ch_line)
      BY <1>6, LenProperties
    <2>2. n # 0
      BY <1>6, <1>8, <2>1, EmptySeq
    <2>3. /\ n \in 0..Len(Rest) /\ ch_line = Prefix(Rest, n) /\ Cat(ch_rbuf, kin) = without(Rest, n)
          /\ without(ch_rbuf, 0) = ch_rbuf /\ Cat(<<>>, ch_rbuf) = ch_rbuf
      BY <1>4, <2>1, LineFirst
    <2>4. Rest' = Cat(ch_rbuf, kin)
      BY <1>2, <1>4, <1>8, <2>3 DEF Rest
    <2>5. Gave(n)
      <3>1. n \in 1..Len(Pending)
        BY <1>5, <2>2, <2>3, PendingType
      <3> QED BY <1>2, <1>5, <1>8, <2>3, <2>4, <3>1 DEF Gave
    <2>6. Content'
      BY <1>3, <2>5, ContentStep
    <2>7. got' \in Seq(Nat)
      <3>1. got \in Seq(Nat)
        BY DEF StrTypes
      <3> QED BY <1>2, <1>6, <1>8, <3>1, CatProperties
    <2>8. StrIInv'
      BY <1>2, <1>3, <1>6, <1>8, <2>6, <2>7, ReadOver DEF StrTypes
    <2> QED BY <1>2, <1>8, <2>5, <2>8
  <1>9. CASE /\ ch_line = <<>> /\ line = <<>> /\ ch_state = HALFCLOSED
             /\ \A i \in 1..Len(ch_rbuf) : ch_rbuf[i] \notin Newlines
    <2>1. got' = got
      <3>1. got \in Seq(Nat)
        BY DEF StrTypes
      <3>2. Cat(got, <<>>) = got
        BY <1>6, <3>1, CatProperties
      <3> QED BY <1>2, <1>9, <3>2
    <2>2. ch_rbuf' = ch_rbuf
      <3>1. Len(line) = 0
        BY <1>6, <1>9, EmptySeq
      <3> QED BY <1>2, <1>4, <1>9, <3>1, LineFirst
    <2>3. Pending' = Pending
      BY <1>2, <1>5, <1>9, <2>2 DEF Rest
    <2>4. Content'
      BY <1>2, <1>3, <2>1, <2>3, ContentStep DEF Same
    <2>5. StrIInv'
      BY <1>2, <1>3, <1>6, <2>1, <2>2, <2>4, ReadOver DEF StrTypes
    <2>6. end # "no" /\ (end = "reset" \/ Pipe \/ kin = <<>>)
      BY <1>9 DEF StateOK, StateTrue
    <2>7. kin = <<>> => Pending = ch_rbuf
      <3>1. Cat(ch_rbuf, <<>>) = ch_rbuf
        BY <1>6, CatProperties
      <3>2. Rest = Cat(Cat(<<>>, ch_rbuf), kin)
        BY <1>4, <1>9, LineFirst DEF Rest
      <3>3. Cat(<<>>, ch_rbuf) = ch_rbuf
        BY <1>4, LineFirst
      <3> QED BY <1>5, <3>1, <3>2, <3>3
    <2>8. eof' = eof \cup {"line"}
      BY <1>2, <1>9
    <2>9. EndSeen({"line"})
      BY <1>9, <2>1, <2>3, <2>6, <2>7, <2>8 DEF EndSeen
    <2> QED BY <1>2, <2>5, <2>9
  <1>10. ASSUME ch_line = <<>>, line # <<>>, NEW m \in 1..Len(ch_rbuf),
                line = Prefix(ch_rbuf, m), Len(line) = m
         PROVE  /\ StrIInv' /\ UNCHANGED <<ch_state, end>>
                /\ \E n : Gave(n) /\ UNCHANGED eof
    <2>1. m \in 0..Len(ch_rbuf)
      OBVIOUS
    <2>2. /\ m \in 0..Len(Rest) /\ Prefix(ch_rbuf, m) = Prefix(Rest, m)
          /\ Cat(without(ch_rbuf, m), kin) = without(Rest, m)
      BY <1>4, <1>10, <2>1, FirstOfRest
    <2>3. PICK w \in Seq(Nat) : w = without(ch_rbuf, m) /\ Len(w) = Len(ch_rbuf) - m
      BY <1>6, <2>1, PrefixProperties
    <2>4. ch_rbuf' = w
      BY <1>2, <1>10, <2>3
    <2>5. without(w, 0) = w /\ Cat(<<>>, w) = w
      BY <2>3, NothingOut
    <2>6. Rest' = without(Rest, m)
      BY <1>2, <1>4, <1>10, <2>2, <2>3, <2>4, <2>5 DEF Rest
    <2>7. Gave(m)
      <3>1. m \in 1..Len(Pending)
        BY <1>5, <2>2, PendingType
      <3> QED BY <1>2, <1>5, <1>10, <2>2, <2>6, <3>1 DEF Gave
    <2>8. Content'
      BY <1>3, <2>7, ContentStep
    <2>9. got' \in Seq(Nat)
      <3>1. got \in Seq(Nat) /\ line \in Seq(Nat)
        BY <1>6, <1>10, <2>1, PrefixProperties DEF StrTypes
      <3> QED BY <1>2, <3>1, CatProperties
    <2>10. Len(ch_rbuf') <= RBufSiz /\ ch_nshift' \in 0..Len(ch_rbuf')
      <3>1. Len(ch_rbuf) <= RBufSiz /\ Len(ch_rbuf) \in Nat /\ RBufSiz \in Nat
        BY <1>6, LenProperties DEF StrTypes, StreamAssumption
      <3>2. Len(w) \in Nat /\ Len(w) <= RBufSiz
        BY <2>3, <3>1, LenProperties
      <3> QED BY <1>2, <1>4, <2>4, <3>2
    <2>11. StrIInv'
      BY <1>2, <1>3, <1>6, <2>3, <2>4, <2>8, <2>9, <2>10, ReadOver DEF StrTypes
    <2> QED BY <1>2, <1>10, <2>7, <2>11
  <1> QED BY <1>7, <1>8, <1>9, <1>10

\* Bytes that move from the kernel into the buffer stay in the stream.
LEMMA RestMoved ==
    ASSUME StrTypes, StreamAssumption, NEW f, f = stream_channel_read,
           ch_rbuf' = f.rbuf, kin' = f.kin, UNCHANGED <<ch_line, ch_nshift>>
    PROVE  Rest' = Rest /\ ch_nshift \in 0..Len(ch_rbuf')
  <1>1. /\ f.rbuf \in Seq(Nat) /\ f.kin \in Seq(Nat) /\ Len(ch_rbuf) <= Len(f.rbuf)
        /\ \A k \in 0..Len(ch_rbuf) : Cat(without(f.rbuf, k), f.kin) = Cat(without(ch_rbuf, k), kin)
    BY KernelRead
  <1>2. PICK l \in Seq(Nat), b \in Seq(Nat), k \in Seq(Nat), n \in Nat :
            l = ch_line /\ b = ch_rbuf /\ k = kin /\ n = ch_nshift /\ n \in 0..Len(b)
    BY DEF StrTypes
  <1>3. PICK c \in Seq(Nat), d \in Seq(Nat) : c = f.rbuf /\ d = f.kin
    BY <1>1
  <1>4. n \in 0..Len(c)
    <2>1. Len(b) \in Nat /\ Len(c) \in Nat /\ Len(b) <= Len(c)
      BY <1>1, <1>2, <1>3, LenProperties
    <2> QED BY <1>2, <2>1
  <1>5. PICK w \in Seq(Nat), x \in Seq(Nat) : w = without(b, n) /\ x = without(c, n)
    BY <1>2, <1>3, <1>4, PrefixProperties
  <1>6. Cat(x, d) = Cat(w, k)
    BY <1>1, <1>2, <1>3, <1>5
  <1>7. Cat(Cat(l, w), k) = Cat(l, Cat(w, k)) /\ Cat(Cat(l, x), d) = Cat(l, Cat(x, d))
    BY <1>2, <1>3, <1>5, CatAssociative
  <1>8. Rest = Cat(Cat(l, w), k) /\ Rest' = Cat(Cat(l, x), d)
    BY <1>2, <1>3, <1>5 DEF Rest
  <1> QED BY <1>2, <1>3, <1>4, <1>6, <1>7, <1>8

\* A task that finds nothing to return is the only reader, and no line is
\* set aside for it.
LEMMA NothingThere ==
    ASSUME StrIInv, NEW t \in Task, ReadRound(t), Exhausted(t)
    PROVE  /\ ch_line = <<>> /\ ch_nshift = 0 /\ link = "up"
           /\ ch_state \in {ESTABLISHED, READABLE}
  <1>1. current = t /\ co[t] = "back" /\ op[t] = "read"
    BY DEF ReadRound
  <1>2. ch_state >= 0 /\ ~HasLine(t) /\ ch_state # HALFCLOSED
    BY DEF Exhausted, Broken, CanReturn, StrIInv, Chan, StrTypes,
           CLOSED, ERRORED, HALFCLOSED, CONNECTING, ESTABLISHED, READABLE
  <1>3. /\ ch_nshift = 0 /\ link = "up" /\ ch_state \in {ESTABLISHED, READABLE}
        /\ ch_line # <<>> => rd[t].bytes = Line
    BY <1>1, <1>2, Reading
  <1> QED BY <1>2, <1>3 DEF HasLine

LEMMA ReadMore ==
    ASSUME StrIInv, Peaceful, TaskAssumption, StreamAssumption, NEW t \in Task,
           ReaderGone(t), read_more(t)
    PROVE  /\ StrIInv' /\ ch_state' \in {READABLE, ESTABLISHED} /\ ch_state = READABLE
           /\ UNCHANGED <<Pending, got, eof, end>>
  <1> USE DEF StrIInv, Chan
  <1>1. PICK f : f = stream_channel_read
    OBVIOUS
  <1>2. /\ current = t /\ co[t] = "back" /\ op[t] = "read" /\ ch_rtask' = None
        /\ Exhausted(t) /\ ch_state = READABLE /\ f.updated
        /\ take_from_kernel(f) /\ ch_rbuf' = f.rbuf /\ ch_state' = f.state
        /\ wake(only_if(f.state = ERRORED, ch_wtask), ECONN)
        /\ UNCHANGED <<ch_line, rd, got, eof, coVars, taskVars,
                       ch_events, ch_wtask, wr, link, end, room, edge, sent, loopVars, now>>
    BY <1>1 DEF ReaderGone, ReadRound, read_more, FromKernel
  <1>3. ch_line = <<>> /\ ch_nshift = 0 /\ link = "up"
    BY <1>2, NothingThere DEF ReaderGone
  <1>4. /\ f.rbuf \in Seq(Nat) /\ Len(f.rbuf) <= RBufSiz /\ f.kin \in Seq(Nat)
        /\ \/ f.state = READABLE /\ f.kin # <<>>
           \/ f.state = ESTABLISHED
           \/ kin = <<>>
    BY <1>1, <1>2, KernelRead
  <1>5. kin # <<>>
    BY <1>2 DEF StateOK, StateTrue
  <1>6. /\ ch_state' \in {READABLE, ESTABLISHED} /\ f.state # ERRORED
        /\ ch_state' = READABLE => f.kin # <<>>
    BY <1>2, <1>4, <1>5 DEF READABLE, ESTABLISHED, ERRORED
  <1>7. kin' = f.kin /\ UNCHANGED <<ch_err, ch_nshift>>
    BY <1>2, <1>6 DEF take_from_kernel
  <1>8. UNCHANGED vars
    <2>1. only_if(f.state = ERRORED, ch_wtask) = None
      BY <1>6 DEF only_if
    <2>2. UNCHANGED readyVars
      BY <1>2, <2>1, NobodyWoken DEF wake, Sched
    <2> QED BY <1>2, <2>2 DEF vars
  <1>9. Sched' /\ UNCHANGED <<op, co>>
    BY <1>8, SchedulerSteps DEF vars, coVars
  <1>10. Rest' = Rest /\ ch_nshift \in 0..Len(ch_rbuf')
    BY <1>1, <1>2, <1>7, RestMoved
  <1>11. StrTypes'
    BY <1>2, <1>4, <1>6, <1>7, <1>10 DEF StrTypes
  <1>12. \A v \in Task \ {t} : op[v] \notin {"read", "connect"}
    BY <1>2, Reading
  <1>13. UsersOK'
    <2>1. ASSUME NEW v \in Task
          PROVE  /\ op'[v] \in {"read", "connect"} => co'[v] = "back" /\ op'[v] = "read"
                 /\ op'[v] = "write" => ch_wtask' = v \/ (ch_wtask' = None /\ co'[v] = "back")
                 /\ op'[v] \in Blocking => link' # "none"
      BY <1>2, <1>3, <1>9, <1>12 DEF UsersOK
    <2>2. ch_wtask' # None => op'[ch_wtask'] = "write"
      BY <1>2, <1>9 DEF UsersOK
    <2>3. ch_state' # CONNECTING
      BY <1>6 DEF CONNECTING, READABLE, ESTABLISHED
    <2> QED BY <1>2, <2>1, <2>2, <2>3 DEF UsersOK
  <1>14. LinkOK'
    BY <1>2, <1>3, <1>6 DEF LinkOK, CLOSED, ERRORED, HALFCLOSED, ESTABLISHED, READABLE
  <1>15. StateOK'
    BY <1>2, <1>6, <1>7 DEF StateOK, StateTrue, HALFCLOSED, ESTABLISHED, READABLE
  <1>16. ReaderOK'
    <2>1. ASSUME NEW v \in Task, op'[v] = "read"
          PROVE  ch_nshift' = 0 /\ co'[v] # "parked"
      BY <1>2, <1>3, <1>7, <1>9, <1>12, <2>1
    <2> QED BY <1>2, <1>3, <2>1 DEF ReaderOK
  <1>17. UNCHANGED Pending
    <2>1. ~(ch_state < 0) /\ ~(ch_state' < 0)
      BY <1>2, <1>6 DEF READABLE, ESTABLISHED
    <2> QED BY <1>10, <2>1, PendingIs
  <1>18. Content'
    <2>1. ch_state >= 0
      BY <1>2 DEF READABLE
    <2> QED BY <1>2, <1>17, <2>1, ContentStep DEF Same
  <1> QED BY <1>2, <1>6, <1>9, <1>11, <1>13, <1>14, <1>15, <1>16, <1>17, <1>18

LEMMA ReadWait ==
    ASSUME StrIInv, TaskAssumption, StreamAssumption, NEW t \in Task, ReadRound(t), read_wait(t),
           ch_rtask' = t, ch_rreqsiz' = IF rd[t].bytes = Line THEN -1 ELSE rd[t].bytes
    PROVE  StrIInv' /\ UNCHANGED <<Pending, got, eof, ch_state, end>>
  <1> USE DEF StrIInv, Chan
  <1>1. /\ current = t /\ co[t] = "back" /\ op[t] = "read" /\ Exhausted(t)
        /\ do_yield(t, "read", TimeLeft(rd[t].until), "channel", t_nsubs)
        /\ UNCHANGED <<ch_rbuf, ch_nshift, ch_line, ch_state, ch_err, rd, kin, got, eof, slip,
                       ch_events, ch_wtask, wr, link, end, room, edge, sent, loopVars, now>>
    BY DEF ReadRound, read_wait
  <1>2. /\ Sched' /\ op' = [op EXCEPT ![t] = "read"] /\ co' = [co EXCEPT ![t] = "parked"]
        /\ UNCHANGED <<ret, t_prev, t_err>>
    <2>1. "read" \in OpName \ OwnCall /\ "channel" \in Obj \cup {NoObj} /\ op[t] # "join"
      BY <1>1 DEF OpName, OwnCall, StreamAssumption
    <2>2. TimeLeft(rd[t].until) \in Int
      BY DEF TimeLeft, NoTimer, StrTypes, Sched, IInv, TypeOK
    <2>3. /\ IInv' /\ JoinInv' /\ NoSignals'
          /\ op' = [op EXCEPT ![t] = "read"] /\ co' = [co EXCEPT ![t] = "parked"]
          /\ current' = None /\ UNCHANGED <<ret, t_prev, t_err>>
      BY <1>1, <2>1, <2>2, WaitsAgain DEF Sched
    <2>4. PhaseInv'
      BY <1>1 DEF Sched, PhaseInv, loopVars, Task, None
    <2> QED BY <2>3, <2>4 DEF Sched
  <1>3. /\ op'[t] = "read" /\ co'[t] = "parked"
        /\ \A v \in Task \ {t} : /\ op'[v] = op[v] /\ co'[v] = co[v]
                                 /\ op[v] \notin {"read", "connect"}
    BY <1>1, <1>2, Reading DEF Sched, IInv, TypeOK
  <1>4. ch_line = <<>> /\ ch_nshift = 0 /\ link = "up" /\ ch_state \in {ESTABLISHED, READABLE}
    BY <1>1, NothingThere
  <1>5. StrTypes'
    BY <1>1 DEF StrTypes
  <1>6. UsersOK'
    <2>1. ch_wtask' # None => op'[ch_wtask'] = "write"
      <3>1. ch_wtask # None => ch_wtask \in Task \ {t} /\ op[ch_wtask] = "write"
        BY <1>1 DEF UsersOK, StrTypes
      <3> QED BY <1>1, <1>3, <3>1
    <2>2. ASSUME NEW v \in Task
          PROVE  /\ op'[v] \in {"read", "connect"} => v = t
                 /\ op'[v] = "write" => ch_wtask' = v \/ (ch_wtask' = None /\ co'[v] = "back")
      BY <1>1, <1>3 DEF UsersOK
    <2>3. ch_state' # CONNECTING /\ link' # "none"
      BY <1>1, <1>4 DEF CONNECTING, READABLE, ESTABLISHED
    <2> QED BY <1>3, <2>1, <2>2, <2>3 DEF UsersOK
  <1>7. LinkOK' /\ StateOK'
    BY <1>1 DEF LinkOK, StateOK, StateTrue
  <1>8. ReaderOK'
    BY <1>1, <1>3, <1>4 DEF ReaderOK
  <1>9. UNCHANGED Pending
    BY <1>1 DEF Pending
  <1>10. Content'
    BY <1>1, <1>9 DEF Content, Follows
  <1> QED BY <1>1, <1>2, <1>5, <1>6, <1>7, <1>8, <1>9, <1>10

LEMMA ReadStep ==
    ASSUME StrIInv, Peaceful, TaskAssumption, StreamAssumption, NEW t \in Task, read_step(t)
    PROVE  /\ StrIInv' /\ UNCHANGED <<end, Phase>>
           /\ \/ UNCHANGED <<Pending, got, eof>>
              \/ \E n : Gave(n) /\ UNCHANGED eof
              \/ EndSeen({"bytes"}) \/ EndSeen({"line"})
  <1>1. ReadRound(t) /\ link' = link
    BY ReadRounds DEF ReadRound
  <1>2. CASE ReaderGone(t) /\ (read_fails(t) \/ read_timedout(t))
    BY <1>1, <1>2, ReadFails DEF Phase
  <1>3. CASE ReaderGone(t) /\ read_bytes(t)
    BY <1>1, <1>3, ReadBytes DEF Phase
  <1>4. CASE ReaderGone(t) /\ read_line(t)
    BY <1>1, <1>4, ReadLine DEF Phase
  <1>5. CASE ReaderGone(t) /\ read_more(t)
    <2>1. /\ StrIInv' /\ UNCHANGED <<Pending, got, eof, end>>
          /\ ch_state' \in {READABLE, ESTABLISHED} /\ ch_state = READABLE
      BY <1>5, ReadMore
    <2> QED BY <2>1 DEF Phase, READABLE, ESTABLISHED, CLOSED
  <1>6. CASE /\ read_wait(t) /\ ch_rtask' = t
             /\ ch_rreqsiz' = IF rd[t].bytes = Line THEN -1 ELSE rd[t].bytes
    BY <1>1, <1>6, ReadWait DEF Phase
  <1> QED BY <1>2, <1>3, <1>4, <1>5, <1>6, ReadRounds

\* write begins.
LEMMA WriteStr ==
    ASSUME StrIInv, TaskAssumption, StreamAssumption, NEW t \in Task, InProgram(t),
           NEW n \in WriteSizes, NEW sec \in WrSecs, write(t, n, sec)
    PROVE  StrIInv' /\ UNCHANGED <<Pending, got>>
  <1> USE DEF StrIInv, Chan
  <1>1. /\ ch_state \notin {CLOSED, ERRORED} /\ ch_wtask = None
        /\ wr' = [wr EXCEPT ![t] = [left |-> n, once |-> sec = 0, until |-> deadline(sec)]]
        /\ enters(t, "write")
        /\ UNCHANGED <<ch_state, ch_err, ch_rbuf, ch_nshift, ch_rreqsiz, ch_line, ch_rtask, ch_wtask,
                       rd, link, kin, end, room, edge, sent, got, loopVars, now>>
    BY DEF write, chVars, bufVars, dataVars, kernelVars, historyVars
  <1>2. current = t /\ co[t] = "run" /\ op[t] = "none"
    BY DEF InProgram, Sched, JoinInv, OpInside
  <1>3. \A v \in Task : op[v] # "write"
    BY <1>1, <1>2, NoUser DEF Sched
  <1>4. Step(None, 0, None, 0)
    <2>1. Moves(t)
      BY <1>1, <1>2 DEF enters, Moves, OpName
    <2>2. current # None
      BY <1>2 DEF Task, None
    <2> QED BY <1>1, <2>1, <2>2, NobodyWoken DEF Step, Sched, enters, Errno, loopVars
  <1>5. /\ Sched'
        /\ \A v \in Task \ {t} : /\ op'[v] = op[v] /\ co'[v] = co[v]
                                 /\ Ended(v, 0)' <=> Ended(v, 0)
    BY <1>2, <1>4, ChannelSteps DEF Task, None
  <1>6. op'[t] = "write" /\ co'[t] = "back"
    BY <1>1 DEF enters, Sched, IInv, TypeOK
  <1>7. StrTypes'
    <2>1. n \in Nat /\ sec \in Int /\ now \in Int
      BY DEF StreamAssumption, Sched, IInv, TypeOK
    <2>2. deadline(sec) \in Int /\ (sec = 0) \in BOOLEAN
      BY <2>1 DEF deadline, NoTimer
    <2>3. wr' \in [Task -> [left : Nat, once : BOOLEAN, until : Int]]
      BY <1>1, <2>1, <2>2 DEF StrTypes
    <2> QED BY <1>1, <2>3 DEF StrTypes
  <1>8. LinkOK' /\ StateOK'
    BY <1>1 DEF LinkOK, StateOK, StateTrue
  <1>9. UsersOK'
    <2>1. link # "none"
      BY <1>1 DEF LinkOK
    <2>2. ch_rtask' # None => ch_rtask' \in Task \ {t} /\ op'[ch_rtask'] = op[ch_rtask]
      <3>1. ch_rtask # t
        BY <1>2, NoUser DEF Sched
      <3> QED BY <1>1, <1>5, <3>1 DEF StrTypes
    <2>3. ASSUME NEW v \in Task
          PROVE  /\ op'[v] \in {"read", "connect"} =>
                        ch_rtask' = v \/ (ch_rtask' = None /\ co'[v] = "back" /\ op'[v] = "read")
                 /\ op'[v] = "write" => ch_wtask' = v \/ (ch_wtask' = None /\ co'[v] = "back")
                 /\ op'[v] = "connect" => ch_state' \in {CONNECTING, ERRORED, CLOSED}
                 /\ op'[v] = "connect" /\ Ended(v, 0)' /\ ch_state' = CONNECTING /\ ch_err' = 0 =>
                        link' = "up"
      <3>1. CASE v = t
        BY <1>1, <1>6, <3>1
      <3>2. CASE v # t
        BY <1>1, <1>3, <1>5, <3>2 DEF UsersOK
      <3> QED BY <3>1, <3>2
    <2> QED BY <1>1, <2>1, <2>2, <2>3 DEF UsersOK
  <1>10. ReaderOK'
    <2>1. ASSUME NEW v \in Task, op'[v] = "read"
          PROVE  v # t /\ op[v] = "read" /\ co'[v] = co[v]
      BY <1>5, <1>6, <2>1
    <2>2. ASSUME ch_line # <<>>, ch_state >= 0
          PROVE  \E v \in Task : op'[v] = "read" /\ rd'[v].bytes = Line /\ Ended(v, 0)'
      <3>1. PICK v \in Task : op[v] = "read" /\ rd[v].bytes = Line /\ Ended(v, 0)
        BY <2>2 DEF ReaderOK
      <3>2. v # t
        BY <1>2, <3>1
      <3> QED BY <1>1, <1>5, <3>1, <3>2
    <2> QED BY <1>1, <2>1, <2>2 DEF ReaderOK
  <1>11. Pending' = Pending
    BY <1>1 DEF Pending
  <1>12. Content'
    BY <1>1, <1>11 DEF Content, Follows
  <1> QED BY <1>1, <1>5, <1>7, <1>8, <1>9, <1>10, <1>11, <1>12

\* A round of write's loop.
WriteRound(t) ==
    /\ current = t /\ co[t] = "back" /\ op[t] = "write"
    /\ UNCHANGED <<bufVars, ch_rtask, rd, link, kin, end, historyVars, loopVars, now>>
WriterGone(t) == WriteRound(t) /\ ch_wtask' = None

\* Of the other tasks, those that read or connect wait, and none writes.
LEMMA Writing ==
    ASSUME StrIInv, NEW t \in Task, current = t, op[t] = "write"
    PROVE  \A v \in Task \ {t} : /\ op[v] # "write"
                                 /\ op[v] \in {"read", "connect"} => ch_rtask = v
  <1>1. \A v \in Task \ {t} : op[v] # "write"
    BY OneUser DEF StrIInv, Chan, Sched
  <1>2. \A v \in Task \ {t} : co[v] # "back"
    BY DEF StrIInv, Sched, IInv, OnePlace
  <1> QED BY <1>1, <1>2 DEF StrIInv, Chan, UsersOK

\* The write returns, having woken the reader with an error or not.
LEMMA WriteOver ==
    ASSUME StrIInv, NEW t \in Task, WriterGone(t), write_ends(t),
           room' \in 0..Room, edge' \in BOOLEAN,
           \/ UNCHANGED <<ch_state, ch_err, readyVars>>
           \/ /\ ch_state >= 0 /\ ch_state' = ERRORED /\ ch_err' = ECONN /\ wake(ch_rtask, ECONN)
    PROVE  StrIInv'
  <1> USE DEF StrIInv, Chan
  <1>1. /\ current = t /\ co[t] = "back" /\ op[t] = "write" /\ ch_wtask' = None
        /\ returns(t) /\ wr' = [wr EXCEPT ![t] = NoWrite]
        /\ UNCHANGED <<ch_rbuf, ch_nshift, ch_rreqsiz, ch_line, ch_rtask, rd, link, kin, end,
                       sent, got, loopVars, now>>
    BY DEF WriterGone, WriteRound, write_ends, bufVars, dataVars, historyVars
  <1>2. \E a \in Task \cup {None}, e \in Errno :
            /\ wake_both(a, e, None, 0)
            /\ a # None => op[a] \in Blocking /\ a # t
            /\ e = 0 => UNCHANGED <<ch_state, ch_err>> /\ a = None
    <2>1. CASE UNCHANGED <<ch_state, ch_err, readyVars>>
      BY <2>1, NobodyWoken DEF Errno, Sched
    <2>2. CASE ch_state' = ERRORED /\ ch_err' = ECONN /\ wake(ch_rtask, ECONN)
      <3>1. ch_rtask # None => op[ch_rtask] \in Blocking /\ ch_rtask # t
        BY <1>1 DEF UsersOK, Blocking
      <3>2. ch_rtask \in Task \cup {None} /\ ECONN \in Errno /\ ECONN # 0
        BY DEF StrTypes, ECONN, EPIPE, Errno
      <3> QED BY <2>2, <3>1, <3>2 DEF wake
    <2> QED BY <2>1, <2>2
  <1>3. PICK a \in Task \cup {None}, e \in Errno :
            /\ wake_both(a, e, None, 0)
            /\ a # None => op[a] \in Blocking /\ a # t
            /\ e = 0 => UNCHANGED <<ch_state, ch_err>> /\ a = None
    BY <1>2
  <1>4. op[t] \in Blocking
    BY <1>1 DEF Blocking
  <1>5. /\ Sched' /\ op'[t] = "none" /\ Step(a, e, None, 0)
        /\ \A v \in Task \ {t} : /\ op'[v] = op[v] /\ co'[v] = co[v]
                                 /\ Ended(v, 0)' => Ended(v, 0) \/ e = 0
    BY <1>1, <1>3, <1>4, Returned
  <1>6. ASSUME ch_state' = ch_state, NEW v \in Task \ {t}
        PROVE  Ended(v, 0)' <=> Ended(v, 0)
    <2>1. UNCHANGED readyVars
      <3>1. CASE UNCHANGED <<ch_state, ch_err, readyVars>>
        BY <3>1
      <3>2. CASE ch_state >= 0 /\ ch_state' = ERRORED
        BY <1>6, <3>2 DEF ERRORED
      <3> QED BY <3>1, <3>2
    <2>2. UNCHANGED <<t_prev, t_err>> /\ ret'[v] = ret[v]
      BY <1>1, <2>1 DEF readyVars, returns, Sched, IInv, TypeOK
    <2> QED BY <1>5, <2>2 DEF Ended
  <1>7. \A v \in Task \ {t} : op[v] # "write" /\ (op[v] \in {"read", "connect"} => ch_rtask = v)
    BY <1>1, Writing
  <1>8. ch_state' = ch_state \/ (ch_state >= 0 /\ ch_state' = ERRORED /\ ch_err' = ECONN)
    OBVIOUS
  <1>9. ch_state' = ch_state => ch_err' = ch_err
    BY DEF ERRORED
  <1>10. StrTypes'
    <2>1. NoWrite \in [left : Nat, once : BOOLEAN, until : Int]
      BY DEF NoWrite, NoTimer
    <2>2. wr' \in [Task -> [left : Nat, once : BOOLEAN, until : Int]]
      BY <1>1, <2>1 DEF StrTypes
    <2> QED BY <1>1, <1>8, <2>2 DEF StrTypes
  <1>11. UsersOK'
    <2>1. ch_rtask' # None => ch_rtask' \in Task \ {t} /\ op'[ch_rtask'] = op[ch_rtask]
      BY <1>1, <1>5 DEF StrTypes, UsersOK
    <2>2. ASSUME NEW v \in Task
          PROVE  /\ op'[v] \in {"read", "connect"} => ch_rtask' = v
                 /\ op'[v] # "write" /\ (op'[v] \in Blocking => link' # "none")
                 /\ op'[v] = "connect" => ch_state' \in {CONNECTING, ERRORED, CLOSED}
                 /\ op'[v] = "connect" /\ Ended(v, 0)' /\ ch_state' = CONNECTING /\ ch_err' = 0 =>
                        link' = "up"
      <3>1. CASE v = t
        BY <1>5, <3>1 DEF Blocking
      <3>2. CASE v # t
        <4>1. op'[v] = op[v] /\ op[v] # "write" /\ (op[v] \in {"read", "connect"} => ch_rtask = v)
          BY <1>5, <1>7, <3>2
        <4>2. ch_state' = CONNECTING => ch_state' = ch_state
          BY <1>8 DEF ERRORED, CONNECTING
        <4>3. ch_state' = CONNECTING => (Ended(v, 0)' <=> Ended(v, 0))
          BY <1>6, <3>2, <4>2
        <4>4. ch_state' = CONNECTING => ch_err' = ch_err
          BY <1>9, <4>2
        <4> QED BY <1>1, <1>8, <4>1, <4>2, <4>3, <4>4 DEF UsersOK
      <3> QED BY <3>1, <3>2
    <2>3. ch_state' = CONNECTING => ch_state = CONNECTING
      BY <1>8 DEF ERRORED, CONNECTING
    <2> QED BY <1>1, <2>1, <2>2, <2>3 DEF UsersOK
  <1>12. LinkOK'
    BY <1>1, <1>8, <1>9 DEF LinkOK, CLOSED, ERRORED, HALFCLOSED, ESTABLISHED, READABLE
  <1>13. StateOK'
    BY <1>1, <1>8 DEF StateOK, StateTrue, ERRORED, HALFCLOSED, READABLE
  <1>14. ReaderOK'
    <2>1. ASSUME NEW v \in Task, op'[v] = "read"
          PROVE  op[v] = "read" /\ co'[v] = co[v]
      BY <1>5, <2>1
    <2>2. ASSUME ch_line # <<>>, ch_state' >= 0
          PROVE  \E v \in Task : op'[v] = "read" /\ rd'[v].bytes = Line /\ Ended(v, 0)'
      <3>1. ch_state' = ch_state
        BY <1>8, <2>2 DEF ERRORED
      <3>2. PICK v \in Task : op[v] = "read" /\ rd[v].bytes = Line /\ Ended(v, 0)
        BY <2>2, <3>1 DEF ReaderOK
      <3>3. v # t
        BY <1>1, <3>2
      <3> QED BY <1>1, <1>5, <1>6, <3>1, <3>2, <3>3
    <2>3. ch_state' >= 0 => ch_state >= 0
      BY <1>8 DEF ERRORED
    <2> QED BY <1>1, <2>1, <2>2, <2>3 DEF ReaderOK
  <1>15. Content'
    <2>1. CASE ch_state' = ch_state
      <3>1. Pending' = Pending
        BY <1>1, <2>1 DEF Pending
      <3> QED BY <1>1, <2>1, <3>1 DEF Content, Follows
    <2>2. CASE ch_state' = ERRORED
      BY <2>2 DEF Content, ERRORED
    <2> QED BY <1>8, <2>1, <2>2
  <1> QED BY <1>5, <1>10, <1>11, <1>12, <1>13, <1>14, <1>15

\* What a round of write's loop takes of the room.
LEMMA TakenFits ==
    ASSUME StrTypes, StreamAssumption, NEW t \in Task
    PROVE  /\ room - Taken(t) \in 0..Room /\ wr[t].left - Taken(t) \in Nat
           /\ Taken(t) < wr[t].left => (link = "up" => room - Taken(t) = 0)
  <1>1. PICK r \in Int, l \in Int, R \in Int :
            r = room /\ l = wr[t].left /\ R = Room /\ 0 <= r /\ 0 <= l /\ r <= R
    BY DEF StrTypes, StreamAssumption
  <1>2. Min({r, l}) \in {r, l} /\ Min({r, l}) <= r /\ Min({r, l}) <= l
    BY MinOfTwo
  <1>3. PICK m \in Int : m = Min({r, l})
    BY <1>2
  <1>4. Taken(t) = IF link = "up" THEN m ELSE 0
    BY <1>1, <1>3 DEF Taken
  <1>5. m \in {r, l} /\ m <= r /\ m <= l
    BY <1>2, <1>3
  <1> QED BY <1>1, <1>4, <1>5

LEMMA WriteWait ==
    ASSUME StrIInv, TaskAssumption, StreamAssumption, NEW t \in Task, WriteRound(t), write_wait(t),
           ch_wtask' = t
    PROVE  StrIInv' /\ UNCHANGED <<Pending, ch_state>>
  <1> USE DEF StrIInv, Chan
  <1>1. /\ current = t /\ co[t] = "back" /\ op[t] = "write" /\ ~Broken(t)
        /\ do_yield(t, "write", TimeLeft(wr[t].until), "channel", t_nsubs)
        /\ room' = room - Taken(t) /\ wr' = [wr EXCEPT ![t].left = @ - Taken(t)]
        /\ edge' = (edge \/ ("WRITE" \notin ch_events /\ InReady))
        /\ UNCHANGED <<ch_rbuf, ch_nshift, ch_rreqsiz, ch_line, ch_rtask, rd, link, kin, end,
                       sent, got, ch_state, ch_err, loopVars, now>>
    BY DEF WriteRound, write_wait, ch_addwrite, bufVars, dataVars, historyVars
  <1>2. /\ Sched' /\ op' = [op EXCEPT ![t] = "write"] /\ co' = [co EXCEPT ![t] = "parked"]
        /\ UNCHANGED <<ret, t_prev, t_err>>
    <2>1. "write" \in OpName \ OwnCall /\ "channel" \in Obj \cup {NoObj} /\ op[t] # "join"
      BY <1>1 DEF OpName, OwnCall, StreamAssumption
    <2>2. TimeLeft(wr[t].until) \in Int
      BY DEF TimeLeft, NoTimer, StrTypes, Sched, IInv, TypeOK
    <2>3. /\ IInv' /\ JoinInv' /\ NoSignals'
          /\ op' = [op EXCEPT ![t] = "write"] /\ co' = [co EXCEPT ![t] = "parked"]
          /\ current' = None /\ UNCHANGED <<ret, t_prev, t_err>>
      BY <1>1, <2>1, <2>2, WaitsAgain DEF Sched
    <2>4. PhaseInv'
      BY <1>1 DEF Sched, PhaseInv, loopVars, Task, None
    <2> QED BY <2>3, <2>4 DEF Sched
  <1>3. /\ op'[t] = "write" /\ co'[t] = "parked"
        /\ \A v \in Task \ {t} : op'[v] = op[v] /\ co'[v] = co[v] /\ (Ended(v, 0)' <=> Ended(v, 0))
    BY <1>1, <1>2 DEF Sched, IInv, TypeOK, Ended
  <1>4. \A v \in Task \ {t} : op[v] # "write" /\ (op[v] \in {"read", "connect"} => ch_rtask = v)
    BY <1>1, Writing
  <1>5. StrTypes'
    <2>1. wr[t].left - Taken(t) \in Nat /\ room - Taken(t) \in 0..Room
      BY TakenFits
    <2>2. PICK k \in Nat : k = wr[t].left - Taken(t)
      BY <2>1
    <2>3. wr' = [wr EXCEPT ![t].left = k]
      BY <1>1, <2>2
    <2>4. wr' \in [Task -> [left : Nat, once : BOOLEAN, until : Int]]
      BY <2>2, <2>3 DEF StrTypes
    <2>5. edge' \in BOOLEAN
      BY <1>1 DEF StrTypes
    <2> QED BY <1>1, <2>1, <2>2, <2>4, <2>5 DEF StrTypes
  <1>6. UsersOK'
    <2>1. ch_rtask' # None => ch_rtask' \in Task \ {t} /\ op'[ch_rtask'] = op[ch_rtask]
      BY <1>1, <1>3 DEF StrTypes, UsersOK
    <2>2. ASSUME NEW v \in Task
          PROVE  /\ op'[v] \in {"read", "connect"} => ch_rtask' = v
                 /\ op'[v] = "write" => ch_wtask' = v
                 /\ op'[v] \in Blocking => link' # "none"
                 /\ op'[v] = "connect" => ch_state' \in {CONNECTING, ERRORED, CLOSED}
                 /\ op'[v] = "connect" /\ Ended(v, 0)' /\ ch_state' = CONNECTING /\ ch_err' = 0 =>
                        link' = "up"
      <3>1. CASE v = t
        BY <1>1, <1>3, <3>1 DEF UsersOK, Blocking
      <3>2. CASE v # t
        BY <1>1, <1>3, <1>4, <3>2 DEF UsersOK
      <3> QED BY <3>1, <3>2
    <2> QED BY <1>1, <1>3, <2>1, <2>2 DEF UsersOK
  <1>7. LinkOK' /\ StateOK'
    BY <1>1 DEF LinkOK, StateOK, StateTrue
  <1>8. ReaderOK'
    <2>1. ASSUME NEW v \in Task, op'[v] = "read"
          PROVE  op[v] = "read" /\ co'[v] = co[v]
      BY <1>3, <2>1
    <2>2. ASSUME ch_line # <<>>, ch_state >= 0
          PROVE  \E v \in Task : op'[v] = "read" /\ rd'[v].bytes = Line /\ Ended(v, 0)'
      <3>1. PICK v \in Task : op[v] = "read" /\ rd[v].bytes = Line /\ Ended(v, 0)
        BY <2>2 DEF ReaderOK
      <3>2. v # t
        BY <1>1, <3>1
      <3> QED BY <1>1, <1>3, <3>1, <3>2
    <2> QED BY <1>1, <2>1, <2>2 DEF ReaderOK
  <1>9. UNCHANGED Pending
    BY <1>1 DEF Pending
  <1>10. Content'
    BY <1>1, <1>9 DEF Content, Follows
  <1> QED BY <1>1, <1>2, <1>5, <1>6, <1>7, <1>8, <1>9, <1>10

LEMMA WriteStep ==
    ASSUME StrIInv, TaskAssumption, StreamAssumption, NEW t \in Task, write_step(t)
    PROVE  /\ StrIInv' /\ UNCHANGED <<end, got, eof, Phase>>
           /\ UNCHANGED Pending \/ (Pending' = <<>> /\ (end = "reset" \/ Pipe))
  <1> USE DEF StrIInv, Chan
  <1>1. /\ WriteRound(t)
        /\ UNCHANGED <<link, kin, end, got, eof, ch_rbuf, ch_nshift, ch_line>>
        /\ \/ write_fails(t) /\ WriterGone(t)
           \/ write_error(t) /\ WriterGone(t)
           \/ write_returns(t) /\ WriterGone(t)
           \/ write_wait(t) /\ ch_wtask' = t
    BY DEF write_step, WriteRound, WriterGone, bufVars, dataVars, historyVars
  <1>2. CASE write_fails(t) /\ WriterGone(t)
    <2>1. /\ write_ends(t) /\ UNCHANGED <<ch_state, ch_err, room, edge, readyVars>>
      BY <1>2 DEF write_fails
    <2>2. StrIInv'
      BY <1>2, <2>1, WriteOver DEF StrTypes
    <2> QED BY <1>1, <2>1, <2>2 DEF Phase, Pending
  <1>3. CASE write_error(t) /\ WriterGone(t)
    <2>1. /\ ~Broken(t) /\ WriteFails /\ ch_state' = ERRORED /\ ch_err' = ECONN
          /\ wake(ch_rtask, ECONN) /\ write_ends(t) /\ UNCHANGED <<room, edge>>
      BY <1>3 DEF write_error
    <2>2. ch_state >= 0
      BY <2>1 DEF Broken, StrTypes, CLOSED, ERRORED, HALFCLOSED, CONNECTING, ESTABLISHED, READABLE
    <2>3. StrIInv'
      BY <1>3, <2>1, <2>2, WriteOver DEF StrTypes
    <2>4. Phase' = Phase
      BY <1>1, <2>1, <2>2 DEF Phase, CLOSED, ERRORED
    <2>5. Pending' = <<>>
      BY <2>1 DEF Pending, ERRORED
    <2>6. link = "refused" => Pending = <<>>
      <3>1. link = "refused" => sent = 0
        BY DEF LinkOK
      <3>2. Len(Pending) \in Nat /\ Len(got) \in Nat /\ Pending \in Seq(Nat)
        BY PendingType
      <3>3. link = "refused" => Len(Pending) = 0
        BY <2>2, <3>1, <3>2 DEF Content, Follows
      <3> QED BY <3>2, <3>3, EmptySeq
    <2> QED BY <1>1, <2>1, <2>3, <2>4, <2>5, <2>6 DEF WriteFails
  <1>4. CASE write_returns(t) /\ WriterGone(t)
    <2>1. /\ write_ends(t) /\ UNCHANGED <<ch_state, ch_err, readyVars>>
          /\ room' = room - Taken(t)
      BY <1>4 DEF write_returns
    <2>2. edge' \in BOOLEAN
      BY <1>4 DEF write_returns, ch_addwrite, StrTypes
    <2>3. room' \in 0..Room
      <3>1. room - Taken(t) \in 0..Room
        BY TakenFits
      <3> QED BY <2>1, <3>1
    <2>4. StrIInv'
      BY <1>4, <2>1, <2>2, <2>3, WriteOver
    <2> QED BY <1>1, <2>1, <2>4 DEF Phase, Pending
  <1>5. CASE write_wait(t) /\ ch_wtask' = t
    BY <1>1, <1>5, WriteWait DEF Phase
  <1> QED BY <1>1, <1>2, <1>3, <1>4, <1>5

---------------------------------------------------------------------------
(* close and connect *)

\* The stream is over: nothing is left of it.
Over ==
    /\ Phase = "open" /\ Phase' = "closed" /\ end' = "no" /\ Pending' = <<>>
    /\ UNCHANGED <<got, eof>>

LEMMA Closing ==
    ASSUME StrIInv, StreamAssumption, NEW reader, closing(reader), ch_state # CLOSED, Sched',
           UNCHANGED <<rd, wr, sent, got, eof>>, ch_rtask' \in {ch_rtask, None},
           ch_rtask' # None => op'[ch_rtask'] \in {"read", "connect"},
           ch_wtask # None => op'[ch_wtask] = "write",
           \A v \in Task :
               /\ op'[v] \in {"read", "connect"} =>
                      ch_rtask' = v \/ (ch_rtask' = None /\ co'[v] = "back" /\ op'[v] = "read")
               /\ op'[v] = "write" => ch_wtask = v \/ (ch_wtask = None /\ co'[v] = "back")
    PROVE  StrIInv' /\ Over
  <1> USE DEF StrIInv, Chan
  <1>1. /\ ch_state' = CLOSED /\ ch_err' = EBADF
        /\ ch_rbuf' = <<>> /\ ch_nshift' = 0 /\ ch_rreqsiz' = 0
        /\ link' = "closed" /\ kin' = <<>> /\ end' = "no" /\ room' = Room /\ edge' = FALSE
        /\ UNCHANGED <<ch_line, ch_wtask>>
    BY DEF closing
  <1>2. <<>> \in Seq(Nat) /\ Len(<<>>) <= RBufSiz /\ 0 \in 0..Len(<<>>)
    <2>1. <<>> \in Seq(Nat) /\ Len(<<>>) = 0
      OBVIOUS
    <2> QED BY <2>1 DEF StreamAssumption
  <1>3. Room \in 0..Room
    BY DEF StreamAssumption
  <1>4. StrTypes'
    <2>1. /\ ch_state' \in {CLOSED, ERRORED, HALFCLOSED, CONNECTING, ESTABLISHED, READABLE}
          /\ ch_rbuf' \in Seq(Nat) /\ Len(ch_rbuf') <= RBufSiz /\ ch_nshift' \in 0..Len(ch_rbuf')
      BY <1>1, <1>2
    <2>2. /\ ch_line' \in Seq(Nat) /\ kin' \in Seq(Nat) /\ got' \in Seq(Nat)
          /\ rd' \in [Task -> [bytes : Nat, neg : BOOLEAN, until : Int]]
          /\ wr' \in [Task -> [left : Nat, once : BOOLEAN, until : Int]]
          /\ sent' \in 0..MaxByte
      BY <1>1, <1>2 DEF StrTypes
    <2>3. /\ ch_rtask' \in Task \cup {None} /\ ch_wtask' \in Task \cup {None}
          /\ link' \in {"none", "connecting", "up", "refused", "closed"}
          /\ end' \in {"no", "fin", "reset"}
          /\ room' \in 0..Room /\ edge' \in BOOLEAN
      BY <1>1, <1>3 DEF StrTypes
    <2> QED BY <2>1, <2>2, <2>3 DEF StrTypes
  <1>5. UsersOK'
    BY <1>1 DEF UsersOK, CLOSED, CONNECTING
  <1>6. LinkOK' /\ StateOK' /\ ReaderOK' /\ Content'
    BY <1>1 DEF LinkOK, StateOK, StateTrue, ReaderOK, Content, CLOSED, ERRORED, HALFCLOSED,
                ESTABLISHED, READABLE
  <1>7. Over
    BY <1>1 DEF Over, Phase, Pending, CLOSED
  <1> QED BY <1>4, <1>5, <1>6, <1>7

LEMMA CloseStr ==
    ASSUME StrIInv, StreamAssumption, NEW t \in Task, Running(t), close(t)
    PROVE  StrIInv' /\ Over
  <1> USE DEF StrIInv, Chan
  <1>1. /\ ch_state # CLOSED /\ closing(ch_rtask)
        /\ wake_both(ch_rtask, 0, ch_wtask, 0)
        /\ UNCHANGED <<ch_rtask, rd, wr, sent, got, eof, taskVars, coVars, loopVars, now>>
    BY DEF close, closing, close_wakes
  <1>2. current = t /\ op[t] = "none"
    BY DEF Running, Sched, JoinInv, OpInside, NoSignals
  <1>3. /\ ch_rtask # None => op[ch_rtask] \in {"read", "connect"} /\ ch_rtask # current
        /\ ch_wtask # None => op[ch_wtask] = "write" /\ ch_wtask # current
    BY <1>2 DEF UsersOK
  <1>4. Step(ch_rtask, 0, ch_wtask, 0)
    <2>1. current # None /\ 0 \in Errno
      BY <1>2 DEF Task, None, Errno
    <2>2. ch_rtask \in Task \cup {None} /\ ch_wtask \in Task \cup {None}
      BY DEF StrTypes
    <2> QED BY <1>1, <1>3, <2>1, <2>2 DEF Step, Blocking, loopVars
  <1>5. Sched'
    BY <1>4, ChannelSteps
  <1>6. UNCHANGED <<op, co>>
    BY <1>1 DEF coVars
  <1> QED BY <1>1, <1>3, <1>5, <1>6, Closing DEF UsersOK

\* connect of a channel without a connection begins one, or waits for it.
Opened == Phase = "new" /\ Phase' = "open" /\ UNCHANGED <<Pending, got, eof>>

\* A channel without a connection is empty, and nobody is in its calls.
LEMMA NoConnection ==
    ASSUME Chan, link = "none"
    PROVE  /\ kin = <<>> /\ end = "no" /\ ch_rbuf = <<>> /\ ch_line = <<>> /\ got = <<>> /\ sent = 0
           /\ ch_nshift = 0 /\ ch_state = CLOSED /\ ch_rtask = None /\ ch_wtask = None
           /\ \A v \in Task : op[v] \notin Blocking
  <1> USE DEF Chan
  <1>1. \A v \in Task : op[v] \notin Blocking
    BY DEF UsersOK
  <1>2. ch_rtask = None /\ ch_wtask = None
    BY <1>1 DEF UsersOK, StrTypes, Blocking
  <1>3. ch_rbuf = <<>> => ch_nshift = 0
    <2>1. Len(<<>>) = 0
      OBVIOUS
    <2> QED BY <2>1 DEF StrTypes
  <1> QED BY <1>1, <1>2, <1>3 DEF LinkOK

LEMMA NewConnection ==
    ASSUME Chan, link = "none", Sched',
           UNCHANGED <<ch_err, bufVars, ch_wtask, rd, wr, kin, end, room, edge, historyVars>>,
           \/ /\ link' = "up" /\ ch_state' = ESTABLISHED /\ ch_rtask' = None
              /\ \A v \in Task : op'[v] \notin Blocking
           \/ \E t \in Task :
                  /\ link' = "connecting" /\ ch_state' = CONNECTING /\ ch_rtask' = t
                  /\ op'[t] = "connect" /\ co'[t] = "parked" /\ ~t_prev'[t]
                  /\ \A v \in Task \ {t} : op'[v] \notin Blocking
    PROVE  StrIInv' /\ Opened
  <1> USE DEF StrIInv, Chan
  <1>1. UNCHANGED <<ch_err, ch_rbuf, ch_nshift, ch_rreqsiz, ch_line, ch_wtask, rd, wr, kin, end,
                    room, edge, sent, got, eof>>
    BY DEF bufVars, dataVars, historyVars
  <1>2. /\ kin = <<>> /\ end = "no" /\ ch_rbuf = <<>> /\ ch_line = <<>> /\ got = <<>> /\ sent = 0
        /\ ch_nshift = 0 /\ ch_state = CLOSED /\ ch_wtask = None
    BY NoConnection
  <1>3. /\ link' \in {"up", "connecting"} /\ ch_state' \in {CONNECTING, ESTABLISHED}
        /\ link' = "up" <=> ch_state' = ESTABLISHED
        /\ ch_rtask' \in Task \cup {None}
    BY DEF CONNECTING, ESTABLISHED
  <1>4. StrTypes'
    BY <1>1, <1>3 DEF StrTypes
  <1>5. UsersOK'
    <2>1. CASE /\ link' = "up" /\ ch_state' = ESTABLISHED /\ ch_rtask' = None
               /\ \A v \in Task : op'[v] \notin Blocking
      BY <1>1, <1>2, <2>1 DEF UsersOK, Blocking, ESTABLISHED, CONNECTING
    <2>2. ASSUME NEW t \in Task,
                 /\ link' = "connecting" /\ ch_state' = CONNECTING /\ ch_rtask' = t
                 /\ op'[t] = "connect" /\ co'[t] = "parked" /\ ~t_prev'[t]
                 /\ \A v \in Task \ {t} : op'[v] \notin Blocking
          PROVE  UsersOK'
      <3>1. ~Ended(t, 0)' /\ t # None
        BY <2>2 DEF Ended, Task, None
      <3> QED BY <1>1, <1>2, <2>2, <3>1 DEF UsersOK, Blocking
    <2> QED BY <2>1, <2>2
  <1>6. LinkOK' /\ StateOK'
    BY <1>1, <1>2, <1>3 DEF LinkOK, StateOK, StateTrue, CLOSED, ERRORED, HALFCLOSED, CONNECTING,
                            ESTABLISHED, READABLE
  <1>7. ReaderOK'
    BY <1>1, <1>2 DEF ReaderOK, Blocking
  <1>8. Pending = <<>> /\ Pending' = <<>>
    <2>1. Rest' = Rest
      BY <1>1 DEF Rest
    <2>2. Rest = <<>>
      <3>1. without(<<>>, 0) = <<>> /\ Cat(<<>>, <<>>) = <<>>
        <4>1. <<>> \in Seq(Nat)
          OBVIOUS
        <4>2. PICK e \in Seq(Nat) : e = <<>>
          BY <4>1
        <4> QED BY <4>2, NothingOut
      <3> QED BY <1>2, <3>1 DEF Rest
    <2> QED BY <2>1, <2>2, PendingIs
  <1>9. Content'
    BY <1>1, <1>2, <1>8, EmptySeq DEF Content, Follows
  <1>10. Opened
    BY <1>1, <1>2, <1>3, <1>8 DEF Opened, Phase, CLOSED, CONNECTING, ESTABLISHED
  <1> QED BY <1>4, <1>5, <1>6, <1>7, <1>9, <1>10

LEMMA ConnectStr ==
    ASSUME StrIInv, Peaceful, TaskAssumption, StreamAssumption, NEW t \in Task, InProgram(t),
           NEW sec \in RdSecs, connect(t, sec)
    PROVE  StrIInv' /\ Opened
  <1> USE DEF StrIInv
  <1>1. /\ link = "none"
        /\ UNCHANGED <<ch_err, bufVars, ch_wtask, rd, wr, kin, end, room, edge, historyVars,
                       loopVars, now>>
    BY DEF connect
  <1>2. ch_rtask = None /\ \A v \in Task : op[v] \notin Blocking
    BY <1>1, NoConnection
  <1>3. CASE /\ link' = "up" /\ ch_state' = ESTABLISHED
             /\ UNCHANGED <<ch_rtask, readyVars, taskVars, coVars>>
    <2>1. Sched'
      BY <1>1, <1>3, SchedulerSteps DEF vars
    <2> QED BY <1>1, <1>2, <1>3, <2>1, NewConnection DEF coVars
  <1>4. CASE /\ link' = "connecting" /\ ch_state' = CONNECTING /\ ch_rtask' = t
             /\ do_yield(t, "connect", sec, "channel", t_nsubs)
    <2>1. current = t /\ co[t] = "run" /\ op[t] = "none" /\ ~t_prev[t]
      BY DEF InProgram, Sched, JoinInv, OpInside, IInv, OnePlace
    <2>2. /\ "connect" \in OpName \ OwnCall /\ "channel" \in Obj \cup {NoObj} /\ sec \in Int
      BY DEF OpName, OwnCall, StreamAssumption
    <2>3. /\ IInv' /\ JoinInv' /\ NoSignals'
          /\ op' = [op EXCEPT ![t] = "connect"] /\ co' = [co EXCEPT ![t] = "parked"]
          /\ UNCHANGED <<ret, t_prev, t_err>>
      BY <1>1, <1>4, <2>1, <2>2, WaitsAgain DEF Sched
    <2>4. PhaseInv'
      BY <1>1, <2>1 DEF Sched, PhaseInv, loopVars, Task, None
    <2>5. Sched'
      BY <2>3, <2>4 DEF Sched
    <2>6. /\ op'[t] = "connect" /\ co'[t] = "parked" /\ ~t_prev'[t]
          /\ \A v \in Task \ {t} : op'[v] \notin Blocking
      BY <1>2, <2>1, <2>3 DEF Sched, IInv, TypeOK
    <2> QED BY <1>1, <1>4, <2>5, <2>6, NewConnection
  <1> QED BY <1>3, <1>4 DEF connect

\* A task whose connect has ended without an error finds the connection up.
LEMMA Connected ==
    ASSUME StrIInv, NEW t \in Task, current = t, co[t] = "back", op[t] = "connect",
           ret[t] = 0, ch_err = 0
    PROVE  ch_state = CONNECTING /\ link = "up"
  <1> USE DEF StrIInv, Chan
  <1>1. ch_state \in {CONNECTING, ERRORED, CLOSED} /\ link # "none"
    BY DEF UsersOK, Blocking
  <1>2. ch_state # ERRORED /\ ch_state # CLOSED
    BY <1>1 DEF LinkOK, ECONN, EPIPE, EBADF
  <1>3. Ended(t, 0)
    BY DEF Ended
  <1> QED BY <1>1, <1>2, <1>3 DEF UsersOK

LEMMA ConnectReturn ==
    ASSUME StrIInv, StreamAssumption, NEW t \in Task, connect_return(t)
    PROVE  /\ StrIInv'
           /\ Over \/ UNCHANGED <<Pending, got, eof, end, Phase>>
  <1> USE DEF StrIInv, Chan
  <1>1. /\ current = t /\ co[t] = "back" /\ op[t] = "connect" /\ ch_rtask' = None /\ returns(t)
        /\ UNCHANGED <<rd, wr, sent, got, eof, loopVars, now>>
    BY DEF connect_return
  <1>2. /\ \A v \in Task \ {t} : op[v] \notin {"read", "connect"}
        /\ ch_rtask = t
    BY <1>1, OneUser DEF Sched, UsersOK
  <1>3. ch_wtask # None => ch_wtask \in Task \ {t} /\ op[ch_wtask] = "write"
    BY <1>1 DEF UsersOK, StrTypes
  <1>4. ASSUME UNCHANGED <<ch_err, ch_rbuf, ch_nshift, ch_rreqsiz, ch_line, ch_wtask, link, kin,
                           end, room, readyVars>>,
               edge' \in BOOLEAN,
               \/ ch_state = CONNECTING /\ ch_state' = ESTABLISHED /\ link = "up"
               \/ ch_state = CLOSED /\ ch_state' = CLOSED
        PROVE  StrIInv' /\ UNCHANGED <<Pending, got, eof, end, Phase>>
    <2>1. op[t] \in Blocking /\ wake_both(None, 0, None, 0) /\ 0 \in Errno
      BY <1>1, <1>4, NobodyWoken DEF Blocking, Errno, Sched
    <2>2. /\ Sched' /\ op'[t] = "none"
          /\ \A v \in Task \ {t} : op'[v] = op[v] /\ co'[v] = co[v]
      BY <1>1, <2>1, Returned
    <2>3. StrTypes'
      BY <1>1, <1>4 DEF StrTypes
    <2>4. \A v \in Task : op'[v] \notin {"read", "connect"}
      BY <1>2, <2>2
    <2>5. UsersOK'
      <3>1. ASSUME NEW v \in Task
            PROVE  /\ op'[v] = "write" => ch_wtask' = v \/ (ch_wtask' = None /\ co'[v] = "back")
                   /\ op'[v] \in Blocking => link' # "none"
        <4>1. CASE v = t
          BY <2>2, <4>1 DEF Blocking
        <4>2. CASE v # t
          BY <1>4, <2>2, <4>2 DEF UsersOK
        <4> QED BY <4>1, <4>2
      <3>2. ch_state' # CONNECTING
        BY <1>4 DEF CONNECTING, ESTABLISHED, CLOSED
      <3>3. ch_wtask' # None => op'[ch_wtask'] = "write"
        BY <1>3, <1>4, <2>2
      <3> QED BY <1>1, <2>4, <3>1, <3>2, <3>3 DEF UsersOK
    <2>6. LinkOK' /\ StateOK'
      BY <1>1, <1>4 DEF LinkOK, StateOK, StateTrue, CLOSED, ERRORED, HALFCLOSED, CONNECTING,
                         ESTABLISHED, READABLE
    <2>7. ReaderOK'
      <3>1. ch_state' >= 0 => ch_state >= 0
        BY <1>4 DEF CONNECTING, CLOSED
      <3>2. ch_state >= 0 => ch_line = <<>>
        BY <1>1, <1>2 DEF ReaderOK
      <3> QED BY <1>4, <2>4, <3>1, <3>2 DEF ReaderOK
    <2>8. ch_state' < 0 <=> ch_state < 0
      BY <1>4 DEF CONNECTING, CLOSED, ESTABLISHED
    <2>9. Pending' = Pending
      BY <1>4, <2>8 DEF Pending
    <2>10. Content'
      <3>1. ch_state' >= 0 => ch_state >= 0
        BY <1>4 DEF CONNECTING, CLOSED
      <3> QED BY <1>1, <2>9, <3>1 DEF Content, Follows
    <2>11. Phase' = Phase
      BY <1>4 DEF Phase, CLOSED, CONNECTING, ESTABLISHED
    <2> QED BY <1>1, <1>4, <2>2, <2>3, <2>5, <2>6, <2>7, <2>9, <2>10, <2>11
  <1>5. CASE /\ ret[t] = 0 /\ ch_err = 0 /\ ch_state' = ESTABLISHED
             /\ edge' = (edge \/ InReady)
             /\ UNCHANGED <<ch_err, bufVars, ch_wtask, link, kin, end, room, readyVars>>
    <2>1. ch_state = CONNECTING /\ link = "up"
      BY <1>1, <1>5, Connected
    <2>2. edge' \in BOOLEAN
      BY <1>5
    <2> QED BY <1>4, <1>5, <2>1, <2>2 DEF bufVars, dataVars
  <1>6. CASE ch_state # CLOSED /\ closing(None)
    <2>1. wake_both(None, 0, ch_wtask, 0)
      BY <1>6 DEF closing, close_wakes
    <2>2. Moves(t)
      BY <1>1 DEF returns, Moves, OpName
    <2>3. Step(None, 0, ch_wtask, 0)
      <3>1. current # None /\ 0 \in Errno /\ ch_wtask \in Task \cup {None}
        BY <1>1 DEF Task, None, Errno, StrTypes
      <3>2. \A v \in {None, ch_wtask} \ {None} : op[v] \in Blocking /\ v # current
        BY <1>1, <1>3 DEF Blocking
      <3>3. UNCHANGED <<taskVars, batch, now, at, caller>>
        BY <1>1 DEF returns, loopVars
      <3> QED BY <2>1, <2>2, <3>1, <3>2, <3>3 DEF Step
    <2>4. /\ Sched'
          /\ \A v \in Task \ {t} : op'[v] = op[v] /\ co'[v] = co[v]
      BY <1>1, <2>3, ChannelSteps
    <2>5. op'[t] = "none"
      BY <1>1 DEF returns, Sched, IInv, TypeOK
    <2>6. \A v \in Task : /\ op'[v] \notin {"read", "connect"}
                          /\ op'[v] = "write" => ch_wtask = v \/ (ch_wtask = None /\ co'[v] = "back")
      BY <1>2, <2>4, <2>5 DEF UsersOK
    <2>7. ch_wtask # None => op'[ch_wtask] = "write"
      BY <1>3, <2>4
    <2> QED BY <1>1, <1>6, <2>4, <2>6, <2>7, Closing
  <1>7. CASE /\ ch_state = CLOSED
             /\ UNCHANGED <<ch_state, ch_err, ch_events, bufVars, ch_wtask, kernelVars, slip,
                            readyVars>>
    <2>1. edge' \in BOOLEAN
      BY <1>7 DEF kernelVars, StrTypes
    <2> QED BY <1>4, <1>7, <2>1 DEF bufVars, dataVars, kernelVars
  <1> QED BY <1>5, <1>6, <1>7 DEF connect_return

---------------------------------------------------------------------------
(* The event handler *)

\* The handler is called while nobody runs or is on the way to be resumed.
LEMMA EventStep ==
    ASSUME Sched, StrTypes, UsersOK, Idle("poll"),
           NEW a \in {ch_rtask, ch_wtask, None}, NEW e \in Errno,
           NEW u \in {ch_rtask, ch_wtask, None}, NEW f \in Errno, wake_both(a, e, u, f),
           UNCHANGED <<taskVars, coVars, batch, now>>, at' = "resume_list", caller' = "events"
    PROVE  /\ Sched' /\ UNCHANGED <<op, co>>
           /\ \A v \in Task : /\ op[v] # "none" => co[v] = "parked"
                              /\ ~Ended(v, 0)
                              /\ t_prev'[v] <=> v \in {a, u}
                              /\ Ended(v, 0)' <=> v \in {a, u} /\ 0 = IF v = a THEN e ELSE f
  <1>1. Step(a, e, u, f)
    <2>1. a \in Task \cup {None} /\ u \in Task \cup {None}
      BY DEF StrTypes
    <2>2. \A v \in {a, u} \ {None} : op[v] \in Blocking /\ v # current
      BY <2>1 DEF UsersOK, Blocking, Idle
    <2> QED BY <2>1, <2>2 DEF Step
  <1>2. /\ Sched'
        /\ \A v \in Task : /\ t_prev'[v] <=> t_prev[v] \/ v \in {a, u}
                           /\ \A x : Ended(v, x)' <=> \/ Ended(v, x)
                                                      \/ /\ v \in {a, u} /\ ~t_prev[v]
                                                         /\ x = IF v = a THEN e ELSE f
    BY <1>1, ChannelSteps
  <1>3. \A v \in Task : /\ ~t_prev[v] /\ co[v] \notin {"run", "back"}
                        /\ \A x : ~Ended(v, x)
    BY AtPoll
  <1>4. \A v \in Task : op[v] # "none" => co[v] = "parked"
    BY <1>3 DEF Sched, JoinInv, OpInside, NoSignals
  <1>5. UNCHANGED <<op, co>>
    BY DEF coVars
  <1> QED BY <1>2, <1>3, <1>4, <1>5

\* The users of the channel stay.
LEMMA EventUsers ==
    ASSUME UsersOK, UNCHANGED <<op, co, ch_rtask, ch_wtask, link>>,
           ch_state \in {ESTABLISHED, READABLE, HALFCLOSED} \/ ch_state' = ch_state,
           ch_state' = CONNECTING => ch_state = CONNECTING /\ (ch_err' = 0 => link = "up")
    PROVE  UsersOK'
  <1>1. ASSUME NEW v \in Task, op'[v] = "connect"
        PROVE  /\ ch_state' \in {CONNECTING, ERRORED, CLOSED}
               /\ ch_state' = CONNECTING /\ ch_err' = 0 => link' = "up"
    BY <1>1 DEF UsersOK, CLOSED, ERRORED, HALFCLOSED, CONNECTING, ESTABLISHED, READABLE
  <1>2. \A v \in Task :
            /\ op'[v] \in {"read", "connect"} =>
                   ch_rtask' = v \/ (ch_rtask' = None /\ co'[v] = "back" /\ op'[v] = "read")
            /\ op'[v] = "write" => ch_wtask' = v \/ (ch_wtask' = None /\ co'[v] = "back")
            /\ op'[v] \in Blocking => link' # "none"
    BY DEF UsersOK
  <1>3. /\ ch_rtask' # None => op'[ch_rtask'] \in {"read", "connect"}
        /\ ch_wtask' # None => op'[ch_wtask'] = "write"
        /\ ch_state' = CONNECTING => ch_rtask' # None /\ op'[ch_rtask'] = "connect"
    BY DEF UsersOK
  <1> QED BY <1>1, <1>2, <1>3 DEF UsersOK

\* The handlers that do not read.
LEMMA EventAside ==
    ASSUME StrIInv, Idle("poll"), on_writable \/ on_connected \/ on_errored,
           at' = "resume_list", caller' = "events",
           UNCHANGED <<taskVars, coVars, batch, now, ch_rtask, ch_wtask, rd, wr, link, end, room,
                       sent, got, eof>>
    PROVE  StrIInv' /\ UNCHANGED <<Pending, ch_state>>
  <1> USE DEF StrIInv, Chan
  <1>1. /\ UNCHANGED <<ch_rbuf, ch_nshift, ch_rreqsiz, ch_line, ch_state, kin>>
        /\ edge' \in BOOLEAN
    BY DEF on_writable, on_connected, on_errored, bufVars, dataVars
  <1>2. PICK a \in {ch_rtask, ch_wtask, None} : wake_both(a, 0, None, 0)
    BY NobodyWoken DEF on_writable, on_connected, on_errored, wake, Sched
  <1>3. Sched' /\ UNCHANGED <<op, co>> /\ \A v \in Task : ~Ended(v, 0)
    <2>1. 0 \in Errno /\ None \in {ch_rtask, ch_wtask, None}
      BY DEF Errno
    <2> QED BY <1>2, <2>1, EventStep
  <1>4. /\ ch_state' # CONNECTING => ch_err' = ch_err
        /\ ch_state' = CONNECTING => (ch_err' = 0 => link = "up")
    BY <1>1 DEF on_writable, on_connected, so_error, on_errored, CLOSED, ERRORED, HALFCLOSED, CONNECTING,
                ESTABLISHED, READABLE, ECONN, EPIPE
  <1>5. StrTypes'
    BY <1>1 DEF StrTypes
  <1>6. UsersOK'
    BY <1>1, <1>3, <1>4, EventUsers
  <1>7. LinkOK' /\ StateOK'
    BY <1>1, <1>4 DEF LinkOK, StateOK, StateTrue, CLOSED, ERRORED, HALFCLOSED, CONNECTING,
                      ESTABLISHED, READABLE
  <1>8. ReaderOK'
    BY <1>1, <1>3 DEF ReaderOK
  <1>9. UNCHANGED Pending
    BY <1>1 DEF Pending
  <1>10. Content'
    BY <1>1, <1>9 DEF Content, Follows
  <1> QED BY <1>1, <1>3, <1>5, <1>6, <1>7, <1>8, <1>9, <1>10

\* A line that is taken out of the buffer, and what is left of it.
LEMMA LineOut ==
    ASSUME NEW b \in Seq(Nat), NEW line \in {first_line(b), <<>>}
    PROVE  /\ line \in Seq(Nat) /\ Len(line) \in 0..Len(b)
           /\ without(b, Len(line)) \in Seq(Nat) /\ Len(without(b, Len(line))) = Len(b) - Len(line)
           /\ Cat(line, without(b, Len(line))) = b
           /\ line = <<>> => without(b, Len(line)) = b
           /\ line = Prefix(b, Len(line))
  <1>1. \E m \in 0..Len(b) : line = Prefix(b, m)
    <2>1. CASE line = <<>>
      <3>1. 0 \in 0..Len(b)
        BY LenProperties
      <3>2. Prefix(b, 0) = <<>>
        BY <3>1, PrefixProperties
      <3> QED BY <2>1, <3>1, <3>2
    <2>2. CASE line = first_line(b) /\ line # <<>>
      <3>1. PICK m \in 1..Len(b) : first_line(b) = SubSeq(b, 1, m)
        BY <2>2, FirstLine
      <3>2. m \in 0..Len(b)
        BY <3>1
      <3> QED BY <2>2, <3>1, <3>2 DEF Prefix
    <2> QED BY <2>1, <2>2
  <1>2. PICK m \in 0..Len(b) : line = Prefix(b, m)
    BY <1>1
  <1>3. /\ Prefix(b, m) \in Seq(Nat) /\ Len(Prefix(b, m)) = m
        /\ without(b, m) \in Seq(Nat) /\ Len(without(b, m)) = Len(b) - m
        /\ Cat(Prefix(b, m), without(b, m)) = b
        /\ m = 0 => without(b, m) = b
    BY <1>2, PrefixProperties
  <1>4. Len(line) = m
    BY <1>2, <1>3
  <1>5. line = <<>> => m = 0
    <2>1. Len(<<>>) = 0
      OBVIOUS
    <2> QED BY <1>4, <2>1
  <1>6. /\ line \in Seq(Nat) /\ Cat(line, without(b, m)) = b
        /\ line = <<>> => without(b, m) = b
    BY <1>2, <1>3, <1>5
  <1>7. Len(line) \in 0..Len(b)
    BY <1>2, <1>4
  <1>8. /\ without(b, Len(line)) \in Seq(Nat) /\ Len(without(b, Len(line))) = Len(b) - Len(line)
        /\ line = Prefix(b, Len(line))
    BY <1>2, <1>3, <1>4
  <1>9. /\ Cat(line, without(b, Len(line))) = b
        /\ line = <<>> => without(b, Len(line)) = b
    BY <1>4, <1>6
  <1> QED BY <1>6, <1>7, <1>8, <1>9

\* A line out of a buffer from which nothing has been returned stays in the
\* stream.
LEMMA RestLined ==
    ASSUME StrTypes, StreamAssumption, NEW f, f = stream_channel_read,
           NEW line \in {first_line(f.rbuf), <<>>},
           ch_line = <<>>, line # <<>> => ch_nshift = 0,
           ch_line' = line, ch_rbuf' = without(f.rbuf, Len(line)), kin' = f.kin,
           UNCHANGED ch_nshift
    PROVE  /\ Rest' = Rest /\ ch_nshift \in 0..Len(ch_rbuf')
           /\ ch_line' \in Seq(Nat) /\ ch_rbuf' \in Seq(Nat) /\ Len(ch_rbuf') <= RBufSiz
  <1>1. /\ f.rbuf \in Seq(Nat) /\ f.kin \in Seq(Nat) /\ Len(f.rbuf) <= RBufSiz
        /\ \A k \in 0..Len(ch_rbuf) : Cat(without(f.rbuf, k), f.kin) = Cat(without(ch_rbuf, k), kin)
    BY KernelRead
  <1>2. PICK b \in Seq(Nat), k \in Seq(Nat) : b = f.rbuf /\ k = f.kin
    BY <1>1
  <1>3. /\ line \in Seq(Nat) /\ Len(line) \in 0..Len(b)
        /\ without(b, Len(line)) \in Seq(Nat) /\ Len(without(b, Len(line))) = Len(b) - Len(line)
        /\ Cat(line, without(b, Len(line))) = b
        /\ line = <<>> => without(b, Len(line)) = b
    <2>1. line \in {first_line(b), <<>>}
      BY <1>2
    <2> QED BY <2>1, LineOut
  <1>4. Len(ch_rbuf') <= RBufSiz
    <2>1. PICK lb \in Nat, ll \in Nat : lb = Len(b) /\ ll = Len(line) /\ ll <= lb
      BY <1>3, LenProperties
    <2> QED BY <1>1, <1>2, <1>3, <2>1 DEF StreamAssumption
  <1>5. CASE line = <<>>
    <2>1. ch_rbuf' = f.rbuf /\ ch_line' = ch_line
      BY <1>2, <1>3, <1>5
    <2> QED BY <1>2, <1>3, <1>4, <2>1, RestMoved
  <1>6. CASE line # <<>>
    <2>1. PICK c \in Seq(Nat) : c = without(b, Len(line))
      BY <1>3
    <2>2. without(c, 0) = c /\ 0 \in 0..Len(c)
      <3>1. 0 \in 0..Len(c)
        BY LenProperties
      <3> QED BY <3>1, PrefixProperties
    <2>3. ch_nshift = 0 /\ ch_nshift' = 0
      BY <1>6
    <2>4. Rest' = Cat(b, k)
      BY <1>2, <1>3, <2>1, <2>2, <2>3 DEF Rest
    <2>5. Rest = Cat(ch_rbuf, kin)
      <3>1. 0 \in 0..Len(ch_rbuf)
        BY <2>3 DEF StrTypes
      <3> QED BY <2>3, <3>1, FirstOfRest
    <2>6. Cat(b, k) = Cat(ch_rbuf, kin)
      <3>1. 0 \in 0..Len(ch_rbuf)
        BY <2>3 DEF StrTypes
      <3>2. Cat(without(b, 0), k) = Cat(without(ch_rbuf, 0), kin)
        BY <1>1, <1>2, <3>1
      <3>3. without(b, 0) = b
        BY NothingOut
      <3>4. without(ch_rbuf, 0) = ch_rbuf
        BY <2>3, LineFirst
      <3> QED BY <3>2, <3>3, <3>4
    <2> QED BY <1>2, <1>3, <1>4, <2>1, <2>2, <2>3, <2>4, <2>5, <2>6
  <1> QED BY <1>5, <1>6

\* The handler that reads, in parts: what it gets from the kernel, the state
\* it leaves, the line it sets aside and whom it wakes.
LEMMA OnReadable ==
    ASSUME StrIInv, StreamAssumption, Idle("poll"), on_readable, NEW f, f = stream_channel_read
    PROVE  /\ link = "up" /\ ch_line = <<>> /\ take_from_kernel(f)
           /\ \E line \in {first_line(f.rbuf), <<>>}, r \in BOOLEAN :
                  /\ ch_rbuf' = without(f.rbuf, Len(line))
                  /\ ch_line' = line
                  /\ wake_both(only_if(f.state = ERRORED, ch_wtask), ECONN, only_if(r, ch_rtask), 0)
                  /\ line # <<>> => r /\ ch_rtask # None /\ ch_rreqsiz <= 0
                  /\ line # <<>> => ch_state' > 0 /\ f.state # ERRORED
           /\ \/ ch_state' = READABLE /\ f.kin # <<>> /\ f.state # ERRORED
              \/ ch_state' = ESTABLISHED
              \/ /\ ch_state' = HALFCLOSED /\ end # "no"
                 /\ Pipe \/ end = "reset" \/ f.kin = <<>>
              \/ ch_state' = ERRORED /\ f.state = ERRORED /\ end = "reset"
           /\ ch_state' # ERRORED => f.state # ERRORED
           /\ ch_state' # ERRORED => ch_rreqsiz' = ch_rreqsiz
  <1> USE DEF StrIInv, Chan
  <1> DEFINE hup == "HUP" \in Revents /\ f.state > 0
             state == IF hup THEN HALFCLOSED ELSE f.state
             seen == ch_rtask # None /\ (f.updated \/ hup)
             line == IF seen /\ state > 0 /\ ch_rreqsiz <= 0 THEN first_line(f.rbuf) ELSE <<>>
             r == seen /\ \/ state <= 0
                          \/ ch_rreqsiz > 0 /\ Len(f.rbuf) >= ch_rreqsiz
                          \/ line # <<>>
             next_state == IF ~seen /\ f.left THEN READABLE ELSE state
  <1>1. /\ ch_state \in {ESTABLISHED, READABLE, HALFCLOSED} /\ "IN" \in Revents
        /\ take_from_kernel(f)
        /\ ch_rbuf' = without(f.rbuf, Len(line))
        /\ ch_line' = IF line # <<>> THEN line ELSE ch_line
        /\ ch_rreqsiz' = IF f.state = ERRORED THEN 0 ELSE ch_rreqsiz
        /\ ch_state' = next_state
        /\ wake_both(only_if(f.state = ERRORED, ch_wtask), ECONN, only_if(r, ch_rtask), 0)
    BY DEF on_readable
  <1>2. link = "up" /\ ch_state >= 0
    BY <1>1 DEF LinkOK, HALFCLOSED, ESTABLISHED, READABLE
  <1>3. ch_line = <<>>
    <2>1. \A v \in Task : ~Ended(v, 0)
      BY AtPoll
    <2> QED BY <1>2, <2>1 DEF ReaderOK
  <1>4. /\ f.left <=> f.updated /\ f.kin # <<>>
        /\ ~f.updated => f.kin = kin /\ f.state = ch_state
        /\ f.updated =>
               \/ f.state = READABLE /\ f.kin # <<>>
               \/ f.state = ESTABLISHED
               \/ /\ f.state = IF end = "reset" THEN ERRORED ELSE HALFCLOSED
                  /\ kin = <<>> /\ f.kin = <<>>
    BY KernelRead
  <1>5. "HUP" \in Revents => end = "reset" \/ (end = "fin" /\ Pipe)
    BY <1>2 DEF Revents
  <1>6. kin # <<>> \/ end # "no"
    BY <1>1, <1>2 DEF Revents, InReady
  <1>7. /\ f.state = ERRORED => end = "reset" /\ f.kin = <<>> /\ f.updated
        /\ f.state = HALFCLOSED => end # "no" /\ (Pipe \/ end = "reset" \/ f.kin = <<>>)
        /\ f.state = READABLE => f.kin # <<>>
        /\ f.state \in {ERRORED, HALFCLOSED, ESTABLISHED, READABLE}
    <2>1. CASE f.updated
      BY <1>4, <1>6, <2>1 DEF ERRORED, HALFCLOSED, ESTABLISHED, READABLE
    <2>2. CASE ~f.updated
      <3>1. f.state = ch_state /\ f.kin = kin
        BY <1>4, <2>2
      <3> QED BY <1>1, <3>1 DEF StateOK, StateTrue, ERRORED, HALFCLOSED, ESTABLISHED, READABLE
    <2> QED BY <2>1, <2>2
  <1>8. /\ hup => end = "reset" \/ (end = "fin" /\ Pipe)
        /\ hup => f.state > 0
        /\ state = HALFCLOSED \/ state = f.state
        /\ state = HALFCLOSED => hup \/ f.state = HALFCLOSED
    BY <1>5
  <1> HIDE DEF hup
  <1>9. /\ state = ERRORED => f.state = ERRORED
        /\ f.state = ERRORED => state = ERRORED
        /\ state > 0 => state = f.state
        /\ state = READABLE => f.kin # <<>>
        /\ state = HALFCLOSED => end # "no" /\ (Pipe \/ end = "reset" \/ f.kin = <<>>)
        /\ state \in {ERRORED, HALFCLOSED, ESTABLISHED, READABLE}
    BY <1>7, <1>8 DEF ERRORED, HALFCLOSED, ESTABLISHED, READABLE
  <1> HIDE DEF state, seen
  <1>10. line \in {first_line(f.rbuf), <<>>} /\ r \in BOOLEAN
    OBVIOUS
  <1>11. line # <<>> => r /\ seen /\ state > 0 /\ ch_rreqsiz <= 0
    OBVIOUS
  <1>12. seen => ch_rtask # None
    BY DEF seen
  <1>13. /\ \/ next_state = READABLE /\ f.kin # <<>> /\ f.state # ERRORED
            \/ next_state = state
         /\ seen => next_state = state
    BY <1>4, <1>7
  <1> HIDE DEF line, r, next_state
  <1>14. line # <<>> => ch_state' > 0 /\ f.state # ERRORED
    BY <1>1, <1>9, <1>11, <1>13 DEF ERRORED
  <1>15. \/ ch_state' = READABLE /\ f.kin # <<>> /\ f.state # ERRORED
         \/ ch_state' = ESTABLISHED
         \/ /\ ch_state' = HALFCLOSED /\ end # "no"
            /\ Pipe \/ end = "reset" \/ f.kin = <<>>
         \/ ch_state' = ERRORED /\ f.state = ERRORED /\ end = "reset"
    BY <1>1, <1>7, <1>9, <1>13 DEF READABLE, ERRORED, HALFCLOSED, ESTABLISHED
  <1>16. ch_state' # ERRORED => f.state # ERRORED
    BY <1>1, <1>9, <1>13 DEF READABLE, ERRORED
  <1>17. ch_state' # ERRORED => ch_rreqsiz' = ch_rreqsiz
    BY <1>1, <1>16
  <1>18. ch_line' = line
    BY <1>1, <1>3
  <1>19. /\ ch_rbuf' = without(f.rbuf, Len(line))
         /\ wake_both(only_if(f.state = ERRORED, ch_wtask), ECONN, only_if(r, ch_rtask), 0)
         /\ line # <<>> => r /\ ch_rtask # None /\ ch_rreqsiz <= 0
    BY <1>1, <1>11, <1>12
  <1>20. \E l \in {first_line(f.rbuf), <<>>}, q \in BOOLEAN :
             /\ ch_rbuf' = without(f.rbuf, Len(l))
             /\ ch_line' = l
             /\ wake_both(only_if(f.state = ERRORED, ch_wtask), ECONN, only_if(q, ch_rtask), 0)
             /\ l # <<>> => q /\ ch_rtask # None /\ ch_rreqsiz <= 0
             /\ l # <<>> => ch_state' > 0 /\ f.state # ERRORED
    BY <1>10, <1>14, <1>18, <1>19
  <1> QED BY <1>1, <1>2, <1>3, <1>15, <1>16, <1>17, <1>20

LEMMA ReadableStr ==
    ASSUME StrIInv, StreamAssumption, Idle("poll"), on_readable,
           at' = "resume_list", caller' = "events", edge' = FALSE,
           UNCHANGED <<taskVars, coVars, batch, now, ch_rtask, ch_wtask, rd, wr, link, end, room,
                       sent, got, eof>>
    PROVE  /\ StrIInv' /\ ch_state >= 0 /\ ch_state' >= ERRORED
           /\ IF ch_state' = ERRORED THEN end = "reset" ELSE UNCHANGED Pending
  <1> USE DEF StrIInv, Chan
  <1>1. PICK f : f = stream_channel_read
    OBVIOUS
  <1>2. /\ link = "up" /\ ch_line = <<>> /\ take_from_kernel(f)
        /\ \/ ch_state' = READABLE /\ f.kin # <<>> /\ f.state # ERRORED
           \/ ch_state' = ESTABLISHED
           \/ /\ ch_state' = HALFCLOSED /\ end # "no"
              /\ Pipe \/ end = "reset" \/ f.kin = <<>>
           \/ ch_state' = ERRORED /\ f.state = ERRORED /\ end = "reset"
        /\ ch_state' # ERRORED => f.state # ERRORED
        /\ ch_state' # ERRORED => ch_rreqsiz' = ch_rreqsiz
    BY <1>1, OnReadable
  <1>3. PICK line \in {first_line(f.rbuf), <<>>}, r \in BOOLEAN :
            /\ ch_rbuf' = without(f.rbuf, Len(line))
            /\ ch_line' = line
            /\ wake_both(only_if(f.state = ERRORED, ch_wtask), ECONN, only_if(r, ch_rtask), 0)
            /\ line # <<>> => r /\ ch_rtask # None /\ ch_rreqsiz <= 0
            /\ line # <<>> => ch_state' > 0 /\ f.state # ERRORED
    BY <1>1, OnReadable
  <1>4. ch_state \in {ESTABLISHED, READABLE, HALFCLOSED} /\ ch_state >= 0
    BY DEF on_readable, ESTABLISHED, READABLE, HALFCLOSED
  <1>5. /\ kin' = f.kin
        /\ f.state = ERRORED => ch_err' = ECONN /\ ch_nshift' = 0
        /\ f.state # ERRORED => UNCHANGED <<ch_err, ch_nshift>>
    BY <1>2 DEF take_from_kernel
  <1>6. /\ Sched' /\ UNCHANGED <<op, co>>
        /\ \A v \in Task : /\ op[v] # "none" => co[v] = "parked"
                           /\ f.state # ERRORED /\ r /\ v = ch_rtask => Ended(v, 0)'
    <2>1. PICK a \in {ch_rtask, ch_wtask, None}, u \in {ch_rtask, ch_wtask, None} :
              a = only_if(f.state = ERRORED, ch_wtask) /\ u = only_if(r, ch_rtask)
      BY DEF only_if
    <2>2. ECONN \in Errno /\ 0 \in Errno
      BY DEF ECONN, EPIPE, Errno
    <2>3. wake_both(a, ECONN, u, 0)
      BY <1>3, <2>1
    <2>4. /\ Sched' /\ UNCHANGED <<op, co>>
          /\ \A v \in Task : /\ op[v] # "none" => co[v] = "parked"
                             /\ Ended(v, 0)' <=> v \in {a, u} /\ 0 = IF v = a THEN ECONN ELSE 0
      BY <2>1, <2>2, <2>3, EventStep
    <2>5. /\ f.state # ERRORED => a = None
          /\ r => u = ch_rtask
          /\ \A v \in Task : v # None
      BY <2>1 DEF only_if, Task, None
    <2> QED BY <2>4, <2>5
  <1>7. \A v \in Task : op[v] = "read" => ch_nshift = 0 /\ ch_nshift' = 0
    BY <1>5 DEF ReaderOK
  <1>8. ASSUME line # <<>>
        PROVE  /\ ch_rtask \in Task /\ op[ch_rtask] = "read" /\ co[ch_rtask] = "parked"
               /\ rd[ch_rtask].bytes = Line /\ ch_nshift = 0 /\ UNCHANGED ch_nshift
    <2>1. ch_rtask \in Task /\ op[ch_rtask] \in {"read", "connect"} /\ ch_rreqsiz <= 0
      BY <1>3, <1>8 DEF UsersOK, StrTypes
    <2>2. op[ch_rtask] = "read"
      BY <1>4, <2>1 DEF UsersOK, CLOSED, ERRORED, HALFCLOSED, CONNECTING, ESTABLISHED, READABLE
    <2>3. co[ch_rtask] = "parked"
      BY <1>6, <2>1, <2>2
    <2>4. ch_rreqsiz = IF rd[ch_rtask].bytes = Line THEN -1 ELSE rd[ch_rtask].bytes
      BY <1>4, <2>1, <2>2, <2>3 DEF ReaderOK
    <2>5. rd[ch_rtask].bytes \in Nat
      BY <2>1 DEF StrTypes
    <2>6. rd[ch_rtask].bytes = Line
      BY <2>1, <2>4, <2>5 DEF Line
    <2> QED BY <1>7, <2>1, <2>2, <2>3, <2>6
  <1>9. CASE f.state # ERRORED
    <2>1. UNCHANGED <<ch_err, ch_nshift>>
      BY <1>5, <1>9
    <2>2. /\ Rest' = Rest /\ ch_nshift' \in 0..Len(ch_rbuf')
          /\ ch_line' \in Seq(Nat) /\ ch_rbuf' \in Seq(Nat) /\ Len(ch_rbuf') <= RBufSiz
      BY <1>1, <1>2, <1>3, <1>5, <1>8, <2>1, RestLined
    <2>3. kin' \in Seq(Nat)
      BY <1>1, <1>5, KernelRead
    <2>4. ch_state' \in {READABLE, ESTABLISHED, HALFCLOSED}
      BY <1>2, <1>9
    <2>5. StrTypes'
      BY <2>2, <2>3, <2>4 DEF StrTypes
    <2>6. UsersOK'
      BY <1>4, <1>6, <2>4, EventUsers DEF CONNECTING, READABLE, ESTABLISHED, HALFCLOSED
    <2>7. LinkOK'
      BY <1>2, <2>4 DEF LinkOK, CLOSED, ERRORED, HALFCLOSED, ESTABLISHED, READABLE
    <2>8. StateOK'
      BY <1>2, <1>5, <2>4 DEF StateOK, StateTrue, HALFCLOSED, ESTABLISHED, READABLE, ERRORED
    <2>9. ReaderOK'
      <3>1. ch_rreqsiz' = ch_rreqsiz
        BY <1>2, <2>4 DEF READABLE, ESTABLISHED, HALFCLOSED, ERRORED
      <3>2. ASSUME ch_line' # <<>>
            PROVE  \E v \in Task : op'[v] = "read" /\ rd'[v].bytes = Line /\ Ended(v, 0)'
        <4>1. line # <<>> /\ r
          BY <1>3, <3>2
        <4> QED BY <1>6, <1>8, <1>9, <4>1
      <3> QED BY <1>4, <1>6, <1>7, <3>1, <3>2 DEF ReaderOK
    <2>10. UNCHANGED Pending
      <3>1. ~(ch_state < 0) /\ ~(ch_state' < 0)
        BY <1>4, <2>4 DEF READABLE, ESTABLISHED, HALFCLOSED
      <3> QED BY <2>2, <3>1, PendingIs
    <2>11. Content'
      BY <1>4, <2>10, ContentStep DEF Same
    <2>12. ch_state' # ERRORED /\ ch_state' >= ERRORED
      BY <2>4 DEF READABLE, ESTABLISHED, HALFCLOSED, ERRORED
    <2> QED BY <1>4, <1>6, <2>5, <2>6, <2>7, <2>8, <2>9, <2>10, <2>11, <2>12
  <1>10. CASE f.state = ERRORED
    <2>1. ch_state' = ERRORED /\ end = "reset" /\ ch_err' = ECONN /\ ch_nshift' = 0
      BY <1>2, <1>5, <1>10 DEF ERRORED, HALFCLOSED, ESTABLISHED, READABLE
    <2>2. line = <<>>
      BY <1>3, <1>10
    <2>3. f.rbuf \in Seq(Nat) /\ f.kin \in Seq(Nat) /\ Len(f.rbuf) <= RBufSiz
      BY <1>1, KernelRead
    <2>4. /\ ch_rbuf' \in Seq(Nat) /\ Len(ch_rbuf') <= RBufSiz /\ 0 \in 0..Len(ch_rbuf')
          /\ ch_line' = <<>> /\ ch_line' \in Seq(Nat)
      <3>1. PICK b \in Seq(Nat) : b = f.rbuf
        BY <2>3
      <3>2. without(b, Len(<<>>)) = b /\ <<>> \in Seq(Nat)
        <4>1. without(b, Len(line)) = b /\ line \in Seq(Nat)
          BY <2>2, <3>1, LineOut
        <4> QED BY <2>2, <4>1
      <3>3. ch_rbuf' = b
        BY <1>3, <2>2, <3>1, <3>2
      <3> QED BY <1>3, <2>2, <2>3, <3>1, <3>2, <3>3, LenProperties
    <2>5. StrTypes'
      BY <1>5, <2>1, <2>3, <2>4 DEF StrTypes
    <2>6. UsersOK'
      BY <1>4, <1>6, <2>1, EventUsers DEF CONNECTING, ERRORED
    <2>7. LinkOK' /\ StateOK' /\ ReaderOK' /\ Content'
      BY <1>2, <2>1 DEF LinkOK, StateOK, StateTrue, ReaderOK, Content, CLOSED, ERRORED, HALFCLOSED,
                        ESTABLISHED, READABLE
    <2> QED BY <1>4, <1>6, <2>1, <2>5, <2>6, <2>7 DEF ERRORED
  <1> QED BY <1>9, <1>10

LEMMA EventStr ==
    ASSUME StrIInv, StreamAssumption, on_event
    PROVE  /\ StrIInv' /\ UNCHANGED <<got, eof, end, Phase>>
           /\ UNCHANGED Pending \/ (Pending' = <<>> /\ end = "reset")
  <1>1. /\ Idle("poll") /\ at' = "resume_list" /\ caller' = "events"
        /\ UNCHANGED <<taskVars, coVars, batch, now, ch_rtask, ch_wtask, rd, wr, link, end, room,
                       sent, got, eof>>
    BY DEF on_event
  <1>2. CASE on_readable
    <2>1. edge' = FALSE
      BY <1>2 DEF on_readable
    <2>2. /\ StrIInv' /\ ch_state >= 0 /\ ch_state' >= ERRORED
          /\ IF ch_state' = ERRORED THEN end = "reset" ELSE UNCHANGED Pending
      BY <1>1, <1>2, <2>1, ReadableStr
    <2>3. Phase' = Phase
      BY <2>2 DEF Phase, CLOSED, ERRORED
    <2>4. ch_state' = ERRORED => Pending' = <<>>
      BY DEF Pending, ERRORED
    <2> QED BY <1>1, <2>2, <2>3, <2>4
  <1>3. CASE on_writable \/ on_connected \/ on_errored
    <2>1. StrIInv' /\ UNCHANGED <<Pending, ch_state>>
      BY <1>1, <1>3, EventAside
    <2> QED BY <1>1, <2>1 DEF Phase
  <1> QED BY <1>2, <1>3 DEF on_event

---------------------------------------------------------------------------
(* The invariant *)

LEMMA StrInitInv ==
    ASSUME TaskAssumption, StreamAssumption, StrInit
    PROVE  StrIInv
  <1> USE DEF StrIInv, Chan
  <1>1. Init
    BY DEF StrInit
  <1>2. Sched
    <2>1. IInv /\ JoinInv
      BY <1>1, InitInvariant, JoinInit
    <2>2. NoSignals
      BY <1>1, <2>1 DEF NoSignals, Init, IInv, OnePlace
    <2>3. PhaseInv
      BY <1>1 DEF PhaseInv, Init
    <2> QED BY <2>1, <2>2, <2>3 DEF Sched
  <1>3. /\ \/ ch_state = ESTABLISHED /\ link = "up"
           \/ ch_state = CLOSED /\ link = "none"
        /\ ch_err = 0 /\ ch_rbuf = <<>> /\ ch_nshift = 0 /\ ch_rreqsiz = 0 /\ ch_line = <<>>
        /\ ch_rtask = None /\ ch_wtask = None
        /\ rd = [t \in Task |-> NoRead] /\ wr = [t \in Task |-> NoWrite]
        /\ kin = <<>> /\ end = "no" /\ room = Room /\ edge = FALSE /\ sent = 0 /\ got = <<>>
    BY DEF StrInit
  <1>4. \A t \in Task : op[t] = "none"
    BY <1>1 DEF Init
  <1>5. <<>> \in Seq(Nat) /\ Len(<<>>) = 0
    OBVIOUS
  <1>6. StrTypes
    <2>1. /\ NoRead \in [bytes : Nat, neg : BOOLEAN, until : Int]
          /\ NoWrite \in [left : Nat, once : BOOLEAN, until : Int]
      BY DEF NoRead, NoWrite, NoTimer, Line
    <2>2. 0 \in 0..0 /\ 0 <= RBufSiz /\ 0 \in 0..MaxByte /\ Room \in 0..Room
      BY DEF StreamAssumption
    <2> QED BY <1>3, <1>5, <2>1, <2>2 DEF StrTypes
  <1>7. UsersOK
    BY <1>3, <1>4 DEF UsersOK, Blocking, CLOSED, CONNECTING, ESTABLISHED
  <1>8. LinkOK /\ StateOK /\ ReaderOK
    BY <1>3, <1>4 DEF LinkOK, StateOK, StateTrue, ReaderOK, CLOSED, ERRORED, HALFCLOSED, ESTABLISHED,
                      READABLE
  <1>9. Content
    <2>1. Rest = <<>>
      <3>1. PICK e \in Seq(Nat) : e = <<>>
        BY <1>5
      <3>2. without(e, 0) = e /\ Cat(<<>>, e) = e
        BY NothingOut
      <3> QED BY <1>3, <3>1, <3>2 DEF Rest
    <2>2. Pending = <<>>
      BY <2>1, PendingIs
    <2> QED BY <1>3, <1>5, <2>2 DEF Content, Follows
  <1> QED BY <1>2, <1>6, <1>7, <1>8, <1>9

\* The steps that leave the stream alone: those of the scheduler, and errors.
Elsewhere ==
    /\ Sched' /\ AllAside /\ edge' \in BOOLEAN
    /\ UNCHANGED <<chVars, rd, wr, link, kin, end, room, historyVars>>

LEMMA ElsewhereStr ==
    ASSUME StrIInv, Elsewhere
    PROVE  StrIInv' /\ UNCHANGED <<got, eof, end, Phase, Pending>>
  <1>1. StrIInv'
    BY SchedulerStr DEF Elsewhere
  <1> QED BY <1>1 DEF Elsewhere, chVars, bufVars, dataVars, historyVars, Phase, Pending

\* What a step does to the stream.
StreamStep ==
    \/ UNCHANGED <<got, eof, end, Phase, Pending>>
    \/ Opened /\ end = "no" /\ end' = "no"
    \/ arrive /\ UNCHANGED <<eof, Phase>> /\ \E n : Came(n)
    \/ peer_ends /\ UNCHANGED <<got, eof, Phase, Pending>>
    \/ UNCHANGED <<end, Phase, eof>> /\ \E n : Gave(n)
    \/ UNCHANGED <<end, Phase>> /\ (EndSeen({"bytes"}) \/ EndSeen({"line"}))
    \/ UNCHANGED <<end, Phase, got, eof>> /\ Pending' = <<>> /\ (end = "reset" \/ Pipe)
    \/ Over

LEMMA EveryStep ==
    ASSUME StrIInv, Peaceful, TaskAssumption, StreamAssumption, [StrNext]_allVars
    PROVE  StrIInv' /\ StreamStep
  <1>0. edge \in BOOLEAN
    BY DEF StrIInv, Chan, StrTypes
  <1>1. ASSUME UNCHANGED strVars,
               \/ \E t \in Task : Yield(t) \/ Call(t)
               \/ Loop \/ update_time \/ UNCHANGED vars
        PROVE  Elsewhere
    <2>1. Sched' /\ AllAside
      BY <1>1, SchedulerSteps DEF StrIInv
    <2> QED BY <1>0, <1>1, <2>1 DEF Elsewhere, strVars, kernelVars
  <1>2. ASSUME NEW t \in Task, StrYield(t)
        PROVE  StrIInv' /\ StreamStep
    <2>1. CASE Yield(t) /\ UNCHANGED strVars
      BY <1>1, <2>1, ElsewhereStr DEF StreamStep
    <2>2. ASSUME InProgram(t), NEW sec \in RdSecs, NEW req \in Reqs, read(t, req, sec)
          PROVE  StrIInv' /\ StreamStep
      <3>1. StrIInv' /\ UNCHANGED <<Pending, got>>
        BY <2>2, ReadStr
      <3>2. UNCHANGED <<eof, end, Phase>>
        BY <2>2 DEF read, kernelVars, historyVars, Phase
      <3> QED BY <3>1, <3>2 DEF StreamStep
    <2>3. ASSUME InProgram(t), NEW sec \in RdSecs, connect(t, sec)
          PROVE  StrIInv' /\ StreamStep
      <3>1. StrIInv' /\ Opened
        BY <2>3, ConnectStr
      <3>2. end = "no" /\ end' = "no"
        BY <2>3, NoConnection DEF connect, StrIInv
      <3> QED BY <3>1, <3>2 DEF StreamStep
    <2>4. ASSUME InProgram(t), NEW sec \in WrSecs, NEW n \in WriteSizes, write(t, n, sec)
          PROVE  StrIInv' /\ StreamStep
      <3>1. StrIInv' /\ UNCHANGED <<Pending, got>>
        BY <2>4, WriteStr
      <3>2. UNCHANGED <<eof, end, Phase>>
        BY <2>4 DEF write, chVars, kernelVars, historyVars, Phase
      <3> QED BY <3>1, <3>2 DEF StreamStep
    <2>5. CASE InProgram(t) /\ (read_busy(t) \/ write_busy(t))
      <3>1. error(t) /\ UNCHANGED strVars
        BY <2>5 DEF read_busy, write_busy, error
      <3>2. Sched' /\ AllAside
        BY <2>5, <3>1, ErrorStep DEF StrIInv
      <3>3. Elsewhere
        BY <1>0, <3>1, <3>2 DEF Elsewhere, strVars, kernelVars
      <3> QED BY <3>3, ElsewhereStr DEF StreamStep
    <2>6. CASE read_step(t)
      BY <2>6, ReadStep DEF StreamStep
    <2>7. CASE write_step(t)
      BY <2>7, WriteStep DEF StreamStep
    <2>8. CASE connect_return(t)
      BY <2>8, ConnectReturn DEF StreamStep
    <2> QED BY <1>2, <2>1, <2>2, <2>3, <2>4, <2>5, <2>6, <2>7, <2>8 DEF StrYield
  <1>3. ASSUME NEW t \in Task, StrCall(t)
        PROVE  StrIInv' /\ StreamStep
    <2>1. CASE Call(t) /\ UNCHANGED strVars
      BY <1>1, <2>1, ElsewhereStr DEF StreamStep
    <2>2. CASE Running(t) /\ close(t)
      BY <2>2, CloseStr DEF StreamStep
    <2> QED BY <1>3, <2>1, <2>2 DEF StrCall
  <1>4. CASE StrLoop
    <2>1. CASE at # "poll" /\ Loop /\ UNCHANGED strVars
      BY <1>1, <2>1, ElsewhereStr DEF StreamStep
    <2>2. CASE /\ poll_events \/ poll_nothing
               /\ edge' = FALSE
               /\ UNCHANGED <<chVars, rd, wr, link, kin, end, room, historyVars>>
      <3>1. Loop
        BY <2>2 DEF Loop
      <3>2. Sched' /\ AllAside
        BY <3>1, SchedulerSteps DEF StrIInv
      <3>3. Elsewhere
        BY <2>2, <3>2 DEF Elsewhere
      <3> QED BY <3>3, ElsewhereStr DEF StreamStep
    <2>3. CASE on_event
      BY <2>3, EventStr DEF StreamStep
    <2> QED BY <1>4, <2>1, <2>2, <2>3 DEF StrLoop
  <1>5. CASE Environment
    <2>1. StrIInv'
      BY <1>5, EnvironmentStr
    <2>2. UNCHANGED <<eof, Phase>> /\ (~arrive => UNCHANGED <<Pending, got>>)
      <3>1. UNCHANGED <<eof, ch_state>> /\ (link' = "none" <=> link = "none")
        BY <1>5 DEF Environment, connected, arrive, peer_ends, drain, env, chVars
      <3> QED BY <1>5, <3>1, EnvironmentStr DEF Phase
    <2>3. CASE arrive
      <3>1. end' = end
        BY <2>3 DEF arrive, env
      <3>2. \/ UNCHANGED <<Pending, got>>
            \/ \E n : Came(n)
        BY <1>5, <2>3, EnvironmentStr
      <3> QED BY <2>1, <2>2, <2>3, <3>1, <3>2 DEF StreamStep
    <2>4. CASE peer_ends
      <3>1. ~arrive
        BY <2>4 DEF peer_ends, arrive, env
      <3> QED BY <2>1, <2>2, <2>4, <3>1 DEF StreamStep
    <2>5. CASE connected \/ drain
      <3>1. end' = end /\ UNCHANGED sent
        BY <2>5 DEF connected, drain, env
      <3>2. ~arrive
        <4>1. sent \in Nat
          BY DEF StrIInv, Chan, StrTypes
        <4>2. arrive => \E n \in Nat \ {0} : sent' = sent + n
          BY <4>1 DEF arrive, StreamAssumption, StrIInv, Chan, StrTypes
        <4> QED BY <3>1, <4>1, <4>2
      <3> QED BY <2>1, <2>2, <3>1, <3>2 DEF StreamStep
    <2> QED BY <1>5, <2>3, <2>4, <2>5 DEF Environment
  <1>6. CASE (update_time \/ aborted) /\ UNCHANGED strVars
    <2>1. update_time \/ UNCHANGED vars
      BY <1>6 DEF aborted
    <2> QED BY <1>1, <1>6, <2>1, ElsewhereStr DEF StreamStep
  <1>7. CASE UNCHANGED allVars
    BY <1>1, <1>7, ElsewhereStr DEF StreamStep, allVars
  <1> QED BY <1>2, <1>3, <1>4, <1>5, <1>6, <1>7 DEF StrNext

\* Whatever the tasks and the peer do, the state of the channel is right about
\* what the kernel has and about the end of the stream.
THEOREM StateIsTrue ==
    ASSUME Peaceful
    PROVE  StrSpec => []StateTrue
  <1>1. StrInit => StrIInv
    BY StrInitInv, TaskAssumption, StreamAssumption
  <1>2. StrIInv /\ [StrNext]_allVars => StrIInv'
    BY EveryStep, TaskAssumption, StreamAssumption
  <1>3. StrIInv => StateTrue
    BY DEF StrIInv, Chan, StateOK
  <1> QED BY <1>1, <1>2, <1>3, PTL DEF StrSpec

---------------------------------------------------------------------------
(* The channel implements the abstract stream *)

LEMMA ArriveMaps ==
    ASSUME StrIInv, arrive, NEW n, Came(n), UNCHANGED <<eof, Phase>>
    PROVE  Stream!Arrive
  <1> USE DEF StrIInv, Chan
  <1>1. /\ link = "up" /\ end = "no" /\ end' = end /\ ch_state' = ch_state
        /\ n \in Nat \ {0} /\ got' = got
        /\ Pending' = Cat(Pending, [i \in 1..n |-> sent + i])
    BY DEF arrive, env, Came, chVars
  <1>2. PICK p \in Seq(Nat), g \in Seq(Nat) : p = Pending /\ g = got
    BY PendingType
  <1>3. PICK lp \in Nat, lg \in Nat : lp = Len(p) /\ lg = Len(g)
    BY <1>2, LenProperties
  <1>4. sent \in Nat
    BY DEF StrTypes
  <1>5. PICK x : x = [i \in 1..n |-> sent + i]
    OBVIOUS
  <1>6. x \in Seq(Nat) /\ Len(x) = n
    BY <1>1, <1>4, <1>5
  <1>7. Len(Pending') = lp + n
    <2>1. Len(Cat(p, x)) = Len(p) + Len(x)
      BY <1>6, CatProperties
    <2> QED BY <1>1, <1>2, <1>3, <1>5, <1>6, <2>1
  <1>8. ch_state >= 0
    <2>1. Len(<<>>) = 0
      OBVIOUS
    <2>2. lp + n # 0
      BY <1>1, <1>3
    <2>3. Pending' # <<>>
      BY <1>7, <2>1, <2>2
    <2>4. ~(ch_state < 0)
      BY <1>1, <2>3, PendingIs
    <2> QED BY <2>4 DEF StrTypes, CLOSED, ERRORED, HALFCLOSED, CONNECTING, ESTABLISHED, READABLE
  <1>9. sent = lg + lp
    <2>1. Len(Pending) + Len(got) = sent
      BY <1>8 DEF Content, Follows
    <2> QED BY <1>2, <1>3, <2>1
  <1>10. Len(Pending') > Len(Pending) /\ Len(Pending') - Len(Pending) = n
    BY <1>1, <1>2, <1>3, <1>7
  <1>11. x = [i \in 1..(Len(Pending') - Len(Pending)) |-> Len(got) + Len(Pending) + i]
    BY <1>2, <1>3, <1>5, <1>9, <1>10
  <1>12. Pending' = Pending \o x
    BY <1>1, <1>5 DEF Cat
  <1>13. Phase = "open"
    BY <1>1 DEF Phase, LinkOK
  <1> QED BY <1>1, <1>10, <1>11, <1>12, <1>13 DEF Stream!Arrive

LEMMA StepMaps ==
    ASSUME StrIInv, ~Pipe, StreamStep
    PROVE  [Stream!Next]_(Stream!vars)
  <1> USE DEF StrIInv, Chan, Stream!Next
  <1>1. CASE UNCHANGED <<got, eof, end, Phase, Pending>>
    BY <1>1 DEF Stream!vars
  <1>2. CASE Opened /\ end = "no" /\ end' = "no"
    BY <1>2 DEF Opened, Stream!Open
  <1>3. CASE arrive /\ UNCHANGED <<eof, Phase>> /\ \E n : Came(n)
    BY <1>3, ArriveMaps
  <1>4. CASE peer_ends /\ UNCHANGED <<got, eof, Phase, Pending>>
    <2>1. /\ link = "up"
          /\ \/ end = "no" /\ end' = "fin"
             \/ end # "reset" /\ end' = "reset"
      BY <1>4 DEF peer_ends
    <2>2. Phase = "open"
      BY <2>1 DEF Phase, LinkOK
    <2> QED BY <1>4, <2>1, <2>2 DEF Stream!End
  <1>5. CASE UNCHANGED <<end, Phase, eof>> /\ \E n : Gave(n)
    BY <1>5 DEF Gave, Cat, Prefix, without, Stream!Deliver
  <1>6. CASE UNCHANGED <<end, Phase>> /\ EndSeen({"bytes"})
    <2>1. eof' = eof \cup {"bytes"} /\ (end = "reset" \/ (end = "fin" /\ Pending = <<>>))
      BY <1>6 DEF EndSeen, StrTypes
    <2> QED BY <1>6, <2>1 DEF EndSeen, Stream!ReportEnd
  <1>7. CASE UNCHANGED <<end, Phase>> /\ EndSeen({"line"})
    <2>1. /\ eof' = eof \cup {"line"}
          /\ \/ end = "reset"
             \/ end = "fin" /\ \A i \in 1..Len(Pending) : Pending[i] \notin Newlines
      BY <1>7 DEF EndSeen, StrTypes
    <2> QED BY <1>7, <2>1 DEF EndSeen, Stream!ReportEnd
  <1>8. CASE UNCHANGED <<end, Phase, got, eof>> /\ Pending' = <<>> /\ (end = "reset" \/ Pipe)
    BY <1>8 DEF Stream!Lose
  <1>9. CASE Over
    BY <1>9 DEF Over, Stream!Close
  <1> QED BY <1>1, <1>2, <1>3, <1>4, <1>5, <1>6, <1>7, <1>8, <1>9 DEF StreamStep

LEMMA InitMaps ==
    ASSUME StrIInv, StrInit
    PROVE  Stream!Init
  <1>1. Pending = <<>>
    <2>1. Pending \in Seq(Nat) /\ Len(Pending) \in Nat
      BY PendingType DEF StrIInv, Chan
    <2>2. got = <<>> /\ sent = 0
      BY DEF StrInit
    <2>3. Len(<<>>) = 0
      OBVIOUS
    <2>4. ch_state >= 0 => Len(Pending) = 0
      BY <2>1, <2>2, <2>3 DEF StrIInv, Chan, Content, Follows
    <2>5. ch_state >= 0 => Pending = <<>>
      BY <2>1, <2>4, EmptySeq
    <2>6. ch_state < 0 \/ ch_state >= 0
      BY DEF StrInit, CLOSED, ESTABLISHED
    <2> QED BY <2>5, <2>6 DEF Pending
  <1>2. Phase \in {"new", "open"}
    BY DEF Phase, StrInit, CLOSED, ESTABLISHED
  <1> QED BY <1>1, <1>2 DEF StrInit, Stream!Init

\* On a connection that can be written to, the reader gets the bytes of the
\* peer in order and each once, and hears of the end after the last of them:
\* the channel and the tasks that use it implement the abstract stream.  (The
\* handler half-closes a pipe as soon as its writer is gone, before its last
\* bytes are read, which is why a pipe is left out.)
THEOREM ImplementsStream ==
    ASSUME Peaceful, ~Pipe
    PROVE  StrSpec => IsStream
  <1>1. StrInit => StrIInv
    BY StrInitInv, TaskAssumption, StreamAssumption
  <1>2. StrIInv /\ [StrNext]_allVars => StrIInv' /\ StreamStep
    BY EveryStep, TaskAssumption, StreamAssumption
  <1>3. StrInit => Stream!Init
    BY <1>1, InitMaps
  <1>4. StrIInv /\ [StrNext]_allVars => [Stream!Next]_(Stream!vars)
    BY <1>2, StepMaps
  <1> QED BY <1>1, <1>2, <1>3, <1>4, PTL DEF StrSpec, IsStream, Stream!Spec

---------------------------------------------------------------------------
(* Waiting for nothing that has happened already *)

\* What can be asked of a read can be had: the bytes, or a whole line, fit
\* into the receive buffer.
Fits ==
    /\ \A req \in Reqs : -req <= RBufSiz
    /\ Line \in Reqs =>
           \A i \in 0..(MaxByte - RBufSiz) : \E j \in (i + 1)..(i + RBufSiz) : j \in Newlines

\* An edge that has been used has left nothing unread.
EdgeOK ==
    ch_state = ESTABLISHED /\ ~edge /\ slip \subseteq {"out"} => kin = <<>> /\ end = "no"

ReadersOK ==
    \A t \in Task : op[t] = "read" =>
        /\ rd[t].bytes <= RBufSiz /\ (rd[t].bytes = Line => Line \in Reqs)
        /\ Waiting(t, "read") => ch_state = ESTABLISHED /\ ~CanReturn(t)

WritersOK ==
    \A t \in Task : Waiting(t, "write") =>
        /\ ch_state > ERRORED
        /\ "out" \notin slip =>
               /\ "WRITE" \in ch_events
               /\ ~edge /\ link = "up" /\ ch_state # CONNECTING => room = 0 /\ end # "reset"

WaitOK == EdgeOK /\ ReadersOK /\ WritersOK

LEMMA WaitOKEnough ==
    ASSUME StrIInv, WaitOK
    PROVE  NoStall
  <1>1. \A t \in Task : t # None
    BY DEF Task, None
  <1>2. NoReadStall
    <2> SUFFICES ASSUME NEW t \in Task, Waiting(t, "read"), ~edge, slip \subseteq {"out"}
                 PROVE  /\ ch_rtask = t /\ ~CanReturn(t) /\ kin = <<>>
                        /\ ch_state = ESTABLISHED /\ end = "no"
      BY DEF NoReadStall
    <2>1. op[t] = "read" /\ co[t] = "parked"
      BY DEF Waiting
    <2>2. ch_rtask = t
      BY <1>1, <2>1 DEF StrIInv, Chan, UsersOK
    <2>3. ch_state = ESTABLISHED /\ ~CanReturn(t)
      BY <2>1 DEF WaitOK, ReadersOK
    <2> QED BY <2>2, <2>3 DEF WaitOK, EdgeOK
  <1>3. NoWriteStall
    <2> SUFFICES ASSUME NEW t \in Task, Waiting(t, "write"), ~edge, "out" \notin slip
                 PROVE  /\ ch_wtask = t
                        /\ ch_state > ERRORED /\ "WRITE" \in ch_events
                        /\ link = "up" /\ ch_state # CONNECTING => room = 0 /\ end # "reset"
      BY DEF NoWriteStall
    <2>1. op[t] = "write" /\ co[t] = "parked"
      BY DEF Waiting
    <2>2. ch_wtask = t
      BY <1>1, <2>1 DEF StrIInv, Chan, UsersOK
    <2> QED BY <2>2 DEF WaitOK, WritersOK
  <1> QED BY <1>2, <1>3 DEF NoStall

LEMMA EdgeFrame ==
    ASSUME EdgeOK, ch_state' = ESTABLISHED => ch_state = ESTABLISHED, ~edge' => ~edge,
           slip \subseteq slip', UNCHANGED <<kin, end>>
    PROVE  EdgeOK'
  BY DEF EdgeOK

\* The waiting readers stay, and what they look at.
LEMMA ReadersFrame ==
    ASSUME ReadersOK,
           \A v \in Task :
               /\ op'[v] = "read" => op[v] = "read" /\ rd'[v] = rd[v]
               /\ Waiting(v, "read")' =>
                      Waiting(v, "read") /\ UNCHANGED <<ch_state, ch_rbuf, ch_line>>
    PROVE  ReadersOK'
  BY DEF ReadersOK, CanReturn, HasBytes, HasLine

LEMMA WritersFrame ==
    ASSUME WritersOK,
           \A v \in Task : Waiting(v, "write")' =>
               /\ Waiting(v, "write") /\ ch_state' > ERRORED
               /\ ch_state' # CONNECTING => ch_state # CONNECTING
               /\ ~edge' => ~edge
               /\ slip \subseteq slip' /\ UNCHANGED <<ch_events, link, end, room>>
    PROVE  WritersOK'
  BY DEF WritersOK

\* Who waits in the calls of the channel.
LEMMA Waiters ==
    ASSUME StrIInv, NEW v \in Task
    PROVE  /\ Waiting(v, "read") => ch_rtask = v /\ op[v] = "read" /\ current # v
           /\ Waiting(v, "write") => ch_wtask = v /\ op[v] = "write" /\ current # v
  <1>1. v # None
    BY DEF Task, None
  <1>2. co[v] = "parked" => current # v
    BY DEF StrIInv, Sched, IInv, OnePlace
  <1> QED BY <1>1, <1>2 DEF Waiting, StrIInv, Chan, UsersOK

\* A task that is woken no longer waits.
LEMMA WokenWaits ==
    ASSUME NEW a, NEW e, NEW u, NEW f, wake_both(a, e, u, f), NEW v \in Task, ~t_prev'[v]
    PROVE  ~t_prev[v] /\ v \notin {a, u}
  <1>1. v # None
    BY DEF Task, None
  <1> QED BY <1>1 DEF wake_both, Linked

\* The steps of the channel that are not blocking.
LEMMA KeepsWaiting ==
    ASSUME NEW a, NEW e, NEW u, NEW f, wake_both(a, e, u, f), NEW t \in Task, returns(t),
           Sched, NEW v \in Task, NEW o \in Blocking, Waiting(v, o)'
    PROVE  Waiting(v, o) /\ v \notin {a, u, t}
  <1>1. /\ co' = [co EXCEPT ![t] = "run"] /\ op' = [op EXCEPT ![t] = "none"]
    BY DEF returns
  <1>2. co'[v] = "parked" /\ op'[v] = o /\ ~t_prev'[v]
    BY DEF Waiting
  <1>3. v # t
    BY <1>1, <1>2 DEF Sched, IInv, TypeOK
  <1>4. co[v] = "parked" /\ op[v] = o
    BY <1>1, <1>2, <1>3 DEF Sched, IInv, TypeOK
  <1> QED BY <1>2, <1>3, <1>4, WokenWaits DEF Waiting

\* Of the bytes of the stream so many that they fill the buffer contain a
\* whole line, if tasks read lines.
LEMMA FullBuffer ==
    ASSUME StrTypes, StreamAssumption, Content, ch_state >= 0, Fits, Line \in Reqs,
           NEW b \in Seq(Nat), NEW k \in Seq(Nat), Rest = Cat(b, k), Len(b) = RBufSiz
    PROVE  first_line(b) # <<>>
  <1>1. PICK lb \in Nat, lk \in Nat, lg \in Nat :
            lb = Len(b) /\ lk = Len(k) /\ lg = Len(got)
    BY LenProperties DEF StrTypes
  <1>2. Pending = Cat(b, k)
    <2>1. ~(ch_state < 0)
      BY DEF StrTypes, CLOSED, ERRORED, HALFCLOSED, CONNECTING, ESTABLISHED, READABLE
    <2> QED BY <2>1, PendingIs
  <1>3. /\ Len(Cat(b, k)) = Len(b) + Len(k)
        /\ \A i \in 1..(Len(b) + Len(k)) :
               Cat(b, k)[i] = IF i <= Len(b) THEN b[i] ELSE k[i - Len(b)]
    <2>1. ASSUME NEW c \in Seq(Nat), NEW d \in Seq(Nat)
          PROVE  /\ Len(Cat(c, d)) = Len(c) + Len(d)
                 /\ \A i \in 1..(Len(c) + Len(d)) :
                        Cat(c, d)[i] = IF i <= Len(c) THEN c[i] ELSE d[i - Len(c)]
      BY CatProperties
    <2> QED BY <2>1
  <1>4. /\ lb + lk + lg = sent
        /\ \A i \in 1..(lb + lk) : Cat(b, k)[i] = lg + i
    BY <1>1, <1>2, <1>3 DEF Content, Follows
  <1>5. lb = RBufSiz /\ RBufSiz \in Nat /\ MaxByte \in Nat /\ sent \in 0..MaxByte
    BY <1>1 DEF StreamAssumption, StrTypes
  <1>6. lg \in 0..(MaxByte - RBufSiz)
    BY <1>1, <1>4, <1>5
  <1>7. PICK j \in (lg + 1)..(lg + RBufSiz) : j \in Newlines
    BY <1>6 DEF Fits
  <1>8. PICK i \in 1..lb : i = j - lg
    <2>1. PICK n \in Nat : n = RBufSiz /\ j \in (lg + 1)..(lg + n)
      BY <1>5, <1>7
    <2>2. j - lg \in 1..n
      BY <2>1
    <2> QED BY <1>5, <2>1, <2>2
  <1>9. i \in 1..(lb + lk) /\ i <= lb /\ lg + i = j
    BY <1>1, <1>5, <1>7, <1>8
  <1>10. b[i] = j
    BY <1>1, <1>3, <1>4, <1>9
  <1>11. b[i] \in Newlines /\ i \in 1..Len(b)
    BY <1>1, <1>7, <1>8, <1>10
  <1> QED BY <1>11, FirstLine

\* The scheduler, between and at polls.
LEMMA ElsewhereWaits ==
    ASSUME StrIInv, WaitOK, Elsewhere, edge' = edge \/ (edge' = FALSE /\ ~EventDue)
    PROVE  WaitOK'
  <1>1. UNCHANGED <<ch_state, ch_events, ch_rbuf, ch_line, rd, link, kin, end, room, slip>>
    BY DEF Elsewhere, chVars, bufVars, dataVars, historyVars
  <1>2. \A v \in Task : op[v] \in Blocking \/ op'[v] \in Blocking =>
            /\ op'[v] = op[v]
            /\ co'[v] = "parked" => co[v] = "parked" /\ t_prev'[v] = t_prev[v]
    BY AsideSeen DEF Elsewhere
  <1>3. \A v \in Task, o \in Blocking : Waiting(v, o)' => Waiting(v, o)
    BY <1>2 DEF Waiting
  <1>4. ~edge' => ~edge \/ (edge /\ Revents = {})
    BY DEF EventDue
  <1>5. Revents = {} => /\ kin = <<>> /\ end = "no"
                        /\ "WRITE" \in ch_events /\ link = "up" => ~(room > 0) /\ end # "reset"
    BY DEF Revents, InReady, OutReady
  <1>6. EdgeOK'
    BY <1>1, <1>4, <1>5 DEF WaitOK, EdgeOK
  <1>7. ReadersOK'
    BY <1>1, <1>2, <1>3, ReadersFrame DEF WaitOK, Blocking
  <1>8. WritersOK'
    <2>1. ~(room > 0) => room = 0
      BY DEF StrIInv, Chan, StrTypes, StreamAssumption
    <2>2. ASSUME NEW v \in Task, Waiting(v, "write")'
          PROVE  Waiting(v, "write")
      BY <1>3, <2>2 DEF Blocking
    <2> QED BY <1>1, <1>4, <1>5, <2>1, <2>2 DEF WaitOK, WritersOK
  <1> QED BY <1>6, <1>7, <1>8 DEF WaitOK

LEMMA EnvironmentWaits ==
    ASSUME StrIInv, WaitOK, Environment
    PROVE  WaitOK'
  <1>1. UNCHANGED <<vars, ch_state, ch_events, ch_rbuf, ch_line, rd, slip>>
    BY DEF Environment, connected, arrive, peer_ends, drain, env, chVars, bufVars, dataVars
  <1>2. \/ edge' = TRUE
        \/ UNCHANGED <<link, kin, end>> /\ edge' = (edge \/ "WRITE" \in ch_events)
    BY DEF Environment, connected, arrive, peer_ends, drain, env
  <1>3. \A v \in Task, o \in Blocking : Waiting(v, o)' => Waiting(v, o)
    BY <1>1 DEF Waiting, vars, readyVars, coVars
  <1>4. EdgeOK'
    BY <1>1, <1>2 DEF WaitOK, EdgeOK
  <1>5. op' = op
    BY <1>1 DEF vars, coVars
  <1>6. ReadersOK'
    BY <1>1, <1>3, <1>5, ReadersFrame DEF WaitOK, Blocking
  <1>7. WritersOK'
    <2>1. ASSUME NEW v \in Task, Waiting(v, "write")'
          PROVE  Waiting(v, "write")
      BY <1>3, <2>1 DEF Blocking
    <2> QED BY <1>1, <1>2, <2>1 DEF WaitOK, WritersOK
  <1> QED BY <1>4, <1>6, <1>7 DEF WaitOK

\* read and write begin.
LEMMA ReadWaits ==
    ASSUME StrIInv, WaitOK, Fits, StreamAssumption, NEW t \in Task, InProgram(t),
           NEW req \in Reqs, NEW sec \in RdSecs, read(t, req, sec)
    PROVE  WaitOK'
  <1>1. /\ ch_rtask = None
        /\ rd' = [rd EXCEPT ![t] =
                     [bytes |-> IF req < 0 THEN -req ELSE Min({req, RBufSiz}),
                      neg |-> req < 0, until |-> deadline(sec)]]
        /\ co' = [co EXCEPT ![t] = "back"] /\ op' = [op EXCEPT ![t] = "read"] /\ t_prev' = t_prev
        /\ UNCHANGED <<ch_state, ch_events, link, kin, end, room, edge, slip>>
    BY DEF read, enters, kernelVars, historyVars, readyVars
  <1>2. /\ co'[t] = "back" /\ op'[t] = "read"
        /\ \A v \in Task \ {t} : co'[v] = co[v] /\ op'[v] = op[v] /\ rd'[v] = rd[v]
    BY <1>1 DEF StrIInv, Chan, StrTypes, Sched, IInv, TypeOK
  <1>3. \A v \in Task : v # None /\ ~Waiting(v, "read")
    BY <1>1, Waiters DEF Task, None
  <1>4. \A v \in Task, o \in Blocking : Waiting(v, o)' => Waiting(v, o) /\ v # t
    BY <1>1, <1>2 DEF Waiting
  <1>5. EdgeOK'
    BY <1>1, EdgeFrame DEF WaitOK
  <1>6. ReadersOK'
    <2>1. rd'[t].bytes <= RBufSiz /\ (rd'[t].bytes = Line => Line \in Reqs)
      <3>1. PICK r \in Int, s \in Int : r = req /\ s = RBufSiz /\ s > 0 /\ -r <= s
        BY DEF StreamAssumption, Fits
      <3>2. Min({r, s}) \in {r, s} /\ Min({r, s}) <= r /\ Min({r, s}) <= s
        BY MinOfTwo
      <3>3. PICK m \in Int : m = Min({r, s})
        BY <3>2
      <3>4. rd'[t].bytes = IF r < 0 THEN -r ELSE m
        BY <1>1, <3>1, <3>3 DEF StrIInv, Chan, StrTypes
      <3>5. m \in {r, s} /\ m <= s
        BY <3>2, <3>3
      <3> QED BY <3>1, <3>4, <3>5 DEF Line
    <2>2. \A v \in Task : ~Waiting(v, "read")'
      BY <1>3, <1>4 DEF Blocking
    <2> QED BY <1>2, <2>1, <2>2 DEF WaitOK, ReadersOK
  <1>7. WritersOK'
    <2>1. ASSUME NEW v \in Task, Waiting(v, "write")'
          PROVE  Waiting(v, "write")
      BY <1>4, <2>1 DEF Blocking
    <2> QED BY <1>1, <2>1 DEF WaitOK, WritersOK
  <1> QED BY <1>5, <1>6, <1>7 DEF WaitOK

LEMMA WriteWaits ==
    ASSUME StrIInv, WaitOK, NEW t \in Task, InProgram(t), NEW n, NEW sec, write(t, n, sec)
    PROVE  WaitOK'
  <1>1. /\ co' = [co EXCEPT ![t] = "back"] /\ op' = [op EXCEPT ![t] = "write"] /\ t_prev' = t_prev
        /\ UNCHANGED <<ch_state, ch_events, ch_rbuf, ch_line, rd, link, kin, end, room, edge, slip>>
    BY DEF write, enters, chVars, bufVars, dataVars, kernelVars, historyVars, readyVars
  <1>2. /\ co'[t] = "back" /\ op'[t] = "write"
        /\ \A v \in Task \ {t} : co'[v] = co[v] /\ op'[v] = op[v]
    BY <1>1 DEF StrIInv, Sched, IInv, TypeOK
  <1>3. \A v \in Task, o \in Blocking : Waiting(v, o)' => Waiting(v, o) /\ v # t
    BY <1>1, <1>2 DEF Waiting
  <1>4. EdgeOK'
    BY <1>1, EdgeFrame DEF WaitOK
  <1>5. ReadersOK'
    <2>1. \A v \in Task : op'[v] = "read" => op[v] = "read" /\ rd'[v] = rd[v]
      BY <1>1, <1>2
    <2> QED BY <1>1, <1>3, <2>1, ReadersFrame DEF WaitOK, Blocking
  <1>6. WritersOK'
    <2>1. ASSUME NEW v \in Task, Waiting(v, "write")'
          PROVE  Waiting(v, "write")
      BY <1>3, <2>1 DEF Blocking
    <2> QED BY <1>1, <2>1 DEF WaitOK, WritersOK
  <1> QED BY <1>4, <1>5, <1>6 DEF WaitOK

\* connect of a channel that nobody uses.
LEMMA ConnectWaits ==
    ASSUME StrIInv, WaitOK, NEW t \in Task, InProgram(t), NEW sec, connect(t, sec)
    PROVE  WaitOK'
  <1>1. link = "none" /\ UNCHANGED <<kin, end>>
    BY DEF connect
  <1>2. kin = <<>> /\ end = "no" /\ \A v \in Task : op[v] \notin Blocking
    BY <1>1, NoConnection DEF StrIInv
  <1>3. EdgeOK'
    BY <1>1, <1>2 DEF EdgeOK
  <1>4. \A v \in Task : op'[v] \notin {"read", "write"}
    <2>1. CASE UNCHANGED coVars
      BY <1>2, <2>1 DEF coVars, Blocking
    <2>2. CASE do_yield(t, "connect", sec, "channel", t_nsubs)
      <3>1. op' = [op EXCEPT ![t] = "connect"]
        BY <2>2 DEF do_yield, StrIInv, Sched, NoSignals
      <3> QED BY <1>2, <3>1 DEF Blocking, StrIInv, Sched, IInv, TypeOK
    <2> QED BY <2>1, <2>2 DEF connect
  <1> QED BY <1>3, <1>4 DEF WaitOK, ReadersOK, WritersOK, Waiting

\* A call returns that has been alone in its part of the channel.
LEMMA ReadStepWaits ==
    ASSUME StrIInv, WaitOK, Fits, StreamAssumption, NEW t \in Task, read_step(t)
    PROVE  WaitOK'
  <1> USE DEF StrIInv, Chan
  <1>1. /\ current = t /\ co[t] = "back" /\ op[t] = "read" /\ t # None
        /\ UNCHANGED <<ch_events, link, end, room, edge>>
    BY DEF read_step, Task, None
  <1>2. \A v \in Task \ {t} : op[v] # "read"
    BY <1>1, Reading
  <1>3. CASE read_fails(t) \/ read_bytes(t) \/ read_line(t) \/ read_timedout(t)
    <2>1. returns(t) /\ UNCHANGED <<readyVars, ch_state, kin, slip>>
      BY <1>3 DEF read_fails, read_bytes, read_line, read_timedout, read_ends
    <2>2. wake_both(None, 0, None, 0)
      BY <2>1, NobodyWoken DEF Sched
    <2>3. \A v \in Task, o \in Blocking : Waiting(v, o)' => Waiting(v, o) /\ v # t
      BY <2>1, <2>2, KeepsWaiting
    <2>4. EdgeOK'
      BY <1>1, <2>1, EdgeFrame DEF WaitOK
    <2>5. ReadersOK'
      <3>1. op' = [op EXCEPT ![t] = "none"]
        BY <2>1 DEF returns
      <3>2. \A v \in Task : op'[v] # "read"
        BY <1>2, <3>1 DEF Sched, IInv, TypeOK
      <3> QED BY <3>2 DEF ReadersOK
    <2>6. WritersOK'
      <3>1. ASSUME NEW v \in Task, Waiting(v, "write")'
            PROVE  Waiting(v, "write")
        BY <2>3, <3>1 DEF Blocking
      <3> QED BY <1>1, <2>1, <3>1 DEF WaitOK, WritersOK
    <2> QED BY <2>4, <2>5, <2>6 DEF WaitOK
  <1>4. CASE read_more(t)
    <2>1. PICK f : f = stream_channel_read
      OBVIOUS
    <2>2. /\ kin' = f.kin /\ ch_state' = f.state /\ ch_state = READABLE /\ f.updated
          /\ wake(only_if(f.state = ERRORED, ch_wtask), ECONN)
          /\ slip' = (IF edge THEN slip ELSE slip \cup unnoticed_end(f, f.state))
          /\ UNCHANGED <<rd, coVars>>
      BY <1>4, <2>1 DEF read_more, FromKernel, take_from_kernel
    <2>3. /\ kin # <<>>
          /\ \/ f.state = READABLE
             \/ f.state = ESTABLISHED /\ f.kin = <<>>
             \/ kin = <<>>
      BY <2>1, <2>2, KernelRead DEF StateOK, StateTrue
    <2>4. EdgeOK'
      <3> SUFFICES ASSUME ch_state' = ESTABLISHED, ~edge', slip' \subseteq {"out"}
                   PROVE  kin' = <<>> /\ end' = "no"
        BY DEF EdgeOK
      <3>1. f.state = ESTABLISHED /\ kin' = <<>>
        BY <2>2, <2>3 DEF READABLE, ESTABLISHED
      <3>2. unnoticed_end(f, f.state) \subseteq {"out"}
        BY <1>1, <2>2
      <3>3. end = "no"
        BY <2>2, <3>1, <3>2 DEF unnoticed_end
      <3> QED BY <1>1, <3>1, <3>3
    <2>5. ReadersOK'
      BY <1>1, <1>2, <2>2 DEF WaitOK, ReadersOK, Waiting, coVars
    <2>6. WritersOK'
      <3>1. ASSUME NEW v \in Task, Waiting(v, "write")'
            PROVE  Waiting(v, "write")
        <4>1. ~t_prev[v]
          BY <2>2, <3>1, WokenWaits DEF wake, Waiting
        <4> QED BY <2>2, <3>1, <4>1 DEF Waiting, coVars
      <3>2. ch_state' > ERRORED /\ ch_state # CONNECTING /\ slip \subseteq slip'
        BY <2>2, <2>3 DEF READABLE, ESTABLISHED, ERRORED, CONNECTING
      <3> QED BY <1>1, <3>1, <3>2 DEF WaitOK, WritersOK
    <2> QED BY <2>4, <2>5, <2>6 DEF WaitOK
  <1>5. CASE read_wait(t)
    <2>1. /\ Exhausted(t) /\ ~FromKernel
          /\ do_yield(t, "read", TimeLeft(rd[t].until), "channel", t_nsubs)
          /\ UNCHANGED <<ch_rbuf, ch_nshift, ch_line, ch_state, rd, kin, slip>>
      BY <1>5 DEF read_wait
    <2>2. /\ co' = [co EXCEPT ![t] = "parked"] /\ op' = [op EXCEPT ![t] = "read"]
          /\ t_prev' = t_prev
      BY <2>1 DEF do_yield, Sched, NoSignals
    <2>3. /\ op'[t] = "read"
          /\ \A v \in Task \ {t} : co'[v] = co[v] /\ op'[v] = op[v]
      BY <2>2 DEF Sched, IInv, TypeOK
    <2>4. EdgeOK'
      BY <1>1, <2>1, EdgeFrame DEF WaitOK
    <2>5. rd[t].bytes <= RBufSiz /\ (rd[t].bytes = Line => Line \in Reqs)
      BY <1>1 DEF WaitOK, ReadersOK
    <2>6. ch_line = <<>> /\ ch_nshift = 0 /\ ch_state \in {ESTABLISHED, READABLE} /\ ~CanReturn(t)
      BY <1>1, <2>1, NothingThere DEF ReadRound, read_step, Exhausted
    <2>7. ASSUME ch_state = READABLE
          PROVE  FALSE
      <3>1. PICK f : f = stream_channel_read
        OBVIOUS
      <3>2. ~(Len(ch_rbuf) < RBufSiz)
        BY <2>1, <2>7, <3>1, KernelRead DEF FromKernel
      <3>3. Len(ch_rbuf) = RBufSiz
        BY <3>2, LenProperties DEF StrTypes, StreamAssumption
      <3>4. rd[t].bytes = Line
        BY <2>5, <2>6, <3>3 DEF CanReturn, HasBytes
      <3>5. first_line(ch_rbuf) = <<>>
        BY <2>6, <3>4 DEF CanReturn, HasLine
      <3>6. Rest = Cat(ch_rbuf, kin)
        <4>1. 0 \in 0..Len(ch_rbuf)
          BY <2>6 DEF StrTypes
        <4> QED BY <2>6, <4>1, FirstOfRest
      <3>7. ch_state >= 0
        BY <2>7 DEF READABLE
      <3>8. ch_rbuf \in Seq(Nat) /\ kin \in Seq(Nat)
        BY DEF StrTypes
      <3> QED BY <2>5, <3>3, <3>4, <3>5, <3>6, <3>7, <3>8, FullBuffer
    <2>8. ReadersOK'
      <3>1. ch_state' = ESTABLISHED /\ ~CanReturn(t)'
        BY <2>1, <2>6, <2>7 DEF CanReturn, HasBytes, HasLine
      <3> QED BY <1>2, <2>1, <2>3, <2>5, <3>1 DEF ReadersOK
    <2>9. WritersOK'
      <3>1. ASSUME NEW v \in Task, Waiting(v, "write")'
            PROVE  Waiting(v, "write")
        BY <2>2, <2>3, <3>1 DEF Waiting
      <3> QED BY <1>1, <2>1, <3>1 DEF WaitOK, WritersOK
    <2> QED BY <2>4, <2>8, <2>9 DEF WaitOK
  <1> QED BY <1>3, <1>4, <1>5 DEF read_step

LEMMA WriteStepWaits ==
    ASSUME StrIInv, WaitOK, StreamAssumption, NEW t \in Task, write_step(t)
    PROVE  WaitOK'
  <1> USE DEF StrIInv, Chan
  <1>1. /\ current = t /\ co[t] = "back" /\ op[t] = "write" /\ t # None
        /\ UNCHANGED <<ch_rbuf, ch_line, rd, link, kin, end, slip>>
    BY DEF write_step, bufVars, dataVars, historyVars, Task, None
  <1>2. \A v \in Task \ {t} : op[v] # "write" /\ (op[v] = "read" => ch_rtask = v)
    BY <1>1, Writing
  <1>3. CASE write_fails(t) \/ write_error(t) \/ write_returns(t)
    <2>1. /\ returns(t)
          /\ \/ UNCHANGED <<ch_state, readyVars>>
             \/ ch_state' = ERRORED /\ wake(ch_rtask, ECONN)
          /\ ~edge' => ~edge
      <3>1. CASE write_fails(t)
        BY <3>1 DEF write_fails, write_ends
      <3>2. CASE write_error(t)
        BY <3>2 DEF write_error, write_ends
      <3>3. CASE write_returns(t)
        <4>1. returns(t) /\ UNCHANGED <<ch_state, readyVars>>
          BY <3>3 DEF write_returns, write_ends
        <4>2. edge' = edge \/ edge' = (edge \/ ("WRITE" \notin ch_events /\ InReady))
          BY <3>3 DEF write_returns, ch_addwrite
        <4>3. ~edge' => ~edge
          <5>1. edge \in BOOLEAN
            BY DEF StrTypes
          <5> HIDE DEF StrIInv, Chan
          <5> QED BY <4>2, <5>1
        <4> QED BY <4>1, <4>3
      <3> QED BY <1>3, <3>1, <3>2, <3>3
    <2>2. \E a, e : wake_both(a, e, None, 0) /\ (a = ch_rtask \/ ch_state' = ch_state)
      BY <2>1, NobodyWoken DEF Sched, wake
    <2>3. PICK a, e : wake_both(a, e, None, 0) /\ (a = ch_rtask \/ ch_state' = ch_state)
      BY <2>2
    <2>4. \A v \in Task, o \in Blocking : Waiting(v, o)' => Waiting(v, o) /\ v \notin {a, None, t}
      BY <2>1, <2>3, KeepsWaiting
    <2>5. op' = [op EXCEPT ![t] = "none"]
      BY <2>1 DEF returns
    <2>6. \A v \in Task : op'[v] = IF v = t THEN "none" ELSE op[v]
      BY <2>5 DEF Sched, IInv, TypeOK
    <2>7. EdgeOK'
      BY <1>1, <2>1, EdgeFrame DEF WaitOK, ERRORED, ESTABLISHED
    <2>8. ReadersOK'
      <3>1. ASSUME NEW v \in Task, Waiting(v, "read")'
            PROVE  Waiting(v, "read") /\ ch_state' = ch_state
        <4>1. Waiting(v, "read") /\ v # a
          BY <2>4, <3>1 DEF Blocking
        <4>2. ch_rtask = v
          BY <4>1, Waiters
        <4> QED BY <2>3, <4>1, <4>2
      <3>2. \A v \in Task : op'[v] = "read" => op[v] = "read" /\ rd'[v] = rd[v]
        BY <1>1, <2>6
      <3> QED BY <1>1, <3>1, <3>2, ReadersFrame DEF WaitOK
    <2>9. WritersOK'
      BY <1>2, <2>6 DEF WritersOK, Waiting
    <2> QED BY <2>7, <2>8, <2>9 DEF WaitOK
  <1>4. CASE write_wait(t)
    <2>1. /\ ~Broken(t) /\ ~WriteFails /\ Taken(t) < wr[t].left /\ room' = room - Taken(t)
          /\ ch_events' = ch_events \cup {"WRITE"} /\ (~edge' => ~edge)
          /\ do_yield(t, "write", TimeLeft(wr[t].until), "channel", t_nsubs)
          /\ UNCHANGED ch_state
      BY <1>4 DEF write_wait, ch_addwrite
    <2>2. /\ co' = [co EXCEPT ![t] = "parked"] /\ op' = [op EXCEPT ![t] = "write"]
          /\ t_prev' = t_prev
      BY <2>1 DEF do_yield, Sched, NoSignals
    <2>3. /\ op'[t] = "write"
          /\ \A v \in Task \ {t} : co'[v] = co[v] /\ op'[v] = op[v]
      BY <2>2 DEF Sched, IInv, TypeOK
    <2>4. EdgeOK'
      BY <1>1, <2>1, EdgeFrame DEF WaitOK
    <2>5. ReadersOK'
      <3>1. ASSUME NEW v \in Task
            PROVE  /\ op'[v] = "read" => op[v] = "read" /\ rd'[v] = rd[v]
                   /\ Waiting(v, "read")' => Waiting(v, "read")
        BY <1>1, <2>2, <2>3 DEF Waiting
      <3> QED BY <1>1, <2>1, <3>1, ReadersFrame DEF WaitOK
    <2>6. WritersOK'
      <3>1. link = "up" => room' = 0
        BY <2>1, TakenFits
      <3>2. end # "reset" /\ ch_state > ERRORED
        BY <2>1 DEF WriteFails, Broken, StrTypes, CLOSED, ERRORED, HALFCLOSED, CONNECTING,
                    ESTABLISHED, READABLE
      <3>3. "WRITE" \in ch_events'
        BY <2>1
      <3> QED BY <1>1, <2>1, <3>1, <3>2, <3>3 DEF WritersOK
    <2> QED BY <2>4, <2>5, <2>6 DEF WaitOK
  <1> QED BY <1>3, <1>4 DEF write_step

\* close wakes everybody who waits.
LEMMA ClosedWaits ==
    ASSUME WaitOK, Chan, ch_state' = CLOSED, rd' = rd,
           \A v \in Task : op'[v] = "read" => op[v] = "read",
           \A v \in Task, o \in {"read", "write"} : ~Waiting(v, o)'
    PROVE  WaitOK'
  <1>1. EdgeOK'
    BY DEF EdgeOK, CLOSED, ESTABLISHED
  <1>2. ReadersOK' /\ WritersOK'
    BY DEF ReadersOK, WritersOK, WaitOK
  <1> QED BY <1>1, <1>2 DEF WaitOK

LEMMA CloseWaits ==
    ASSUME StrIInv, WaitOK, NEW t \in Task, close(t)
    PROVE  WaitOK'
  <1> USE DEF StrIInv, Chan
  <1>1. /\ ch_state' = CLOSED /\ rd' = rd /\ UNCHANGED coVars
        /\ wake_both(ch_rtask, 0, ch_wtask, 0)
    BY DEF close, closing, close_wakes
  <1>2. ASSUME NEW v \in Task, NEW o \in {"read", "write"}, Waiting(v, o)'
        PROVE  FALSE
    <2>1. ~t_prev'[v]
      BY <1>2 DEF Waiting
    <2>2. ~t_prev[v] /\ v \notin {ch_rtask, ch_wtask}
      BY <1>1, <2>1, WokenWaits
    <2>3. Waiting(v, o)
      BY <1>1, <1>2, <2>2 DEF Waiting, coVars
    <2> QED BY <2>2, <2>3, Waiters
  <1>3. op' = op
    BY <1>1 DEF coVars
  <1> QED BY <1>1, <1>2, <1>3, ClosedWaits

LEMMA ConnectReturnWaits ==
    ASSUME StrIInv, WaitOK, NEW t \in Task, connect_return(t)
    PROVE  WaitOK'
  <1> USE DEF StrIInv, Chan
  <1>1. current = t /\ co[t] = "back" /\ op[t] = "connect" /\ returns(t) /\ rd' = rd /\ t # None
    BY DEF connect_return, Task, None
  <1>2. op' = [op EXCEPT ![t] = "none"]
    BY <1>1 DEF returns
  <1>3. \A v \in Task : op'[v] # "read"
    BY <1>1, <1>2, OneUser DEF Sched, IInv, TypeOK
  <1>4. CASE /\ ret[t] = 0 /\ ch_err = 0
             /\ ch_state' = ESTABLISHED /\ edge' = (edge \/ InReady)
             /\ slip' = (IF ch_wtask # None THEN slip \cup {"out"} ELSE slip)
             /\ UNCHANGED <<ch_wtask, kin, end, readyVars>>
    <2>1. EdgeOK'
      BY <1>4 DEF EdgeOK, InReady
    <2>2. ASSUME NEW v \in Task, Waiting(v, "write")'
          PROVE  "out" \in slip'
      <3>1. wake_both(None, 0, None, 0)
        BY <1>4, NobodyWoken DEF Sched
      <3>2. Waiting(v, "write")
        BY <1>1, <2>2, <3>1, KeepsWaiting DEF Blocking
      <3>3. ch_wtask = v /\ v # None
        BY <3>2, Waiters DEF Task, None
      <3> QED BY <1>4, <3>3
    <2>3. ch_state' > ERRORED
      BY <1>4 DEF ESTABLISHED, ERRORED
    <2> QED BY <1>3, <2>1, <2>2, <2>3 DEF WaitOK, ReadersOK, WritersOK
  <1>5. CASE ch_state' = CLOSED
    <2>1. \E u : wake_both(None, 0, u, 0) /\ (u = ch_wtask \/ ch_state = CLOSED)
      <3>1. CASE closing(None)
        BY <3>1 DEF closing, close_wakes
      <3>2. CASE ch_state = CLOSED /\ UNCHANGED readyVars
        BY <3>2, NobodyWoken DEF Sched
      <3>3. ch_state' # ESTABLISHED
        BY <1>5 DEF ESTABLISHED, CLOSED
      <3> QED BY <3>1, <3>2, <3>3 DEF connect_return
    <2>2. PICK u : wake_both(None, 0, u, 0) /\ (u = ch_wtask \/ ch_state = CLOSED)
      BY <2>1
    <2>3. ASSUME NEW v \in Task, Waiting(v, "write")'
          PROVE  FALSE
      <3>1. Waiting(v, "write") /\ v # u
        BY <1>1, <2>2, <2>3, KeepsWaiting DEF Blocking
      <3>2. ch_wtask = v
        BY <3>1, Waiters
      <3>3. ch_state # CLOSED
        BY <3>1 DEF WaitOK, WritersOK, CLOSED, ERRORED
      <3> QED BY <2>2, <3>1, <3>2, <3>3
    <2>4. \A v \in Task, o \in {"read", "write"} : ~Waiting(v, o)'
      BY <1>3, <2>3 DEF Waiting
    <2> QED BY <1>1, <1>3, <1>5, <2>4, ClosedWaits
  <1>6. closing(None) => ch_state' = CLOSED
    BY DEF closing
  <1>7. kernelVars' = kernelVars => UNCHANGED <<kin, end>>
    BY DEF kernelVars
  <1> QED BY <1>4, <1>5, <1>6, <1>7 DEF connect_return

\* A reader that waits has room in the buffer, so that the handler reads; it
\* is woken unless it still has nothing to return.
LEMMA ReadableReader ==
    ASSUME StrIInv, ReadersOK, Fits, StreamAssumption, on_readable, UNCHANGED <<rd, end>>,
           NEW t \in Task, Waiting(t, "read")
    PROVE  \/ ch_state' = ESTABLISHED /\ ~CanReturn(t)'
           \/ \E a, e : wake_both(a, e, t, 0)
  <1> USE DEF StrIInv, Chan
  <1> DEFINE f == stream_channel_read
             hup == "HUP" \in Revents /\ f.state > 0
             state == IF hup THEN HALFCLOSED ELSE f.state
             seen == ch_rtask # None /\ (f.updated \/ hup)
             line == IF seen /\ state > 0 /\ ch_rreqsiz <= 0 THEN first_line(f.rbuf) ELSE <<>>
             r == seen /\ \/ state <= 0
                          \/ ch_rreqsiz > 0 /\ Len(f.rbuf) >= ch_rreqsiz
                          \/ line # <<>>
             next_state == IF ~seen /\ f.left THEN READABLE ELSE state
  <1>1. /\ ch_rbuf' = without(f.rbuf, Len(line))
        /\ ch_line' = IF line # <<>> THEN line ELSE ch_line
        /\ ch_state' = next_state
        /\ wake_both(only_if(f.state = ERRORED, ch_wtask), ECONN, only_if(r, ch_rtask), 0)
    BY DEF on_readable
  <1>2. /\ ch_rtask = t /\ t # None /\ op[t] = "read" /\ co[t] = "parked"
        /\ ch_state = ESTABLISHED /\ ~CanReturn(t)
        /\ rd[t].bytes <= RBufSiz /\ rd[t].bytes \in Nat /\ (rd[t].bytes = Line => Line \in Reqs)
    <2>1. ch_rtask = t /\ t # None /\ op[t] = "read" /\ co[t] = "parked"
      BY Waiters DEF Waiting, Task, None
    <2>2. /\ ch_state = ESTABLISHED /\ ~CanReturn(t)
          /\ rd[t].bytes <= RBufSiz /\ (rd[t].bytes = Line => Line \in Reqs)
      BY <2>1 DEF ReadersOK
    <2>3. rd[t].bytes \in Nat
      BY DEF StrTypes
    <2> QED BY <2>1, <2>2, <2>3
  <1>3. ch_rreqsiz = (IF rd[t].bytes = Line THEN -1 ELSE rd[t].bytes) /\ ch_nshift = 0
    BY <1>2 DEF ReaderOK, ESTABLISHED
  <1>4. /\ ~(rd[t].bytes # Line /\ Len(ch_rbuf) >= rd[t].bytes)
        /\ rd[t].bytes = Line => ch_line = <<>> /\ first_line(ch_rbuf) = <<>>
    BY <1>2 DEF CanReturn, HasBytes, HasLine
  <1>5. /\ f.rbuf \in Seq(Nat) /\ f.kin \in Seq(Nat) /\ Len(f.rbuf) <= RBufSiz
        /\ \A k \in 0..Len(ch_rbuf) : Cat(without(f.rbuf, k), f.kin) = Cat(without(ch_rbuf, k), kin)
        /\ f.updated <=> Len(ch_rbuf) < RBufSiz
        /\ ~f.updated => f.rbuf = ch_rbuf
        /\ f.updated =>
               \/ f.state = READABLE /\ Len(f.rbuf) = RBufSiz
               \/ f.state = ESTABLISHED
               \/ f.state = IF end = "reset" THEN ERRORED ELSE HALFCLOSED
    BY KernelRead
  <1> HIDE DEF f
  <1>6. Len(ch_rbuf) \in Nat /\ Len(f.rbuf) \in Nat /\ RBufSiz \in Nat \ {0} /\ Len(ch_rbuf) <= RBufSiz
    BY <1>5, LenProperties DEF StrTypes, StreamAssumption
  <1>7. Len(f.rbuf) = RBufSiz /\ rd[t].bytes = Line => first_line(f.rbuf) # <<>>
    <2>1. ch_state >= 0 /\ 0 \in 0..Len(ch_rbuf)
      BY <1>2, <1>6 DEF ESTABLISHED
    <2>2. PICK b \in Seq(Nat), k \in Seq(Nat) : b = f.rbuf /\ k = f.kin
      BY <1>5
    <2>3. ASSUME rd[t].bytes = Line
          PROVE  Rest = Cat(b, k)
      <3>1. Rest = Cat(ch_rbuf, kin)
        BY <1>3, <1>4, <2>1, <2>3, FirstOfRest
      <3>2. without(b, 0) = b
        BY NothingOut
      <3>3. without(ch_rbuf, 0) = ch_rbuf
        BY <1>3, LineFirst
      <3>4. Cat(without(f.rbuf, 0), f.kin) = Cat(without(ch_rbuf, 0), kin)
        BY <1>5, <2>1
      <3> QED BY <2>2, <3>1, <3>2, <3>3, <3>4
    <2>4. ASSUME rd[t].bytes = Line, Len(f.rbuf) = RBufSiz
          PROVE  first_line(f.rbuf) # <<>>
      <3>1. Rest = Cat(b, k) /\ Len(b) = RBufSiz /\ Line \in Reqs
        BY <1>2, <2>2, <2>3, <2>4
      <3> QED BY <2>1, <2>2, <3>1, FullBuffer
    <2> QED BY <2>4
  <1>8. f.updated
    <2>1. ASSUME ~f.updated
          PROVE  FALSE
      <3>1. Len(ch_rbuf) = RBufSiz /\ Len(f.rbuf) = RBufSiz /\ f.rbuf = ch_rbuf
        BY <1>5, <1>6, <2>1
      <3>2. rd[t].bytes = Line
        BY <1>2, <1>4, <3>1
      <3> QED BY <1>4, <1>7, <3>1, <3>2
    <2> QED BY <2>1
  <1>9. seen /\ ch_state' = state
    BY <1>1, <1>2, <1>8
  <1>10. \/ state = READABLE /\ Len(f.rbuf) = RBufSiz
         \/ state = ESTABLISHED
         \/ state \in {ERRORED, HALFCLOSED}
    BY <1>5, <1>8
  <1> HIDE DEF seen, state, hup
  <1>11. state > 0 \/ state <= 0
    BY <1>10 DEF READABLE, ESTABLISHED, HALFCLOSED, ERRORED
  <1>12. CASE r
    <2>1. only_if(r, ch_rtask) = t
      BY <1>2, <1>12 DEF only_if
    <2> QED BY <1>1, <2>1
  <1>13. CASE ~r
    <2>1. state > 0 /\ line = <<>> /\ ~(ch_rreqsiz > 0 /\ Len(f.rbuf) >= ch_rreqsiz)
      BY <1>9, <1>11, <1>13
    <2>2. ch_rreqsiz <= 0 => first_line(f.rbuf) = <<>>
      BY <1>9, <2>1
    <2>3. rd[t].bytes = Line => first_line(f.rbuf) = <<>>
      BY <1>3, <2>2
    <2>4. rd[t].bytes # Line => ~(Len(f.rbuf) >= rd[t].bytes)
      BY <1>2, <1>3, <2>1 DEF Line
    <2>5. Len(f.rbuf) # RBufSiz
      BY <1>2, <1>6, <1>7, <2>3, <2>4
    <2>6. state = ESTABLISHED
      BY <1>10, <2>1, <2>5 DEF READABLE, ESTABLISHED, HALFCLOSED, ERRORED
    <2>7. ch_rbuf' = f.rbuf /\ ch_line' = ch_line
      <3>1. PICK b \in Seq(Nat) : b = f.rbuf
        BY <1>5
      <3>2. without(b, Len(<<>>)) = b
        BY <3>1, LineOut
      <3> QED BY <1>1, <2>1, <3>1, <3>2
    <2>8. ~CanReturn(t)'
      <3>1. rd' = rd
        OBVIOUS
      <3>2. ~HasBytes(t)'
        BY <2>4, <2>7, <3>1 DEF HasBytes
      <3>3. ~HasLine(t)'
        BY <1>4, <2>3, <2>7, <3>1 DEF HasLine
      <3> QED BY <1>9, <2>6, <3>2, <3>3 DEF CanReturn, ESTABLISHED, HALFCLOSED
    <2> QED BY <1>9, <2>6, <2>8
  <1> QED BY <1>12, <1>13

\* What the handler leaves to no event: nothing that the history of the slips
\* does not know.
LEMMA ReadableSlips ==
    ASSUME StrIInv, StreamAssumption, Idle("poll"), on_readable
    PROVE  /\ ch_state' = ESTABLISHED /\ slip' \subseteq {"out"} => kin' = <<>> /\ end = "no"
           /\ ch_state' \in {ERRORED, HALFCLOSED, ESTABLISHED, READABLE}
           /\ \/ \E u : wake_both(ch_wtask, ECONN, u, 0)
              \/ /\ ch_state' # ERRORED /\ \E u : wake_both(None, ECONN, u, 0)
                 /\ ch_wtask # None /\ "out" \notin slip' => "OUT" \notin Revents
  <1> USE DEF StrIInv, Chan
  <1> DEFINE f == stream_channel_read
             hup == "HUP" \in Revents /\ f.state > 0
             state == IF hup THEN HALFCLOSED ELSE f.state
             seen == ch_rtask # None /\ (f.updated \/ hup)
             line == IF seen /\ state > 0 /\ ch_rreqsiz <= 0 THEN first_line(f.rbuf) ELSE <<>>
             r == seen /\ \/ state <= 0
                          \/ ch_rreqsiz > 0 /\ Len(f.rbuf) >= ch_rreqsiz
                          \/ line # <<>>
             next_state == IF ~seen /\ f.left THEN READABLE ELSE state
  <1>1. /\ kin' = f.kin /\ ch_state' = next_state
        /\ wake_both(only_if(f.state = ERRORED, ch_wtask), ECONN, only_if(r, ch_rtask), 0)
        /\ slip' = slip \cup unnoticed_end(f, next_state)
                        \cup {s \in {"full"} : ~f.updated /\ next_state = ESTABLISHED}
                        \cup {s \in {"out"} : "OUT" \in Revents /\ state # ERRORED
                                              /\ ch_wtask # None}
    BY DEF on_readable, take_from_kernel
  <1>2. /\ f.left <=> f.updated /\ f.kin # <<>>
        /\ f.updated =>
               \/ f.state = READABLE /\ f.kin # <<>>
               \/ f.state = ESTABLISHED /\ f.kin = <<>>
               \/ f.state = IF end = "reset" THEN ERRORED ELSE HALFCLOSED
    BY KernelRead
  <1>3. /\ \/ ch_state' = READABLE /\ f.state # ERRORED
           \/ ch_state' = ESTABLISHED
           \/ ch_state' = HALFCLOSED
           \/ ch_state' = ERRORED /\ f.state = ERRORED
        /\ ch_state' # ERRORED => f.state # ERRORED
    BY OnReadable
  <1> HIDE DEF f
  <1>4. state = HALFCLOSED \/ state = f.state
    OBVIOUS
  <1> HIDE DEF hup, seen, state, line, r
  <1>5. ch_state' = ESTABLISHED => f.state = ESTABLISHED
    BY <1>1, <1>4 DEF ESTABLISHED, HALFCLOSED, READABLE
  <1>6. ASSUME ch_state' = ESTABLISHED, slip' \subseteq {"out"}
        PROVE  kin' = <<>> /\ end = "no"
    <2>1. f.updated
      <3>1. f.updated \/ "full" \in slip'
        BY <1>1, <1>6
      <3> QED BY <1>6, <3>1
    <2>2. f.kin = <<>>
      BY <1>2, <1>5, <1>6, <2>1 DEF ESTABLISHED, HALFCLOSED, READABLE, ERRORED
    <2>3. end = "no" \/ "end" \in slip'
      BY <1>1, <1>6, <2>1 DEF unnoticed_end
    <2> QED BY <1>1, <1>6, <2>2, <2>3
  <1>7. CASE ch_state' = ERRORED
    <2>1. only_if(f.state = ERRORED, ch_wtask) = ch_wtask
      BY <1>3, <1>7 DEF only_if, READABLE, ESTABLISHED, HALFCLOSED, ERRORED
    <2> QED BY <1>1, <1>3, <1>6, <1>7, <2>1
  <1>8. CASE ch_state' # ERRORED
    <2>1. f.state # ERRORED /\ state # ERRORED
      BY <1>3, <1>4, <1>8 DEF HALFCLOSED, ERRORED
    <2>2. only_if(f.state = ERRORED, ch_wtask) = None
      BY <2>1 DEF only_if
    <2>3. ch_wtask # None /\ "out" \notin slip' => "OUT" \notin Revents
      BY <1>1, <2>1
    <2>4. \E u : wake_both(None, ECONN, u, 0)
      BY <1>1, <2>2
    <2> QED BY <1>3, <1>6, <1>8, <2>3, <2>4
  <1> QED BY <1>7, <1>8

\* The event handler leaves nobody waiting for what it has seen.
LEMMA EventWaits ==
    ASSUME StrIInv, WaitOK, Fits, StreamAssumption, on_event
    PROVE  WaitOK'
  <1>1. /\ Idle("poll") /\ UNCHANGED <<coVars, ch_rtask, ch_wtask, rd, link, end, room>>
        /\ on_readable \/ on_writable \/ on_connected \/ on_errored
    BY DEF on_event
  <1>2. op' = op /\ co' = co
    BY <1>1 DEF coVars
  <1>3. ASSUME NEW v \in Task, NEW o \in Blocking, Waiting(v, o)',
               NEW a, NEW e, NEW u, NEW x, wake_both(a, e, u, x)
        PROVE  Waiting(v, o) /\ v \notin {a, u}
    <2>1. ~t_prev'[v] /\ co[v] = "parked" /\ op[v] = o
      BY <1>2, <1>3 DEF Waiting
    <2> QED BY <1>3, <2>1, WokenWaits DEF Waiting
  <1>4. \A v \in Task : Waiting(v, "write") => ch_wtask = v /\ v # None
    BY Waiters DEF Task, None
  <1>5. ~("IN" \in Revents) => kin = <<>> /\ end = "no"
    BY DEF Revents, InReady
  <1>6. ASSUME "OUT" \notin Revents, "WRITE" \in ch_events, link = "up"
        PROVE  room = 0 /\ end # "reset"
    <2>1. ~(room > 0) /\ end # "reset"
      BY <1>6 DEF Revents, OutReady
    <2>2. room \in Nat
      BY DEF StrIInv, Chan, StrTypes, StreamAssumption
    <2> QED BY <2>1, <2>2
  <1>7. CASE on_readable
    <2>1. /\ ch_state \in {ESTABLISHED, READABLE, HALFCLOSED}
          /\ slip \subseteq slip' /\ edge' = FALSE /\ ch_events' = ch_events
      BY <1>7 DEF on_readable
    <2>2. /\ ch_state' = ESTABLISHED /\ slip' \subseteq {"out"} => kin' = <<>> /\ end = "no"
          /\ ch_state' \in {ERRORED, HALFCLOSED, ESTABLISHED, READABLE}
          /\ \/ \E u : wake_both(ch_wtask, ECONN, u, 0)
             \/ /\ ch_state' # ERRORED /\ \E u : wake_both(None, ECONN, u, 0)
                /\ ch_wtask # None /\ "out" \notin slip' => "OUT" \notin Revents
      BY <1>1, <1>7, ReadableSlips
    <2>3. EdgeOK'
      BY <1>1, <2>2 DEF EdgeOK
    <2>4. ReadersOK'
      <3>1. PICK a, u : wake_both(a, ECONN, u, 0)
        BY <2>2
      <3>2. ASSUME NEW v \in Task, Waiting(v, "read")'
            PROVE  ch_state' = ESTABLISHED /\ ~CanReturn(v)'
        <4>1. Waiting(v, "read")
          BY <1>3, <3>1, <3>2 DEF Blocking
        <4>2. \A b, e : ~wake_both(b, e, v, 0)
          BY <1>3, <3>2 DEF Blocking
        <4> QED BY <1>1, <1>7, <4>1, <4>2, ReadableReader DEF WaitOK
      <3> QED BY <1>1, <1>2, <3>2 DEF WaitOK, ReadersOK
    <2>5. WritersOK'
      <3> SUFFICES ASSUME NEW v \in Task, Waiting(v, "write")'
                   PROVE  /\ ch_state' > ERRORED
                          /\ "out" \notin slip' =>
                                 /\ "WRITE" \in ch_events'
                                 /\ link' = "up" => room' = 0 /\ end' # "reset"
        BY DEF WritersOK
      <3>1. Waiting(v, "write")
        BY <1>3, <2>2 DEF Blocking
      <3>2. ch_wtask = v /\ v # None
        BY <1>4, <3>1
      <3>3. ~\E u : wake_both(ch_wtask, ECONN, u, 0)
        BY <1>3, <3>2 DEF Blocking
      <3>4. ch_state' > ERRORED
        BY <2>2, <3>3 DEF ERRORED, HALFCLOSED, ESTABLISHED, READABLE
      <3>5. ASSUME "out" \notin slip'
            PROVE  "WRITE" \in ch_events /\ "OUT" \notin Revents
        <4>1. "WRITE" \in ch_events
          BY <2>1, <3>1, <3>5 DEF WaitOK, WritersOK
        <4> QED BY <2>2, <3>2, <3>3, <3>5, <4>1
      <3> QED BY <1>1, <1>6, <2>1, <3>4, <3>5
    <2> QED BY <2>3, <2>4, <2>5 DEF WaitOK
  <1>8. CASE on_writable
    <2>1. /\ "IN" \notin Revents /\ wake_both(ch_wtask, 0, None, 0)
          /\ UNCHANGED <<ch_rbuf, ch_line, ch_state, kin>>
      BY <1>8 DEF on_writable, wake, bufVars, dataVars
    <2>2. EdgeOK'
      BY <1>1, <1>5, <2>1 DEF EdgeOK
    <2>3. \A v \in Task : Waiting(v, "read")' => Waiting(v, "read")
      BY <1>3, <2>1 DEF Blocking
    <2>4. ReadersOK'
      BY <1>1, <1>2, <2>1, <2>3, ReadersFrame DEF WaitOK
    <2>5. \A v \in Task : ~Waiting(v, "write")'
      BY <1>3, <1>4, <2>1 DEF Blocking
    <2> QED BY <2>2, <2>4, <2>5 DEF WaitOK, WritersOK
  <1>9. CASE on_connected
    <2>1. /\ ch_state = CONNECTING /\ wake_both(ch_rtask, 0, None, 0)
          /\ UNCHANGED <<ch_rbuf, ch_line, ch_state, ch_events, kin, slip>>
      BY <1>9 DEF on_connected, wake, bufVars, dataVars
    <2>2. EdgeOK'
      BY <2>1 DEF EdgeOK, CONNECTING, ESTABLISHED
    <2>3. \A v \in Task, o \in {"read", "write"} : Waiting(v, o)' => Waiting(v, o)
      BY <1>3, <2>1 DEF Blocking
    <2>4. ReadersOK'
      BY <1>1, <1>2, <2>1, <2>3, ReadersFrame DEF WaitOK
    <2>5. WritersOK'
      BY <2>1, <2>3 DEF WaitOK, WritersOK
    <2> QED BY <2>2, <2>4, <2>5 DEF WaitOK
  <1>10. CASE on_errored
    <2>1. ch_state = ERRORED /\ UNCHANGED <<ch_state, readyVars>>
      BY <1>10 DEF on_errored
    <2>2. \A v \in Task, o \in {"read", "write"} : Waiting(v, o)' => Waiting(v, o)
      BY <1>2, <2>1 DEF Waiting, readyVars
    <2>3. \A v \in Task : ~Waiting(v, "read")' /\ ~Waiting(v, "write")'
      BY <2>1, <2>2 DEF WaitOK, ReadersOK, WritersOK, Waiting, ERRORED, ESTABLISHED
    <2> QED BY <1>1, <1>2, <2>1, <2>3 DEF WaitOK, EdgeOK, ReadersOK, WritersOK, ERRORED, ESTABLISHED
  <1> QED BY <1>1, <1>7, <1>8, <1>9, <1>10

LEMMA WaitInit ==
    ASSUME StrInit
    PROVE  WaitOK
  <1>1. /\ kin = <<>> /\ end = "no" /\ \A t \in Task : op[t] = "none"
    BY DEF StrInit, Init
  <1> QED BY <1>1 DEF WaitOK, EdgeOK, ReadersOK, WritersOK, Waiting

LEMMA WaitStep ==
    ASSUME StrIInv, WaitOK, Peaceful, Fits, TaskAssumption, StreamAssumption, [StrNext]_allVars
    PROVE  WaitOK'
  <1>0. edge \in BOOLEAN
    BY DEF StrIInv, Chan, StrTypes
  <1>1. ASSUME UNCHANGED strVars,
               \/ \E t \in Task : Yield(t) \/ Call(t)
               \/ Loop \/ update_time \/ UNCHANGED vars
        PROVE  WaitOK'
    <2>1. Sched' /\ AllAside
      BY <1>1, SchedulerSteps DEF StrIInv
    <2>2. Elsewhere /\ edge' = edge
      BY <1>0, <1>1, <2>1 DEF Elsewhere, strVars, kernelVars
    <2> QED BY <2>2, ElsewhereWaits
  <1>2. ASSUME NEW t \in Task, StrYield(t)
        PROVE  WaitOK'
    <2>1. CASE Yield(t) /\ UNCHANGED strVars
      BY <1>1, <2>1
    <2>2. ASSUME InProgram(t), NEW sec \in RdSecs, NEW req \in Reqs, read(t, req, sec)
          PROVE  WaitOK'
      BY <2>2, ReadWaits
    <2>3. ASSUME InProgram(t), NEW sec \in RdSecs, connect(t, sec)
          PROVE  WaitOK'
      BY <2>3, ConnectWaits
    <2>4. ASSUME InProgram(t), NEW sec \in WrSecs, NEW n \in WriteSizes, write(t, n, sec)
          PROVE  WaitOK'
      BY <2>4, WriteWaits
    <2>5. CASE InProgram(t) /\ (read_busy(t) \/ write_busy(t))
      <3>1. error(t) /\ UNCHANGED strVars
        BY <2>5 DEF read_busy, write_busy, error
      <3>2. Sched' /\ AllAside
        BY <2>5, <3>1, ErrorStep DEF StrIInv
      <3>3. Elsewhere /\ edge' = edge
        BY <1>0, <3>1, <3>2 DEF Elsewhere, strVars, kernelVars
      <3> QED BY <3>3, ElsewhereWaits
    <2>6. CASE read_step(t)
      BY <2>6, ReadStepWaits
    <2>7. CASE write_step(t)
      BY <2>7, WriteStepWaits
    <2>8. CASE connect_return(t)
      BY <2>8, ConnectReturnWaits
    <2> QED BY <1>2, <2>1, <2>2, <2>3, <2>4, <2>5, <2>6, <2>7, <2>8 DEF StrYield
  <1>3. ASSUME NEW t \in Task, StrCall(t)
        PROVE  WaitOK'
    <2>1. CASE Call(t) /\ UNCHANGED strVars
      BY <1>1, <2>1
    <2>2. CASE Running(t) /\ close(t)
      BY <2>2, CloseWaits
    <2> QED BY <1>3, <2>1, <2>2 DEF StrCall
  <1>4. CASE StrLoop
    <2>1. CASE at # "poll" /\ Loop /\ UNCHANGED strVars
      BY <1>1, <2>1
    <2>2. CASE /\ ~EventDue
               /\ poll_events \/ poll_nothing
               /\ edge' = FALSE
               /\ UNCHANGED <<chVars, rd, wr, link, kin, end, room, historyVars>>
      <3>1. Loop
        BY <2>2 DEF Loop
      <3>2. Sched' /\ AllAside
        BY <3>1, SchedulerSteps DEF StrIInv
      <3>3. Elsewhere
        BY <2>2, <3>2 DEF Elsewhere
      <3> QED BY <2>2, <3>3, ElsewhereWaits
    <2>3. CASE on_event
      BY <2>3, EventWaits
    <2> QED BY <1>4, <2>1, <2>2, <2>3 DEF StrLoop
  <1>5. CASE Environment
    BY <1>5, EnvironmentWaits
  <1>6. CASE (update_time \/ aborted) /\ UNCHANGED strVars
    <2>1. update_time \/ UNCHANGED vars
      BY <1>6 DEF aborted
    <2> QED BY <1>1, <1>6, <2>1
  <1>7. CASE UNCHANGED allVars
    BY <1>1, <1>7 DEF allVars
  <1> QED BY <1>2, <1>3, <1>4, <1>5, <1>6, <1>7 DEF StrNext

\* As long as tasks ask for what fits into the receive buffer, neither a
\* reader nor a writer waits for what has happened already, unless an event is
\* still to come or one of the known slips has happened.
THEOREM NobodyStalls ==
    ASSUME Peaceful, Fits
    PROVE  StrSpec => []NoStall
  <1>1. StrInit => StrIInv /\ WaitOK
    BY StrInitInv, WaitInit, TaskAssumption, StreamAssumption
  <1>2. StrIInv /\ WaitOK /\ [StrNext]_allVars => StrIInv' /\ WaitOK'
    BY EveryStep, WaitStep, TaskAssumption, StreamAssumption
  <1>3. StrIInv /\ WaitOK => NoStall
    BY WaitOKEnough
  <1> QED BY <1>1, <1>2, <1>3, PTL DEF StrSpec
============================================================================
