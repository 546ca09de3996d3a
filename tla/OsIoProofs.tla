----------------------------- MODULE OsIoProofs -----------------------------
(***************************************************************************)
(* Proofs about Signals and OsIo for any signals, any number of children,  *)
(* any sizes and any programs: no queue is left without a hook, no child   *)
(* is left dead, and reads and writes report what the kernel did.          *)
(***************************************************************************)
EXTENDS OsIo, SequenceTheorems, TLAPS

Disposition == {"sig_postpone", "on_sigchld", "ignore", "default"}

ChildState == {"none", "alive", "zombie"}

\* What the proofs need to know of the values; every step of a signal
\* handler or of the program that touches disp or child keeps it.
SigTypes ==
    /\ disp \in [Sig -> Disposition]
    /\ child \in [Pid -> ChildState]

SigInv == SigTypes /\ QueueHooked /\ NoZombies

---------------------------------------------------------------------------
(* What a signal does where it strikes *)

\* Whatever a signal does where it strikes, it leaves no queue without the
\* hook; and the one that on_sigchld handles leaves no zombie.
LEMMA StrikeKeeps ==
    ASSUME NEW s \in Sig, SigTypes, strike(s)
    PROVE  /\ child' \in [Pid -> ChildState]
           /\ QueueHooked /\ UNCHANGED masked => QueueHooked'
           /\ \A p \in Pid : child'[p] = "zombie" => child[p] = "zombie"
           /\ disp[Chld] = "on_sigchld" /\ s = Chld => \A p \in Pid : child'[p] # "zombie"
           /\ thread = "dead" => thread' = "dead"
<1>1. CASE disp[s] = "sig_postpone" /\ sig_postpone(s) /\ UNCHANGED thread
  BY <1>1 DEF sig_postpone, QueueHooked, SigTypes, queueVars
<1>2. CASE disp[s] = "on_sigchld" /\ on_sigchld /\ UNCHANGED thread
  BY <1>2 DEF on_sigchld, Collected, QueueHooked, SigTypes, queueVars, ChildState
<1>3. CASE /\ disp[s] = "ignore" \/ (disp[s] = "default" /\ s = Chld)
           /\ UNCHANGED <<queueVars, child, thread>>
  BY <1>3 DEF QueueHooked, SigTypes, queueVars
<1>4. CASE /\ disp[s] = "default" /\ s # Chld
           /\ thread' = "dead"
           /\ UNCHANGED <<queueVars, child>>
  BY <1>4 DEF QueueHooked, SigTypes, queueVars
<1> QED  BY <1>1, <1>2, <1>3, <1>4 DEF strike

---------------------------------------------------------------------------
(* Each kind of step keeps the invariant *)

LEMMA SignalSteps ==
    ASSUME SigInv, NEW s \in Sig,
           \/ deliver(s) \/ lsignal_kill(s) \/ lsignal_raise(s)
           \/ \E h \in {"sig_postpone", "ignore", "default"} : lsignal_signal(s, h)
    PROVE  SigInv'
<1> USE DEF SigInv
<1>1. CASE deliver(s)
  <2>1. strike(s) /\ UNCHANGED <<disp, masked>> /\ pending' = pending \ {s} /\ thread # "dead"
    BY <1>1 DEF deliver
  <2>2. SigTypes' /\ QueueHooked'
    BY <2>1, StrikeKeeps DEF SigTypes
  <2>3. NoZombies'
    BY <2>1, StrikeKeeps DEF NoZombies
  <2> QED  BY <2>2, <2>3
<1>2. CASE lsignal_kill(s)
  BY <1>2 DEF lsignal_kill, SigTypes, QueueHooked, NoZombies, queueVars
<1>3. CASE lsignal_raise(s)
  <2>1. strike(s) /\ UNCHANGED <<disp, masked, pending>>
    BY <1>3 DEF lsignal_raise
  <2>2. SigTypes' /\ QueueHooked'
    BY <2>1, StrikeKeeps DEF SigTypes
  <2>3. NoZombies'
    BY <2>1, StrikeKeeps DEF NoZombies
  <2> QED  BY <2>2, <2>3
<1>4. ASSUME NEW h \in {"sig_postpone", "ignore", "default"}, lsignal_signal(s, h)
      PROVE  SigInv'
  <2>1. /\ disp' = [disp EXCEPT ![s] = h]
        /\ pending' = IF h = "ignore" THEN pending \ {s} ELSE pending
        /\ UNCHANGED <<queueVars, masked, child, thread>>
    BY <1>4 DEF lsignal_signal
  <2>2. SigTypes' /\ QueueHooked'
    BY <2>1 DEF SigTypes, QueueHooked, queueVars, Disposition
  <2>3. disp'[Chld] = "on_sigchld" => disp[Chld] = "on_sigchld" /\ s # Chld
    BY <2>1, SignalsAssumption DEF SigTypes
  <2>4. NoZombies'
    BY <2>1, <2>3 DEF NoZombies
  <2> QED  BY <2>2, <2>4
<1> QED  BY <1>1, <1>2, <1>3, <1>4

LEMMA HookSteps ==
    ASSUME SigInv, SigHandle
    PROVE  SigInv'
<1> USE DEF SigInv
<1>1. CASE sig_handle
  BY <1>1 DEF sig_handle, SigTypes, QueueHooked, NoZombies
<1>2. CASE sig_handle_call
  <2>1. pending \subseteq pending' /\ masked /\ UNCHANGED <<disp, masked, child, thread>>
    BY <1>2 DEF sig_handle_call
  <2> QED  BY <2>1 DEF SigTypes, QueueHooked, NoZombies
<1>3. CASE sig_handle_return
  BY <1>3 DEF sig_handle_return, SigTypes, QueueHooked, NoZombies, queueVars
<1> QED  BY <1>1, <1>2, <1>3 DEF SigHandle

LEMMA ChildSteps ==
    ASSUME SigInv, NEW p \in Pid, los_fork(p) \/ child_exit(p)
    PROVE  SigInv'
<1> USE DEF SigInv
<1>1. CASE los_fork(p)
  BY <1>1 DEF los_fork, SigTypes, QueueHooked, NoZombies, queueVars, ChildState
<1>2. CASE child_exit(p)
  BY <1>2 DEF child_exit, SigTypes, QueueHooked, NoZombies, queueVars, ChildState
<1> QED  BY <1>1, <1>2

\* wait collects a child in the place of on_sigchld.
LEMMA WaitSteps ==
    ASSUME SigInv, los_waitpid
    PROVE  SigInv'
<1> USE DEF SigInv
<1>1. ASSUME NEW p \in Pid, wait_done([child EXCEPT ![p] = "none"])
      PROVE  SigInv'
  BY <1>1 DEF wait_done, SigTypes, QueueHooked, NoZombies, queueVars, ChildState
<1>2. CASE wait_done(child)
  BY <1>2 DEF wait_done, SigTypes, QueueHooked, NoZombies, queueVars
<1>3. CASE sleep
  BY <1>3 DEF sleep, sigVars, SigTypes, QueueHooked, NoZombies, queueVars
<1> QED  BY <1>1, <1>2, <1>3 DEF los_waitpid, Dead

\* The other calls and the world leave the signals alone.
LEMMA IdleSteps ==
    ASSUME SigInv, UNCHANGED sigVars
    PROVE  SigInv'
BY DEF SigInv, sigVars, SigTypes, QueueHooked, NoZombies, queueVars

LEMMA CallsLeaveSignals ==
    ASSUME Program \/ os_implread \/ os_implwrite \/ arrive \/ peer_ends \/ drain
    PROVE  UNCHANGED sigVars
<1>1. Program => UNCHANGED sigVars
  BY DEF Program, los_read, los_readb, los_write, los_wait, los_nohang, los_setnonblock, begin
<1>2. os_implread => UNCHANGED sigVars
  BY DEF os_implread, read_some, read_end, read_empty, read_error, sleep
<1>3. os_implwrite => UNCHANGED sigVars
  BY DEF os_implwrite, write_some, write_full, write_error, sleep
<1>4. arrive \/ peer_ends \/ drain => UNCHANGED sigVars
  BY DEF arrive, peer_ends, drain
<1> QED  BY <1>1, <1>2, <1>3, <1>4

LEMMA SigInvInit == Init => SigInv
BY SignalsAssumption DEF Init, SigInit, SigInv, SigTypes, QueueHooked, NoZombies, Disposition, ChildState

LEMMA SigInvStep == SigInv /\ [Next]_vars => SigInv'
<1> SUFFICES ASSUME SigInv, [Next]_vars PROVE SigInv'
  OBVIOUS
<1>1. CASE Program
  BY <1>1, CallsLeaveSignals, IdleSteps
<1>2. CASE ProgramSignals
  <2>1. CASE switch
    BY <2>1 DEF switch, Instruction, SigInv, SigTypes, QueueHooked, NoZombies, queueVars
  <2> QED  BY <1>2, <2>1, SignalSteps, HookSteps, ChildSteps DEF ProgramSignals
<1>3. CASE Outside
  BY <1>3, SignalSteps, ChildSteps, CallsLeaveSignals, IdleSteps DEF Outside
<1>4. CASE \E s \in Sig : struck(s)
  BY <1>4, SignalSteps DEF struck
<1>5. CASE os_implread \/ os_implwrite
  BY <1>5, CallsLeaveSignals, IdleSteps
<1>6. CASE los_waitpid
  BY <1>6, WaitSteps
<1>7. CASE UNCHANGED vars
  BY <1>7, IdleSteps DEF vars
<1> QED  BY <1>1, <1>2, <1>3, <1>4, <1>5, <1>6, <1>7 DEF Next

\* No queued signal is without its hook: in whatever order signals strike,
\* hooks run and handlers raise signals, sig_postpone and sig_handle together
\* never leave a queue that nothing will serve.
THEOREM SignalsServed == Spec => []QueueHooked
<1>1. SigInv => QueueHooked
  BY DEF SigInv
<1> QED  BY <1>1, SigInvInit, SigInvStep, PTL DEF Spec

\* No child stays dead while on_sigchld is installed and its signal is not
\* pending, for any number of children, signals and other handlers.
THEOREM ChildrenCollected == Spec => []NoZombies
<1>1. SigInv => NoZombies
  BY DEF SigInv
<1> QED  BY <1>1, SigInvInit, SigInvStep, PTL DEF Spec

---------------------------------------------------------------------------
(* Stretches of bytes: bytes are named by their position                   *)

\* a holds the bytes behind the first k, in order.
Stretch(a, k) ==
    /\ k \in Nat /\ a \in Seq(Nat)
    /\ \A i \in 1..Len(a) : a[i] = k + i

\* Programs have been given g of the first k bytes, in order, and have lost d.
Delivered(g, d, k) ==
    /\ k \in Nat /\ g \in Seq(Nat)
    /\ \A i \in 1..Len(g) : g[i] \in 1..k
    /\ \A i \in 1..(Len(g) - 1) : g[i] < g[i + 1]
    /\ ToSet(g) \cup d = 1..k

LEMMA EmptyStretch == \A k \in Nat : Stretch(<<>>, k) /\ Len(<<>>) = 0
BY EmptySeq DEF Stretch

LEMMA SplitStretch ==
    ASSUME NEW s, NEW k, Stretch(s, k), NEW n \in 0..Len(s)
    PROVE  /\ Stretch(SubSeq(s, 1, n), k) /\ Len(SubSeq(s, 1, n)) = n
           /\ Stretch(SubSeq(s, n + 1, Len(s)), k + n)
           /\ Len(SubSeq(s, n + 1, Len(s))) = Len(s) - n
<1>1. Len(s) \in Nat /\ n \in Nat /\ k \in Nat /\ \A i \in 1..Len(s) : s[i] \in Nat
  BY LenProperties DEF Stretch
<1>2. /\ SubSeq(s, 1, n) \in Seq(Nat)
      /\ Len(SubSeq(s, 1, n)) = n
      /\ \A i \in 1..n : SubSeq(s, 1, n)[i] = s[i]
  <2>1. \A i \in 1..n : s[i] \in Nat
    BY <1>1
  <2>2. /\ SubSeq(s, 1, n) \in Seq(Nat)
        /\ Len(SubSeq(s, 1, n)) = IF 1 <= n THEN n - 1 + 1 ELSE 0
        /\ \A i \in 1..(n - 1 + 1) : SubSeq(s, 1, n)[i] = s[1 + i - 1]
    BY <2>1, <1>1, SubSeqProperties
  <2> QED  BY <2>2, <1>1
<1>3. /\ SubSeq(s, n + 1, Len(s)) \in Seq(Nat)
      /\ Len(SubSeq(s, n + 1, Len(s))) = Len(s) - n
      /\ \A i \in 1..(Len(s) - n) : SubSeq(s, n + 1, Len(s))[i] = s[n + i]
  <2>1. \A i \in (n + 1)..Len(s) : s[i] \in Nat
    BY <1>1
  <2>2. n + 1 \in Int /\ Len(s) \in Int
    BY <1>1
  <2>3. /\ SubSeq(s, n + 1, Len(s)) \in Seq(Nat)
        /\ Len(SubSeq(s, n + 1, Len(s))) =
               IF n + 1 <= Len(s) THEN Len(s) - (n + 1) + 1 ELSE 0
        /\ \A i \in 1..(Len(s) - (n + 1) + 1) :
               SubSeq(s, n + 1, Len(s))[i] = s[(n + 1) + i - 1]
    BY <2>1, <2>2, SubSeqProperties
  <2> QED  BY <2>3, <1>1
<1> QED  BY <1>1, <1>2, <1>3 DEF Stretch

LEMMA JoinStretches ==
    ASSUME NEW a, NEW b, NEW k, Stretch(a, k), Stretch(b, k + Len(a))
    PROVE  Stretch(a \o b, k) /\ Len(a \o b) = Len(a) + Len(b)
<1>1. Len(a) \in Nat /\ Len(b) \in Nat /\ k \in Nat
  BY LenProperties DEF Stretch
<1>2. /\ a \o b \in Seq(Nat) /\ Len(a \o b) = Len(a) + Len(b)
      /\ \A i \in 1..(Len(a) + Len(b)) :
             (a \o b)[i] = IF i <= Len(a) THEN a[i] ELSE b[i - Len(a)]
  BY ConcatProperties DEF Stretch
<1> QED  BY <1>1, <1>2 DEF Stretch

LEMMA StretchSet ==
    ASSUME NEW a, NEW k, Stretch(a, k)
    PROVE  ToSet(a) = (k + 1)..(k + Len(a))
<1>1. Len(a) \in Nat /\ DOMAIN a = 1..Len(a) /\ k \in Nat
  BY LenProperties DEF Stretch
<1>2. \A x \in (k + 1)..(k + Len(a)) : x - k \in 1..Len(a) /\ a[x - k] = x
  BY <1>1 DEF Stretch
<1>3. \A i \in 1..Len(a) : a[i] = k + i /\ a[i] \in (k + 1)..(k + Len(a))
  BY <1>1 DEF Stretch
<1>4. ToSet(a) = {a[i] : i \in 1..Len(a)}
  BY <1>1 DEF ToSet
<1> QED  BY <1>2, <1>3, <1>4

\* The next stretch may be given or lost.
LEMMA DeliverStretch ==
    ASSUME NEW g, NEW d, NEW a, NEW k, Delivered(g, d, k), Stretch(a, k)
    PROVE  /\ Delivered(g \o a, d, k + Len(a))
           /\ Delivered(g, d \cup ToSet(a), k + Len(a))
<1>1. Len(a) \in Nat /\ Len(g) \in Nat /\ k \in Nat
  BY LenProperties DEF Stretch, Delivered
<1>2. /\ g \o a \in Seq(Nat) /\ Len(g \o a) = Len(g) + Len(a)
      /\ \A i \in 1..(Len(g) + Len(a)) :
             (g \o a)[i] = IF i <= Len(g) THEN g[i] ELSE a[i - Len(g)]
  BY ConcatProperties DEF Stretch, Delivered
<1>3. ToSet(a) = (k + 1)..(k + Len(a))
  BY StretchSet
<1>4. ToSet(g \o a) = ToSet(g) \cup ToSet(a)
  <2>1. DOMAIN (g \o a) = 1..(Len(g) + Len(a)) /\ DOMAIN g = 1..Len(g) /\ DOMAIN a = 1..Len(a)
    BY <1>2, LenProperties DEF Stretch, Delivered
  <2>2. \A i \in 1..Len(a) : i + Len(g) \in 1..(Len(g) + Len(a)) /\ (g \o a)[i + Len(g)] = a[i]
    BY <1>1, <1>2
  <2>3. \A i \in 1..Len(g) : i \in 1..(Len(g) + Len(a)) /\ (g \o a)[i] = g[i]
    BY <1>1, <1>2
  <2>4. \A i \in 1..(Len(g) + Len(a)) :
            \/ i \in 1..Len(g) /\ (g \o a)[i] = g[i]
            \/ i - Len(g) \in 1..Len(a) /\ (g \o a)[i] = a[i - Len(g)]
    BY <1>1, <1>2
  <2> QED  BY <2>1, <2>2, <2>3, <2>4 DEF ToSet
<1>5. ToSet(g) \cup d \cup ToSet(a) = 1..(k + Len(a))
  BY <1>1, <1>3 DEF Delivered
<1>6. Delivered(g, d \cup ToSet(a), k + Len(a))
  BY <1>1, <1>5 DEF Delivered
<1>7. \A i \in 1..(Len(g \o a) - 1) : (g \o a)[i] < (g \o a)[i + 1]
  <2> SUFFICES ASSUME NEW i \in 1..(Len(g) + Len(a) - 1)
               PROVE  (g \o a)[i] < (g \o a)[i + 1]
    BY <1>2
  <2>1. CASE i < Len(g)
    <3>1. (g \o a)[i] = g[i] /\ (g \o a)[i + 1] = g[i + 1]
      BY <1>1, <1>2, <2>1
    <3> QED  BY <1>1, <2>1, <3>1 DEF Delivered
  <2>2. CASE i = Len(g)
    <3>1. (g \o a)[i] = g[i] /\ (g \o a)[i + 1] = a[1] /\ 1 \in 1..Len(a) /\ i \in 1..Len(g)
      BY <1>1, <1>2, <2>2
    <3>2. g[i] \in 1..k /\ a[1] = k + 1
      BY <3>1 DEF Delivered, Stretch
    <3> QED  BY <1>1, <3>1, <3>2
  <2>3. CASE i > Len(g)
    <3> DEFINE m == i - Len(g)
               n == i + 1 - Len(g)
    <3>1. m \in 1..Len(a) /\ n \in 1..Len(a) /\ n = m + 1
      BY <1>1, <2>3
    <3>2. (g \o a)[i] = a[m]
      BY <1>1, <1>2, <2>3
    <3>3. (g \o a)[i + 1] = a[n]
      BY <1>1, <1>2, <2>3
    <3>4. a[m] = k + m /\ a[n] = k + n
      BY <3>1 DEF Stretch
    <3> HIDE DEF m, n
    <3> QED  BY <1>1, <3>1, <3>2, <3>3, <3>4
  <2> QED  BY <1>1, <2>1, <2>2, <2>3
<1>8. \A i \in 1..Len(g \o a) : (g \o a)[i] \in 1..(k + Len(a))
  <2> SUFFICES ASSUME NEW i \in 1..(Len(g) + Len(a))
               PROVE  (g \o a)[i] \in 1..(k + Len(a))
    BY <1>2
  <2>1. CASE i <= Len(g)
    <3>1. (g \o a)[i] = g[i] /\ i \in 1..Len(g)
      BY <1>1, <1>2, <2>1
    <3>2. g[i] \in 1..k
      BY <3>1 DEF Delivered
    <3> QED  BY <1>1, <3>1, <3>2
  <2>2. CASE i > Len(g)
    <3> DEFINE m == i - Len(g)
    <3>1. m \in 1..Len(a) /\ (g \o a)[i] = a[m]
      BY <1>1, <1>2, <2>2
    <3>2. a[m] = k + m
      BY <3>1 DEF Stretch
    <3> HIDE DEF m
    <3> QED  BY <1>1, <3>1, <3>2
  <2> QED  BY <1>1, <2>1, <2>2
<1>9. ToSet(g \o a) \cup d = 1..(k + Len(a))
  BY <1>4, <1>5
<1>10. Delivered(g \o a, d, k + Len(a))
  <2>1. k + Len(a) \in Nat /\ g \o a \in Seq(Nat)
    BY <1>1, <1>2
  <2> QED  BY <2>1, <1>7, <1>8, <1>9, Zenon DEF Delivered
<1> QED  BY <1>6, <1>10

---------------------------------------------------------------------------
(* Reads and writes report what the kernel did                             *)

CallRecord ==
    [op : Reads \cup {"write", "wait", "nohang"}, nreq : Nat \cup {All}, acc : Seq(Nat),
     n : Nat, err : {0, EINTR}, asleep : BOOLEAN]

\* What a read in progress has taken and not given to the program.
Taken == IF io.op \in Reads THEN io.acc ELSE <<>>

\* How many bytes the kernel has given up, and how many of them are behind us.
GivenUp == came - Len(kin)

Settled == GivenUp - Len(Taken)

CallTypes == io = Idle \/ io \in CallRecord

ReadInv ==
    /\ came \in Nat
    /\ Stretch(kin, GivenUp)
    /\ Stretch(Taken, Settled)
    /\ Delivered(got, dropped, Settled)
    /\ io.op \in Reads /\ io.nreq # All => Len(io.acc) <= io.nreq
    /\ dropped = mislaid \/ kend = "error"

\* While a write is in progress, untold is what it has written so far.
WriteInv ==
    /\ room \in Nat
    /\ io.op = "write" => io.nreq \in Nat /\ io.n <= io.nreq
    /\ kend # "error" => untold = IF io.op = "write" THEN io.n ELSE 0

IoInv == CallTypes /\ ReadInv /\ WriteInv

\* A step that leaves the bytes alone and only changes how the process waits.
LEMMA WaitingSteps ==
    ASSUME IoInv, NEW a \in BOOLEAN, NEW e \in {0, EINTR},
           io \in CallRecord, io' = [io EXCEPT !.asleep = a, !.err = e],
           UNCHANGED <<kernelVars, historyVars>>
    PROVE  IoInv'
<1>1. /\ io' \in CallRecord
      /\ io'.op = io.op /\ io'.nreq = io.nreq /\ io'.acc = io.acc /\ io'.n = io.n
  BY DEF CallRecord
<1>2. Taken' = Taken /\ GivenUp' = GivenUp /\ Settled' = Settled
  BY <1>1 DEF Taken, GivenUp, Settled, kernelVars, historyVars
<1>3. ReadInv'
  BY <1>1, <1>2 DEF IoInv, ReadInv, kernelVars, historyVars
<1>4. WriteInv'
  BY <1>1 DEF IoInv, WriteInv, kernelVars, historyVars
<1> QED  BY <1>1, <1>3, <1>4 DEF IoInv, CallTypes

LEMMA SleepStep ==
    ASSUME IoInv, io \in CallRecord, sleep
    PROVE  IoInv'
<1>1. io' = [io EXCEPT !.asleep = TRUE, !.err = io.err] /\ io.err \in {0, EINTR}
  BY DEF sleep, CallRecord
<1>2. UNCHANGED <<kernelVars, historyVars>>
  BY DEF sleep
<1> QED  BY <1>1, <1>2, WaitingSteps

LEMMA InCallRecord ==
    ASSUME CallTypes, NEW ops, "none" \notin ops, InCall(ops)
    PROVE  io \in CallRecord /\ io.op \in ops
BY DEF CallTypes, InCall, Idle

\* The numbers the stretches are measured by.
LEMMA Numbers ==
    ASSUME ReadInv
    PROVE  /\ Len(kin) \in Nat /\ Len(Taken) \in Nat /\ came \in Nat
           /\ GivenUp \in Nat /\ Settled \in Nat
           /\ GivenUp = Settled + Len(Taken)
<1>1. kin \in Seq(Nat) /\ Taken \in Seq(Nat) /\ GivenUp \in Nat /\ Settled \in Nat /\ came \in Nat
  BY DEF ReadInv, Stretch
<1>2. Len(kin) \in Nat /\ Len(Taken) \in Nat
  BY <1>1, LenProperties
<1>3. GivenUp = Settled + Len(Taken)
  BY <1>1, <1>2 DEF Settled
<1> QED  BY <1>1, <1>2, <1>3

\* A read returns what it had taken and what it has just taken; its error is
\* that it was interrupted, or the descriptor's.
LEMMA ReadReturns ==
    ASSUME IoInv, io.op \in Reads,
           NEW acc, NEW e, read_returns(acc, e), Stretch(acc, Settled),
           Stretch(kin', GivenUp'), GivenUp' = Settled + Len(acc),
           e \in {0, EINTR} \/ kend = "error",
           UNCHANGED <<kend, room>>
    PROVE  IoInv'
<1>1. io' = Idle /\ came' = came /\ untold' = untold
  BY DEF read_returns
<1>2. io'.op \notin Reads /\ io'.op # "write"
  BY <1>1 DEF Idle, Reads
<1>3. Taken' = <<>>
  BY <1>2 DEF Taken
<1>4. GivenUp' \in Nat
  BY DEF Stretch
<1>5. Settled' = GivenUp'
  BY <1>3, <1>4, EmptyStretch DEF Settled
<1>6. Delivered(got', dropped', Settled')
  <2>1. Delivered(got, dropped, Settled)
    BY DEF IoInv, ReadInv
  <2>2. Delivered(got \o acc, dropped, Settled + Len(acc))
        /\ Delivered(got, dropped \cup ToSet(acc), Settled + Len(acc))
    BY <2>1, DeliverStretch
  <2> QED  BY <1>5, <2>2 DEF read_returns
<1>7. Stretch(Taken', Settled')
  BY <1>3, <1>4, <1>5, EmptyStretch
<1>8. dropped' = mislaid' \/ kend' = "error"
  <2>1. dropped = mislaid \/ kend = "error"
    BY DEF IoInv, ReadInv
  <2>2. CASE given(e)
    BY <2>1, <2>2 DEF read_returns
  <2>3. CASE e = EINTR
    BY <2>1, <2>3 DEF read_returns
  <2>4. CASE kend = "error"
    BY <2>4
  <2> QED  BY <2>2, <2>3, <2>4 DEF given
<1>9. ReadInv'
  BY <1>1, <1>2, <1>6, <1>7, <1>8 DEF IoInv, ReadInv
<1>10. WriteInv'
  BY <1>1, <1>2 DEF IoInv, WriteInv, Reads
<1> QED  BY <1>1, <1>9, <1>10 DEF IoInv, CallTypes

\* A read that returns without taking more.
LEMMA ReadStops ==
    ASSUME IoInv, io.op \in Reads, NEW e, read_returns(io.acc, e), UNCHANGED kernelVars,
           e \in {0, EINTR} \/ kend = "error"
    PROVE  IoInv'
<1>1. io.acc = Taken
  BY DEF Taken
<1>2. Stretch(Taken, Settled) /\ Stretch(kin, GivenUp) /\ GivenUp = Settled + Len(Taken)
  BY Numbers DEF IoInv, ReadInv
<1>3. kin' = kin /\ GivenUp' = GivenUp /\ UNCHANGED <<kend, room>>
  BY DEF kernelVars, GivenUp, read_returns
<1> QED  BY <1>1, <1>2, <1>3, ReadReturns

\* One round of os_implread that gets bytes.
LEMMA ReadSome ==
    ASSUME IoInv, read_some
    PROVE  IoInv'
<1> DEFINE n == IF num < Len(kin) THEN num ELSE Len(kin)
           acc == io.acc \o SubSeq(kin, 1, n)
<1>1. io \in CallRecord /\ io.op \in Reads
  BY InCallRecord DEF IoInv, read_some, Reads
<1>2. Taken = io.acc
  BY <1>1 DEF Taken
<1>3. /\ Len(kin) \in Nat /\ Len(Taken) \in Nat /\ came \in Nat
      /\ GivenUp \in Nat /\ Settled \in Nat /\ GivenUp = Settled + Len(Taken)
  BY Numbers DEF IoInv
<1>4. num \in Nat /\ (io.nreq # All => num <= io.nreq - Len(Taken) /\ io.nreq \in Nat)
  <2>1. io.nreq \in Nat \cup {All} /\ (io.nreq # All => Len(Taken) <= io.nreq)
    BY <1>1, <1>2 DEF CallRecord, IoInv, ReadInv
  <2> QED  BY <2>1, <1>2, <1>3, OsIoAssumption DEF num, All
<1>5. n \in 0..Len(kin) /\ n <= num
  BY <1>3, <1>4
<1>6. Stretch(kin, GivenUp) /\ Stretch(Taken, Settled)
  BY DEF IoInv, ReadInv
<1>7. kin' = SubSeq(kin, n + 1, Len(kin)) /\ UNCHANGED <<kend, room>> /\ came' = came
  BY DEF read_some, read_returns, historyVars
<1> HIDE DEF n
<1>8. /\ Stretch(SubSeq(kin, 1, n), GivenUp) /\ Len(SubSeq(kin, 1, n)) = n
      /\ Stretch(kin', GivenUp + n) /\ Len(kin') = Len(kin) - n
  BY <1>5, <1>6, <1>7, SplitStretch
<1>9. Stretch(acc, Settled) /\ Len(acc) = Len(Taken) + n
  BY <1>2, <1>3, <1>6, <1>8, JoinStretches
<1>10. GivenUp' = GivenUp + n /\ GivenUp' = Settled + Len(acc)
  <2>1. came - (Len(kin) - n) = (came - Len(kin)) + n
    BY <1>3, <1>5
  <2>2. GivenUp' = GivenUp + n
    BY <2>1, <1>7, <1>8 DEF GivenUp
  <2> HIDE DEF acc
  <2> QED  BY <2>2, <1>3, <1>5, <1>9
<1>11. CASE read_returns(acc, io.err)
  <2>1. io.err \in {0, EINTR}
    BY <1>1 DEF CallRecord
  <2> QED  BY <1>1, <1>7, <1>8, <1>9, <1>10, <1>11, <2>1, ReadReturns
<1>12. CASE io' = [io EXCEPT !.acc = acc, !.asleep = FALSE] /\ UNCHANGED historyVars
  <2> HIDE DEF acc
  <2>1. acc \in Seq(Nat)
    BY <1>9 DEF Stretch
  <2>2. /\ io' \in CallRecord /\ io'.op = io.op /\ io'.nreq = io.nreq /\ io'.acc = acc
        /\ io'.n = io.n
    BY <1>1, <1>12, <2>1 DEF CallRecord
  <2>3. Taken' = acc
    BY <1>1, <2>2 DEF Taken
  <2>4. Settled' = Settled
    BY <1>3, <1>10, <2>3, <1>9, <1>5 DEF Settled
  <2>5. io.nreq # All => Len(acc) <= io.nreq
    BY <1>3, <1>4, <1>5, <1>9
  <2>6. ReadInv'
    BY <1>7, <1>8, <1>9, <1>10, <1>12, <2>2, <2>3, <2>4, <2>5 DEF IoInv, ReadInv, historyVars
  <2>7. WriteInv'
    BY <1>1, <1>7, <1>12, <2>2 DEF IoInv, WriteInv, historyVars, Reads
  <2> QED  BY <2>2, <2>6, <2>7 DEF IoInv, CallTypes
<1>13. read_returns(acc, io.err) \/ (io' = [io EXCEPT !.acc = acc, !.asleep = FALSE] /\ UNCHANGED historyVars)
  BY DEF read_some, n
<1> QED  BY <1>11, <1>12, <1>13

LEMMA ReadSteps ==
    ASSUME IoInv, os_implread
    PROVE  IoInv'
<1>1. CASE read_some
  BY <1>1, ReadSome
<1>2. io \in CallRecord /\ io.op \in Reads
  BY InCallRecord DEF IoInv, os_implread, read_some, read_end, read_empty, read_error, Reads
<1>3. CASE read_end
  <2>1. io.err \in {0, EINTR}
    BY <1>2 DEF CallRecord
  <2> QED  BY <1>2, <1>3, <2>1, ReadStops DEF read_end
<1>4. CASE read_empty
  BY <1>2, <1>4, ReadStops, SleepStep DEF read_empty
<1>5. CASE read_error
  BY <1>2, <1>5, ReadStops DEF read_error
<1> QED  BY <1>1, <1>3, <1>4, <1>5 DEF os_implread

\* What a step leaves alone that is not about reading.
LEMMA ReadInvStays ==
    ASSUME ReadInv, UNCHANGED <<kin, came, got, dropped, mislaid>>,
           kend = "error" => kend' = "error",
           io.op \notin Reads, io'.op \notin Reads
    PROVE  ReadInv'
<1>1. Taken' = Taken
  BY DEF Taken
<1>2. GivenUp' = GivenUp /\ Settled' = Settled
  BY <1>1 DEF GivenUp, Settled
<1> QED  BY <1>1, <1>2 DEF ReadInv

\* os_implwrite, round by round.
LEMMA WriteSteps ==
    ASSUME IoInv, os_implwrite
    PROVE  IoInv'
<1> DEFINE n == IF room < io.nreq - io.n THEN room ELSE io.nreq - io.n
<1>1. io \in CallRecord /\ io.op = "write"
  BY InCallRecord DEF IoInv, os_implwrite, write_some, write_full, write_error
<1>2. io.n \in Nat /\ io.nreq \in Nat /\ io.n <= io.nreq /\ room \in Nat
      /\ (kend # "error" => untold = io.n)
  BY <1>1 DEF CallRecord, IoInv, WriteInv
<1>3. io.op \notin Reads
  BY <1>1 DEF Reads
<1>4. ASSUME NEW taken \in Nat, NEW m, NEW e, write_returns(taken, m, e),
             room' \in Nat, UNCHANGED <<kin, kend>>,
             kend # "error" => e = 0 /\ m = io.n + taken
      PROVE  IoInv'
  <2>1. io' = Idle /\ UNCHANGED <<came, got, dropped, mislaid>>
    BY <1>4 DEF write_returns
  <2>2. io'.op \notin Reads /\ io'.op # "write"
    BY <2>1 DEF Idle, Reads
  <2>3. ReadInv'
    BY <1>3, <1>4, <2>1, <2>2, ReadInvStays DEF IoInv
  <2>4. kend # "error" => untold' = 0
    BY <1>2, <1>4 DEF write_returns, ndone
  <2>5. WriteInv'
    BY <1>4, <2>2, <2>4 DEF WriteInv
  <2> QED  BY <2>1, <2>3, <2>5 DEF IoInv, CallTypes
<1>5. CASE write_some
  <2>1. n \in Nat /\ n <= room /\ io.n + n <= io.nreq
    BY <1>2
  <2>2. room' = room - n /\ UNCHANGED <<kin, kend>> /\ kend # "error"
    BY <1>5 DEF write_some
  <2> HIDE DEF n
  <2>3. room' \in Nat
    BY <1>2, <2>1, <2>2
  <2>4. CASE io.n + n = io.nreq /\ write_returns(n, io.nreq, 0)
    BY <1>4, <2>1, <2>2, <2>3, <2>4
  <2>5. CASE /\ io' = [io EXCEPT !.n = @ + n, !.asleep = FALSE]
             /\ untold' = untold + n
             /\ UNCHANGED <<came, got, dropped, mislaid>>
    <3> DEFINE m == io.n + n
    <3>0. io' = [io EXCEPT !.n = m, !.asleep = FALSE] /\ m \in Nat
      BY <1>2, <2>1, <2>5
    <3> HIDE DEF m
    <3>1. /\ io' \in CallRecord /\ io'.op = io.op /\ io'.nreq = io.nreq /\ io'.n = m
      BY <1>1, <3>0 DEF CallRecord
    <3>2. ReadInv'
      BY <1>3, <2>2, <2>5, <3>1, ReadInvStays DEF IoInv
    <3>3. WriteInv'
      BY <1>1, <1>2, <2>1, <2>2, <2>3, <2>5, <3>1 DEF WriteInv, m
    <3> QED  BY <3>1, <3>2, <3>3 DEF IoInv, CallTypes
  <2> QED  BY <1>5, <2>4, <2>5 DEF write_some, n
<1>6. CASE write_full
  <2>1. CASE write_returns(0, io.n, 0) /\ UNCHANGED kernelVars
    BY <1>2, <1>4, <2>1 DEF kernelVars
  <2>2. CASE sleep
    BY <1>1, <2>2, SleepStep
  <2> QED  BY <1>6, <2>1, <2>2 DEF write_full
<1>7. CASE write_error
  BY <1>2, <1>4, <1>7 DEF write_error, kernelVars
<1> QED  BY <1>5, <1>6, <1>7 DEF os_implwrite

LEMMA WaitIoSteps ==
    ASSUME IoInv, los_waitpid
    PROVE  IoInv'
<1>1. io \in CallRecord /\ io.op \in {"wait", "nohang"}
  BY InCallRecord DEF IoInv, los_waitpid
<1>2. ASSUME NEW c, wait_done(c)
      PROVE  IoInv'
  <2>1. io' = Idle /\ UNCHANGED <<kernelVars, historyVars>>
    BY <1>2 DEF wait_done
  <2>2. io.op \notin Reads /\ io.op # "write" /\ io'.op \notin Reads /\ io'.op # "write"
    BY <1>1, <2>1 DEF Idle, Reads
  <2>3. ReadInv'
    BY <2>1, <2>2, ReadInvStays DEF IoInv, kernelVars, historyVars
  <2>4. WriteInv'
    BY <2>1, <2>2 DEF IoInv, WriteInv, kernelVars, historyVars
  <2> QED  BY <2>1, <2>3, <2>4 DEF IoInv, CallTypes
<1>3. CASE sleep
  BY <1>1, <1>3, SleepStep
<1> QED  BY <1>2, <1>3 DEF los_waitpid

\* The program begins a call.
LEMMA BeginSteps ==
    ASSUME IoInv, NEW o \in Reads \cup {"write", "wait", "nohang"}, NEW q \in Nat \cup {All},
           o = "write" => q \in Nat, begin(o, q)
    PROVE  IoInv'
<1>1. io = Idle /\ io' = Call(o, q) /\ UNCHANGED <<kernelVars, historyVars>>
  BY DEF begin
<1>2. <<>> \in Seq(Nat) /\ Len(<<>>) = 0
  BY EmptySeq
<1>3. /\ io' \in CallRecord
      /\ io'.op = o /\ io'.nreq = q /\ io'.acc = <<>> /\ io'.n = 0
  BY <1>1, <1>2 DEF Call, CallRecord
<1>4. io.op \notin Reads /\ io.op # "write"
  BY <1>1 DEF Idle, Reads
<1>5. Taken = <<>> /\ Taken' = <<>>
  BY <1>3, <1>4 DEF Taken
<1>6. GivenUp' = GivenUp /\ Settled' = Settled
  BY <1>1, <1>5 DEF GivenUp, Settled, kernelVars, historyVars
<1>7. q # All => 0 <= q
  BY DEF All
<1>8. ReadInv'
  BY <1>1, <1>2, <1>3, <1>5, <1>6, <1>7 DEF IoInv, ReadInv, kernelVars, historyVars
<1>9. WriteInv'
  BY <1>1, <1>3, <1>4 DEF IoInv, WriteInv, kernelVars, historyVars
<1> QED  BY <1>3, <1>8, <1>9 DEF IoInv, CallTypes

LEMMA ProgramSteps ==
    ASSUME IoInv, Program
    PROVE  IoInv'
<1>1. ASSUME NEW n \in Nreqs, los_read(n) \/ los_readb(n)
      PROVE  IoInv'
  BY <1>1, BeginSteps, OsIoAssumption DEF los_read, los_readb, Reads
<1>2. ASSUME NEW n \in Lengths, los_write(n)
      PROVE  IoInv'
  BY <1>2, BeginSteps, OsIoAssumption DEF los_write
<1>3. CASE los_wait \/ los_nohang
  BY <1>3, BeginSteps DEF los_wait, los_nohang, Reads
<1>4. CASE los_setnonblock
  BY <1>4 DEF los_setnonblock, IoInv, CallTypes, ReadInv, WriteInv, Taken, GivenUp, Settled,
              historyVars
<1> QED  BY <1>1, <1>2, <1>3, <1>4 DEF Program

\* Signals, and the world.
LEMMA StruckSteps ==
    ASSUME IoInv, NEW s, struck(s)
    PROVE  IoInv'
<1>1. UNCHANGED <<kernelVars, historyVars>>
  BY DEF struck
<1>2. CASE interrupts(s)
  <2>1. io \in CallRecord
    BY <1>2 DEF interrupts, IoInv, CallTypes, Idle
  <2>2. io' = [io EXCEPT !.asleep = FALSE, !.err = EINTR]
    BY <1>2 DEF struck
  <2> QED  BY <1>1, <2>1, <2>2, WaitingSteps
<1>3. CASE ~interrupts(s)
  BY <1>1, <1>3 DEF struck, IoInv, CallTypes, ReadInv, WriteInv, Taken, GivenUp, Settled,
                    kernelVars, historyVars
<1> QED  BY <1>2, <1>3

LEMMA IoStays ==
    ASSUME IoInv, UNCHANGED <<kin, room, io, historyVars>>, kend = "error" => kend' = "error"
    PROVE  IoInv'
BY DEF IoInv, CallTypes, ReadInv, WriteInv, Taken, GivenUp, Settled, historyVars

\* The bytes that arrive are the next ones.
LEMMA ArriveStep ==
    ASSUME IoInv, arrive
    PROVE  IoInv'
<1>1. PICK n \in 1..(MaxByte - came) :
          kin' = kin \o [i \in 1..n |-> came + i] /\ came' = came + n
  BY DEF arrive
<1> DEFINE new == [i \in 1..n |-> came + i]
<1>2. /\ Len(kin) \in Nat /\ Len(Taken) \in Nat /\ came \in Nat
      /\ GivenUp \in Nat /\ Settled \in Nat /\ GivenUp = Settled + Len(Taken)
  BY Numbers DEF IoInv
<1>3. n \in Nat
  BY <1>2, OsIoAssumption
<1>4. Stretch(new, came) /\ Len(new) = n
  <2>1. new \in Seq(Nat) /\ Len(new) = n /\ \A i \in 1..n : new[i] = came + i
    BY <1>2, <1>3
  <2> QED  BY <2>1, <1>2 DEF Stretch
<1> HIDE DEF new
<1>5. Stretch(kin, GivenUp) /\ came = GivenUp + Len(kin)
  BY <1>2 DEF IoInv, ReadInv, GivenUp
<1>6. Stretch(kin', GivenUp) /\ Len(kin') = Len(kin) + n
  BY <1>1, <1>4, <1>5, JoinStretches DEF new
<1>7. UNCHANGED <<io, room, kend, got, dropped, mislaid, untold>>
  BY DEF arrive
<1>8. GivenUp' = GivenUp /\ Taken' = Taken
  BY <1>1, <1>2, <1>3, <1>6, <1>7 DEF GivenUp, Taken
<1>9. Settled' = Settled
  BY <1>8 DEF Settled
<1>10. came' \in Nat
  BY <1>1, <1>2, <1>3
<1>11. ReadInv'
  BY <1>6, <1>7, <1>8, <1>9, <1>10 DEF IoInv, ReadInv
<1>12. WriteInv' /\ CallTypes'
  BY <1>7 DEF IoInv, WriteInv, CallTypes
<1> QED  BY <1>11, <1>12 DEF IoInv

LEMMA DrainStep ==
    ASSUME IoInv, drain
    PROVE  IoInv'
<1>1. UNCHANGED <<kin, kend, io, historyVars>> /\ room' \in Nat
  BY OsIoAssumption DEF drain
<1> QED  BY <1>1 DEF IoInv, CallTypes, ReadInv, WriteInv, Taken, GivenUp, Settled, historyVars

LEMMA IoInvInit == Init => IoInv
<1> SUFFICES ASSUME Init PROVE IoInv
  OBVIOUS
<1>1. /\ kin = <<>> /\ room = Room /\ io = Idle /\ came = 0 /\ got = <<>> /\ dropped = {}
      /\ mislaid = {} /\ untold = 0
  BY DEF Init
<1>2. io.op \notin Reads /\ io.op # "write"
  BY <1>1 DEF Idle, Reads
<1>3. Len(<<>>) = 0 /\ 0 \in Nat /\ Stretch(<<>>, 0)
  BY EmptyStretch
<1>4. Taken = <<>> /\ GivenUp = 0 /\ Settled = 0
  <2>1. Taken = <<>>
    BY <1>2 DEF Taken
  <2>2. Len(kin) = 0 /\ Len(Taken) = 0 /\ came = 0
    BY <1>1, <1>3, <2>1, Zenon
  <2>3. GivenUp = 0
    BY <2>2 DEF GivenUp
  <2>4. Settled = 0
    BY <2>2, <2>3 DEF Settled
  <2> QED  BY <2>1, <2>3, <2>4
<1>5. Delivered(<<>>, {}, 0)
  <2>1. ToSet(<<>>) = {}
    BY DEF ToSet
  <2>2. 1..0 = {} /\ 1..(0 - 1) = {} /\ <<>> \in Seq(Nat)
    BY EmptySeq
  <2> QED  BY <1>3, <2>1, <2>2 DEF Delivered
<1>6. ReadInv
  BY <1>1, <1>2, <1>3, <1>4, <1>5 DEF ReadInv
<1>7. WriteInv
  BY <1>1, <1>2, OsIoAssumption DEF WriteInv
<1> QED  BY <1>1, <1>6, <1>7 DEF IoInv, CallTypes

LEMMA IoInvStep == IoInv /\ [Next]_vars => IoInv'
<1> SUFFICES ASSUME IoInv, [Next]_vars PROVE IoInv'
  OBVIOUS
<1>1. CASE Program
  BY <1>1, ProgramSteps
<1>2. CASE UNCHANGED ioVars
  BY <1>2, IoStays DEF ioVars, kernelVars
<1>3. CASE ProgramSignals
  BY <1>2, <1>3 DEF ProgramSignals
<1>4. CASE Outside
  <2>1. CASE arrive \/ drain
    BY <2>1, ArriveStep, DrainStep
  <2>2. CASE peer_ends
    BY <2>2, IoStays DEF peer_ends
  <2> QED  BY <1>2, <1>4, <2>1, <2>2 DEF Outside
<1>5. CASE \E s \in Sig : struck(s)
  BY <1>5, StruckSteps
<1>6. CASE os_implread \/ os_implwrite \/ los_waitpid
  BY <1>6, ReadSteps, WriteSteps, WaitIoSteps
<1>7. CASE UNCHANGED vars
  BY <1>2, <1>7 DEF vars
<1> QED  BY <1>1, <1>3, <1>4, <1>5, <1>6, <1>7 DEF Next

\* Reads give programs what the kernel has given up, in order and each byte
\* once, and writes report what it has taken, for every size of the buffer on
\* the stack, every request, and signals in any round of either loop.
THEOREM CallsReportExactly == Spec => []IoExact
<1>1. IoInv => IoExact
  <2> SUFFICES ASSUME IoInv PROVE IoExact
    OBVIOUS
  <2>1. io = Idle => ToSet(got) \cup dropped = 1..(came - Len(kin))
    <3> SUFFICES ASSUME io = Idle PROVE ToSet(got) \cup dropped = 1..(came - Len(kin))
      OBVIOUS
    <3>1. Taken = <<>>
      BY DEF Taken, Idle, Reads
    <3>2. Settled = came - Len(kin)
      <4>1. GivenUp \in Nat
        BY Numbers DEF IoInv
      <4> QED  BY <3>1, <4>1, EmptyStretch DEF Settled, GivenUp
    <3> QED  BY <3>2 DEF IoInv, ReadInv, Delivered
  <2>2. ReadsExact
    BY <2>1 DEF IoInv, ReadInv, Delivered, ReadsExact
  <2>3. WritesExact
    BY DEF IoInv, WriteInv, WritesExact, Idle
  <2> QED  BY <2>2, <2>3 DEF IoExact
<1> QED  BY <1>1, IoInvInit, IoInvStep, PTL DEF Spec
=============================================================================
