------------------------------- MODULE OsIo -------------------------------
(***************************************************************************)
(* Reading and writing a descriptor and waiting for children (lask/std/    *)
(* los.c), while signals strike the process (Signals): each system call    *)
(* is a step, and a signal in the middle of one ends it with EINTR.        *)
(*                                                                         *)
(* The bytes of both directions are named by their position.               *)
(***************************************************************************)
EXTENDS Integers, Signals

CONSTANTS
    Chunk,      \* sizeof(tmp) of os_implread
    Nreqs,      \* how much a program asks for; All is nil
    Lengths,    \* how much it writes
    MaxByte,    \* bound: how much comes and goes in each direction
    Room        \* how much the kernel takes to send

All == -1

ASSUME OsIoAssumption ==
    /\ Chunk \in Nat \ {0} /\ MaxByte \in Nat /\ Room \in Nat
    /\ Nreqs \subseteq Nat \cup {All} /\ Lengths \subseteq Nat \ {0}

VARIABLES
    nonblock,   \* O_NONBLOCK is set
    kin,        \* the bytes to read in the kernel
    kend,       \* what follows them: nothing yet, the end, or an error
    room,       \* how much can be written
    io,         \* the call the process is in, with its locals
    came,       \* history: how many bytes have come,
    got,        \* the bytes the program has been given,
    dropped,    \* those a call that failed has taken and not given to it,
    mislaid,    \* those of them whose call was only interrupted,
    untold      \* how many bytes the kernel has taken to send and no call
                \* has reported

kernelVars == <<nonblock, kin, kend, room>>
historyVars == <<came, got, dropped, mislaid, untold>>
ioVars == <<kernelVars, io, historyVars>>
vars == <<sigVars, ioVars>>

EINTR == 4
EAGAIN == 11
EPIPE == 32

Idle == [op |-> "none"]
Call(op, nreq) ==
    [op |-> op, nreq |-> nreq, acc |-> <<>>, n |-> 0, err |-> 0, asleep |-> FALSE]

---------------------------------------------------------------------------
(* The world *)

arrive ==
    /\ kend = "no"
    /\ \E n \in 1..(MaxByte - came) :
           /\ kin' = kin \o [i \in 1..n |-> came + i]
           /\ came' = came + n
    /\ UNCHANGED <<sigVars, nonblock, kend, room, io, got, dropped, mislaid, untold>>

peer_ends ==
    /\ kend = "no" /\ kend' \in {"end", "error"}
    /\ UNCHANGED <<sigVars, nonblock, kin, room, io, historyVars>>

drain ==
    /\ room < Room /\ room' = Room
    /\ UNCHANGED <<sigVars, nonblock, kin, kend, io, historyVars>>

---------------------------------------------------------------------------
(* System calls *)

\* A signal that wakes a sleeping call makes it return EINTR after the
\* handler, if it is sig_postpone: glibc's signal has made the call restart
\* after on_sigchld.
interrupts(s) == io.op # "none" /\ io.asleep /\ disp[s] = "sig_postpone"

struck(s) ==
    /\ deliver(s)
    /\ io' = IF interrupts(s) THEN [io EXCEPT !.asleep = FALSE, !.err = EINTR] ELSE io
    /\ UNCHANGED <<kernelVars, historyVars>>

\* The program's thread is in the call and can go on.
InCall(ops) == io.op \in ops /\ thread # "dead"

sleep ==
    /\ ~io.asleep
    /\ io' = [io EXCEPT !.asleep = TRUE]
    /\ UNCHANGED <<sigVars, kernelVars, historyVars>>

Reads == {"read", "readb"}

num_unclamped == Chunk

\* How much os_implread asks for at once.
num == IF io.nreq = All THEN Chunk
       ELSE IF Chunk > io.nreq - Len(io.acc) THEN io.nreq - Len(io.acc) ELSE Chunk

\* What was read reaches the program: os.readb has pushed it into its
\* buffer, os.read returns it if there was no error.
given(err) == io.op = "readb" \/ err = 0

\* The call returns acc and err to the program.  The error of a round that
\* was interrupted is returned even if the next rounds succeed.
read_returns(acc, err) ==
    /\ io' = Idle
    /\ got' = IF given(err) THEN got \o acc ELSE got
    /\ dropped' = IF given(err) THEN dropped ELSE dropped \cup ToSet(acc)
    /\ mislaid' = IF given(err) \/ err # EINTR THEN mislaid ELSE mislaid \cup ToSet(acc)
    /\ UNCHANGED <<came, untold>>

\* read(2) returns bytes: the loop goes on if they are as many as it asked
\* for and not yet all.  nreq = 0 asks for none and gets none.
read_some ==
    LET n == IF num < Len(kin) THEN num ELSE Len(kin)
        acc == io.acc \o SubSeq(kin, 1, n)
        enough == n < num \/ Len(acc) = io.nreq
    IN  /\ InCall(Reads) /\ io.nreq # 0 /\ kin # <<>>
        /\ kin' = SubSeq(kin, n + 1, Len(kin))
        /\ \/ /\ enough
              /\ read_returns(acc, io.err)
           \/ /\ ~enough
              /\ io' = [io EXCEPT !.acc = acc, !.asleep = FALSE]
              /\ UNCHANGED historyVars
        /\ UNCHANGED <<sigVars, nonblock, kend, room>>

read_end ==
    /\ InCall(Reads) /\ (io.nreq = 0 \/ (kin = <<>> /\ kend = "end"))
    /\ read_returns(io.acc, io.err)
    /\ UNCHANGED <<sigVars, kernelVars>>

\* Nothing to read: EAGAIN, which is no error, or sleep.
read_empty ==
    /\ InCall(Reads) /\ io.nreq # 0 /\ kin = <<>> /\ kend = "no"
    /\ \/ nonblock /\ read_returns(io.acc, 0) /\ UNCHANGED <<sigVars, kernelVars>>
       \/ ~nonblock /\ sleep

read_error ==
    /\ InCall(Reads) /\ kin = <<>> /\ kend = "error"
    /\ read_returns(io.acc, EPIPE)
    /\ UNCHANGED <<sigVars, kernelVars>>

os_implread == read_some \/ read_end \/ read_empty \/ read_error

ndone_complete(n, err) == IF err = 0 /\ n = io.nreq THEN n ELSE 0

\* What os.write reports of n written bytes.
ndone(n, err) == IF err = 0 THEN n ELSE 0

write_returns(taken, n, err) ==
    /\ io' = Idle
    /\ untold' = untold + taken - ndone(n, err)
    /\ UNCHANGED <<came, got, dropped, mislaid>>

\* write(2): the kernel takes what it has room for.
write_some ==
    LET n == IF room < io.nreq - io.n THEN room ELSE io.nreq - io.n
    IN  /\ InCall({"write"}) /\ room > 0 /\ kend # "error"
        /\ room' = room - n
        /\ \/ io.n + n = io.nreq /\ write_returns(n, io.nreq, 0)
           \/ /\ io.n + n < io.nreq
              /\ io' = [io EXCEPT !.n = @ + n, !.asleep = FALSE]
              /\ untold' = untold + n
              /\ UNCHANGED <<came, got, dropped, mislaid>>
        /\ UNCHANGED <<sigVars, nonblock, kin, kend>>

write_full ==
    /\ InCall({"write"}) /\ room = 0 /\ kend # "error"
    /\ \/ nonblock /\ write_returns(0, io.n, 0) /\ UNCHANGED <<sigVars, kernelVars>>
       \/ ~nonblock /\ sleep

write_error ==
    /\ InCall({"write"}) /\ kend = "error"
    /\ write_returns(0, io.n, EPIPE)
    /\ UNCHANGED <<sigVars, kernelVars>>

os_implwrite == write_some \/ write_full \/ write_error

\* wait and waitpid, for any child: they collect one who is dead, or fail if
\* there is none, if there is none dead and they may not wait, or if a signal
\* interrupts them.  on_sigchld may have been faster.
Dead == {p \in Pid : child[p] = "zombie"}

wait_done(c) ==
    /\ io' = Idle
    /\ child' = c
    /\ UNCHANGED <<disp, queueVars, masked, pending, thread, sent,
                   kernelVars, historyVars>>

los_waitpid ==
    \/ /\ InCall({"wait", "nohang"})
       /\ \E p \in Dead : wait_done([child EXCEPT ![p] = "none"])
    \/ /\ InCall({"wait", "nohang"}) /\ Dead = {}
       /\ \/ /\ io.op = "nohang" \/ io.err # 0 \/ \A p \in Pid : child[p] = "none"
             /\ wait_done(child)
          \/ /\ io.op = "wait" /\ io.err = 0 /\ \E p \in Pid : child[p] = "alive"
             /\ sleep

---------------------------------------------------------------------------
(* The program *)

begin(op, nreq) ==
    /\ Instruction /\ io = Idle
    /\ io' = Call(op, nreq)
    /\ UNCHANGED <<sigVars, kernelVars, historyVars>>

los_read(nreq) == begin("read", nreq)
los_readb(nreq) == begin("readb", nreq)
los_write(n) == begin("write", n)
los_wait == begin("wait", 0)
los_nohang == begin("nohang", 0)

los_setnonblock ==
    /\ Instruction /\ io = Idle /\ ~nonblock
    /\ nonblock' = TRUE
    /\ UNCHANGED <<sigVars, kin, kend, room, io, historyVars>>

Program ==
    \/ \E n \in Nreqs : los_read(n) \/ los_readb(n)
    \/ \E n \in Lengths : los_write(n)
    \/ los_wait \/ los_nohang \/ los_setnonblock

\* Steps of Signals that the program takes between calls, and those that
\* come from outside.
ProgramSignals ==
    /\ io = Idle
    /\ \/ \E s \in Sig : \/ lsignal_raise(s)
                         \/ \E h \in {"sig_postpone", "ignore", "default"} : lsignal_signal(s, h)
       \/ \E p \in Pid : los_fork(p)
       \/ switch
       \/ SigHandle
    /\ UNCHANGED ioVars

Outside ==
    \/ /\ \E s \in Sig : lsignal_kill(s)
       /\ UNCHANGED ioVars
    \/ (\E p \in Pid : child_exit(p)) /\ UNCHANGED ioVars
    \/ thread # "dead" /\ (arrive \/ peer_ends \/ drain)

Init ==
    /\ SigInit
    /\ nonblock = FALSE
    /\ kin = <<>> /\ kend = "no" /\ room = Room
    /\ io = Idle
    /\ came = 0 /\ got = <<>> /\ dropped = {} /\ mislaid = {} /\ untold = 0

Next ==
    \/ Program \/ ProgramSignals \/ Outside
    \/ \E s \in Sig : struck(s)
    \/ os_implread \/ os_implwrite \/ los_waitpid

Spec == Init /\ [][Next]_vars

---------------------------------------------------------------------------
(* Properties *)

\* However the bytes come, whatever is asked for and wherever signals strike:
\* what programs are given is what the kernel has given up, in order, each
\* byte once, and never more than was asked for.  Bytes are missing only
\* after the descriptor has failed, or because an os.read was interrupted:
\* that os.read loses bytes which are there is the case EintrFiltered is
\* about, and no other error may lose any.
ReadsExact ==
    /\ io.op \in Reads /\ io.nreq # All => Len(io.acc) <= io.nreq
    /\ \A i \in 1..(Len(got) - 1) : got[i] < got[i + 1]
    /\ io = Idle => ToSet(got) \cup dropped = 1..(came - Len(kin))
    /\ dropped = mislaid \/ kend = "error"

\* Writes report exactly what the kernel has taken to send, interrupted or
\* not, unless they fail (and then report nothing).
WritesExact == io = Idle /\ kend # "error" => untold = 0

\* What a program is told of its reads and writes is what the kernel did.
IoExact == ReadsExact /\ WritesExact

\* An interruption is not an error of the descriptor: an os.read that a
\* signal interrupts and that reads bytes in a later round gives them to the
\* program, as "EINTR/EAGAIN/EWOUDLBLOCK are filtered" (los.c:172) says.
EintrFiltered == mislaid = {}
============================================================================
