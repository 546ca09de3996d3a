------------------------------ MODULE Signals ------------------------------
(***************************************************************************)
(* Signals and children of a process (lask/std/lsignal.c, and fork, wait   *)
(* and waitpid of lask/std/los.c).                                         *)
(*                                                                         *)
(* A signal with a Lua handler is only queued where it strikes; the queue  *)
(* is served by a debug hook of the main Lua thread, which the virtual     *)
(* machine calls before the next instruction of that thread, not of a      *)
(* coroutine.  SIGCHLD has a handler in C, which collects dead children.   *)
(* The handler is installed with all signals blocked, so defer_signal is   *)
(* 0 whenever sig_postpone begins and its other branch is never taken.     *)
(***************************************************************************)
EXTENDS Naturals, Sequences, SequencesExt

CONSTANTS
    Sig,        \* the signals
    Chld,       \* SIGCHLD
    QueueMax,   \* SIGNAL_QUEUE_MAX
    Pid,        \* the children the process can have
    MaxSent     \* bound: how many signals are sent

ASSUME SignalsAssumption ==
    /\ Chld \in Sig
    /\ QueueMax \in Nat \ {0}
    /\ MaxSent \in Nat

VARIABLES
    disp,       \* the disposition of each signal
    signals,    \* signals[0 .. signal_count - 1]
    hook,       \* the hook of the main thread
    old_hook,   \* what sig_postpone found there
    masked,     \* is sig_handle running, with all signals blocked
    pending,    \* the signals the kernel holds for the process
    child,      \* the children
    thread,     \* which Lua thread runs; "dead" after a deadly signal
    sent        \* how many signals have been sent

queueVars == <<signals, hook, old_hook>>
sigVars == <<disp, queueVars, masked, pending, child, thread, sent>>

\* The program runs, not a hook: there is none to be called before the next
\* instruction.  (A hook with nothing to handle only reinstalls old_hook.)
Instruction ==
    /\ ~masked /\ thread # "dead"
    /\ thread = "main" /\ hook = "sig_handle" => signals = <<>>

---------------------------------------------------------------------------
(* What a signal does where it strikes *)

Collected == [p \in Pid |-> IF child[p] = "zombie" THEN "none" ELSE child[p]]

\* A child is not told apart from its brothers.
on_sigchld_once ==
    /\ IF \E p \in Pid : child[p] = "zombie"
       THEN child' = [child EXCEPT ![CHOOSE p \in Pid : child[p] = "zombie"] = "none"]
       ELSE UNCHANGED child
    /\ UNCHANGED queueVars

\* Signals of one kind merge, so one call has to collect all who are dead.
on_sigchld == child' = Collected /\ UNCHANGED queueVars

\* The signal is queued and the hook set, unless the queue is full.  A
\* second signal finds sig_handle as the hook and saves it as the old one.
sig_postpone(i) ==
    /\ IF Len(signals) = QueueMax
       THEN UNCHANGED queueVars
       ELSE /\ signals' = Append(signals, i)
            /\ old_hook' = hook
            /\ hook' = "sig_handle"
    /\ UNCHANGED child

\* The effect of a signal that is not blocked.
strike(s) ==
    \/ disp[s] = "sig_postpone" /\ sig_postpone(s) /\ UNCHANGED thread
    \/ disp[s] = "on_sigchld" /\ on_sigchld /\ UNCHANGED thread
    \/ /\ disp[s] = "ignore" \/ (disp[s] = "default" /\ s = Chld)
       /\ UNCHANGED <<queueVars, child, thread>>
    \/ /\ disp[s] = "default" /\ s # Chld
       /\ thread' = "dead"
       /\ UNCHANGED <<queueVars, child>>

\* The kernel delivers a pending signal.
deliver(s) ==
    /\ s \in pending /\ ~masked /\ thread # "dead"
    /\ pending' = pending \ {s}
    /\ strike(s)
    /\ UNCHANGED <<disp, masked, sent>>

\* What is sent to the process from now on is pending: kill of itself, an
\* alarm, or somebody else's kill.
lsignal_kill(s) ==
    /\ thread # "dead" /\ sent < MaxSent
    /\ sent' = sent + 1
    /\ pending' = IF disp[s] = "ignore" THEN pending ELSE pending \cup {s}
    /\ UNCHANGED <<disp, queueVars, masked, child, thread>>

\* raise returns after the handler has.
lsignal_raise(s) ==
    /\ Instruction /\ sent < MaxSent
    /\ sent' = sent + 1
    /\ strike(s)
    /\ UNCHANGED <<disp, masked, pending>>

---------------------------------------------------------------------------
(* The hook *)

\* It is removed first.  old_hook is sig_handle itself if there was a
\* second signal, and then it stays for ever.
sig_handle ==
    /\ ~masked /\ thread = "main" /\ hook = "sig_handle" /\ signals # <<>>
    /\ masked' = TRUE
    /\ hook' = old_hook
    /\ UNCHANGED <<disp, signals, old_hook, pending, child, thread, sent>>

\* The queue is served from its end.  The handler of the last one is called
\* and can raise a signal, which is blocked.
sig_handle_call ==
    /\ masked /\ signals # <<>>
    /\ signals' = Front(signals)
    /\ \/ UNCHANGED <<pending, sent>>
       \/ /\ sent < MaxSent
          /\ sent' = sent + 1
          /\ \E s \in Sig : /\ disp[s] # "ignore"
                            /\ pending' = pending \cup {s}
    /\ UNCHANGED <<disp, hook, old_hook, masked, child, thread>>

\* Only one is served.
sig_handle_return_early ==
    /\ masked
    /\ masked' = FALSE
    /\ UNCHANGED <<disp, queueVars, pending, child, thread, sent>>

sig_handle_return ==
    /\ masked /\ signals = <<>>
    /\ masked' = FALSE
    /\ UNCHANGED <<disp, queueVars, pending, child, thread, sent>>

SigHandle == sig_handle \/ sig_handle_call \/ sig_handle_return

\* signal.signal sets a Lua function, for which it installs sig_postpone,
\* "ignore" or "default".  (What it returned for a handler in C is not taken
\* back: the upvalue it looks at is the number of the signal, so it raises an
\* error.)  A signal that is pending when it becomes ignored is forgotten.
lsignal_signal(s, h) ==
    /\ Instruction
    /\ disp' = [disp EXCEPT ![s] = h]
    /\ pending' = IF h = "ignore" THEN pending \ {s} ELSE pending
    /\ UNCHANGED <<queueVars, masked, child, thread, sent>>

---------------------------------------------------------------------------
(* Children and threads *)

los_fork(p) ==
    /\ Instruction /\ child[p] = "none"
    /\ child' = [child EXCEPT ![p] = "alive"]
    /\ UNCHANGED <<disp, queueVars, masked, pending, thread, sent>>

child_exit(p) ==
    /\ child[p] = "alive" /\ thread # "dead" /\ sent < MaxSent
    /\ sent' = sent + 1
    /\ child' = [child EXCEPT ![p] = IF disp[Chld] = "ignore" THEN "none" ELSE "zombie"]
    /\ pending' = IF disp[Chld] = "ignore" THEN pending ELSE pending \cup {Chld}
    /\ UNCHANGED <<disp, queueVars, masked, thread>>

\* A task is resumed by the main thread, or yields to it.
switch ==
    /\ Instruction
    /\ thread' = IF thread = "main" THEN "task" ELSE "main"
    /\ UNCHANGED <<disp, queueVars, masked, pending, child, sent>>

\* l_opensignal.
SigInit ==
    /\ disp = [s \in Sig |-> IF s = Chld THEN "on_sigchld" ELSE "default"]
    /\ signals = <<>>
    /\ hook = "none" /\ old_hook = "none"
    /\ masked = FALSE
    /\ pending = {}
    /\ child = [p \in Pid |-> "none"]
    /\ thread = "main"
    /\ sent = 0

---------------------------------------------------------------------------
(* Properties *)

\* A signal that has been queued is not forgotten: while there are queued
\* signals, either they are being handled or the hook is set, so the main
\* thread handles them before its next instruction.  (sig_postpone and
\* sig_handle save and restore the hook and reset the queue in an order that
\* must leave no queue without a hook.)
QueueHooked == signals # <<>> => masked \/ hook = "sig_handle"

\* Dead children do not stay: there is a zombie only while the SIGCHLD that
\* will collect it is pending, as long as the handler in C is installed.
\* (Several children may die behind one SIGCHLD.)
NoZombies ==
    disp[Chld] = "on_sigchld" /\ (\E p \in Pid : child[p] = "zombie") =>
        Chld \in pending \/ thread = "dead"
============================================================================
