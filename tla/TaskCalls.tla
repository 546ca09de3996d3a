----------------------------- MODULE TaskCalls -----------------------------
(***************************************************************************)
(* What the calls of the channels share: waking tasks from an event        *)
(* handler or another task, and entering and leaving a call that is a      *)
(* loop around block_task.                                                 *)
(***************************************************************************)
EXTENDS Tasklet

\* resume_task of t with the code e and then of u with f, where None is nobody.
wake_both(t, e, u, f) ==
    LET Woken == {v \in {t, u} \ {None} : ~Linked(v)}
    IN  /\ ready' = ready \o (IF t \in Woken THEN <<t>> ELSE <<>>)
                          \o (IF u \in Woken \ {t} THEN <<u>> ELSE <<>>)
        /\ t_prev' = [v \in Task |-> v \in Woken \/ t_prev[v]]
        /\ t_err' = [v \in Task |-> IF v \notin Woken THEN t_err[v] ELSE IF v = t THEN e ELSE f]
        /\ rb_key' = [v \in Task |-> IF v \in Woken THEN NoTimer ELSE rb_key[v]]
        /\ t_blockedby' = [v \in Task |-> IF v \in Woken THEN NoObj ELSE t_blockedby[v]]

wake(t, e) == wake_both(t, e, None, 0)

\* t if c holds, or nobody.
only_if(c, t) == IF c THEN t ELSE None

\* A blocking call of t returns into its program.
returns(t) ==
    /\ co' = [co EXCEPT ![t] = "run"]
    /\ op' = [op EXCEPT ![t] = "none"]
    /\ till' = [till EXCEPT ![t] = NoTimer]
    /\ ret' = [ret EXCEPT ![t] = 0]
    /\ UNCHANGED <<current, taskVars>>

\* t enters the loop of the call o.
enters(t, o) ==
    /\ co' = [co EXCEPT ![t] = "back"]
    /\ op' = [op EXCEPT ![t] = o]
    /\ UNCHANGED <<readyVars, taskVars, current, till, ret>>
============================================================================
