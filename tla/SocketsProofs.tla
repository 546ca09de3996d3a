--------------------------- MODULE SocketsProofs ---------------------------
(***************************************************************************)
(* Proofs about Sockets, for any number of tasks, connections and          *)
(* datagrams, any time-outs, and with task signals: any tasks may use      *)
(* kill_task and reap_task, unless a program that uses kill_task uses      *)
(* join_tasks as well (a sighandler that starts joinable tasks while its   *)
(* task joins breaks the count of children, and a wrong count can wake a   *)
(* task out of any call).                                                  *)
(***************************************************************************)
EXTENDS Sockets, TaskletProofs

---------------------------------------------------------------------------
(* The scheduler, with task signals *)

\* No program uses both kill_task and join_tasks.
KillOrJoin == Killers = {} \/ Joiners = {}

Childless == \A t \in Task : t_parent[t] = None

Sched == /\ IInv /\ PhaseInv /\ OpInside
         /\ Killers = {} => JoinInv
         /\ Joiners = {} => Childless

\* What a step of the scheduler may do to a task inside of a call of another
\* module: leave it alone,
Untouched(u) ==
    /\ co'[u] = co[u] /\ op'[u] = op[u] /\ ret'[u] = ret[u] /\ t_sig'[u] = t_sig[u]
    /\ t_prev'[u] = t_prev[u] /\ t_err'[u] = t_err[u] /\ t_blockedby'[u] = t_blockedby[u]

\* send it a signal,
IsSignalled(u) ==
    /\ co[u] = "parked" /\ co'[u] = "parked" /\ op'[u] = op[u]
    /\ t_sig'[u] /\ t_prev'[u]
    /\ t_blockedby'[u] = IF t_prev[u] THEN t_blockedby[u] ELSE NoObj

\* resume it, in the call or in its sighandler,
IsResumed(u) ==
    /\ co[u] = "parked" /\ op'[u] = op[u] /\ t_blockedby'[u] = t_blockedby[u]
    /\ ~t_sig'[u] /\ ~t_prev'[u]
    /\ \/ /\ ~t_sig[u] /\ co'[u] = "back"
          /\ ret'[u] = IF t_prev[u] THEN t_err[u] ELSE ETIMEDOUT
       \/ t_sig[u] /\ co'[u] = "handling"

\* or leave the sighandler.
IsHandled(u) ==
    /\ co[u] = "handling" /\ t_blockedby'[u] = t_blockedby[u]
    /\ ~t_sig'[u] /\ ~t_prev'[u]
    /\ \/ op'[u] = op[u] /\ co'[u] = "parked"
       \/ op'[u] = op[u] /\ co'[u] = "back" /\ ret'[u] = ETIMEDOUT
       \/ op'[u] = "none" /\ co'[u] = "dead"

Touch(u) == Untouched(u) \/ IsSignalled(u) \/ IsResumed(u) \/ IsHandled(u)

Touched ==
    \A u \in Task :
        /\ op[u] \notin OwnCall => Touch(u)
        /\ op'[u] \notin OwnCall => op'[u] = op[u]
        /\ t_blockedby'[u] \in {t_blockedby[u], NoObj}
        /\ co[u] = "dead" => co'[u] = "dead"

\* The end of a task wakes nobody but a parent that waits in join_tasks.
LEMMA DieWakesJoiner ==
    ASSUME Sched, KillOrJoin, TaskAssumption, NEW t \in Task, current = t,
           NEW subs \in [Task -> Int], \A u \in Task \ {t} : subs[u] = t_nsubs[u], die(t, subs)
    PROVE  \A u \in Task : u # t =>
               /\ op[u] \notin OwnCall => /\ t_prev'[u] = t_prev[u] /\ t_err'[u] = t_err[u]
                                          /\ t_blockedby'[u] = t_blockedby[u]
               /\ t_blockedby'[u] \in {t_blockedby[u], NoObj}
  <1> DEFINE p == t_parent[t]
  <1>1. CASE p = None \/ ~LastChild(subs[p])
    <2>1. UNCHANGED readyVars
      BY <1>1 DEF die
    <2> QED BY <2>1 DEF readyVars
  <1>2. CASE p # None /\ LastChild(subs[p])
    <2>1. p \in Task /\ p # t /\ co[p] # "none" /\ push_ready(p, 0)
      BY <1>2 DEF die, Sched, IInv, TypeOK, ParentsExist
    <2>2. JoinInv
      BY <1>2 DEF KillOrJoin, Sched, Childless
    <2>3. t_nsubs[p] = -1
      BY <1>2, <2>1 DEF LastChild
    <2>4. op[p] \in OwnCall
      <3>1. Cardinality(Children(p)) \in Nat
        BY <2>1, ChildrenFinite
      <3> QED BY <2>1, <2>2, <2>3, <3>1 DEF JoinInv, Counting, JoinCounts, OpInside, Alive, OwnCall
    <2>5. \A u \in Task : u # p => t_prev'[u] = t_prev[u] /\ t_err'[u] = t_err[u]
                                   /\ t_blockedby'[u] = t_blockedby[u]
      BY <2>1 DEF push_ready, readyVars, Sched, IInv, TypeOK
    <2>6. t_blockedby'[p] \in {t_blockedby[p], NoObj}
      BY <2>1 DEF push_ready, readyVars, Sched, IInv, TypeOK
    <2> QED BY <2>4, <2>5, <2>6
  <1> QED BY <1>1, <1>2

\* Steps of a task that ends.
LEMMA DieTouches ==
    ASSUME Sched, KillOrJoin, TaskAssumption, NEW t \in Task, current = t,
           op[t] \notin OwnCall => co[t] = "handling",
           NEW subs \in [Task -> Int], \A u \in Task \ {t} : subs[u] = t_nsubs[u], die(t, subs)
    PROVE  Touched /\ OpInside' /\ \A u \in Task : t_sig'[u] => t_sig[u]
  <1>1. /\ co' = [co EXCEPT ![t] = "dead"]
        /\ op' = [op EXCEPT ![t] = "none"]
        /\ ret' = [ret EXCEPT ![t] = 0]
        /\ UNCHANGED t_sig
    BY DEF die
  <1>2. /\ co'[t] = "dead" /\ op'[t] = "none"
        /\ \A u \in Task : u # t => co'[u] = co[u] /\ op'[u] = op[u] /\ ret'[u] = ret[u]
    BY <1>1 DEF Sched, IInv, TypeOK
  <1>3. t_prev'[t] = t_prev[t] /\ t_blockedby'[t] = t_blockedby[t] /\ ~t_prev[t]
    <2>1. CASE UNCHANGED readyVars
      BY <2>1 DEF readyVars, Sched, IInv, OnePlace
    <2>2. CASE t_parent[t] # None /\ push_ready(t_parent[t], 0)
      <3>1. t_parent[t] \in Task /\ t_parent[t] # t
        BY <2>2 DEF Sched, IInv, TypeOK, ParentsExist
      <3> QED BY <2>2, <3>1 DEF push_ready, readyVars, Sched, IInv, TypeOK, OnePlace
    <2> QED BY <2>1, <2>2 DEF die
  <1>4. co[t] = "handling" => ~t_sig[t]
    BY DEF Sched, IInv, NoSignalInside
  <1>5. ASSUME NEW u \in Task, u # t
        PROVE  /\ op[u] \notin OwnCall => Untouched(u)
               /\ t_blockedby'[u] \in {t_blockedby[u], NoObj}
    BY <1>1, <1>2, <1>5, DieWakesJoiner DEF Untouched
  <1>6. op[t] \notin OwnCall => IsHandled(t)
    BY <1>1, <1>2, <1>3, <1>4 DEF IsHandled
  <1>7. Touched
    BY <1>2, <1>3, <1>5, <1>6 DEF Touched, Touch, OwnCall
  <1>8. OpInside'
    BY <1>2 DEF Sched, OpInside
  <1> QED BY <1>1, <1>7, <1>8

LEMMA YieldTouches ==
    ASSUME Sched, KillOrJoin, TaskAssumption, NEW t \in Task, Yield(t)
    PROVE  Touched /\ OpInside' /\ \A u \in Task : t_sig'[u] => t_sig[u]
  <1> USE DEF Sched
  <1>1. CASE InProgram(t) /\ (join_assert(t) \/ finish(t))
    <2>1. op[t] = "none" /\ current = t /\ die(t, t_nsubs)
      BY <1>1 DEF InProgram, join_assert, finish, OpInside
    <2> QED BY <2>1, DieTouches DEF OwnCall, IInv, TypeOK
  <1>2. CASE handler_exit(t)
    BY <1>2, DieTouches DEF handler_exit, IInv, TypeOK
  <1>3. ASSUME NEW o \in {"sleep", "join"}, NEW sec, NEW subs \in [Task -> Int],
               \A u \in Task \ {t} : subs[u] = t_nsubs[u],
               InProgram(t), do_yield(t, o, sec, t_blockedby[t], subs)
        PROVE  Touched /\ OpInside' /\ \A u \in Task : t_sig'[u] => t_sig[u]
    <2>1. current = t /\ co[t] = "run" /\ op[t] = "none"
      BY <1>3 DEF InProgram, OpInside
    <2>2. CASE t_sig[t]
      BY <1>3, <2>1, <2>2, DieTouches DEF do_yield, OwnCall
    <2>3. CASE ~t_sig[t]
      <3>1. /\ co' = [co EXCEPT ![t] = "parked"]
            /\ op' = [op EXCEPT ![t] = o]
            /\ t_blockedby' = [t_blockedby EXCEPT ![t] = t_blockedby[t]]
            /\ UNCHANGED <<t_prev, t_err, ret, t_sig>>
        BY <1>3, <2>3 DEF do_yield
      <3>2. /\ \A u \in Task : u # t => co'[u] = co[u] /\ op'[u] = op[u]
            /\ \A u \in Task : t_blockedby'[u] = t_blockedby[u]
            /\ co'[t] = "parked" /\ op'[t] = o
        BY <3>1 DEF IInv, TypeOK
      <3>3. Touched
        BY <2>1, <3>1, <3>2 DEF Touched, Touch, Untouched, OwnCall
      <3>4. OpInside'
        BY <3>2 DEF OpInside
      <3> QED BY <3>1, <3>3, <3>4
    <2> QED BY <2>2, <2>3
  <1>4. CASE InProgram(t) /\ \E s \in Secs : sleep(t, s)
    BY <1>3, <1>4 DEF sleep, IInv, TypeOK
  <1>5. CASE InProgram(t) /\ \E s \in JoinSecs : join_tasks(t, s)
    <2>1. joining(t) \in [Task -> Int] /\ \A u \in Task \ {t} : joining(t)[u] = t_nsubs[u]
      BY DEF joining, IInv, TypeOK
    <2> QED BY <1>3, <1>5, <2>1 DEF join_tasks
  <1>6. CASE sleep_return(t) \/ join_return(t)
    <2>1. /\ co[t] = "back" /\ op[t] \in OwnCall
          /\ co' = [co EXCEPT ![t] = "run"]
          /\ op' = [op EXCEPT ![t] = "none"]
          /\ ret' = [ret EXCEPT ![t] = 0]
          /\ UNCHANGED <<readyVars, t_sig>>
      BY <1>6 DEF sleep_return, join_return, taskVars, OwnCall
    <2>2. /\ \A u \in Task : u # t => co'[u] = co[u] /\ op'[u] = op[u] /\ ret'[u] = ret[u]
          /\ co'[t] = "run" /\ op'[t] = "none"
      BY <2>1 DEF IInv, TypeOK
    <2> QED BY <2>1, <2>2 DEF Touched, Touch, Untouched, OwnCall, OpInside, readyVars
  <1>7. CASE handler_return(t)
    <2>1. /\ current = t /\ co[t] = "handling" /\ ~t_sig[t] /\ ~t_prev[t]
          /\ UNCHANGED <<t_prev, t_err, t_blockedby, t_sig, op>>
      BY <1>7 DEF handler_return, taskVars, IInv, NoSignalInside, OnePlace
    <2>2. \/ /\ co' = [co EXCEPT ![t] = "back"]
             /\ \/ op[t] = "sleep" /\ ret' = [ret EXCEPT ![t] = EINTR]
                \/ ret' = [ret EXCEPT ![t] = ETIMEDOUT]
          \/ co' = [co EXCEPT ![t] = "parked"] /\ UNCHANGED ret
      BY <1>7 DEF handler_return
    <2>3. /\ \A u \in Task : u # t => co'[u] = co[u] /\ ret'[u] = ret[u]
          /\ co'[t] \in {"back", "parked"}
          /\ op[t] # "sleep" /\ co'[t] = "back" => ret'[t] = ETIMEDOUT
      BY <2>2 DEF IInv, TypeOK
    <2>4. op[t] \notin OwnCall => IsHandled(t)
      BY <2>1, <2>3 DEF IsHandled, OwnCall
    <2>5. Touched
      BY <2>1, <2>3, <2>4 DEF Touched, Touch, Untouched
    <2>6. OpInside'
      BY <2>1, <2>3 DEF OpInside
    <2> QED BY <2>1, <2>5, <2>6
  <1> QED BY <1>1, <1>2, <1>4, <1>5, <1>6, <1>7 DEF Yield

LEMMA CallTouches ==
    ASSUME Sched, NEW t \in Task, Call(t)
    PROVE  Touched /\ OpInside'
  <1> USE DEF Sched
  <1>1. ASSUME NEW c \in Task, NEW j \in BOOLEAN, start_task(t, c, j)
        PROVE  Touched /\ OpInside'
    <2>1. /\ co[c] = "none" /\ co' = [co EXCEPT ![c] = "fresh"] /\ push_ready(c, 0)
          /\ UNCHANGED <<op, ret, t_sig>>
      BY <1>1 DEF start_task, NextId
    <2>2. op[c] = "none"
      BY <2>1 DEF OpInside
    <2>3. \A u \in Task : u # c =>
              /\ t_prev'[u] = t_prev[u] /\ t_err'[u] = t_err[u]
              /\ t_blockedby'[u] = t_blockedby[u]
      BY <2>1 DEF push_ready, readyVars, IInv, TypeOK
    <2>4. t_blockedby'[c] \in {t_blockedby[c], NoObj}
      BY <2>1 DEF push_ready, readyVars, IInv, TypeOK
    <2>5. co'[c] = "fresh" /\ \A u \in Task : u # c => co'[u] = co[u]
      BY <2>1 DEF IInv, TypeOK
    <2>6. OpInside'
      BY <2>1, <2>2, <2>5 DEF OpInside
    <2>7. Touched
      BY <2>1, <2>2, <2>3, <2>4, <2>5 DEF Touched, Touch, Untouched, OwnCall
    <2> QED BY <2>6, <2>7
  <1>2. ASSUME NEW v \in Task, kill_task(t, v) \/ reap_task(t, v)
        PROVE  Touched /\ OpInside'
    <2>1. /\ v # t /\ Alive(v) /\ t_sig' = [t_sig EXCEPT ![v] = TRUE] /\ push_ready(v, 0)
          /\ UNCHANGED <<co, op, ret>>
      BY <1>2 DEF kill_task, reap_task, coVars
    <2>2. current = t
      BY <1>2 DEF Call, Running
    <2>3. op[v] \notin OwnCall => co[v] = "parked"
      BY <2>1, <2>2 DEF OpInside, OwnCall, IInv, OnePlace
    <2>4. /\ t_sig'[v] /\ t_prev'[v]
          /\ t_blockedby'[v] = IF t_prev[v] THEN t_blockedby[v] ELSE NoObj
      BY <2>1 DEF push_ready, Linked, readyVars, IInv, TypeOK
    <2>5. \A u \in Task : u # v =>
              /\ t_prev'[u] = t_prev[u] /\ t_err'[u] = t_err[u]
              /\ t_blockedby'[u] = t_blockedby[u] /\ t_sig'[u] = t_sig[u]
      BY <2>1 DEF push_ready, readyVars, IInv, TypeOK
    <2>6. OpInside'
      BY <2>1 DEF OpInside
    <2>7. op[v] \notin OwnCall => IsSignalled(v)
      BY <2>1, <2>3, <2>4 DEF IsSignalled
    <2>8. Touched
      BY <2>1, <2>4, <2>5, <2>7 DEF Touched, Touch, Untouched
    <2> QED BY <2>6, <2>8
  <1> QED BY <1>1, <1>2 DEF Call

\* What resumes a task.
LEMMA ResumeTouches ==
    ASSUME Sched, resume_next \/ \E t \in Task : expire(t)
    PROVE  Touched /\ OpInside' /\ \A u \in Task : t_sig'[u] => t_sig[u]
  <1> USE DEF Sched
  <1>1. ASSUME NEW t \in Task, NEW e, do_resume(t, e), co[t] \in {"fresh", "parked", "dead"}
        PROVE  /\ UNCHANGED op
               /\ \A u \in Task \ {t} : /\ co'[u] = co[u] /\ ret'[u] = ret[u]
                                        /\ t_sig'[u] = t_sig[u]
               /\ co[t] = "fresh" => co'[t] = "run" /\ t_sig'[t] = t_sig[t]
               /\ co[t] = "dead" => co'[t] = "dead" /\ t_sig'[t] = t_sig[t]
               /\ co[t] = "parked" =>
                      /\ ~t_sig'[t]
                      /\ \/ ~t_sig[t] /\ co'[t] = "back" /\ ret'[t] = e
                         \/ t_sig[t] /\ co'[t] = "handling"
    <2>1. CASE co[t] = "dead"
      BY <1>1, <2>1 DEF do_resume, coVars
    <2>2. CASE co[t] = "fresh"
      BY <1>1, <2>2 DEF do_resume, IInv, TypeOK
    <2>3. CASE co[t] = "parked"
      BY <1>1, <2>3 DEF do_resume, IInv, TypeOK
    <2> QED BY <1>1, <2>1, <2>2, <2>3
  <1>2. ASSUME NEW t \in Task, NEW e, do_resume(t, e), co[t] \in {"fresh", "parked", "dead"},
               t_prev' = [t_prev EXCEPT ![t] = FALSE], UNCHANGED t_blockedby,
               \A u \in Task \ {t} : t_err'[u] = t_err[u],
               e = IF t_prev[t] THEN t_err[t] ELSE ETIMEDOUT
        PROVE  Touched /\ OpInside' /\ \A u \in Task : t_sig'[u] => t_sig[u]
    <2>1. ~t_prev'[t] /\ \A u \in Task \ {t} : t_prev'[u] = t_prev[u]
      BY <1>2 DEF IInv, TypeOK
    <2>2. /\ UNCHANGED op
          /\ \A u \in Task \ {t} : /\ co'[u] = co[u] /\ ret'[u] = ret[u]
                                   /\ t_sig'[u] = t_sig[u]
          /\ co[t] = "fresh" => co'[t] = "run" /\ t_sig'[t] = t_sig[t]
          /\ co[t] = "dead" => co'[t] = "dead" /\ t_sig'[t] = t_sig[t]
          /\ co[t] = "parked" =>
                 /\ ~t_sig'[t]
                 /\ \/ ~t_sig[t] /\ co'[t] = "back" /\ ret'[t] = e
                    \/ t_sig[t] /\ co'[t] = "handling"
      BY <1>1, <1>2
    <2>3. \A u \in Task \ {t} : Untouched(u)
      BY <1>2, <2>1, <2>2 DEF Untouched
    <2>4. co[t] = "parked" => IsResumed(t)
      BY <1>2, <2>1, <2>2 DEF IsResumed
    <2>5. co[t] # "parked" => op[t] \in OwnCall
      BY <1>2 DEF OpInside, OwnCall
    <2>6. Touched
      BY <1>2, <2>2, <2>3, <2>4, <2>5 DEF Touched, Touch
    <2>7. OpInside'
      BY <1>2, <2>2 DEF OpInside
    <2> QED BY <1>2, <2>2, <2>6, <2>7
  <1>3. CASE resume_next
    <2>1. batch # <<>> /\ batch \in Seq(Task)
      BY <1>3 DEF resume_next, IInv, TypeOK
    <2>2. PICK t \in Task : t = Head(batch)
      BY <2>1, HeadTailProperties
    <2>3. t_prev[t]
      <3>1. Queue \in Seq(Task) /\ Queue # <<>> /\ Head(Queue) = t
        BY <2>1, <2>2, ConcatProperties, HeadTailOfConcat DEF Queue, IInv, TypeOK
      <3>2. Within(t, Queue)
        BY <3>1, TailRemoves DEF IInv, ListsMatch
      <3> QED BY <3>2 DEF IInv, ListsMatch
    <2>4. /\ t_prev' = [t_prev EXCEPT ![t] = FALSE]
          /\ do_resume(t, t_err[t])
          /\ UNCHANGED <<t_err, t_blockedby>>
      BY <1>3, <2>2 DEF resume_next
    <2>5. co[t] \in {"fresh", "parked", "dead"}
      BY <2>3 DEF IInv, OnePlace
    <2> QED BY <1>2, <2>3, <2>4, <2>5
  <1>4. ASSUME NEW t \in Task, expire(t)
        PROVE  Touched /\ OpInside' /\ \A u \in Task : t_sig'[u] => t_sig[u]
    <2>1. /\ rb_key[t] # NoTimer
          /\ t_err' = [t_err EXCEPT ![t] = ETIMEDOUT]
          /\ do_resume(t, ETIMEDOUT)
          /\ UNCHANGED <<t_prev, t_blockedby>>
      BY <1>4 DEF expire, IsNearest, Timers
    <2>2. co[t] = "parked" /\ ~t_prev[t]
      BY <2>1 DEF IInv, OnePlace
    <2>3. t_prev' = [t_prev EXCEPT ![t] = FALSE]
      BY <2>1, <2>2 DEF IInv, TypeOK
    <2>4. \A u \in Task \ {t} : t_err'[u] = t_err[u]
      BY <2>1 DEF IInv, TypeOK
    <2> QED BY <1>2, <2>1, <2>2, <2>3, <2>4
  <1> QED BY <1>3, <1>4

\* The other steps of the loop and of the clock touch no task.
LEMMA QuietSteps ==
    ASSUME \/ Loop /\ ~(resume_next \/ \E t \in Task : expire(t))
           \/ update_time \/ UNCHANGED vars
    PROVE  UNCHANGED <<t_prev, t_err, t_blockedby, taskVars, coVars>>
  BY DEF Loop, detach_list, resume_list_done, modules_done, calc_waittime,
         poll_events, poll_nothing, expire_done, update_time, vars, readyVars

\* The steps of the scheduler, a poll that reports nothing included, preserve
\* its invariants and touch a task inside of a call in these ways only.
LEMMA SchedStep ==
    ASSUME Sched, KillOrJoin, TaskAssumption,
           \/ \E t \in Task : Yield(t) \/ Call(t)
           \/ Loop \/ update_time \/ UNCHANGED vars
    PROVE  /\ Sched' /\ Touched
           /\ (\E t \in Task : Yield(t)) \/ Loop \/ update_time \/ UNCHANGED vars =>
                  \A u \in Task : t_sig'[u] => t_sig[u]
  <1>1. [Next]_vars
    BY DEF Next
  <1>2. IInv' /\ PhaseInv'
    BY <1>1, NextInvariant, PhaseStep DEF Sched
  <1>3. ASSUME Killers = {}
        PROVE  JoinInv'
    BY <1>3, JoinYieldStep, JoinCallStep, JoinLoopStep DEF Sched
  <1>4. ASSUME Joiners = {}
        PROVE  Childless'
    <2>1. CASE UNCHANGED t_parent
      BY <1>4, <2>1 DEF Sched, Childless
    <2>2. CASE \E t, c \in Task : start_task(t, c, FALSE)
      BY <1>4, <2>2 DEF start_task, Sched, Childless, IInv, TypeOK
    <2>3. ASSUME NEW t \in Task, Yield(t)
          PROVE  UNCHANGED t_parent
      <3>1. \A subs : die(t, subs) => UNCHANGED t_parent
        BY DEF die
      <3>2. \A o, sec, obj, subs : do_yield(t, o, sec, obj, subs) => UNCHANGED t_parent
        BY <3>1 DEF do_yield
      <3>3. CASE InProgram(t)
        BY <2>3, <3>1, <3>2, <3>3 DEF Yield, InProgram, sleep, join_tasks, join_assert, finish,
                                     sleep_return, join_return, handler_return, handler_exit
      <3>4. CASE sleep_return(t) \/ join_return(t) \/ handler_return(t)
        BY <3>4 DEF sleep_return, join_return, handler_return, taskVars
      <3>5. CASE handler_exit(t)
        BY <3>1, <3>5 DEF handler_exit
      <3> QED BY <2>3, <3>3, <3>4, <3>5 DEF Yield
    <2>4. \A t \in Task : Call(t) => UNCHANGED t_parent \/ \E c \in Task : start_task(t, c, FALSE)
      BY <1>4 DEF Call, kill_task, reap_task, start_task
    <2>5. Loop \/ update_time \/ UNCHANGED vars => UNCHANGED t_parent
      BY DEF Loop, detach_list, resume_next, expire, resume_list_done, modules_done,
             calc_waittime, poll_events, poll_nothing, expire_done, update_time, vars, taskVars
    <2> QED BY <2>1, <2>2, <2>3, <2>4, <2>5
  <1>5. Touched /\ OpInside'
    <2>1. CASE \E t \in Task : Yield(t)
      BY <2>1, YieldTouches
    <2>2. CASE \E t \in Task : Call(t)
      BY <2>2, CallTouches
    <2>3. CASE resume_next \/ \E t \in Task : expire(t)
      BY <2>3, ResumeTouches
    <2>4. CASE \/ Loop /\ ~(resume_next \/ \E t \in Task : expire(t))
               \/ update_time \/ UNCHANGED vars
      <3>1. UNCHANGED <<t_prev, t_err, t_blockedby, taskVars, coVars>>
        BY <2>4, QuietSteps
      <3> QED BY <3>1 DEF taskVars, coVars, Sched, OpInside, Touched, Touch, Untouched
    <2> QED BY <2>1, <2>2, <2>3, <2>4
  <1>6. ASSUME (\E t \in Task : Yield(t)) \/ Loop \/ update_time \/ UNCHANGED vars
        PROVE  \A u \in Task : t_sig'[u] => t_sig[u]
    <2>1. CASE \E t \in Task : Yield(t)
      BY <2>1, YieldTouches
    <2>2. CASE resume_next \/ \E t \in Task : expire(t)
      BY <2>2, ResumeTouches
    <2>3. CASE \/ Loop /\ ~(resume_next \/ \E t \in Task : expire(t))
               \/ update_time \/ UNCHANGED vars
      BY <2>3, QuietSteps DEF taskVars
    <2> QED BY <1>6, <2>1, <2>2, <2>3
  <1> QED BY <1>2, <1>3, <1>4, <1>5, <1>6 DEF Sched

---------------------------------------------------------------------------
(* The inductive invariant of the sockets *)

SockTypeOK ==
    /\ ch_open \in BOOLEAN /\ ch_pending \in BOOLEAN /\ ch_task \in Task \cup {None}
    /\ acc \in [Task -> [sec : Int, waited : BOOLEAN]]
    /\ backlog \in Nat /\ server_edge \in BOOLEAN
    /\ t_dgramfd \in Task \cup {None} /\ t_rdgram \in BOOLEAN
    /\ queue \in Seq({"data", "empty"}) /\ so_error \in BOOLEAN /\ dgram_edge \in BOOLEAN

\* t waits for what the handler of the server channel reports, and will again
\* when it has handled the signal that is on its way.
Awaits(t) == \/ co[t] = "parked" /\ (~t_prev[t] \/ t_sig[t])
             \/ co[t] = "handling"

\* block_task has returned 0 to t, or is to.
Woken(t) == \/ co[t] = "parked" /\ t_prev[t] /\ ~t_sig[t] /\ t_err[t] = 0
            \/ co[t] = "back" /\ ret[t] = 0

\* The server channel: its handler knows nobody but a task in accept, or one
\* that has ended there; connections that wait are marked, or the next poll
\* reports them; the task that waits has found nothing, and is known; and
\* what a task was woken for is still there.
ServerInv ==
    /\ ch_task # None => \/ op[ch_task] = "accept" /\ acc[ch_task].waited
                         \/ co[ch_task] = "dead"
    /\ ~ch_pending => backlog = 0 \/ server_edge
    /\ \A t \in Task \ slip : op[t] = "accept" =>
           /\ Awaits(t) => ch_task = t /\ ~ch_pending
           /\ acc[t].waited /\ Woken(t) => ch_pending \/ ~ch_open

\* The same of the datagram socket, which has one user; a signal that meets
\* it is in slip until recvfrom returns.
DgramInv ==
    /\ t_dgramfd # None /\ ~t_rdgram /\ None \notin slip => ~navaiable \/ dgram_edge
    /\ \A t \in Task :
           /\ t_blockedby[t] = "dgram" =>
                  op[t] = "recvfrom" /\ co[t] \in {"parked", "back"} /\ ~t_prev[t]
           /\ op[t] = "recvfrom" =>
                  /\ t = t_dgramfd
                  /\ t_sig[t] \/ co[t] = "handling" => t \in slip
    /\ \A t \in Task \ slip : op[t] = "recvfrom" =>
           /\ co[t] = "parked" /\ ~t_prev[t] => t_blockedby[t] = "dgram" /\ ~t_rdgram
           /\ Woken(t) => queue # <<>> \/ so_error

SockInv == SockTypeOK /\ ServerInv /\ DgramInv

SInv == Sched /\ SockInv

\* A step of the scheduler, as the tasks in the call o see it.
TouchedIn(o) ==
    \A u \in Task : /\ op[u] = o => Touch(u)
                    /\ op'[u] = o => op[u] = o

LEMMA Flags ==
    ASSUME IInv, NEW u \in Task
    PROVE  /\ t_prev[u] \in BOOLEAN /\ t_sig[u] \in BOOLEAN
           /\ co[u] = "parked" /\ t_sig[u] => t_prev[u]
           /\ co[u] = "handling" => ~t_prev[u] /\ ~t_sig[u]
           /\ co[u] = "back" => ~t_prev[u]
  BY DEF IInv, TypeOK, SignalsPending, NoSignalInside, OnePlace

\* The server channel, in a step that wakes nobody for it.
LEMMA ServerKeeps ==
    ASSUME SInv, TouchedIn("accept"), UNCHANGED <<ch_open, ch_pending, ch_task, acc>>,
           ~ch_pending => backlog' = 0 \/ server_edge',
           \A u \in Task : /\ co[u] = "dead" => co'[u] = "dead"
                           /\ op[u] = "accept" /\ u \in slip => u \in slip'
                           /\ op[u] = "accept" /\ t_prev[u] /\ t_sig'[u] /\ ~t_sig[u] => u \in slip'
    PROVE  ServerInv'
  <1> USE DEF SInv, SockInv
  <1>1. ASSUME ch_task # None
        PROVE  \/ op'[ch_task] = "accept" /\ acc[ch_task].waited
               \/ co'[ch_task] = "dead"
    <2>1. ch_task \in Task
      BY <1>1 DEF SockTypeOK
    <2> QED BY <1>1, <2>1
            DEF ServerInv, TouchedIn, Touch, Untouched, IsSignalled, IsResumed, IsHandled
  <1>2. ASSUME NEW u \in Task \ slip', op'[u] = "accept"
        PROVE  /\ Awaits(u)' => ch_task = u /\ ~ch_pending
               /\ acc[u].waited /\ Woken(u)' => ch_pending \/ ~ch_open
    <2>1. op[u] = "accept" /\ u \in Task \ slip /\ Touch(u)
      BY <1>2 DEF TouchedIn
    <2>2. t_prev[u] /\ t_sig'[u] => t_sig[u]
      BY <1>2, <2>1
    <2>3. /\ t_prev[u] \in BOOLEAN /\ t_sig[u] \in BOOLEAN
          /\ co[u] = "parked" /\ t_sig[u] => t_prev[u]
          /\ co[u] = "handling" => ~t_prev[u] /\ ~t_sig[u]
          /\ co[u] = "back" => ~t_prev[u]
      BY Flags DEF Sched
    <2>4. Awaits(u)' => Awaits(u)
      BY <1>2, <2>1, <2>2, <2>3
      DEF Awaits, Touch, Untouched, IsSignalled, IsResumed, IsHandled
    <2>5. Woken(u)' => Woken(u)
      BY <1>2, <2>1, <2>2, <2>3
      DEF Woken, Touch, Untouched, IsSignalled, IsResumed, IsHandled, ETIMEDOUT
    <2> QED BY <2>1, <2>4, <2>5 DEF ServerInv
  <1> QED BY <1>1, <1>2 DEF ServerInv

\* And in a step that leaves it alone.
LEMMA ServerFrame ==
    ASSUME SInv, TouchedIn("accept"), UNCHANGED serverVars,
           \A u \in Task : /\ co[u] = "dead" => co'[u] = "dead"
                           /\ op[u] = "accept" /\ u \in slip => u \in slip'
                           /\ op[u] = "accept" /\ t_prev[u] /\ t_sig'[u] /\ ~t_sig[u] => u \in slip'
    PROVE  ServerInv'
  BY ServerKeeps DEF serverVars, SInv, SockInv, ServerInv

\* The datagram socket, in a step that wakes nobody for it.
LEMMA DgramKeeps ==
    ASSUME SInv, TouchedIn("recvfrom"), UNCHANGED <<t_dgramfd, t_rdgram>>,
           t_dgramfd # None /\ ~t_rdgram /\ None \notin slip' => ~navaiable' \/ dgram_edge',
           queue # <<>> \/ so_error => queue' # <<>> \/ so_error',
           \A u \in Task : /\ op[u] = "recvfrom" /\ u \in slip => u \in slip'
                           /\ op[u] = "recvfrom" /\ t_sig'[u] /\ ~t_sig[u] => u \in slip'
                           /\ t_blockedby'[u] = "dgram" => t_blockedby[u] = "dgram"
    PROVE  DgramInv'
  <1> USE DEF SInv, SockInv
  <1>2. ASSUME NEW u \in Task
        PROVE  /\ t_prev[u] \in BOOLEAN /\ t_sig[u] \in BOOLEAN
               /\ co[u] = "parked" /\ t_sig[u] => t_prev[u]
               /\ co[u] = "handling" => ~t_prev[u] /\ ~t_sig[u]
               /\ co[u] = "back" => ~t_prev[u]
    BY Flags DEF Sched
  <1>3. ASSUME NEW u \in Task, t_blockedby'[u] = "dgram"
        PROVE  op'[u] = "recvfrom" /\ co'[u] \in {"parked", "back"} /\ ~t_prev'[u]
    <2>1. op[u] = "recvfrom" /\ co[u] \in {"parked", "back"} /\ ~t_prev[u]
      BY <1>3 DEF DgramInv
    <2>2. ~t_sig[u] \/ co[u] = "back"
      BY <1>2, <2>1
    <2> QED BY <1>3, <2>1, <2>2
            DEF TouchedIn, Touch, Untouched, IsSignalled, IsResumed, IsHandled, NoObj
  <1>4. ASSUME NEW u \in Task, op'[u] = "recvfrom"
        PROVE  /\ u = t_dgramfd
               /\ t_sig'[u] \/ co'[u] = "handling" => u \in slip'
    <2>1. op[u] = "recvfrom" /\ Touch(u) /\ u = t_dgramfd
      BY <1>4 DEF TouchedIn, DgramInv
    <2>2. co'[u] = "handling" => t_sig[u] \/ co[u] = "handling"
      BY <2>1 DEF Touch, Untouched, IsSignalled, IsResumed, IsHandled
    <2> QED BY <2>1, <2>2 DEF DgramInv
  <1>5. ASSUME NEW u \in Task \ slip', op'[u] = "recvfrom"
        PROVE  /\ co'[u] = "parked" /\ ~t_prev'[u] => t_blockedby'[u] = "dgram" /\ ~t_rdgram
               /\ Woken(u)' => queue' # <<>> \/ so_error'
    <2>1. op[u] = "recvfrom" /\ Touch(u) /\ u \in Task \ slip
      BY <1>5 DEF TouchedIn
    <2>2. co[u] # "handling" /\ ~t_sig[u] /\ ~t_sig'[u]
      BY <1>5, <2>1 DEF DgramInv
    <2>3. co'[u] = "parked" /\ ~t_prev'[u] =>
              co[u] = "parked" /\ ~t_prev[u] /\ t_blockedby'[u] = t_blockedby[u]
      BY <1>2, <2>1, <2>2 DEF Touch, Untouched, IsSignalled, IsResumed, IsHandled
    <2>4. Woken(u)' => Woken(u)
      BY <1>2, <2>1, <2>2
      DEF Woken, Touch, Untouched, IsSignalled, IsResumed, IsHandled, ETIMEDOUT
    <2> QED BY <2>1, <2>3, <2>4 DEF DgramInv
  <1> QED BY <1>3, <1>4, <1>5 DEF DgramInv

\* And in a step that leaves it alone.
LEMMA DgramFrame ==
    ASSUME SInv, TouchedIn("recvfrom"), UNCHANGED dgramVars, None \in slip' <=> None \in slip,
           \A u \in Task : /\ op[u] = "recvfrom" /\ u \in slip => u \in slip'
                           /\ op[u] = "recvfrom" /\ t_sig'[u] /\ ~t_sig[u] => u \in slip'
                           /\ t_blockedby'[u] = "dgram" => t_blockedby[u] = "dgram"
    PROVE  DgramInv'
  BY DgramKeeps DEF dgramVars, SInv, SockInv, DgramInv, navaiable

---------------------------------------------------------------------------
(* What the calls do to the scheduler *)

\* A step of t in which no other task takes part, but a parent that t's end
\* may wake.
Beside(t) ==
    \A u \in Task \ {t} :
        /\ op'[u] = op[u] /\ co'[u] = co[u] /\ t_sig'[u] = t_sig[u]
        /\ t_blockedby'[u] \in {t_blockedby[u], NoObj}
        /\ op[u] \notin OwnCall => Untouched(u)

\* A call of the running task; it may wake tasks that are suspended in calls
\* of this module, or that have ended there.
LEMMA SchedCall ==
    ASSUME Sched, NEW t \in Task \cup {None}, NEW e \in Errno,
           NEW u \in Task \cup {None}, NEW f \in Errno, wake_both(t, e, u, f),
           \A v \in {t, u} \ {None} : op[v] # "join" /\ co[v] \in {"parked", "dead"},
           UNCHANGED coVars \/ \E c \in Task : Moves(c),
           UNCHANGED <<taskVars, batch, now>>,
           \/ UNCHANGED <<at, caller>> /\ current # None
           \/ Idle("poll") /\ at' = "resume_list" /\ caller' = "events"
    PROVE  Sched'
  <1>1. IInv' /\ OpInside' /\ (JoinInv => JoinInv')
    BY CallsKeep DEF Sched
  <1>2. PhaseInv'
    BY DEF Sched, PhaseInv, Idle
  <1>3. Childless => Childless'
    BY DEF Childless, taskVars
  <1> QED BY <1>1, <1>2, <1>3 DEF Sched

\* A task enters a call.
LEMMA SchedEnter ==
    ASSUME Sched, NEW t \in Task, current = t, co[t] = "run",
           NEW o \in OpName \ {"join"}, enters(t, o), UNCHANGED <<loopVars, now>>
    PROVE  Sched' /\ Beside(t)
  <1>1. /\ co' = [co EXCEPT ![t] = "back"]
        /\ op' = [op EXCEPT ![t] = o]
        /\ UNCHANGED <<readyVars, taskVars, current, till, ret>>
    BY DEF enters
  <1>2. op[t] = "none"
    BY DEF Sched, OpInside
  <1>3. Moves(t)
    BY <1>1, <1>2 DEF Moves
  <1>4. wake_both(None, 0, None, 0) /\ 0 \in Errno /\ t # None
    BY <1>1, NobodyWoken DEF Sched, Errno, Task, None
  <1>5. Sched'
    BY <1>1, <1>3, <1>4, SchedCall DEF loopVars
  <1>6. Beside(t)
    BY <1>1 DEF Beside, Untouched, Sched, IInv, TypeOK, readyVars, taskVars
  <1> QED BY <1>5, <1>6

\* A call returns.
LEMMA SchedReturn ==
    ASSUME Sched, NEW t \in Task, current = t, co[t] = "back", op[t] # "join", returns(t),
           t_blockedby' = t_blockedby \/ t_blockedby' = [t_blockedby EXCEPT ![t] = NoObj],
           UNCHANGED <<ready, t_prev, t_err, rb_key, loopVars, now>>
    PROVE  /\ Sched' /\ Beside(t)
           /\ co'[t] = "run" /\ op'[t] = "none" /\ t_sig'[t] = t_sig[t]
  <1>1. /\ co' = [co EXCEPT ![t] = "run"]
        /\ op' = [op EXCEPT ![t] = "none"]
        /\ till' = [till EXCEPT ![t] = NoTimer]
        /\ ret' = [ret EXCEPT ![t] = 0]
        /\ UNCHANGED <<current, taskVars>>
    BY DEF returns
  <1>2. IInv'
    <2>1. t_blockedby' \in [Task -> Obj \cup {NoObj}]
      BY DEF Sched, IInv, TypeOK
    <2> QED BY <1>1, <2>1, CallLeft DEF Sched
  <1>3. /\ co'[t] = "run" /\ op'[t] = "none"
        /\ \A u \in Task \ {t} : co'[u] = co[u] /\ op'[u] = op[u] /\ ret'[u] = ret[u]
        /\ \A u \in Task \ {t} : t_blockedby'[u] = t_blockedby[u]
    BY <1>1 DEF Sched, IInv, TypeOK
  <1>4. PhaseInv'
    BY <1>1 DEF Sched, PhaseInv, loopVars
  <1>5. OpInside'
    BY <1>3 DEF Sched, OpInside
  <1>6. JoinInv => JoinInv'
    BY <1>1, <1>3, JoinFrame DEF JoinInv, OpInside, OnlyReaped, taskVars
  <1>7. Childless => Childless'
    BY <1>1 DEF Childless, taskVars
  <1>8. Beside(t)
    BY <1>1, <1>3 DEF Beside, Untouched, taskVars
  <1> QED BY <1>1, <1>2, <1>3, <1>4, <1>5, <1>6, <1>7, <1>8 DEF Sched, taskVars

\* A call blocks, or ends a task that a signal is pending for.
LEMMA SchedYield ==
    ASSUME Sched, KillOrJoin, TaskAssumption, NEW t \in Task, current = t,
           co[t] \in {"run", "back"}, op[t] # "join", NEW o \in OpName \ OwnCall, NEW sec \in Int,
           NEW obj \in Obj, do_yield(t, o, sec, obj, t_nsubs), UNCHANGED <<loopVars, now>>
    PROVE  /\ Sched' /\ Beside(t)
           /\ \/ /\ co'[t] = "dead" /\ op'[t] = "none" /\ t_blockedby'[t] = t_blockedby[t]
              \/ /\ co'[t] = "parked" /\ op'[t] = o /\ t_blockedby'[t] = obj
                 /\ ~t_prev'[t] /\ ~t_sig'[t]
  <1>1. t_nsubs \in [Task -> Int] /\ batch' = batch /\ at' = at /\ caller' = caller
    BY DEF Sched, IInv, TypeOK, loopVars
  <1>2. IInv'
    BY <1>1, DoYield DEF Sched, OwnCall
  <1>3. CASE t_sig[t]
    <2>1. die(t, t_nsubs)
      BY <1>3 DEF do_yield
    <2>2. JoinInv => JoinInv'
      BY <1>1, <2>1, JoinDie DEF Sched
    <2>3. /\ co' = [co EXCEPT ![t] = "dead"]
          /\ op' = [op EXCEPT ![t] = "none"]
          /\ ret' = [ret EXCEPT ![t] = 0]
          /\ UNCHANGED <<t_sig, t_parent>>
      BY <2>1 DEF die
    <2>4. /\ co'[t] = "dead" /\ op'[t] = "none"
          /\ \A u \in Task : u # t => co'[u] = co[u] /\ op'[u] = op[u] /\ ret'[u] = ret[u]
      BY <2>3 DEF Sched, IInv, TypeOK
    <2>5. OpInside' /\ (Childless => Childless')
      BY <2>3, <2>4 DEF Sched, OpInside, Childless
    <2>6. Beside(t)
      BY <1>1, <2>1, <2>3, <2>4, DieWakesJoiner DEF Beside, Untouched
    <2>7. t_blockedby'[t] = t_blockedby[t]
      <3>1. CASE UNCHANGED readyVars
        BY <3>1 DEF readyVars
      <3>2. CASE t_parent[t] # None /\ push_ready(t_parent[t], 0)
        <4>1. t_parent[t] \in Task /\ t_parent[t] # t
          BY <3>2 DEF Sched, IInv, TypeOK, ParentsExist
        <4> QED BY <3>2, <4>1 DEF push_ready, readyVars, Sched, IInv, TypeOK
      <3> QED BY <2>1, <3>1, <3>2 DEF die
    <2>8. PhaseInv'
      BY <1>1, <2>1 DEF Sched, PhaseInv, die, Task, None
    <2> QED BY <1>2, <2>2, <2>4, <2>5, <2>6, <2>7, <2>8 DEF Sched
  <1>4. CASE ~t_sig[t]
    <2>1. /\ co' = [co EXCEPT ![t] = "parked"]
          /\ op' = [op EXCEPT ![t] = o]
          /\ t_blockedby' = [t_blockedby EXCEPT ![t] = obj]
          /\ current' = None /\ t_nsubs' = t_nsubs
          /\ UNCHANGED <<ready, t_prev, t_err, ret, t_sig, sighandler, t_parent>>
      BY <1>4 DEF do_yield
    <2>2. /\ co'[t] = "parked" /\ op'[t] = o /\ t_blockedby'[t] = obj
          /\ \A u \in Task : u # t => co'[u] = co[u] /\ op'[u] = op[u]
          /\ \A u \in Task : u # t => t_blockedby'[u] = t_blockedby[u]
      BY <2>1 DEF Sched, IInv, TypeOK
    <2>3. ~t_prev[t]
      BY DEF Sched, IInv, OnePlace
    <2>4. OpInside' /\ (Childless => Childless')
      BY <2>1, <2>2 DEF Sched, OpInside, Childless
    <2>5. JoinInv => JoinInv'
      <3>1. \A u \in Task : /\ op'[u] = "join" <=> op[u] = "join"
                            /\ op'[u] # "none" => co'[u] \in {"parked", "back", "handling"}
        BY <2>2, <2>4 DEF OpInside, OwnCall
      <3> QED BY <2>1, <2>2, <3>1, JoinFrame DEF JoinInv, OnlyReaped
    <2>6. PhaseInv'
      BY <1>1, <2>1 DEF Sched, PhaseInv, Task, None
    <2>7. Beside(t)
      BY <2>1, <2>2 DEF Beside, Untouched
    <2> QED BY <1>2, <1>4, <2>1, <2>2, <2>3, <2>4, <2>5, <2>6, <2>7 DEF Sched
  <1> QED BY <1>3, <1>4

LEMMA TouchedTouches ==
    ASSUME Touched
    PROVE  TouchedIn("accept") /\ TouchedIn("recvfrom")
  BY DEF Touched, TouchedIn, OwnCall

LEMMA BesideTouches ==
    ASSUME NEW o \in OpName \ OwnCall, NEW t \in Task, Beside(t), op[t] # o, op'[t] # o
    PROVE  TouchedIn(o)
  BY DEF Beside, TouchedIn, Touch

---------------------------------------------------------------------------
(* Steps of the scheduler *)

\* What task signals do to the tasks in the calls of this module.
LEMMA SockSchedStep ==
    ASSUME SInv, KillOrJoin, TaskAssumption, UNCHANGED <<serverVars, dgramVars>>,
           \/ /\ (\E t \in Task : Yield(t)) \/ Loop \/ update_time \/ UNCHANGED vars
              /\ slip' = slip
           \/ /\ \E t \in Task : Call(t)
              /\ slip' = slip \cup {u \in Task : Signalled(u)}
    PROVE  SInv'
  <1>1. /\ Sched' /\ Touched
        /\ (\E t \in Task : Yield(t)) \/ Loop \/ update_time \/ UNCHANGED vars =>
               \A u \in Task : t_sig'[u] => t_sig[u]
    BY SchedStep DEF SInv
  <1>2. TouchedIn("accept") /\ TouchedIn("recvfrom")
    BY <1>1, TouchedTouches
  <1>3. slip \subseteq slip' /\ (None \in slip' <=> None \in slip)
    BY DEF Task, None
  <1>4. \A u \in Task : t_sig'[u] /\ ~t_sig[u] /\ Signalled(u) => u \in slip'
    BY <1>1
  <1>5. \A u \in Task : co[u] = "dead" => co'[u] = "dead"
    BY <1>1 DEF Touched
  <1>6. ServerInv'
    BY <1>2, <1>3, <1>4, <1>5, ServerFrame DEF Signalled, Linked
  <1>7. \A u \in Task : t_blockedby'[u] = "dgram" => t_blockedby[u] = "dgram"
    BY <1>1 DEF Touched, NoObj
  <1>8. DgramInv'
    BY <1>2, <1>3, <1>4, <1>7, DgramFrame DEF Signalled
  <1>9. SockTypeOK'
    BY DEF SInv, SockInv, SockTypeOK, serverVars, dgramVars
  <1> QED BY <1>1, <1>6, <1>8, <1>9 DEF SInv, SockInv

---------------------------------------------------------------------------
(* Steps of the kernel *)

\* A step that the scheduler has no part in.
LEMMA SchedStill ==
    ASSUME Sched, KillOrJoin, TaskAssumption, UNCHANGED vars
    PROVE  /\ Sched' /\ TouchedIn("accept") /\ TouchedIn("recvfrom")
           /\ UNCHANGED <<co, op, ret, t_sig, t_prev, t_err, t_blockedby>>
  <1>1. Sched' /\ Touched
    BY SchedStep
  <1> QED BY <1>1, TouchedTouches DEF vars, readyVars, taskVars, coVars

LEMMA ServerStill ==
    ASSUME SInv, KillOrJoin, TaskAssumption, UNCHANGED <<vars, serverVars>>, slip' \cap Task = slip \cap Task
    PROVE  ServerInv'
  <1>1. TouchedIn("accept") /\ UNCHANGED <<co, t_sig>>
    BY SchedStill DEF SInv
  <1> QED BY <1>1, ServerFrame

LEMMA DgramStill ==
    ASSUME SInv, KillOrJoin, TaskAssumption, UNCHANGED <<vars, dgramVars, slip>>
    PROVE  DgramInv'
  <1>1. TouchedIn("recvfrom") /\ UNCHANGED <<t_sig, t_blockedby>>
    BY SchedStill DEF SInv
  <1> QED BY <1>1, DgramFrame

LEMMA EnvironmentStep ==
    ASSUME SInv, KillOrJoin, TaskAssumption, Environment
    PROVE  SInv'
  <1>1. UNCHANGED <<vars, slip>>
    BY DEF Environment, connection, connection_lost, dgram_arrives
  <1>2. /\ Sched' /\ UNCHANGED <<co, op, ret, t_sig, t_prev, t_err, t_blockedby>>
    BY <1>1, SchedStill DEF SInv
  <1>3. CASE connection \/ connection_lost
    <2>1. /\ UNCHANGED <<dgramVars, ch_open, ch_pending, ch_task, acc>>
          /\ backlog' \in Nat /\ server_edge' \in BOOLEAN
          /\ server_edge' \/ (server_edge' = server_edge /\ (backlog = 0 => backlog' = 0))
      <3>1. backlog \in Nat /\ server_edge \in BOOLEAN
        BY DEF SInv, SockInv, SockTypeOK
      <3>2. CASE connection
        BY <3>1, <3>2 DEF connection
      <3>3. CASE connection_lost
        BY <3>1, <3>3 DEF connection_lost
      <3> QED BY <1>3, <3>2, <3>3
    <2>2. DgramInv'
      BY <1>1, <2>1, DgramStill
    <2>3. ServerInv'
      BY <1>1, <1>2, <2>1 DEF SInv, SockInv, ServerInv, Awaits, Woken
    <2>4. SockTypeOK'
      BY <2>1 DEF SInv, SockInv, SockTypeOK, dgramVars
    <2> QED BY <1>2, <2>2, <2>3, <2>4 DEF SInv, SockInv
  <1>4. CASE dgram_arrives
    <2>1. /\ UNCHANGED <<serverVars, t_dgramfd, t_rdgram>> /\ dgram_edge' = (t_dgramfd # None)
          /\ \/ \E kind \in {"data", "empty"} : queue' = Append(queue, kind) /\ so_error' = so_error
             \/ queue' = queue /\ so_error' = TRUE
      BY <1>4 DEF dgram_arrives
    <2>2. queue \in Seq({"data", "empty"}) /\ so_error \in BOOLEAN
      BY DEF SInv, SockInv, SockTypeOK
    <2>3. /\ queue' \in Seq({"data", "empty"}) /\ so_error' \in BOOLEAN
          /\ queue # <<>> \/ so_error => queue' # <<>> \/ so_error'
      <3>1. ASSUME NEW kind \in {"data", "empty"}
            PROVE  /\ Append(queue, kind) \in Seq({"data", "empty"})
                   /\ Append(queue, kind) # <<>>
        BY <2>2, AppendProperties
      <3> QED BY <2>1, <2>2, <3>1
    <2>4. ServerInv'
      BY <1>1, <2>1, ServerStill
    <2>5. DgramInv'
      BY <1>1, <1>2, <2>1, <2>3 DEF SInv, SockInv, DgramInv, Woken
    <2>6. SockTypeOK'
      BY <2>1, <2>3 DEF SInv, SockInv, SockTypeOK, serverVars
    <2> QED BY <1>2, <2>4, <2>5, <2>6 DEF SInv, SockInv
  <1> QED BY <1>3, <1>4 DEF Environment

\* A poll that reports nothing: an edge without an event is forgotten.
LEMMA QuietPollStep ==
    ASSUME SInv, KillOrJoin, TaskAssumption, ~ServerDue, ~DgramDue, poll_events \/ poll_nothing,
           server_edge' = FALSE, dgram_edge' = FALSE,
           UNCHANGED <<ch_open, ch_pending, ch_task, acc, backlog, conns,
                       t_dgramfd, t_rdgram, queue, so_error, dgrams, slip>>
    PROVE  SInv'
  <1>1. Loop /\ UNCHANGED <<coVars, taskVars, readyVars>>
    BY DEF Loop, poll_events, poll_nothing
  <1>2. Sched' /\ Touched
    BY <1>1, SchedStep DEF SInv
  <1>3. TouchedIn("accept") /\ TouchedIn("recvfrom")
    BY <1>2, TouchedTouches
  <1>4. UNCHANGED <<co, t_sig, t_blockedby>>
    BY <1>1 DEF coVars, taskVars, readyVars
  <1>5. ~ch_pending => backlog' = 0 \/ server_edge'
    BY DEF ServerDue, SInv, SockInv, SockTypeOK, ServerInv
  <1>6. ServerInv'
    BY <1>3, <1>4, <1>5, ServerKeeps
  <1>7. t_dgramfd # None /\ ~t_rdgram /\ None \notin slip' => ~navaiable'
    BY DEF DgramDue, navaiable, SInv, SockInv, DgramInv
  <1>8. DgramInv'
    BY <1>3, <1>4, <1>7, DgramKeeps
  <1>9. SockTypeOK'
    BY DEF SInv, SockInv, SockTypeOK
  <1> QED BY <1>2, <1>6, <1>8, <1>9 DEF SInv, SockInv

---------------------------------------------------------------------------
(* accept *)

\* The datagram socket, in a step of a task that is in accept or is to be.
LEMMA AsideOfDgram ==
    ASSUME SInv, NEW t \in Task, Beside(t), op[t] # "recvfrom", op'[t] # "recvfrom",
           t_blockedby'[t] # "dgram", UNCHANGED dgramVars,
           \A u \in (Task \cup {None}) \ {t} : u \in slip => u \in slip',
           None \in slip' => None \in slip
    PROVE  DgramInv'
  <1>1. TouchedIn("recvfrom")
    BY BesideTouches DEF OpName, OwnCall
  <1>2. \A u \in Task : op[u] = "recvfrom" => u # t /\ t_sig'[u] = t_sig[u]
    BY DEF Beside
  <1>3. \A u \in Task : t_blockedby'[u] = "dgram" => t_blockedby[u] = "dgram"
    BY DEF Beside, NoObj
  <1>4. None # t
    BY DEF Task, None
  <1> QED BY <1>1, <1>2, <1>3, <1>4, DgramFrame

LEMMA AcceptStep ==
    ASSUME SInv, NEW t \in Task, NEW sec \in Int, InProgram(t), accept(t, sec)
    PROVE  SInv'
  <1>1. /\ current = t /\ co[t] = "run" /\ op[t] = "none"
        /\ enters(t, "accept") /\ UNCHANGED <<loopVars, now>>
        /\ acc' = [acc EXCEPT ![t] = [sec |-> sec, waited |-> FALSE]]
        /\ UNCHANGED <<ch_open, ch_pending, ch_task, backlog, server_edge, dgramVars, slip>>
    BY DEF InProgram, accept, SInv, Sched, OpInside
  <1>2. Sched' /\ Beside(t)
    BY <1>1, SchedEnter DEF OpName, SInv
  <1>3. /\ co'[t] = "back" /\ op'[t] = "accept" /\ t_blockedby' = t_blockedby
        /\ acc'[t] = [sec |-> sec, waited |-> FALSE]
        /\ \A u \in Task \ {t} : acc'[u] = acc[u]
    BY <1>1 DEF enters, readyVars, SInv, Sched, IInv, TypeOK, SockInv, SockTypeOK
  <1>4. DgramInv'
    <2>1. t_blockedby[t] # "dgram"
      BY <1>1 DEF SInv, SockInv, DgramInv
    <2> QED BY <1>1, <1>2, <1>3, <2>1, AsideOfDgram
  <1>5. ServerInv'
    <2>1. ch_task # None => /\ ch_task \in Task \ {t}
                            /\ \/ op'[ch_task] = "accept" /\ acc'[ch_task].waited
                               \/ co'[ch_task] = "dead"
      BY <1>1, <1>2, <1>3 DEF Beside, SInv, SockInv, SockTypeOK, ServerInv
    <2>2. \A u \in Task \ {t} : op'[u] = "accept" =>
              op[u] = "accept" /\ (Awaits(u)' => Awaits(u)) /\ (Woken(u)' => Woken(u))
      BY <1>2 DEF Beside, Untouched, Awaits, Woken, OwnCall
    <2>3. ~Awaits(t)' /\ ~acc'[t].waited
      BY <1>3 DEF Awaits
    <2> QED BY <1>1, <1>3, <2>1, <2>2, <2>3 DEF ServerInv, SInv, SockInv
  <1>6. SockTypeOK'
    BY <1>1 DEF SInv, SockInv, SockTypeOK, dgramVars
  <1> QED BY <1>2, <1>4, <1>5, <1>6 DEF SInv, SockInv

\* One round of accept: whom the handler knows afterwards, and what is left
\* for it to report.  Others that accept at the same time are in slip.
LEMMA RoundOfServer ==
    ASSUME SInv, NEW t \in Task, co[t] = "back", op[t] = "accept", Beside(t),
           slip' = (slip \ {t}) \cup competing(t), ~ch_pending' => backlog' = 0 \/ server_edge',
           \A u \in Task \ {t} : acc'[u] = acc[u],
           \/ /\ ch_task' = waiter(t) /\ ~acc'[t].waited
              /\ op'[t] = "accept" => co'[t] = "back"
           \/ /\ ch_task' = t /\ ~ch_pending' /\ acc'[t].waited
              /\ \/ co'[t] = "parked" /\ op'[t] = "accept" /\ ~t_prev'[t]
                 \/ co'[t] = "dead" /\ op'[t] = "none"
    PROVE  ServerInv'
  <1>1. ASSUME ch_task' # None
        PROVE  \/ op'[ch_task'] = "accept" /\ acc'[ch_task'].waited
               \/ co'[ch_task'] = "dead"
    <2>1. CASE ch_task' = t
      <3>1. t # None
        BY DEF Task, None
      <3>2. ~(ch_task' = waiter(t) /\ ~acc'[t].waited)
        BY <2>1, <3>1 DEF waiter, SInv, SockInv, ServerInv
      <3> QED BY <2>1, <3>2
    <2>2. CASE ch_task' # t
      <3>1. ch_task' = ch_task /\ ch_task \in Task \ {t}
        BY <1>1, <2>2 DEF waiter, SInv, SockInv, SockTypeOK
      <3> QED BY <1>1, <3>1 DEF Beside, SInv, SockInv, ServerInv
    <2> QED BY <2>1, <2>2
  <1>2. ASSUME NEW u \in Task \ slip', op'[u] = "accept"
        PROVE  /\ Awaits(u)' => ch_task' = u /\ ~ch_pending'
               /\ acc'[u].waited /\ Woken(u)' => ch_pending' \/ ~ch_open'
    <2>1. u = t
      BY <1>2 DEF Beside, competing
    <2> QED BY <1>2, <2>1 DEF Awaits, Woken
  <1> QED BY <1>1, <1>2 DEF ServerInv

LEMMA AcceptRoundStep ==
    ASSUME SInv, KillOrJoin, TaskAssumption, SocketAssumption, NEW t \in Task, accept_round(t)
    PROVE  SInv'
  <1>1. /\ current = t /\ co[t] = "back" /\ op[t] = "accept"
        /\ slip' = (slip \ {t}) \cup competing(t)
        /\ UNCHANGED <<ch_open, server_edge, conns, dgramVars, loopVars, now>>
    BY DEF accept_round
  <1>2. /\ acc \in [Task -> [sec : Int, waited : BOOLEAN]] /\ ch_task \in Task \cup {None}
        /\ backlog \in Nat /\ ch_pending \in BOOLEAN /\ ch_open \in BOOLEAN /\ acc[t].sec \in Int
    BY DEF SInv, SockInv, SockTypeOK
  <1>4. t_blockedby[t] # "dgram"
    BY <1>1 DEF SInv, SockInv, DgramInv
  <1>5. ASSUME Sched', Beside(t), op'[t] # "recvfrom", t_blockedby'[t] # "dgram"
        PROVE  DgramInv'
    <2>1. /\ \A u \in (Task \cup {None}) \ {t} : u \in slip => u \in slip'
          /\ None \in slip' => None \in slip
      BY <1>1 DEF competing, Task, None
    <2>2. op[t] # "recvfrom" /\ UNCHANGED dgramVars
      BY <1>1
    <2> QED BY <1>5, <2>1, <2>2, AsideOfDgram
  <1>6. ASSUME accept_returns(t), ch_pending' \in BOOLEAN, backlog' \in Nat,
               ~ch_pending' => backlog' = 0 \/ server_edge'
        PROVE  SInv'
    <2>1. /\ returns(t) /\ UNCHANGED readyVars
          /\ acc' = [acc EXCEPT ![t] = NoAccept] /\ ch_task' = waiter(t)
      BY <1>6 DEF accept_returns
    <2>2. Sched' /\ Beside(t) /\ co'[t] = "run" /\ op'[t] = "none"
      BY <1>1, <2>1, SchedReturn DEF readyVars, SInv
    <2>3. /\ acc' \in [Task -> [sec : Int, waited : BOOLEAN]] /\ ~acc'[t].waited
          /\ \A u \in Task \ {t} : acc'[u] = acc[u]
      BY <1>2, <2>1 DEF NoAccept
    <2>4. ServerInv'
      BY <1>1, <1>6, <2>1, <2>2, <2>3, RoundOfServer
    <2>5. DgramInv'
      BY <1>4, <1>5, <2>1, <2>2 DEF readyVars
    <2>6. SockTypeOK'
      BY <1>1, <1>2, <1>6, <2>1, <2>3 DEF SInv, SockInv, SockTypeOK, dgramVars, waiter
    <2> QED BY <2>2, <2>4, <2>5, <2>6 DEF SInv, SockInv
  <1>7. ~ch_pending => backlog = 0 \/ server_edge
    BY DEF SInv, SockInv, ServerInv
  <1>8. CASE accept_ends(t)
    BY <1>1, <1>2, <1>6, <1>7, <1>8 DEF accept_ends
  <1>9. CASE accept_one(t)
    BY <1>2, <1>6, <1>9 DEF accept_one, pending_after
  <1>10. CASE accept_again(t)
    <2>1. /\ backlog' \in {backlog - 1, backlog} /\ backlog > 0 /\ ch_pending' /\ ch_pending' \in BOOLEAN
          /\ acc' = [acc EXCEPT ![t].waited = FALSE] /\ ch_task' = waiter(t)
          /\ UNCHANGED <<readyVars, taskVars, coVars>>
      BY <1>2, <1>10 DEF accept_again, pending_after
    <2>2. UNCHANGED vars
      BY <1>1, <2>1 DEF vars
    <2>3. Sched' /\ UNCHANGED <<co, op, ret, t_sig, t_prev, t_err, t_blockedby>>
      BY <2>2, SchedStill DEF SInv
    <2>4. Beside(t)
      BY <2>3 DEF Beside, Untouched
    <2>5. /\ acc' \in [Task -> [sec : Int, waited : BOOLEAN]] /\ ~acc'[t].waited
          /\ \A u \in Task \ {t} : acc'[u] = acc[u]
      BY <1>2, <2>1
    <2>6. ServerInv'
      BY <1>1, <2>1, <2>3, <2>4, <2>5, RoundOfServer
    <2>7. DgramInv'
      BY <1>1, <1>4, <1>5, <2>3, <2>4
    <2>8. backlog' \in Nat
      BY <1>2, <2>1
    <2>9. SockTypeOK'
      BY <1>1, <1>2, <2>1, <2>5, <2>8 DEF SInv, SockInv, SockTypeOK, dgramVars, waiter
    <2> QED BY <2>3, <2>6, <2>7, <2>9 DEF SInv, SockInv
  <1>11. CASE accept_waits(t)
    <2>1. ch_pending' = FALSE /\ backlog' = backlog /\ (backlog' = 0 \/ server_edge')
      BY <1>1, <1>7, <1>11 DEF accept_waits
    <2>2. CASE accept_returns(t)
      BY <1>2, <1>6, <2>1, <2>2
    <2>3. CASE /\ ch_task' = t /\ acc' = [acc EXCEPT ![t].waited = TRUE]
               /\ do_yield(t, "accept", acc[t].sec, "server", t_nsubs)
      <3>1. /\ Sched' /\ Beside(t)
            /\ \/ /\ co'[t] = "dead" /\ op'[t] = "none" /\ t_blockedby'[t] = t_blockedby[t]
               \/ /\ co'[t] = "parked" /\ op'[t] = "accept" /\ t_blockedby'[t] = "server"
                  /\ ~t_prev'[t] /\ ~t_sig'[t]
        BY <1>1, <1>2, <2>3, SchedYield DEF SInv, OpName, OwnCall, SocketAssumption
      <3>2. /\ acc' \in [Task -> [sec : Int, waited : BOOLEAN]] /\ acc'[t].waited
            /\ \A u \in Task \ {t} : acc'[u] = acc[u]
        BY <1>2, <2>3
      <3>3. ServerInv'
        BY <1>1, <2>1, <2>3, <3>1, <3>2, RoundOfServer
      <3>4. DgramInv'
        BY <1>4, <1>5, <3>1
      <3>5. SockTypeOK'
        BY <1>1, <1>2, <2>1, <2>3, <3>2 DEF SInv, SockInv, SockTypeOK, dgramVars
      <3> QED BY <3>1, <3>3, <3>4, <3>5 DEF SInv, SockInv
    <2> QED BY <1>11, <2>2, <2>3 DEF accept_waits
  <1> QED BY <1>8, <1>9, <1>10, <1>11 DEF accept_round

---------------------------------------------------------------------------
(* close *)

\* Whom the handler of the server channel knows is suspended, or has ended.
LEMMA KnownSuspended ==
    ASSUME SInv, ch_task # None, ch_task # current
    PROVE  /\ ch_task \in Task /\ co[ch_task] \in {"parked", "dead"}
           /\ op[ch_task] \in {"accept", "none"}
  <1>1. ch_task \in Task
    BY DEF SInv, SockInv, SockTypeOK
  <1>2. co[ch_task] \notin {"back", "handling"}
    BY <1>1 DEF SInv, Sched, IInv, OnePlace
  <1> QED BY <1>1, <1>2 DEF SInv, Sched, OpInside, SockInv, ServerInv

LEMMA CloseStep ==
    ASSUME SInv, NEW t \in Task, InProgram(t), close(t)
    PROVE  SInv'
  <1>1. /\ current = t /\ op[t] = "none" /\ t # None
        /\ wake_both(ch_task, 0, None, 0) /\ batch' = batch
        /\ ch_open' = FALSE /\ backlog' = 0 /\ server_edge' = FALSE /\ ch_task' = None
        /\ slip' = slip \cup {u \in Task : u = ch_task /\ Linked(u)}
        /\ UNCHANGED <<ch_pending, acc, conns, dgramVars, taskVars, coVars, loopVars, now>>
    BY DEF InProgram, close, wake, loopVars, SInv, Sched, OpInside, Task, None
  <1>2. ch_task \in Task \cup {None} /\ 0 \in Errno
    BY DEF SInv, SockInv, SockTypeOK, Errno
  <1>3. ch_task # None => /\ co[ch_task] \in {"parked", "dead"} /\ op[ch_task] \in {"accept", "none"}
    <2>1. ch_task # current
      <3>1. t \in Task /\ co[t] = "run" /\ op[t] = "none"
        BY <1>1 DEF InProgram
      <3> QED BY <1>1, <3>1 DEF SInv, SockInv, ServerInv
    <2> QED BY <2>1, KnownSuspended
  <1>4. Sched'
    BY <1>1, <1>2, <1>3, SchedCall DEF SInv, loopVars
  <1>5. \A v \in Task :
            /\ t_prev'[v] <=> v \in Roused(ch_task, None) \/ t_prev[v]
            /\ v \notin Roused(ch_task, None) => /\ t_err'[v] = t_err[v]
                                                 /\ t_blockedby'[v] = t_blockedby[v]
            /\ v \in Roused(ch_task, None) => t_err'[v] = 0 /\ t_blockedby'[v] = NoObj
    BY <1>1, <1>2, WakeBoth DEF SInv, Sched
  <1>6. UNCHANGED <<co, op, ret, t_sig>>
    BY <1>1 DEF coVars, taskVars
  <1>7. \A v \in Task : v \in Roused(ch_task, None) => v = ch_task /\ ~t_prev[v]
    BY DEF Roused, Task, None
  <1>8. DgramInv'
    <2>1. TouchedIn("recvfrom")
      <3>1. ASSUME NEW u \in Task, op[u] = "recvfrom"
            PROVE  Untouched(u)
        <4>1. u \notin Roused(ch_task, None)
          BY <1>3, <1>7, <3>1 DEF Task, None
        <4>2. t_prev[u] \in BOOLEAN /\ t_prev'[u] \in BOOLEAN
          BY <1>4 DEF SInv, Sched, IInv, TypeOK
        <4>3. t_prev'[u] = t_prev[u]
          BY <1>5, <4>1, <4>2
        <4> QED BY <1>5, <1>6, <4>1, <4>3 DEF Untouched
      <3> QED BY <1>6, <3>1 DEF TouchedIn, Touch
    <2>2. \A u \in Task : t_blockedby'[u] = "dgram" => t_blockedby[u] = "dgram"
      BY <1>5 DEF NoObj
    <2> QED BY <1>1, <1>6, <2>1, <2>2, DgramFrame DEF Task, None
  <1>9. ServerInv'
    <2> SUFFICES ASSUME NEW u \in Task \ slip', op[u] = "accept"
                 PROVE  ~Awaits(u)'
      BY <1>1, <1>6 DEF ServerInv
    <2>1. /\ t_prev[u] \in BOOLEAN /\ t_sig[u] \in BOOLEAN
          /\ co[u] = "parked" /\ t_sig[u] => t_prev[u]
      BY Flags DEF SInv, Sched
    <2>2. u \in Task \ slip
      BY <1>1
    <2>3. CASE u = ch_task
      <3>1. ~t_prev[u] /\ u \in Roused(ch_task, None)
        BY <1>1, <2>3 DEF Linked, Roused, Task, None
      <3> QED BY <1>3, <1>5, <1>6, <2>1, <2>3, <3>1 DEF Awaits, Task, None
    <2>4. CASE u # ch_task
      <3>1. t_prev'[u] = t_prev[u]
        BY <1>5, <1>7, <2>1, <2>4, <1>4 DEF Sched, IInv, TypeOK
      <3>2. ~Awaits(u)
        BY <2>2, <2>4 DEF SInv, SockInv, ServerInv
      <3> QED BY <1>6, <3>1, <3>2 DEF Awaits
    <2> QED BY <2>3, <2>4
  <1>10. SockTypeOK'
    BY <1>1 DEF SInv, SockInv, SockTypeOK, dgramVars
  <1> QED BY <1>4, <1>8, <1>9, <1>10 DEF SInv, SockInv

---------------------------------------------------------------------------
(* The datagram socket *)

\* Only the task that has the socket is in recvfrom.
LEMMA OnlyUser ==
    ASSUME SInv, NEW u \in Task, op[u] = "recvfrom" \/ t_blockedby[u] = "dgram"
    PROVE  u = t_dgramfd /\ op[u] = "recvfrom"
  BY DEF SInv, SockInv, DgramInv

LEMMA SetDgramfdStep ==
    ASSUME SInv, KillOrJoin, TaskAssumption, NEW t \in Task, set_dgramfd(t)
    PROVE  SInv'
  <1>1. /\ t_dgramfd = None /\ t_dgramfd' = t /\ t_rdgram' = FALSE
        /\ dgram_edge' = (queue # <<>> \/ so_error)
        /\ UNCHANGED <<queue, so_error, dgrams, serverVars, slip, vars>>
    BY DEF set_dgramfd
  <1>2. /\ Sched' /\ UNCHANGED <<co, op, ret, t_sig, t_prev, t_err, t_blockedby>>
    BY <1>1, SchedStill DEF SInv
  <1>3. \A u \in Task : op[u] # "recvfrom" /\ t_blockedby[u] # "dgram"
    BY <1>1, OnlyUser DEF Task, None
  <1>4. DgramInv'
    BY <1>1, <1>2, <1>3 DEF DgramInv, navaiable
  <1>5. ServerInv'
    BY <1>1, ServerStill
  <1>6. SockTypeOK'
    BY <1>1 DEF SInv, SockInv, SockTypeOK, serverVars
  <1> QED BY <1>2, <1>4, <1>5, <1>6 DEF SInv, SockInv

\* What recvfrom leaves of the datagrams.
LEMMA Received ==
    ASSUME SockTypeOK, NEW err, lsocket_recvfrom(err)
    PROVE  /\ queue' \in Seq({"data", "empty"}) /\ so_error' \in BOOLEAN
           /\ ~navaiable => UNCHANGED <<queue, so_error>>
  <1>1. queue \in Seq({"data", "empty"}) /\ so_error \in BOOLEAN
    BY DEF SockTypeOK
  <1>2. queue # <<>> => Tail(queue) \in Seq({"data", "empty"})
    BY <1>1, HeadTailProperties
  <1> QED BY <1>1, <1>2 DEF lsocket_recvfrom, navaiable

LEMMA RecvfromOneStep ==
    ASSUME SInv, KillOrJoin, TaskAssumption, NEW t \in Task, InProgram(t), recvfrom_one(t)
    PROVE  SInv'
  <1>1. /\ op[t] = "none" /\ t = t_dgramfd /\ t_rdgram /\ lsocket_recvfrom("none")
        /\ UNCHANGED <<t_dgramfd, t_rdgram, dgram_edge, dgrams, serverVars, slip, vars>>
    BY DEF InProgram, recvfrom_one, SInv, Sched, OpInside
  <1>2. /\ Sched' /\ UNCHANGED <<co, op, ret, t_sig, t_prev, t_err, t_blockedby>>
    BY <1>1, SchedStill DEF SInv
  <1>3. \A u \in Task : op[u] # "recvfrom" /\ t_blockedby[u] # "dgram"
    BY <1>1, OnlyUser
  <1>4. DgramInv'
    BY <1>1, <1>2, <1>3 DEF DgramInv
  <1>5. ServerInv'
    BY <1>1, ServerStill
  <1>6. SockTypeOK'
    BY <1>1, Received DEF SInv, SockInv, SockTypeOK, serverVars
  <1> QED BY <1>2, <1>4, <1>5, <1>6 DEF SInv, SockInv

\* The server channel, in a step of the task that has the datagram socket.
LEMMA AsideOfServer ==
    ASSUME SInv, NEW t \in Task, Beside(t), current = t, op[t] # "accept", op'[t] # "accept",
           UNCHANGED serverVars, \A u \in Task \ {t} : u \in slip => u \in slip'
    PROVE  ServerInv'
  <1>1. TouchedIn("accept")
    BY BesideTouches DEF OpName, OwnCall
  <1>2. co[t] # "dead"
    BY DEF SInv, Sched, IInv, OnePlace
  <1>3. \A u \in Task : /\ co[u] = "dead" => co'[u] = "dead"
                        /\ op[u] = "accept" => u # t /\ t_sig'[u] = t_sig[u]
    BY <1>2 DEF Beside
  <1> QED BY <1>1, <1>3, ServerFrame

LEMMA RecvfromWaitsStep ==
    ASSUME SInv, KillOrJoin, TaskAssumption, SocketAssumption, NEW t \in Task, NEW sec \in Int,
           InProgram(t), recvfrom_waits(t, sec)
    PROVE  SInv'
  <1>1. /\ current = t /\ co[t] = "run" /\ op[t] = "none" /\ t = t_dgramfd
        /\ do_yield(t, "recvfrom", sec, "dgram", t_nsubs) /\ UNCHANGED <<loopVars, now>>
        /\ t_rdgram' = FALSE /\ UNCHANGED <<t_dgramfd, dgram_edge, dgrams, serverVars>>
    BY DEF InProgram, recvfrom_waits, SInv, Sched, OpInside
  <1>2. \/ ~t_rdgram /\ UNCHANGED <<queue, so_error, slip>>
        \/ ~navaiable /\ UNCHANGED <<queue, so_error, slip>>
        \/ slip' = slip \cup {None} /\ queue' = queue /\ so_error' = FALSE
    BY DEF recvfrom_waits, lsocket_recvfrom
  <1>3. /\ Sched' /\ Beside(t)
        /\ \/ /\ co'[t] = "dead" /\ op'[t] = "none" /\ t_blockedby'[t] = t_blockedby[t]
           \/ /\ co'[t] = "parked" /\ op'[t] = "recvfrom" /\ t_blockedby'[t] = "dgram"
              /\ ~t_prev'[t] /\ ~t_sig'[t]
    BY <1>1, SchedYield DEF SInv, OpName, OwnCall, SocketAssumption
  <1>4. \A u \in Task : op[u] # "recvfrom" /\ t_blockedby[u] # "dgram"
    BY <1>1, OnlyUser
  <1>5. \A u \in Task \ {t} : op'[u] # "recvfrom" /\ t_blockedby'[u] # "dgram"
    BY <1>3, <1>4 DEF Beside, NoObj
  <1>6. ~navaiable' \/ dgram_edge' \/ None \in slip'
    BY <1>1, <1>2 DEF SInv, SockInv, DgramInv, navaiable, Task, None
  <1>7. DgramInv'
    BY <1>1, <1>3, <1>4, <1>5, <1>6 DEF DgramInv, Woken
  <1>8. ServerInv'
    BY <1>1, <1>2, <1>3, AsideOfServer
  <1>9. SockTypeOK'
    BY <1>1, <1>2 DEF SInv, SockInv, SockTypeOK, serverVars
  <1> QED BY <1>3, <1>7, <1>8, <1>9 DEF SInv, SockInv

LEMMA RecvfromReturnStep ==
    ASSUME SInv, NEW t \in Task, recvfrom_return(t)
    PROVE  SInv'
  <1>1. /\ current = t /\ co[t] = "back" /\ op[t] = "recvfrom" /\ returns(t)
        /\ t_blockedby' = [t_blockedby EXCEPT ![t] = NoObj] /\ slip' = slip \ {t}
        /\ UNCHANGED <<ready, t_prev, t_err, rb_key, t_dgramfd, t_rdgram, dgram_edge, dgrams,
                       serverVars, loopVars, now>>
    BY DEF recvfrom_return
  <1>2. /\ queue' \in Seq({"data", "empty"}) /\ so_error' \in BOOLEAN
        /\ ~navaiable => UNCHANGED <<queue, so_error>>
    <2>1. SockTypeOK
      BY DEF SInv, SockInv
    <2>2. CASE \E err : lsocket_recvfrom(err)
      BY <2>1, <2>2, Received
    <2>3. CASE UNCHANGED <<queue, so_error>>
      BY <2>1, <2>3 DEF SockTypeOK
    <2> QED BY <2>2, <2>3 DEF recvfrom_return
  <1>3. Sched' /\ Beside(t) /\ co'[t] = "run" /\ op'[t] = "none" /\ t_sig'[t] = t_sig[t]
    BY <1>1, SchedReturn DEF SInv
  <1>4. \A u \in Task : op'[u] # "recvfrom" /\ t_blockedby'[u] # "dgram"
    <2>1. \A u \in Task \ {t} : op[u] # "recvfrom" /\ t_blockedby[u] # "dgram"
      BY <1>1, OnlyUser
    <2>2. t_blockedby'[t] = NoObj
      BY <1>1 DEF SInv, Sched, IInv, TypeOK
    <2> QED BY <1>3, <2>1, <2>2 DEF Beside, NoObj
  <1>5. t_dgramfd' # None /\ ~t_rdgram' /\ None \notin slip' => ~navaiable' \/ dgram_edge'
    BY <1>1, <1>2 DEF SInv, SockInv, DgramInv, navaiable, Task, None
  <1>6. DgramInv'
    BY <1>4, <1>5 DEF DgramInv
  <1>7. ServerInv'
    BY <1>1, <1>3, AsideOfServer
  <1>8. SockTypeOK'
    BY <1>1, <1>2 DEF SInv, SockInv, SockTypeOK, serverVars
  <1> QED BY <1>3, <1>6, <1>7, <1>8 DEF SInv, SockInv

---------------------------------------------------------------------------
(* The handlers of one poll *)

\* When the loop polls, no task runs and none is on its way.
LEMMA NobodyAtPoll ==
    ASSUME Sched, Idle("poll")
    PROVE  \A v \in Task : /\ ~t_prev[v] /\ co[v] \notin {"run", "back", "handling"}
                           /\ co[v] = "parked" => ~t_sig[v]
  <1>1. batch = <<>> /\ ready = <<>>
    BY DEF Sched, PhaseInv, Idle
  <1>2. Queue = <<>>
    BY <1>1, EmptySeq, ConcatEmptySeq DEF Queue
  <1>3. \A v \in Task : ~t_prev[v]
    BY <1>2, EmptySeq DEF Sched, IInv, ListsMatch, Within
  <1>4. \A v \in Task : current # v
    BY DEF Idle, Task, None
  <1>5. \A v \in Task : co[v] \notin {"run", "back", "handling"}
    BY <1>4 DEF Sched, IInv, OnePlace
  <1> QED BY <1>3, <1>5 DEF Sched, IInv, SignalsPending

\* The handlers wake those they know, and nobody else.
LEMMA HandlersWake ==
    ASSUME SInv, on_events,
           NEW s, s = only_if(ServerDue, ch_task),
           NEW d, d = only_if(DgramDue /\ Blocked, t_dgramfd)
    PROVE  /\ Sched' /\ UNCHANGED <<co, op, ret, t_sig>>
           /\ \A v \in Task :
                  /\ t_prev'[v] <=> v \in {s, d}
                  /\ v \in {s, d} => t_blockedby'[v] = NoObj
                  /\ v \notin {s, d} => t_blockedby'[v] = t_blockedby[v]
  <1>1. /\ Idle("poll")
        /\ wake_both(s, 0, d, 0) \/ wake_both(d, 0, s, 0)
        /\ at' = "resume_list" /\ caller' = "events" /\ batch' = batch
        /\ UNCHANGED <<taskVars, coVars, batch, now>>
    BY DEF on_events
  <1>2. s \in Task \cup {None} /\ d \in Task \cup {None} /\ 0 \in Errno
    BY DEF only_if, SInv, SockInv, SockTypeOK, Errno
  <1>3. \A v \in Task : /\ ~t_prev[v] /\ co[v] \notin {"run", "back", "handling"}
                        /\ co[v] = "parked" => ~t_sig[v]
    BY <1>1, NobodyAtPoll DEF SInv
  <1>4. s # None => co[s] \in {"parked", "dead"} /\ op[s] # "join"
    <2>1. s # None => s = ch_task /\ ch_task \in Task /\ ch_task # current
      BY <1>1, <1>2 DEF only_if, Idle
    <2> QED BY <2>1, KnownSuspended
  <1>5. d # None => co[d] \in {"parked", "dead"} /\ op[d] # "join"
    <2>1. d # None => d \in Task /\ t_blockedby[d] = "dgram"
      BY <1>2 DEF only_if, Blocked
    <2> QED BY <1>3, <2>1 DEF SInv, SockInv, DgramInv
  <1>6. \A v \in {s, d} \ {None} : op[v] # "join" /\ co[v] \in {"parked", "dead"}
    BY <1>4, <1>5
  <1>7. Roused(s, d) = {s, d} \ {None} /\ Roused(d, s) = {s, d} \ {None}
    BY <1>2, <1>3 DEF Roused
  <1>8. UNCHANGED <<co, op, ret, t_sig>>
    BY <1>1 DEF coVars, taskVars
  <1>9. \A v \in Task : v # None
    BY DEF Task, None
  <1>10. CASE wake_both(s, 0, d, 0)
    <2>1. Sched'
      BY <1>1, <1>2, <1>6, <1>10, SchedCall DEF SInv
    <2>2. \A v \in Task :
              /\ t_prev'[v] <=> v \in Roused(s, d) \/ t_prev[v]
              /\ v \notin Roused(s, d) => t_blockedby'[v] = t_blockedby[v]
              /\ v \in Roused(s, d) => t_blockedby'[v] = NoObj
      BY <1>1, <1>2, <1>10, WakeBoth DEF SInv, Sched
    <2> QED BY <1>3, <1>7, <1>8, <1>9, <2>1, <2>2
  <1>11. CASE wake_both(d, 0, s, 0)
    <2>1. Sched'
      BY <1>1, <1>2, <1>6, <1>11, SchedCall DEF SInv
    <2>2. \A v \in Task :
              /\ t_prev'[v] <=> v \in Roused(d, s) \/ t_prev[v]
              /\ v \notin Roused(d, s) => t_blockedby'[v] = t_blockedby[v]
              /\ v \in Roused(d, s) => t_blockedby'[v] = NoObj
      BY <1>1, <1>2, <1>11, WakeBoth DEF SInv, Sched
    <2> QED BY <1>3, <1>7, <1>8, <1>9, <2>1, <2>2
  <1> QED BY <1>1, <1>10, <1>11

LEMMA EventsStep ==
    ASSUME SInv, on_events
    PROVE  SInv'
  <1> DEFINE s == only_if(ServerDue, ch_task)
             d == only_if(DgramDue /\ Blocked, t_dgramfd)
  <1>1. /\ Sched' /\ UNCHANGED <<co, op, ret, t_sig>>
        /\ \A v \in Task :
               /\ t_prev'[v] <=> v \in {s, d}
               /\ v \in {s, d} => t_blockedby'[v] = NoObj
               /\ v \notin {s, d} => t_blockedby'[v] = t_blockedby[v]
    BY HandlersWake
  <1>2. \A v \in Task : /\ ~t_prev[v] /\ co[v] \notin {"run", "back", "handling"}
                        /\ co[v] = "parked" => ~t_sig[v]
    BY NobodyAtPoll DEF SInv, on_events
  <1>3. /\ server_edge' = FALSE /\ dgram_edge' = FALSE
        /\ t_rdgram' = (DgramDue \/ t_rdgram)
        /\ slip' = IF DgramDue THEN slip \ {None} ELSE slip
        /\ UNCHANGED <<ch_open, acc, backlog, conns, t_dgramfd, queue, so_error, dgrams>>
    BY DEF on_events, dgram_handler
  <1>4. IF ServerDue THEN ch_pending' = TRUE /\ ch_task' = None
        ELSE UNCHANGED <<ch_pending, ch_task>>
    BY DEF on_events, server_handler, marked
  <1>5. \A v \in Task : v # None
    BY DEF Task, None
  <1>6. slip' \cap Task = slip \cap Task
    BY <1>3, <1>5
  <1>7. \A u \in Task : op[u] = "accept" => u # d
    <2>1. d \in Task => op[d] = "recvfrom"
      BY <1>5 DEF only_if, Blocked, SInv, SockInv, DgramInv
    <2> QED BY <2>1
  <1>8. \A u \in Task : op[u] = "recvfrom" => u # s
    BY <1>2, <1>5 DEF only_if, SInv, SockInv, ServerInv, Sched, OpInside
  <1>9. ServerInv'
    <2>1. ch_task' # None => \/ op'[ch_task'] = "accept" /\ acc'[ch_task'].waited
                             \/ co'[ch_task'] = "dead"
      BY <1>1, <1>3, <1>4 DEF SInv, SockInv, ServerInv
    <2>2. ~ch_pending' => backlog' = 0 \/ server_edge'
      BY <1>3, <1>4 DEF ServerDue, SInv, SockInv, SockTypeOK, ServerInv
    <2>3. ASSUME NEW u \in Task \ slip', op'[u] = "accept"
          PROVE  /\ Awaits(u)' => ch_task' = u /\ ~ch_pending'
                 /\ acc'[u].waited /\ Woken(u)' => ch_pending' \/ ~ch_open'
      <3>1. u \in Task \ slip /\ op[u] = "accept" /\ u # d
        BY <1>1, <1>6, <1>7, <2>3
      <3>2. ASSUME Awaits(u)'
            PROVE  ch_task' = u /\ ~ch_pending'
        <4>1. co[u] = "parked" /\ ~t_prev'[u]
          BY <1>1, <1>2, <3>2 DEF Awaits
        <4>2. ch_task = u /\ ~ch_pending
          BY <1>2, <3>1, <4>1 DEF Awaits, SInv, SockInv, ServerInv
        <4>3. ~ServerDue
          BY <1>1, <4>1, <4>2 DEF only_if
        <4> QED BY <1>4, <4>2, <4>3
      <3>3. ASSUME Woken(u)'
            PROVE  ch_pending'
        <4>1. u = s
          BY <1>1, <1>2, <3>1, <3>3 DEF Woken
        <4> QED BY <1>4, <1>5, <4>1 DEF only_if
      <3> QED BY <3>2, <3>3
    <2> QED BY <2>1, <2>2, <2>3 DEF ServerInv
  <1>10. DgramInv'
    <2>1. t_dgramfd' # None /\ ~t_rdgram' /\ None \notin slip' => ~navaiable' \/ dgram_edge'
      BY <1>3 DEF DgramDue, navaiable, SInv, SockInv, DgramInv
    <2>2. ASSUME NEW u \in Task, t_blockedby'[u] = "dgram"
          PROVE  op'[u] = "recvfrom" /\ co'[u] \in {"parked", "back"} /\ ~t_prev'[u]
      <3>1. u \notin {s, d} /\ t_blockedby[u] = "dgram"
        BY <1>1, <2>2 DEF NoObj
      <3> QED BY <1>1, <3>1 DEF SInv, SockInv, DgramInv
    <2>3. ASSUME NEW u \in Task, op'[u] = "recvfrom"
          PROVE  u = t_dgramfd' /\ (t_sig'[u] \/ co'[u] = "handling" => u \in slip')
      BY <1>1, <1>3, <1>6, <2>3 DEF SInv, SockInv, DgramInv
    <2>4. ASSUME NEW u \in Task \ slip', op'[u] = "recvfrom"
          PROVE  /\ co'[u] = "parked" /\ ~t_prev'[u] => t_blockedby'[u] = "dgram" /\ ~t_rdgram'
                 /\ Woken(u)' => queue' # <<>> \/ so_error'
      <3>1. u \in Task \ slip /\ op[u] = "recvfrom" /\ u # s /\ u = t_dgramfd
        BY <1>1, <1>6, <1>8, <2>4 DEF SInv, SockInv, DgramInv
      <3>2. ASSUME co'[u] = "parked", ~t_prev'[u]
            PROVE  t_blockedby'[u] = "dgram" /\ ~t_rdgram'
        <4>1. u # d
          BY <1>1, <3>2
        <4>2. t_blockedby[u] = "dgram" /\ ~t_rdgram
          BY <1>1, <1>2, <3>1, <3>2 DEF SInv, SockInv, DgramInv
        <4>3. ~DgramDue
          BY <1>5, <3>1, <4>1, <4>2 DEF only_if, Blocked
        <4> QED BY <1>1, <1>3, <3>1, <4>1, <4>2, <4>3
      <3>3. ASSUME Woken(u)'
            PROVE  queue' # <<>> \/ so_error'
        <4>1. u = d
          BY <1>1, <1>2, <3>1, <3>3 DEF Woken
        <4> QED BY <1>3, <1>5, <4>1 DEF only_if, DgramDue
      <3> QED BY <3>2, <3>3
    <2> QED BY <2>1, <2>2, <2>3, <2>4 DEF DgramInv
  <1>11. SockTypeOK'
    <2>1. DgramDue \in BOOLEAN
      BY DEF DgramDue, SInv, SockInv, SockTypeOK
    <2>2. t_rdgram' \in BOOLEAN
      BY <1>3
    <2> QED BY <1>3, <1>4, <2>2 DEF SInv, SockInv, SockTypeOK
  <1> QED BY <1>1, <1>9, <1>10, <1>11 DEF SInv, SockInv

---------------------------------------------------------------------------
(* Every step *)

LEMMA SockInitInv ==
    ASSUME TaskAssumption, SocketAssumption, SockInit
    PROVE  SInv
  <1>1. IInv /\ JoinInv
    BY InitInvariant, JoinInit DEF SockInit
  <1>2. Childless /\ PhaseInv /\ OpInside
    BY <1>1 DEF SockInit, Init, Childless, PhaseInv, JoinInv
  <1>3. SockTypeOK
    <2>1. <<>> \in Seq({"data", "empty"})
      BY EmptySeq
    <2>2. acc \in [Task -> [sec : Int, waited : BOOLEAN]]
      BY DEF SockInit, NoAccept
    <2> QED BY <2>1, <2>2 DEF SockInit, SockTypeOK
  <1>4. \A t \in Task : op[t] = "none" /\ t_blockedby[t] = NoObj
    BY DEF SockInit, Init
  <1>5. ServerInv /\ DgramInv
    BY <1>4 DEF SockInit, ServerInv, DgramInv, NoObj
  <1> QED BY <1>1, <1>2, <1>3, <1>5 DEF SInv, SockInv, Sched

LEMMA SockStep ==
    ASSUME SInv, KillOrJoin, TaskAssumption, SocketAssumption, [SockNext]_allVars
    PROVE  SInv'
  <1>1. ASSUME NEW t \in Task, SockYield(t)
        PROVE  SInv'
    <2>1. CASE Yield(t) /\ UNCHANGED sockVars
      BY <2>1, SockSchedStep DEF sockVars
    <2>2. ASSUME InProgram(t), NEW sec \in AcceptSecs, accept(t, sec)
          PROVE  SInv'
      BY <2>2, AcceptStep DEF SocketAssumption
    <2>3. ASSUME InProgram(t), NEW sec \in RecvSecs, recvfrom_waits(t, sec)
          PROVE  SInv'
      BY <2>3, RecvfromWaitsStep DEF SocketAssumption
    <2>4. CASE InProgram(t) /\ (close(t) \/ set_dgramfd(t) \/ recvfrom_one(t))
      BY <2>4, CloseStep, SetDgramfdStep, RecvfromOneStep
    <2>5. CASE accept_round(t) \/ recvfrom_return(t)
      BY <2>5, AcceptRoundStep, RecvfromReturnStep
    <2> QED BY <1>1, <2>1, <2>2, <2>3, <2>4, <2>5 DEF SockYield
  <1>2. CASE SockLoop
    <2>1. CASE Loop /\ UNCHANGED sockVars
      BY <2>1, SockSchedStep DEF sockVars
    <2>2. CASE on_events
      BY <2>2, EventsStep
    <2> QED BY <1>2, <2>1, <2>2, QuietPollStep DEF SockLoop
  <1>3. CASE Environment
    BY <1>3, EnvironmentStep
  <1>4. CASE \E t \in Task : /\ Call(t)
                              /\ slip' = slip \cup {u \in Task : Signalled(u)}
                              /\ UNCHANGED <<serverVars, dgramVars>>
    BY <1>4, SockSchedStep
  <1>5. CASE (update_time /\ UNCHANGED sockVars) \/ UNCHANGED allVars
    BY <1>5, SockSchedStep DEF sockVars, allVars
  <1> QED BY <1>1, <1>2, <1>3, <1>4, <1>5 DEF SockNext

LEMMA SInvHolds ==
    ASSUME KillOrJoin
    PROVE  SockSpec => []SInv
  <1>1. SockInit => SInv
    BY SockInitInv, TaskAssumption, SocketAssumption
  <1>2. SInv /\ [SockNext]_allVars => SInv'
    BY SockStep, TaskAssumption, SocketAssumption
  <1> QED BY <1>1, <1>2, PTL DEF SockSpec

\* Whatever events, time-outs, signals and other calls come between: a task
\* that waits in accept or recvfrom while nothing is to be reported to it is
\* known to the handler, and there is nothing for it in the kernel.
THEOREM SocketsNeverStall ==
    ASSUME KillOrJoin
    PROVE  SockSpec => []NoSocketStall
  <1>1. SInv => NoSocketStall
    <2> SUFFICES ASSUME SInv, NEW t \in Task \ slip
                 PROVE  /\ Stuck(t, "accept") /\ ~server_edge =>
                               ch_task = t /\ ~ch_pending /\ backlog = 0
                        /\ Stuck(t, "recvfrom") /\ ~dgram_edge /\ None \notin slip =>
                               t = t_dgramfd /\ ~navaiable /\ ~t_rdgram
      BY DEF NoSocketStall
    <2>1. ASSUME Stuck(t, "accept"), ~server_edge
          PROVE  ch_task = t /\ ~ch_pending /\ backlog = 0
      BY <2>1 DEF Stuck, Awaits, SInv, SockInv, ServerInv
    <2>2. ASSUME Stuck(t, "recvfrom"), ~dgram_edge, None \notin slip
          PROVE  t = t_dgramfd /\ ~navaiable /\ ~t_rdgram
      BY <2>2 DEF Stuck, SInv, SockInv, DgramInv, Task, None
    <2> QED BY <2>1, <2>2
  <1> QED BY <1>1, SInvHolds, PTL

\* A task that accept's or recvfrom's wait returns 0 to was woken for
\* something that is still there: nobody took it in between, and the marks
\* outlive the time between the event and the task's turn.
THEOREM WokenForWhatIsThere ==
    ASSUME KillOrJoin
    PROVE  SockSpec => []WokenForSomething
  <1>1. SInv => WokenForSomething
    BY DEF WokenForSomething, Woken, SInv, SockInv, ServerInv, DgramInv
  <1> QED BY <1>1, SInvHolds, PTL
============================================================================
