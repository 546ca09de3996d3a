---------------------------- MODULE ServiceProofs ----------------------------
(***************************************************************************)
(* Proofs about Service: its safety invariants, for any number of tasks    *)
(* and requests, any time-outs and any failing or blocking handlers, when  *)
(* there is one service, a task whose request has failed makes no other    *)
(* one, and no task uses kill_task or reap_task.                           *)
(***************************************************************************)
EXTENDS Service, TaskletProofs

---------------------------------------------------------------------------
(* The inductive invariant *)

OneService(a) == Svc = {a} /\ ~Retry /\ Peaceful

SvcTypes ==
    /\ svc_reqing \in Svc \cup {NoSvc} /\ svc_resping \in Svc \cup {NoSvc}
    /\ svc_next \in [Svc -> Svc \cup {NoSvc}]
    /\ svc_inreqing \in [Svc -> BOOLEAN] /\ svc_inresping \in [Svc -> BOOLEAN]
    /\ svc_taskq \in [Svc -> Seq(Task)]
    /\ svc_task \in [Svc -> Task \cup {None}]
    /\ svc_resp \in [Svc -> Int] /\ svc_tmhandle \in [Svc -> Int]
    /\ handling \in [Svc -> Task \cup {None}] /\ handled \in [Svc -> Int]
    /\ t_svcreq \in [Task -> Int] /\ t_svcresp \in [Task -> Int]
    /\ t_svcreqtime \in [Task -> Nat \cup {NoTime}]
    /\ walk \in Svc \cup {NoSvc} /\ busy_list \in Svc \cup {NoSvc}
    /\ nreq \in Nat
    /\ own \in [Task -> [made : Nat, last : Nat, failed : BOOLEAN]]

\* The two lists of a single service: it is in each of them or not, as its
\* flags say, and while service_schedule runs, in its local variables.
ChainsOK(a) ==
    /\ svc_next[a] = NoSvc
    /\ phase \in {"idle", "reqing", "resping"}
    /\ phase # "idle" => at = "modules" /\ current = None
    /\ phase # "reqing" => (svc_reqing = a <=> svc_inreqing[a])
    /\ phase # "resping" => (svc_resping = a <=> svc_inresping[a])
    /\ phase = "reqing" => IF walk = a THEN svc_inreqing[a] /\ busy_list = NoSvc
                           ELSE busy_list = a <=> svc_inreqing[a]
    /\ phase = "resping" => (walk = a <=> svc_inresping[a])

\* The queued tasks are waiting, each with its last request.
QueueOK(a) ==
    /\ NoDup(svc_taskq[a])
    /\ \A t \in Task : Within(t, svc_taskq[a]) =>
           op[t] = "request" /\ Unserved(t) /\ t_svcreq[t] = own[t].last

\* The answer to t's request is put down and not delivered yet.
Answered(a, t) ==
    /\ svc_inresping[a] /\ svc_task[a] = t /\ svc_resp[a] = own[t].last
    /\ t_svcreq[t] = MARK_NOT_IN_CHAIN
    /\ t_svcreqtime[t] <= svc_tmhandle[a]

\* A requesting task has its answer, or waits in the queue or for the answer
\* that is put down.
WaitsOK(a) ==
    \A t \in Task : op[t] = "request" =>
        /\ ~own[t].failed
        /\ \/ /\ Unserved(t)
              /\ co[t] = "parked" => t_blockedby[t] = a
              /\ t_svcreqtime[t] # NoTime
              /\ Within(t, svc_taskq[a]) \/ Answered(a, t)
           \/ Ended(t, 0) /\ t_svcresp[t] = own[t].last

\* An answer that is put down is for a task that waits for it or has given up.
AnswerOK(a) ==
    svc_inresping[a] =>
        LET t == svc_task[a]
        IN  t \in Task /\ (own[t].failed \/ (op[t] = "request" /\ Unserved(t) /\ Answered(a, t)))

\* The request that is handled is the first of the queue, or its task has
\* given up.
HandlingOK(a) ==
    handling[a] # None =>
        LET t == handling[a]
        IN  /\ ~svc_inresping[a]
            /\ \/ own[t].failed
               \/ /\ svc_taskq[a] # <<>> /\ Head(svc_taskq[a]) = t
                  /\ handled[a] = own[t].last
                  /\ t_svcreqtime[t] <= svc_tmhandle[a]

TimesOK ==
    \A t \in Task : /\ t_svcreqtime[t] <= now
                    /\ own[t].failed => t_svcreqtime[t] = NoTime

\* The owner waits for a request.
Blocked(a) ==
    LET o == svc_owner[a] IN co[o] = "parked" /\ op[o] = "serve" /\ ~t_prev[o]

OwnerOK(a) ==
    /\ op[svc_owner[a]] = "serve" => rb_key[svc_owner[a]] = NoTimer
    /\ t_blockedby[svc_owner[a]] = a <=> Blocked(a)
    /\ Blocked(a) /\ svc_taskq[a] # <<>> => svc_inreqing[a] \/ svc_inresping[a]

SvcInv(a) ==
    /\ SvcTypes /\ ChainsOK(a) /\ QueueOK(a) /\ WaitsOK(a) /\ AnswerOK(a)
    /\ HandlingOK(a) /\ TimesOK /\ OwnerOK(a)

SvcIInv(a) == IInv /\ JoinInv /\ NoSignals /\ SvcInv(a)


---------------------------------------------------------------------------
(* The scheduler's steps *)

LEMMA OnlyService ==
    ASSUME TaskAssumption, ServiceAssumption, NEW a, OneService(a)
    PROVE  /\ a \in Svc /\ a \in Obj /\ a # NoSvc /\ \A s \in Svc : s = a
           /\ svc_owner[a] \in Task /\ Owners = {svc_owner[a]}
  <1>1. Svc = {a} /\ a \in Obj /\ a # NoSvc
    BY DEF OneService, ServiceAssumption, TaskAssumption, NoSvc, NoObj
  <1>2. svc_owner[a] \in 1..NBoot /\ NBoot \in 0..NTask /\ NTask \in Nat
    BY <1>1 DEF ServiceAssumption, TaskAssumption
  <1>3. svc_owner[a] \in Task
    BY <1>2 DEF Task
  <1> QED BY <1>1, <1>3 DEF Owners

\* A wait stays as it is, or its task is resumed.
LEMMA AsideKeeps ==
    ASSUME NEW u, Aside(u)
    PROVE  /\ Unserved(u) => Unserved(u)'
           /\ Ended(u, 0) => Ended(u, 0)'
           /\ co'[u] = "parked" => co[u] = "parked" /\ t_prev'[u] = t_prev[u]
           /\ co[u] = "parked" /\ co'[u] # "parked" => t_prev[u] \/ rb_key[u] # NoTimer
  BY DEF Aside, Unserved, Ended

\* The tasks inside of request wait on, or end as they were to end.
RequestsAside ==
    \A u \in Task :
        /\ op'[u] = "request" <=> op[u] = "request"
        /\ op[u] = "request" =>
               /\ Unserved(u) => Unserved(u)'
               /\ Ended(u, 0) => Ended(u, 0)'
               /\ co'[u] = "parked" => co[u] = "parked" /\ t_blockedby'[u] = t_blockedby[u]

\* Such a step that changes neither the requests nor an answer.
LEMMA RequestsStay ==
    ASSUME NEW a, SvcInv(a), RequestsAside,
           UNCHANGED <<requestVars, svc_task, svc_resp, svc_inresping, own>>,
           svc_inresping[a] => UNCHANGED svc_tmhandle
    PROVE  QueueOK(a)' /\ WaitsOK(a)' /\ AnswerOK(a)'
  <1>1. UNCHANGED <<svc_taskq, t_svcreq, t_svcreqtime, t_svcresp, svc_task, svc_resp,
                    svc_inresping, own>>
    BY DEF requestVars
  <1>2. \A u \in Task : op'[u] = "request" <=> op[u] = "request"
    BY DEF RequestsAside
  <1>3. \A u \in Task : op[u] = "request" =>
            /\ Unserved(u) => Unserved(u)'
            /\ Ended(u, 0) => Ended(u, 0)'
            /\ co'[u] = "parked" => co[u] = "parked" /\ t_blockedby'[u] = t_blockedby[u]
    BY DEF RequestsAside
  <1>4. \A u : Within(u, svc_taskq[a])' <=> Within(u, svc_taskq[a])
    BY <1>1 DEF Within
  <1>5. QueueOK(a)'
    <2>1. NoDup(svc_taskq[a])'
      BY <1>1 DEF SvcInv, QueueOK, NoDup
    <2> QED BY <1>1, <1>2, <1>3, <1>4, <2>1 DEF SvcInv, QueueOK
  <1>6. \A t : Answered(a, t)' <=> Answered(a, t)
    BY <1>1 DEF Answered
  <1>7. WaitsOK(a)'
    BY <1>1, <1>2, <1>3, <1>4, <1>6 DEF SvcInv, WaitsOK
  <1>8. AnswerOK(a)'
    BY <1>1, <1>2, <1>3, <1>6 DEF SvcInv, AnswerOK
  <1> QED BY <1>5, <1>7, <1>8

\* Time passes.
LEMMA TimesStay ==
    ASSUME SvcTypes, TimesOK, now \in Nat, now' \in Nat, now' >= now,
           UNCHANGED <<t_svcreqtime, own>>
    PROVE  TimesOK'
  <1>1. \A t \in Task : t_svcreqtime[t] \in Nat \cup {-1}
    BY DEF SvcTypes, NoTime
  <1> QED BY <1>1 DEF TimesOK

\* Steps that leave the service alone.
LEMMA SvcStays ==
    ASSUME TaskAssumption, ServiceAssumption, NEW a, OneService(a), SvcInv(a),
           AllAside, UNCHANGED svcVars, now \in Nat, now' \in Nat, now' >= now,
           phase # "idle" => at' = at /\ current' = current
    PROVE  SvcInv(a)'
  <1>1. /\ UNCHANGED <<svc_reqing, svc_resping, svc_next, svc_inreqing, svc_inresping>>
        /\ UNCHANGED <<svc_task, svc_resp, svc_tmhandle, handling, handled>>
        /\ UNCHANGED <<svc_taskq, t_svcreq, t_svcreqtime, t_svcresp>>
        /\ UNCHANGED <<phase, walk, busy_list, nreq, own>>
    BY DEF svcVars, listVars, serveVars, requestVars, scheduleVars, reqHistory
  <1>2. SvcTypes' /\ ChainsOK(a)' /\ HandlingOK(a)'
    <2>1. SvcTypes'
      BY <1>1 DEF SvcInv, SvcTypes
    <2>2. ChainsOK(a)'
      BY <1>1 DEF SvcInv, ChainsOK
    <2>3. HandlingOK(a)'
      BY <1>1 DEF SvcInv, HandlingOK
    <2> QED BY <2>1, <2>2, <2>3
  <1>3. \A u \in Task : op[u] \notin OwnCall => Aside(u)
    BY DEF AllAside
  <1>4. RequestsAside
    <2>1. \A u \in Task : op'[u] = "request" => op[u] = "request"
      BY DEF AllAside, OwnCall
    <2>2. \A u \in Task : op[u] = "request" => Aside(u)
      BY <1>3 DEF OwnCall
    <2> QED BY <2>1, <2>2, AsideKeeps DEF RequestsAside, Aside
  <1>5. QueueOK(a)' /\ WaitsOK(a)' /\ AnswerOK(a)'
    BY <1>1, <1>4, RequestsStay DEF requestVars
  <1>6. TimesOK'
    BY <1>1, TimesStay DEF SvcInv
  <1>7. OwnerOK(a)'
    <2> DEFINE o == svc_owner[a]
    <2>1. o \in Task /\ a # NoSvc
      BY OnlyService
    <2>2. CASE op[o] = "serve"
      <3>1. Aside(o)
        BY <2>1, <2>2, <1>3 DEF OwnCall
      <3>2. rb_key[o] = NoTimer /\ rb_key'[o] = NoTimer
        BY <2>2, <3>1 DEF Aside, SvcInv, OwnerOK
      <3>3. op'[o] = "serve" /\ t_blockedby'[o] = t_blockedby[o]
        BY <2>2, <3>1 DEF Aside
      <3>4. Blocked(a)' <=> Blocked(a)
        BY <2>2, <3>1, <3>2, <3>3, AsideKeeps DEF Blocked, Aside
      <3> QED BY <1>1, <3>2, <3>3, <3>4 DEF SvcInv, OwnerOK
    <2>3. CASE op[o] # "serve"
      <3>1. op'[o] # "serve" /\ t_blockedby'[o] \in {t_blockedby[o], NoObj}
        BY <2>1, <2>3 DEF AllAside, OwnCall
      <3>2. ~Blocked(a) /\ ~Blocked(a)'
        BY <2>3, <3>1 DEF Blocked
      <3> QED BY <2>1, <3>1, <3>2 DEF SvcInv, OwnerOK, NoSvc
    <2> QED BY <2>2, <2>3
  <1> QED BY <1>2, <1>5, <1>6, <1>7 DEF SvcInv

\* The scheduler's own steps, none of which happens inside of service_schedule.
LEMMA SvcAside ==
    ASSUME TaskAssumption, ServiceAssumption, NEW a, OneService(a), SvcIInv(a),
           \/ \E t \in Task : Yield(t) \/ Call(t)
           \/ Loop /\ at # "modules"
           \/ update_time \/ UNCHANGED vars,
           UNCHANGED svcVars
    PROVE  SvcIInv(a)'
  <1>1. IInv /\ JoinInv /\ NoSignals /\ SvcInv(a) /\ Peaceful
    BY DEF SvcIInv, OneService
  <1>2. IInv' /\ JoinInv' /\ AllAside /\ NoSignals'
    BY <1>1, StepAside
  <1>3. now \in Nat /\ now' \in Nat
    BY <1>1, <1>2 DEF IInv, TypeOK
  <1>4. now' = now \/ now' = now + 1
    <2>1. ASSUME NEW t \in Task, Yield(t) \/ Call(t)
          PROVE  now' = now
      BY <2>1 DEF Yield, Call, sleep, join_tasks, join_assert, finish, sleep_return,
                  join_return, handler_return, handler_exit, start_task, kill_task, reap_task
    <2>2. Loop => now' = now
      BY DEF Loop, detach_list, resume_next, resume_list_done, modules_done, calc_waittime,
             poll_events, poll_nothing, expire, expire_done
    <2>3. UNCHANGED vars => now' = now
      BY DEF vars
    <2>4. update_time => now' = now + 1
      BY DEF update_time
    <2> QED BY <2>1, <2>2, <2>3, <2>4
  <1>5. phase # "idle" => at' = at /\ current' = current
    <2> SUFFICES ASSUME at = "modules", current = None
                 PROVE  at' = at /\ current' = current
      BY <1>1 DEF SvcInv, ChainsOK
    <2>1. \A t \in Task : t # None /\ co[t] \notin {"run", "back", "handling"}
      BY <1>1 DEF IInv, OnePlace, Task, None
    <2>2. \A t \in Task : ~Yield(t) /\ ~Call(t)
      BY <2>1 DEF Yield, Call, InProgram, Running, sleep_return, join_return,
                  handler_return, handler_exit
    <2> QED BY <2>2 DEF update_time, vars, loopVars, coVars
  <1>6. now' >= now
    BY <1>3, <1>4
  <1>7. SvcInv(a)'
    BY <1>1, <1>2, <1>3, <1>5, <1>6, SvcStays
  <1> QED BY <1>2, <1>7 DEF SvcIInv

---------------------------------------------------------------------------
(* The steps of serve *)

LEMMA ServeWait ==
    ASSUME TaskAssumption, ServiceAssumption, NEW a, OneService(a), SvcIInv(a),
           serve_wait(a)
    PROVE  SvcIInv(a)'
  <1> DEFINE o == svc_owner[a]
  <1>1. IInv /\ JoinInv /\ NoSignals /\ SvcInv(a)
    BY DEF SvcIInv
  <1>2. o \in Task /\ a \in Obj
    BY OnlyService
  <1>3. /\ current = o /\ co[o] = "run" /\ op[o] = "none" /\ ~t_prev[o] /\ ~t_sig[o]
        /\ svc_taskq[a] = <<>> \/ svc_inresping[a]
        /\ do_yield(o, "serve", -1, a, t_nsubs)
        /\ UNCHANGED <<svcVars, loopVars, now>>
    BY <1>1, <1>2 DEF serve_wait, AtServe, NothingToServe, InProgram, JoinInv, OpInside,
                      IInv, OnePlace, NoSignals
  <1>4. IInv' /\ JoinInv'
    <2>1. -1 \in Int /\ a \in Obj \cup {NoObj} /\ "serve" \in OpName
          /\ t_nsubs \in [Task -> Int]
      BY <1>1, <1>2 DEF OpName, IInv, TypeOK
    <2> QED BY <1>1, <1>2, <1>3, <2>1, DoYield, JoinYieldOther DEF loopVars
  <1>5. /\ op' = [op EXCEPT ![o] = "serve"] /\ NoSignals'
        /\ \A v \in Task \ {o} : /\ Unserved(v)' <=> Unserved(v)
                                 /\ Ended(v, 0)' <=> Ended(v, 0)
    BY <1>1, <1>2, <1>3, Waits DEF Running
  <1>6. /\ rb_key' = [rb_key EXCEPT ![o] = NoTimer]
        /\ co' = [co EXCEPT ![o] = "parked"]
        /\ t_blockedby' = [t_blockedby EXCEPT ![o] = a]
        /\ t_prev' = t_prev
    BY <1>3 DEF do_yield, timer_key, Delay
  <1>7. /\ rb_key'[o] = NoTimer /\ co'[o] = "parked" /\ t_blockedby'[o] = a /\ op'[o] = "serve"
        /\ \A v \in Task \ {o} : op'[v] = op[v] /\ co'[v] = co[v]
                                 /\ t_blockedby'[v] = t_blockedby[v]
    BY <1>1, <1>2, <1>5, <1>6 DEF IInv, TypeOK
  <1>8. phase = "idle"
    BY <1>1, <1>2, <1>3 DEF SvcInv, ChainsOK, Task, None
  <1>9. /\ UNCHANGED <<svc_reqing, svc_resping, svc_next, svc_inreqing, svc_inresping>>
        /\ UNCHANGED <<svc_task, svc_resp, svc_tmhandle, handling, handled>>
        /\ UNCHANGED <<svc_taskq, t_svcreq, t_svcreqtime, t_svcresp>>
        /\ UNCHANGED <<phase, walk, busy_list, nreq, own>>
    BY <1>3 DEF svcVars, listVars, serveVars, requestVars, scheduleVars, reqHistory
  <1>10. SvcTypes' /\ ChainsOK(a)' /\ HandlingOK(a)'
    <2>1. SvcTypes'
      BY <1>1, <1>8, <1>9 DEF SvcInv, SvcTypes
    <2>2. ChainsOK(a)'
      BY <1>1, <1>8, <1>9 DEF SvcInv, ChainsOK
    <2>3. HandlingOK(a)'
      BY <1>1, <1>8, <1>9 DEF SvcInv, HandlingOK
    <2> QED BY <2>1, <2>2, <2>3
  <1>11. QueueOK(a)' /\ WaitsOK(a)' /\ AnswerOK(a)'
    <2>1. RequestsAside
      BY <1>3, <1>5, <1>7 DEF RequestsAside
    <2> QED BY <1>1, <1>9, <2>1, RequestsStay DEF requestVars
  <1>12. TimesOK'
    BY <1>1, <1>3, <1>9 DEF SvcInv, TimesOK
  <1>13. OwnerOK(a)'
    BY <1>3, <1>6, <1>7, <1>9 DEF OwnerOK, Blocked
  <1> QED BY <1>4, <1>5, <1>10, <1>11, <1>12, <1>13 DEF SvcIInv, SvcInv

LEMMA ServeReturn ==
    ASSUME TaskAssumption, ServiceAssumption, NEW a, OneService(a), SvcIInv(a),
           serve_return(a)
    PROVE  SvcIInv(a)'
  <1> DEFINE o == svc_owner[a]
  <1>1. IInv /\ JoinInv /\ NoSignals /\ SvcInv(a)
    BY DEF SvcIInv
  <1>2. o \in Task /\ a # NoSvc
    BY OnlyService
  <1>3. /\ current = o /\ co[o] = "back" /\ op[o] = "serve"
        /\ co' = [co EXCEPT ![o] = "run"]
        /\ op' = [op EXCEPT ![o] = "none"]
        /\ till' = [till EXCEPT ![o] = NoTimer]
        /\ ret' = [ret EXCEPT ![o] = 0]
        /\ UNCHANGED <<readyVars, taskVars, current, svcVars, loopVars, now>>
    BY DEF serve_return
  <1>4. IInv' /\ JoinInv'
    BY <1>1, <1>2, <1>3, CallReturns, JoinReturnOther
  <1>5. /\ op'[o] = "none" /\ NoSignals'
        /\ \A v \in Task \ {o} : /\ op'[v] = op[v]
                                 /\ Unserved(v)' <=> Unserved(v)
                                 /\ Ended(v, 0)' <=> Ended(v, 0)
    BY <1>1, <1>2, <1>3, WaitOver
  <1>6. /\ \A v \in Task \ {o} : co'[v] = co[v]
        /\ t_blockedby' = t_blockedby /\ rb_key' = rb_key
    BY <1>3 DEF IInv, TypeOK, readyVars
  <1>7. /\ UNCHANGED <<svc_reqing, svc_resping, svc_next, svc_inreqing, svc_inresping>>
        /\ UNCHANGED <<svc_task, svc_resp, svc_tmhandle, handling, handled>>
        /\ UNCHANGED <<svc_taskq, t_svcreq, t_svcreqtime, t_svcresp>>
        /\ UNCHANGED <<phase, walk, busy_list, nreq, own>>
    BY <1>3 DEF svcVars, listVars, serveVars, requestVars, scheduleVars, reqHistory
  <1>8. SvcTypes' /\ ChainsOK(a)' /\ HandlingOK(a)'
    <2>1. SvcTypes'
      BY <1>1, <1>3, <1>7 DEF SvcInv, SvcTypes
    <2>2. ChainsOK(a)'
      BY <1>1, <1>3, <1>7 DEF SvcInv, ChainsOK, loopVars
    <2>3. HandlingOK(a)'
      BY <1>1, <1>3, <1>7 DEF SvcInv, HandlingOK
    <2> QED BY <2>1, <2>2, <2>3
  <1>9. QueueOK(a)' /\ WaitsOK(a)' /\ AnswerOK(a)'
    <2>1. RequestsAside
      BY <1>3, <1>5, <1>6 DEF RequestsAside
    <2> QED BY <1>1, <1>7, <2>1, RequestsStay DEF requestVars
  <1>10. TimesOK'
    BY <1>1, <1>3, <1>7 DEF SvcInv, TimesOK
  <1>11. OwnerOK(a)'
    BY <1>1, <1>3, <1>5, <1>6, <1>7 DEF SvcInv, OwnerOK, Blocked
  <1> QED BY <1>4, <1>5, <1>8, <1>9, <1>10, <1>11 DEF SvcIInv, SvcInv

LEMMA ServeTake ==
    ASSUME TaskAssumption, ServiceAssumption, NEW a, OneService(a), SvcIInv(a),
           serve_take(a)
    PROVE  SvcIInv(a)'
  <1>1. IInv /\ JoinInv /\ NoSignals /\ SvcInv(a) /\ a \in Svc
    BY OnlyService DEF SvcIInv
  <1>2. PICK h : h = Head(svc_taskq[a])
    OBVIOUS
  <1>3. /\ svc_taskq[a] # <<>> /\ ~svc_inresping[a]
        /\ handling' = [handling EXCEPT ![a] = h]
        /\ handled' = [handled EXCEPT ![a] = t_svcreq[h]]
        /\ svc_tmhandle' = [svc_tmhandle EXCEPT ![a] = now]
        /\ UNCHANGED <<svc_task, svc_resp, listVars, requestVars, scheduleVars, reqHistory, vars>>
    BY <1>2 DEF serve_take, NothingToServe
  <1>4. /\ UNCHANGED <<svc_reqing, svc_resping, svc_next, svc_inreqing, svc_inresping>>
        /\ UNCHANGED <<svc_taskq, t_svcreq, t_svcreqtime, t_svcresp>>
        /\ UNCHANGED <<phase, walk, busy_list, nreq, own>>
    BY <1>3 DEF listVars, requestVars, scheduleVars, reqHistory
  <1>5. /\ UNCHANGED <<readyVars, taskVars, coVars, loopVars, now>>
        /\ UNCHANGED <<rb_key, t_prev, t_err, t_blockedby, co, op, ret, at, current>>
    BY <1>3 DEF vars, readyVars, coVars, loopVars
  <1>6. IInv' /\ JoinInv' /\ NoSignals'
    BY <1>1, <1>5, ServeScheduled
  <1>7. h \in Task /\ Within(h, svc_taskq[a])
    <2>1. svc_taskq[a] \in Seq(Task) /\ NoDup(svc_taskq[a])
      BY <1>1 DEF SvcInv, SvcTypes, QueueOK
    <2> QED BY <1>2, <1>3, <2>1, HeadTailProperties, TailRemoves
  <1>8. t_svcreq[h] = own[h].last /\ t_svcreq[h] \in Int /\ t_svcreqtime[h] <= now
        /\ now \in Int
    BY <1>1, <1>7 DEF SvcInv, SvcTypes, QueueOK, TimesOK, IInv, TypeOK
  <1>9. handling'[a] = h /\ handled'[a] = t_svcreq[h] /\ svc_tmhandle'[a] = now
    BY <1>1, <1>3 DEF SvcInv, SvcTypes
  <1>10. SvcTypes'
    BY <1>1, <1>3, <1>4, <1>7, <1>8 DEF SvcInv, SvcTypes
  <1>11. ChainsOK(a)' /\ OwnerOK(a)' /\ TimesOK'
    BY <1>1, <1>4, <1>5 DEF SvcInv, ChainsOK, OwnerOK, Blocked, TimesOK
  <1>12. QueueOK(a)' /\ WaitsOK(a)' /\ AnswerOK(a)'
    <2>1. RequestsAside
      BY <1>5 DEF RequestsAside, Unserved, Ended
    <2> QED BY <1>1, <1>3, <1>4, <2>1, RequestsStay
  <1>13. HandlingOK(a)'
    BY <1>2, <1>3, <1>4, <1>8, <1>9 DEF HandlingOK
  <1> QED BY <1>6, <1>10, <1>11, <1>12, <1>13 DEF SvcIInv, SvcInv

\* The answer is put down for a task that still waits for it.
LEMMA ReplyAnswers ==
    ASSUME TaskAssumption, ServiceAssumption, NEW a, OneService(a), SvcIInv(a),
           serve_reply(a), to_answer(a) # None
    PROVE  SvcIInv(a)'
  <1> DEFINE o == svc_owner[a]
  <1>1. IInv /\ JoinInv /\ NoSignals /\ SvcInv(a) /\ a \in Svc /\ a # NoSvc
    BY OnlyService DEF SvcIInv
  <1>2. PICK h : h = to_answer(a)
    OBVIOUS
  <1>3. /\ svc_taskq[a] # <<>> /\ Head(svc_taskq[a]) = h /\ handling[a] = h
        /\ h # None /\ current = o /\ co[o] = "run"
        /\ handling' = [handling EXCEPT ![a] = None]
        /\ svc_resp' = [svc_resp EXCEPT ![a] = handled[a]]
        /\ svc_task' = [svc_task EXCEPT ![a] = h]
        /\ t_err' = [t_err EXCEPT ![h] = handler_err(handled[a])]
        /\ t_svcreq' = [t_svcreq EXCEPT ![h] = MARK_NOT_IN_CHAIN]
        /\ svc_taskq' = [svc_taskq EXCEPT ![a] = RemoveFirst(@, h)]
        /\ svc_inresping' = [svc_inresping EXCEPT ![a] = TRUE]
        /\ svc_next' = [svc_next EXCEPT ![a] = svc_resping]
        /\ svc_resping' = a
        /\ UNCHANGED <<svc_tmhandle, handled, svc_reqing, svc_inreqing, t_svcreqtime, t_svcresp>>
        /\ UNCHANGED <<ready, t_prev, rb_key, t_blockedby, taskVars, coVars, loopVars, now>>
        /\ UNCHANGED <<phase, walk, busy_list, nreq, own>>
    BY <1>2 DEF serve_reply, to_answer, InHandler, InProgram, scheduleVars, reqHistory
  <1>4. /\ UNCHANGED <<co, op, ret, at, current>>
    BY <1>3 DEF coVars, loopVars
  <1>5. PICK q : q = svc_taskq[a]
    OBVIOUS
  <1>6. /\ q \in Seq(Task) /\ NoDup(q) /\ q # <<>> /\ h = Head(q)
        /\ h \in Task /\ Within(h, q)
    <2>1. q \in Seq(Task) /\ NoDup(q)
      BY <1>1, <1>5 DEF SvcInv, SvcTypes, QueueOK
    <2> QED BY <1>3, <1>5, <2>1, HeadTailProperties, TailRemoves
  <1>7. /\ op[h] = "request" /\ Unserved(h) /\ ~own[h].failed
        /\ co[h] = "parked" => t_blockedby[h] = a
        /\ t_svcreqtime[h] # NoTime
        /\ handled[a] = own[h].last /\ t_svcreqtime[h] <= svc_tmhandle[a]
        /\ ~svc_inresping[a]
    <2>1. op[h] = "request" /\ Unserved(h) /\ ~svc_inresping[a]
      BY <1>1, <1>3, <1>5, <1>6 DEF SvcInv, QueueOK, HandlingOK
    <2>2. ~Ended(h, 0)
      BY <2>1, OneOutcome
    <2>3. /\ ~own[h].failed /\ t_svcreqtime[h] # NoTime
          /\ co[h] = "parked" => t_blockedby[h] = a
      BY <1>1, <1>6, <2>1, <2>2 DEF SvcInv, WaitsOK
    <2> QED BY <1>1, <1>3, <2>1, <2>3 DEF SvcInv, HandlingOK
  <1>8. PICK r : r = RemoveFirst(q, h)
    OBVIOUS
  <1>9. /\ r \in Seq(Task) /\ NoDup(r)
        /\ \A y : Within(y, r) <=> Within(y, q) /\ y # h
    BY <1>6, <1>8, RemoveFirstLeaves
  <1>10. /\ svc_taskq'[a] = r /\ svc_task'[a] = h /\ svc_resp'[a] = own[h].last
         /\ svc_inresping'[a] /\ handling'[a] = None
         /\ t_svcreq'[h] = MARK_NOT_IN_CHAIN
         /\ \A u \in Task \ {h} : t_svcreq'[u] = t_svcreq[u]
    BY <1>1, <1>3, <1>5, <1>6, <1>7, <1>8 DEF SvcInv, SvcTypes
  <1>11. svc_next'[a] = NoSvc /\ phase = "idle"
    <2>1. current # None
      BY <1>3, OnlyService DEF Task, None
    <2>2. phase = "idle" /\ svc_resping # a /\ svc_resping \in Svc \cup {NoSvc}
      BY <1>1, <1>7, <2>1 DEF SvcInv, SvcTypes, ChainsOK
    <2>3. svc_resping = NoSvc
      BY <2>2, OnlyService
    <2> QED BY <1>1, <1>3, <2>2, <2>3 DEF SvcInv, SvcTypes
  <1>12. IInv'
    <2>1. t_err' \in [Task -> Errno]
      BY <1>1, <1>3 DEF IInv, TypeOK, handler_err, Errno
    <2>2. TypeOK'
      BY <1>1, <1>3, <2>1 DEF IInv, TypeOK, taskVars, coVars, loopVars
    <2>3. ListsMatch'
      BY <1>1, <1>3, ListsStay DEF IInv, loopVars
    <2>4. OnePlace' /\ SignalsPending' /\ NoSignalInside' /\ ParentsExist'
      BY <1>1, <1>3 DEF IInv, OnePlace, SignalsPending, NoSignalInside, ParentsExist,
                        taskVars, coVars
    <2> QED BY <2>2, <2>3, <2>4 DEF IInv
  <1>13. JoinInv' /\ NoSignals'
    <2>1. \A u \in Task : op[u] = "join" => t_err'[u] = t_err[u]
      BY <1>1, <1>3, <1>7 DEF IInv, TypeOK
    <2>2. JoinInv'
      BY <1>1, <1>3, <2>1, JoinFrame DEF JoinInv, OpInside, OnlyReaped, taskVars, coVars
    <2> QED BY <1>1, <1>3, <2>2 DEF NoSignals, taskVars, coVars
  <1>14. /\ \A u \in Task : Unserved(u)' <=> Unserved(u)
         /\ \A u \in Task : op[u] = "request" => (Ended(u, 0) => Ended(u, 0)')
    <2>1. \A u \in Task : Unserved(u)' <=> Unserved(u)
      BY <1>3, <1>4 DEF Unserved
    <2>2. \A u \in Task \ {h} : t_err'[u] = t_err[u]
      BY <1>1, <1>3 DEF IInv, TypeOK
    <2>3. ~Ended(h, 0)
      BY <1>7, OneOutcome
    <2> QED BY <1>3, <1>4, <2>1, <2>2, <2>3 DEF Ended
  <1>15. SvcTypes'
    <2>1. /\ svc_taskq' \in [Svc -> Seq(Task)] /\ svc_task' \in [Svc -> Task \cup {None}]
          /\ handling' \in [Svc -> Task \cup {None}]
      BY <1>1, <1>3, <1>5, <1>6, <1>8, <1>9 DEF SvcInv, SvcTypes
    <2>2. /\ svc_resp' \in [Svc -> Int] /\ t_svcreq' \in [Task -> Int]
      <3>1. handled[a] \in Int /\ MARK_NOT_IN_CHAIN \in Int
        BY <1>1 DEF SvcInv, SvcTypes, MARK_NOT_IN_CHAIN
      <3> QED BY <1>1, <1>3, <3>1 DEF SvcInv, SvcTypes
    <2>3. /\ svc_resping' \in Svc \cup {NoSvc}
          /\ svc_next' \in [Svc -> Svc \cup {NoSvc}]
          /\ svc_inresping' \in [Svc -> BOOLEAN]
      BY <1>1, <1>3 DEF SvcInv, SvcTypes
    <2> QED BY <1>1, <1>3, <2>1, <2>2, <2>3 DEF SvcInv, SvcTypes
  <1>16. ChainsOK(a)'
    BY <1>1, <1>3, <1>4, <1>10, <1>11 DEF SvcInv, ChainsOK
  <1>17. \A u : Within(u, svc_taskq[a])' <=> Within(u, q) /\ u # h
    <2>1. \A u : Within(u, svc_taskq[a])' <=> Within(u, r)
      BY <1>10 DEF Within
    <2> QED BY <1>9, <2>1
  <1>18. QueueOK(a)'
    <2>1. NoDup(svc_taskq[a])'
      BY <1>9, <1>10 DEF NoDup
    <2> QED BY <1>1, <1>3, <1>4, <1>5, <1>10, <1>14, <1>17, <2>1 DEF SvcInv, QueueOK
  <1>19. Answered(a, h)'
    BY <1>3, <1>7, <1>10 DEF Answered
  <1>20. WaitsOK(a)'
    <2>1. ASSUME NEW u \in Task, op[u] = "request"
          PROVE  /\ ~own[u].failed
                 /\ \/ /\ Unserved(u)
                       /\ co[u] = "parked" => t_blockedby[u] = a
                       /\ t_svcreqtime[u] # NoTime
                       /\ Within(u, q)
                    \/ Ended(u, 0) /\ t_svcresp[u] = own[u].last
      BY <1>1, <1>5, <1>7, <2>1 DEF SvcInv, WaitsOK, Answered
    <2> QED BY <1>3, <1>4, <1>14, <1>17, <1>19, <2>1 DEF WaitsOK
  <1>21. AnswerOK(a)'
    BY <1>4, <1>6, <1>7, <1>10, <1>14, <1>19 DEF AnswerOK
  <1>22. HandlingOK(a)' /\ TimesOK' /\ OwnerOK(a)'
    BY <1>1, <1>3, <1>4, <1>10 DEF SvcInv, HandlingOK, TimesOK, OwnerOK, Blocked
  <1> QED BY <1>12, <1>13, <1>15, <1>16, <1>18, <1>20, <1>21, <1>22 DEF SvcIInv, SvcInv

\* The task has given up: the answer is dropped.
LEMMA ReplyDropped ==
    ASSUME TaskAssumption, ServiceAssumption, NEW a, OneService(a), SvcIInv(a),
           serve_reply(a), to_answer(a) = None
    PROVE  SvcIInv(a)'
  <1>1. IInv /\ JoinInv /\ NoSignals /\ SvcInv(a) /\ a \in Svc
    BY OnlyService DEF SvcIInv
  <1>2. /\ handling' = [handling EXCEPT ![a] = None]
        /\ UNCHANGED <<svc_reqing, svc_resping, svc_next, svc_inreqing, svc_inresping>>
        /\ UNCHANGED <<svc_task, svc_resp, svc_tmhandle, handled>>
        /\ UNCHANGED <<svc_taskq, t_svcreq, t_svcreqtime, t_svcresp>>
        /\ UNCHANGED <<phase, walk, busy_list, nreq, own>>
        /\ UNCHANGED <<readyVars, taskVars, coVars, loopVars, now>>
        /\ UNCHANGED <<rb_key, t_prev, t_err, t_blockedby, co, op, ret, at, current>>
    BY DEF serve_reply, scheduleVars, reqHistory, readyVars, coVars, loopVars
  <1>3. IInv' /\ JoinInv' /\ NoSignals'
    BY <1>1, <1>2, ServeScheduled
  <1>4. RequestsAside
    BY <1>2 DEF RequestsAside, Unserved, Ended
  <1>5. QueueOK(a)' /\ WaitsOK(a)' /\ AnswerOK(a)'
    BY <1>1, <1>2, <1>4, RequestsStay DEF requestVars
  <1>6. SvcTypes'
    BY <1>1, <1>2 DEF SvcInv, SvcTypes
  <1>7. ChainsOK(a)' /\ HandlingOK(a)' /\ TimesOK' /\ OwnerOK(a)'
    BY <1>1, <1>2 DEF SvcInv, SvcTypes, ChainsOK, HandlingOK, TimesOK, OwnerOK, Blocked
  <1> QED BY <1>3, <1>5, <1>6, <1>7 DEF SvcIInv, SvcInv

---------------------------------------------------------------------------
(* The steps of request *)

LEMMA RequestStep ==
    ASSUME TaskAssumption, ServiceAssumption, NEW a, OneService(a), SvcIInv(a),
           NEW t \in Task, t # svc_owner[a], InProgram(t), NEW sec \in ReqSecs,
           request(t, a, sec)
    PROVE  SvcIInv(a)'
  <1> DEFINE o == svc_owner[a]
  <1>1. IInv /\ JoinInv /\ NoSignals /\ SvcInv(a) /\ a \in Svc /\ a # NoSvc /\ o \in Task
    BY OnlyService DEF SvcIInv
  <1>2. /\ current = t /\ co[t] = "run" /\ op[t] = "none" /\ ~t_sig[t]
    BY <1>1 DEF InProgram, JoinInv, OpInside, NoSignals
  <1>3. /\ nreq' = nreq + 1
        /\ own' = [own EXCEPT ![t] = [made |-> own[t].made + 1, last |-> nreq + 1,
                                      failed |-> own[t].failed]]
        /\ t_svcreq' = [t_svcreq EXCEPT ![t] = nreq + 1]
        /\ t_svcreqtime' = [t_svcreqtime EXCEPT ![t] = now]
        /\ svc_taskq' = [svc_taskq EXCEPT ![a] = Append(@, t)]
        /\ do_yield(t, "request", sec, a, t_nsubs)
        /\ ~own[t].failed
        /\ UNCHANGED <<svc_resping, svc_inresping, t_svcresp>>
        /\ UNCHANGED <<svc_task, svc_resp, svc_tmhandle, handling, handled>>
        /\ UNCHANGED <<phase, walk, busy_list>>
        /\ UNCHANGED <<loopVars, batch, at, caller, now>>
    BY DEF request, serveVars, scheduleVars, loopVars, OneService
  <1>4. /\ svc_next[a] = NoSvc /\ phase = "idle"
        /\ ~svc_inreqing[a] => svc_reqing = NoSvc
    <2>1. current # None
      BY <1>2 DEF Task, None
    <2>2. /\ phase = "idle" /\ svc_next[a] = NoSvc /\ svc_reqing \in Svc \cup {NoSvc}
          /\ ~svc_inreqing[a] => svc_reqing # a
      BY <1>1, <2>1 DEF SvcInv, SvcTypes, ChainsOK
    <2> QED BY <2>2, OnlyService
  <1>5. \/ /\ ~svc_inreqing[a] /\ t_blockedby[o] = a
           /\ svc_next' = [svc_next EXCEPT ![a] = NoSvc]
           /\ svc_reqing' = a
           /\ svc_inreqing' = [svc_inreqing EXCEPT ![a] = TRUE]
        \/ /\ svc_inreqing[a] \/ t_blockedby[o] # a
           /\ UNCHANGED <<svc_next, svc_reqing, svc_inreqing>>
    BY <1>4 DEF request, announced
  <1>6. /\ svc_next'[a] = NoSvc
        /\ svc_inreqing[a] \/ t_blockedby[o] = a <=> svc_inreqing'[a]
        /\ svc_reqing' = a <=> svc_inreqing'[a]
    <2>1. svc_reqing = a <=> svc_inreqing[a]
      BY <1>1, <1>4 DEF SvcInv, ChainsOK
    <2> QED BY <1>1, <1>4, <1>5, <2>1 DEF SvcInv, SvcTypes
  <1>7. IInv' /\ JoinInv'
    <2>1. sec \in Int /\ a \in Obj \cup {NoObj} /\ "request" \in OpName
          /\ t_nsubs \in [Task -> Int]
      BY <1>1, OnlyService, ServiceAssumption DEF OpName, IInv, TypeOK
    <2> QED BY <1>1, <1>2, <1>3, <2>1, DoYield, JoinYieldOther
  <1>8. /\ op' = [op EXCEPT ![t] = "request"] /\ NoSignals' /\ Unserved(t)'
        /\ \A v \in Task \ {t} : /\ Unserved(v)' <=> Unserved(v)
                                 /\ Ended(v, 0)' <=> Ended(v, 0)
    BY <1>1, <1>2, <1>3, Waits DEF Running
  <1>9. /\ rb_key' = [rb_key EXCEPT ![t] = timer_key(sec)]
        /\ co' = [co EXCEPT ![t] = "parked"]
        /\ t_blockedby' = [t_blockedby EXCEPT ![t] = a]
        /\ t_prev' = t_prev
    BY <1>2, <1>3 DEF do_yield
  <1>10. /\ co'[t] = "parked" /\ t_blockedby'[t] = a /\ op'[t] = "request"
         /\ \A v \in Task \ {t} : /\ op'[v] = op[v] /\ co'[v] = co[v]
                                  /\ t_blockedby'[v] = t_blockedby[v] /\ rb_key'[v] = rb_key[v]
    BY <1>1, <1>8, <1>9 DEF IInv, TypeOK
  <1>11. /\ own' \in [Task -> [made : Nat, last : Nat, failed : BOOLEAN]]
         /\ own'[t].last = nreq + 1 /\ ~own'[t].failed
         /\ \A v \in Task \ {t} : own'[v] = own[v]
    <2>1. /\ own \in [Task -> [made : Nat, last : Nat, failed : BOOLEAN]] /\ nreq \in Nat
          /\ own[t] \in [made : Nat, last : Nat, failed : BOOLEAN]
      BY <1>1 DEF SvcInv, SvcTypes
    <2>2. [made |-> own[t].made + 1, last |-> nreq + 1, failed |-> own[t].failed]
              \in [made : Nat, last : Nat, failed : BOOLEAN]
      BY <2>1
    <2> QED BY <1>3, <2>1, <2>2
  <1>12. /\ t_svcreq'[t] = nreq + 1 /\ t_svcreqtime'[t] = now
         /\ \A v \in Task \ {t} : /\ t_svcreq'[v] = t_svcreq[v]
                                  /\ t_svcreqtime'[v] = t_svcreqtime[v]
    BY <1>1, <1>3 DEF SvcInv, SvcTypes
  <1>13. PICK q : q = svc_taskq[a]
    OBVIOUS
  <1>14. q \in Seq(Task) /\ NoDup(q) /\ ~Within(t, q)
    BY <1>1, <1>2, <1>13 DEF SvcInv, SvcTypes, QueueOK
  <1>15. PICK r : r = Append(q, t)
    OBVIOUS
  <1>16. /\ r \in Seq(Task) /\ NoDup(r) /\ r # <<>>
         /\ \A y : Within(y, r) <=> Within(y, q) \/ y = t
         /\ q # <<>> => Head(r) = Head(q)
    BY <1>14, <1>15, AppendNew, AppendProperties
  <1>17. svc_taskq'[a] = r /\ svc_taskq' \in [Svc -> Seq(Task)]
    BY <1>1, <1>3, <1>13, <1>15, <1>16 DEF SvcInv, SvcTypes
  <1>18. \A u : Within(u, svc_taskq[a])' <=> Within(u, q) \/ u = t
    BY <1>16, <1>17 DEF Within
  <1>19. SvcTypes'
    <2>1. now \in Nat /\ nreq \in Nat
      BY <1>1 DEF SvcInv, SvcTypes, IInv, TypeOK
    <2>2. /\ t_svcreq' \in [Task -> Int] /\ t_svcreqtime' \in [Task -> Nat \cup {NoTime}]
          /\ nreq' \in Nat
      <3>1. nreq + 1 \in Nat /\ nreq + 1 \in Int /\ now \in Nat \cup {NoTime}
        BY <2>1
      <3> QED BY <1>1, <1>3, <3>1 DEF SvcInv, SvcTypes
    <2>3. /\ svc_reqing' \in Svc \cup {NoSvc} /\ svc_next' \in [Svc -> Svc \cup {NoSvc}]
          /\ svc_inreqing' \in [Svc -> BOOLEAN]
      BY <1>1, <1>5 DEF SvcInv, SvcTypes
    <2> QED BY <1>1, <1>3, <1>11, <1>17, <2>2, <2>3 DEF SvcInv, SvcTypes
  <1>20. ChainsOK(a)'
    BY <1>1, <1>3, <1>4, <1>6 DEF SvcInv, ChainsOK
  <1>21. QueueOK(a)'
    <2>1. NoDup(svc_taskq[a])'
      BY <1>16, <1>17 DEF NoDup
    <2> QED BY <1>1, <1>8, <1>10, <1>11, <1>12, <1>13, <1>18, <2>1 DEF SvcInv, QueueOK
  <1>22. \A u \in Task \ {t} : Answered(a, u)' <=> Answered(a, u)
    BY <1>3, <1>11, <1>12 DEF Answered
  <1>23. WaitsOK(a)'
    <2>1. now # NoTime
      BY <1>1 DEF IInv, TypeOK, NoTime
    <2>2. ASSUME NEW u \in Task, u # t, op'[u] = "request"
          PROVE  /\ ~own'[u].failed
                 /\ \/ /\ Unserved(u)'
                       /\ co'[u] = "parked" => t_blockedby'[u] = a
                       /\ t_svcreqtime'[u] # NoTime
                       /\ Within(u, svc_taskq[a])' \/ Answered(a, u)'
                    \/ Ended(u, 0)' /\ t_svcresp'[u] = own'[u].last
      <3>1. /\ op[u] = "request"
            /\ own'[u] = own[u] /\ t_svcreqtime'[u] = t_svcreqtime[u]
            /\ co'[u] = co[u] /\ t_blockedby'[u] = t_blockedby[u]
            /\ t_svcresp'[u] = t_svcresp[u]
            /\ Unserved(u)' <=> Unserved(u)
            /\ Ended(u, 0)' <=> Ended(u, 0)
            /\ Answered(a, u)' <=> Answered(a, u)
            /\ Within(u, svc_taskq[a]) => Within(u, svc_taskq[a])'
        BY <1>3, <1>8, <1>10, <1>11, <1>12, <1>13, <1>18, <1>22, <2>2
      <3> QED BY <1>1, <3>1 DEF SvcInv, WaitsOK
    <2>3. /\ ~own'[t].failed /\ Unserved(t)' /\ t_blockedby'[t] = a
          /\ t_svcreqtime'[t] # NoTime /\ Within(t, svc_taskq[a])'
      BY <1>8, <1>10, <1>11, <1>12, <1>18, <2>1
    <2> QED BY <2>2, <2>3 DEF WaitsOK
  <1>24. AnswerOK(a)'
    <2>1. svc_inresping[a] => svc_task[a] \in Task /\ svc_task[a] # t
      BY <1>1, <1>2, <1>3 DEF SvcInv, AnswerOK
    <2> QED BY <1>1, <1>3, <1>8, <1>10, <1>11, <1>22, <2>1 DEF SvcInv, AnswerOK
  <1>25. HandlingOK(a)'
    <2> SUFFICES ASSUME handling[a] # None
                 PROVE  /\ ~svc_inresping[a]
                        /\ \/ own'[handling[a]].failed
                           \/ /\ r # <<>> /\ Head(r) = handling[a]
                              /\ handled[a] = own'[handling[a]].last
                              /\ t_svcreqtime'[handling[a]] <= svc_tmhandle[a]
      BY <1>3, <1>17 DEF HandlingOK
    <2>1. handling[a] # t /\ handling[a] \in Task
      <3>1. q # <<>> => Within(Head(q), q)
        BY <1>14, TailRemoves
      <3> QED BY <1>1, <1>3, <1>13, <1>14, <3>1 DEF SvcInv, SvcTypes, HandlingOK
    <2> QED BY <1>1, <1>3, <1>11, <1>12, <1>13, <1>16, <2>1 DEF SvcInv, HandlingOK
  <1>26. TimesOK'
    <2>1. now' = now /\ now <= now
      BY <1>1, <1>3 DEF IInv, TypeOK
    <2> QED BY <1>1, <1>11, <1>12, <2>1 DEF SvcInv, TimesOK
  <1>27. OwnerOK(a)'
    <2>1. Blocked(a)' <=> Blocked(a)
      BY <1>1, <1>9, <1>10 DEF Blocked
    <2>2. op'[o] = op[o] /\ rb_key'[o] = rb_key[o] /\ t_blockedby'[o] = t_blockedby[o]
      BY <1>1, <1>10
    <2> QED BY <1>1, <1>3, <1>6, <2>1, <2>2 DEF SvcInv, OwnerOK
  <1> QED BY <1>7, <1>8, <1>19, <1>20, <1>21, <1>23, <1>24, <1>25, <1>26, <1>27
          DEF SvcIInv, SvcInv

LEMMA RequestReturn ==
    ASSUME TaskAssumption, ServiceAssumption, NEW a, OneService(a), SvcIInv(a),
           NEW t \in Task, t # svc_owner[a], request_return(t)
    PROVE  SvcIInv(a)'
  <1> DEFINE o == svc_owner[a]
  <1>1. IInv /\ JoinInv /\ NoSignals /\ SvcInv(a) /\ a \in Svc /\ a # NoSvc /\ o \in Task
    BY OnlyService DEF SvcIInv
  <1>2. /\ current = t /\ co[t] = "back" /\ op[t] = "request"
        /\ co' = [co EXCEPT ![t] = "run"]
        /\ op' = [op EXCEPT ![t] = "none"]
        /\ till' = [till EXCEPT ![t] = NoTimer]
        /\ ret' = [ret EXCEPT ![t] = 0]
        /\ UNCHANGED <<svc_reqing, svc_resping, svc_next, svc_inreqing, svc_inresping>>
        /\ UNCHANGED <<svc_task, svc_resp, svc_tmhandle, handling, handled>>
        /\ UNCHANGED <<t_svcreq, t_svcresp, phase, walk, busy_list, nreq>>
        /\ UNCHANGED <<readyVars, taskVars, current, loopVars, at, now>>
    BY DEF request_return, listVars, serveVars, scheduleVars, loopVars
  <1>3. IInv' /\ JoinInv'
    BY <1>1, <1>2, CallReturns, JoinReturnOther
  <1>4. /\ op'[t] = "none" /\ NoSignals'
        /\ \A v \in Task \ {t} : /\ op'[v] = op[v]
                                 /\ Unserved(v)' <=> Unserved(v)
                                 /\ Ended(v, 0)' <=> Ended(v, 0)
        /\ Ended(t, 0) <=> ret[t] = 0
    BY <1>1, <1>2, WaitOver
  <1>5. /\ \A v \in Task \ {t} : co'[v] = co[v]
        /\ UNCHANGED <<t_blockedby, rb_key, t_prev>>
    BY <1>1, <1>2 DEF IInv, TypeOK, readyVars
  <1>6. PICK q : q = svc_taskq[a]
    OBVIOUS
  <1>7. q \in Seq(Task) /\ NoDup(q)
    BY <1>1, <1>6 DEF SvcInv, SvcTypes, QueueOK
  <1>8. ~own[t].failed /\ (Within(t, q) => ret[t] # 0 /\ t_svcreq[t] # MARK_NOT_IN_CHAIN)
    <2>1. ~own[t].failed /\ own[t].last \in Nat
      BY <1>1, <1>2 DEF SvcInv, SvcTypes, WaitsOK
    <2>2. Within(t, q) => Unserved(t) /\ t_svcreq[t] = own[t].last
      BY <1>1, <1>6 DEF SvcInv, QueueOK
    <2> QED BY <1>4, <2>1, <2>2, OneOutcome DEF MARK_NOT_IN_CHAIN
  <1>9. /\ own' \in [Task -> [made : Nat, last : Nat, failed : BOOLEAN]]
        /\ t_svcreqtime' \in [Task -> Nat \cup {NoTime}]
        /\ \A v \in Task \ {t} : own'[v] = own[v] /\ t_svcreqtime'[v] = t_svcreqtime[v]
        /\ t_svcreqtime'[t] \in {t_svcreqtime[t], NoTime}
        /\ ret[t] # 0 <=> own'[t].failed
        /\ own'[t].failed => t_svcreqtime'[t] = NoTime
    <2>1. /\ own \in [Task -> [made : Nat, last : Nat, failed : BOOLEAN]]
          /\ t_svcreqtime \in [Task -> Nat \cup {NoTime}]
          /\ own[t] \in [made : Nat, last : Nat, failed : BOOLEAN]
      BY <1>1 DEF SvcInv, SvcTypes
    <2>2. CASE ret[t] = 0
      BY <1>8, <2>1, <2>2 DEF request_return
    <2>3. CASE ret[t] # 0
      <3>1. /\ t_svcreqtime' = [t_svcreqtime EXCEPT ![t] = NoTime]
            /\ own' = [own EXCEPT ![t] = [made |-> own[t].made, last |-> own[t].last,
                                          failed |-> TRUE]]
        BY <2>1, <2>3 DEF request_return
      <3> QED BY <2>1, <2>3, <3>1
    <2> QED BY <2>2, <2>3
  <1>10. PICK r : r = svc_taskq'[a]
    OBVIOUS
  <1>11. /\ svc_taskq' \in [Svc -> Seq(Task)] /\ NoDup(r)
         /\ \A u \in Task : Within(u, r) <=> Within(u, q) /\ u # t
         /\ q # <<>> /\ Head(q) # t => r # <<>> /\ Head(r) = Head(q)
    <2>1. CASE Within(t, q)
      <3>1. svc_taskq' = [s \in Svc |-> RemoveFirst(svc_taskq[s], t)]
        BY <1>8, <2>1 DEF request_return, give_up
      <3>2. r = RemoveFirst(q, t) /\ svc_taskq' = [s \in Svc |-> r]
        BY <1>1, <1>6, <1>10, <3>1, OnlyService
      <3> QED BY <1>7, <2>1, <3>2, RemoveFirstLeaves
    <2>2. CASE ~Within(t, q)
      <3>1. svc_taskq' = svc_taskq
        BY <2>2, <1>4, <1>1, <1>2, <1>6 DEF request_return, give_up, SvcInv, WaitsOK, Answered
      <3>2. r = q /\ svc_taskq' \in [Svc -> Seq(Task)]
        BY <1>1, <1>6, <1>10, <3>1 DEF SvcInv, SvcTypes
      <3> QED BY <1>7, <2>2, <3>2
    <2> QED BY <2>1, <2>2
  <1>12. \A u \in Task : Within(u, svc_taskq[a])' <=> Within(u, q) /\ u # t
    BY <1>10, <1>11 DEF Within
  <1>13. SvcTypes'
    BY <1>1, <1>2, <1>9, <1>11 DEF SvcInv, SvcTypes
  <1>14. ChainsOK(a)'
    BY <1>1, <1>2 DEF SvcInv, ChainsOK
  <1>15. QueueOK(a)'
    <2>1. NoDup(svc_taskq[a])'
      BY <1>10, <1>11 DEF NoDup
    <2> QED BY <1>1, <1>2, <1>4, <1>6, <1>9, <1>12, <2>1 DEF SvcInv, QueueOK
  <1>16. \A u \in Task \ {t} : Answered(a, u)' <=> Answered(a, u)
    BY <1>2, <1>9 DEF Answered
  <1>17. WaitsOK(a)'
    BY <1>1, <1>2, <1>4, <1>5, <1>6, <1>9, <1>12, <1>16 DEF SvcInv, WaitsOK
  <1>18. AnswerOK(a)'
    <2>1. svc_inresping[a] /\ svc_task[a] = t => own'[t].failed
      BY <1>1, <1>4, <1>8, <1>9, OneOutcome DEF SvcInv, AnswerOK
    <2> QED BY <1>1, <1>2, <1>4, <1>9, <1>16, <2>1 DEF SvcInv, AnswerOK
  <1>19. HandlingOK(a)'
    <2> SUFFICES ASSUME NEW h \in Task, h = handling[a], h # None
                 PROVE  /\ ~svc_inresping[a]
                        /\ \/ own'[h].failed
                           \/ /\ r # <<>> /\ Head(r) = h
                              /\ handled[a] = own'[h].last
                              /\ t_svcreqtime'[h] <= svc_tmhandle[a]
      BY <1>1, <1>2, <1>10 DEF HandlingOK, SvcInv, SvcTypes
    <2>1. /\ ~svc_inresping[a]
          /\ \/ own[h].failed
             \/ /\ q # <<>> /\ Head(q) = h
                /\ handled[a] = own[h].last
                /\ t_svcreqtime[h] <= svc_tmhandle[a]
      BY <1>1, <1>6 DEF SvcInv, HandlingOK
    <2>2. CASE h # t
      BY <1>9, <1>11, <2>1, <2>2
    <2>3. CASE h = t
      <3>1. Within(t, q)
        BY <1>7, <1>8, <2>1, <2>3, TailRemoves
      <3> QED BY <1>8, <1>9, <2>1, <2>3, <3>1
    <2> QED BY <2>2, <2>3
  <1>20. TimesOK'
    <2>1. now \in Nat
      BY <1>1 DEF IInv, TypeOK
    <2> QED BY <1>1, <1>2, <1>9, <2>1 DEF SvcInv, TimesOK, NoTime
  <1>21. OwnerOK(a)'
    <2>1. Blocked(a)' <=> Blocked(a)
      BY <1>1, <1>4, <1>5 DEF Blocked
    <2>2. op'[o] = op[o] /\ rb_key'[o] = rb_key[o] /\ t_blockedby'[o] = t_blockedby[o]
      BY <1>1, <1>4, <1>5
    <2>3. svc_taskq'[a] # <<>> => q # <<>>
      <3>1. r \in Seq(Task) /\ (r # <<>> => Head(r) \in Task /\ Within(Head(r), r))
        BY <1>1, <1>10, <1>11, TailRemoves, HeadTailProperties
      <3>2. Within(Head(r), q) => q # <<>>
        BY <1>7, EmptySeq DEF Within
      <3> QED BY <1>10, <1>11, <3>1, <3>2
    <2> QED BY <1>1, <1>2, <1>6, <2>1, <2>2, <2>3 DEF SvcInv, OwnerOK
  <1> QED BY <1>3, <1>4, <1>13, <1>14, <1>15, <1>17, <1>18, <1>19, <1>20, <1>21
          DEF SvcIInv, SvcInv

---------------------------------------------------------------------------
(* The steps of service_schedule *)

LEMMA ScheduleStarts ==
    ASSUME TaskAssumption, ServiceAssumption, NEW a, OneService(a), SvcIInv(a),
           schedule \/ schedule_resping
    PROVE  SvcIInv(a)'
  <1>1. IInv /\ JoinInv /\ NoSignals /\ SvcInv(a) /\ a # NoSvc
    BY OnlyService DEF SvcIInv
  <1>2. /\ at = "modules" /\ current = None
        /\ UNCHANGED <<svc_resping, svc_next, svc_inreqing, svc_inresping>>
        /\ UNCHANGED <<svc_task, svc_resp, svc_tmhandle, handling, handled>>
        /\ UNCHANGED <<svc_taskq, t_svcreq, t_svcreqtime, t_svcresp, nreq, own>>
        /\ UNCHANGED <<readyVars, taskVars, coVars, loopVars, now>>
        /\ UNCHANGED <<rb_key, t_prev, t_err, t_blockedby, co, op, ret, at, current>>
    BY DEF schedule, schedule_resping, Idle, listVars, serveVars, requestVars, reqHistory,
           vars, readyVars, coVars, loopVars
  <1>3. \/ /\ phase = "idle" /\ phase' = "reqing" /\ walk' = svc_reqing
           /\ busy_list' = NoSvc /\ svc_reqing' = svc_reqing
        \/ /\ phase = "reqing" /\ phase' = "resping" /\ walk = NoSvc
           /\ walk' = svc_resping /\ busy_list' = busy_list /\ svc_reqing' = busy_list
    BY DEF schedule, schedule_resping, listVars
  <1>4. IInv' /\ JoinInv' /\ NoSignals'
    BY <1>1, <1>2, ServeScheduled
  <1>5. RequestsAside
    BY <1>2 DEF RequestsAside, Unserved, Ended
  <1>6. QueueOK(a)' /\ WaitsOK(a)' /\ AnswerOK(a)'
    BY <1>1, <1>2, <1>5, RequestsStay DEF requestVars
  <1>7. SvcTypes'
    BY <1>1, <1>2, <1>3 DEF SvcInv, SvcTypes
  <1>8. ChainsOK(a)'
    BY <1>1, <1>2, <1>3 DEF SvcInv, ChainsOK
  <1>9. HandlingOK(a)' /\ TimesOK' /\ OwnerOK(a)'
    BY <1>1, <1>2 DEF SvcInv, HandlingOK, TimesOK, OwnerOK, Blocked
  <1> QED BY <1>4, <1>6, <1>7, <1>8, <1>9 DEF SvcIInv, SvcInv

\* The owner is woken, or the service kept for the next round.
LEMMA ScheduleReqing ==
    ASSUME TaskAssumption, ServiceAssumption, NEW a, OneService(a), SvcIInv(a),
           schedule_reqing
    PROVE  SvcIInv(a)'
  <1> DEFINE o == svc_owner[a]
  <1>1. /\ IInv /\ JoinInv /\ NoSignals /\ SvcInv(a) /\ a \in Svc /\ a # NoSvc /\ o \in Task
        /\ \A s \in Svc : s = a
    BY OnlyService DEF SvcIInv
  <1>2. /\ at = "modules" /\ current = None /\ phase = "reqing" /\ walk = a
        /\ walk' = svc_next[a]
        /\ UNCHANGED <<svc_reqing, svc_resping, svc_inresping>>
        /\ UNCHANGED <<svc_task, svc_resp, svc_tmhandle, handling, handled>>
        /\ UNCHANGED <<svc_taskq, t_svcreq, t_svcreqtime, t_svcresp, phase, nreq, own>>
        /\ UNCHANGED <<taskVars, coVars, loopVars, now>>
        /\ UNCHANGED <<co, op, ret, at, current>>
    <2>1. walk = a
      BY <1>1 DEF schedule_reqing, SvcInv, SvcTypes
    <2> QED BY <2>1 DEF schedule_reqing, Idle, serveVars, requestVars, reqHistory,
                        coVars, loopVars
  <1>3. svc_next[a] = NoSvc /\ svc_inreqing[a] /\ busy_list = NoSvc
    BY <1>1, <1>2 DEF SvcInv, ChainsOK
  <1>4. \/ /\ t_blockedby[o] = a
           /\ svc_next' = [svc_next EXCEPT ![a] = NoSvc]
           /\ svc_inreqing' = [svc_inreqing EXCEPT ![a] = FALSE]
           /\ push_ready(o, 0)
           /\ busy_list' = NoSvc
        \/ /\ t_blockedby[o] # a
           /\ svc_next' = [svc_next EXCEPT ![a] = NoSvc]
           /\ busy_list' = a
           /\ UNCHANGED <<svc_inreqing, readyVars>>
    BY <1>2, <1>3 DEF schedule_reqing
  <1>5. SvcTypes'
    <2>1. /\ svc_next' \in [Svc -> Svc \cup {NoSvc}] /\ svc_inreqing' \in [Svc -> BOOLEAN]
          /\ busy_list' \in Svc \cup {NoSvc} /\ walk' \in Svc \cup {NoSvc}
      BY <1>1, <1>2, <1>3, <1>4 DEF SvcInv, SvcTypes
    <2> QED BY <1>1, <1>2, <2>1 DEF SvcInv, SvcTypes
  <1>6. ChainsOK(a)'
    <2>1. svc_next'[a] = NoSvc /\ (busy_list' = a <=> svc_inreqing'[a])
      BY <1>1, <1>3, <1>4 DEF SvcInv, SvcTypes
    <2> QED BY <1>1, <1>2, <1>3, <2>1 DEF SvcInv, ChainsOK
  <1>7. HandlingOK(a)' /\ TimesOK'
    BY <1>1, <1>2 DEF SvcInv, HandlingOK, TimesOK
  <1>8. /\ IInv' /\ JoinInv' /\ NoSignals' /\ OwnerOK(a)' /\ RequestsAside
    <2>1. CASE t_blockedby[o] = a
      <3>1. co[o] = "parked" /\ op[o] = "serve" /\ ~t_prev[o]
        BY <1>1, <2>1 DEF SvcInv, OwnerOK, Blocked
      <3>2. push_ready(o, 0)
        BY <1>4, <2>1
      <3>3. IInv' /\ JoinInv' /\ NoSignals'
        BY <1>1, <1>2, <3>1, <3>2, ServeScheduled
      <3>4. /\ t_prev' = [t_prev EXCEPT ![o] = TRUE]
            /\ rb_key' = [rb_key EXCEPT ![o] = NoTimer]
            /\ t_blockedby' = [t_blockedby EXCEPT ![o] = NoObj]
        BY <3>1, <3>2 DEF push_ready, Linked, disarm
      <3>5. /\ t_prev'[o] /\ rb_key'[o] = NoTimer /\ t_blockedby'[o] = NoObj
            /\ \A u \in Task \ {o} : t_blockedby'[u] = t_blockedby[u]
        BY <1>1, <3>4 DEF IInv, TypeOK
      <3>6. OwnerOK(a)'
        BY <1>1, <3>5 DEF OwnerOK, Blocked, NoSvc
      <3>7. RequestsAside
        BY <1>1, <1>2, <3>1, <3>2, <3>5, Served DEF RequestsAside
      <3> QED BY <3>3, <3>6, <3>7
    <2>2. CASE t_blockedby[o] # a
      <3>1. UNCHANGED <<readyVars, t_prev, t_err, rb_key, t_blockedby, svc_inreqing>>
        BY <1>4, <2>2 DEF readyVars
      <3>2. IInv' /\ JoinInv' /\ NoSignals'
        BY <1>1, <1>2, <3>1, ServeScheduled
      <3>3. OwnerOK(a)' /\ RequestsAside
        BY <1>1, <1>2, <3>1 DEF SvcInv, OwnerOK, Blocked, RequestsAside, Unserved, Ended
      <3> QED BY <3>2, <3>3
    <2> QED BY <2>1, <2>2
  <1>9. QueueOK(a)' /\ WaitsOK(a)' /\ AnswerOK(a)'
    BY <1>1, <1>2, <1>8, RequestsStay DEF requestVars
  <1> QED BY <1>5, <1>6, <1>7, <1>8, <1>9 DEF SvcIInv, SvcInv

LEMMA ScheduleReturn ==
    ASSUME TaskAssumption, ServiceAssumption, NEW a, OneService(a), SvcIInv(a),
           schedule_return
    PROVE  SvcIInv(a)'
  <1>1. IInv /\ JoinInv /\ NoSignals /\ SvcInv(a) /\ a # NoSvc
    BY OnlyService DEF SvcIInv
  <1>2. /\ phase = "resping" /\ walk = NoSvc /\ phase' = "idle" /\ svc_resping' = NoSvc
        /\ at' \in {"resume_list", "calc_waittime"} /\ caller' \in {"modules", caller}
        /\ UNCHANGED <<svc_reqing, svc_next, svc_inreqing, svc_inresping, walk, busy_list>>
        /\ UNCHANGED <<svc_task, svc_resp, svc_tmhandle, handling, handled>>
        /\ UNCHANGED <<svc_taskq, t_svcreq, t_svcreqtime, t_svcresp, nreq, own>>
        /\ UNCHANGED <<readyVars, taskVars, coVars, batch, now>>
        /\ UNCHANGED <<ready, rb_key, t_prev, t_err, t_blockedby, co, op, ret, current>>
    BY DEF schedule_return, serveVars, requestVars, reqHistory, readyVars, coVars
  <1>3. IInv'
    <2>1. TypeOK'
      BY <1>1, <1>2 DEF IInv, TypeOK, readyVars, taskVars, coVars
    <2>2. ListsMatch'
      BY <1>1, <1>2, ListsStay DEF IInv
    <2>3. OnePlace' /\ SignalsPending' /\ NoSignalInside' /\ ParentsExist'
      BY <1>1, <1>2 DEF IInv, OnePlace, SignalsPending, NoSignalInside, ParentsExist, taskVars
    <2> QED BY <2>1, <2>2, <2>3 DEF IInv
  <1>4. JoinInv'
    BY <1>1, <1>2, JoinFrame DEF JoinInv, OpInside, OnlyReaped, taskVars
  <1>5. NoSignals'
    BY <1>1, <1>2 DEF NoSignals, taskVars
  <1>6. RequestsAside
    BY <1>2 DEF RequestsAside, Unserved, Ended
  <1>7. QueueOK(a)' /\ WaitsOK(a)' /\ AnswerOK(a)'
    BY <1>1, <1>2, <1>6, RequestsStay DEF requestVars
  <1>8. SvcTypes'
    BY <1>1, <1>2 DEF SvcInv, SvcTypes
  <1>9. ChainsOK(a)'
    BY <1>1, <1>2 DEF SvcInv, ChainsOK
  <1>10. HandlingOK(a)' /\ TimesOK' /\ OwnerOK(a)'
    BY <1>1, <1>2 DEF SvcInv, HandlingOK, TimesOK, OwnerOK, Blocked
  <1> QED BY <1>3, <1>4, <1>5, <1>7, <1>8, <1>9, <1>10 DEF SvcIInv, SvcInv

\* Of all tasks only t is given an answer.
OnlyServed(t) ==
    \A u \in Task \ {t} : /\ Unserved(u)' <=> Unserved(u)
                          /\ Ended(u, 0)' <=> Ended(u, 0)
                          /\ t_svcresp'[u] = t_svcresp[u]

\* Of all tasks only t is made ready.
OnlyPushed(t) ==
    \A u \in Task \ {t} : /\ t_prev'[u] = t_prev[u] /\ rb_key'[u] = rb_key[u]
                          /\ t_blockedby'[u] = t_blockedby[u]

\* The answer is handed to the task that waits for it.
LEMMA AnswerDelivered ==
    ASSUME TaskAssumption, ServiceAssumption, NEW a, OneService(a), SvcIInv(a),
           NEW t \in Task, t = svc_task[a], svc_inresping[a], current = None,
           deliverable(a, t), push_ready(t, 0), UNCHANGED <<taskVars, coVars, loopVars, now>>,
           t_svcresp' = [t_svcresp EXCEPT ![t] = svc_resp[a]]
    PROVE  /\ IInv' /\ JoinInv' /\ NoSignals'
           /\ op[t] = "request" /\ t_svcreq[t] = MARK_NOT_IN_CHAIN
           /\ Ended(t, 0)' /\ t_svcresp'[t] = own[t].last
           /\ OnlyServed(t) /\ OnlyPushed(t)
  <1>1. /\ IInv /\ JoinInv /\ NoSignals /\ SvcInv(a)
    BY OnlyService DEF SvcIInv
  <1>2. t_blockedby[t] = a /\ t_svcreqtime[t] # NoTime
    BY DEF deliverable
  <1>3. ~own[t].failed
    BY <1>1, <1>2 DEF SvcInv, TimesOK
  <1>4. op[t] = "request" /\ Unserved(t) /\ Answered(a, t)
    BY <1>1, <1>3 DEF SvcInv, AnswerOK
  <1>5. co[t] = "parked" /\ ~t_prev[t]
    BY <1>1, <1>4 DEF Unserved, IInv, OnePlace, Task, None
  <1>6. IInv' /\ JoinInv' /\ NoSignals'
    BY <1>1, <1>4, <1>5, ServeScheduled
  <1>7. /\ Ended(t, 0)'
        /\ \A u \in Task \ {t} : /\ Unserved(u)' <=> Unserved(u)
                                 /\ Ended(u, 0)' <=> Ended(u, 0)
    BY <1>1, <1>5, Served
  <1>8. OnlyPushed(t)
    BY <1>1, <1>5 DEF OnlyPushed, push_ready, disarm, readyVars, IInv, TypeOK
  <1>9. /\ t_svcresp'[t] = svc_resp[a]
        /\ \A u \in Task \ {t} : t_svcresp'[u] = t_svcresp[u]
    BY <1>1 DEF SvcInv, SvcTypes
  <1>10. t_svcreq[t] = MARK_NOT_IN_CHAIN /\ t_svcresp'[t] = own[t].last
    BY <1>4, <1>9 DEF Answered
  <1>11. OnlyServed(t)
    BY <1>7, <1>9 DEF OnlyServed
  <1> QED BY <1>4, <1>6, <1>7, <1>8, <1>10, <1>11

\* The service is free for its next request.
LEMMA ScheduleAnswer ==
    ASSUME TaskAssumption, ServiceAssumption, NEW a, OneService(a), SvcIInv(a),
           schedule_answer
    PROVE  SvcIInv(a)'
  <1> DEFINE o == svc_owner[a]
  <1>1. /\ IInv /\ JoinInv /\ NoSignals /\ SvcInv(a) /\ a \in Svc /\ a # NoSvc /\ o \in Task
        /\ \A s \in Svc : s = a
    BY OnlyService DEF SvcIInv
  <1>2. PICK t : t = svc_task[a]
    OBVIOUS
  <1>3. /\ at = "modules" /\ current = None /\ phase = "resping" /\ walk = a
        /\ walk' = svc_next[a]
        /\ svc_inresping' = [svc_inresping EXCEPT ![a] = FALSE]
        /\ UNCHANGED <<svc_resping, svc_task, svc_resp, svc_tmhandle, handling, handled>>
        /\ UNCHANGED <<svc_taskq, t_svcreq, t_svcreqtime, phase, busy_list, nreq, own>>
        /\ UNCHANGED <<taskVars, coVars, loopVars, now>>
        /\ UNCHANGED <<co, op, ret, at, current>>
    <2>1. walk = a
      BY <1>1 DEF schedule_answer, SvcInv, SvcTypes
    <2> QED BY <2>1 DEF schedule_answer, Idle, serveVars, reqHistory, coVars, loopVars
  <1>4. \/ more_to_do(a) /\ announced(a)
        \/ /\ ~more_to_do(a)
           /\ svc_next' = [svc_next EXCEPT ![a] = NoSvc]
           /\ UNCHANGED <<svc_reqing, svc_inreqing>>
    BY <1>3 DEF schedule_answer
  <1>5. \/ /\ deliverable(a, t) /\ push_ready(t, 0)
           /\ t_svcresp' = [t_svcresp EXCEPT ![t] = svc_resp[a]]
        \/ ~deliverable(a, t) /\ UNCHANGED <<t_svcresp, readyVars>>
    BY <1>2, <1>3 DEF schedule_answer
  <1>6. /\ svc_next[a] = NoSvc /\ svc_inresping[a] /\ handling[a] = None
        /\ svc_reqing = a <=> svc_inreqing[a]
        /\ svc_reqing \in {a, NoSvc}
    BY <1>1, <1>3 DEF SvcInv, SvcTypes, ChainsOK, HandlingOK
  <1>7. ~svc_inresping'[a]
    BY <1>1, <1>3 DEF SvcInv, SvcTypes
  <1>8. /\ svc_next' = [svc_next EXCEPT ![a] = NoSvc]
        /\ svc_reqing' = a <=> svc_inreqing'[a]
        /\ svc_inreqing[a] => svc_inreqing'[a]
        /\ svc_taskq[a] # <<>> => svc_inreqing'[a]
        /\ svc_reqing' \in Svc \cup {NoSvc} /\ svc_inreqing' \in [Svc -> BOOLEAN]
    <2>1. CASE more_to_do(a)
      <3>1. /\ svc_next' = [svc_next EXCEPT ![a] = svc_reqing] /\ svc_reqing' = a
            /\ svc_inreqing' = [svc_inreqing EXCEPT ![a] = TRUE]
            /\ ~svc_inreqing[a]
        BY <1>4, <2>1 DEF more_to_do, announced
      <3>2. svc_reqing = NoSvc
        BY <1>6, <3>1
      <3> QED BY <1>1, <3>1, <3>2 DEF SvcInv, SvcTypes
    <2>2. CASE ~more_to_do(a)
      BY <1>1, <1>4, <1>6, <2>2 DEF more_to_do, SvcInv, SvcTypes
    <2> QED BY <2>1, <2>2
  <1>9. t \in Task /\ (own[t].failed \/ (op[t] = "request" /\ Unserved(t) /\ Answered(a, t)))
    BY <1>1, <1>2, <1>6 DEF SvcInv, AnswerOK
  <1>10. ~deliverable(a, t) => own[t].failed
    <2> SUFFICES ASSUME ~own[t].failed
                 PROVE  deliverable(a, t)
      OBVIOUS
    <2>1. op[t] = "request" /\ Unserved(t) /\ Answered(a, t)
      BY <1>9
    <2>2. co[t] = "parked"
      BY <1>1, <1>3, <1>9, <2>1 DEF Unserved, IInv, OnePlace, Task, None
    <2>3. ~Ended(t, 0)
      BY <2>1, OneOutcome
    <2> QED BY <1>1, <1>9, <2>1, <2>2, <2>3 DEF SvcInv, WaitsOK, Answered, deliverable
  <1>11. /\ IInv' /\ JoinInv' /\ NoSignals'
         /\ t_svcresp' \in [Task -> Int]
         /\ \A u \in Task : op[u] = "request" =>
                \/ Ended(u, 0)' /\ t_svcresp'[u] = own[u].last
                   /\ t_svcreq[u] = MARK_NOT_IN_CHAIN
                \/ /\ u # t /\ t_blockedby'[u] = t_blockedby[u]
                   /\ t_svcresp'[u] = t_svcresp[u]
                   /\ Unserved(u)' <=> Unserved(u)
                   /\ Ended(u, 0)' <=> Ended(u, 0)
         /\ op[o] = "serve" => rb_key'[o] = NoTimer
         /\ t_blockedby'[o] = a <=> Blocked(a)'
         /\ Blocked(a)' => Blocked(a)
    <2>1. CASE deliverable(a, t)
      <3>1. /\ push_ready(t, 0) /\ t_svcresp' = [t_svcresp EXCEPT ![t] = svc_resp[a]]
        BY <1>5, <2>1
      <3>2. /\ IInv' /\ JoinInv' /\ NoSignals'
            /\ op[t] = "request" /\ t_svcreq[t] = MARK_NOT_IN_CHAIN
            /\ Ended(t, 0)' /\ t_svcresp'[t] = own[t].last
            /\ OnlyServed(t) /\ OnlyPushed(t)
        BY <1>2, <1>3, <1>6, <1>9, <2>1, <3>1, AnswerDelivered
      <3>3. t_svcresp' \in [Task -> Int]
        BY <1>1, <3>1 DEF SvcInv, SvcTypes
      <3>4. o # t
        BY <1>1, <2>1, <3>2 DEF deliverable, SvcInv, OwnerOK, Blocked
      <3>5. /\ t_prev'[o] = t_prev[o] /\ rb_key'[o] = rb_key[o]
            /\ t_blockedby'[o] = t_blockedby[o]
        BY <1>1, <3>2, <3>4 DEF OnlyPushed
      <3>6. Blocked(a)' <=> Blocked(a)
        BY <1>3, <3>5 DEF Blocked
      <3>7. ASSUME NEW u \in Task \ {t}
            PROVE  /\ t_blockedby'[u] = t_blockedby[u] /\ t_svcresp'[u] = t_svcresp[u]
                   /\ Unserved(u)' <=> Unserved(u)
                   /\ Ended(u, 0)' <=> Ended(u, 0)
        BY <3>2, <3>7 DEF OnlyServed, OnlyPushed
      <3>8. /\ op[o] = "serve" => rb_key'[o] = NoTimer
            /\ t_blockedby'[o] = a <=> Blocked(a)'
        BY <1>1, <3>5, <3>6 DEF SvcInv, OwnerOK
      <3> QED BY <3>2, <3>3, <3>6, <3>7, <3>8
    <2>2. CASE ~deliverable(a, t)
      <3>1. UNCHANGED <<t_svcresp, readyVars, t_prev, t_err, t_blockedby, rb_key>>
        BY <1>5, <2>2 DEF readyVars
      <3>2. IInv' /\ JoinInv' /\ NoSignals'
        BY <1>1, <1>3, <3>1, ServeScheduled
      <3>3. op[t] # "request"
        BY <1>1, <1>9, <1>10, <2>2 DEF SvcInv, WaitsOK
      <3>4. Blocked(a)' <=> Blocked(a)
        BY <1>3, <3>1 DEF Blocked
      <3>5. t_svcresp' \in [Task -> Int]
        BY <1>1, <3>1 DEF SvcInv, SvcTypes
      <3>6. \A u : (Unserved(u)' <=> Unserved(u)) /\ (Ended(u, 0)' <=> Ended(u, 0))
        BY <1>3, <3>1 DEF Unserved, Ended
      <3> QED BY <1>1, <3>1, <3>2, <3>3, <3>4, <3>5, <3>6 DEF SvcInv, OwnerOK
    <2> QED BY <2>1, <2>2
  <1>12. SvcTypes'
    <2>1. /\ svc_next' \in [Svc -> Svc \cup {NoSvc}] /\ svc_inresping' \in [Svc -> BOOLEAN]
          /\ walk' \in Svc \cup {NoSvc}
      BY <1>1, <1>3, <1>6, <1>8 DEF SvcInv, SvcTypes
    <2> QED BY <1>1, <1>3, <1>8, <1>11, <2>1 DEF SvcInv, SvcTypes
  <1>13. ChainsOK(a)'
    <2>1. svc_next'[a] = NoSvc
      BY <1>1, <1>8 DEF SvcInv, SvcTypes
    <2> QED BY <1>1, <1>3, <1>6, <1>7, <1>8, <2>1 DEF SvcInv, ChainsOK
  <1>14. \A u : Within(u, svc_taskq[a])' <=> Within(u, svc_taskq[a])
    BY <1>3 DEF Within
  <1>15. QueueOK(a)'
    <2>1. NoDup(svc_taskq[a])'
      BY <1>1, <1>3 DEF SvcInv, QueueOK, NoDup
    <2>2. ASSUME NEW u \in Task, Within(u, svc_taskq[a])
          PROVE  op[u] = "request" /\ Unserved(u)' /\ t_svcreq[u] = own[u].last
      <3>1. op[u] = "request" /\ Unserved(u) /\ t_svcreq[u] = own[u].last
        BY <1>1, <2>2 DEF SvcInv, QueueOK
      <3>2. t_svcreq[u] # MARK_NOT_IN_CHAIN
        BY <1>1, <3>1 DEF SvcInv, SvcTypes, MARK_NOT_IN_CHAIN
      <3> QED BY <1>11, <3>1, <3>2
    <2> QED BY <1>3, <1>14, <2>1, <2>2 DEF QueueOK
  <1>16. WaitsOK(a)'
    <2>1. ASSUME NEW u \in Task, op[u] = "request"
          PROVE  /\ ~own[u].failed
                 /\ \/ /\ Unserved(u)'
                       /\ co[u] = "parked" => t_blockedby'[u] = a
                       /\ t_svcreqtime[u] # NoTime
                       /\ Within(u, svc_taskq[a])
                    \/ Ended(u, 0)' /\ t_svcresp'[u] = own[u].last
      BY <1>1, <1>2, <1>11, <2>1 DEF SvcInv, WaitsOK, Answered
    <2> QED BY <1>3, <1>14, <2>1 DEF WaitsOK
  <1>17. AnswerOK(a)' /\ HandlingOK(a)' /\ TimesOK'
    BY <1>1, <1>3, <1>6, <1>7 DEF SvcInv, AnswerOK, HandlingOK, TimesOK
  <1>18. OwnerOK(a)'
    BY <1>3, <1>8, <1>11 DEF OwnerOK
  <1> QED BY <1>11, <1>12, <1>13, <1>15, <1>16, <1>17, <1>18 DEF SvcIInv, SvcInv

---------------------------------------------------------------------------
(* The invariant *)

LEMMA SvcInitInvariant ==
    ASSUME TaskAssumption, ServiceAssumption, NEW a, OneService(a), SvcInit
    PROVE  SvcIInv(a)
  <1>1. a \in Svc /\ a \in Obj /\ a # NoSvc /\ svc_owner[a] \in Task
    BY OnlyService
  <1>2. Init
    BY DEF SvcInit
  <1>3. IInv /\ JoinInv
    BY <1>2, InitInvariant, JoinInit
  <1>4. /\ \A t \in Task : ~t_sig[t] /\ co[t] \in {"fresh", "none"} /\ op[t] = "none"
        /\ \A t \in Task : t_blockedby[t] = NoObj
        /\ now = 0
    BY <1>2 DEF Init
  <1>5. SvcTypes
    <2>1. <<>> \in Seq(Task)
      BY EmptySeq
    <2> QED BY <2>1 DEF SvcInit, SvcTypes, NoReq, NoTime
  <1>6. svc_taskq[a] = <<>> /\ ~svc_inresping[a] /\ handling[a] = None /\ ~svc_inreqing[a]
        /\ svc_next[a] = NoSvc
    BY <1>1 DEF SvcInit
  <1>7. ChainsOK(a)
    BY <1>1, <1>6 DEF SvcInit, ChainsOK
  <1>8. QueueOK(a)
    <2>1. NoDup(<<>>) /\ \A u : ~Within(u, <<>>)
      BY EmptySeq DEF NoDup, Within
    <2> QED BY <1>6, <2>1 DEF QueueOK
  <1>9. WaitsOK(a) /\ AnswerOK(a) /\ HandlingOK(a)
    BY <1>4, <1>6 DEF WaitsOK, AnswerOK, HandlingOK
  <1>10. TimesOK
    BY <1>4 DEF SvcInit, TimesOK, NoTime
  <1>11. OwnerOK(a)
    BY <1>1, <1>4 DEF OwnerOK, Blocked, NoSvc
  <1>12. NoSignals
    BY <1>4 DEF NoSignals
  <1> QED BY <1>3, <1>5, <1>7, <1>8, <1>9, <1>10, <1>11, <1>12 DEF SvcIInv, SvcInv

LEMMA SvcNextStep ==
    ASSUME TaskAssumption, ServiceAssumption, NEW a, OneService(a), SvcIInv(a),
           [SvcNext]_allVars
    PROVE  SvcIInv(a)'
  <1>1. a \in Svc /\ (\A s \in Svc : s = a) /\ svc_owner[a] \in Task
        /\ Owners = {svc_owner[a]}
    BY OnlyService
  <1>2. CASE Serve(a)
    <2>1. \/ serve_wait(a) \/ serve_return(a) \/ serve_take(a) \/ serve_reply(a)
          \/ Yield(svc_owner[a]) /\ UNCHANGED svcVars
      BY <1>2 DEF Serve, InHandler, Yield
    <2> QED BY <1>1, <2>1, ServeWait, ServeReturn, ServeTake, ReplyAnswers, ReplyDropped, SvcAside
  <1>3. ASSUME NEW t \in Task, Client(t)
        PROVE  SvcIInv(a)'
    <2>1. /\ t # svc_owner[a]
          /\ \/ Yield(t) /\ UNCHANGED svcVars
             \/ InProgram(t) /\ \E sec \in ReqSecs : request(t, a, sec)
             \/ request_return(t)
      BY <1>1, <1>3 DEF Client
    <2> QED BY <2>1, RequestStep, RequestReturn, SvcAside
  <1>4. CASE Schedule
    BY <1>4, ScheduleStarts, ScheduleReqing, ScheduleAnswer, ScheduleReturn DEF Schedule
  <1>5. CASE /\ \/ \E t \in Task : Call(t)
                \/ Loop /\ at # "modules"
                \/ update_time \/ UNCHANGED vars
             /\ UNCHANGED svcVars
    BY <1>5, SvcAside
  <1>6. CASE SvcNext
    BY <1>1, <1>2, <1>3, <1>4, <1>5, <1>6 DEF SvcNext, SvcLoop, aborted
  <1>7. CASE UNCHANGED allVars
    BY <1>5, <1>7 DEF allVars
  <1> QED BY <1>6, <1>7

LEMMA SvcInvHolds ==
    ASSUME NEW a, OneService(a)
    PROVE  SvcSpec => []SvcIInv(a)
  <1>1. SvcInit => SvcIInv(a)
    BY SvcInitInvariant, TaskAssumption, ServiceAssumption
  <1>2. SvcIInv(a) /\ [SvcNext]_allVars => SvcIInv(a)'
    BY SvcNextStep, TaskAssumption, ServiceAssumption
  <1> QED BY <1>1, <1>2, PTL DEF SvcSpec

---------------------------------------------------------------------------
(* The properties *)

\* A list contains the service it begins with.
LEMMA ChainHead ==
    ASSUME NEW a, OneService(a), a # NoSvc
    PROVE  a \in Chain(a)
  <1> DEFINE Step(p) == [n \in 0..Cardinality(Svc) |->
                             IF n = 0 THEN {a} \ {NoSvc}
                             ELSE p[n - 1] \cup ({svc_next[s] : s \in p[n - 1]} \ {NoSvc})]
             reached == {a} \cup ({svc_next[a]} \ {NoSvc})
             g == [n \in 0..Cardinality(Svc) |-> IF n = 0 THEN {a} ELSE reached]
             p == CHOOSE f : f = Step(f)
  <1>1. Cardinality(Svc) = 1
    BY FS_Singleton DEF OneService
  <1>2. \A n \in 0..Cardinality(Svc) : n = 0 \/ (n = 1 /\ n - 1 = 0)
    BY <1>1
  <1>3. g[0] = {a}
    BY <1>1
  <1>4. g = Step(g)
    <2>1. ASSUME NEW n \in 0..Cardinality(Svc)
          PROVE  g[n] = Step(g)[n]
      <3>1. CASE n = 0
        BY <1>1, <1>3, <3>1
      <3>2. CASE n = 1 /\ n - 1 = 0
        <4>1. {svc_next[s] : s \in {a}} = {svc_next[a]}
          OBVIOUS
        <4>2. Step(g)[n] = g[0] \cup ({svc_next[s] : s \in g[0]} \ {NoSvc})
          BY <3>2
        <4>3. g[n] = reached
          BY <3>2
        <4> QED BY <1>3, <4>1, <4>2, <4>3
      <3> QED BY <1>2, <3>1, <3>2
    <2>2. g = [n \in 0..Cardinality(Svc) |-> g[n]]
      OBVIOUS
    <2> QED BY <2>1, <2>2
  <1>5. p = Step(p)
    BY <1>4
  <1> HIDE DEF p
  <1>6. p[0] = {a} /\ p[1] = Step(p)[1]
    BY <1>1, <1>5
  <1>7. a \in p[1]
    BY <1>1, <1>6
  <1>8. a \in p[Cardinality(Svc)]
    BY <1>1, <1>7
  <1> QED BY <1>8 DEF Chain, p

\* Whatever a task's time-outs and the handlers' delays: an answer that is
\* returned from request answers that request.
THEOREM AnswersMatch ==
    ASSUME NEW a, OneService(a)
    PROVE  SvcSpec => []RightAnswer
  <1>1. SvcIInv(a) => RightAnswer
    <2> SUFFICES ASSUME SvcIInv(a), NEW t \in Task, co[t] = "back", op[t] = "request",
                        ret[t] = 0
                 PROVE  t_svcresp[t] = own[t].last
      BY DEF RightAnswer
    <2>1. ~Unserved(t)
      BY DEF Unserved, ETIMEDOUT
    <2> QED BY <2>1 DEF SvcIInv, SvcInv, WaitsOK
  <1> QED BY <1>1, SvcInvHolds, PTL

\* No request gets lost: a task that waits in request is queued, once, or its
\* answer is put down and service_schedule will find it.
THEOREM RequestsNotLost ==
    ASSUME NEW a, OneService(a)
    PROVE  SvcSpec => []NoLostRequest
  <1>1. a \in Svc /\ a # NoSvc /\ \A s \in Svc : s = a
    BY OnlyService, TaskAssumption, ServiceAssumption
  <1>2. SvcIInv(a) => QueuedOrAnswered
    <2> SUFFICES ASSUME SvcIInv(a), NEW t \in Task, Requesting(t)
                 PROVE  \E s \in Svc :
                            \/ Contains(svc_taskq[s], t)
                            \/ /\ svc_task[s] = t /\ svc_resp[s] = own[t].last
                               /\ svc_inresping[s]
                               /\ phase = "idle" => s \in Chain(svc_resping)
      BY DEF QueuedOrAnswered
    <2>1. op[t] = "request" /\ ~Ended(t, 0)
      BY DEF Requesting, Ended
    <2>2. Within(t, svc_taskq[a]) \/ Answered(a, t)
      BY <2>1 DEF SvcIInv, SvcInv, WaitsOK
    <2>3. svc_inresping[a] /\ phase = "idle" => svc_resping = a
      BY DEF SvcIInv, SvcInv, ChainsOK
    <2>4. svc_inresping[a] /\ phase = "idle" => a \in Chain(svc_resping)
      BY <1>1, <2>3, ChainHead
    <2>5. Within(t, svc_taskq[a]) => Contains(svc_taskq[a], t)
      BY DEF Within, Contains
    <2> QED BY <1>1, <2>2, <2>4, <2>5 DEF Answered
  <1>3. SvcIInv(a) => QueuedRequesting
    <2> SUFFICES ASSUME SvcIInv(a), NEW i \in 1..Len(svc_taskq[a])
                 PROVE  /\ op[svc_taskq[a][i]] = "request"
                        /\ \A j \in 1..Len(svc_taskq[a]) :
                               svc_taskq[a][j] = svc_taskq[a][i] => j = i
      BY <1>1 DEF QueuedRequesting
    <2>1. svc_taskq[a] \in Seq(Task)
      BY <1>1 DEF SvcIInv, SvcInv, SvcTypes
    <2>2. svc_taskq[a][i] \in Task /\ Within(svc_taskq[a][i], svc_taskq[a])
      BY <2>1, ElementOfSeq DEF Within
    <2> QED BY <2>2 DEF SvcIInv, SvcInv, QueueOK, NoDup
  <1> QED BY <1>2, <1>3, SvcInvHolds, PTL DEF NoLostRequest

\* A service with a request and an owner that waits for one is in a list that
\* service_schedule will find it in: no wake-up is lost between serve, which
\* waits for an answer to be delivered too, and request.
THEOREM OwnersWake ==
    ASSUME NEW a, OneService(a)
    PROVE  SvcSpec => []OwnerWillWake
  <1>1. a \in Svc /\ a # NoSvc /\ \A s \in Svc : s = a
    BY OnlyService, TaskAssumption, ServiceAssumption
  <1>2. SvcIInv(a) => OwnerWillWake
    <2> SUFFICES ASSUME SvcIInv(a), phase = "idle", Blocked(a), svc_taskq[a] # <<>>
                 PROVE  a \in Chain(svc_reqing) \cup Chain(svc_resping)
      BY <1>1 DEF OwnerWillWake, Blocked
    <2>1. svc_reqing = a \/ svc_resping = a
      BY DEF SvcIInv, SvcInv, ChainsOK, OwnerOK
    <2> QED BY <1>1, <2>1, ChainHead
  <1> QED BY <1>2, SvcInvHolds, PTL

=============================================================================
