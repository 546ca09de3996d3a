------------------------------ MODULE Service ------------------------------
(***************************************************************************)
(* Services (lask/luasrc/tasklet/service.lua, create_service and request)  *)
(* on top of the scheduler of Tasklet.  A service has an owner task that   *)
(* serves its requests one by one.  Neither side wakes the other directly: *)
(* services with a new request are linked into svc_reqing, services with   *)
(* an answer into svc_resping, and the nonevent module service_schedule    *)
(* wakes owners and requesters when it walks the two lists.                *)
(*                                                                         *)
(* Both lists are linked through the same field svc_next, so they are kept *)
(* as pointers here.  The queue of requesting tasks is a sequence, which   *)
(* TaskQueue justifies.  Requests are numbered in the order they are made. *)
(***************************************************************************)
EXTENDS Tasklet

CONSTANTS
    Svc,        \* the services
    svc_owner,  \* their owner tasks
    ReqSecs,    \* the time-outs tasks pass to request
    MaxReq,     \* bound: how many requests are made
    MaxOwn,     \* bound: how many requests one task makes
    Retry,      \* may a task request again after a request of its own failed
    Failing     \* the requests whose handler returns an error

ASSUME ServiceAssumption ==
    /\ Svc \subseteq Obj
    /\ svc_owner \in [Svc -> 1..NBoot]
    /\ \A r, s \in Svc : svc_owner[r] = svc_owner[s] => r = s
    /\ ReqSecs \subseteq Int
    /\ MaxReq \in Nat /\ MaxOwn \in Nat
    /\ Retry \in BOOLEAN

VARIABLES
    svc_reqing, svc_resping,  \* the heads of the two lists
    svc_next,
    svc_inreqing, svc_inresping,
    svc_taskq,    \* the requesting tasks, from the head
    svc_task,     \* whom the last answer is for
    svc_resp,     \* the last answer: the number of the request it answers
    svc_tmhandle, \* when its handling began
    handling,     \* serve's local variable task, or None
    handled,      \* the request its handler was called with
    t_svcreq,     \* the request of a task, or MARK_NOT_IN_CHAIN
    t_svcreqtime,
    t_svcresp,
    phase,        \* where service_schedule is
    walk,         \* its local variables svc
    busy_list,    \* and busy_list
    nreq,         \* history: how many requests were made,
    own           \* how many each task made, its last one, did one fail

listVars == <<svc_reqing, svc_resping, svc_next, svc_inreqing, svc_inresping>>
serveVars == <<svc_task, svc_resp, svc_tmhandle, handling, handled>>
requestVars == <<svc_taskq, t_svcreq, t_svcreqtime, t_svcresp>>
scheduleVars == <<phase, walk, busy_list>>
reqHistory == <<nreq, own>>
svcVars == <<listVars, serveVars, requestVars, scheduleVars, reqHistory>>
allVars == <<vars, svcVars>>

NoSvc == NoObj
NoReq == 0
MARK_NOT_IN_CHAIN == -1
NoTime == -1
Owners == {svc_owner[s] : s \in Svc}
handler_err(r) == IF r \in Failing THEN EPIPE ELSE 0

---------------------------------------------------------------------------
(* The owner's side: serve *)

\* The owner of s is at the top of serve.
AtServe(s) == InProgram(svc_owner[s]) /\ handling[s] = None

InHandler(s) == InProgram(svc_owner[s]) /\ handling[s] # None

\* serve's condition for waiting: no request, or the last answer is not
\* delivered yet.
NothingToServe(s) == svc_taskq[s] = <<>> \/ svc_inresping[s]

\* The owner blocks until service_schedule finds a request for it.
serve_wait(s) ==
    /\ AtServe(s) /\ NothingToServe(s)
    /\ do_yield(svc_owner[s], "serve", -1, s, t_nsubs)
    /\ UNCHANGED <<svcVars, loopVars, now>>

\* block_task has returned into serve, which looks at its condition again.
serve_return(s) ==
    LET o == svc_owner[s]
    IN  /\ current = o /\ co[o] = "back" /\ op[o] = "serve"
        /\ co' = [co EXCEPT ![o] = "run"]
        /\ op' = [op EXCEPT ![o] = "none"]
        /\ till' = [till EXCEPT ![o] = NoTimer]
        /\ ret' = [ret EXCEPT ![o] = 0]
        /\ UNCHANGED <<readyVars, taskVars, current, svcVars, loopVars, now>>

\* The owner calls svc_handler for the first request.
serve_take(s) ==
    /\ AtServe(s) /\ ~NothingToServe(s)
    /\ handling' = [handling EXCEPT ![s] = Head(svc_taskq[s])]
    /\ handled' = [handled EXCEPT ![s] = t_svcreq[Head(svc_taskq[s])]]
    /\ svc_tmhandle' = [svc_tmhandle EXCEPT ![s] = now]
    /\ UNCHANGED <<svc_task, svc_resp, listVars, requestVars, scheduleVars, reqHistory, vars>>

to_answer_first(s) == IF svc_taskq[s] = <<>> THEN None ELSE Head(svc_taskq[s])

\* The task whose request was handled, if it has not given up meanwhile.
to_answer(s) ==
    IF svc_taskq[s] # <<>> /\ Head(svc_taskq[s]) = handling[s] THEN handling[s] ELSE None

\* svc_handler has returned: the answer is put down for service_schedule,
\* unless the requesting task is no longer the first in the queue.
serve_reply(s) ==
    LET task == to_answer(s)
    IN  /\ InHandler(s)
        /\ handling' = [handling EXCEPT ![s] = None]
        /\ IF task # None
           THEN /\ svc_resp' = [svc_resp EXCEPT ![s] = handled[s]]
                /\ svc_task' = [svc_task EXCEPT ![s] = task]
                /\ t_err' = [t_err EXCEPT ![task] = handler_err(handled[s])]
                /\ t_svcreq' = [t_svcreq EXCEPT ![task] = MARK_NOT_IN_CHAIN]
                /\ svc_taskq' = [svc_taskq EXCEPT ![s] = RemoveFirst(@, task)]
                /\ svc_inresping' = [svc_inresping EXCEPT ![s] = TRUE]
                /\ svc_next' = [svc_next EXCEPT ![s] = svc_resping]
                /\ svc_resping' = s
           ELSE UNCHANGED <<svc_resp, svc_task, t_err, t_svcreq, svc_taskq,
                            svc_inresping, svc_next, svc_resping>>
        /\ UNCHANGED <<svc_tmhandle, handled, svc_reqing, svc_inreqing, t_svcreqtime,
                       t_svcresp, scheduleVars, reqHistory, ready, t_prev, rb_key,
                       t_blockedby, taskVars, coVars, loopVars, now>>

---------------------------------------------------------------------------
(* The other side: request *)

\* Service s is linked into svc_reqing.
announced(s) ==
    /\ svc_next' = [svc_next EXCEPT ![s] = svc_reqing]
    /\ svc_reqing' = s
    /\ svc_inreqing' = [svc_inreqing EXCEPT ![s] = TRUE]

\* Task t requests service s and blocks.
request(t, s, sec) ==
    /\ nreq < MaxReq /\ own[t].made < MaxOwn
    /\ own[t].failed => Retry
    /\ InTime(sec)
    /\ nreq' = nreq + 1
    /\ own' = [own EXCEPT ![t] = [made |-> @.made + 1, last |-> nreq + 1,
                                  failed |-> @.failed]]
    /\ IF svc_next[s] = NoSvc /\ ~svc_inreqing[s] /\ t_blockedby[svc_owner[s]] = s
       THEN announced(s)
       ELSE UNCHANGED <<svc_next, svc_reqing, svc_inreqing>>
    /\ t_svcreq' = [t_svcreq EXCEPT ![t] = nreq + 1]
    /\ t_svcreqtime' = [t_svcreqtime EXCEPT ![t] = now]
    /\ svc_taskq' = [svc_taskq EXCEPT ![s] = Append(@, t)]
    /\ do_yield(t, "request", sec, s, t_nsubs)
    /\ UNCHANGED <<svc_resping, svc_inresping, serveVars, t_svcresp, scheduleVars,
                   loopVars, now>>

give_up_forgotten(t) == svc_taskq

\* unlink_task, if the task is still in the queue.
give_up(t) ==
    IF t_svcreq[t] = MARK_NOT_IN_CHAIN THEN svc_taskq
    ELSE [s \in Svc |-> RemoveFirst(svc_taskq[s], t)]

\* block_task has returned into request.
request_return(t) ==
    /\ current = t /\ co[t] = "back" /\ op[t] = "request"
    /\ IF ret[t] = 0
       THEN UNCHANGED <<svc_taskq, t_svcreqtime, own>>
       ELSE /\ svc_taskq' = give_up(t)
            /\ t_svcreqtime' = [t_svcreqtime EXCEPT ![t] = NoTime]
            /\ own' = [own EXCEPT ![t].failed = TRUE]
    /\ co' = [co EXCEPT ![t] = "run"]
    /\ op' = [op EXCEPT ![t] = "none"]
    /\ till' = [till EXCEPT ![t] = NoTimer]
    /\ ret' = [ret EXCEPT ![t] = 0]
    /\ UNCHANGED <<listVars, serveVars, t_svcreq, t_svcresp, scheduleVars, nreq,
                   readyVars, taskVars, current, loopVars, now>>

---------------------------------------------------------------------------
(* service_schedule, one service of its lists per step *)

schedule ==
    /\ Idle("modules") /\ phase = "idle"
    /\ phase' = "reqing"
    /\ walk' = svc_reqing
    /\ busy_list' = NoSvc
    /\ UNCHANGED <<listVars, serveVars, requestVars, reqHistory, vars>>

\* A service with a request: wake its owner, or keep it if the owner is
\* blocked by something else.
schedule_reqing ==
    /\ Idle("modules") /\ phase = "reqing" /\ walk # NoSvc
    /\ walk' = svc_next[walk]
    /\ \/ /\ t_blockedby[svc_owner[walk]] = walk
          /\ svc_next' = [svc_next EXCEPT ![walk] = NoSvc]
          /\ svc_inreqing' = [svc_inreqing EXCEPT ![walk] = FALSE]
          /\ push_ready(svc_owner[walk], 0)
          /\ UNCHANGED busy_list
       \/ /\ t_blockedby[svc_owner[walk]] # walk
          /\ svc_next' = [svc_next EXCEPT ![walk] = busy_list]
          /\ busy_list' = walk
          /\ UNCHANGED <<svc_inreqing, readyVars>>
    /\ UNCHANGED <<svc_reqing, svc_resping, svc_inresping, serveVars, requestVars, phase,
                   reqHistory, taskVars, coVars, loopVars, now>>

schedule_resping ==
    /\ Idle("modules") /\ phase = "reqing" /\ walk = NoSvc
    /\ phase' = "resping"
    /\ svc_reqing' = busy_list
    /\ walk' = svc_resping
    /\ UNCHANGED <<busy_list, svc_resping, svc_next, svc_inreqing, svc_inresping, serveVars,
                   requestVars, reqHistory, vars>>

more_to_do_never(s) == FALSE

\* More requests have come while the last one was handled.
more_to_do(s) == ~svc_inreqing[s] /\ svc_taskq[s] # <<>>

\* The answer of s is for the request that task t is waiting with.
deliverable(s, t) ==
    /\ t_blockedby[t] = s
    /\ t_svcreqtime[t] # NoTime /\ t_svcreqtime[t] <= svc_tmhandle[s]

\* A service with an answer: it is free for its next request, and the
\* requesting task, if it is still waiting, is given the answer.
schedule_answer ==
    LET task == svc_task[walk]
    IN  /\ Idle("modules") /\ phase = "resping" /\ walk # NoSvc
        /\ walk' = svc_next[walk]
        /\ IF more_to_do(walk)
           THEN announced(walk)
           ELSE /\ svc_next' = [svc_next EXCEPT ![walk] = NoSvc]
                /\ UNCHANGED <<svc_reqing, svc_inreqing>>
        /\ IF deliverable(walk, task)
           THEN /\ t_svcresp' = [t_svcresp EXCEPT ![task] = svc_resp[walk]]
                /\ push_ready(task, 0)
           ELSE UNCHANGED <<t_svcresp, readyVars>>
        /\ svc_inresping' = [svc_inresping EXCEPT ![walk] = FALSE]
        /\ UNCHANGED <<svc_resping, serveVars, svc_taskq, t_svcreq, t_svcreqtime, phase,
                       busy_list, reqHistory, taskVars, coVars, loopVars, now>>

\* service_schedule returns; the loop runs what it made ready and then calls
\* it again, or goes on.
schedule_return ==
    /\ Idle("modules") /\ phase = "resping" /\ walk = NoSvc
    /\ phase' = "idle"
    /\ svc_resping' = NoSvc
    /\ at' = IF ready # <<>> THEN "resume_list" ELSE "calc_waittime"
    /\ caller' = IF ready # <<>> THEN "modules" ELSE caller
    /\ UNCHANGED <<batch, walk, busy_list, svc_reqing, svc_next, svc_inreqing, svc_inresping,
                   serveVars, requestVars, reqHistory, readyVars, taskVars, coVars, now>>

---------------------------------------------------------------------------
(* The specification *)

SvcInit ==
    /\ Init
    /\ svc_reqing = NoSvc /\ svc_resping = NoSvc
    /\ svc_next = [s \in Svc |-> NoSvc]
    /\ svc_inreqing = [s \in Svc |-> FALSE]
    /\ svc_inresping = [s \in Svc |-> FALSE]
    /\ svc_taskq = [s \in Svc |-> <<>>]
    /\ svc_task = [s \in Svc |-> None]
    /\ svc_resp = [s \in Svc |-> NoReq]
    /\ svc_tmhandle = [s \in Svc |-> NoTime]
    /\ handling = [s \in Svc |-> None]
    /\ handled = [s \in Svc |-> NoReq]
    /\ t_svcreq = [t \in Task |-> NoReq]
    /\ t_svcreqtime = [t \in Task |-> NoTime]
    /\ t_svcresp = [t \in Task |-> NoReq]
    /\ phase = "idle" /\ walk = NoSvc /\ busy_list = NoSvc
    /\ nreq = 0
    /\ own = [t \in Task |-> [made |-> 0, last |-> NoReq, failed |-> FALSE]]

\* An owner serves; a handler may sleep and start tasks.
Serve(s) ==
    \/ serve_wait(s) \/ serve_return(s) \/ serve_take(s) \/ serve_reply(s)
    \/ InHandler(s) /\ (\E sec \in Secs : sleep(svc_owner[s], sec)) /\ UNCHANGED svcVars
    \/ sleep_return(svc_owner[s]) /\ UNCHANGED svcVars

\* The other tasks request what they like.
Client(t) ==
    /\ t \notin Owners
    /\ \/ Yield(t) /\ UNCHANGED svcVars
       \/ InProgram(t) /\ \E s \in Svc, sec \in ReqSecs : request(t, s, sec)
       \/ request_return(t)

Schedule ==
    schedule \/ schedule_reqing \/ schedule_resping \/ schedule_answer \/ schedule_return

SvcLoop == Schedule \/ (Loop /\ at # "modules" /\ UNCHANGED svcVars)

SvcNext ==
    \/ \E s \in Svc : Serve(s)
    \/ \E t \in Task : Client(t)
    \/ (\E t \in Task : Call(t) /\ (t \notin Owners \/ \E s \in Svc : InHandler(s)))
           /\ UNCHANGED svcVars
    \/ SvcLoop
    \/ (update_time \/ aborted) /\ UNCHANGED svcVars

SvcSpec == SvcInit /\ [][SvcNext]_allVars

\* As in Tasklet; a handler returns.
SvcFairness ==
    /\ \A s \in Svc : WF_allVars(Serve(s))
    /\ \A t \in Task : WF_allVars(Client(t))
    /\ WF_allVars(SvcLoop)
    /\ WF_allVars(update_time /\ UNCHANGED svcVars)

SvcFairSpec == SvcSpec /\ SvcFairness

---------------------------------------------------------------------------
(* Properties *)

\* The services that can be reached from h along svc_next.
Chain(h) ==
    LET hop[n \in 0..Cardinality(Svc)] ==
            IF n = 0 THEN {h} \ {NoSvc}
            ELSE hop[n - 1] \cup ({svc_next[s] : s \in hop[n - 1]} \ {NoSvc})
    IN  hop[Cardinality(Svc)]

Requesting(t) == co[t] = "parked" /\ op[t] = "request" /\ ~t_prev[t]

\* An answer that is returned answers the request it is returned from.
RightAnswer ==
    \A t \in Task : co[t] = "back" /\ op[t] = "request" /\ ret[t] = 0 =>
        t_svcresp[t] = own[t].last

\* A waiting request is queued, or its answer is on its way: between two
\* rounds of service_schedule the service is in the list of those with one.
QueuedOrAnswered ==
    \A t \in Task : Requesting(t) =>
        \E s \in Svc :
            \/ Contains(svc_taskq[s], t)
            \/ /\ svc_task[s] = t /\ svc_resp[s] = own[t].last
               /\ svc_inresping[s]
               /\ phase = "idle" => s \in Chain(svc_resping)

\* Between two rounds of service_schedule, a service whose owner waits for
\* requests while some are queued is in a list that will wake the owner.
OwnerWillWake ==
    phase = "idle" =>
        \A s \in Svc :
            co[svc_owner[s]] = "parked" /\ op[svc_owner[s]] = "serve" /\ ~t_prev[svc_owner[s]]
                /\ svc_taskq[s] # <<>> =>
                s \in Chain(svc_reqing) \cup Chain(svc_resping)

\* Whoever is queued is inside of request, and queued once: a task that
\* gave up leaves nothing behind, whichever step of serve it raced.
QueuedRequesting ==
    \A s \in Svc : \A i \in 1..Len(svc_taskq[s]) :
        /\ op[svc_taskq[s][i]] = "request"
        /\ \A r \in Svc : \A j \in 1..Len(svc_taskq[r]) :
               svc_taskq[r][j] = svc_taskq[s][i] => r = s /\ j = i

\* No request is lost or left over: queue and requesting tasks agree.
NoLostRequest == QueuedOrAnswered /\ QueuedRequesting

\* A request ends, with an answer or an error.
RequestsEnd == \A t \in Task : op[t] = "request" ~> op[t] # "request"
============================================================================
