------------------------------ MODULE Tasklet ------------------------------
(***************************************************************************)
(* The coroutine scheduler of lask/luasrc/tasklet.lua: the ready list, the *)
(* timers, task signals, joinable children and the main loop.              *)
(*                                                                         *)
(* One action is what runs between two points where another coroutine, a   *)
(* timer or the loop may take over: an API call made by the running task,  *)
(* one resumption, or one decision of the loop.  A task is named by the    *)
(* order of its creation, so task ids grow with every start_task.          *)
(*                                                                         *)
(* Modules that block tasks (channels, services) extend this one: they     *)
(* call push_ready and do_yield and add their own return steps for tasks   *)
(* in control state "back".                                                *)
(*                                                                         *)
(* A definition written just before another one, named after it with a     *)
(* suffix, is a mutated form of it: a bug the properties must notice.      *)
(***************************************************************************)
EXTENDS Integers, Sequences, FiniteSets, SequencesExt

CONSTANTS
    NTask,    \* bound: how many tasks are ever created
    NBoot,    \* how many of them are started before loop()
    Secs,     \* the time-outs tasks pass to sleep (negative: none)
    JoinSecs, \* the time-outs tasks pass to join_tasks
    MaxNow,   \* bound on the clock
    Killers,  \* the tasks whose program calls kill_task
    Reapers,  \* the tasks whose program calls reap_task
    Joiners,  \* the tasks whose program starts joinable tasks and joins them
    Obj       \* what a task can be marked as blocked by

ASSUME TaskAssumption ==
    /\ NTask \in Nat
    /\ NBoot \in 0..NTask
    /\ MaxNow \in Nat
    /\ Secs \subseteq Int /\ JoinSecs \subseteq Int
    /\ "none" \notin Obj

Task == 1..NTask
None == 0                      \* Lua's nil or false in a task field
NoObj == "none"
NoTimer == -1                  \* rb_key = false
ETIMEDOUT == 110
EINTR == 4
EPIPE == 32
Errno == {0, ETIMEDOUT, EINTR, EPIPE}

VARIABLES
    ready,        \* ready_list, from its head
    batch,        \* the tasks resume_list detached and has not resumed yet
    t_prev,       \* is the t_prev field set, i.e. is the task in a list
    t_err,        \* error code the next resumption passes to the task
    rb_key,       \* deadline of the task in rb_timer, or NoTimer
    t_blockedby,  \* what the task is marked as blocked by
    t_sig,        \* a task signal is pending
    sighandler,   \* "own": the program's handler (or none), "exit": M.exit
    t_parent,     \* the joining parent, or None
    t_nsubs,      \* children count, negative while the task is joining them
    current,      \* the running task, or None
    now,          \* M.now
    co,           \* control state of the coroutine
    op,           \* the blocking call the coroutine is inside of
    till,         \* deadline computed by that call's do_yield, or NoTimer
    ret,          \* what do_yield returned to that call
    at,           \* where the main loop is
    caller        \* which call of resume_list or resume_timedout it is in

readyVars == <<ready, t_prev, t_err, rb_key, t_blockedby>>
taskVars == <<t_sig, sighandler, t_parent, t_nsubs>>
coVars == <<current, co, op, till, ret>>
loopVars == <<batch, at, caller>>
vars == <<readyVars, taskVars, coVars, loopVars, now>>

\* "none": not created; "fresh": created, never resumed; "parked": inside
\* co_yield; "run": running its program; "back": do_yield has returned into
\* the blocking call; "handling": running its sighandler; "dead": finished.
CoState == {"none", "fresh", "parked", "run", "back", "handling", "dead"}

\* The blocking calls of this module and of those that extend it.
OpName ==
    {"none", "sleep", "join", "read", "write", "connect", "handshake", "close", "serve", "request",
     "accept", "recvfrom"}

Alive(t) == co[t] \notin {"none", "dead"}

---------------------------------------------------------------------------
(* Building blocks *)

Linked_never(t) == FALSE

\* push_ready's guard: t is in a list already.
Linked(t) == t_prev[t]

in_front(s, t) == <<t>> \o s

\* Where push_ready links t: at the tail.
linked_into(s, t) == Append(s, t)

disarm_not(t) == rb_key

\* push_ready takes t out of rb_timer.
disarm(t) == [rb_key EXCEPT ![t] = NoTimer]

\* push_ready: append t to ready_list unless it is in a list already, and
\* drop its timer.
push_ready(t, e) ==
    IF Linked(t)
    THEN UNCHANGED readyVars
    ELSE /\ ready' = linked_into(ready, t)
         /\ t_prev' = [t_prev EXCEPT ![t] = TRUE]
         /\ t_err' = [t_err EXCEPT ![t] = e]
         /\ rb_key' = disarm(t)
         /\ t_blockedby' = [t_blockedby EXCEPT ![t] = NoObj]

count_off_joining_only(n) == IF n < 0 THEN n + 1 ELSE n

\* A parent's t_nsubs after one of its children has ended.
count_off(n) == IF n < 0 THEN n + 1 ELSE n - 1

LastChild_early(n) == n = -2

\* The parent waits in join_tasks and the ended child was its last one.
LastChild(n) == n = -1

\* The tail of do_resume: t's coroutine has ended.  subs is t_nsubs as t
\* leaves it.  A parent waiting in join_tasks for its last child is woken.
die(t, subs) ==
    LET p == t_parent[t]
    IN  /\ co' = [co EXCEPT ![t] = "dead"]
        /\ op' = [op EXCEPT ![t] = "none"]
        /\ till' = [till EXCEPT ![t] = NoTimer]
        /\ ret' = [ret EXCEPT ![t] = 0]
        /\ current' = None
        /\ t_nsubs' = IF p = None THEN subs
                      ELSE [subs EXCEPT ![p] = count_off(@)]
        /\ IF p # None /\ LastChild(subs[p])
           THEN push_ready(p, 0)
           ELSE UNCHANGED readyVars
        /\ UNCHANGED <<t_sig, sighandler, t_parent>>

\* The time-out do_yield works with: none for a negative sec, and 0.001
\* (here one tick) for a smaller one.
Delay(sec) == IF sec < 0 THEN NoTimer ELSE IF sec = 0 THEN 1 ELSE sec

\* Bound: a task only asks for time-outs that expire before the clock stops.
InTime(sec) == now + Delay(sec) <= MaxNow

timer_key_unrounded(sec) == IF sec <= 0 THEN NoTimer ELSE now + sec

\* The key do_yield inserts into rb_timer, if sec asks for a timer at all.
timer_key(sec) == IF Delay(sec) = NoTimer THEN NoTimer ELSE now + Delay(sec)

\* do_yield up to co_yield, called by t from the blocking call o, with the
\* fields of t that the call has already set.  A task with a pending signal
\* raises an error instead, which do_resume drops because t_sig is set.
do_yield(t, o, sec, obj, subs) ==
    IF t_sig[t]
    THEN die(t, subs)
    ELSE /\ rb_key' = [rb_key EXCEPT ![t] = timer_key(sec)]
         /\ till' = [till EXCEPT ![t] = IF sec < 0 THEN NoTimer ELSE now + Delay(sec)]
         /\ co' = [co EXCEPT ![t] = "parked"]
         /\ op' = [op EXCEPT ![t] = o]
         /\ t_blockedby' = [t_blockedby EXCEPT ![t] = obj]
         /\ current' = None
         /\ t_nsubs' = subs
         /\ UNCHANGED <<ready, t_prev, t_err, ret, t_sig, sighandler, t_parent>>

\* do_resume(t) with t.t_err = e, up to where t's program, its sighandler or
\* the rest of its blocking call runs.
do_resume(t, e) ==
    \/ /\ co[t] = "dead"
       /\ UNCHANGED <<coVars, t_sig>>
    \/ /\ co[t] = "fresh"
       /\ co' = [co EXCEPT ![t] = "run"]
       /\ current' = t
       /\ UNCHANGED <<op, till, ret, t_sig>>
    \/ /\ co[t] = "parked" /\ ~t_sig[t]
       /\ co' = [co EXCEPT ![t] = "back"]
       /\ ret' = [ret EXCEPT ![t] = e]
       /\ current' = t
       /\ UNCHANGED <<op, till, t_sig>>
    \/ /\ co[t] = "parked" /\ t_sig[t]
       /\ co' = [co EXCEPT ![t] = "handling"]
       /\ t_sig' = [t_sig EXCEPT ![t] = FALSE]
       /\ current' = t
       /\ UNCHANGED <<op, till, ret>>

---------------------------------------------------------------------------
(* Calls of the running task *)

\* t may execute calls that do not block: its program runs, or its own
\* sighandler does (which the documentation tells not to block).
Running(t) ==
    /\ current = t
    /\ co[t] = "run" \/ (co[t] = "handling" /\ sighandler[t] = "own")

InProgram(t) == current = t /\ co[t] = "run"

NextId(c) == co[c] = "none" /\ \A u \in Task : u < c => co[u] # "none"

\* start_task: the new task is queued, not resumed.
start_task(t, c, joinable) ==
    /\ NextId(c)
    /\ joinable => t \in Joiners
    /\ co' = [co EXCEPT ![c] = "fresh"]
    /\ t_parent' = [t_parent EXCEPT ![c] = IF joinable THEN t ELSE None]
    /\ t_nsubs' = IF joinable THEN [t_nsubs EXCEPT ![t] = @ + 1] ELSE t_nsubs
    /\ push_ready(c, 0)
    /\ UNCHANGED <<t_sig, sighandler, current, op, till, ret, loopVars, now>>

kill_task_silent(t, u) ==
    /\ t \in Killers /\ u # t /\ Alive(u)
    /\ t_sig' = [t_sig EXCEPT ![u] = TRUE]
    /\ UNCHANGED <<readyVars, sighandler, t_parent, t_nsubs, coVars, loopVars, now>>

\* kill_task by t of another live task.  (Killing oneself just calls the
\* handler, whose calls are those of t.)
kill_task(t, u) ==
    /\ t \in Killers /\ u # t /\ Alive(u)
    /\ t_sig' = [t_sig EXCEPT ![u] = TRUE]
    /\ push_ready(u, 0)
    /\ UNCHANGED <<sighandler, t_parent, t_nsubs, coVars, loopVars, now>>

\* reap_task by t of another live task.
reap_task(t, u) ==
    /\ t \in Reapers /\ u # t /\ Alive(u)
    /\ t_sig' = [t_sig EXCEPT ![u] = TRUE]
    /\ sighandler' = [sighandler EXCEPT ![u] = "exit"]
    /\ push_ready(u, 0)
    /\ UNCHANGED <<t_parent, t_nsubs, coVars, loopVars, now>>

\* sleep
sleep(t, sec) ==
    /\ InTime(sec)
    /\ do_yield(t, "sleep", sec, t_blockedby[t], t_nsubs)
    /\ UNCHANGED <<loopVars, now>>

joining_unmarked(t) == t_nsubs

\* join_tasks turns the caller's count negative while it waits.
joining(t) == [t_nsubs EXCEPT ![t] = -@]

\* join_tasks with children left; without any it returns at once.
join_tasks(t, sec) ==
    /\ t \in Joiners /\ InTime(sec)
    /\ t_nsubs[t] > 0
    /\ do_yield(t, "join", sec, t_blockedby[t], joining(t))
    /\ UNCHANGED <<loopVars, now>>

\* join_tasks finds a negative count: its assertion fails and ends t.  The
\* error leaves do_resume and ends loop(), unless a signal is pending.
join_assert(t) ==
    /\ t \in Joiners
    /\ t_nsubs[t] < 0
    /\ die(t, t_nsubs)
    /\ at' = IF t_sig[t] THEN at ELSE "aborted"
    /\ UNCHANGED <<batch, caller, now>>

\* The program returns or calls M.exit.
finish(t) ==
    /\ die(t, t_nsubs)
    /\ UNCHANGED <<loopVars, now>>

\* sleep returns what do_yield returned.
sleep_return(t) ==
    /\ current = t /\ co[t] = "back" /\ op[t] = "sleep"
    /\ co' = [co EXCEPT ![t] = "run"]
    /\ op' = [op EXCEPT ![t] = "none"]
    /\ till' = [till EXCEPT ![t] = NoTimer]
    /\ ret' = [ret EXCEPT ![t] = 0]
    /\ UNCHANGED <<readyVars, taskVars, current, loopVars, now>>

\* join_tasks returns: a count still negative becomes positive again.
join_return(t) ==
    /\ current = t /\ co[t] = "back" /\ op[t] = "join"
    /\ co' = [co EXCEPT ![t] = "run"]
    /\ op' = [op EXCEPT ![t] = "none"]
    /\ till' = [till EXCEPT ![t] = NoTimer]
    /\ ret' = [ret EXCEPT ![t] = 0]
    /\ t_nsubs' = [t_nsubs EXCEPT ![t] = IF @ < 0 THEN -@ ELSE @]
    /\ UNCHANGED <<readyVars, t_sig, sighandler, t_parent, current, loopVars, now>>

\* M.exit called as the sighandler of a reaped task, or by the program's own.
handler_exit(t) ==
    /\ current = t /\ co[t] = "handling"
    /\ die(t, t_nsubs)
    /\ UNCHANGED <<loopVars, now>>

\* The program's sighandler returns into do_yield: sleep accepts EINTR, any
\* other call waits on for what is left of its time-out.
handler_return(t) ==
    /\ current = t /\ co[t] = "handling" /\ sighandler[t] = "own"
    /\ \/ /\ op[t] = "sleep"
          /\ co' = [co EXCEPT ![t] = "back"]
          /\ ret' = [ret EXCEPT ![t] = EINTR]
          /\ UNCHANGED <<current, rb_key>>
       \/ /\ op[t] # "sleep" /\ till[t] # NoTimer /\ now >= till[t]
          /\ co' = [co EXCEPT ![t] = "back"]
          /\ ret' = [ret EXCEPT ![t] = ETIMEDOUT]
          /\ UNCHANGED <<current, rb_key>>
       \/ /\ op[t] # "sleep" /\ (till[t] = NoTimer \/ now < till[t])
          /\ co' = [co EXCEPT ![t] = "parked"]
          /\ rb_key' = [rb_key EXCEPT ![t] = till[t]]
          /\ current' = None
          /\ UNCHANGED ret
    /\ UNCHANGED <<ready, t_prev, t_err, t_blockedby, taskVars, op, till, loopVars, now>>

---------------------------------------------------------------------------
(* The main loop *)

Timers == {t \in Task : rb_key[t] # NoTimer}

\* rb_timer:min(): equal keys go to the right, so an earlier insertion comes
\* first; which of two equal deadlines was armed first is left open here.
IsNearest(t) == t \in Timers /\ \A u \in Timers : rb_key[t] <= rb_key[u]

Idle(where) == at = where /\ current = None

detach_list_eager ==
    /\ Idle("resume_list") /\ ready # <<>>
    /\ batch' = ready \o batch
    /\ ready' = <<>>
    /\ UNCHANGED <<t_prev, t_err, rb_key, t_blockedby, taskVars, coVars, at, caller, now>>

\* resume_list takes over the whole ready list.
detach_list ==
    /\ Idle("resume_list") /\ batch = <<>> /\ ready # <<>>
    /\ batch' = ready
    /\ ready' = <<>>
    /\ UNCHANGED <<t_prev, t_err, rb_key, t_blockedby, taskVars, coVars, at, caller, now>>

\* resume_list resumes the next task of the list it took.
resume_next ==
    /\ Idle("resume_list") /\ batch # <<>>
    /\ batch' = Tail(batch)
    /\ t_prev' = [t_prev EXCEPT ![Head(batch)] = FALSE]
    /\ do_resume(Head(batch), t_err[Head(batch)])
    /\ UNCHANGED <<ready, t_err, rb_key, t_blockedby, sighandler, t_parent, t_nsubs, at, caller, now>>

after_list_confused(c) == IF c = "events" THEN "resume_timedout" ELSE c

\* Where the loop continues after resume_list.
after_list(c) == CASE c = "events" -> "resume_timedout"
                   [] c = "calc"   -> "calc_waittime"
                   [] OTHER        -> "modules"

\* resume_list returns to its caller.
resume_list_done ==
    /\ Idle("resume_list") /\ batch = <<>> /\ ready = <<>>
    /\ at' = after_list(caller)
    /\ caller' = IF caller = "events" THEN "end" ELSE caller
    /\ UNCHANGED <<readyVars, taskVars, coVars, batch, now>>

\* No nonevent module has anything (left) to do.
modules_done ==
    /\ Idle("modules")
    /\ at' = "calc_waittime"
    /\ UNCHANGED <<readyVars, taskVars, coVars, batch, caller, now>>

\* calc_waittime: timers that are due expire before the poll.
calc_waittime ==
    /\ Idle("calc_waittime")
    /\ IF \E t \in Timers : rb_key[t] <= now
       THEN at' = "resume_timedout" /\ caller' = "calc"
       ELSE at' = "poll" /\ UNCHANGED caller
    /\ UNCHANGED <<readyVars, taskVars, coVars, batch, now>>

\* poll.wait returned a table of events; their handlers have run.
poll_events ==
    /\ Idle("poll")
    /\ at' = "resume_list" /\ caller' = "events"
    /\ UNCHANGED <<readyVars, taskVars, coVars, batch, now>>

\* poll.wait returned nothing (it was interrupted).
poll_nothing ==
    /\ Idle("poll")
    /\ at' = "resume_timedout" /\ caller' = "end"
    /\ UNCHANGED <<readyVars, taskVars, coVars, batch, now>>

\* resume_timedout resumes the task with the nearest deadline, which has
\* passed, without going through the ready list.
expire(t) ==
    /\ Idle("resume_timedout")
    /\ IsNearest(t) /\ rb_key[t] <= now
    /\ rb_key' = [rb_key EXCEPT ![t] = NoTimer]
    /\ t_err' = [t_err EXCEPT ![t] = ETIMEDOUT]
    /\ do_resume(t, ETIMEDOUT)
    /\ UNCHANGED <<ready, t_prev, t_blockedby, sighandler, t_parent, t_nsubs, loopVars, now>>

after_expiry_no_list == IF caller = "calc" THEN "calc_waittime" ELSE "modules"

\* resume_timedout ends with a resume_list if its tasks made others ready.
after_expiry ==
    IF ready # <<>> THEN "resume_list"
    ELSE IF caller = "calc" THEN "calc_waittime" ELSE "modules"

\* resume_timedout has no timer left to expire.
expire_done ==
    /\ Idle("resume_timedout")
    /\ \A t \in Timers : rb_key[t] > now
    /\ at' = after_expiry
    /\ UNCHANGED <<readyVars, taskVars, coVars, batch, caller, now>>

\* update_time: in the loop, and from the SIGPROF hook at any moment.
update_time ==
    /\ now < MaxNow
    /\ now' = now + 1
    /\ UNCHANGED <<readyVars, taskVars, coVars, loopVars>>

\* The error of join_assert has ended loop().
aborted == at = "aborted" /\ UNCHANGED vars

---------------------------------------------------------------------------
(* The specification *)

Init ==
    /\ ready = [i \in 1..NBoot |-> i]
    /\ batch = <<>>
    /\ t_prev = [t \in Task |-> t <= NBoot]
    /\ t_err = [t \in Task |-> 0]
    /\ rb_key = [t \in Task |-> NoTimer]
    /\ t_blockedby = [t \in Task |-> NoObj]
    /\ t_sig = [t \in Task |-> FALSE]
    /\ sighandler = [t \in Task |-> "own"]
    /\ t_parent = [t \in Task |-> None]
    /\ t_nsubs = [t \in Task |-> 0]
    /\ current = None
    /\ now = 0
    /\ co = [t \in Task |-> IF t <= NBoot THEN "fresh" ELSE "none"]
    /\ op = [t \in Task |-> "none"]
    /\ till = [t \in Task |-> NoTimer]
    /\ ret = [t \in Task |-> 0]
    /\ at = "resume_list"
    /\ caller = "boot"

\* The steps after which the running task has given up the processor, or is
\* nearer to doing so.
Yield(t) ==
    \/ InProgram(t) /\ (\/ \E s \in Secs : sleep(t, s)
                        \/ \E s \in JoinSecs : join_tasks(t, s)
                        \/ join_assert(t)
                        \/ finish(t))
    \/ sleep_return(t) \/ join_return(t)
    \/ handler_return(t) \/ handler_exit(t)

Call(t) ==
    /\ Running(t)
    /\ \/ \E c \in Task, j \in BOOLEAN : start_task(t, c, j)
       \/ \E u \in Task : kill_task(t, u) \/ reap_task(t, u)

Loop ==
    \/ detach_list \/ resume_next \/ resume_list_done
    \/ modules_done \/ calc_waittime \/ poll_events \/ poll_nothing
    \/ (\E t \in Task : expire(t)) \/ expire_done

Next ==
    \/ \E t \in Task : Yield(t) \/ Call(t)
    \/ Loop \/ update_time \/ aborted

Spec == Init /\ [][Next]_vars

\* Tasks are cooperative: a running task sooner or later blocks or ends.
\* The loop keeps running, and the clock is read on every round of it.
Fairness ==
    /\ \A t \in Task : WF_vars(Yield(t))
    /\ WF_vars(Loop)
    /\ WF_vars(update_time)

FairSpec == Spec /\ Fairness

---------------------------------------------------------------------------
(* Properties *)

TypeOK ==
    /\ ready \in Seq(Task) /\ batch \in Seq(Task)
    /\ t_prev \in [Task -> BOOLEAN]
    /\ t_err \in [Task -> Errno]
    /\ rb_key \in [Task -> Nat \cup {NoTimer}]
    /\ t_blockedby \in [Task -> Obj \cup {NoObj}]
    /\ t_sig \in [Task -> BOOLEAN]
    /\ sighandler \in [Task -> {"own", "exit"}]
    /\ t_parent \in [Task -> Task \cup {None}]
    /\ t_nsubs \in [Task -> Int]
    /\ current \in Task \cup {None}
    /\ now \in Nat
    /\ co \in [Task -> CoState]
    /\ op \in [Task -> OpName]
    /\ till \in [Task -> Nat \cup {NoTimer}]
    /\ ret \in [Task -> Errno]
    /\ at \in {"resume_list", "modules", "calc_waittime", "poll",
               "resume_timedout", "aborted"}
    /\ caller \in {"boot", "modules", "events", "calc", "end"}

NoDup(q) == \A i, j \in 1..Len(q) : q[i] = q[j] => i = j

Within(x, q) == \E i \in 1..Len(q) : q[i] = x

\* The tasks in the two lists, in the order they will be resumed.
Queue == batch \o ready

\* The t_prev field tells the truth: it is set exactly for the tasks in
\* ready_list or in the list resume_list is working through, and no task is
\* in them twice (push_ready's only guard is that field).
ListsMatch ==
    /\ NoDup(Queue)
    /\ \A t \in Task : t_prev[t] <=> Within(t, Queue)

\* A task waits in at most one place: only a parked task that is in no list
\* has a timer, a task in a list is suspended, and only the running task is
\* in a running control state.
OnePlace ==
    /\ \A t \in Task : rb_key[t] # NoTimer =>
           co[t] = "parked" /\ ~t_prev[t] /\ ~t_sig[t]
    /\ \A t \in Task : t_prev[t] => co[t] \in {"fresh", "parked", "dead"}
    /\ \A t \in Task : co[t] = "fresh" => t_prev[t]
    /\ \A t \in Task : co[t] \in {"run", "back", "handling"} <=> current = t

\* A signal is never forgotten: a parked task with a pending signal is on
\* its way to be resumed.
SignalsPending ==
    \A t \in Task : co[t] = "parked" /\ t_sig[t] => t_prev[t]

\* When the loop goes to poll.wait no task is left in a list, so that
\* sleeping in the kernel delays nobody.
PollOnlyWhenIdle == at = "poll" => Queue = <<>>

\* start_task's promise: "all tasks will be executed in the order they are
\* created", whatever is killed, reaped or woken in between.
StartOrder ==
    \A t, u \in Task : t < u /\ co[t] = "fresh" => co[u] \in {"none", "fresh"}

Children(t) == {c \in Task : t_parent[c] = t /\ Alive(c)}

\* t_nsubs counts the live joinable children, and is negative exactly while
\* the task waits for them in join_tasks.
JoinCounts ==
    \A t \in Task : Alive(t) =>
        t_nsubs[t] = IF op[t] = "join" THEN -Cardinality(Children(t))
                                       ELSE Cardinality(Children(t))

\* A task that waits in join_tasks and is not on its way to be resumed still
\* has a child to wait for: the last child's end is not lost.
JoinNotStranded ==
    \A t \in Task : co[t] = "parked" /\ op[t] = "join" /\ ~t_prev[t] =>
        Children(t) # {}

\* join_tasks returns 0 if and only if no joinable child is left, also when
\* its time-out and the end of the last child are close to each other; and
\* the count it goes by is exact at every moment.
JoinExact ==
    /\ JoinCounts
    /\ \A t \in Task : co[t] = "back" /\ op[t] = "join" =>
           (ret[t] = 0 <=> Children(t) = {})

\* A task in a list is eventually resumed (unless an error ends the loop),
\* even when tasks keep waking each other: resume_list takes over a finite
\* list before it looks for more.
ReadyTasksRun == \A t \in Task : t_prev[t] ~> ~t_prev[t] \/ at = "aborted"

\* kill_task of a blocked task: its sighandler eventually runs.
SignalsHandled ==
    \A t \in Task : (co[t] = "parked" /\ t_sig[t]) ~>
                        (co[t] = "handling" \/ at = "aborted")

\* A wait that was given a time-out ends.
TimedWaitsEnd ==
    \A t \in Task : (co[t] = "parked" /\ till[t] # NoTimer) ~> co[t] # "parked"

\* join_tasks without a time-out returns once all children end.
JoinsReturn ==
    \A t \in Task : (co[t] = "parked" /\ op[t] = "join") ~> co[t] # "parked"
============================================================================
