--------------------------- MODULE MessageChannel ---------------------------
(***************************************************************************)
(* A message channel (lask/luasrc/tasklet/channel/message.lua) and the     *)
(* tasks that use it, on top of the scheduler of Tasklet.  Its two linked  *)
(* lists of waiting tasks are sequences here; TaskQueue shows that their   *)
(* pointers stand for them.                                                *)
(*                                                                         *)
(* Messages are numbered in the order in which write and post accept them. *)
(* The code sets ch_num, ch_rtaskq and ch_wtaskq to -1 together; here      *)
(* ch_num = -1 alone says that the channel is closed.                      *)
(***************************************************************************)
EXTENDS Tasklet

CONSTANTS
    Caps,    \* the capacities a channel may be created with
    ChSecs,  \* the time-outs tasks pass to read and write
    MaxMsg   \* bound: how many messages are sent

ASSUME ChannelAssumption ==
    /\ Caps \subseteq Nat /\ MaxMsg \in Nat
    /\ ChSecs \subseteq Int
    /\ "channel" \in Obj

VARIABLES
    ch_cap,
    ch_num,     \* how many messages are in ch_msgring, -1: closed
    ch_rcursor,
    ch_wcursor,
    ch_msgring,
    ch_rtaskq,  \* the waiting readers, from the head
    ch_wtaskq,  \* the waiting writers
    t_svcreq,   \* the message a writer waits with or a reader was given
    sent,       \* history: how many messages were accepted,
    handed,     \* which have left the channel for a reader, in order,
    received,   \* which reads have returned, with the error they reported,
    failed,     \* which writes reported an error for,
    sending     \* and the message of the write a task is inside of

storeVars == <<ch_cap, ch_num, ch_rcursor, ch_wcursor, ch_msgring>>
queueVars == <<ch_rtaskq, ch_wtaskq, t_svcreq>>
historyVars == <<sent, handed, received, failed, sending>>
chVars == <<storeVars, queueVars, historyVars>>
allVars == <<vars, chVars>>

NoMsg == 0                     \* Lua's false in a slot or in t_svcreq
Nil == -1                      \* no second value returned
Msg == 1..MaxMsg
Open == ch_num # -1

ring_next_short(c) == IF c + 1 >= ch_cap THEN 1 ELSE c + 1

\* The cursor behind c, which wraps at the capacity.
ring_next(c) == IF c = ch_cap THEN 1 ELSE c + 1

\* Storing m in a buffer that has room.
ring_put(m) ==
    /\ ch_msgring' = [ch_msgring EXCEPT ![ch_wcursor] = m]
    /\ ch_wcursor' = ring_next(ch_wcursor)
    /\ ch_num' = ch_num + 1

\* A list of waiting tasks after push_task(t).
queued(q, t) == Append(q, t)

left_behind_all(q) == q

\* A list of waiting tasks after its head was taken out.
left_behind(q) == Tail(q)

give_up_forgotten(q, t) == q

\* A list after unlink_task(t).  (For a task that is not in the list the
\* code's pointers would break; UnlinkOnlyQueued.)
give_up(q, t) == RemoveFirst(q, t)

\* close calls push_ready for one task of q after the other, with EPIPE.
push_all(q) ==
    LET pushed[i \in 0..Len(q)] ==
            IF i = 0 THEN ready
            ELSE IF Linked(q[i]) THEN pushed[i - 1]
            ELSE linked_into(pushed[i - 1], q[i])
        Woken(t) == Contains(q, t) /\ ~Linked(t)
    IN  /\ ready' = pushed[Len(q)]
        /\ t_prev' = [t \in Task |-> t_prev[t] \/ Woken(t)]
        /\ t_err' = [t \in Task |-> IF Woken(t) THEN EPIPE ELSE t_err[t]]
        /\ rb_key' = [t \in Task |-> IF Woken(t) THEN NoTimer ELSE rb_key[t]]
        /\ t_blockedby' = [t \in Task |-> IF Woken(t) THEN NoObj ELSE t_blockedby[t]]

---------------------------------------------------------------------------
(* read *)

\* A read that leaves buffered messages behind or empties the buffer; the
\* first waiting writer's message takes the place that becomes free.
read_buffered(t) ==
    LET msg == ch_msgring[ch_rcursor]
        taken == [ch_msgring EXCEPT ![ch_rcursor] = NoMsg]
    IN  /\ ch_num > 0
        /\ ch_rcursor' = ring_next(ch_rcursor)
        /\ \/ /\ ch_wtaskq # <<>>
              /\ ch_msgring' = [taken EXCEPT ![ch_wcursor] = t_svcreq[Head(ch_wtaskq)]]
              /\ ch_wcursor' = ring_next(ch_wcursor)
              /\ push_ready(Head(ch_wtaskq), 0)
              /\ ch_wtaskq' = left_behind(ch_wtaskq)
              /\ UNCHANGED ch_num
           \/ /\ ch_wtaskq = <<>>
              /\ ch_msgring' = taken
              /\ ch_num' = ch_num - 1
              /\ UNCHANGED <<ch_wcursor, ch_wtaskq, readyVars>>
        /\ handed' = Append(handed, msg)
        /\ received' = received \cup {<<msg, 0>>}
        /\ UNCHANGED <<ch_cap, ch_rtaskq, t_svcreq, sent, failed, sending, taskVars,
                       coVars>>

\* A read that takes the message of a waiting writer; it returns no error
\* code at all.
read_writer(t) ==
    LET writer == Head(ch_wtaskq)
        msg == t_svcreq[writer]
    IN  /\ ch_num = 0 /\ ch_wtaskq # <<>>
        /\ ch_wtaskq' = left_behind(ch_wtaskq)
        /\ push_ready(writer, 0)
        /\ t_svcreq' = [t_svcreq EXCEPT ![writer] = NoMsg]
        /\ handed' = Append(handed, msg)
        /\ received' = received \cup {<<msg, Nil>>}
        /\ UNCHANGED <<storeVars, ch_rtaskq, sent, failed, sending, taskVars, coVars>>

\* A read that has to wait.
read_block(t, sec) ==
    /\ ch_num = 0 /\ ch_wtaskq = <<>>
    /\ InTime(sec)
    /\ ch_rtaskq' = queued(ch_rtaskq, t)
    /\ do_yield(t, "read", sec, "channel", t_nsubs)
    /\ UNCHANGED <<storeVars, ch_wtaskq, t_svcreq, historyVars>>

\* read.  (On a closed channel it returns EPIPE and changes nothing.)
read(t, sec) ==
    /\ read_buffered(t) \/ read_writer(t) \/ read_block(t, sec)
    /\ UNCHANGED <<loopVars, now>>

\* block_task has returned into read.
read_return(t) ==
    /\ current = t /\ co[t] = "back" /\ op[t] = "read"
    /\ \/ /\ ret[t] # 0
          /\ ch_rtaskq' = IF Open THEN give_up(ch_rtaskq, t) ELSE ch_rtaskq
          /\ UNCHANGED <<t_svcreq, received>>
       \/ /\ ret[t] = 0
          /\ received' = received \cup {<<t_svcreq[t], 0>>}
          /\ t_svcreq' = [t_svcreq EXCEPT ![t] = NoMsg]
          /\ UNCHANGED ch_rtaskq
    /\ co' = [co EXCEPT ![t] = "run"]
    /\ op' = [op EXCEPT ![t] = "none"]
    /\ till' = [till EXCEPT ![t] = NoTimer]
    /\ ret' = [ret EXCEPT ![t] = 0]
    /\ UNCHANGED <<storeVars, ch_wtaskq, sent, handed, failed, sending,
                   readyVars, taskVars, current, loopVars, now>>

---------------------------------------------------------------------------
(* write, post and close *)

\* The first waiting reader is given message m and made ready.
give_reader(m) ==
    /\ ch_rtaskq # <<>>
    /\ ch_rtaskq' = left_behind(ch_rtaskq)
    /\ t_svcreq' = [t_svcreq EXCEPT ![Head(ch_rtaskq)] = m]
    /\ push_ready(Head(ch_rtaskq), 0)
    /\ handed' = Append(handed, m)
    /\ UNCHANGED <<storeVars, ch_wtaskq>>

\* Message m is stored, as no reader waits and there is room.
store(m) ==
    /\ ch_rtaskq = <<>> /\ ch_num < ch_cap
    /\ ring_put(m)
    /\ UNCHANGED <<ch_cap, ch_rcursor, queueVars, handed, readyVars>>

\* A write that has to wait.
write_block(t, sec, m) ==
    /\ ch_rtaskq = <<>> /\ ch_num >= ch_cap
    /\ InTime(sec)
    /\ ch_wtaskq' = queued(ch_wtaskq, t)
    /\ t_svcreq' = [t_svcreq EXCEPT ![t] = m]
    /\ sending' = [sending EXCEPT ![t] = m]
    /\ do_yield(t, "write", sec, "channel", t_nsubs)
    /\ UNCHANGED <<storeVars, ch_rtaskq, handed>>

\* write.  (On a closed channel it returns EPIPE and changes nothing.)
write(t, sec) ==
    /\ Open /\ sent < MaxMsg
    /\ sent' = sent + 1
    /\ \/ (give_reader(sent + 1) \/ store(sent + 1)) /\ UNCHANGED <<taskVars, coVars, sending>>
       \/ write_block(t, sec, sent + 1)
    /\ UNCHANGED <<received, failed, loopVars, now>>

\* block_task has returned into write.
write_return(t) ==
    /\ current = t /\ co[t] = "back" /\ op[t] = "write"
    /\ ch_wtaskq' = IF ret[t] # 0 /\ Open THEN give_up(ch_wtaskq, t) ELSE ch_wtaskq
    /\ failed' = IF ret[t] # 0 THEN failed \cup {sending[t]} ELSE failed
    /\ sending' = [sending EXCEPT ![t] = NoMsg]
    /\ co' = [co EXCEPT ![t] = "run"]
    /\ op' = [op EXCEPT ![t] = "none"]
    /\ till' = [till EXCEPT ![t] = NoTimer]
    /\ ret' = [ret EXCEPT ![t] = 0]
    /\ UNCHANGED <<storeVars, ch_rtaskq, t_svcreq, sent, handed, received,
                   readyVars, taskVars, current, loopVars, now>>

\* post.  (Without a reader and without room it returns false and changes
\* nothing.)
post(t) ==
    /\ Open /\ sent < MaxMsg
    /\ ch_rtaskq # <<>> => ch_wtaskq = <<>>
    /\ sent' = sent + 1
    /\ give_reader(sent + 1) \/ store(sent + 1)
    /\ UNCHANGED <<received, failed, sending, taskVars, coVars, loopVars, now>>

\* post's assertion fails: both lists hold something, which they also do on
\* a closed channel.  The error ends the task and loop().
post_assert(t) ==
    /\ ~Open \/ (ch_rtaskq # <<>> /\ ch_wtaskq # <<>>)
    /\ die(t, t_nsubs)
    /\ at' = IF t_sig[t] THEN at ELSE "aborted"
    /\ UNCHANGED <<chVars, batch, caller, now>>

\* The slots close clears: its cursor wraps one slot too early.
cleared ==
    IF ch_cap = 1 \/ ch_rcursor = ch_cap THEN {i \in {ch_cap} : ch_num > 0}
    ELSE {((ch_rcursor - 1 + k) % (ch_cap - 1)) + 1 : k \in 0..(ch_num - 1)}

close_readers_only == ch_rtaskq

\* Whom close wakes, in this order.
close_wakes == ch_rtaskq \o ch_wtaskq

\* close, of a channel that is open.
close(t) ==
    /\ Open
    /\ ch_num' = -1
    /\ push_all(close_wakes)
    /\ ch_rtaskq' = <<>> /\ ch_wtaskq' = <<>>
    /\ ch_msgring' = [i \in 1..ch_cap |-> IF i \in cleared THEN NoMsg ELSE ch_msgring[i]]
    /\ UNCHANGED <<ch_cap, ch_rcursor, ch_wcursor, t_svcreq, historyVars, taskVars,
                   coVars, loopVars, now>>

---------------------------------------------------------------------------
(* The specification *)

ChInit ==
    /\ Init
    /\ ch_cap \in Caps
    /\ ch_num = 0 /\ ch_rcursor = 1 /\ ch_wcursor = 1
    /\ ch_msgring = [i \in 1..ch_cap |-> NoMsg]
    /\ ch_rtaskq = <<>> /\ ch_wtaskq = <<>>
    /\ t_svcreq = [t \in Task |-> NoMsg]
    /\ sent = 0 /\ handed = <<>> /\ received = {} /\ failed = {}
    /\ sending = [t \in Task |-> NoMsg]

ChYield(t) ==
    \/ Yield(t) /\ UNCHANGED chVars
    \/ InProgram(t) /\ (\E s \in ChSecs : read(t, s) \/ write(t, s))
    \/ read_return(t) \/ write_return(t)

ChCall(t) ==
    \/ Call(t) /\ UNCHANGED chVars
    \/ Running(t) /\ (post(t) \/ post_assert(t) \/ close(t))

ChNext ==
    \/ \E t \in Task : ChYield(t) \/ ChCall(t)
    \/ (Loop \/ update_time \/ aborted) /\ UNCHANGED chVars

ChSpec == ChInit /\ [][ChNext]_allVars

\* As in Tasklet.
ChFairness ==
    /\ \A t \in Task : WF_allVars(ChYield(t))
    /\ WF_allVars(Loop /\ UNCHANGED chVars)
    /\ WF_allVars(update_time /\ UNCHANGED chVars)

ChFairSpec == ChSpec /\ ChFairness

---------------------------------------------------------------------------
(* Properties *)

Handed(m) == \E i \in 1..Len(handed) : handed[i] = m
Received(m) == \E e \in {0, Nil} : <<m, e>> \in received
Waiting(t, o) == co[t] = "parked" /\ op[t] = o /\ ~t_prev[t]

\* The messages no reader has got yet: the stored ones from ch_rcursor on,
\* then those the waiting writers hold.
Content ==
    IF ~Open THEN <<>>
    ELSE [i \in 1..ch_num |-> ch_msgring[((ch_rcursor + i - 2) % ch_cap) + 1]]
         \o [i \in 1..Len(ch_wtaskq) |-> t_svcreq[ch_wtaskq[i]]]

Fifo == INSTANCE MessageFifo WITH open <- Open, cap <- ch_cap, queue <- Content

\* The ring and the waiting writers together are one first-in first-out
\* queue: read, write, post, time-outs and close, whatever their order,
\* hand the messages out in the order they came in, each once.
IsFifo == Fifo!Spec

\* Nobody waits without a reason: a reader that is not on its way to be
\* resumed is in ch_rtaskq and there is nothing to read, a writer is in
\* ch_wtaskq and the buffer is full.
NoStranded ==
    \A t \in Task :
        /\ Waiting(t, "read") => Open /\ Contains(ch_rtaskq, t) /\ Content = <<>>
        /\ Waiting(t, "write") => Open /\ Contains(ch_wtaskq, t) /\ ch_num = ch_cap

\* A task whose wait ended in an error is still in the list that read or
\* write will unlink it from, and one whose wait succeeded is in none.
UnlinkOnlyQueued ==
    \A t \in Task : co[t] = "back" /\ Open =>
        /\ op[t] = "read" => (ret[t] # 0 <=> Contains(ch_rtaskq, t))
        /\ op[t] = "write" => (ret[t] # 0 <=> Contains(ch_wtaskq, t))

\* A message that is handed out is held by one task, on its way to return it,
\* until a read has returned it.
HeldOrReceived ==
    \A m \in Msg : Handed(m) =>
        \/ Received(m)
        \/ \E t \in Task :
               /\ t_svcreq[t] = m /\ op[t] = "read"
               /\ \/ co[t] = "parked" /\ t_prev[t] /\ t_err[t] = 0
                  \/ co[t] = "back" /\ ret[t] = 0

\* write tells the truth: a message it reported an error for never reaches
\* a reader, and one it accepts has been handed out or is still stored, or
\* the channel was closed.
WriteExact ==
    /\ \A m \in failed : ~Handed(m) /\ ~Contains(Content, m)
    /\ \A t \in Task : co[t] = "back" /\ op[t] = "write" /\ ret[t] = 0 =>
           Handed(sending[t]) \/ Contains(Content, sending[t]) \/ ~Open

\* A message that has left the channel has been returned by a read, or one
\* task holds it that is on its way to return it; and write tells the truth
\* about what becomes of its message.
OnTheWay ==
    /\ HeldOrReceived
    /\ WriteExact

\* close ends every read and write.
CloseEndsAll ==
    \A t \in Task : (~Open /\ op[t] \in {"read", "write"}) ~>
                        (op[t] \notin {"read", "write"} \/ at = "aborted")
============================================================================
