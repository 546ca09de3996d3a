------------------------------ MODULE Sockets ------------------------------
(***************************************************************************)
(* The two kinds of sockets that hand out whole items, on top of the       *)
(* scheduler: a server channel, which accepts connections                  *)
(* (lask/luasrc/tasklet/channel/streamserver.lua), and a task's datagram   *)
(* socket (lask/luasrc/tasklet/dgram.lua), with the functions of           *)
(* lask/std/lsocket.c they call.  Both remember that an edge has been      *)
(* reported, ch_pending and t_rdgram, and trust that mark until a system   *)
(* call finds nothing.  The handlers of one poll run before any task.      *)
(*                                                                         *)
(* One action of accept is one round of its loop; a task that is "back" in *)
(* it is at the loop's head, or where block_task has returned.             *)
(***************************************************************************)
EXTENDS TaskCalls

CONSTANTS
    Backlog,    \* how many connections the kernel keeps: lsocket_listen
                \* takes its first argument, the descriptor, for the backlog
    AcceptSecs, \* the time-outs tasks pass to accept; -1: none
    RecvSecs,   \* and to recvfrom
    MaxConn,    \* bound: how many connections are made
    MaxDgram    \* bound: how many datagrams are sent

ASSUME SocketAssumption ==
    /\ Backlog \in Nat \ {0} /\ MaxConn \in Nat /\ MaxDgram \in Nat
    /\ AcceptSecs \cup RecvSecs \subseteq Int
    /\ {"server", "dgram"} \subseteq Obj

VARIABLES
    ch_open,            \* the channel has its descriptor: ch_fd >= 0
    ch_pending, ch_task,
    acc,                \* the argument and the place of a task's accept
    backlog,            \* how many connections wait in the kernel
    server_edge,        \* epoll has the socket in its list for the next poll
    t_dgramfd,          \* the task that has the datagram socket, or None
    t_rdgram,           \* its mark
    queue,              \* the datagrams in the kernel, empty ones or not
    so_error,           \* an error of the socket is pending
    dgram_edge,
    conns, dgrams,      \* history: how many there were,
    slip                \* and the tasks for which the code lets an edge pass:
                        \* another task accepts as well, or a task signal met
                        \* the event or took the mark of what blocks the task;
                        \* None: for whoever receives, as an error was read

serverVars == <<ch_open, ch_pending, ch_task, acc, backlog, server_edge, conns>>
dgramVars == <<t_dgramfd, t_rdgram, queue, so_error, dgram_edge, dgrams>>
sockVars == <<serverVars, dgramVars, slip>>
allVars == <<vars, sockVars>>

NoAccept == [sec |-> -1, waited |-> FALSE]

---------------------------------------------------------------------------
(* The kernel *)

ServerDue == server_edge /\ backlog > 0
DgramDue == dgram_edge /\ (queue # <<>> \/ so_error)

connection ==
    /\ ch_open /\ backlog < Backlog /\ conns < MaxConn
    /\ backlog' = backlog + 1 /\ conns' = conns + 1
    /\ server_edge' = TRUE
    /\ UNCHANGED <<vars, ch_open, ch_pending, ch_task, acc, dgramVars, slip>>

\* A connection is gone before it was accepted.
connection_lost ==
    /\ backlog > 0
    /\ backlog' = backlog - 1
    /\ UNCHANGED <<vars, ch_open, ch_pending, ch_task, acc, server_edge, conns,
                   dgramVars, slip>>

dgram_arrives ==
    /\ \/ /\ dgrams < MaxDgram /\ dgrams' = dgrams + 1
          /\ \E kind \in {"data", "empty"} : queue' = Append(queue, kind)
          /\ UNCHANGED so_error
       \/ /\ ~so_error /\ so_error' = TRUE
          /\ UNCHANGED <<queue, dgrams>>
    /\ dgram_edge' = (t_dgramfd # None)
    /\ UNCHANGED <<vars, serverVars, t_dgramfd, t_rdgram, slip>>

Environment == connection \/ connection_lost \/ dgram_arrives

---------------------------------------------------------------------------
(* accept *)

\* accept begins.  (On a closed channel it returns at once.)
accept(t, sec) ==
    /\ ch_open
    /\ acc' = [acc EXCEPT ![t] = [sec |-> sec, waited |-> FALSE]]
    /\ enters(t, "accept")
    /\ UNCHANGED <<ch_open, ch_pending, ch_task, backlog, server_edge, conns, dgramVars,
                   slip, loopVars, now>>

\* When block_task has returned, accept forgets which task waits, whoever it is.
waiter(t) == IF acc[t].waited THEN None ELSE ch_task

accept_returns(t) ==
    /\ returns(t)
    /\ acc' = [acc EXCEPT ![t] = NoAccept]
    /\ ch_task' = waiter(t)
    /\ UNCHANGED readyVars

accept_ends(t) ==
    /\ ret[t] # 0 \/ ~ch_open
    /\ accept_returns(t)
    /\ UNCHANGED <<ch_pending, backlog>>

pending_after_one(err) == FALSE

\* The mark after an accept(2) that returned err: EAGAIN clears it.
pending_after(err) == IF err = "EAGAIN" THEN FALSE ELSE ch_pending

\* accept(2) succeeds.
accept_one(t) ==
    /\ ret[t] = 0 /\ ch_open /\ ch_pending
    /\ backlog > 0
    /\ backlog' = backlog - 1
    /\ ch_pending' = pending_after("none")
    /\ accept_returns(t)

\* accept(2) fails with another error than EAGAIN, and is called again: the
\* connection was aborted and is gone, or there is no descriptor for it.
accept_again(t) ==
    /\ ret[t] = 0 /\ ch_open /\ ch_pending /\ backlog > 0
    /\ backlog' \in {backlog - 1, backlog}
    /\ ch_pending' = pending_after("error")
    /\ acc' = [acc EXCEPT ![t].waited = FALSE]
    /\ ch_task' = waiter(t)
    /\ UNCHANGED <<readyVars, taskVars, coVars>>

\* There is nothing to accept: wait for the whole of sec, again.
accept_waits(t) ==
    /\ ret[t] = 0 /\ ch_open
    /\ ch_pending => backlog = 0
    /\ ch_pending' = FALSE
    /\ \/ /\ acc[t].sec # 0
          /\ ch_task' = t
          /\ acc' = [acc EXCEPT ![t].waited = TRUE]
          /\ do_yield(t, "accept", acc[t].sec, "server", t_nsubs)
       \/ /\ acc[t].sec = 0
          /\ accept_returns(t)
    /\ UNCHANGED backlog

competing(t) == {u \in Task \ {t} : op[u] = "accept"}

accept_round(t) ==
    /\ current = t /\ co[t] = "back" /\ op[t] = "accept"
    /\ slip' = (slip \ {t}) \cup competing(t)
    /\ accept_ends(t) \/ accept_one(t) \/ accept_again(t) \/ accept_waits(t)
    /\ UNCHANGED <<ch_open, server_edge, conns, dgramVars, loopVars, now>>

close(t) ==
    /\ ch_open
    /\ ch_open' = FALSE /\ backlog' = 0 /\ server_edge' = FALSE
    /\ wake(ch_task, 0)
    /\ ch_task' = None
    /\ slip' = slip \cup {u \in Task : u = ch_task /\ Linked(u)}
    /\ UNCHANGED <<ch_pending, acc, conns, dgramVars, taskVars, coVars, loopVars, now>>

---------------------------------------------------------------------------
(* recvfrom and recvfromb *)

\* set_dgramfd: the handler is for the task that calls it.
set_dgramfd(t) ==
    /\ t_dgramfd = None
    /\ t_dgramfd' = t /\ t_rdgram' = FALSE
    /\ dgram_edge' = (queue # <<>> \/ so_error)
    /\ UNCHANGED <<queue, so_error, dgrams, serverVars, slip, vars>>

\* FIONREAD: the size of the first datagram; without a size there is nothing
\* to read.
navaiable == queue # <<>> /\ Head(queue) # "empty"

\* socket.recvfrom: err, where "nothing" is no error and no datagram either.
lsocket_recvfrom(err) ==
    \/ /\ ~navaiable /\ err = "nothing"
       /\ UNCHANGED <<queue, so_error>>
    \/ /\ navaiable /\ so_error /\ err = "error"
       /\ so_error' = FALSE /\ UNCHANGED queue
    \/ /\ navaiable /\ ~so_error /\ err = "none"
       /\ queue' = Tail(queue) /\ UNCHANGED so_error

\* recvfrom finds a datagram.
recvfrom_one(t) ==
    /\ t = t_dgramfd /\ t_rdgram
    /\ lsocket_recvfrom("none")
    /\ UNCHANGED <<t_dgramfd, t_rdgram, dgram_edge, dgrams, serverVars, slip, vars>>

\* recvfrom finds none, or does not look, and waits.
recvfrom_waits(t, sec) ==
    /\ t = t_dgramfd /\ InTime(sec)
    /\ \/ /\ ~t_rdgram /\ UNCHANGED <<queue, so_error, slip>>
       \/ /\ t_rdgram /\ lsocket_recvfrom("nothing") /\ UNCHANGED slip
       \/ /\ t_rdgram /\ lsocket_recvfrom("error") /\ slip' = slip \cup {None}
    /\ t_rdgram' = FALSE
    /\ do_yield(t, "recvfrom", sec, "dgram", t_nsubs)
    /\ UNCHANGED <<t_dgramfd, dgram_edge, dgrams, serverVars, loopVars, now>>

\* block_task returns: if it was the handler that woke the task, what it
\* reads is the result, whatever it is.
recvfrom_return(t) ==
    /\ current = t /\ co[t] = "back" /\ op[t] = "recvfrom"
    /\ \/ ret[t] = 0 /\ \E err \in {"none", "nothing", "error"} : lsocket_recvfrom(err)
       \/ ret[t] # 0 /\ UNCHANGED <<queue, so_error>>
    /\ returns(t)
    /\ t_blockedby' = [t_blockedby EXCEPT ![t] = NoObj]
    /\ slip' = slip \ {t}
    /\ UNCHANGED <<ready, t_prev, t_err, rb_key, t_dgramfd, t_rdgram, dgram_edge, dgrams,
                   serverVars, loopVars, now>>

---------------------------------------------------------------------------
(* The event handlers *)

marked_unless_waiting == ch_pending \/ ch_task = None

\* The mark after an event.
marked == TRUE

\* The channel's __call: whom it wakes.
server_handler ==
    IF ServerDue
    THEN /\ ch_pending' = marked /\ ch_task' = None
    ELSE UNCHANGED <<ch_pending, ch_task>>

\* The handler of set_dgramfd.
Blocked == t_dgramfd # None /\ t_blockedby[t_dgramfd] = "dgram"
dgram_handler == t_rdgram' = (DgramDue \/ t_rdgram)

\* One poll reports both sockets, in either order.
on_events ==
    /\ Idle("poll") /\ (ServerDue \/ DgramDue)
    /\ server_handler /\ dgram_handler
    /\ LET s == only_if(ServerDue, ch_task)
           d == only_if(DgramDue /\ Blocked, t_dgramfd)
       IN  wake_both(s, 0, d, 0) \/ wake_both(d, 0, s, 0)
    /\ server_edge' = FALSE /\ dgram_edge' = FALSE
    /\ slip' = IF DgramDue THEN slip \ {None} ELSE slip
    /\ at' = "resume_list" /\ caller' = "events"
    /\ UNCHANGED <<taskVars, coVars, batch, now, ch_open, acc, backlog, conns,
                   t_dgramfd, queue, so_error, dgrams>>

\* A task signal for u: what woke u already is lost, and so is the mark that
\* the handler of the datagram socket looks for.
Signalled(u) == t_sig'[u] /\ (op[u] = "recvfrom" \/ (op[u] = "accept" /\ Linked(u)))

---------------------------------------------------------------------------
(* The specification *)

SockInit ==
    /\ Init
    /\ ch_open = TRUE /\ ch_pending = FALSE /\ ch_task = None
    /\ acc = [t \in Task |-> NoAccept]
    /\ backlog = 0 /\ server_edge = FALSE
    /\ t_dgramfd = None /\ t_rdgram = FALSE
    /\ queue = <<>> /\ so_error = FALSE /\ dgram_edge = FALSE
    /\ conns = 0 /\ dgrams = 0 /\ slip = {}

SockYield(t) ==
    \/ Yield(t) /\ UNCHANGED sockVars
    \/ InProgram(t) /\ (\/ \E sec \in AcceptSecs : accept(t, sec)
                        \/ \E sec \in RecvSecs : recvfrom_waits(t, sec)
                        \/ close(t) \/ set_dgramfd(t) \/ recvfrom_one(t))
    \/ accept_round(t) \/ recvfrom_return(t)

SockLoop ==
    \/ at # "poll" /\ Loop /\ UNCHANGED sockVars
    \/ /\ ~ServerDue /\ ~DgramDue
       /\ poll_events \/ poll_nothing
       /\ server_edge' = FALSE /\ dgram_edge' = FALSE
       /\ UNCHANGED <<ch_open, ch_pending, ch_task, acc, backlog, conns,
                      t_dgramfd, t_rdgram, queue, so_error, dgrams, slip>>
    \/ on_events

SockNext ==
    \/ \E t \in Task : SockYield(t)
                       \/ /\ Call(t)
                          /\ slip' = slip \cup {u \in Task : Signalled(u)}
                          /\ UNCHANGED <<serverVars, dgramVars>>
    \/ SockLoop \/ Environment
    \/ update_time /\ UNCHANGED sockVars

SockSpec == SockInit /\ [][SockNext]_allVars

---------------------------------------------------------------------------
(* Properties *)

\* t waits in call o and nothing is under way to resume it.
Stuck(t, o) == co[t] = "parked" /\ op[t] = o /\ ~t_prev[t]

\* Apart from the known ways, no edge is lost, however many items it stands
\* for: a task that waits for a connection or a datagram, with nothing to
\* report to it, is known to the handler, and there is nothing for it.  (An
\* empty datagram is never read, and nothing behind it.)
NoSocketStall ==
    \A t \in Task \ slip :
        /\ Stuck(t, "accept") /\ ~server_edge =>
               ch_task = t /\ ~ch_pending /\ backlog = 0
        /\ Stuck(t, "recvfrom") /\ ~dgram_edge /\ None \notin slip =>
               t = t_dgramfd /\ ~navaiable /\ ~t_rdgram

\* Who is woken is woken for something: a task that block_task returns to
\* without an error finds the mark set, or the channel closed, when it
\* accepts, and a datagram or an error of the socket when it receives.
WokenForSomething ==
    \A t \in Task \ slip :
        /\ co[t] = "back" /\ op[t] = "accept" /\ acc[t].waited /\ ret[t] = 0 =>
               ch_pending \/ ~ch_open
        /\ co[t] = "back" /\ op[t] = "recvfrom" /\ ret[t] = 0 =>
               queue # <<>> \/ so_error
============================================================================
