--------------------------- MODULE StreamChannel ---------------------------
(***************************************************************************)
(* A stream channel (lask/luasrc/tasklet/channel/stream.lua), the tasks    *)
(* that use it, on top of the scheduler of Tasklet, and the socket under   *)
(* it, whose events epoll reports edge-triggered: once, at the next poll   *)
(* after something has happened, and not again while it lasts.             *)
(*                                                                         *)
(* The channel has one connection in its life: the descriptor it was       *)
(* created with, or the one that connect makes.  Bytes are named by their  *)
(* position in the stream of the connection.                               *)
(*                                                                         *)
(* read and write are loops.  One action is one round of the loop; a task  *)
(* that is "back" in them is where block_task returns, which is also where *)
(* the first round begins, as the assignments there change nothing then.   *)
(***************************************************************************)
EXTENDS TaskCalls

CONSTANTS
    RBufSiz,    \* ch_rbufsiz
    Reqs,       \* what tasks pass to read as bytes; Line: nothing
    WriteSizes, \* how many bytes they write at once
    RdSecs,     \* the time-outs they pass to read and connect
    WrSecs,     \* and to write
    Newlines,   \* which bytes of the stream end a line
    MaxByte,    \* bound: how many bytes the peer sends
    Room,       \* how many bytes the kernel takes to send
    Pipe        \* is the descriptor the reading end of a pipe

Line == 0

ASSUME StreamAssumption ==
    /\ RBufSiz \in Nat \ {0} /\ MaxByte \in Nat /\ Room \in Nat \ {0}
    /\ Reqs \subseteq Int /\ RdSecs \subseteq Int /\ WrSecs \subseteq Int
    /\ WriteSizes \subseteq Nat \ {0}
    /\ Newlines \subseteq Nat
    /\ Pipe \in BOOLEAN
    /\ "channel" \in Obj

VARIABLES
    ch_state, ch_err,
    ch_events,  \* the registered events, besides EDGE
    ch_rbuf,    \* the content of the receive buffer
    ch_nshift,  \* how many bytes of it the last read has returned
    ch_rreqsiz,
    ch_line,    \* a line the handler took out of ch_rbuf, or <<>>
    ch_rtask, ch_wtask,
    rd, wr,     \* the arguments and locals of the read or write a task is in
    link,       \* the kernel's connection
    kin,        \* the bytes that have arrived and are in the kernel
    end,        \* how the peer has ended the stream
    room,       \* how many bytes the kernel would take now
    edge,       \* epoll has the descriptor in its list for the next poll
    sent,       \* history: how many bytes the peer has sent,
    got,        \* the bytes that reads have returned,
    eof,        \* which kinds of read have reported the end,
    slip        \* and in which ways the code has let an edge pass: "full", the
                \* buffer was full; "end", the end came with the last bytes;
                \* "out", there was something to read as well

dataVars == <<ch_rbuf, ch_nshift, ch_line>>
bufVars == <<dataVars, ch_rreqsiz>>
chVars == <<ch_state, ch_err, ch_events, bufVars, ch_rtask, ch_wtask>>
kernelVars == <<link, kin, end, room, edge>>
historyVars == <<sent, got, eof, slip>>
strVars == <<chVars, rd, wr, kernelVars, historyVars>>
allVars == <<vars, strVars>>

CLOSED == -2
ERRORED == -1
HALFCLOSED == 0
CONNECTING == 1
ESTABLISHED == 2
READABLE == 3

EBADF == 9
ECONN == EPIPE                 \* the error of a connection that has failed

NoRead == [bytes |-> Line, neg |-> FALSE, until |-> NoTimer]
NoWrite == [left |-> 0, once |-> FALSE, until |-> NoTimer]

---------------------------------------------------------------------------
(* The socket and epoll *)

InReady == kin # <<>> \/ end # "no" \/ link = "refused"
OutReady == (link = "up" /\ (room > 0 \/ end = "reset")) \/ link = "refused"

\* What epoll_wait would report now.  (lpoll_wait adds IN to HUP and ERR.)
Revents ==
    {e \in {"IN"} : InReady}
    \cup {e \in {"OUT"} : "WRITE" \in ch_events /\ OutReady}
    \cup {e \in {"HUP"} : end = "reset" \/ (end = "fin" /\ Pipe) \/ link = "refused"}

EventDue == edge /\ Revents # {}

env(changed) == UNCHANGED <<vars, chVars, rd, wr, got, eof, slip, changed>>

connected ==
    /\ link = "connecting"
    /\ link' \in {"up", "refused"}
    /\ edge' = TRUE
    /\ env(<<kin, end, room, sent>>)

arrive ==
    /\ link = "up" /\ end = "no"
    /\ \E n \in 1..(MaxByte - sent) :
           /\ kin' = kin \o [i \in 1..n |-> sent + i]
           /\ sent' = sent + n
    /\ edge' = TRUE
    /\ env(<<link, end, room>>)

peer_ends ==
    /\ link = "up"
    /\ \/ end = "no" /\ end' = "fin"
       \/ end # "reset" /\ ~Pipe /\ end' = "reset"
    /\ edge' = TRUE
    /\ env(<<link, kin, room, sent>>)

drain ==
    /\ link = "up" /\ end # "reset" /\ room < Room
    /\ room' = Room
    /\ edge' = (edge \/ "WRITE" \in ch_events)
    /\ env(<<link, kin, end, sent>>)

Environment == connected \/ arrive \/ peer_ends \/ drain

---------------------------------------------------------------------------
(* Building blocks *)

\* The first line of b with its end, or <<>> if b holds no whole line.
first_line(b) ==
    LET Ends == {i \in 1..Len(b) : b[i] \in Newlines}
    IN  IF Ends = {} THEN <<>> ELSE SubSeq(b, 1, Min(Ends))

without(b, n) == SubSeq(b, n + 1, Len(b))

\* How much stream_channel_read asks os.readb for.
free == RBufSiz - Len(ch_rbuf)

state_read_unmarked(n, rest) ==
    IF n > 0 THEN ESTABLISHED ELSE IF end = "reset" THEN ERRORED ELSE HALFCLOSED

state_read_full(n, rest) ==
    IF n = free THEN READABLE
    ELSE IF n > 0 THEN ESTABLISHED ELSE IF end = "reset" THEN ERRORED ELSE HALFCLOSED

\* The state after os.readb has read n bytes and left rest in the kernel.
\* It reports neither that there is nothing to read nor the end as an error,
\* so both half-close the channel.
state_read(n, rest) ==
    IF n = free /\ rest # <<>> THEN READABLE
    ELSE IF n > 0 THEN ESTABLISHED ELSE IF end = "reset" THEN ERRORED ELSE HALFCLOSED

\* stream_channel_read: what it makes of the buffer, the kernel's bytes and
\* the state, and what it returns.
stream_channel_read ==
    LET n == Min({free, Len(kin)})
        rest == without(kin, n)
    IN  [rbuf |-> ch_rbuf \o SubSeq(kin, 1, n), kin |-> rest,
         state |-> IF free = 0 THEN ch_state ELSE state_read(n, rest),
         updated |-> free > 0, left |-> free > 0 /\ rest # <<>>]

\* What a read from the kernel whose result is f leaves unnoticed: the end
\* of the stream behind the bytes it got, if the edge for it has passed.
unnoticed_end(f, state) ==
    {s \in {"end"} : f.updated /\ state = ESTABLISHED /\ end # "no"}

\* The part of stream_channel_read that is the same wherever it is called.
take_from_kernel(f) ==
    /\ kin' = f.kin
    /\ ch_err' = IF f.state = ERRORED THEN ECONN ELSE ch_err
    /\ ch_nshift' = IF f.state = ERRORED THEN 0 ELSE ch_nshift

\* error() in a task: it ends, and loop() with it unless a signal is pending.
error(t) ==
    /\ die(t, t_nsubs)
    /\ at' = IF t_sig[t] THEN at ELSE "aborted"
    /\ UNCHANGED <<strVars, batch, caller, now>>

\* Until when a call with the time-out sec may take.
deadline(sec) == IF sec < 0 THEN NoTimer ELSE now + sec
TimedOut(d) == d # NoTimer /\ now >= d
TimeLeft(d) == IF d = NoTimer THEN -1 ELSE d - now

---------------------------------------------------------------------------
(* read *)

shifted_not == ch_rbuf

\* The buffer without what the last read has returned.
shifted == without(ch_rbuf, ch_nshift)

\* read begins.  (It returns EBADF or ch_err, changing nothing, on a closed
\* or failed channel.)
read(t, req, sec) ==
    /\ ch_state \notin {CLOSED, ERRORED} /\ ch_rtask = None
    /\ now + sec <= MaxNow
    /\ rd' = [rd EXCEPT ![t] =
                 [bytes |-> IF req < 0 THEN -req ELSE Min({req, RBufSiz}),
                  neg |-> req < 0, until |-> deadline(sec)]]
    /\ ch_rbuf' = shifted
    /\ ch_nshift' = 0
    /\ enters(t, "read")
    /\ UNCHANGED <<ch_state, ch_err, ch_events, ch_rreqsiz, ch_line, ch_rtask, ch_wtask,
                   wr, kernelVars, historyVars, loopVars, now>>

\* Another task reads already, which the documentation forbids.
read_busy(t) == ch_state # CLOSED /\ ch_rtask # None /\ error(t)

\* The wait, the last read from the kernel or somebody else has ended it.
Broken(t) == ret[t] # 0 \/ ch_state < 0

HasBytes(t) == rd[t].bytes # Line /\ Len(ch_rbuf) >= rd[t].bytes
HasLine(t) == rd[t].bytes = Line /\ (ch_line # <<>> \/ first_line(ch_rbuf) # <<>>)
CanReturn(t) == HasBytes(t) \/ HasLine(t) \/ ch_state = HALFCLOSED

read_ends(t) == returns(t) /\ rd' = [rd EXCEPT ![t] = NoRead]

read_fails(t) ==
    /\ Broken(t)
    /\ read_ends(t)
    /\ UNCHANGED <<dataVars, ch_state, ch_err, kin, got, eof, slip, readyVars>>

\* The bytes that were asked for, or all there are at the end of the stream.
read_bytes(t) ==
    LET n == IF HasBytes(t) /\ ~rd[t].neg THEN rd[t].bytes ELSE Len(ch_rbuf)
    IN  /\ ~Broken(t) /\ CanReturn(t) /\ rd[t].bytes # Line
        /\ got' = got \o SubSeq(ch_rbuf, 1, n)
        /\ ch_nshift' = n
        /\ eof' = IF n = 0 THEN eof \cup {"bytes"} ELSE eof
        /\ read_ends(t)
        /\ UNCHANGED <<ch_rbuf, ch_line, ch_state, ch_err, kin, slip, readyVars>>

read_line(t) ==
    LET line == IF ch_line # <<>> THEN ch_line ELSE first_line(ch_rbuf)
    IN  /\ ~Broken(t) /\ CanReturn(t) /\ rd[t].bytes = Line
        /\ got' = got \o line
        /\ ch_line' = <<>>
        /\ ch_rbuf' = IF ch_line # <<>> THEN ch_rbuf ELSE without(ch_rbuf, Len(line))
        /\ eof' = IF line = <<>> THEN eof \cup {"line"} ELSE eof
        /\ read_ends(t)
        /\ UNCHANGED <<ch_nshift, ch_state, ch_err, kin, slip, readyVars>>

Exhausted(t) == ~Broken(t) /\ ~CanReturn(t)
FromKernel == ch_state = READABLE /\ stream_channel_read.updated

\* The state says that the kernel has more.
read_more(t) ==
    LET f == stream_channel_read
    IN  /\ Exhausted(t) /\ FromKernel
        /\ take_from_kernel(f)
        /\ ch_rbuf' = f.rbuf
        /\ ch_state' = f.state
        /\ wake(only_if(f.state = ERRORED, ch_wtask), ECONN)
        /\ slip' = IF edge THEN slip ELSE slip \cup unnoticed_end(f, f.state)
        /\ UNCHANGED <<ch_line, rd, got, eof, coVars, taskVars>>

read_timedout(t) ==
    /\ Exhausted(t) /\ ~FromKernel /\ TimedOut(rd[t].until)
    /\ read_ends(t)
    /\ UNCHANGED <<dataVars, ch_state, ch_err, kin, got, eof, slip, readyVars>>

read_wait(t) ==
    /\ Exhausted(t) /\ ~FromKernel /\ ~TimedOut(rd[t].until)
    /\ do_yield(t, "read", TimeLeft(rd[t].until), "channel", t_nsubs)
    /\ UNCHANGED <<ch_rbuf, ch_nshift, ch_line, ch_state, ch_err, rd, kin, got, eof, slip>>

\* One round of read's loop, from block_task's return on.
read_step(t) ==
    /\ current = t /\ co[t] = "back" /\ op[t] = "read"
    /\ \/ /\ \/ read_fails(t) \/ read_bytes(t) \/ read_line(t)
             \/ read_more(t) \/ read_timedout(t)
          /\ ch_rtask' = None
          /\ ch_rreqsiz' = 0
       \/ /\ read_wait(t)
          /\ ch_rtask' = t
          /\ ch_rreqsiz' = IF rd[t].bytes = Line THEN -1 ELSE rd[t].bytes
    /\ UNCHANGED <<ch_events, ch_wtask, wr, link, end, room, edge, sent, loopVars, now>>

---------------------------------------------------------------------------
(* write *)

write(t, n, sec) ==
    /\ ch_state \notin {CLOSED, ERRORED} /\ ch_wtask = None
    /\ now + sec <= MaxNow
    /\ wr' = [wr EXCEPT ![t] = [left |-> n, once |-> sec = 0, until |-> deadline(sec)]]
    /\ enters(t, "write")
    /\ UNCHANGED <<chVars, rd, kernelVars, historyVars, loopVars, now>>

write_busy(t) == ch_state # CLOSED /\ ch_wtask # None /\ error(t)

\* What os.writeb can send of what is left, and whether it fails instead.
Taken(t) == IF link = "up" THEN Min({room, wr[t].left}) ELSE 0
WriteFails == end = "reset" \/ link = "refused" \/ Pipe

write_ends(t) == returns(t) /\ wr' = [wr EXCEPT ![t] = NoWrite]

write_fails(t) ==
    /\ Broken(t)
    /\ write_ends(t)
    /\ UNCHANGED <<ch_state, ch_err, ch_events, room, edge, readyVars>>

write_error(t) ==
    /\ ~Broken(t) /\ WriteFails
    /\ ch_state' = ERRORED /\ ch_err' = ECONN
    /\ wake(ch_rtask, ECONN)
    /\ write_ends(t)
    /\ UNCHANGED <<ch_events, room, edge>>

\* Changing the registered events makes epoll look at the socket again,
\* which after a write that could not send everything takes no more.
ch_addwrite ==
    /\ ch_events' = ch_events \cup {"WRITE"}
    /\ edge' = (edge \/ ("WRITE" \notin ch_events /\ InReady))

\* Everything is sent, or the time is over.
write_returns(t) ==
    /\ ~Broken(t) /\ ~WriteFails
    /\ \/ Taken(t) = wr[t].left /\ UNCHANGED <<ch_events, edge>>
       \/ Taken(t) < wr[t].left /\ wr[t].once /\ UNCHANGED <<ch_events, edge>>
       \/ Taken(t) < wr[t].left /\ ~wr[t].once /\ TimedOut(wr[t].until) /\ ch_addwrite
    /\ room' = room - Taken(t)
    /\ write_ends(t)
    /\ UNCHANGED <<ch_state, ch_err, readyVars>>

write_wait(t) ==
    /\ ~Broken(t) /\ ~WriteFails
    /\ Taken(t) < wr[t].left /\ ~wr[t].once /\ ~TimedOut(wr[t].until)
    /\ room' = room - Taken(t)
    /\ wr' = [wr EXCEPT ![t].left = @ - Taken(t)]
    /\ ch_addwrite
    /\ do_yield(t, "write", TimeLeft(wr[t].until), "channel", t_nsubs)
    /\ UNCHANGED <<ch_state, ch_err>>

\* One round of write's loop, from block_task's return on.
write_step(t) ==
    /\ current = t /\ co[t] = "back" /\ op[t] = "write"
    /\ \/ /\ write_fails(t) \/ write_error(t) \/ write_returns(t)
          /\ ch_wtask' = None
       \/ write_wait(t) /\ ch_wtask' = t
    /\ UNCHANGED <<bufVars, ch_rtask, rd, link, kin, end, historyVars, loopVars, now>>

---------------------------------------------------------------------------
(* connect and close *)

close_wakes_writer(reader) == wake(ch_wtask, 0)

\* Whom close wakes, in this order.
close_wakes(reader) == wake_both(reader, 0, ch_wtask, 0)

\* close of an open channel, with reader in ch_rtask.  A line that waits in
\* ch_line stays there.
closing(reader) ==
    /\ ch_state' = CLOSED /\ ch_err' = EBADF
    /\ ch_rbuf' = <<>> /\ ch_nshift' = 0 /\ ch_rreqsiz' = 0
    /\ link' = "closed" /\ kin' = <<>> /\ end' = "no" /\ room' = Room /\ edge' = FALSE
    /\ close_wakes(reader)
    /\ UNCHANGED <<ch_line, ch_events, ch_wtask, slip>>

close(t) ==
    /\ ch_state # CLOSED
    /\ closing(ch_rtask)
    /\ UNCHANGED <<ch_rtask, rd, wr, sent, got, eof, taskVars, coVars, loopVars, now>>

\* connect of a channel that has never had a connection (the documentation
\* demands a closed one), which succeeds at once or has to wait.  (If it fails at once it changes nothing.)
connect(t, sec) ==
    /\ ch_state = CLOSED /\ link = "none" /\ InTime(sec)
    /\ \/ /\ link' = "up"
          /\ ch_state' = ESTABLISHED
          /\ ch_events' = {"READ"}
          /\ UNCHANGED <<ch_rtask, readyVars, taskVars, coVars>>
       \/ /\ link' = "connecting"
          /\ ch_state' = CONNECTING
          /\ ch_events' = {"READ", "WRITE"}
          /\ ch_rtask' = t
          /\ do_yield(t, "connect", sec, "channel", t_nsubs)
    /\ UNCHANGED <<ch_err, bufVars, ch_wtask, rd, wr, kin, end, room, edge, historyVars,
                   loopVars, now>>

\* block_task has returned into connect.
connect_return(t) ==
    /\ current = t /\ co[t] = "back" /\ op[t] = "connect"
    /\ ch_rtask' = None
    /\ \/ /\ ret[t] = 0 /\ ch_err = 0
          /\ ch_state' = ESTABLISHED
          /\ ch_events' = {"READ"}
          /\ edge' = (edge \/ InReady)
          /\ slip' = IF ch_wtask # None THEN slip \cup {"out"} ELSE slip
          /\ UNCHANGED <<ch_err, bufVars, ch_wtask, link, kin, end, room, readyVars>>
       \/ /\ ret[t] # 0 \/ ch_err # 0
          /\ ch_state # CLOSED
          /\ closing(None)
       \/ /\ ret[t] # 0 \/ ch_err # 0
          /\ ch_state = CLOSED
          /\ UNCHANGED <<ch_state, ch_err, ch_events, bufVars, ch_wtask, kernelVars, slip,
                         readyVars>>
    /\ returns(t)
    /\ UNCHANGED <<rd, wr, sent, got, eof, loopVars, now>>

---------------------------------------------------------------------------
(* The event handler, ch_onevents *)

\* The handler of a connected channel, when there is something to read.  It
\* reads once.  If a task is reading, it is told what it waits for; if not,
\* the state remembers that the kernel has more.
on_readable ==
    LET f == stream_channel_read
        hup == "HUP" \in Revents /\ f.state > 0
        state == IF hup THEN HALFCLOSED ELSE f.state
        seen == ch_rtask # None /\ (f.updated \/ hup)
        line == IF seen /\ state > 0 /\ ch_rreqsiz <= 0 THEN first_line(f.rbuf) ELSE <<>>
        r == seen /\ \/ state <= 0
                     \/ ch_rreqsiz > 0 /\ Len(f.rbuf) >= ch_rreqsiz
                     \/ line # <<>>
        next_state == IF ~seen /\ f.left THEN READABLE ELSE state
    IN  /\ ch_state \in {ESTABLISHED, READABLE, HALFCLOSED} /\ "IN" \in Revents
        /\ take_from_kernel(f)
        /\ ch_rbuf' = without(f.rbuf, Len(line))
        /\ ch_line' = IF line # <<>> THEN line ELSE ch_line
        /\ ch_rreqsiz' = IF f.state = ERRORED THEN 0 ELSE ch_rreqsiz
        /\ ch_state' = next_state
        /\ wake_both(only_if(f.state = ERRORED, ch_wtask), ECONN, only_if(r, ch_rtask), 0)
        /\ slip' = slip \cup unnoticed_end(f, next_state)
                        \cup {s \in {"full"} : ~f.updated /\ next_state = ESTABLISHED}
                        \cup {s \in {"out"} : "OUT" \in Revents /\ state # ERRORED
                                              /\ ch_wtask # None}
        /\ edge' = FALSE
        /\ UNCHANGED ch_events

\* The same handler when there is only room to write: it wakes the writer,
\* or stops listening if nobody writes.
on_writable ==
    /\ ch_state \in {ESTABLISHED, READABLE, HALFCLOSED} /\ "IN" \notin Revents
    /\ wake(ch_wtask, 0)
    /\ ch_events' = IF ch_wtask # None THEN ch_events ELSE {"READ"}
    /\ edge' = FALSE
    /\ UNCHANGED <<bufVars, ch_state, ch_err, kin, slip>>

\* SO_ERROR, the error of a connect that failed or of a reset since.
so_error == IF link = "up" /\ end # "reset" THEN 0 ELSE ECONN

on_connected ==
    /\ ch_state = CONNECTING
    /\ ch_err' = so_error
    /\ wake(ch_rtask, 0)
    /\ edge' = FALSE
    /\ UNCHANGED <<bufVars, ch_state, ch_events, kin, slip>>

\* A failed channel has no handler: it stops listening for room to write.
on_errored ==
    /\ ch_state = ERRORED
    /\ ch_events' = IF "OUT" \in Revents THEN {"READ"} ELSE ch_events
    /\ edge' = ("OUT" \in Revents /\ InReady)
    /\ UNCHANGED <<bufVars, ch_state, ch_err, kin, slip, readyVars>>

\* poll.wait returns the event, and loop calls the handler.
on_event ==
    /\ Idle("poll") /\ EventDue
    /\ on_readable \/ on_writable \/ on_connected \/ on_errored
    /\ at' = "resume_list" /\ caller' = "events"
    /\ UNCHANGED <<taskVars, coVars, batch, now, ch_rtask, ch_wtask, rd, wr, link, end, room,
                   sent, got, eof>>

---------------------------------------------------------------------------
(* The specification *)

StrInit ==
    /\ Init
    /\ \/ ch_state = ESTABLISHED /\ link = "up"
       \/ ch_state = CLOSED /\ link = "none" /\ ~Pipe
    /\ ch_err = 0 /\ ch_events = {"READ"}
    /\ ch_rbuf = <<>> /\ ch_nshift = 0 /\ ch_rreqsiz = 0 /\ ch_line = <<>>
    /\ ch_rtask = None /\ ch_wtask = None
    /\ rd = [t \in Task |-> NoRead] /\ wr = [t \in Task |-> NoWrite]
    /\ kin = <<>> /\ end = "no" /\ room = Room /\ edge = FALSE
    /\ sent = 0 /\ got = <<>> /\ eof = {} /\ slip = {}

StrYield(t) ==
    \/ Yield(t) /\ UNCHANGED strVars
    \/ InProgram(t) /\ (\/ \E sec \in RdSecs, req \in Reqs : read(t, req, sec)
                        \/ \E sec \in RdSecs : connect(t, sec)
                        \/ \E sec \in WrSecs, n \in WriteSizes : write(t, n, sec)
                        \/ read_busy(t) \/ write_busy(t))
    \/ read_step(t) \/ write_step(t) \/ connect_return(t)

StrCall(t) ==
    \/ Call(t) /\ UNCHANGED strVars
    \/ Running(t) /\ close(t)

\* A poll does not pass over an event, and takes a descriptor without one
\* out of its list.
StrLoop ==
    \/ at # "poll" /\ Loop /\ UNCHANGED strVars
    \/ /\ ~EventDue
       /\ poll_events \/ poll_nothing
       /\ edge' = FALSE
       /\ UNCHANGED <<chVars, rd, wr, link, kin, end, room, historyVars>>
    \/ on_event

StrNext ==
    \/ \E t \in Task : StrYield(t) \/ StrCall(t)
    \/ StrLoop \/ Environment
    \/ (update_time \/ aborted) /\ UNCHANGED strVars

StrSpec == StrInit /\ [][StrNext]_allVars

\* As in Tasklet.  That the running task sooner or later blocks or ends is
\* said of the state here, as it returns from many calls that do not block
\* first.  Nothing is assumed of the peer.
StrFairness ==
    /\ []<>(current = None)
    /\ WF_allVars(StrLoop)
    /\ WF_allVars(update_time /\ UNCHANGED strVars)

StrFairSpec == StrSpec /\ StrFairness

---------------------------------------------------------------------------
(* Properties *)

\* A task waits in call o and nothing is under way to resume it.
Waiting(t, o) == co[t] = "parked" /\ op[t] = o /\ ~t_prev[t]

\* A read from the kernel that finds nothing half-closes the channel, so
\* the state must be right about what the kernel has: READABLE only while
\* there is something, HALFCLOSED only after the peer has ended the stream.
StateTrue ==
    /\ ch_state = READABLE => kin # <<>>
    /\ ch_state = HALFCLOSED => end # "no"

\* Edges are not lost in any way but the known ones: while a reader waits
\* and epoll has nothing to report, the channel knows the reader, there is
\* nothing for it in the buffer or in the kernel, and nothing has happened
\* to the connection.
NoReadStall ==
    \A t \in Task : Waiting(t, "read") /\ ~edge /\ slip \subseteq {"out"} =>
        /\ ch_rtask = t
        /\ ~CanReturn(t) /\ kin = <<>>
        /\ ch_state = ESTABLISHED /\ end = "no"

\* While a writer waits and epoll has nothing to report, the kernel takes
\* nothing, the connection stands (or connect is still to return), and an
\* event will report the next room.
NoWriteStall ==
    \A t \in Task : Waiting(t, "write") /\ ~edge /\ "out" \notin slip =>
        /\ ch_wtask = t
        /\ ch_state > ERRORED /\ "WRITE" \in ch_events
        /\ link = "up" /\ ch_state # CONNECTING => room = 0 /\ end # "reset"

\* Neither side of the channel waits for what has happened already.
NoStall == NoReadStall /\ NoWriteStall

Blocking == {"read", "write", "connect"}

\* close and errors end every wait, and the end of the stream ends reads: at
\* some later moment no task is in a call that should have ended.
WaitsEnd ==
    (ch_state < 0 \/ end # "no")
    ~> (\/ \A t \in Task : op[t] # "read" /\ (ch_state < 0 => op[t] \notin Blocking)
        \/ slip # {} \/ at = "aborted")

Phase == IF ch_state # CLOSED THEN "open" ELSE IF link = "none" THEN "new" ELSE "closed"

\* What has arrived and no read has returned, in the order of reading.
Pending ==
    IF ch_state < 0 THEN <<>> ELSE ch_line \o SubSeq(ch_rbuf, ch_nshift + 1, Len(ch_rbuf)) \o kin

Stream == INSTANCE ByteStream WITH phase <- Phase, pending <- Pending

\* Whatever the sizes and the kinds of the reads, the time-outs, the events
\* and the fill of the buffer: the bytes come out in order and once, and the
\* end is reported after them.
IsStream == Stream!Spec
============================================================================
