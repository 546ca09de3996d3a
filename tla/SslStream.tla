------------------------------ MODULE SslStream ------------------------------
(***************************************************************************)
(* A TLS channel (lask/luasrc/tasklet/channel/sslstream.lua) over one      *)
(* connection, the tasks that use it, on top of the scheduler, and the     *)
(* binding of Ssl.  One reader and one writer share the session and one    *)
(* event mask; each remembers which direction its last SSL call asked for. *)
(* As in StreamChannel epoll reports an event once, one action is one      *)
(* round of a loop, and "back" is where block_task returns.                *)
(*                                                                         *)
(* Programs read and write after the handshake.                            *)
(***************************************************************************)
EXTENDS TaskCalls, Ssl

CONSTANTS
    ch_rbufsiz,
    Reqs,       \* what tasks pass to read as bytes; Line: nothing
    WriteSizes, \* how many records their writes take
    ReadSecs, WriteSecs, SetupSecs, CloseSecs,  \* time-outs; -1: none
    Newlines,   \* which bytes of the stream end a line
    MaxByte     \* bound: how many bytes the peer sends

Line == 0

ASSUME SslAssumption ==
    /\ ch_rbufsiz \in Nat \ {0} /\ RBUFSIZ \in Nat \ {0} /\ Room \in Nat \ {0}
    /\ MaxByte \in Nat
    /\ Reqs \subseteq Int /\ WriteSizes \subseteq Nat \ {0} /\ Newlines \subseteq Nat
    /\ ReadSecs \cup WriteSecs \cup SetupSecs \cup CloseSecs \subseteq Int
    /\ "channel" \in Obj

VARIABLES
    ch_fd, ch_state, ch_err,
    ch_events,          \* the events asked for, besides EDGE
    ch_rbuf, ch_nshift, ch_nreq, ch_line,
    ch_rtask, ch_wtask, ch_stask,
    ch_rlasterr, ch_wlasterr,
    rd, wr,             \* the arguments and locals of a task's read and write
    link,               \* the TCP connection
    conn,               \* the session on it and its records (see Ssl)
    registered,         \* was add_handler called
    edge,               \* epoll has the descriptor in its list for the next poll
    sent, renewed,      \* history: the peer's bytes; has it begun a new handshake
    got, eof,           \* what reads have returned, which kinds reported the end
    slip                \* and how the code has let an edge pass: "full", no room
                        \* in the buffer; "crossed", an SSL call of one task has
                        \* changed what the other waits for; "unwatched", there
                        \* is no handler; "unseen", bytes came with an error

bufVars == <<ch_rbuf, ch_nshift, ch_line, ch_nreq>>
errVars == <<ch_rlasterr, ch_wlasterr>>
waitVars == <<ch_rtask, ch_wtask, ch_stask>>
chVars == <<ch_fd, ch_state, ch_err, ch_events, bufVars, waitVars, errVars>>
netVars == <<link, conn, registered, edge>>
historyVars == <<sent, renewed, got, eof, slip>>
sslVars == <<chVars, rd, wr, netVars, historyVars>>
allVars == <<vars, sslVars>>

CLOSED == -2
ERRORED == -1
HALFCLOSED == 0
CONNECTING == 1
TCP == 2
HANDSHAKING == 3
SSL == 4

EBADF == EPIPE          \* the scheduler's model has one number for errors
NoFd == -1
FD == 3

\* ssl.ERROR_ZEROR_RETURN does not exist: it is nil, which no error equals.
EZERORET == -1

NoRead == [bytes |-> Line, neg |-> FALSE, sec |-> -1, since |-> 0]
NoWrite == [size |-> 0, again |-> FALSE, sec |-> -1, since |-> 0]

---------------------------------------------------------------------------
(* The peer, the network and epoll *)

InReady(s) == s.net # <<>> \/ s.tend # "no"
OutReady(s) == s.room > 0 \/ s.tend = "reset"
Ready(s, events) == link = "up" /\ (InReady(s) \/ ("WRITE" \in events /\ OutReady(s)))

Refused == link = "refused"
Revents == {e \in {"IN"} : InReady(conn) \/ Refused}
           \cup {e \in {"OUT"} : "WRITE" \in ch_events /\ (OutReady(conn) \/ Refused)}
EventDue == edge /\ Revents # {}

Sent(kind) == \E i \in 1..Len(conn.net) : conn.net[i].kind = kind

\* The peer may send records: its handshake is over and its stream is not.
PeerMaySend ==
    /\ link = "up" /\ conn.obj /\ conn.tend = "no"
    /\ conn.flights = <<>> /\ ~Sent("hello") /\ ~Sent("bye")

env(s) ==
    /\ conn' = s
    /\ edge' = (edge \/ (registered /\ Ready(s, ch_events)))
    /\ UNCHANGED <<vars, chVars, rd, wr, link, registered, got, eof, slip>>

push(item) == env([conn EXCEPT !.net = Append(@, item)])

connected ==
    /\ link = "connecting" /\ link' \in {"up", "refused"}
    /\ edge' = TRUE
    /\ UNCHANGED <<vars, chVars, rd, wr, conn, registered, historyVars>>

peer_sends ==
    /\ PeerMaySend
    /\ \E n \in 1..(MaxByte - sent) :
          push(Data([i \in 1..n |-> sent + i])) /\ sent' = sent + n
    /\ UNCHANGED renewed

peer_renews ==
    /\ PeerMaySend /\ ~renewed
    /\ push(Control("hello")) /\ renewed' = TRUE
    /\ UNCHANGED sent

\* The flight we wait for, or one the session refuses.
peer_answers ==
    /\ link = "up" /\ conn.tend = "no" /\ conn.net = <<>>
    /\ conn.flights # <<>> /\ Head(conn.flights) = "r"
    /\ \E kind \in {"flight", "bad"} : push(Control(kind))
    /\ UNCHANGED <<sent, renewed>>

peer_ends ==
    /\ link = "up"
    /\ \/ PeerMaySend /\ push(Control("bye"))
       \/ conn.tend = "no" /\ env([conn EXCEPT !.tend = "fin"])
       \/ conn.tend # "reset" /\ env([conn EXCEPT !.tend = "reset"])
    /\ UNCHANGED <<sent, renewed>>

drain ==
    /\ link = "up" /\ conn.tend # "reset" /\ conn.room < Room
    /\ conn' = [conn EXCEPT !.room = Room]
    /\ edge' = (edge \/ (registered /\ "WRITE" \in ch_events))
    /\ UNCHANGED <<vars, chVars, rd, wr, link, registered, historyVars>>

Environment ==
    connected \/ peer_sends \/ peer_renews \/ peer_answers \/ peer_ends \/ drain

---------------------------------------------------------------------------
(* Building blocks *)

first_line(b) ==
    LET Ends == {i \in 1..Len(b) : b[i] \in Newlines}
    IN  IF Ends = {} THEN <<>> ELSE SubSeq(b, 1, Min(Ends))

without(b, n) == SubSeq(b, n + 1, Len(b))

\* epoll looks at the socket again when the mask changes.
look(was, s, events) ==
    was \/ (registered /\ events # ch_events /\ Ready(s, events))

ask_never(events, err) == events

\* ch_addwrite, when the SSL call that returned err needs it.
ask(events, err) == IF err = ERROR_WANT_WRITE THEN events \cup {"WRITE"} ELSE events

set_events(was, s, events) ==
    /\ ch_events' = events
    /\ edge' = look(was, s, events)

\* What ch_read makes of l_readb's result d: the session, the buffer and the
\* state, whether the reader (r) and the writer (w) are to run, and err.
after_readb(d) ==
    LET rbuf == ch_rbuf \o d.bytes
        line == IF d.err = ERROR_NONE /\ ch_rtask # None /\ ch_nreq <= 0
                THEN first_line(rbuf) ELSE <<>>
        half == d.err = EZERORET
        fatal == d.err \notin {ERROR_NONE, EZERORET} \cup WANT
        served == ch_rtask = None \/ line # <<>> \/ (ch_nreq > 0 /\ Len(rbuf) >= ch_nreq)
    IN  [s |-> d.s, err |-> d.err, rbuf |-> without(rbuf, Len(line)), line |-> line,
         state |-> IF half THEN HALFCLOSED ELSE IF fatal THEN ERRORED ELSE ch_state,
         cherr |-> IF fatal THEN -d.err ELSE ch_err,
         r |-> half \/ fatal \/ (d.err = ERROR_NONE /\ served), w |-> fatal]

ch_read == after_readb(l_readb(conn, ch_rbufsiz - Len(ch_rbuf)))

\* What l_readb waits for if it has not brought enough.
wants(err) == IF err = ERROR_NONE THEN ERROR_WANT_READ ELSE err

\* A session whose handshake one task has moved while another waits on it.
crossed(s, other) == {x \in {"crossed"} : other # None /\ s.flights # conn.flights}

\* Bytes for which ch_read does not look, as they came with WANT_WRITE.
unseen(f) == {x \in {"unseen"} : f.err = ERROR_WANT_WRITE /\ f.rbuf # ch_rbuf}

gives_up(sec, since) == sec >= 0 /\ sec - (now - since) <= 0
left(sec, since) == IF sec >= 0 THEN sec - (now - since) ELSE sec

lost(s) == [s EXCEPT !.net = <<>>, !.tend = "no", !.room = Room]

dropped_attached(s) == lost(s)

\* The connection after ssl.detach and os.close.
dropped(s) == lost(l_detach(s))

---------------------------------------------------------------------------
(* connect and handshake *)

\* The end of connect and handshake without success.
setup_fails(t, state) ==
    /\ ch_state' = state /\ ch_fd' = NoFd
    /\ IF link \in {"up", "refused", "connecting"}
       THEN link' = "closed" /\ conn' = dropped(conn) /\ edge' = FALSE
       ELSE UNCHANGED <<link, conn, edge>>
    /\ returns(t)
    /\ UNCHANGED <<ch_events, readyVars>>

\* handshake from its first SSL call on, with the session s.
begin_handshake(t, s, sec) ==
    LET h == l_do_handshake(s)
    IN  /\ ch_fd' = IF h.err \in WANT \cup {ERROR_NONE} THEN FD ELSE NoFd
        /\ \/ /\ h.err \in WANT
              /\ conn' = h.s
              /\ set_events(edge, h.s, ask(ch_events, h.err))
              /\ ch_state' = HANDSHAKING /\ ch_rtask' = t
              /\ do_yield(t, "handshake", sec, "channel", t_nsubs)
              /\ UNCHANGED link
           \/ /\ h.err = ERROR_NONE
              /\ conn' = h.s
              /\ ch_state' = SSL /\ ch_rtask' = None
              /\ returns(t)
              /\ UNCHANGED <<ch_events, edge, link, readyVars>>
           \/ /\ h.err \notin WANT \cup {ERROR_NONE}
              /\ conn' = dropped(h.s) /\ link' = "closed" /\ edge' = FALSE
              /\ ch_state' = ERRORED /\ ch_rtask' = None
              /\ returns(t)
              /\ UNCHANGED <<ch_events, readyVars>>

setup_frame ==
    UNCHANGED <<ch_err, bufVars, ch_wtask, ch_stask, errVars, rd, wr, sent, renewed, got, eof,
                loopVars, now>>

\* handshake of a channel that was made of a descriptor.
handshake(t, sec) ==
    /\ ch_state = TCP /\ InTime(sec)
    /\ begin_handshake(t, conn, sec)
    /\ UNCHANGED <<registered, slip>>
    /\ setup_frame

handshake_return(t) ==
    /\ current = t /\ co[t] = "back" /\ op[t] = "handshake"
    /\ ch_rtask' = None
    /\ \/ /\ ret[t] = 0 /\ ch_err = 0
          /\ ch_state' = SSL
          /\ returns(t)
          /\ UNCHANGED <<ch_fd, ch_events, link, conn, edge, readyVars>>
       \/ /\ ret[t] # 0 \/ ch_err # 0
          /\ setup_fails(t, ERRORED)
    /\ UNCHANGED <<registered, slip>>
    /\ setup_frame

\* connect of a channel without a descriptor.  Only a connection that has to
\* wait gets a handler.
connect(t, sec) ==
    /\ ch_fd = NoFd /\ link = "none" /\ InTime(sec)
    /\ \/ /\ link' = "connecting" /\ registered' = TRUE
          /\ ch_state' = CONNECTING /\ ch_events' = {"READ", "WRITE"}
          /\ ch_rtask' = t
          /\ do_yield(t, "connect", sec, "channel", t_nsubs)
          /\ UNCHANGED <<ch_fd, conn, edge, slip>>
       \/ LET h == l_do_handshake(l_attach(conn, <<"w", "r">>))
          IN  /\ link' = "up" /\ ch_fd' = FD /\ conn' = h.s
              /\ ch_state' = HANDSHAKING /\ ch_rtask' = t
              /\ do_yield(t, "handshake", sec, "channel", t_nsubs)
              /\ slip' = slip \cup {"unwatched"}
              /\ UNCHANGED <<registered, ch_events, edge>>
    /\ setup_frame

connect_return(t) ==
    /\ current = t /\ co[t] = "back" /\ op[t] = "connect"
    /\ \/ /\ ret[t] = 0 /\ ch_err = 0 /\ ~(till[t] # NoTimer /\ now >= till[t])
          /\ begin_handshake(t, l_attach(conn, <<"w", "r">>),
                             IF till[t] = NoTimer THEN -1 ELSE till[t] - now)
          /\ UNCHANGED registered
       \/ /\ ret[t] # 0 \/ ch_err # 0 \/ (till[t] # NoTimer /\ now >= till[t])
          /\ ch_rtask' = None
          /\ registered' = FALSE
          /\ setup_fails(t, CLOSED)
    /\ UNCHANGED slip
    /\ setup_frame

---------------------------------------------------------------------------
(* read *)

shifted == without(ch_rbuf, ch_nshift)

\* read begins.  (On a closed or failed channel it returns at once.)
read(t, req, sec) ==
    /\ ch_state \in {HALFCLOSED, SSL} /\ ch_rtask = None /\ now + sec <= MaxNow
    /\ rd' = [rd EXCEPT ![t] =
                 [bytes |-> IF req < 0 THEN -req ELSE Min({req, ch_rbufsiz}),
                  neg |-> req < 0, sec |-> sec, since |-> now]]
    /\ ch_rbuf' = shifted /\ ch_nshift' = 0
    /\ enters(t, "read")
    /\ UNCHANGED <<ch_fd, ch_state, ch_err, ch_events, ch_line, ch_nreq, waitVars, errVars, wr,
                   netVars, historyVars, loopVars, now>>

Broken(t) == ret[t] # 0 \/ ch_state < 0

HasBytes(t) == rd[t].bytes # Line /\ Len(ch_rbuf) >= rd[t].bytes
HasLine(t) == rd[t].bytes = Line /\ (ch_line # <<>> \/ first_line(ch_rbuf) # <<>>)
CanReturn(t) == HasBytes(t) \/ HasLine(t) \/ ch_state = HALFCLOSED

read_ends(t) == returns(t) /\ rd' = [rd EXCEPT ![t] = NoRead] /\ ch_rtask' = None

\* A read that returns does nothing to the session.
read_frame ==
    UNCHANGED <<ch_state, ch_err, ch_events, ch_nreq, conn, edge, slip, readyVars, loopVars>>

read_fails(t) ==
    /\ Broken(t)
    /\ read_ends(t) /\ read_frame
    /\ UNCHANGED <<ch_rbuf, ch_nshift, ch_line, got, eof>>

read_bytes(t) ==
    LET n == IF HasBytes(t) /\ ~rd[t].neg THEN rd[t].bytes ELSE Len(ch_rbuf)
    IN  /\ ~Broken(t) /\ CanReturn(t) /\ rd[t].bytes # Line
        /\ got' = got \o SubSeq(ch_rbuf, 1, n)
        /\ ch_nshift' = n
        /\ eof' = IF n = 0 THEN eof \cup {"bytes"} ELSE eof
        /\ read_ends(t) /\ read_frame
        /\ UNCHANGED <<ch_rbuf, ch_line>>

read_line(t) ==
    LET line == IF ch_line # <<>> THEN ch_line ELSE first_line(ch_rbuf)
    IN  /\ ~Broken(t) /\ CanReturn(t) /\ rd[t].bytes = Line
        /\ got' = got \o line
        /\ ch_line' = <<>>
        /\ ch_rbuf' = IF ch_line # <<>> THEN ch_rbuf ELSE without(ch_rbuf, Len(line))
        /\ eof' = IF line = <<>> THEN eof \cup {"line"} ELSE eof
        /\ read_ends(t) /\ read_frame
        /\ UNCHANGED ch_nshift

\* A round with a call of ch_read.  read wakes the writer of a session that
\* has failed without looking whether there is one: if not, it fails with an
\* error itself.  When ch_read says that it has read, the loop goes round
\* again, also if the buffer is full and it has read nothing.
read_more(t) ==
    /\ ~Broken(t) /\ ~CanReturn(t)
    /\ \E f \in {ch_read} :
        /\ conn' = f.s /\ ch_rbuf' = f.rbuf /\ ch_err' = f.cherr
        /\ set_events(edge, f.s, ask(ch_events, f.err))
        /\ slip' = slip \cup crossed(f.s, ch_wtask) \cup unseen(f)
        /\ \/ /\ f.r /\ ~(f.w /\ ch_wtask = None)
              /\ ch_state' = f.state
              /\ wake(only_if(f.w, ch_wtask), 0)
              /\ UNCHANGED <<coVars, taskVars, ch_rtask, ch_nreq, rd, loopVars>>
           \/ /\ f.w /\ ch_wtask = None
              /\ ch_state' = f.state
              /\ die(t, t_nsubs)
              /\ at' = IF t_sig[t] THEN at ELSE "aborted"
              /\ UNCHANGED <<ch_rtask, ch_nreq, rd, batch, caller>>
           \/ /\ ~f.r /\ gives_up(rd[t].sec, rd[t].since)
              /\ ch_state' = f.state
              /\ read_ends(t)
              /\ UNCHANGED <<ch_nreq, readyVars, loopVars>>
           \/ /\ ~f.r /\ ~gives_up(rd[t].sec, rd[t].since)
              /\ ch_state' = SSL
              /\ rd' = [rd EXCEPT ![t].sec = left(@, rd[t].since)]
              /\ ch_nreq' = IF rd[t].bytes = Line THEN -1 ELSE rd[t].bytes
              /\ ch_rtask' = t
              /\ do_yield(t, "read", left(rd[t].sec, rd[t].since), "channel", t_nsubs)
              /\ UNCHANGED loopVars
    /\ UNCHANGED <<ch_nshift, ch_line, got, eof>>

\* One round of read's loop, from block_task's return on.
read_step(t) ==
    /\ current = t /\ co[t] = "back" /\ op[t] = "read"
    /\ read_fails(t) \/ read_bytes(t) \/ read_line(t) \/ read_more(t)
    /\ ch_rlasterr' = IF ch_rtask' = t /\ co'[t] = "parked" THEN ch_read.err ELSE 0
    /\ UNCHANGED <<ch_fd, ch_wtask, ch_stask, ch_wlasterr, wr, link, registered, sent, renewed,
                   now>>

---------------------------------------------------------------------------
(* write *)

write(t, n, sec) ==
    /\ ch_state \in {HALFCLOSED, SSL} /\ ch_wtask = None /\ now + sec <= MaxNow
    /\ wr' = [wr EXCEPT ![t] = [size |-> n, again |-> FALSE, sec |-> sec, since |-> now]]
    /\ enters(t, "write")
    /\ UNCHANGED <<chVars, rd, netVars, historyVars, loopVars, now>>

write_ends(t) == returns(t) /\ wr' = [wr EXCEPT ![t] = NoWrite] /\ ch_wtask' = None

write_fails(t) ==
    /\ Broken(t)
    /\ write_ends(t) /\ ch_wlasterr' = 0
    /\ UNCHANGED <<ch_state, ch_err, ch_events, conn, edge, slip, readyVars>>

\* The mask a writer that has to wait leaves: without WRITE if it is input
\* that is missing.
write_events(err) ==
    IF err = ERROR_WANT_READ THEN ch_events \ {"WRITE"} ELSE ask(ch_events, err)

write_more(t) ==
    LET d == l_writeb(conn, wr[t].size, wr[t].again)
        stops == d.err \in WANT /\ gives_up(wr[t].sec, wr[t].since)
        fatal == d.err \notin WANT \cup {ERROR_NONE}
    IN  /\ ~Broken(t)
        /\ conn' = d.s
        /\ \/ /\ fatal \/ stops \/ d.err = ERROR_NONE
              /\ ch_state' = IF fatal THEN ERRORED ELSE ch_state
              /\ ch_err' = IF fatal THEN -d.err ELSE ch_err
              /\ wake(only_if(fatal, ch_rtask), EPIPE)
              /\ write_ends(t) /\ ch_wlasterr' = 0
              /\ slip' = slip \cup crossed(d.s, ch_rtask)
              /\ UNCHANGED <<ch_events, edge>>
           \/ /\ d.err \in WANT /\ ~stops
              /\ wr' = [wr EXCEPT ![t].sec = left(@, wr[t].since), ![t].again = TRUE]
              /\ set_events(edge, d.s, write_events(d.err))
              /\ ch_wtask' = t /\ ch_wlasterr' = d.err
              /\ slip' = slip \cup crossed(d.s, ch_rtask)
                              \cup {x \in {"crossed"} : d.err = ERROR_WANT_READ
                                        /\ ch_rtask # None /\ ch_rlasterr = ERROR_WANT_WRITE}
              /\ do_yield(t, "write", left(wr[t].sec, wr[t].since), "channel", t_nsubs)
              /\ UNCHANGED <<ch_state, ch_err>>

\* One round of write's loop, from block_task's return on.
write_step(t) ==
    /\ current = t /\ co[t] = "back" /\ op[t] = "write"
    /\ write_fails(t) \/ write_more(t)
    /\ UNCHANGED <<ch_fd, bufVars, ch_rtask, ch_stask, ch_rlasterr, rd, link, registered,
                   sent, renewed, got, eof, loopVars, now>>

---------------------------------------------------------------------------
(* close *)

\* Whom close wakes.
close_wakes == wake_both(ch_rtask, EBADF, ch_wtask, EBADF)

\* close from ssl.detach on.
closing ==
    /\ ch_fd' = NoFd /\ ch_state' = CLOSED /\ ch_err' = EBADF
    /\ ch_rbuf' = <<>> /\ ch_nshift' = 0 /\ ch_nreq' = 0
    /\ link' = "closed" /\ conn' = dropped(conn) /\ edge' = FALSE
    /\ close_wakes
    /\ UNCHANGED ch_events

close(t, sec) ==
    LET d == l_shutdown(conn)
    IN  /\ ch_fd # NoFd /\ ch_stask = None /\ InTime(sec)
        /\ \/ /\ d.err \in WANT
              /\ conn' = d.s
              /\ set_events(edge, d.s, ask(ch_events, d.err))
              /\ ch_stask' = t
              /\ do_yield(t, "close", sec, "channel", t_nsubs)
              /\ UNCHANGED <<ch_fd, ch_state, ch_err, ch_rbuf, ch_nshift, ch_nreq, link>>
           \/ /\ d.err \notin WANT
              /\ closing
              /\ UNCHANGED <<ch_stask, taskVars, coVars>>
        /\ UNCHANGED <<ch_line, ch_rtask, ch_wtask, errVars, rd, wr, registered, historyVars,
                       loopVars, now>>

close_return(t) ==
    /\ current = t /\ co[t] = "back" /\ op[t] = "close"
    /\ ch_stask' = None
    /\ closing
    /\ returns(t)
    /\ UNCHANGED <<ch_line, ch_rtask, ch_wtask, errVars, rd, wr, registered, historyVars,
                   loopVars, now>>

---------------------------------------------------------------------------
(* The event handlers *)

\* While a task closes: the handler takes shutdown's first result for the
\* error and always wakes it.
on_closing ==
    /\ ch_state \in {SSL, HALFCLOSED} /\ ch_stask # None
    /\ conn' = l_shutdown(conn).s
    /\ wake(ch_stask, 0)
    /\ edge' = FALSE
    /\ UNCHANGED <<bufVars, ch_state, ch_err, ch_events, slip>>

\* The reader's SSL call is repeated by the handler, the writer's by itself,
\* each when the event is the one its last call asked for.
on_ssl_with(f) ==
    LET For(task, err, e, want) == e \in Revents /\ task # None /\ err = want
        reads == \/ For(ch_rtask, ch_rlasterr, "IN", ERROR_WANT_READ)
                 \/ For(ch_rtask, ch_rlasterr, "OUT", ERROR_WANT_WRITE)
        w == \/ For(ch_wtask, ch_wlasterr, "IN", ERROR_WANT_READ)
             \/ For(ch_wtask, ch_wlasterr, "OUT", ERROR_WANT_WRITE)
             \/ reads /\ f.w
        asked == IF reads /\ ch_rlasterr = ERROR_WANT_READ
                    /\ (ch_wtask = None \/ ch_wlasterr = ERROR_WANT_READ)
                 THEN ask(ch_events, f.err) ELSE ch_events
        idle == /\ "OUT" \in Revents /\ ~w
                /\ ~For(ch_rtask, ch_rlasterr, "OUT", ERROR_WANT_WRITE)
        events == IF idle THEN asked \ {"WRITE"} ELSE asked
        unserved == reads /\ ~f.r
    IN  /\ IF reads
           THEN /\ conn' = f.s /\ ch_rbuf' = f.rbuf /\ ch_state' = f.state /\ ch_err' = f.cherr
                /\ ch_line' = IF f.line # <<>> THEN f.line ELSE ch_line
           ELSE UNCHANGED <<conn, ch_rbuf, ch_state, ch_err, ch_line>>
        /\ wake_both(only_if(reads /\ f.r, ch_rtask), 0, only_if(w, ch_wtask), 0)
        /\ set_events(FALSE, conn', events)
        /\ slip' = slip \cup {x \in {"full"} : unserved /\ f.err = ERROR_NONE
                                                 /\ Len(f.rbuf) >= ch_rbufsiz}
                        \cup {x \in {"crossed"} : unserved /\ wants(f.err) # ch_rlasterr}
                        \cup IF reads THEN crossed(f.s, ch_wtask) \cup unseen(f) ELSE {}
        /\ UNCHANGED <<ch_nshift, ch_nreq>>

on_ssl ==
    /\ ch_state \in {SSL, HALFCLOSED} /\ ch_stask = None
    /\ \E f \in {ch_read} : on_ssl_with(f)

on_handshaking ==
    LET h == l_do_handshake(conn)
    IN  /\ ch_state = HANDSHAKING
        /\ conn' = h.s
        /\ set_events(FALSE, h.s, IF h.err = ERROR_WANT_WRITE THEN ch_events \cup {"WRITE"}
                                  ELSE ch_events \ {"WRITE"})
        /\ IF h.err \in WANT
           THEN UNCHANGED <<ch_err, readyVars>>
           ELSE ch_err' = h.err /\ wake(ch_rtask, 0)
        /\ UNCHANGED <<bufVars, ch_state, slip>>

\* SO_ERROR, the error of a connect that failed or of a reset since.
so_error == IF Refused \/ conn.tend = "reset" THEN EPIPE ELSE 0

on_connecting ==
    /\ ch_state = CONNECTING
    /\ ch_err' = so_error
    /\ wake(ch_rtask, 0)
    /\ edge' = FALSE
    /\ UNCHANGED <<bufVars, ch_state, ch_events, conn, slip>>

\* The other states have no handler.
on_nothing ==
    /\ ch_state \in {TCP, ERRORED}
    /\ edge' = FALSE
    /\ UNCHANGED <<bufVars, ch_state, ch_err, ch_events, conn, slip, readyVars>>

on_event ==
    /\ Idle("poll") /\ EventDue
    /\ on_closing \/ on_ssl \/ on_handshaking \/ on_connecting \/ on_nothing
    /\ at' = "resume_list" /\ caller' = "events"
    /\ UNCHANGED <<taskVars, coVars, batch, now, ch_fd, waitVars, errVars, rd, wr, link,
                   registered, sent, renewed, got, eof>>

---------------------------------------------------------------------------
(* The specification *)

\* A channel made of a descriptor, which accepts, or one that will connect.
SslInit ==
    /\ Init
    /\ \/ /\ ch_fd = FD /\ ch_state = TCP /\ link = "up" /\ registered = TRUE
          /\ conn = l_attach(NoSession, <<"r", "w">>)
       \/ /\ ch_fd = NoFd /\ ch_state = CLOSED /\ link = "none" /\ registered = FALSE
          /\ conn = NoSession
    /\ ch_err = 0 /\ ch_events = {"READ"}
    /\ ch_rbuf = <<>> /\ ch_nshift = 0 /\ ch_line = <<>> /\ ch_nreq = 0
    /\ ch_rtask = None /\ ch_wtask = None /\ ch_stask = None
    /\ ch_rlasterr = 0 /\ ch_wlasterr = 0
    /\ rd = [t \in Task |-> NoRead] /\ wr = [t \in Task |-> NoWrite]
    /\ edge = FALSE
    /\ sent = 0 /\ renewed = FALSE /\ got = <<>> /\ eof = {} /\ slip = {}

SslYield(t) ==
    \/ Yield(t) /\ UNCHANGED sslVars
    \/ InProgram(t) /\ (\/ \E sec \in SetupSecs : connect(t, sec) \/ handshake(t, sec)
                        \/ \E sec \in ReadSecs, req \in Reqs : read(t, req, sec)
                        \/ \E sec \in WriteSecs, n \in WriteSizes : write(t, n, sec)
                        \/ \E sec \in CloseSecs : close(t, sec))
    \/ read_step(t) \/ write_step(t)
    \/ connect_return(t) \/ handshake_return(t) \/ close_return(t)

SslLoop ==
    \/ at # "poll" /\ Loop /\ UNCHANGED sslVars
    \/ /\ ~EventDue
       /\ poll_events \/ poll_nothing
       /\ edge' = FALSE
       /\ UNCHANGED <<chVars, rd, wr, link, conn, registered, historyVars>>
    \/ on_event

SslNext ==
    \/ \E t \in Task : SslYield(t) \/ (Call(t) /\ UNCHANGED sslVars)
    \/ SslLoop \/ Environment
    \/ (update_time \/ aborted) /\ UNCHANGED sslVars

SslSpec == SslInit /\ [][SslNext]_allVars

---------------------------------------------------------------------------
(* Properties *)

\* A task waits in call o, nothing is under way to resume it, and no task
\* closes the channel.
Waiting(t, o) ==
    co[t] = "parked" /\ op[t] = o /\ ~t_prev[t] /\ ~edge /\ ch_stask = None

\* The SSL call of a waiting task, if it were repeated now, would get no
\* further and ask again for asked, and an event will report when it can.
StillBlocked(d, asked) ==
    /\ d.err = asked /\ d.bytes = <<>> /\ d.s.flights = conn.flights
    /\ asked \in WANT
    /\ asked = ERROR_WANT_WRITE => "WRITE" \in ch_events

\* Apart from the known ways no edge is lost and none is misdirected: a
\* reader, a writer or a handshake that waits with nothing to report to it is
\* known to the channel and could not go on, whatever directions the calls
\* on the one session have asked for.
NoTlsStall ==
    \A t \in Task :
        /\ Waiting(t, "handshake") /\ slip = {} =>
               LET h == l_do_handshake(conn) IN ch_rtask = t /\ StillBlocked(h, h.err)
        /\ Waiting(t, "read") /\ slip = {} =>
               /\ ch_rtask = t /\ ch_state = SSL /\ ~CanReturn(t)
               /\ StillBlocked(l_readb(conn, ch_rbufsiz - Len(ch_rbuf)), ch_rlasterr)
        /\ Waiting(t, "write") /\ slip = {} =>
               /\ ch_wtask = t /\ ch_state = SSL
               /\ StillBlocked(l_writeb(conn, wr[t].size, TRUE), ch_wlasterr)

\* A session never outlives its descriptor, whose number the next connection
\* may get, and a channel in use has both.
SessionWithSocket ==
    /\ conn.obj => link = "up"
    /\ ch_fd # NoFd => link = "up" /\ conn.obj
    /\ ch_state \in {HALFCLOSED, TCP, HANDSHAKING, SSL} => ch_fd # NoFd

Phase == IF ~conn.est THEN "new" ELSE IF ch_state < 0 THEN "closed" ELSE "open"

\* How the peer has ended the stream.
End ==
    IF Phase # "open" THEN "no"
    ELSE IF conn.tend = "reset" THEN "reset"
    ELSE IF conn.tend = "fin" \/ Sent("bye") THEN "fin" ELSE "no"

\* What has arrived and no read has returned, in the order of reading: in
\* the channel, in the Object, in the session and in the kernel.
Pending ==
    IF Phase # "open" THEN <<>>
    ELSE ch_line \o without(ch_rbuf, ch_nshift) \o l_pending(conn)
         \o FlattenSeq([i \in 1..Len(conn.net) |-> conn.net[i].bytes])

Stream == INSTANCE ByteStream WITH phase <- Phase, end <- End, pending <- Pending

\* Through the three buffers, whatever the sizes of the reads and of the
\* records, and through new handshakes: the bytes come out in order and once.
IsTlsStream == Stream!Spec

---------------------------------------------------------------------------
(* What the code says it does and does not *)

\* "They are twins": as stream_channel's read, a read that finds too little
\* waits; it does not go round again without having read anything.
ReadMakesProgress ==
    \A t \in Task :
        current = t /\ co[t] = "back" /\ op[t] = "read" /\ ~Broken(t) /\ ~CanReturn(t) =>
            LET d == l_readb(conn, ch_rbufsiz - Len(ch_rbuf))
            IN  d.err # ERROR_NONE \/ d.bytes # <<>>
=============================================================================
