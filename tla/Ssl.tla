-------------------------------- MODULE Ssl --------------------------------
(***************************************************************************)
(* The TLS binding, lask/ssl/ssl.c: one descriptor, its Object, and the    *)
(* OpenSSL session behind it, as functions of a connection record.  Each   *)
(* call of the binding yields the record after it, and its results.        *)
(*                                                                         *)
(* OpenSSL and the kernel are external.  A session has handshake flights   *)
(* still to read ("r") and to write ("w"); every SSL call works on these   *)
(* first, so that a read may have to wait for the socket to take bytes and *)
(* a write for the peer to send some.  The kernel holds records that have  *)
(* arrived, and room for records to send.  Application bytes are named by  *)
(* their position in the stream.                                           *)
(***************************************************************************)
EXTENDS Integers, Sequences, FiniteSetsExt

CONSTANTS
    RBUFSIZ,    \* how many bytes obj->rbuf holds
    Room        \* how many records the kernel takes to send

ERROR_NONE == 0
ERROR_SSL == 1
ERROR_WANT_READ == 2
ERROR_WANT_WRITE == 3
ERROR_SYSCALL == 5
ERROR_ZERO_RETURN == 6
WANT == {ERROR_WANT_READ, ERROR_WANT_WRITE}

Data(bytes) == [kind |-> "data", bytes |-> bytes]
Control(kind) == [kind |-> kind, bytes |-> <<>>]

\* A connection the peer can use, without a session.  obj: is there an
\* Object in the table of descriptors; rbuf, rleft and roffset are its fields.
NoSession ==
    [obj |-> FALSE, rbuf |-> <<>>, rleft |-> 0, roffset |-> 0,
     flights |-> <<>>, est |-> FALSE,       \* established: handshaken once
     plain |-> <<>>,                        \* decrypted and not read
     pending |-> 0,                         \* records of an unfinished SSL_write
     bye |-> FALSE,                         \* close_notify sent
     net |-> <<>>, tend |-> "no", room |-> Room]

---------------------------------------------------------------------------
(* OpenSSL *)

\* The result of a session that is stuck or fails, without any bytes.
Stopped(s, err) == [bytes |-> <<>>, err |-> err, s |-> s]

\* What reading from a connection on which nothing has arrived reports.
NothingThere(s) ==
    Stopped(s, IF s.tend = "no" THEN ERROR_WANT_READ ELSE ERROR_SYSCALL)

Arrived(s) == Head(s.net).kind

\* SSL_do_handshake: as many flights as the connection allows now.
RECURSIVE SSL_do_handshake(_)
SSL_do_handshake(s) ==
    CASE s.flights = <<>> -> Stopped([s EXCEPT !.est = TRUE], ERROR_NONE)
      [] s.flights # <<>> /\ Head(s.flights) = "w" ->
            IF s.tend = "reset" THEN Stopped(s, ERROR_SYSCALL)
            ELSE IF s.room = 0 THEN Stopped(s, ERROR_WANT_WRITE)
            ELSE SSL_do_handshake([s EXCEPT !.room = @ - 1, !.flights = Tail(@)])
      [] OTHER ->
            IF s.net = <<>> THEN NothingThere(s)
            ELSE IF Arrived(s) # "flight" THEN Stopped(s, ERROR_SSL)
            ELSE SSL_do_handshake([s EXCEPT !.net = Tail(@), !.flights = Tail(@)])

\* SSL_read into a buffer of RBUFSIZ bytes, after h, the handshake.  A hello
\* of the peer starts a new one.
RECURSIVE SSL_read_after(_)
SSL_read_after(h) ==
    LET n == Min({RBUFSIZ, Len(h.s.plain)})
        record == Head(h.s.net)
        again(s) == SSL_read_after(SSL_do_handshake(s))
    IN  CASE h.err # ERROR_NONE -> h
          [] h.err = ERROR_NONE /\ h.s.plain # <<>> ->
                [bytes |-> SubSeq(h.s.plain, 1, n), err |-> ERROR_NONE,
                 s |-> [h.s EXCEPT !.plain = SubSeq(@, n + 1, Len(@))]]
          [] OTHER ->
                IF h.s.net = <<>> THEN NothingThere(h.s)
                ELSE CASE record.kind = "data" ->
                            again([h.s EXCEPT !.net = Tail(@), !.plain = record.bytes])
                       [] record.kind = "hello" ->
                            again([h.s EXCEPT !.net = Tail(@), !.flights = <<"w", "r">>])
                       [] record.kind = "bye" -> Stopped(h.s, ERROR_ZERO_RETURN)
                       [] OTHER -> Stopped(h.s, ERROR_SSL)

SSL_read(s) == SSL_read_after(SSL_do_handshake(s))

\* SSL_write of data that takes n records, all of them or none.  A write
\* that was not finished must be repeated with the same data.
SSL_write_after(h, n, again) ==
    LET due == IF h.s.pending > 0 THEN h.s.pending ELSE n
        out == Min({due, h.s.room})
    IN  IF h.err # ERROR_NONE THEN h
        ELSE IF h.s.bye \/ (h.s.pending > 0 /\ ~again) THEN Stopped(h.s, ERROR_SSL)
        ELSE IF h.s.tend = "reset" THEN Stopped(h.s, ERROR_SYSCALL)
        ELSE Stopped([h.s EXCEPT !.room = @ - out, !.pending = due - out],
                     IF out = due THEN ERROR_NONE ELSE ERROR_WANT_WRITE)

SSL_write(s, n, again) == SSL_write_after(SSL_do_handshake(s), n, again)

---------------------------------------------------------------------------
(* The binding *)

\* SSL.attach of a descriptor, in accept or connect state.
l_attach(s, flights) ==
    [s EXCEPT !.obj = TRUE, !.rleft = 0, !.roffset = 0, !.flights = flights]

\* SSL.detach frees the session and the Object.
l_detach(s) == [NoSession EXCEPT !.net = s.net, !.tend = s.tend, !.room = s.room,
                                 !.est = s.est]

l_do_handshake(s) == SSL_do_handshake(s)

\* What the Object and the session hold of bytes the kernel has delivered.
l_pending(s) == SubSeq(s.rbuf, s.roffset + 1, s.roffset + s.rleft) \o s.plain

\* Does l_readb's loop go on after it has got some bytes?
wants_more(nreq, bytes) == nreq < 0 \/ Len(bytes) < nreq

\* The Object after len of its left bytes have been given away.
left_after(s, len) ==
    [s EXCEPT !.rleft = @ - len, !.roffset = IF s.rleft > len THEN @ + len ELSE @]

kept_nothing(s, bytes, len) == [s EXCEPT !.rbuf = bytes]

\* The Object after SSL_read has read bytes, of which len were wanted.
kept(s, bytes, len) ==
    IF len < Len(bytes)
    THEN [s EXCEPT !.rbuf = bytes, !.roffset = len, !.rleft = Len(bytes) - len]
    ELSE [s EXCEPT !.rbuf = bytes]

\* l_readb's loop.  Missing input is no error after bytes; anything else is.
RECURSIVE read_on(_, _, _)
take_and_read_on(r, nreq, got_so_far) ==
    LET len == IF nreq > 0 THEN Min({Len(r.bytes), nreq - Len(got_so_far)})
                           ELSE Len(r.bytes)
        quiet == r.err = ERROR_WANT_READ /\ got_so_far # <<>>
    IN  IF r.err # ERROR_NONE
        THEN [bytes |-> got_so_far, err |-> IF quiet THEN ERROR_NONE ELSE r.err, s |-> r.s]
        ELSE read_on(kept(r.s, r.bytes, len), nreq, got_so_far \o SubSeq(r.bytes, 1, len))

read_on(s, nreq, got_so_far) ==
    IF wants_more(nreq, got_so_far) THEN take_and_read_on(SSL_read(s), nreq, got_so_far)
    ELSE [Stopped(s, ERROR_NONE) EXCEPT !.bytes = got_so_far]

\* SSL.readb(fd, buffer, nreq): the bytes it pushes into the buffer, err.
l_readb(s, nreq) ==
    LET len == IF nreq > 0 THEN Min({nreq, s.rleft}) ELSE s.rleft
    IN  read_on(left_after(s, len), nreq, SubSeq(s.rbuf, s.roffset + 1, s.roffset + len))

\* SSL.writeb of data of n records: with no data left it calls nothing.
l_writeb(s, n, again) ==
    IF n = 0 THEN Stopped(s, ERROR_NONE) ELSE SSL_write(s, n, again)

\* SSL.shutdown: close_notify is sent, then the peer's is waited for; not
\* during a handshake.
l_shutdown(s) ==
    LET Answer(ret, err, t) == [ret |-> ret, err |-> err, s |-> t]
    IN  CASE s.flights # <<>> -> Answer(-1, ERROR_SSL, s)
          [] s.flights = <<>> /\ s.bye ->
                IF s.net # <<>> /\ Arrived(s) = "bye" THEN Answer(1, ERROR_NONE, s)
                ELSE Answer(-1, NothingThere(s).err, s)
          [] OTHER ->
                IF s.tend = "reset" THEN Answer(-1, ERROR_SYSCALL, s)
                ELSE IF s.room = 0 THEN Answer(-1, ERROR_WANT_WRITE, s)
                ELSE Answer(0, ERROR_NONE, [s EXCEPT !.room = @ - 1, !.bye = TRUE])
============================================================================
