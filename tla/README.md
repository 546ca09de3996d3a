# A TLA+ verification of lask

lask is a Lua runtime for network programs: C bindings of system calls, and on
top of them, in Lua, a single-threaded scheduler of coroutines ("tasklets"),
channels through which tasks talk to each other and to sockets, services,
logging, HTTP and a frame for daemons.  This directory holds TLA+ models of its
concurrent core and of the C code below it, the TLC configurations that check
them, and proofs.

All paths below are relative to `src/lask/luasrc/` unless they start with
`src/`.

## 1. Inventory

One process runs one interpreter: nothing is preempted, except that the C
handler of a signal queues the signal and a Lua hook runs its Lua handler
between two instructions.  What makes the system hard is that control passes
between coroutines at every blocking call, that a blocked task can be resumed
by an event, a timer, another task or a signal, and that each object keeps its
own flags about who waits for what.

| Component | State | Operations | Talks to |
|---|---|---|---|
| scheduler, `tasklet.lua` | `ready_list`, `rb_timer`, `current`, `M.now`, the `t_*` fields of tasks, `handler_set` | start, kill, reap, join, sleep, exit, block and resume, add/mod/del handler, the loop | calls the handlers of ready fds, the nonevent modules and, by resuming them, tasks |
| message channel, `tasklet/channel/message.lua` | a ring of messages with two cursors, a list of waiting readers and one of writers, `t_svcreq` of the tasks in them | new, read, write, post, close | blocks and resumes tasks |
| service, `tasklet/service.lua` | per service a queue of requesting tasks, the last answer, two flags, one link shared by two global lists | create (multi) service, request, the owner's loop, `service_schedule` | a nonevent module of the loop |
| stream channel, `tasklet/channel/stream.lua` | fd, state, error, receive buffer, a pending line, the reading and the writing task, the registered events | new, connect, read, write, close, the event handler | edge-triggered events from the loop |
| stream server, `tasklet/channel/streamserver.lua` | fd, a pending mark, the accepting task | create, accept, close, the event handler | as above |
| TLS channel, `tasklet/channel/sslstream.lua` | as the stream channel, with the TLS session's wishes for more input or output | handshake, connect, read, write, close | as above, and the `ssl` binding |
| datagrams, `tasklet/dgram.lua` | per task an fd and a readable mark | set_dgramfd, recvfrom, recvfromb | as above |
| timer tree, `rbtree.lua` | a red-black tree | insert, delete, min | the scheduler |
| log, `_log.lua` | type, fd, size and level, and saved ones while captured | init, write, reopen, capture, release | app control |
| app, `app.lua`, `appctl.lua` | options; control connections | run, control server and client | stream channels, the log |
| HTTP, `http.lua`, `httpx.lua`, `httpd.lua`, `urlparse.lua` | requests, responses, connections | client and server | stream channels |
| buffers, `src/lask/std/lbuffer.c`, `lreader.c` | memory, data and sizes, readers and writers that point into it | put, get, overwrite, shift, rewind, line reading | every stream |
| poll and signals, `src/lask/std/lpoll.c`, `lsignal.c` | the epoll instance; a queue of signals and a saved hook | wait, signal, kill, raise | the loop; the kernel, at any instruction |
| descriptors and processes, `src/lask/std/los.c` | none of their own: loops over system calls that signals interrupt | read, write, fork, wait | the kernel, the signal handlers |
| TLS binding, `src/lask/ssl/ssl.c` | per descriptor a session and what it has fetched but not delivered | attach, detach, handshake, readb, writeb, shutdown | OpenSSL, the TLS channel |
| codecs, `src/lask/std/lcodec.c`, `lbitlib.c`, `lmath.c`, `lmd5.c`, `lstring.c` | the position `strtok` keeps for the whole process; otherwise none | URL coding and splitting, bit operations, MD5, tokens, slashes | |
| JSON, `src/contrib/cjson/` (a modified lua-cjson) | a configuration, an encoding buffer kept between calls | encode, decode, configure | |
| other bindings | none of their own | one system call each | |

The behaviours that are hard, and the properties that make each component
correct:

* **Scheduler.**  A task waits in at most one place (ready list or timer tree)
  and knows it; signals are not forgotten; tasks start in order; the loop does
  not sleep while a task is ready; nobody starves; `join_tasks` counts exactly;
  a time-out ends a wait.
* **Message channel.**  Ring and waiting writers together are one first-in
  first-out queue; time-outs, hand-overs and `close` racing each other lose
  nothing and strand nobody; `write` tells the truth about its message.
* **Service.**  Every request ends with its own answer, although owner and
  requester never wake each other directly, the handler may block for long and
  the requester may have given up.
* **Stream channel.**  Data that has arrived is delivered although the kernel
  reports it once; `close` and errors end every wait; an event is never
  mistaken for one of an earlier descriptor.
* **Stream server, datagrams.**  A pending connection or datagram is never
  waited for.
* **TLS channel.**  No deadlock between a reader that needs to write and a
  writer that needs to read.
* **Timer tree.**  Ordered and balanced after every operation.
* **Log and app control.**  The descriptor written to is open and is the one
  in use, in whatever order reopen, capture and release come.
* **Buffers.**  Data and views stay inside the block however it is moved, and
  the bytes come out as they went in.
* **Signals, descriptors, processes.**  A queued signal is handled by a hook that
  is restored; a signal inside a system call costs no byte (it does in `os.read`, see
  the findings); every dead child is collected.
* **Codecs, JSON.**  What is encoded is decoded again, digests and shifts are the
  published ones, and no reserved room is exceeded.

`PROJECT.json` lists the hazards behind these line by line, with the property
that covers each or the part of the plan that will.

## 2. Plan

Done in this order so far:

1. `Tasklet`, the scheduler, on which everything else is built, with
   `TaskletProofs`.
2. `TaskQueue`, the linked lists of waiting tasks as pointers, with
   `TaskQueueProofs`; it justifies the sequences in the modules that follow.
3. `MessageFifo`, the abstract specification of a message channel, and
   `MessageChannel`, which EXTENDS `Tasklet` and implements it, as
   `MessageChannelProofs` shows.
4. `Service`, which EXTENDS `Tasklet`, with `ServiceProofs`.
5. `ByteStream`, the abstract specification of a connection as its reader sees
   it, and `StreamChannel`, which EXTENDS `Tasklet` and implements it over an
   environment that models a socket with edge-triggered events, as
   `StreamChannelProofs` shows.
6. `Bytes`, `ByteQueue` (the abstract specification of a buffer) and `Buffer`,
   which implements it with a block that moves and grows, as `BufferProofs` shows.
7. `Signals`, and `OsIo`, which EXTENDS it with system calls that signals
   interrupt, and `OsIoProofs`.
8. `Url`, `Bits`, `Md5`, `Text` and `Json`, operators and small state machines
   that `Codec` checks against reference definitions over bounded inputs.
9. `TaskCalls`, what channels share of the scheduler's calls, with lemmas in
   `TaskletProofs`; `Ssl`, the binding over an external TLS session; and `SslStream`, which EXTENDS both and
   implements `ByteStream`, too.
10. `Sockets`, a server channel and a datagram socket whose events come in one
    table, with `SocketsProofs`.

To come, the most important first:

11. `MultiService`: the batches of `multi_serve` and their two counters.
12. `Rbtree`: insert and delete as pointer operations on trees of up to seven
    nodes, against an ordered set; the Lua code's loops as recursive functions.
13. `Zlib`, `Log` and `AppControl`.
14. `Http` and `Httpd`: message framing over `ByteStream`.

The number of runs is kept small enough for all of them to be repeated after
every change.  Findings whose run had to give way are in the list of differences
below, with the constants that show them.

Theorems worth proving next: the parts of `Codec` and `SslStream` that do not rest
on RECURSIVE operators, once those are written as recursive functions.

## 3. The models

### Tasklet

One action is what runs between two points at which another coroutine, a timer
or the loop may take over.  A task is a number, in the order of creation.  Its
coroutine is described by `co` (not created, fresh, parked in `co_yield`,
running, back in its blocking call, in its sighandler, dead), `op` (the
blocking call it is inside of), `till` (the deadline that call's `do_yield`
computed) and `ret` (what `do_yield` returned).  The fields of the code keep
their names: `t_prev` (as the Boolean that `push_ready` tests), `t_err`,
`rb_key`, `t_blockedby`, `t_sig`, `t_parent`, `t_nsubs`, `sighandler`.
`ready` and `batch` are `ready_list` and the list `resume_list` has detached;
`at` and `caller` say where in `loop` the interpreter is.

| Code | Definition |
|---|---|
| `push_ready` | `push_ready` |
| `do_yield` | `do_yield`, up to `co_yield`; its continuation is `do_resume` with `handler_return` and `handler_exit` |
| `do_resume` | `do_resume`, and `die` for what follows the end of the coroutine |
| `resume_list` | `detach_list`, `resume_next`, `resume_list_done` |
| `start_task`, `kill_task`, `reap_task`, `sleep`, `join_tasks`, `exit` | actions of these names, `finish`; `sleep_return`, `join_return`, `join_assert` |
| `calc_waittime`, `resume_timedout`, `loop` | `calc_waittime`, `expire`, `expire_done`, `modules_done`, `poll_events`, `poll_nothing`, `update_time` |

The program of a task is not fixed: a running task may make any call that its
constants allow (`Killers`, `Reapers`, `Joiners`) with any time-out of `Secs`.
The timer tree is modelled by what its `min` returns; two equal deadlines may
expire in either order.  The clock may advance at any moment, as the SIGPROF
hook reads it, too.  An error of the program ends its task and `loop`; the
model follows the errors the scheduler itself raises: `join_tasks`'s assertion,
and the error for blocking with a signal pending, which `do_resume` drops.

### TaskQueue

`head`, `t_svcnext` and `t_svcprev` as in `push_task`, `unlink_task` and the
lines of `read`, `write` and `post` that take the head; all lists share the
links, and tasks keep stale ones.  `queue` is the sequence each list stands
for.  The module's two preconditions are that a task is pushed only when it is in
no list and unlinked only from a list it is in: `UnlinkOnlyQueued`
and `QueuedRequesting` check them where the lists are used.

### MessageFifo and MessageChannel

`MessageFifo` says what a channel promises: accepted messages enter a queue or
pass directly, leave it from the head, those whose writer gave up leave from
the part behind the buffer, and `close` drops what is left.  `MessageChannel`
has one action per operation and path: `read` (`read_buffered`, `read_writer`,
`read_block`, `read_return`), `write` (`give_reader`, `store`, `write_block`,
`write_return`), `post`, `post_assert` and `close`.  Messages are numbered in
the order they are sent.  The lists are sequences.  `sent`, `handed`,
`received`, `failed` and `sending` are history variables.  The refinement
mapping reads the ring from `ch_rcursor` on and appends the messages of the
waiting writers.

### Service

The owner's loop (`serve_wait`, `serve_return`, `serve_take`, `serve_reply`;
between the last two its handler may sleep and start tasks), `request` and
`request_return`, and `service_schedule` as five actions, one list element per
step (`phase`, `walk` and `busy_list` are its locals).  Both lists of services
are linked through `svc_next`, so they are kept as pointers.  An answer is the
number of the request it answers.

### ByteStream and StreamChannel

`ByteStream` is what a reader is promised of one connection: bytes come out in
order, each once, and the end is reported only after the peer has ended the
stream and what came before is read; a connection that is reset or closed may
lose what has not been read.  `StreamChannel` models the code of the channel,
the tasks that use it and the socket.

| Code | Definition |
|---|---|
| `new_stream_channel` and the two ways to create one | `StrInit`: with a descriptor, or closed |
| `stream_channel_read` | an operator of that name, `state_read`, `take_from_kernel` |
| `read` | `read` for the part before the loop, `read_step` for one round of it: `read_fails`, `read_bytes`, `read_line`, `read_more`, `read_timedout`, `read_wait` |
| `write` | `write`, and `write_step`: `write_fails`, `write_error`, `write_returns`, `write_wait` |
| `connect`, `close` | `connect`, `connect_return`; `close`, `closing` |
| `ch_onevents` and the handlers of the states | `on_event`: `on_readable`, `on_writable`, `on_connected`, `on_errored` |
| `poll.wait` | `Revents`, `EventDue`, `StrLoop` |

Bytes are named by their position in the stream, so `got` shows at once what was
lost, doubled or reordered.  The fields of the channel keep their names; `rd` and
`wr` are the arguments and locals of the read or write a task is in.  The
environment consists of `link`, `kin` and `end` (the kernel's connection, its
received bytes and how the peer has ended the stream), `room` (what the kernel
would take to send) and `edge`: whether epoll has the descriptor in its list.
Something that happens to the socket, or a change of the registered events while
they hold, sets it; the next poll reports the events that hold then and clears
it.  The number of bytes that arrive at once, the moment of every event and how
the stream ends are free.

`os.readb` reports "nothing to read" and "end" alike, and the code takes both for
the end, so a handler must never read without reason; `StateTrue` checks that
it does not.  Three ways in which the code lets an edge pass are recorded in the
history variable `slip`, and `NoReadStall`, `NoWriteStall` and `WaitsEnd` say that
these are all: "full", an event found no space in `ch_rbuf` and left no mark;
"end", the end of the stream came with its last bytes; "out", the socket was
readable and writable in one event, or became writable while `connect` returned,
and the waiting writer was not told.

`TaskCalls` holds what the channels use of `Tasklet`: `wake` and `wake_both` for one
or two `resume_task` calls, either of which may be for nobody (`only_if`), `enters`
for a call that blocks, `returns` for one that ends.

### Bytes, ByteQueue and Buffer

`ByteQueue` is a sequence of bytes that grows at its end and shrinks at either
end, a reader's view of a part of it and a hole that a writer may fill; `Renew` puts
a new buffer, in the first byte order, in place of one that is collected.  `Buffer` is the code: `mem` is the
block, `lgap` the distance of `data` from its start, `datasiz` the length.  What
lies outside the data is `Junk`, so that a byte taken from there shows.

| Code | Definition |
|---|---|
| `buffer_grow`: move, double or copy | `grow`, with `to_front`, `newsiz`, `block` |
| `buffer_push`, `buffer_pop`, `buffer_shift`, `buffer_rewind`, `buffer_reset`, `buffer_adjust` | operators of these names and `adjust` |
| the Lua methods | `lbuffer_...`: actions; those that add bytes are instances of `Puts`, those that remove some of `Removes`, the ones on data that stays of `Overwrites` |
| operations of several steps: one growth per string, one shift per integer or line | `pushes`, `shifts`, `line_ends`: recursive functions whose last value is the result |
| which of several items are there, or fit | `ends_at`, `fit` |
| `reader_...`, the methods of readers | `lreader_...`; a reader is where it points (`base`, from the start of the block), how far it has been shifted and what is left |
| writers | `lbuffer_writer`, `lwriter_...` |
| the memory count of `lstd.c` | `mem_total` |

A view stays usable until an operation moves or frees what it points to; the
code does not check that, so `stale` marks the moment, and the properties hold for
views that are used before it.  The conversion of integers (`to_bytes`,
`from_bytes`) keeps both byte orders and 32 bits.

### Signals and OsIo

A signal is delivered between any two instructions or inside a system call:
`deliver` runs `sig_postpone` or `on_sigchld` there, `sig_handle` is the hook in
three steps (its handlers may raise further signals, which its mask holds back).
`Instruction` says that the program runs at all: a hook that is due comes first.
`switch` is control passing between the main coroutine, which alone has the hook,
and others.  `OsIo` adds the system calls: `os_implread` and `os_implwrite` round
by round, with short reads and writes, EAGAIN, EINTR, the end and errors; `wait`
and `waitpid` beside a handler that collects children, too.  Bytes are named by
their position.  The histories `got` and `dropped` say what became of the bytes a read
has taken, and `mislaid` which of the dropped ones were lost by an interruption.

### Url, Bits, Md5, Text, Json and Codec

Functions of the code are operators of the same names.  What a call leaves in the
process is state: strtok's position (`save`), which `tokenize` and every `eachtok` loop
(`loop`) move, the digest in progress (`md`, one step per block and per round), the configuration
and the encoding buffer of JSON (`json_cfg`, `encode_buf`).  `Codec` calls them one
after the other with inputs from bounded sets, and its properties compare
the results with reference definitions: URLs and their parts, tokens, bits as
sets of positions, the digests of RFC 1321, and JSON texts read back.  Loops run
inside each other in any way, with `tokenize` in their bodies; `own` and `got` record
what a loop is given until another caller of `strtok` has interrupted it, and what
`strtok` may find in memory that is no longer a string's is `Remains`.  Integers
have `NBITS` bits of which shifts keep that many, as the code has 32 of 64.  Words
of MD5 are sets of bits, as TLC's integers are too short.  JSON's string buffer is
modelled with its size, so that `fits` says whether a write without a check had
room.

### Ssl and SslStream

`Ssl` is the binding over a session `conn`: what is in the socket (`net`: records of
data or of a handshake, each received or not yet), how many flights of the
handshake are left and whose turn it is, and the `Object` of the code with its
`rbuf`, `roffset` and `rleft`.  `SSL_read`, `SSL_write` and `SSL_do_handshake` are
external; what they may return is limited to what OpenSSL documents: WANT_READ
when no whole record is there, WANT_WRITE when an answer to a handshake record has
no room.  The peer may start a new handshake at any time, and this is how a read
comes to need a writable socket.

| Code | Definition |
|---|---|
| `ch_read` | `ch_read`, over `l_readb` |
| `connect`, `handshake` | `connect`, `connect_return`, `begin_handshake`, `handshake`, `handshake_return`, `setup_fails` |
| `read` | `read`, and `read_step`: `read_fails`, `read_bytes`, `read_line`, `read_more` |
| `write` | `write`, and `write_step`: `write_fails`, `write_more` |
| `close` | `close`, `close_return`, `closing` |
| `ch_onevents` and the handlers of the states | `on_event`: `on_ssl`, `on_closing`, `on_handshaking`, `on_connecting`, `on_nothing` |
| `ch_addwrite`, `ch_delwrite` | `ask`, `set_events` |

As before a history variable, `slip`, names the ways in which the code lets a wish
of the session pass, and `NoTlsStall` says that there are no others: "crossed", a
handshake that one task has moved on is waited for by the other in the old
direction; "full", an event found no space in `ch_rbuf`; "unseen", bytes came with
WANT_WRITE and `ch_read` did not look at them; "unwatched", a connection that was
made at once is never registered.

### Sockets

A server channel and a task's datagram socket, which both remember that an edge
was reported (`ch_pending`, `t_rdgram`) and trust that until a system call finds
nothing.  The kernel holds `backlog` connections and a `queue` of datagrams, and
epoll has each descriptor in its list or not (`server_edge`, `dgram_edge`); one
poll reports both, and the handlers run in either order before any task
(`on_events`).

| Code | Definition |
|---|---|
| `accept` | `accept` for its start, `accept_round` for one round of its loop: `accept_ends`, `accept_one`, `accept_again`, `accept_waits` |
| `close`, the channel's `__call` | `close`, `server_handler` |
| `set_dgramfd` and its handler | `set_dgramfd`, `dgram_handler`, `Blocked` |
| `recvfrom`, `recvfromb` | `recvfrom_one`, `recvfrom_waits`, `recvfrom_return`, over `lsocket_recvfrom` |

An `accept(2)` that fails with another error than EAGAIN leaves the connection where
it is or takes it away, as the kernel does without a descriptor and for an aborted
connection.  `slip` holds the tasks for which the code lets an edge pass:
another task accepts at the same time, or a signal came to a task that was woken
already, or that waits in `recvfrom` and loses its `t_blockedby` by it; it holds
`None` when `recvfrom` has read an error, cleared the mark and waited although a
datagram may be there.  `NoSocketStall` says that no edge is lost otherwise.

## 4. What is checked

Passing runs:

| Run | What it shows |
|---|---|
| `tasklet_signals` | Three tasks that start, kill, reap, sleep and join in any order, with equal, zero and no time-outs: lists, timers, signals, start order and the idle poll; and nobody starves although tasks may kill each other for ever. |
| `tasklet_joins` | Joins with and without time-outs, without `kill_task` and with tasks reaped before or after they start: exact counts, exact results, and every wait ends. |
| `taskqueue` | Four tasks in two lists: pointers stand for queues. |
| `channel` | Rings of two slots and of none, three tasks, three messages (each cursor comes around), time-outs on both sides of every hand-over, and `close` at any moment: first-in first-out, nothing lost, nobody stranded, and `close` ends every wait. |
| `service` | Two requesters, one of them started by the owner's handler or by the other, two requests each, with time-outs at every point of the protocol, of an owner whose handler may sleep or fail. |
| `stream` | One task that starts another, on a channel with a buffer of two bytes, three bytes in two lines, sends of two bytes through one place in the kernel, every kind of read with and without time-outs, and an end, a reset or a close at any moment: `ByteStream` is implemented, no edge is lost but in the three known ways, and every wait ends. |
| `sockets` | Two tasks, one of which kills, with two connections and two datagrams, empty ones and errors of the socket among them: apart from the known ways nobody waits for what is there, and whoever is woken is woken for something. |
| `data` | Either a buffer whose block grows from nothing to six bytes through every branch of `buffer_grow`, with one reader or writer into it: `ByteQueue` is implemented, and nothing leaves the block. Or the functions on strings and numbers: URL coding and splitting, `tokenize` and two token loops in any order, shifts of both signs and fields, digests around the block boundaries, JSON both ways and under changed configurations: results are those of the reference definitions, and reserved room suffices but for `decodeb` behind its data. |
| `posix` | One process that reads, writes, forks and waits, with two children and two signals, one of them SIGCHLD: reads and writes report what the kernel did and lose nothing but to a failed descriptor or in an interrupted `os.read`, the hook is there when a signal is queued, nobody stays dead and uncollected. |
| `tls` | Two tasks on a TLS channel whose peer renews the handshake: `ByteStream` is implemented, nobody waits for what has come but in the four named ways, and the session lives as long as its descriptor. |

`tasklet_joins` has `JoinExact`, of which `JoinCounts` is a part; `OnTheWay` of the
channel is `HeldOrReceived` and `WriteExact`; `NoLostRequest` of the service is
`QueuedOrAnswered` and `QueuedRequesting`; `NoStall` of the stream channel is
`NoReadStall` and `NoWriteStall`; `StringsRight`, `NumbersRight` and
`IoExact` are conjunctions of the parts their modules define above them.

Each property is also checked against a mutated form of the code, named in
`PROJECT.json`, that violates it.

**Bounds.**  `NTask` tasks are ever created, `NBoot` of them before the loop;
three suffice for a task that acts, one it acts on and one in between, in the
list order or as the parent of both.  `MaxNow` stops the clock and `InTime`
keeps tasks from asking for a time-out that would expire later, so that every
armed timer can fire; two ticks give timers that expire together, one after
the other, and after the task was woken otherwise.  `MaxMsg`, `MaxReq` and
`MaxOwn` bound the messages, the requests and the requests of one task: in the
run `channel` three messages in a ring of two wrap both cursors, in the run
`service` two requests of a task follow each other.  In the run `stream` a buffer
of two bytes fills up, is read in lines, one of which is exactly as long, and
leaves bytes in the kernel; a read and a write of a task each run over several
rounds; and with one place in the kernel every write of two bytes has to wait.

In the run `data` a block of three bytes is doubled once, so data is moved to the
front, copied out of the middle and put behind a gap; the strings hold a newline and
the integers differ from their reversal only in `Orders`, which is one order
there.  A program uses the buffer or the other functions, not both, as they share no
state (`MCData`).  All strings of three bytes over eleven kinds of bytes are
encoded (with `Chunk` = 4, so that the stack buffer is emptied in between), all
strings of four bytes over eight are read as JSON beside longer ones for each
escape, with four kinds of memory behind the data of `decodeb`, one of which closes a
string; two loops over strings of up to four bytes run inside each other, where the
strings taken apart in the body of a loop are two (`Taken`); and digests are taken of 0,
3, 14, 26, 55, 56, 64 and 120 bytes.  In the run `posix` reads of all and of one byte meet a `Chunk` of two and two bytes that
come in one or two pieces, and a write of two bytes room for one; `QueueMax` = 2
fills the queue, and two children make one SIGCHLD stand for both.  They are
symmetric.  The process may be killed, and all bounds used up, so it may stop:
`CHECK_DEADLOCK FALSE`.  In the run `tls` records of two bytes exceed a buffer of
one, which fills `rbuf` of the binding, and one place in the kernel blocks the
second record or answer.  In the run `sockets` two connections and two
datagrams stand behind one edge each; `accept` is called with and without a
time-out that ends, `recvfrom` without, as its return does not depend on it but
for the error number.  Timeouts are limited to connecting; those of read and
write are the stream channel's and are explored there.

**Fairness.**  `WF(Yield(t))`: tasks are cooperative, so a running task
blocks or ends (`kill_task`, `start_task` and other calls that do not block are
not fair: a task makes finitely many of them before it yields).  `WF(Loop)`:
the loop is a `while` that runs whenever no task does.  `WF(update_time)`: it
is called twice in every round.  Wakings by others carry no fairness:
`RequestsEnd` follows from the owner's and the loop's steps alone, and
`CloseEndsAll` assumes only that `close` happened.  `StreamChannel` says that
tasks are cooperative by `[]<>(current = None)`, as a task may return from many
calls that do not block before it does; nothing is assumed of the peer, the
network or the kernel, so `WaitsEnd` does not depend on them.  `Buffer`, `OsIo`,
`Codec`, `SslStream` and `Sockets` state no fairness: their properties are about
safety, and `NoTlsStall` and `NoSocketStall` say of a state that nobody waits for what is there.

### Findings

Two have a run that TLC must find violated; the line in the documentation and the
ones in the code are in `PROJECT.json`.

* `tls_spin`: a TLS read that waits for a line in a full receive buffer asks for
  no bytes, takes the empty result for progress and repeats that for ever without
  yielding (`tasklet/channel/sslstream.lua:375`).
* `posix_eintr`: `os.read` loses bytes.  `os_implread` does not clear `err` when it goes
  on after EINTR (`los.c:59`), so a read that is interrupted and then gets its bytes
  returns EINTR, for which `los_read` throws them away (`los.c:184`).  The comment above
  it says that EINTR is filtered, and README_zh.md:431 that the error is never EINTR.
  `IoExact` leaves out this loss and no other.

More differences between the code and its documentation were met while
modelling and have no run of their own.  The models contain those of the modelled
parts; they are why the properties say no more than they do.  The first six
show when the constants named are changed.

* A reader that has been given a message and is killed before it runs forgets it,
  since `do_yield` (`tasklet.lua:119`) waits on after the sighandler (`Killers`
  not empty in `channel.cfg`).
* A request made after an earlier one of the same task timed out in the handler is
  taken for that one, and gets no answer: `serve` compares only the task
  (`service.lua:75`), although README_zh.md:1803 says that a request without a
  time-out blocks until it is answered (`Retry = TRUE` in `service.cfg`).
* The error number of a service's handler never arrives: `resume_task` overwrites
  `t_err` (`service.lua:78`, `Failing` shows the handler).
* Two services whose handlers block can merge their lists, which share `svc_next`
  (`service.lua:82`, two owners in `service.cfg`).
* The end of a stream that arrives together with the last bytes is not noticed, and
  a reader that wants more than these waits on (`tasklet/channel/stream.lua:265`,
  the "end" of `slip`).
* The output of a process that ends while more of it is in the pipe than fits into
  the buffer is cut off, as HUP overwrites the mark that there is more
  (`tasklet/channel/stream.lua:519`, `Pipe = TRUE` in `stream.cfg`).
* A `sleep` that is over returns ETIMEDOUT, not 0 (`tasklet.lua:116`).
* A signal to a task that has not run yet waits until the first blocking call:
  a killed task ends there silently, a reaped one runs until then
  (`tasklet.lua:96`).
* A `join_tasks` whose last child has ended and whose task is then killed
  before it runs waits for ever, for the reason given for a reader above; so
  does a reader that `close` has woken.
* A sighandler that starts a joinable task while its task joins spoils
  `t_nsubs`, whose sign it does not look at (`tasklet.lua:198`).
* A reaped reader stays in the channel's list and swallows the next message.
* `post` on a closed channel does not return but fails an assertion
  (`tasklet/channel/message.lua:196`), which ends `loop`.
* One path of `read` returns no error number (`message.lua:122`).
* A request can wait for an unrelated event although its owner is free:
  `service_schedule` puts a service back into `svc_reqing` after it has walked
  that list (`service.lua:320`), and if the answered task has timed out, no
  task is ready that would make the loop walk it again before it polls.
* Of an event that finds the receive buffer full no mark is left: the comment at
  `tasklet/channel/stream.lua:549` says that one is, but `left` is 0 when nothing
  could be read.  The reader that comes next empties the buffer and then waits
  for bytes that are there already.
* A writer that waits is not told of room when the same event has something to
  read (`stream.lua:553`), and loses its registration when `connect` of another
  task returns after it began to wait (`stream.lua:238`).
* A line longer than the receive buffer, and a negative count beyond its size,
  which is not reduced (`stream.lua:332`), can never be read: the reader waits
  until the end of the stream.
* A line that waits in `ch_line` survives `close` (`stream.lua:489`), and the first
  read of the next connection returns it.
* A channel that is closed and connected again before the reader of the old
  connection runs is left with that reader's assignments to `ch_rtask`
  (`stream.lua:404`), and the new `connect` is not resumed by its event.

TLS channel (`tasklet/channel/sslstream.lua`):

* The name of the zero-return error is misspelt (line 17), so EZERORET is nil, no
  channel ever becomes half-closed, and the peer's close is an error.
* A reader that waits in one direction is not moved when the handler's own attempt
  asks for the other (`ch_rlasterr` keeps its value), and bytes that came with
  WANT_WRITE are not looked at until the next event.
* A fatal error of the session in `read` resumes the task of a writer that is not
  there (line 376): `resume_task(false)` fails.
* Any event ends the wait of `close` whose `shutdown` then returns something else
  (line 502); `handshake` on a channel closed meanwhile turns CLOSED into ERRORED.
* `read` and `write` subtract the time since their start again in each round
  (lines 385, 462), so they time out early.
* A `connect` that succeeds at once never calls `add_handler` (line 223).

Server channels and datagrams (`tasklet/channel/streamserver.lua`,
`tasklet/dgram.lua`):

* A second task that accepts takes `ch_task` from the first (line 46), which then
  waits until its time-out; when it returns it forgets the second (line 48).
* Without a descriptor for the connection `accept` calls itself again for ever,
  without yielding (line 37).
* `accept` waits for the whole of `sec` again after each wake-up for nothing (line 47),
  and reports no error when `close` has ended it (line 28).
* `socket.listen` takes its first argument, the descriptor, for the backlog
  (`lsocket.c:248`).
* `recvfrom` takes an error of the socket for nothing to read, drops both the error
  and the mark, and waits although a datagram may be there (`dgram.lua:37`).
* An empty datagram is never read, nor are those behind it: FIONREAD says 0, and
  no `recvfrom` follows (`lsocket.c:292`).
* A task that is killed in `recvfrom` and whose sighandler returns is not woken by
  datagrams any more, as `push_ready` has cleared the `t_blockedby` that the handler
  compares (`dgram.lua:17`).

Buffers (`src/lask/std/lbuffer.c`, `lreader.c`):

* `getline` writes zeros into the buffer, though README_zh.md:326 says that a reader
  does not affect it; and it finds no line, ever, in data that begins with NUL.
* A reader does not keep its buffer alive and is not told when it moves
  (`lbuffer.c:305`).
* `writer:putw` and `putu` take their arguments from the writer itself on, and `putu`
  advances by two bytes per integer of four (`lbuffer.c:995`, `1024`, `1032`).
* `geti` returns an unsigned number; `find_formdata` misses a boundary behind
  "\r\r\n"; `putb()` without arguments on a fresh buffer reports an overflow.

Descriptors, processes and signals:

* `os.readb` returns EINTR together with the bytes it has read after the interruption
  (`los.c:60`); a write that fails after a part was sent reports 0 (`los.c:115`).
* Without a count `os.read` and `os.readb` "will never block even if fd is not
  nonblocking" (`los.c:164`), but they do when nothing, or a multiple of `sizeof(tmp)`,
  is there.
* `waitpid` may report ECHILD for a child that `on_sigchld` has collected.
* A second signal before the hook runs makes `sig_handle` its own old hook
  (`lsignal.c:108`), which stays; one that finds the queue full is dropped
  (`lsignal.c:102`); the hook is only on the main coroutine.
* `signal.signal` returns the new handler as the old one (`lsignal.c:170`).
* `os.open` takes its second argument for the mode, too (`los.c:143`).

Codecs and JSON:

* `eachtok` loops and `tokenize` share `strtok`'s position.  A loop in whose body another
  loop goes on, or a string is taken apart by `tokenize`, then ends early, goes on in the
  other's string, or reads memory that is freed, or that was on the stack frame of
  `tokenize` (`lstring.c:46`, `75`).  `StringsRight` follows a loop up to there.
* `urlencode` leaves `%` as it is; `urlsplit` takes for the scheme what is before
  the first "://" anywhere.
* `arshift` copies the sign of a wider word and `extract` and `replace` keep bits
  above the 32nd (`lbitlib.c:120`).
* `json.decode` stops at a NUL and ignores what follows.
* `json.decodeb` gives `lua_json_decode` the data of a buffer or reader, which wants it
  NUL-terminated (`lua_cjson.c:1212`); README_zh.md:2054 leaves that to the caller, and
  nothing checks it.  Without it what lies behind is read on, and as `json->tmp` is made
  for `datasiz` bytes, a string that goes on there is longer than it, although the comment
  says that length checks are not needed (`lua_cjson.c:1222`).  `StrbufFits` leaves out
  such strings (with them, the data `"` and `aa"` behind it show it), and none that
  end inside the data or at a NUL right behind it.  The data of a fresh buffer is a null pointer, which
  it reads through.

The passing runs leave out what the findings need: `Killers` and `Reapers` in
the runs of message channels, services, streams and TLS, a further request of a task whose
request failed (`Retry` in `MCService`), more than one service with a handler that
blocks, pipes, and a second connection of a channel.  Three properties leave out a
case by their own words, as said above: `IoExact` the interrupted `os.read`, `StringsRight`
a token loop from where it is interrupted on, `StrbufFits` the strings behind `decodeb`'s data.

## 5. What is proved

`TaskletProofs`, for every number of tasks and every set of time-outs, killers,
reapers and joiners, from `TaskAssumption`: `TypeOK`, `ListsMatch`, `OnePlace`,
`SignalsPending`, `StartOrder` and `PollOnlyWhenIdle`.

The inductive invariant is the conjunction of these with facts about where the
loop is: `PollOnlyWhenIdle` is not inductive, since whether the lists are
empty at the poll is decided earlier, by the steps that leave the ready list;
so the invariant says for every place of the loop what the lists may
hold.  `ListsMatch` and `OnePlace` need each other: the timer of a task is
dropped when it enters the list, and a task is resumed by its timer only when
it is in no list.  `StartOrder` needs that unstarted tasks appear in the lists
in order of their ids.

Also in `TaskletProofs`, for every number of tasks, joiners, reapers and time-outs,
when nobody calls `kill_task` (`Killers = {}`): `JoinNotStranded` and `JoinExact`.
The hypothesis is needed: a join that is killed when its last child has ended waits
on after its sighandler, as said above.  The invariant adds `JoinWoken`: a join on
its way to be resumed was woken by its last child, with `t_err` 0, or is to end.  It
needs `OnlyReaped` (the only signals are those of `reap_task`), and `OpInside` (a
task is inside of a call only while it is suspended there or has just come back).
That `t_nsubs` is the number of living children takes the lemmas on `Children`: a
child that starts or ends is the only one that changes it.

`MessageChannelProofs`, for every number of tasks, all capacities, time-outs and
numbers of messages, when nobody calls `kill_task` or `reap_task` (`Peaceful`; a
task that ends while it is in a list of the channel stays linked, see above):
`NoStranded`, `UnlinkOnlyQueued`, `OnTheWay` and the refinement `IsFifo`.  The
invariant `ChIInv` is that of the scheduler, that of `join_tasks`, that no signal is
pending, and `ChanInv`:

* `StoreOK`: where `ch_wcursor` is, from `ch_rcursor` and `ch_num`; the messages
  are read off the ring between the two.
* `QueuesOK`: the lists hold exactly the tasks whose waits nobody has ended or a
  time-out has ended; readers wait only at an empty ring, writers only at a full
  one; all other waits have ended by success or by `close`.  `NoStranded` and
  `UnlinkOnlyQueued` are parts of it that are not inductive alone: a task whose
  time-out has passed is in its list until it runs again, and meanwhile another
  task may serve it or close the channel.
* `Ordered`: handed out messages, then those in the ring, then those of the
  waiting writers are in ascending order; hence none occurs twice.
* `WritesOK`, `FailedOK`, `HeldOK`: whose message is where until its write or read
  has returned.

`SlotOf` and `Messages` do the arithmetic of the ring once: five lemmas say what
reading, writing, taking a writer's message, refilling the ring from a waiting
writer and giving up do to the content.  The refinement uses the same lemmas, one
for each operation of `MessageFifo`.  `push_all` calls `push_ready` for one list
element after the other, a recursive function; that it appends the whole list
(`PushedAll`) is shown with a least element that differs.

`ServiceProofs`, for every number of tasks and requests, all time-outs and all
handlers that block or fail: `RightAnswer`, `NoLostRequest` and `OwnerWillWake`.  The
hypotheses (`OneService`) are that there is one service, that nobody calls `kill_task`
or `reap_task`, and that a task whose request has failed makes no other one.  Each
is needed: two lists that share `svc_next` can merge, and `serve` takes a repeated
request for the one that timed out (both above).  The inductive invariant `SvcIInv`
adds to those of the scheduler and of `join_tasks`:

* `ChainsOK`: the flags `svc_inreqing` and `svc_inresping` say which lists the service
  is in, and while `service_schedule` runs, which of its local variables hold it.
* `QueueOK`, `WaitsOK`, `AnswerOK`: a requesting task is in the queue with its last
  request, or its answer is put down, or it has it.  `RightAnswer` is not inductive
  without them: whose answer `svc_resp` is must be known from `serve` to
  `service_schedule`, while the task may time out in between.
* `HandlingOK`: the request in the handler is the head of the queue, or its task has
  given up; then no other request of that task takes its place.
* `TimesOK`: a request in the queue is never younger than the handler that serves it,
  by which `service_schedule` decides whether to deliver (`svc_tmhandle`).
* `OwnerOK`: the owner blocks without a time-out and only with an empty queue, or
  while its last answer is on its way.

`Chain` is a recursive function over the lists; of a single service it is unfolded
once (`ChainHead`).

`StreamChannelProofs`, for every number of tasks, all sizes of the buffers, of
requests and of the stream, all time-outs and any set of line ends: `StateTrue`,
`NoStall` and the refinement `IsStream`.  The hypotheses:

* Nobody calls `kill_task` or `reap_task` (`Peaceful`): a killed reader goes on
  waiting, as said above.
* For `IsStream`, the channel is not a pipe: on a pipe HUP half-closes the channel
  before the last bytes are read.  `StateTrue` and `NoStall` hold for pipes, too.
* For `NoStall`, what is asked of a read fits into the receive buffer (`Fits`): no
  negative count beyond its size, and if tasks read lines, a line end among any
  bytes of the stream that fill it.  Otherwise the reader of the finding above waits
  in front of a full buffer.  The constants of the run `stream` satisfy all three.

The invariant `StrIInv` is that of the scheduler, that of `join_tasks`, that no
signal is pending, a fact about the loop between polls (together `Sched`), and `Chan`:

* `UsersOK`: a task in `read`, `connect` or `write` is the one in `ch_rtask` or
  `ch_wtask`, unless `close` or an error has just taken it out; so an event handler
  that wakes those wakes everybody.
* `LinkOK`, `StateOK`: which states of the channel go with which states of the socket.
  `StateTrue` is part of it, and needs the rest: a read that finds nothing takes that
  for the end, so every read from the kernel, in `read` or in the handler, must be
  preceded by an event or by the mark READABLE.
* `ReaderOK`: what the handler looks for (`ch_rreqsiz`) is what the parked reader
  wants, and a line in `ch_line` is that of a reader that has been woken for it.
* `Content`: the bytes given to readers, then `ch_line`, the buffer and the kernel's
  bytes are the positions of the stream from the first on.

`StreamStep` says which operation of `ByteStream` each kind of step is; the
refinement follows from it.  `NoStall` takes a second invariant above the first,
`WaitOK`: an edge that has been used has left nothing in the kernel that `slip`
does not record (`EdgeOK`), a parked reader has nothing to return (`ReadersOK`), and
a parked writer is registered for room (`WritersOK`).  It is inductive only because
a parked reader whose request fits leaves room in the buffer, so that the handler
reads (`FullBuffer`, `ReadableReader`).

What such channels need of the scheduler is proved once, at the end of
`TaskletProofs`: that waking up to two tasks, entering a call, waiting on in it and
returning from it preserve the invariants above, and which waits end by that
(`CallsKeep`, also for tasks that have been sent a signal).

`SocketsProofs`, for every number of tasks, connections and datagrams, every length of
the queue and all time-outs, with `reap_task` and `kill_task`: `NoSocketStall` and
`WokenForSomething`.  The hypothesis is `KillOrJoin`: no program uses both `kill_task`
and `join_tasks`.  A sighandler that starts joinable tasks while its task joins breaks
`t_nsubs`, and a parent whose count is wrong is woken by the end of its last child in
whatever call it waits, as if that call had succeeded.  The inductive invariant `SInv`
has these parts:

* `Sched`: that of the scheduler and, without killers, that of `join_tasks`; without
  joiners, nobody has a parent.  Either way, who ends wakes nobody but a parent that
  waits in `join_tasks` (`DieWakesJoiner`).
* `ServerInv`: the handler of the server channel knows nobody but a task in `accept`,
  or one that has ended there; connections that wait are marked, or the next poll
  reports them; the task that waits has found nothing and is the one known.
  `WokenForSomething` alone is not inductive: from the event to the turn of the
  woken task, a time-out or a signal may come first (`Awaits`, `Woken`), and while
  its sighandler runs, nobody else may take what it will look for again.
* `DgramInv`: the same of the datagram socket, whose one reader is known by
  `t_blockedby` rather than by a field of the channel.

`Touched` says what a step of the scheduler may do to a task that is inside of a call
of another module: nothing, send it a signal, resume it, or take it through its
sighandler, back to waiting, to its time-out or to its end.  `SchedStep` shows it
for every step of the scheduler, and `ServerKeeps` and `DgramKeeps` show that such a
step preserves the two invariants; what is left is one lemma per call and event.

`TaskQueueProofs`, for any tasks and lists: `Represents`.  It is inductive
together with `TypeOK` and `Disjoint`, as the lists share the link fields:
without `Disjoint` a write to the links of a task in one list could change
another.  One lemma per operation.

`OsIoProofs`, for any signals, queue length, number of children, buffer and request
sizes: `QueueHooked`, `NoZombies` and `IoExact`, all that the run `posix` checks.
`QueueHooked` is inductive by itself.  `NoZombies` needs the types of `disp` and
`child`: a handler in C is never installed again once it has been replaced.
`IoExact` speaks of calls that have returned, so the invariant speaks of those in
progress: the bytes in the kernel, those a read has taken and those the program was
given are adjacent stretches of the positions (`Stretch`, `Delivered`), and `untold`
is what the write in progress has written.  Calls that fail drop what they took:
`dropped = mislaid`, or the descriptor has failed, is inductive since the only errors a
round leaves behind are 0 and EINTR (`CallRecord`).  The lemmas on stretches say that they
can be cut, joined and delivered; one lemma per kind of step does the rest.

`BufferProofs`, for any size of the first block and any bound on the memory, for any
strings, integers, formats, counts and offsets that operations are called with, and
both byte orders: `BufTypeOK` and the refinement `IsByteQueue`.  `ArgumentAssumption`
says of the arguments only what the C functions check or convert them to: bytes,
integers, naturals, letters (a count is cast to `size_t`, so it is never negative;
sums that wrap near 2^64 are not modelled).  `IsByteQueue` has the hypothesis `Views # 2`: not both a
reader and a writer are used at a time.  It is needed, for a writer changes bytes that a
reader has yet to read (the README of the program calls that unpredictable), and the
abstract queue has no step for it; `BufTypeOK` holds for both at once.  The invariant
`BInv` says that the block is a sequence with the data inside (`IsBuf`), that a usable
reader points into the data and a usable writer's room is in it (`Sound`), and that
the count of memory is right.  `BufTypeOK` is inductive only with that and the types.

* `Holds(c, n, b, k)`: buffer `c` holds `n` bytes of `b`'s data, those behind the first
  `k`.  What moves the data (`to_front`, the three branches of `grow`, `adjust`) is shown to
  hold all of it; from that, what puts bytes leaves an `Extends` of the buffer, and
  what takes bytes a `Part`, however many moves an operation makes (`PutStep`, `GetStep`).
* `pushes`, `shifts`, `line_ends`, `ends_at` and the doubling in `newsiz` are recursive
  functions over the steps of one operation.  That such a definition has a solution at
  all (`Recursion`), and that what each step preserves holds at the end (`Upwards`), is
  shown with a least counterexample, as induction theorems that take an operator are
  out of reach.
* `ContentPut`, `ContentPart`, `ContentOver`, `ContentFilled`, `PieceOver` and `DropPiece`
  turn such facts about memory into equations between sequences: what the queue and
  the views of `ByteQueue` are after the step.
* Last, one lemma per kind of operation gives both halves of `Step`: the invariant
  again, and the step of `ByteQueue` that it is.

All use no assumption but those on the constants and the hypotheses named.
Liveness, such as `CloseEndsAll` and `WaitsEnd`, is out of the provers' reach and
stays with TLC.  The invariants of `Codec` and `SslStream` are only model-checked.
`Json`, `Codec`, `Ssl` and therefore `SslStream`
declare RECURSIVE operators (values in values, and a loop over records) and stay
with TLC.

## 6. Not modelled

Everything the plan still lists.  For good: the remaining bindings of single system
calls, among them files, sockets and network names (they are the environment of the
models), certificates and keys (`src/lask/ssl/context.c`), option parsing,
daemonizing and text formatting.  Of the modelled parts: the accepting side of TLS
and tasks that use a TLS channel during its handshake, JSON numbers that are not
whole, and a buffer with several views at once.
