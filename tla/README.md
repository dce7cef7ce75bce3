# A verification development of libuv and the servers built on it

The repository holds a 2011 snapshot of **libuv** (`src/libuv`, an asynchronous
I/O library over libev on Unix and over IOCP on Windows), **http-parser**, and
small servers that use them (`src/example`, `src/echo_server`), next to coursework
in Java and Python (`src/index`, `src/wikipedia`). The logic whose correctness is
hard to establish by testing is libuv's: callbacks that may call any API function,
watchers whose events are pending while their handle is being stopped or closed, a
thread pool that talks to the loop through a pipe, requests that Windows completes
in its own time, and a resolver that moves queries between servers; next to it,
a parser that must not care where its input was cut. This directory models these
in TLA+, checks the models with TLC and proves theorems about them with TLAPS.

## The system

| Component | State it keeps | Operations | Hard behaviour |
|---|---|---|---|
| Streams (`stream.c`, `tcp.c`, `pipe.c`) | flags, fd, two queues of write requests, `write_queue_size`, connect and shutdown request, two libev watchers | `uv_write`, `uv_shutdown`, `uv_read_start/stop`, `uv_tcp_connect`, `uv_close`, the handlers `uv__stream_io`, `uv__write`, `uv__read`, `uv__drain` | every callback may call every operation; a stopped watcher may have an event pending; partial writes; errors halfway |
| Listening streams (`stream.c`, `tcp.c`) | `accepted_fd`, the read watcher | `uv_listen`, `uv_accept`, `uv__server_io` | back-pressure: one parked connection stops the watcher, `uv_accept` restarts it |
| Handles and the loop (`core.c`, `ev.c`) | reference counts, libev's `activecnt` and pending array, timers heap, idle/prepare/check lists | init, start, stop, close of each handle type, `uv_run` | the loop ends when `activecnt` is 0: every path has to balance its references |
| Async handles (`core.c`, `ev.c`) | `sent`, `async_pending`, the wakeup pipe | `uv_async_send` from any thread, `pipecb` | the only cross-thread path: lost wakeups, coalescing |
| Thread pool (`eio.c`, `uv-eio.c`) | request and result queues, `nreqs`, `nready`, `npending`, thread counts, two async handles, an idle poller | `eio_submit`, the worker, `eio_poll`, want/done poll notifiers | worker threads racing the loop; the poll limit; the poller's start and stop |
| Datagrams (`udp.c`) | write queue, completed queue, two watchers | `uv_udp_send`, `uv_udp_recv_start/stop`, close | as streams, with deferred binding |
| Resolver channels (`src/ares`, `cares.c`) | queries with their server, attempts and timeouts; per server two sockets, a send queue and a list of queries; a watcher per socket and one timer | `ares_send`, `ares_process_fd`, `ares_cancel`, `uv_ares_destroy` | answers that come late, twice, truncated or never; an error of one server moves all its queries; callbacks that ask again in the middle of it |
| Processes, pipes, file events (`process.c`, `pipe.c`, `linux.c`) | child watcher, pipe names, inotify watchers | `uv_spawn`, `uv_pipe_bind/connect` | error paths that leave half-initialised handles |
| HTTP parser (`http_parser.c`) | state, header state, index, three marks, content length, flags | `http_parser_execute` on fragments | the result must not depend on how the input is cut; lengths that do not fit; a body framed in three ways; callbacks that fail |
| Servers (`webserver.cc`, `webserver_n.cc`, `webserver1.c`, `echo-server.cc`, `echoserver.cc`) | a client record per connection | read, parse, answer, close | object lifetime across callbacks |
| Windows back end (`src/win`) | requests in the kernel, the completion port and the loop's list; a count of them per handle; the list of endgames | the same API | a handle may go only when no request of it is anywhere; accept requests that must not run out |

Components interact by direct calls on the loop's thread (handlers call user
callbacks, which call the API), by shared state inside one handle, and, for
async handles and the thread pool only, across threads.

## Modules

| Module | What it is |
|---|---|
| `UvStream`, `UvStreamProps` | a connected stream, and its properties |
| `StreamContract` | the abstract specification that `UvStream` implements |
| `UvServer`, `UvServerProps` | a listening stream and the handles it accepts into |
| `UvAsync`, `UvAsyncProps` | async handles and libev's wakeup pipe |
| `WakeupContract` | the abstract specification that `UvAsync` implements, and `EioPool` takes for granted |
| `UvLoop`, `UvLoopProps` | handles, timers, the reference count and `uv_run` |
| `EioPool`, `EioPoolProps` | the thread pool, its notifiers and the requests of `uv_queue_work` |
| `WorkContract` | the abstract specification that `EioPool` implements |
| `UvUdp`, `UvUdpProps` | a datagram socket |
| `DatagramContract` | the abstract specification that `UvUdp` implements |
| `HttpParser`, `HttpParserProps` | the HTTP parser over a stream of bytes in fragments |
| `HttpContract` | the order of its callbacks, which `HttpParser` implements |
| `WinTcp`, `WinTcpProps` | a TCP handle of the Windows back end, and the loop that serves it |
| `WinContract` | the abstract specification that `WinTcp` implements |
| `AresChannel`, `AresChannelProps` | a channel of c-ares in the loop |
| `AresContract` | the abstract specification that `AresChannel` implements |
| `MCUvStream`, `MCUvServer`, `MCUvAsync`, `MCUvLoop`, `MCEioPool`, `MCUvUdp`, `MCHttpParser`, `MCWinTcp`, `MCAresChannel` | the instances TLC checks |
| `UvStream_proof`, `UvServer_proof`, `UvAsync_proof`, `UvLoop_proof`, `UvUdp_proof`, `HttpParser_proof`, `WinTcp_proof` | the proofs, one module for each component |
| `Requests_proof` | the proofs about `EioPool` and `AresChannel` |

The models overlap where the code does. libev's pending array is in
`UvStream` for the watchers of one stream and in `UvLoop` for all watchers;
`UvLoop` knows of a stream only that its watcher is active or not, and of an
async handle only that it can be invoked; `UvAsync` knows of the loop only when
it polls and when it runs callbacks; and `EioPool` takes of an async handle what
`UvAsync` shows of it without store buffers (`WakeupContract`, to which the proofs hold both), and of the loop that it runs what is
due. `AresChannel` takes the watchers and the timer of the loop in the same way.
`WinTcp` has its own loop, which shares nothing with libev's.

## Streams: `UvStream`, `UvStreamProps`, `StreamContract`

`UvStream` models one non-blocking TCP or pipe stream from `uv_tcp_init` to
`close_cb`. The variable `at` is the point of the code where control is: `"loop"`
(between two watcher invocations, where other handles' callbacks and the program
run), inside one of the callbacks, or inside a handler between two callbacks.
The API never calls back synchronously, so callbacks do not nest and one control
point is enough. The program may make every call whenever it has control.

* `pendings` is libev's pending array: `ev_invoke_pending` takes the last slot,
  `ev_feed_event` appends unless the watcher is there already, and stopping a
  watcher overwrites its slot with a dummy. The order among events of one poll
  is left open.
* `uv__write` is one `write(2)` for the head request, with every outcome the
  socket allows: nothing (EAGAIN), part, all, an error. Bytes are counted, not
  stored. `uv__write_callbacks` and `uv__stream_destroy` are one step per callback.
* The socket is modelled by what the code can observe: connecting, established,
  refused or reset, a stored error (`SO_ERROR`), room in the send buffer,
  received bytes and FIN. The peer acts between any two steps.
* Left out: a connect that fails before `connect(2)`, because there is no socket to be had
  (`stream.c:757`, which changes nothing) or because `setsockopt(2)` refuses a fresh one
  (`stream.c:762`, which leaves `fd` naming a closed descriptor; what such an `fd` leads to
  is in `UvServer`, as `uv_accept_error`); blocking streams (only terminals are, `tty.c:45`), `alloc_cb` calling
  the API, passing handles over ipc pipes, `connect`/`write` misuse the API
  documents as such (closing twice, connecting after close).

`StreamContract` is what a program relies on: accepted writes are called back
once each, in order while the stream is open; `uv_close` answers the rest before
`close_cb`, and nothing follows. `UvStream` implements it with
`outstanding <- write_completed_queue \o write_queue`.

Fairness (`FairSpec`): the loop keeps taking steps, callbacks return, a program
that is told of an error closes the stream, a connection attempt resolves, and a
peer whose window is closed eventually reads or resets. Without the last two a
write may rightly wait for ever.

Bounds: two writes of 0 or 2 bytes over a 1-byte send buffer (so that writes
block, are split and are empty), one shutdown, one connect, up to 2 bytes from
the peer with buffers that they fill or do not fill.

## Listening streams: `UvServer`, `UvServerProps`

`UvServer` models one TCP or pipe server with the descriptor table of the
process. A peer's connection is in `backlog` (the kernel's queue), then in
`accepted_fd` of the server ("parked"), then in `client_fd` of a client handle,
and each place holds a descriptor of `table`. `at` is `"loop"`, `"accept"` (inside
the loop of `uv__server_io`, or the body of `uv__pipe_accept`) or a callback.

* `uv__server_io` accepts until EAGAIN; after each callback it stops the watcher
  if the program left the connection parked. `uv__pipe_accept` accepts once and
  has no check for a parked connection: it relies on the watcher being stopped. Nor does
  it expect EAGAIN, which it asserts against (`pipe.c:258`): `ServerAsserts` shows that the
  connection whose event it handles is still there.
* `accept(2)` answers with a connection, EAGAIN, EMFILE when no descriptor is
  free, ECONNABORTED or ENFILE. Only `uv__server_io` reports the last two.
* `uv_accept` takes the parked connection and restarts the watcher;
  `uv_accept_error` is the case where `uv__stream_open` fails after it has set
  `client->fd`: the connection is closed and the watcher is left stopped. From
  then on `dropped` is TRUE. What the error path leaves behind (a client handle
  whose `fd` is closed, and later belongs to someone else) breaks
  `DescriptorsExact` and `AcceptWakeup`, so these hold only until then, and say so.
* Handles the program gives to `uv_accept` are closed and initialised again;
  `uv_close` closes their descriptor at once, its `close_cb` is the subject of
  `UvStream`.

Fairness: the loop runs and callbacks return; the system does not stay out of
descriptors (strong fairness of `AcceptOk`, since `uv__server_io` may be entered
again and again with the table full); and the program takes what is parked and
closes and reuses its handles. Without the last the code rightly stops watching.

Bounds: three peers that reconnect, two client handles and three descriptors,
one of which the server holds: the table fills up, a connection is parked while
two are open, and a handle is reused.

## Async handles: `UvAsync`, `UvAsyncProps`

`w->sent` and `async_pending` are volatile variables read and written by any
thread with no lock and no fence. Each access is an action: `uv_async_send`
(store `sent`), `TestFlag`, `SetFlag`, `WriteFd` of a sender; `Poll`, `TestPending`,
`ClearPending`, `Scan`, `Take` of `pipecb`. With `buffering` every processor has a
store buffer (x86-TSO): a thread sees its own buffered stores, others see them
after `Drain`; system calls drain it. `buffering` is chosen at `Init` and never
changes, so one run covers both memories.

* `uv_async_init` and `uv_close` append to and swap out of libev's array.
* `owed` records that a call was made and no callback of the handle has started
  since: `AtLeastOnce` says that the system does not come to rest while one is
  owed. It holds without store buffers (`AtLeastOnceInOrder`) and fails with them
  (run `async_tso`); even then `async_pending` does not stay set, so a later send
  is not lost with it (`FlagNotStuck`).
* `WakeupContract` counts, for each open handle, the callbacks that are to come: a
  send makes it one, or two if an event is pending already, a callback takes one,
  `uv_close` ends them. Without store buffers every step of `UvAsync` is one of it
  or a stutter (`KeepsContract`); with them a send may be lost, so no abstraction
  of this kind holds, and `KeepsContract` says nothing.
* Left out: libev's pipe for systems without `eventfd`, signals and forks, which
  share `pipecb`; a handle that one thread closes while another sends to it,
  which the API forbids.

Fairness: each thread finishes the call it is in, stores drain, the loop runs.
`Answered` excepts a program that calls `uv_close` for ever: `uv_close` makes an
event pending at once, and `ev_invoke_pending` does not return to the poll while
there is one.

Bounds: a thread and the loop send to two handles, with two buffered stores each.

## Handles and the loop: `UvLoop`, `UvLoopProps`

`UvLoop` is what `core.c` and `ev.c` do with any handle. `phase` says which call of
`ev_invoke_pending` in `ev_run` is next (after the prepare watchers, or after the
poll), `in` whether a callback runs, `activecnt` is libev's count. A handle has two
slots in the pending array: `Watcher(h)` and `Next_(h)`, the idle watcher with
which `uv_close` has `close_cb` called.

* Every handle holds one reference from init until `close_cb` has returned
  (`in = "close_cb"` accounts for the moment in between, in which the memory may
  be opened again) and one more from `uv_close`, libev's own for `Next_(h)`.
  Idle, prepare and check watchers give libev's reference back on start and take
  it on stop, timers likewise; `uv__timer_cb` takes one back when libev stopped a
  timer that expired.
* Time is relative: `left[h]` is how many ticks until the timer `h` is due (negative
  when it is late). `Poll(e)` lets `e` ticks pass, feeds events for any subset of
  the active stream and async watchers, expires timers (`timers_reify`: those that
  repeat are put forward, to the present at least), runs idle watchers when
  nothing else is pending, and queues the check watchers.
* `lost` counts the references that calls on timers lose: `uv_timer_again` without
  a repeat, and `uv_timer_stop`, `uv_timer_start` and `uv_close` on a timer that has
  expired and waits for its callback. `RefUntilClosed`, as the comment in `core.c`
  has it, fails (run `loop_refs`); `RefUntilClosedOrLost` and `RefBalance` say that
  these four are the only ways to lose one.
* Left out: priorities (never set), nested `uv_run`, `ev_break`, forks, several
  loops, signals and child watchers. The timers' heap is taken for what it
  promises: `Due(e)` is the set of due timers, fed in the order of their times.

Fairness: the loop takes steps (strong fairness, because `uv_run` is called and
returns), callbacks return, and time passes between polls again and again.

Bounds: two handles of every pair of the six types, timeouts and repeats of 0 or
1 tick and waits of up to 2 (so that a repeating timer is late by more than a
period), one reference of the program's own in either direction, one lost.

## Thread pool: `EioPool`, `EioPoolProps`, `WorkContract`

`EioPool` follows a request from `uv_queue_work` to `after_work_cb`: `req_queue`,
a worker's `job`, `res_queue`, then `running`, the request that `etp_poll` has
shifted. Each action is one critical section of `eio.c`, or the one read of
`npending` that `etp_maybe_start_thread` makes without the lock (the other two
counters it reads are only written by the loop's thread). The requests of
`uv_fs_*` and `uv_getaddrinfo` take the same way and are not told apart.

* `worker[w]` is where a thread is in `etp_proc`: before `reqq_shift`, in
  `pthread_cond_wait` (which may return unsignalled) or executing. libeio lets as
  many threads idle without a timeout as it starts, so no worker ever quits.
* `at` is where the loop's thread is: outside `uv_run`, in the loop or in another
  handle's callback, or in `etp_poll`, which one of the three callbacks of
  `uv-eio.c` (`caller`) has called. `starting` means that `etp_maybe_start_thread` is
  the next thing to do. Work may be queued outside `uv_run`, in the loop and in
  `after_work_cb`.
* `want` and `done` are the callbacks the two notifiers owe: two when an
  `uv_async_send` came after the loop had taken the one before. `poller` is the idle
  handle that calls `eio_poll` when the limit cut it short.
* `refs` are the loop's references of the pool: one for each request, one for the
  running poller. `leaked` counts what `uv_queue_work` loses when it has no memory
  for the request; `failed` records that `thread_create` failed.
* Left out: request groups, priorities, cancelling, and libeio's settings, none of
  which libuv uses; a second loop, which the file does not support.

`WorkContract` is what a program relies on: work begins in the order it was
queued, by no more threads than the limit, and is called back once, inside
`uv_run`, in the order in which it ended; `uv_run` does not return before that.

Fairness: threads run and the work they execute ends; the loop gets to every
callback that is due, and has, again and again, an iteration with no other event,
in which libev runs idle handles. The last is what a busy loop would deny, and
without it results beyond the limit would wait. `thread_create` need not ever
succeed: `WorkAnswered` is about a pool that has a thread.

Bounds: two requests that are queued again and again, two threads and two requests
per `eio_poll` (ten in the code; a callback that queues its request again makes the
queue longer than that), so that the limit, the poller and both notifiers
come into play; one lost reference.

## Datagrams: `UvUdp`, `UvUdpProps`, `DatagramContract`

`UvUdp` is one `uv_udp_t` from `uv_udp_init` to `close_cb`, with the same kind of
control point as `UvStream`. It differs from a stream in four ways that matter.
Its socket is opened by the first call that needs one (the deferred bind that
`uv__udp_send` and `uv_udp_recv_start` begin with). Starting and stopping a watcher
is one function for both watchers (`StartReading`, `StopWriting` ...), so the
watchers can be shown to say exactly what there is to do. A datagram is sent or
refused as a whole: `uv__udp_run_pending` moves requests from `write_queue` to
`write_completed_queue` until the send buffer is full, and a request that fails
does not stop the next. And `uv__udp_recvmsg` reads until there is nothing, with no
limit, looking only at `fd` and `recv_cb` after each callback.

* One action is one turn of a loop: `uv__udp_recvmsg` up to a callback,
  `uv__udp_run_pending` one `sendmsg(2)`, `uv__udp_run_completed` and
  `uv__udp_destroy` one request each. `sent[r]` is whether `req->status` is negative.
* `inbox`, `soerr` and `blocked` are what the kernel shows: datagrams received, a
  pending error (reported as readable and writable, and taken by whichever call
  comes first) and a full send buffer.
* `uv_close` stops both watchers, closes the socket and schedules `uv__next`; the
  rest happens in `uv__udp_destroy`. Completed requests are always called back in
  the `uv__udp_io` that completed them, even if one of their callbacks closes the
  handle, so the call of `uv__udp_run_completed` in `uv__udp_destroy` finds nothing.
* Left out: addresses, contents and lengths (`UV_UDP_PARTIAL`), `alloc_cb` calling the
  API, calls on a handle after `uv_close`, and the memory of `req->bufs`, which
  `uv__udp_destroy` does not free for a request of more than four buffers that it
  fails (`udp.c:83`).

`DatagramContract` promises that requests are tried and called back in the order of
submission, once each, with 0 only if the kernel took the datagram; that `uv_close`
fails what was not tried; and that `close_cb` comes after all of it.

Fairness: the loop runs, callbacks return, the kernel sends what it has taken.
`Answered` has an assumption of its own, `[]<>(at = "loop")`: peers that send as fast
as `recv_cb` returns keep the loop inside `uv__udp_recvmsg` for ever.

Bounds: three requests that are submitted again when they were called back, one of
them without a callback, and one datagram in the receive buffer; a request behind a
failed one, and one submitted from the callback of another, come up.

## HTTP parser: `HttpParser`, `HttpParserProps`, `HttpContract`

`HttpParser` is `http_parser_execute` in strict mode, one byte a step, over an
endless stream of bytes that is cut into fragments anywhere. `local` are the
variables the function keeps in registers, `saved` what it leaves in the
`http_parser` between calls, `marks` which of its three marks are set, `msg` the
fields that describe the message (flags, content length, version, method).

* A byte is its class: one of the letters that a keyword needs, any other, a digit,
  or a delimiter. `Methods`, `Keyword` and `Word` keep of each word the letters that
  tell it from the others, so that every branch of the matching (a word that turns
  into another one in the middle, one that stops matching, one that goes on too
  long) is taken with three letters instead of eleven.
* An action is one state of the `switch` or a group of states that do the same;
  `Report` is the macro `CALLBACK`, `Return` the end of a call, where marked pieces are
  reported and the registers saved, `Execute` its beginning, where the marks are
  found again from the state alone (`MarksOf`, `http_parser.c:404`).
* `content_length` and the size of a chunk are counted modulo `2 * Limit`, as the
  integers of the code (there `Limit` is 2^63); `body.wrapped` records that it happened. `nread`, the length
  of the headers, is 0, 1 or `Many`: the limit may be hit at any byte.
* A callback may return non-zero if `CallbackMayFail`; `on_headers_complete` returns
  any of `HeadersResults`.
* Left out: upper case and tabs, and non-strict mode.

`CutsDontMatter` is the promise of the header file that input may come in any
pieces. It speaks of two calls: what the next one finds is what the last one left,
and the marks that it sets are those the last one had. `BodyExact` ties the bytes
passed to `on_body` to the number that was parsed long before. `HttpContract` has
the order of the callbacks: a message begins once, ends once, and has its
headers completed once, through chunks, trailers, upgrades and failures.

Bounds: none on the number of bytes, messages or fragments. `Limit` is 4 (three bits), so
that lengths of several digits and lengths that wrap both occur. `Relevant`, the VIEW of
the run, leaves out what no later step reads; `MCHttpParser` says why for each part.
Every byte may be the last one, so the run does not check for deadlock: a parser
that failed or ended does nothing.

## TCP on Windows: `WinTcp`, `WinTcpProps`, `WinContract`

`WinTcp` is one `uv_tcp_t` of the Windows back end and the loop around it. An
operation starts at once and completes later. Its request is in `kernel`, then in
`iocp`, then in `pending_reqs`, the circular list of the loop (which the code makes
of a pointer in the request: a request that is inserted twice breaks it).
`handle.reqs_pending` counts the requests of the handle, and `DECREASE_PENDING_REQ_COUNT`
makes the endgame due when a closing handle has none left.

* `at` is the place in `uv_run` (timers, endgames, requests, poll), inside the loop
  of `uv_process_tcp_read_req`, or the callback that runs, and `resume` where the code goes on
  when it returns.
* An operation that succeeds at once goes to the port as well, unless the system
  lets it skip the port (`SYNC_BYPASS_IOCP`, chosen at `Init`); the code then inserts
  it in the loop's list itself.
* A listening socket keeps `AReqs` accept requests with the kernel, each with a
  socket made in advance; `uv_tcp_simultaneous_accepts` changes to one
  (`SINGLE_ACCEPT`), for which all have to be processed first.
* `Worlds` says which liberties a behaviour may take. Restarting the reading and a
  `WSARecv` that fails at once are never taken together: the error path inserts
  `read_req` without setting `READ_PENDING` (`tcp.c:409`), so a program that stops and
  starts again before it is processed has it inserted twice, and the list is broken.
  Closing with a shutdown due has a world to itself (run `win_close`).
* A call that is refused at once and leaves everything as it was, such as a `ConnectEx`
  that fails (`tcp.c:646`), is no step of the model.
* Left out: as the component's note in `PROJECT.json` lists. The program does not call
  `uv_accept` for a connection that waits on a server which stopped listening after a
  failed accept: `uv_tcp_queue_accept` asserts that the server listens (`tcp.c:317`).

`WinContract` promises less than `StreamContract`: writes are answered once, but not
in order, because a write that the kernel takes at once goes straight to the loop's
list and may pass one that waits in the port.

Fairness: the loop runs, callbacks return, the kernel completes writes and connects and gives
back everything of a closed socket. `PeerPauses` says that the peer does not fill the socket for
ever faster than it is read: the loop of `uv_process_tcp_read_req` goes on while there is
data, and so does `uv_process_reqs` while every read completes at once.

Bounds: two writes, so that they pass each other and one is called from the
callback of the other; two accept requests, so that the change to one waits; one
connect, one shutdown, one read, over and over.

## Resolver channels: `AresChannel`, `AresChannelProps`, `AresContract`

`AresChannel` is a channel of c-ares with what `cares.c` puts around it: a handle of
the loop for each socket, and one timer that runs while there is one. A query is
sent to a server over UDP or over the one TCP connection of that server, and moves on
to the next when the server refuses, its connection fails or its time is over.

* c-ares calls itself and the program: `end_query` calls the callback, which may call
  `ares_send`, from inside the loop over the queries of a failed server. `todo` is
  that stack, a sequence of tasks; each action runs the first one and puts what it
  calls in front of the rest.
* A query has `try_count`, its server, and what is known of each server: `skip` (an
  error) and `over` (sent on its present connection, `tcp_connection_generation`).
* `heard[s]` is what reached a server on its present sockets. It answers any of
  that, at any time, again and again, or never. Times are left out: any set of
  queries may be found due whenever `processfds` runs.
* `end_query` is where the code is careful with memory: what is still queued of a
  query that is over loses its owner, or the connection is given up.
* The definitions that every specification has are called `AresInit`, `AresNext` and so
  on here, so that one module may extend this specification and another.
* Left out: as the component's note lists, and a socket that is opened for another server
  in the middle of a pass under the number of the one just closed, which the pass may then
  take for writable (`ares_process.c:241`): in the model its own event may come right after.
  Callbacks that ask again while
  `ares_cancel` goes through all queries are left out because the code walks a list that such a query
  is inserted into (`ares_cancel.c:38`).

`QueriesFiled` is what the three ways back to a query rest on: it is in the list
that an error of its server walks, on a socket that is watched and open, and
its time is kept. `AresContract` promises one answer, failure only after all attempts
(`nservers * tries`), and none after a cancel.

Fairness: c-ares goes on with what it does, and the timer finds, again and again, that the
time of a query is over. In the code a socket that is ready puts the timer off
(`cares.c:55`), but `uv__ares_io` then goes through the timeouts itself, so that fairness of
`Tick` stands for whichever of the two comes. Nothing is assumed of servers and network.

Bounds (`Small`): one query with three tries on two servers, so that it comes back to a
server; two queries over UDP that may change to TCP; three over TCP, which share
one send queue, with a server that says nothing.

## Runs

| Run | Bounds | What it shows |
|---|---|---|
| `stream` | two writes of 0 or 2 bytes, up to two bytes from the peer | accounting, wakeups, assertions, callback order, refinement of `StreamContract`; under `FairSpec`, writes, shutdowns and close are answered |
| `server` | both kinds, 3 peers, 2 handles, 3 descriptors | back-pressure, no lost wakeup, descriptor ownership, every connection accepted |
| `async` | both memories, 1 thread, 2 handles | no lost wakeup and refinement of `WakeupContract` without store buffers; array and close are sound with them |
| `async_tso` | store buffers, 1 thread, 1 handle | **fails as the code does**: a send that races `pipecb` is lost |
| `loop` | 2 handles of any types | reference balance, quiet stop and close, timers in order, `uv_run` returns when it should and only then |
| `loop_refs` | the same | **fails as the code does**: `uv_run` returns with a timer still open |
| `pool` | 2 requests, 2 threads, 2 requests per poll | counters, references and notification are exact; refinement of `WorkContract`; all work is called back |
| `udp` | 3 requests, one without callback | watchers are exact, `recv_cb` stops, refinement of `DatagramContract`, requests and close are answered |
| `http` | any bytes, any cuts, lengths of 3 bits | cuts do not matter, bodies are exact, assertions, refinement of `HttpContract` |
| `win` | 2 writes, 2 accept requests | requests are counted and in one place, the server keeps accepting, refinement of `WinContract`, requests and close are answered |
| `win_close` | 1 write, 1 accept request, closing with a shutdown due | **fails as the code does**: neither `shutdown_cb` nor `close_cb` comes |
| `ares` | 1 to 3 queries, 2 servers | queries are where they are found again, refinement of `AresContract`, every query is answered |

The runs that fail are findings; `PROJECT.json` quotes the line each contradicts.
Deadlock is checked in all runs but `stream`, `udp`, `http` and `ares`, where the
system may really stop: a stream or a socket that is closed, a parser that failed and a
channel whose queries are over have nothing left to do.

Four more disagreements came up that no run is spent on: `connect_cb`
reports success after a `uv_write` took the error of the connection (`stream.c:730`, against
`uv.h:505`); a second `uv_shutdown` overwrites the first (`stream.c:661`, against
`uv.h:314`); `uv_accept` may fail on its first call for a connection (`stream.c:221`,
against `uv.h:398-401`); and `connect(2)` failing at once with an error other than
ECONNREFUSED leaves `connect_req` set and the watcher stopped (`stream.c:776`).
The first and the third are behaviours of the models, which no property excludes;
for the second and fourth the models keep the program or the kernel from it.

Definitions such as `FinishWithoutFeed`, `ReportUncleared`, `MarksOfUnqueried` or
`OpenHandleOnly` are faulty variants of the definition that follows them. No
behaviour uses them; each exists to show that a property fails when the code is
wrong in that way.

## Proofs

All theorems hold for every value of the constants that satisfies the named
assumptions (`ReqsAssumption` and `ChoiceAssumption`, `ServerAssumption`,
`AsyncAssumption`, `LoopAssumption`, `PoolAssumption`, `UdpAssumption`, `ParserAssumption`,
`WinAssumption`, `AresAssumption`).

* **`TypeCorrect`** (`UvStream_proof`). The type invariant of a stream is inductive as it
  stands. The other modules' is the first conjunct of an invariant named below.
* **`NoLostWriteWakeup`** (`UvStream_proof`). `WriteWakeup` is strengthened by
  where `uv__drain`, which stops the write watcher, may run: never while connecting
  (`ConnectWatched`), and with `shutdown_req` meaning what the flags say
  (`ShutdownFlags`); by the stream without a socket, which nothing has touched
  (`QuietBeforeSocket`, `FdMatchesSocket`); and by `NextMeansClosing`. It assumes
  that `connect(2)` fails at once only with ECONNREFUSED: for another error
  `uv__connect` returns with `connect_req` set and the watcher stopped.
* **`StreamImplementsContract`** (`UvStream_proof`). Steps of the handlers and
  the program map to steps of `StreamContract` or to stutters. `CloseInv` is what
  this rests on: `uv__next` is scheduled once, only for a closing stream, and both
  queues are empty when `close_cb` starts.
* **`BytesAreAccounted`** (`UvStream_proof`), of every program. `AccountInv` adds to
  `BytesAccounted` that a request is in one queue, once, that the queued requests are
  those the program waits for, and that a finished one has nothing left or failed. The
  sum over the queue is the library's fold over a set: `SumTakes` proves that its elements
  may be taken in any order, by induction over the subsets of a finite set (the library's
  `WFMin` on strict inclusion, which needs no operator parameter).
* **`AssertionsHold`** (`UvStream_proof`), of a program that closes the stream when
  `read_cb` or `shutdown_cb` reports an error (`CloseOnError`). `AssertInv`: a closing
  stream has no descriptor, no `read_cb`, no active watcher and no event of one; with
  `CloseInv` and `AccountInv` every assertion of the C code follows.
* **`ShutdownWaitsForWrites`** (`UvStream_proof`), of such a program, where `connect(2)` gives
  the answers `uv__connect` expects (another one leaves `connect_req` set to a request the
  program was told had failed). `ShutdownInv`: `connect_req` is outstanding, and so is
  `shutdown_req` while a shutdown is due, unless its failure is being reported.
* **`NoLostReadWakeup`, `EofIsFinal`, `CloseIsFinal`** (`UvStream_proof`). The first two hold
  of every program and every answer of `connect(2)`, from `EofInv`: only a socket that is
  or was connected has data, and a handle with such a socket takes no connect request, so
  `uv__stream_connect`, which also starts the read watcher, does not run after the end of
  the data. `CloseIsFinal` follows from `AssertInv` and `CloseInv`; it shows too that a
  connect or shutdown request that is outstanding at `uv_close` is never called back. No run
  is spent on these three (`ReadWakeup`, `NothingAfterEof`, `QuietAfterClose`).
* **`ServerLosesNoWakeup`, `ServerOwnsDescriptors`, `ServerAssertsHold`**
  (`UvServer_proof`), from `ServerInv`: who may be parked when, when the watcher is
  active (`Parked /\ watching` only inside `connection_cb`, after which the handler
  stops it), that a pending event comes with a connection that is still in the queue, and
  that idle client handles hold no descriptor.
* **`SendCallsBack`, `ArrayStaysConsistent`, `ClosedStaysQuiet`, `FlagIsNotStuck`,
  `HandlesKeepContract`**
  (`UvAsync_proof`), from `AsyncInv`. Without
  store buffers an owed callback is fed or its `sent` is set; a `sent` that is set is
  ahead of the walk that runs, or `async_pending` is or will be set; and
  `async_pending` comes with an eventfd that is or will be written. With store
  buffers only the part about the array and closing survives. `FlagInv` is for them:
  a buffered store that sets `async_pending` belongs to a thread about to write the
  eventfd, the loop tests the flag with its own buffer empty, and a flag that is set comes
  with a wakeup or with the loop's buffered store that will clear it.
  For the contract `FedBehind` is needed too: the handles a walk has fed lie behind it, so
  that clearing `sent` and feeding, which are two steps, make together no change of
  the count.
* **`LoopReferences`, `LoopIsQuiet` (`EventsExact`), `LoopReturnsWhenClosed`** (`UvLoop_proof`).
  `QueueInv` says what may be in the pending array and that no slot is there
  twice; given it, `RefBalance` is inductive by counting: every action changes the
  sizes of the four sets it counts by what it adds to `activecnt`, or to `lost`.
  A poll is the one action that changes many handles at once: the timers whose
  references libev drops are exactly those it leaves expired. When `uv_run` returns
  nothing is pending and no timer is expired, so a count of zero without loss leaves
  no handle open.
* **`TimersExpireInOrder` (`ExpiredInOrder`)** (`UvLoop_proof`), from `QueueInv`. A poll joins
  four queues of which only the one of `timers_reify` holds timers, and takes the same
  time from each that expires (`PolledOrdered`, `PollKeepsOrder`). Every other step
  leaves the watchers that stay pending in their slots (`Remains`), and a call that sets
  a timer's time leaves that timer active, so it no longer counts as expired.
* **`PoolAccounts` (`PoolExact`), `ThreadsAreThere` (`ThreadsServe`), `PoolKeepsContract`**
  (`Requests_proof`). `PoolInv` is inductive with `TypeOK`: a request is in one place
  (`OnePlace`), so each move changes two of the things that `CountersExact` counts by
  one; `ControlInv` says what a worker and the loop hold at each point. On it rest
  the other two, and `ThreadsServe` has two halves (lemmas `NoThreadSleeps` and
  `ThreadsSuffice`). A submission wakes a thread whenever one waits, so the queue never
  outgrows the threads that are awake. `etp_maybe_start_thread` starts one when
  `started + npending < nreqs`, which by the exact counters is when queued, executed
  and shifted requests outnumber the threads; until it ran, one thread may lack
  (`StartInv`). And each step of the pool is one of `WorkContract` or a stutter:
  a worker that may take a request is started and not executing, so fewer than the
  limit execute; `Exit` finds no reference, so no request is left.
* **`NotifiersAreHandles`** (`Requests_proof`), from `PoolInv`. The pool's counters `want`
  and `done` go through steps of `WakeupContract` only, so with
  `HandlesKeepContract` what one model assumes the other is proved to keep. This is the
  safety part; that a callback that is due comes is `Answered` in one model and fairness
  in the other, and both are left to TLC.
* **`WatchersAreExact`, `ReceivingStops`, `UdpImplementsContract`** (`UvUdp_proof`).
  `WatchersExact` is inductive with `CloseInv`, which says where control may be in an
  open, a closing and a closed socket (`uv__udp_run_pending` only with a socket,
  `uv__udp_destroy` only when it is closed and everything completed was called
  back). The refinement also needs that no request is queued twice
  (`AnswerInv`): then the head of `write_queue` is the oldest request that the kernel
  was not asked about, which is what `DatagramContract` has `Try` take.
* **`CutsNeverMatter`, `ParserKeepsOrder`** (`HttpParser_proof`). They rest on each
  other: only because a mark is set in exactly the states that report it
  (`CutsDontMatter`) is the callback made when such a state is left, and only then
  does a name turn into a value, or a line into headers, by the step that
  `HttpContract` has for it. The invariant adds that the first line of a message
  knows of no trailers (`Shape`). `Place` gives the stage of the contract that a
  state belongs to, and each group of actions is shown to move between stages as a
  callback (`Moves`) or its absence (`Quietly`) allows; a callback that fails is one
  step of `Fail`. Nothing is needed of `content_length`, so the theorems hold whether
  it wraps or not.
* **`ParserAssertsHold` (`AssertsHold`), `BodiesAreExact` (`BodyExact`)** (`HttpParser_proof`).
  `Sound` says what each state knows: in a name only the header states of a name, in a
  value none that waits for one; while a method is read, an index within its word; in a
  chunk, that the message is chunked, and from `chunk_data` to the next size that `nread`
  is 0; in a body, that what is owed is what `content_length` still holds. `WrapFacts`
  and `GrowFacts` are about overflow: a length that was not negative and still fits
  stays so. `HttpInv` is needed once, at the start of a call, where the parser goes on from
  what it saved.
* **`RequestsAreCounted` (`ReqsCounted`), `ServerAcceptsOn` (`AcceptsOn`), `WinImplementsContract`**
  (`WinTcp_proof`), for any number of writes and accept requests. The three rest on `WinInv`.
  A write or connect request is held exactly while the program waits for it
  (`HeldInv`), so a request that is submitted is nowhere yet; `read_req` is
  held when `READ_PENDING` says so (`ReadInv`), so it is posted again only when it is not;
  and an accept request is held, or its connection is pending, or the server has lost
  it (`AcceptInv`). While the server changes from many to one, the requests that are
  left and `processed_accepts` add up to `AReqs`: the last one is the one that
  `uv_tcp_accept` takes for the last. With each request in one place, every action changes
  `reqs_pending` by what it adds to or takes from the requests held and the one in
  process. A closed handle has a count of zero, so nothing is held and nothing is due:
  `close_cb` comes after all answers. The hypothesis `ReadsOnce` is that no behaviour both
  restarts its reading and has a `WSARecv` fail at once: with both, `ReadInv` fails
  and `read_req` is inserted twice, as said above; the code leaves this to the program.

* **`QueriesAreFiled` (`QueriesFiled`), `ChannelKeepsContract` (`KeepsPromise`)**
  (`Requests_proof`), for any number of queries and servers and every program. `QueriesFiled`
  speaks of queries that no running code has in hand; `AresInv`, its strengthening, says
  what holds of the others. `Stacked`: what may lie below what on the stack of tasks,
  so that a step, which changes only its head, uncovers a callback, a walk over a socket's
  datagrams or over stolen queries, or the rest of `processfds`. `QueryInv`: at
  most one task has a query in hand, and it is active, and has attempts left unless it is
  about to fail; one that a failed server left behind (`Moving`) still names that server;
  any other active query `Waits`. `ServerInv`: a queue holds no query twice, and none the
  server has heard; a query queued or heard has the server in `over`, which is what keeps
  `next_server` from sending it there again; and the flags of the server agree with its
  handles. A move to the next server counts at least one attempt and at most those that
  are left (`MovesOn`), so a query that fails has made all of them. Each step then maps to
  `Ask`, `TryNext`, `Answer` or `Cancel` of `AresContract`, or to a stutter.

Every safety property of the passing runs is stated by a theorem. Only model-checked is
liveness (with it the fairness of `WorkContract`), which is out of the prover's reach.

## Not modelled, and the plan

Listed hazards that no property covers are the first three disagreements above, a program
whose `close_cb` keeps opening and closing handles (`core.c:156`) and a pool whose first
thread could not be created (`eio.c:613`): all five are facts of the code, which the
properties concerned except. Others were met and are not listed, because the part they belong to
is not modelled: a second loop runs `eio_init` again under the threads of the first
(`uv-eio.c:104`); `uv_spawn` that fails leaves a handle with a reference and no started
watcher (`process.c:281`); `uv__inotify_read` walks its buffer while a callback closes
the handle (`linux.c:148`); and `ares_cancel` walks a list that its callbacks may extend
(`ares_cancel.c:38`).

The plan, in this order:

1. The servers. A client record lives across the callbacks of `StreamContract`: an
   end of file leads to `uv_shutdown`, whose callback does not close
   (`webserver.cc:68`); one write request per client is used again while it may still be
   queued (`webserver.cc:183`); an object deletes itself under its caller
   (`echoserver.cc:104`). To state: a record is freed once and not used after.
2. Names and deferred binding of pipes, child processes (a child that exits before its
   watcher starts, `process.c:245`), and file events.
3. The heap that orders libev's timers, as an algorithm checked against what
   `UvLoop` takes for granted, and the epoll backend with `fd_reify`.
4. Pipes on Windows, whose endgame has a thread of its own.

Left out for good: platform information, terminals (`termios` calls), the file
operations and name resolution of the thread pool (their life is `EioPool`'s, the rest is
I/O), the making and parsing of packets and configuration of c-ares, and the coursework
in Java and Python, which keep no state of the kind treated here or are not this
program's own.
