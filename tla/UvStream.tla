------------------------------ MODULE UvStream ------------------------------
(***************************************************************************)
(* One non-blocking uv_stream_t of libuv's unix back end: stream.c with    *)
(* the parts of core.c and tcp.c it calls, seen by a program that may call *)
(* the API between two events and inside every callback.                   *)
(*                                                                         *)
(* The loop is single-threaded, so a step runs from one point where user   *)
(* code or the kernel can act to the next; "at" is that point.  The peer   *)
(* and the kernel act between any two steps.                               *)
(***************************************************************************)
EXTENDS Integers, FiniteSets, Sequences, SequencesExt

CONSTANTS
  WReqs,           \* the program's uv_write_t requests, each submitted once
  SReqs,           \* its uv_shutdown_t requests
  CReqs,           \* its uv_connect_t requests
  NoReq,           \* a NULL request pointer
  Lens,            \* the lengths (bytes over all buffers) of its writes
  ConnectResults,  \* what connect(2) may answer
  SndBuf,          \* bytes the kernel's send buffer holds
  PeerBytes,       \* bytes the peer may send in all (bounds the run)
  BufLen,          \* the length of the buffer alloc_cb returns
  CloseOnError     \* the program obeys "Error. User should call uv_close()"

Reqs == WReqs \cup SReqs \cup CReqs

ASSUME ReqsAssumption ==
  /\ NoReq \notin Reqs
  /\ WReqs \cap SReqs = {} /\ WReqs \cap CReqs = {} /\ SReqs \cap CReqs = {}

ASSUME SizeAssumption ==
  /\ Lens \subseteq Nat /\ SndBuf \in Nat \ {0}
  /\ PeerBytes \in Nat /\ BufLen \in Nat \ {0}

ASSUME ChoiceAssumption ==
  /\ ConnectResults \subseteq {"OK", "EINPROGRESS", "ECONNREFUSED", "EOTHER"}
  /\ CloseOnError \in BOOLEAN

VARIABLES
  flags,                  \* handle->flags
  fd,                     \* stream->fd, NoFd when -1
  read_cb,                \* stream->read_cb is not NULL
  connect_req, shutdown_req, delayed_error,
  read_watcher,           \* ev_is_active(&stream->read_watcher)
  write_watcher,          \* ev_is_active(&stream->write_watcher)
  pendings,               \* libev's pending array, last element runs first
  write_queue,            \* requests not yet handed to the kernel
  write_completed_queue,  \* requests whose callback is due
  write_queue_size,
  left,                   \* bytes of each request still to be written
  error,                  \* req->error # 0
  at, running,            \* control point, request whose callback runs
  conn,                   \* the socket, as the kernel knows it
  soerr,                  \* an error is stored in the socket (SO_ERROR)
  room,                   \* free bytes in the send buffer
  rx, unsent, fin,        \* received bytes, bytes to come, peer's FIN
  status,                 \* history: what the program knows of a request
  eof                     \* history: EOF reported since uv_read_start

handle == <<flags, fd, read_cb, connect_req, shutdown_req, delayed_error>>
io     == <<read_watcher, write_watcher, pendings>>
queue  == <<write_queue, write_completed_queue, write_queue_size, left, error>>
ctl    == <<at, running>>
kernel == <<conn, soerr, room, rx, unsent, fin>>
vars   == <<handle, io, queue, ctl, kernel, status, eof>>

NoFd == -1
SockFd == 3

Flag == {"READABLE", "WRITABLE", "READING", "SHUTTING", "SHUT",
         "CLOSING", "CLOSED"}
Watcher == {"read", "write", "next"}
Callback == {"read_cb", "read_cb_full", "read_error_cb", "write_cb",
             "shutdown_cb", "connect_cb", "destroy_cb", "close_cb"}
Internal == {"uv__read", "uv__write_callbacks", "uv__stream_destroy", "abort"}

HandleTypeOK ==
  /\ flags \subseteq Flag /\ fd \in {NoFd, SockFd} /\ read_cb \in BOOLEAN
  /\ connect_req \in CReqs \cup {NoReq} /\ shutdown_req \in SReqs \cup {NoReq}
  /\ delayed_error \in BOOLEAN

IoTypeOK ==
  /\ read_watcher \in BOOLEAN /\ write_watcher \in BOOLEAN
  /\ pendings \in Seq(Watcher \cup {"none"})

QueueTypeOK ==
  /\ write_queue \in Seq(WReqs) /\ write_completed_queue \in Seq(WReqs)
  /\ write_queue_size \in Int
  /\ left \in [WReqs -> Nat] /\ error \in [WReqs -> BOOLEAN]

CtlTypeOK ==
  at \in {"loop"} \cup Callback \cup Internal /\ running \in Reqs \cup {NoReq}

KernelTypeOK ==
  /\ conn \in {"none", "connecting", "established", "refused", "reset", "closed"}
  /\ soerr \in BOOLEAN /\ room \in 0..SndBuf
  /\ rx \in Nat /\ unsent \in Nat /\ fin \in BOOLEAN

HistoryTypeOK ==
  status \in [Reqs -> {"idle", "active", "ok", "error"}] /\ eof \in BOOLEAN

TypeOK ==
  /\ HandleTypeOK /\ IoTypeOK /\ QueueTypeOK
  /\ CtlTypeOK /\ KernelTypeOK /\ HistoryTypeOK

(* uv_tcp_init: uv__handle_init and uv__stream_init.                       *)
Init ==
  /\ flags = {} /\ fd = NoFd /\ read_cb = FALSE
  /\ connect_req = NoReq /\ shutdown_req = NoReq /\ delayed_error = FALSE
  /\ read_watcher = FALSE /\ write_watcher = FALSE /\ pendings = <<>>
  /\ write_queue = <<>> /\ write_completed_queue = <<>> /\ write_queue_size = 0
  /\ left = [r \in WReqs |-> 0] /\ error = [r \in WReqs |-> FALSE]
  /\ at = "loop" /\ running = NoReq
  /\ conn = "none" /\ soerr = FALSE /\ room = SndBuf
  /\ rx = 0 /\ unsent = PeerBytes /\ fin = FALSE
  /\ status = [r \in Reqs |-> "idle"] /\ eof = FALSE

-----------------------------------------------------------------------------
(* libev's pending array.                                                  *)

IsPending(w) == \E i \in DOMAIN pendings : pendings[i] = w

\* ev_feed_event: a watcher is in the array at most once.
Fed(p, w) == IF \E i \in DOMAIN p : p[i] = w THEN p ELSE Append(p, w)

ClearsNothing(p, w) == p

\* clear_pending, which every ev_*_stop calls: the slot gets a dummy watcher.
Cleared(p, w) == [i \in DOMAIN p |-> IF p[i] = w THEN "none" ELSE p[i]]

-----------------------------------------------------------------------------
(* The write side.                                                         *)

\* write(2) fails with something other than EAGAIN.
WriteFails == conn \in {"none", "refused", "reset"} \/ "SHUT" \in flags

\* write(2) on n bytes answers EAGAIN.
WouldBlock(n) == conn = "connecting" \/ (conn = "established" /\ room = 0 /\ n > 0)

\* uv__write_req_size: what request r still had to write.
NoReqSize(rem, r) == 0
uv__write_req_size(rem, r) == rem[r]

\* uv__write_req_finish, for the head of q; p is the pending array.
FinishWithoutFeed(q, p) ==
  /\ write_queue' = Tail(q)
  /\ write_completed_queue' = Append(write_completed_queue, Head(q))
  /\ pendings' = p
  /\ UNCHANGED write_watcher

uv__write_req_finish(q, p) ==
  /\ write_queue' = Tail(q)
  /\ write_completed_queue' = Append(write_completed_queue, Head(q))
  /\ pendings' = Fed(p, "write")
  /\ UNCHANGED write_watcher

\* uv__write on queue q of size bytes, where request r has rem[r] bytes left:
\* one write(2) for the head, whatever its outcome.
uv__write(q, size, rem, p) ==
  \/ /\ q = <<>>
     /\ write_queue' = q /\ write_queue_size' = size /\ left' = rem
     /\ pendings' = p
     /\ UNCHANGED <<write_completed_queue, error, write_watcher, soerr, room>>
  \/ /\ q # <<>> /\ WriteFails
     /\ error' = [error EXCEPT ![Head(q)] = TRUE] /\ soerr' = FALSE
     /\ write_queue_size' = size - uv__write_req_size(rem, Head(q)) /\ left' = rem
     /\ uv__write_req_finish(q, p)
     /\ UNCHANGED room
  \/ /\ q # <<>> /\ ~WriteFails /\ WouldBlock(rem[Head(q)])
     /\ write_queue' = q /\ write_queue_size' = size /\ left' = rem
     /\ write_watcher' = TRUE /\ pendings' = p
     /\ UNCHANGED <<write_completed_queue, error, soerr, room>>
  \/ /\ q # <<>> /\ ~WriteFails /\ ~WouldBlock(rem[Head(q)])
     /\ \E n \in 0..room :
          /\ n <= rem[Head(q)] /\ (n = 0 => rem[Head(q)] = 0)
          /\ left' = [rem EXCEPT ![Head(q)] = @ - n]
          /\ write_queue_size' = size - n /\ room' = room - n
          /\ \/ n = rem[Head(q)] /\ uv__write_req_finish(q, p)
             \/ /\ n < rem[Head(q)]
                /\ write_queue' = q /\ write_watcher' = TRUE /\ pendings' = p
                /\ UNCHANGED write_completed_queue
     /\ UNCHANGED <<error, soerr>>

\* The status a finished write is called back with.
WriteStatus(r) == IF error[r] THEN "error" ELSE "ok"

\* uv_write_queue_head returns NULL.
NothingQueued == write_queue_size = 0
uv_write_queue_head_null == write_queue = <<>>

\* The condition under which uv__drain shuts the write side down.
ShutdownDue ==
  "SHUTTING" \in flags /\ "CLOSING" \notin flags /\ "SHUT" \notin flags

\* The callback of request r starts, with status s, at control point cb.
CallsBack(cb, r, s) ==
  at' = cb /\ running' = r /\ status' = [status EXCEPT ![r] = s]

\* uv__drain: stop watching for writability, then shut down if asked to.
uv__drain ==
  /\ write_watcher' = FALSE /\ pendings' = Cleared(pendings, "write")
  /\ \/ /\ ShutdownDue
        /\ \/ /\ conn = "established"
              /\ flags' = flags \cup {"SHUT"}
              /\ CallsBack("shutdown_cb", shutdown_req, "ok")
           \/ /\ conn # "established"              \* ENOTCONN
              /\ CallsBack("shutdown_cb", shutdown_req, "error")
              /\ UNCHANGED flags
     \/ /\ ~ShutdownDue
        /\ at' = "loop" /\ UNCHANGED <<flags, running, status>>
  /\ UNCHANGED <<fd, read_cb, connect_req, shutdown_req, delayed_error,
                 read_watcher, queue, kernel, eof>>

\* One turn of the loop of uv__write_callbacks, or what follows the loop.
uv__write_callbacks ==
  /\ at = "uv__write_callbacks"
  /\ \/ /\ write_completed_queue # <<>>
        /\ CallsBack("write_cb", Head(write_completed_queue),
                     WriteStatus(Head(write_completed_queue)))
        /\ write_completed_queue' = Tail(write_completed_queue)
        /\ UNCHANGED <<handle, io, write_queue, write_queue_size, left, error,
                       kernel, eof>>
     \/ /\ write_completed_queue = <<>> /\ ~uv_write_queue_head_null
        /\ at' = "loop"
        /\ UNCHANGED <<handle, io, queue, running, kernel, status, eof>>
     \/ /\ write_completed_queue = <<>> /\ uv_write_queue_head_null
        /\ uv__drain

-----------------------------------------------------------------------------
(* The read side.                                                          *)

\* What read(2) returns when there is something to read.
Nread == IF rx < BufLen THEN rx ELSE BufLen

\* ev_io_stop on the read watcher.
StopReading ==
  read_watcher' = FALSE /\ pendings' = Cleared(pendings, "read")

\* read_cb starts at control point cb; it belongs to no request.
ReadsBack(cb) == at' = cb /\ running' = NoReq

\* One turn of the loop of uv__read: read(2) into a buffer of BufLen bytes.
uv__read ==
  /\ at = "uv__read"
  /\ \/ /\ ~(read_cb /\ "READING" \in flags)
        /\ at' = "loop" /\ UNCHANGED <<running, io, rx, soerr, eof>>
     \/ /\ read_cb /\ "READING" \in flags /\ rx > 0
        /\ rx' = rx - Nread
        /\ ReadsBack(IF Nread < BufLen THEN "read_cb" ELSE "read_cb_full")
        /\ UNCHANGED <<io, soerr, eof>>
     \/ /\ read_cb /\ "READING" \in flags /\ rx = 0                \* error
        /\ soerr \/ conn \in {"none", "refused"}
        /\ soerr' = FALSE /\ ReadsBack("read_error_cb")
        /\ UNCHANGED <<io, rx, eof>>
     \/ /\ read_cb /\ "READING" \in flags /\ rx = 0 /\ ~soerr      \* EOF
        /\ conn = "reset" \/ (conn = "established" /\ fin)
        /\ StopReading
        /\ eof' = TRUE /\ ReadsBack("read_cb")
        /\ UNCHANGED <<write_watcher, rx, soerr>>
     \/ /\ read_cb /\ "READING" \in flags /\ rx = 0 /\ ~soerr      \* EAGAIN
        /\ conn = "connecting" \/ (conn = "established" /\ ~fin)
        /\ read_watcher' = TRUE /\ ReadsBack("read_cb")
        /\ UNCHANGED <<write_watcher, pendings, rx, soerr, eof>>
  /\ UNCHANGED <<handle, queue, conn, room, unsent, fin, status>>

-----------------------------------------------------------------------------
(* The event loop: ev_invoke_pending and the poll.                         *)

Invoked == SubSeq(pendings, 1, Len(pendings) - 1)

\* libev invokes the watcher in the last slot of the array.
Invokes(w) ==
  at = "loop" /\ pendings # <<>> /\ pendings[Len(pendings)] = w

\* A slot cleared by ev_*_stop.
InvokeDummy ==
  /\ Invokes("none") /\ pendings' = Invoked
  /\ UNCHANGED <<handle, read_watcher, write_watcher, queue, ctl, kernel,
                 status, eof>>

\* uv__stream_io on a connecting stream: uv__stream_connect.  EINPROGRESS,
\* which SO_ERROR does not report here, is left out.
uv__stream_connect ==
  /\ connect_req # NoReq
  /\ Invokes("read") \/ Invokes("write")
  /\ connect_req' = NoReq /\ pendings' = Invoked
  /\ delayed_error' = FALSE
  /\ soerr' = IF delayed_error THEN soerr ELSE FALSE
  /\ IF delayed_error \/ soerr
       THEN CallsBack("connect_cb", connect_req, "error") /\ UNCHANGED read_watcher
       ELSE CallsBack("connect_cb", connect_req, "ok") /\ read_watcher' = TRUE
  /\ UNCHANGED <<flags, fd, read_cb, shutdown_req, write_watcher, queue,
                 conn, room, rx, unsent, fin, eof>>

\* uv__stream_io for the read watcher.
StreamReadable ==
  /\ Invokes("read") /\ connect_req = NoReq
  /\ pendings' = Invoked /\ at' = "uv__read"
  /\ UNCHANGED <<handle, read_watcher, write_watcher, queue, running, kernel,
                 status, eof>>

\* uv__stream_io for the write watcher: uv__write, then the callbacks.
StreamWritable ==
  /\ Invokes("write") /\ connect_req = NoReq
  /\ uv__write(write_queue, write_queue_size, left, Invoked)
  /\ at' = "uv__write_callbacks"
  /\ UNCHANGED <<handle, read_watcher, running, conn, rx, unsent, fin, status, eof>>

\* uv__next runs uv__finish_close.
FinishWithoutDestroy ==
  /\ Invokes("next")
  /\ pendings' = Invoked /\ flags' = flags \cup {"CLOSED"}
  /\ at' = "close_cb"
  /\ UNCHANGED <<fd, read_cb, connect_req, shutdown_req, delayed_error,
                 read_watcher, write_watcher, queue, running, kernel, status, eof>>

uv__finish_close ==
  /\ Invokes("next")
  /\ pendings' = Invoked /\ flags' = flags \cup {"CLOSED"}
  /\ at' = "uv__stream_destroy"
  /\ UNCHANGED <<fd, read_cb, connect_req, shutdown_req, delayed_error,
                 read_watcher, write_watcher, queue, running, kernel, status, eof>>

\* One turn of the two loops of uv__stream_destroy: requests never written
\* first, then those whose callback was due; then close_cb.
uv__stream_destroy ==
  /\ at = "uv__stream_destroy"
  /\ \/ /\ write_queue # <<>>
        /\ write_queue' = Tail(write_queue)
        /\ CallsBack("destroy_cb", Head(write_queue), "error")
        /\ UNCHANGED write_completed_queue
     \/ /\ write_queue = <<>> /\ write_completed_queue # <<>>
        /\ write_completed_queue' = Tail(write_completed_queue)
        /\ CallsBack("destroy_cb", Head(write_completed_queue),
                     WriteStatus(Head(write_completed_queue)))
        /\ UNCHANGED write_queue
     \/ /\ write_queue = <<>> /\ write_completed_queue = <<>>
        /\ at' = "close_cb"
        /\ UNCHANGED <<write_queue, write_completed_queue, running, status>>
  /\ UNCHANGED <<handle, io, write_queue_size, left, error, kernel, eof>>

\* poll(2) finds the watcher's file descriptor ready.
Ready(w) ==
  \/ /\ w = "read" /\ read_watcher
     /\ rx > 0 \/ fin \/ conn \in {"none", "refused", "reset"}
  \/ /\ w = "write" /\ write_watcher
     /\ (conn = "established" /\ room > 0) \/ conn \in {"none", "refused", "reset"}

\* The loop blocks in poll until something is ready, then feeds every ready
\* watcher; their order is that of the fd's watcher list, left open here.
Poll ==
  /\ at = "loop" /\ pendings = <<>>
  /\ \E w \in {"read", "write"} : Ready(w)
  /\ \/ Ready("read") /\ ~Ready("write") /\ pendings' = <<"read">>
     \/ ~Ready("read") /\ Ready("write") /\ pendings' = <<"write">>
     \/ /\ Ready("read") /\ Ready("write")
        /\ pendings' \in {<<"read", "write">>, <<"write", "read">>}
  /\ UNCHANGED <<handle, read_watcher, write_watcher, queue, ctl, kernel,
                 status, eof>>

-----------------------------------------------------------------------------
(* The program: any call, between two events or inside a callback.         *)

UserMayCall == at \in {"loop"} \cup Callback

\* Callbacks that report an error after which the program has to close.
MustClose ==
  \/ at = "read_error_cb"
  \/ at = "shutdown_cb" /\ status[running] = "error"

\* The callback returns to the code that called it; the assertion is the one
\* that follows read_cb(-1) in uv__read.
Return ==
  /\ at \in Callback
  /\ CloseOnError /\ MustClose => "CLOSING" \in flags
  /\ \/ at = "write_cb"     /\ at' = "uv__write_callbacks"
     \/ at = "destroy_cb"   /\ at' = "uv__stream_destroy"
     \/ at = "read_cb_full" /\ at' = "uv__read"
     \/ at = "read_error_cb" /\ at' = IF read_watcher THEN "abort" ELSE "loop"
     \/ /\ at \in {"read_cb", "connect_cb", "shutdown_cb", "close_cb"}
        /\ at' = "loop"
  /\ running' = NoReq
  /\ UNCHANGED <<handle, io, queue, kernel, status, eof>>

\* uv_accept hands the handle a connected socket.
uv__stream_open ==
  /\ UserMayCall /\ fd = NoFd /\ "CLOSING" \notin flags
  /\ fd' = SockFd /\ flags' = flags \cup {"READABLE", "WRITABLE"}
  /\ conn' = "established"
  /\ UNCHANGED <<read_cb, connect_req, shutdown_req, delayed_error, io, queue,
                 ctl, soerr, room, rx, unsent, fin, status, eof>>

\* What each answer of connect(2) makes of the socket.
ConnectOutcome(r) ==
  IF r = "OK" THEN "established" ELSE IF r = "EINPROGRESS" THEN "connecting"
  ELSE IF r = "ECONNREFUSED" THEN "refused" ELSE "none"

\* uv_tcp_connect: uv__connect.  "EOTHER" makes it return -1, with
\* connect_req already set.
uv__connect(c) ==
  /\ UserMayCall /\ conn = "none" /\ connect_req = NoReq
  /\ "CLOSING" \notin flags /\ status[c] = "idle"
  /\ fd' = SockFd
  /\ flags' = IF fd = NoFd THEN flags \cup {"READABLE", "WRITABLE"} ELSE flags
  /\ connect_req' = c
  /\ \E r \in ConnectResults :
       /\ conn' = ConnectOutcome(r)
       /\ delayed_error' = (r = "ECONNREFUSED")
       /\ pendings' = IF r = "ECONNREFUSED" THEN Fed(pendings, "write") ELSE pendings
       /\ write_watcher' = (write_watcher \/ r # "EOTHER")
       /\ status' = [status EXCEPT ![c] = IF r = "EOTHER" THEN @ ELSE "active"]
  /\ UNCHANGED <<read_cb, shutdown_req, read_watcher, queue, ctl, soerr, room,
                 rx, unsent, fin, eof>>

\* uv_write: queue the request; write at once if no byte was queued before.
uv_write(r, n) ==
  /\ UserMayCall /\ fd # NoFd /\ status[r] = "idle"
  /\ status' = [status EXCEPT ![r] = "active"]
  /\ LET q    == Append(write_queue, r)
         size == write_queue_size + n
         rem  == [left EXCEPT ![r] = n]
     IN  \/ /\ write_queue_size = 0
            /\ uv__write(q, size, rem, pendings)
         \/ /\ write_queue_size # 0
            /\ write_queue' = q /\ write_queue_size' = size /\ left' = rem
            /\ write_watcher' = TRUE
            /\ UNCHANGED <<write_completed_queue, error, pendings, soerr, room>>
  /\ UNCHANGED <<handle, read_watcher, ctl, conn, rx, unsent, fin, eof>>

\* uv_shutdown, once more while a shutdown is due included.
ShutdownWithoutWatcher(s) ==
  /\ UserMayCall /\ fd # NoFd /\ status[s] = "idle"
  /\ "WRITABLE" \in flags /\ flags \cap {"SHUT", "CLOSED", "CLOSING"} = {}
  /\ shutdown_req' = s /\ flags' = flags \cup {"SHUTTING"}
  /\ status' = [status EXCEPT ![s] = "active"]
  /\ UNCHANGED <<fd, read_cb, connect_req, delayed_error, io, queue, ctl, kernel,
                 eof>>

uv_shutdown(s) ==
  /\ UserMayCall /\ fd # NoFd /\ status[s] = "idle"
  /\ "WRITABLE" \in flags /\ flags \cap {"SHUT", "CLOSED", "CLOSING"} = {}
  /\ shutdown_req' = s /\ flags' = flags \cup {"SHUTTING"}
  /\ write_watcher' = TRUE
  /\ status' = [status EXCEPT ![s] = "active"]
  /\ UNCHANGED <<fd, read_cb, connect_req, delayed_error, read_watcher, pendings,
                 queue, ctl, kernel, eof>>

uv_read_start ==
  /\ UserMayCall /\ fd # NoFd /\ "CLOSING" \notin flags
  /\ flags' = flags \cup {"READING"} /\ read_cb' = TRUE
  /\ read_watcher' = TRUE /\ eof' = FALSE
  /\ UNCHANGED <<fd, connect_req, shutdown_req, delayed_error, write_watcher,
                 pendings, queue, ctl, kernel, status>>

uv_read_stop ==
  /\ UserMayCall /\ "CLOSED" \notin flags
  /\ read_watcher' = FALSE /\ pendings' = Cleared(pendings, "read")
  /\ flags' = flags \ {"READING"} /\ read_cb' = FALSE
  /\ UNCHANGED <<fd, connect_req, shutdown_req, delayed_error, write_watcher,
                 queue, ctl, kernel, status, eof>>

\* uv_close: stop both watchers, close the socket, schedule uv__next.
uv_close ==
  /\ UserMayCall /\ "CLOSING" \notin flags
  /\ read_cb' = FALSE /\ read_watcher' = FALSE /\ write_watcher' = FALSE
  /\ pendings' = Fed(Cleared(Cleared(pendings, "read"), "write"), "next")
  /\ fd' = NoFd /\ conn' = "closed"
  /\ flags' = (flags \ {"READING"}) \cup {"CLOSING"}
  /\ UNCHANGED <<connect_req, shutdown_req, delayed_error, queue, ctl, soerr,
                 room, rx, unsent, fin, status, eof>>

-----------------------------------------------------------------------------
(* The kernel and the peer.                                                *)

\* A connection attempt in progress succeeds, or fails with SO_ERROR set.
ConnResolve ==
  /\ conn = "connecting"
  /\ \/ conn' = "established" /\ UNCHANGED soerr
     \/ conn' = "refused" /\ soerr' = TRUE
  /\ UNCHANGED <<handle, io, queue, ctl, room, rx, unsent, fin, status, eof>>

PeerSends ==
  /\ conn = "established" /\ ~fin /\ unsent > 0
  /\ rx' = rx + 1 /\ unsent' = unsent - 1
  /\ UNCHANGED <<handle, io, queue, ctl, conn, soerr, room, fin, status, eof>>

PeerReads ==
  /\ conn = "established" /\ room < SndBuf
  /\ room' = SndBuf
  /\ UNCHANGED <<handle, io, queue, ctl, conn, soerr, rx, unsent, fin, status, eof>>

PeerFinishes ==
  /\ conn = "established" /\ ~fin
  /\ fin' = TRUE
  /\ UNCHANGED <<handle, io, queue, ctl, conn, soerr, room, rx, unsent, status, eof>>

PeerResets ==
  /\ conn = "established"
  /\ conn' = "reset" /\ soerr' = TRUE
  /\ UNCHANGED <<handle, io, queue, ctl, room, rx, unsent, fin, status, eof>>

-----------------------------------------------------------------------------
Loop ==
  \/ InvokeDummy \/ uv__stream_connect \/ StreamReadable \/ StreamWritable
  \/ uv__finish_close \/ uv__read \/ uv__write_callbacks \/ uv__stream_destroy
  \/ Poll

User ==
  \/ Return \/ uv__stream_open \/ uv_read_start \/ uv_read_stop \/ uv_close
  \/ \E c \in CReqs : uv__connect(c)
  \/ \E r \in WReqs, n \in Lens : uv_write(r, n)
  \/ \E s \in SReqs : uv_shutdown(s)

Environment ==
  ConnResolve \/ PeerSends \/ PeerReads \/ PeerFinishes \/ PeerResets

Next == Loop \/ User \/ Environment

Spec == Init /\ [][Next]_vars

(* The loop keeps running, every callback returns (closing first where it  *)
(* has to), and the network answers: an attempt to connect resolves, and a *)
(* peer whose window is closed reads or goes away.                         *)
Fairness ==
  /\ WF_vars(Loop) /\ WF_vars(Return) /\ WF_vars(MustClose /\ uv_close)
  /\ WF_vars(ConnResolve) /\ WF_vars(PeerReads)

FairSpec == Spec /\ Fairness

=============================================================================
