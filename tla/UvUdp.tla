------------------------------- MODULE UvUdp -------------------------------
(***************************************************************************)
(* One uv_udp_t: udp.c with the parts of core.c and libev it calls, seen   *)
(* by a program that may call the API between two events and inside every  *)
(* callback but alloc_cb, and that lets a closed handle alone.             *)
(*                                                                         *)
(* As in UvStream a step runs from one point where user code or the kernel *)
(* can act to the next; "at" is that point.                                *)
(***************************************************************************)
EXTENDS Integers, Sequences, SequencesExt

CONSTANTS
  Reqs,    \* uv_udp_send_t requests, submitted again once called back
  Mute,    \* those submitted with send_cb = NULL
  NoReq,
  RcvBuf   \* datagrams that the kernel keeps for the socket

ASSUME UdpAssumption ==
  NoReq \notin Reqs /\ Mute \subseteq Reqs /\ RcvBuf \in Nat \ {0}

VARIABLES
  bound,                  \* fd is not -1
  recv_cb,                \* it is not NULL
  read_watcher, write_watcher,
  pending,                \* watchers in libev's pending array
  write_queue, write_completed_queue,
  sent,                   \* req->status is not negative
  closing, closed,        \* UV_CLOSING and UV_CLOSED were set
  at, running,            \* control point, request whose callback runs
  status,                 \* what that callback is told
  inbox, soerr, blocked   \* datagrams received, socket error, send buffer full

handle == <<bound, recv_cb, closing, closed>>
io     == <<read_watcher, write_watcher, pending>>
queues == <<write_queue, write_completed_queue, sent>>
ctl    == <<at, running, status>>
kernel == <<inbox, soerr, blocked>>
vars   == <<handle, io, queues, ctl, kernel>>

RecvCallback == {"recv_cb", "recv_error_cb", "recv_empty_cb"}
Callback == RecvCallback \cup {"send_cb", "destroy_cb", "close_cb"}
Internal == {"uv__udp_recvmsg", "uv__udp_run_pending", "uv__udp_run_completed",
             "uv__udp_destroy"}

HandleTypeOK ==
  bound \in BOOLEAN /\ recv_cb \in BOOLEAN /\ closing \in BOOLEAN /\ closed \in BOOLEAN
IoTypeOK ==
  /\ read_watcher \in BOOLEAN /\ write_watcher \in BOOLEAN
  /\ pending \subseteq {"read", "write", "next"}
QueuesTypeOK ==
  /\ write_queue \in Seq(Reqs) /\ write_completed_queue \in Seq(Reqs)
  /\ sent \in [Reqs -> BOOLEAN]
CtlTypeOK ==
  /\ at \in {"loop"} \cup Callback \cup Internal
  /\ running \in Reqs \cup {NoReq} /\ status \in {"none", "ok", "error"}
KernelTypeOK == inbox \in 0..RcvBuf /\ soerr \in BOOLEAN /\ blocked \in BOOLEAN

TypeOK == HandleTypeOK /\ IoTypeOK /\ QueuesTypeOK /\ CtlTypeOK /\ KernelTypeOK

\* uv_udp_init.
Init ==
  /\ bound = FALSE /\ recv_cb = FALSE /\ closing = FALSE /\ closed = FALSE
  /\ read_watcher = FALSE /\ write_watcher = FALSE /\ pending = {}
  /\ write_queue = <<>> /\ write_completed_queue = <<>>
  /\ sent = [r \in Reqs |-> FALSE]
  /\ at = "loop" /\ running = NoReq /\ status = "none"
  /\ inbox = 0 /\ soerr = FALSE /\ blocked = FALSE

Queued == ToSet(write_queue) \cup ToSet(write_completed_queue)

-----------------------------------------------------------------------------
(* Watchers.  Those that an action leaves alone are not mentioned.         *)

\* uv__udp_watcher_start and uv__udp_watcher_stop, which takes back an event.
StartReading == read_watcher' = TRUE /\ UNCHANGED <<write_watcher, pending>>
StartWriting == write_watcher' = TRUE /\ UNCHANGED <<read_watcher, pending>>
StopReading ==
  read_watcher' = FALSE /\ pending' = pending \ {"read"} /\ UNCHANGED write_watcher
StopWriting ==
  write_watcher' = FALSE /\ pending' = pending \ {"write"} /\ UNCHANGED read_watcher
WatchOn == UNCHANGED io

\* poll(2) reports an error as readable and as writable.
Ready ==
  {w \in {"read", "write"} :
    /\ (w = "read" /\ read_watcher) \/ (w = "write" /\ write_watcher)
    /\ soerr \/ (w = "read" /\ inbox > 0) \/ (w = "write" /\ ~blocked)}

\* The loop blocks until something is ready, then feeds all that is.
Poll ==
  /\ at = "loop" /\ pending = {} /\ Ready # {}
  /\ pending' = Ready
  /\ UNCHANGED <<handle, read_watcher, write_watcher, queues, ctl, kernel>>

\* libev invokes watcher w, in whatever order; its function is at c next.
Invoke(w, c) ==
  /\ at = "loop" /\ w \in pending
  /\ pending' = pending \ {w} /\ at' = c
  /\ UNCHANGED <<read_watcher, write_watcher, queues, running, status, kernel>>

UdpReadable == Invoke("read", "uv__udp_recvmsg") /\ UNCHANGED handle
UdpWritable == Invoke("write", "uv__udp_run_pending") /\ UNCHANGED handle

-----------------------------------------------------------------------------
(* Receiving.                                                              *)

\* One turn of the loop of uv__udp_recvmsg.
uv__udp_recvmsg ==
  /\ at = "uv__udp_recvmsg"
  /\ \/ /\ soerr /\ soerr' = FALSE
        /\ at' = "recv_error_cb" /\ UNCHANGED inbox
     \/ /\ ~soerr /\ inbox > 0 /\ inbox' = inbox - 1
        /\ at' = "recv_cb" /\ UNCHANGED soerr
     \/ /\ ~soerr /\ inbox = 0
        /\ at' = "recv_empty_cb" /\ UNCHANGED <<inbox, soerr>>
  /\ UNCHANGED <<handle, io, queues, running, status, blocked>>

\* After recv_cb: again, unless there was nothing, or the program stopped
\* or closed.
ReceivesUnlessClosed == at = "recv_cb" /\ bound
ReceivesAgain == at = "recv_cb" /\ bound /\ recv_cb

RecvReturns ==
  /\ at \in RecvCallback
  /\ at' = IF ReceivesAgain THEN "uv__udp_recvmsg" ELSE "loop"
  /\ UNCHANGED <<handle, io, queues, running, status, kernel>>

-----------------------------------------------------------------------------
(* Sending.                                                                *)

\* The place of a request in write_completed_queue.
CompletedFirst(r) == <<r>> \o write_completed_queue
Completed(r) == Append(write_completed_queue, r)

\* One turn of the loop of uv__udp_run_pending.
uv__udp_run_pending ==
  /\ at = "uv__udp_run_pending"
  /\ \/ /\ write_queue = <<>> \/ (blocked /\ ~soerr)
        /\ at' = "uv__udp_run_completed"
        /\ UNCHANGED <<queues, soerr, blocked>>
     \/ /\ write_queue # <<>> /\ ~(blocked /\ ~soerr)
        /\ \E size \in BOOLEAN :
             /\ soerr => ~size
             /\ sent' = [sent EXCEPT ![Head(write_queue)] = size]
             /\ blocked' \in (IF size THEN BOOLEAN ELSE {blocked})
        /\ soerr' = FALSE
        /\ write_queue' = Tail(write_queue)
        /\ write_completed_queue' = Completed(Head(write_queue))
        /\ UNCHANGED at
  /\ UNCHANGED <<handle, io, running, status, inbox>>

\* The callback of request r starts, if it has one, with status s.
CallsBack(r, s, cb) ==
  IF r \in Mute THEN UNCHANGED ctl
  ELSE at' = cb /\ running' = r /\ status' = s

\* What uv__udp_sendmsg does last.
SendmsgEnds ==
  IF write_queue = <<>> THEN StopWriting ELSE WatchOn

\* One turn of the loop of uv__udp_run_completed, or what follows it in
\* uv__udp_sendmsg and in uv__udp_destroy.
uv__udp_run_completed ==
  /\ at = "uv__udp_run_completed"
  /\ \/ /\ write_completed_queue # <<>>
        /\ LET r == Head(write_completed_queue)
           IN  CallsBack(r, IF sent[r] THEN "ok" ELSE "error", "send_cb")
        /\ write_completed_queue' = Tail(write_completed_queue)
        /\ UNCHANGED <<io, write_queue, sent>>
     \/ /\ write_completed_queue = <<>>
        /\ IF closed THEN at' = "uv__udp_destroy" /\ UNCHANGED io
           ELSE at' = "loop" /\ SendmsgEnds
        /\ UNCHANGED <<queues, running, status>>
  /\ UNCHANGED <<handle, kernel>>

-----------------------------------------------------------------------------
(* Closing.                                                                *)

\* uv__next: uv__finish_close calls uv__udp_destroy, which first runs the
\* callbacks that are due.
uv__finish_close ==
  /\ Invoke("next", "uv__udp_run_completed") /\ closed' = TRUE
  /\ UNCHANGED <<bound, recv_cb, closing>>

\* One turn of its loop: what was never sent fails.  Then close_cb.
uv__udp_destroy ==
  /\ at = "uv__udp_destroy"
  /\ \/ /\ write_queue # <<>> /\ write_queue' = Tail(write_queue)
        /\ CallsBack(Head(write_queue), "error", "destroy_cb")
        /\ UNCHANGED recv_cb
     \/ /\ write_queue = <<>> /\ recv_cb' = FALSE
        /\ at' = "close_cb" /\ UNCHANGED <<write_queue, running, status>>
  /\ UNCHANGED <<bound, closing, closed, io, write_completed_queue, sent, kernel>>

\* send_cb and close_cb return.
Return ==
  /\ at \in {"send_cb", "destroy_cb", "close_cb"}
  /\ \/ at = "send_cb" /\ at' = "uv__udp_run_completed"
     \/ at = "destroy_cb" /\ at' = "uv__udp_destroy"
     \/ at = "close_cb" /\ at' = "loop"
  /\ running' = NoReq /\ status' = "none"
  /\ UNCHANGED <<handle, io, queues, kernel>>

-----------------------------------------------------------------------------
(* The program.                                                            *)

UserMayCall == at \in {"loop"} \cup Callback /\ ~closing

\* uv__bind, by itself or in a uv_udp_send that then has no memory for the
\* buffers.  When it fails everything is as it was.
uv__bind ==
  /\ UserMayCall /\ ~bound
  /\ bound' = TRUE
  /\ UNCHANGED <<recv_cb, closing, closed, io, queues, ctl, kernel>>

\* The deferred bind, and then the request is queued.
SendUnwatched(r) ==
  /\ UserMayCall /\ r \notin Queued
  /\ bound' = TRUE
  /\ write_queue' = Append(write_queue, r)
  /\ UNCHANGED <<recv_cb, closing, closed, io, write_completed_queue, sent, ctl, kernel>>

uv__udp_send(r) ==
  /\ UserMayCall /\ r \notin Queued
  /\ bound' = TRUE
  /\ write_queue' = Append(write_queue, r)
  /\ StartWriting
  /\ UNCHANGED <<recv_cb, closing, closed, write_completed_queue, sent, ctl, kernel>>

uv_udp_recv_start ==
  /\ UserMayCall /\ ~read_watcher
  /\ bound' = TRUE /\ recv_cb' = TRUE
  /\ StartReading
  /\ UNCHANGED <<closing, closed, queues, ctl, kernel>>

uv_udp_recv_stop ==
  /\ UserMayCall
  /\ recv_cb' = FALSE
  /\ StopReading
  /\ UNCHANGED <<bound, closing, closed, queues, ctl, kernel>>

\* uv_close stops both watchers, closes the socket and schedules uv__next.
uv_close ==
  /\ UserMayCall
  /\ closing' = TRUE /\ bound' = FALSE
  /\ read_watcher' = FALSE /\ write_watcher' = FALSE /\ pending' = {"next"}
  /\ inbox' = 0 /\ soerr' = FALSE /\ blocked' = FALSE
  /\ UNCHANGED <<recv_cb, closed, queues, ctl>>

-----------------------------------------------------------------------------
(* The kernel and the peers.                                               *)

Arrives ==
  /\ bound /\ inbox < RcvBuf /\ inbox' = inbox + 1
  /\ UNCHANGED <<handle, io, queues, ctl, soerr, blocked>>

\* A datagram that was sent before is refused.
Refused ==
  /\ bound /\ ~soerr /\ soerr' = TRUE
  /\ UNCHANGED <<handle, io, queues, ctl, inbox, blocked>>

Drains ==
  /\ blocked /\ blocked' = FALSE
  /\ UNCHANGED <<handle, io, queues, ctl, inbox, soerr>>

-----------------------------------------------------------------------------
Loop ==
  \/ Poll \/ UdpReadable \/ UdpWritable
  \/ uv__udp_recvmsg \/ uv__udp_run_pending \/ uv__udp_run_completed
  \/ uv__finish_close \/ uv__udp_destroy

User ==
  \/ RecvReturns \/ Return \/ uv__bind \/ uv_udp_recv_start \/ uv_udp_recv_stop
  \/ uv_close \/ \E r \in Reqs : uv__udp_send(r)

Kernel == Arrives \/ Refused \/ Drains

Next == Loop \/ User \/ Kernel

Spec == Init /\ [][Next]_vars

(* The loop keeps running, callbacks return, and the kernel sends what it  *)
(* has taken.                                                              *)
Fairness ==
  WF_vars(Loop) /\ WF_vars(RecvReturns \/ Return) /\ WF_vars(Drains)

FairSpec == Spec /\ Fairness
=============================================================================
