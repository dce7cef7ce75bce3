------------------------------- MODULE WinTcp -------------------------------
(***************************************************************************)
(* win/tcp.c with the loop of win/core.c, the requests of win/req.c and    *)
(* uv_close of win/handle.c: one uv_tcp_t, which becomes a connection or a *)
(* listening socket, and the program that calls it between callbacks and   *)
(* from each of them.                                                      *)
(*                                                                         *)
(* An operation starts at once and completes later: its request is with    *)
(* the kernel, then in the completion port, then among the pending ones of *)
(* the loop, and is then processed.  A handle is closed when none is left. *)
(***************************************************************************)
EXTENDS Naturals, Sequences, FiniteSets, SequencesExt

CONSTANTS
  WReqs,   \* write requests
  AReqs,   \* accept_reqs, uv_simultaneous_server_accepts of them
  FirstA,  \* accept_reqs[0]
  ReadReq, ConnReq, ShutReq,  \* read_req, a uv_connect_t, a uv_shutdown_t
  Worlds   \* sets of things that may happen; one is chosen for each behaviour

Liberties ==
  {"restarts",         \* the program stops reading and starts again
   "recv_fails",       \* WSARecv may fail at once
   "accept_fails",     \* socket or AcceptEx may fail at once
   "closes_shutting"}  \* it closes while its uv_shutdown is due

ASSUME WinAssumption ==
  /\ Worlds \subseteq SUBSET Liberties
  /\ IsFiniteSet(WReqs) /\ IsFiniteSet(AReqs) /\ FirstA \in AReqs
  /\ WReqs \cap AReqs = {}
  /\ Cardinality({ReadReq, ConnReq, ShutReq}) = 3
  /\ {ReadReq, ConnReq, ShutReq} \cap (WReqs \cup AReqs) = {}

VARIABLES
  handle,        \* flags, reqs_pending, write_reqs_pending, processed_accepts
  pending_reqs,  \* of the loop, oldest first
  kernel,        \* requests the kernel works on, in the order they came
  iocp,          \* requests in the completion port
  failed,        \* requests whose status is not success
  status,        \* what the program knows of its requests
  accept,        \* of the accept requests: those with an accept_socket, and pending_accepts
  at,            \* the place in uv_run, or the callback that runs
  resume,        \* where the code goes on when the callback returns
  world

queues == <<pending_reqs, kernel, iocp, failed>>
ctl    == <<at, resume>>
vars   == <<handle, queues, status, accept, ctl, world>>

Reqs     == WReqs \cup AReqs \cup {ReadReq, ConnReq, ShutReq}
UserReqs == WReqs \cup {ConnReq, ShutReq}
Callback == {"read_cb", "write_cb", "connect_cb", "connection_cb", "shutdown_cb", "close_cb"}
Flags ==
  {"CLOSING", "CLOSED", "BOUND", "LISTENING", "CONNECTION", "READING", "EOF", "SHUTTING",
   "SHUT", "ENDGAME_QUEUED", "READ_PENDING", "SYNC_BYPASS_IOCP", "SINGLE_ACCEPT",
   "ACCEPT_STATE_CHANGING"}

TypeOK ==
  /\ handle \in [flags : SUBSET Flags, reqs_pending : Nat, write_reqs_pending : Nat,
                 processed_accepts : Nat]
  /\ pending_reqs \in Seq(Reqs) /\ kernel \in Seq(Reqs) /\ iocp \in Seq(Reqs)
  /\ failed \subseteq Reqs
  /\ status \in [UserReqs -> {"idle", "active", "ok", "error"}]
  /\ accept \in [sockets : SUBSET AReqs, pending : Seq(AReqs)]
  /\ at \in {"timers", "endgames", "reqs", "poll", "reading"} \cup Callback
  /\ resume \in {"none", "reading", "posting", "processed", "written", "shut", "endgames"}
  /\ world \in Worlds

\* uv_tcp_init.  The OS decides whether what succeeds at once skips the port.
Init ==
  /\ handle \in [flags : {{}, {"SYNC_BYPASS_IOCP"}}, reqs_pending : {0},
                 write_reqs_pending : {0}, processed_accepts : {0}]
  /\ pending_reqs = <<>> /\ kernel = <<>> /\ iocp = <<>> /\ failed = {}
  /\ status = [r \in UserReqs |-> "idle"]
  /\ accept = [sockets |-> {}, pending |-> <<>>]
  /\ at = "timers" /\ resume = "none"
  /\ world \in Worlds

Has(f)  == f \in handle.flags
May(l)  == l \in world

With(h, fs)    == [h EXCEPT !.flags = @ \cup fs]
Without(h, fs) == [h EXCEPT !.flags = @ \ fs]
More(h)        == [h EXCEPT !.reqs_pending = @ + 1]

\* DECREASE_PENDING_REQ_COUNT, which asserts that the count is not zero.
Decrease(h) ==
  LET d == [h EXCEPT !.reqs_pending = @ - 1]
  IN IF "CLOSING" \in d.flags /\ d.reqs_pending = 0 THEN With(d, {"ENDGAME_QUEUED"}) ELSE d

-----------------------------------------------------------------------------
(* The kernel.                                                             *)

\* A request that the call itself completes goes to the loop at once if the
\* completion port is skipped; sends complete in the order they were made.
AtOnce(r) ==
  /\ Has("SYNC_BYPASS_IOCP") /\ (r \in WReqs => ToSet(kernel) \cap WReqs = {})
  /\ pending_reqs' = Append(pending_reqs, r) /\ failed' = failed \ {r}
  /\ UNCHANGED <<kernel, iocp>>
ByKernel(r) ==
  /\ kernel' = Append(kernel, r) /\ failed' = failed \ {r}
  /\ UNCHANGED <<pending_reqs, iocp>>
\* The request reports the error of the call that should have started it.
Failing(r) ==
  /\ pending_reqs' = Append(pending_reqs, r) /\ failed' = failed \cup {r}
  /\ UNCHANGED <<kernel, iocp>>

\* closesocket makes what is left fail.
Complete(i) ==
  /\ kernel[i] \in WReqs => \A j \in 1..(i - 1) : kernel[j] \notin WReqs
  /\ kernel' = RemoveAt(kernel, i) /\ iocp' = Append(iocp, kernel[i])
  /\ failed' \in {failed \cup {kernel[i]}} \cup
                 (IF Has("CLOSING") THEN {} ELSE {failed})
  /\ UNCHANGED <<handle, pending_reqs, status, accept, ctl, world>>

-----------------------------------------------------------------------------
(* uv_run: UV_LOOP.                                                        *)

\* After the timers; nothing of this handle runs in idle callbacks.
Flush == at = "timers" /\ at' = "endgames" /\ UNCHANGED <<handle, queues, status, accept, resume, world>>

Poll ==
  /\ at = "poll" /\ at' = "timers"
  /\ \E n \in {Len(iocp)} \cup (IF iocp = <<>> THEN {} ELSE {1}) :   \* uv_poll_ex, uv_poll
       /\ pending_reqs' = pending_reqs \o SubSeq(iocp, 1, n)
       /\ iocp' = SubSeq(iocp, n + 1, Len(iocp))
  /\ UNCHANGED <<handle, kernel, failed, status, accept, resume, world>>

Call(callback, then) == at' = callback /\ resume' = then

\* Mutant: the shutdown does not wait for the writes.
ShutsDownEarly == {"CONNECTION", "SHUTTING"} \subseteq handle.flags /\ ~Has("SHUT")

\* uv_tcp_endgame, if it is due.
ShutsDown ==
  /\ {"CONNECTION", "SHUTTING"} \subseteq handle.flags /\ ~Has("SHUT")
  /\ handle.write_reqs_pending = 0

Endgame ==
  /\ at = "endgames" /\ Has("ENDGAME_QUEUED")
  /\ LET h == Without(handle, {"ENDGAME_QUEUED"})
     IN \/ /\ ShutsDown
           /\ \/ /\ handle' = With(h, {"SHUT"})
                 /\ status' = [status EXCEPT ![ShutReq] = "ok"]
              \/ /\ handle' = h                        \* shutdown fails
                 /\ status' = [status EXCEPT ![ShutReq] = "error"]
           /\ Call("shutdown_cb", "shut")
        \/ /\ ~ShutsDown /\ Has("CLOSING") /\ handle.reqs_pending = 0
           /\ handle' = With(h, {"CLOSED"})
           /\ Call("close_cb", "endgames") /\ UNCHANGED status
        \/ /\ ~ShutsDown /\ ~(Has("CLOSING") /\ handle.reqs_pending = 0)
           /\ handle' = h /\ UNCHANGED <<status, ctl>>
  /\ UNCHANGED <<queues, accept, world>>

NoEndgame ==
  /\ at = "endgames" /\ ~Has("ENDGAME_QUEUED") /\ at' = "reqs"
  /\ UNCHANGED <<handle, queues, status, accept, resume, world>>

\* Until both are empty; then the prepare callbacks.
Flushed ==
  /\ at = "reqs" /\ pending_reqs = <<>>
  /\ at' = IF Has("ENDGAME_QUEUED") THEN "endgames" ELSE "poll"
  /\ UNCHANGED <<handle, queues, status, accept, resume, world>>

\* uv_process_reqs takes the oldest.
Processes(r) ==
  /\ at = "reqs" /\ pending_reqs # <<>> /\ r = Head(pending_reqs)
  /\ pending_reqs' = Tail(pending_reqs)

Answer(r, s) == status' = [status EXCEPT ![r] = s]

WriteReq(r) ==
  /\ Processes(r) /\ Answer(r, IF r \in failed THEN "error" ELSE "ok")
  /\ Call("write_cb", "written")
  /\ UNCHANGED <<handle, kernel, iocp, failed, accept, world>>

\* The socket is told that it is connected, which fails if it was closed.
ConnectReq ==
  /\ Processes(ConnReq)
  /\ \/ /\ ConnReq \notin failed /\ ~Has("CLOSING")
        /\ handle' = [With(handle, {"CONNECTION"}) EXCEPT !.write_reqs_pending = 0]
        /\ Answer(ConnReq, "ok")
     \/ handle' = handle /\ Answer(ConnReq, "error")
  /\ Call("connect_cb", "processed")
  /\ UNCHANGED <<kernel, iocp, failed, accept, world>>

\* Mutant: nothing marks the read that is posted.
QueueReadUnmarked(h) == (AtOnce(ReadReq) \/ ByKernel(ReadReq)) /\ handle' = More(h)

\* uv_tcp_queue_read and uv_tcp_queue_accept, for the handle h (and accept = a).
QueueRead(h) ==
  \/ (AtOnce(ReadReq) \/ ByKernel(ReadReq)) /\ handle' = More(With(h, {"READ_PENDING"}))
  \/ May("recv_fails") /\ Failing(ReadReq) /\ handle' = More(h)

QueueAccept(h, a, r) ==
  /\ handle' = More(h)
  /\ \/ (AtOnce(r) \/ ByKernel(r)) /\ accept' = [a EXCEPT !.sockets = @ \cup {r}]
     \/ May("accept_fails") /\ Failing(r) /\ accept' = a

\* The request only tells that there may be data, which is read without waiting.
ReadReqDone ==
  /\ Processes(ReadReq)
  /\ LET h == Without(handle, {"READ_PENDING"})
     IN \/ /\ ReadReq \notin failed
           /\ handle' = h /\ at' = "reading" /\ UNCHANGED resume
        \/ /\ ReadReq \in failed /\ Has("READING")
           /\ \E eof \in {{}, {"EOF"}} : handle' = With(Without(h, {"READING"}), eof)
           /\ Call("read_cb", "processed")
        \/ /\ ReadReq \in failed /\ ~Has("READING")
           /\ handle' = Decrease(h) /\ at' = "reqs" /\ UNCHANGED resume
  /\ UNCHANGED <<kernel, iocp, failed, status, accept, world>>

\* One turn of the loop of uv_process_tcp_read_req.  After a buffer that was
\* filled it reads again; an empty socket, the end and an error are the last.
Receive ==
  /\ at = "reading" /\ Has("READING")
  /\ \/ Call("read_cb", "reading") /\ UNCHANGED handle
     \/ Call("read_cb", "posting") /\ UNCHANGED handle
     \/ /\ \E eof \in {{}, {"EOF"}} : handle' = With(Without(handle, {"READING"}), eof)
        /\ Call("read_cb", "posting")
  /\ UNCHANGED <<queues, status, accept, world>>

\* "done:" another read is posted, unless there is one.
Post ==
  \/ /\ Has("READING") /\ ~Has("READ_PENDING")
     /\ QueueRead(Decrease(handle))
  \/ /\ ~Has("READING") \/ Has("READ_PENDING")
     /\ handle' = Decrease(handle) /\ UNCHANGED queues

Stopped ==
  /\ at = "reading" /\ ~Has("READING")
  /\ handle' = Decrease(handle) /\ at' = "reqs"
  /\ UNCHANGED <<queues, status, accept, resume, world>>

\* uv_process_tcp_accept_req.  The accepted socket is told whose it is, which
\* fails if the server was closed.
AcceptReq(r) ==
  /\ Processes(r)
  /\ \/ /\ r \notin accept.sockets /\ Has("LISTENING")
        /\ handle' = Without(handle, {"LISTENING"}) /\ Call("connection_cb", "processed")
        /\ UNCHANGED <<kernel, iocp, failed, accept>>
     \/ /\ r \notin accept.sockets /\ ~Has("LISTENING")
        /\ handle' = Decrease(handle) /\ at' = "reqs"
        /\ UNCHANGED <<kernel, iocp, failed, accept, resume>>
     \/ /\ r \in accept.sockets \ failed /\ ~Has("CLOSING")
        /\ accept' = [accept EXCEPT !.pending = <<r>> \o @]
        /\ Call("connection_cb", "processed")
        /\ UNCHANGED <<handle, kernel, iocp, failed>>
     \/ /\ r \in accept.sockets /\ ~Has("LISTENING")
        /\ handle' = Decrease(handle) /\ accept' = [accept EXCEPT !.sockets = @ \ {r}]
        /\ at' = "reqs" /\ UNCHANGED <<kernel, iocp, failed, resume>>
  /\ UNCHANGED <<status, world>>

\* The same with an error of the accepted socket: the request is used again.
AcceptAgain(r) ==
  /\ at = "reqs" /\ pending_reqs # <<>> /\ r = Head(pending_reqs)
  /\ r \in accept.sockets /\ Has("LISTENING")
  /\ handle' = handle
  /\ \/ /\ Has("SYNC_BYPASS_IOCP")
        /\ pending_reqs' = Append(Tail(pending_reqs), r) /\ failed' = failed \ {r}
        /\ UNCHANGED <<kernel, accept>>
     \/ /\ pending_reqs' = Tail(pending_reqs)
        /\ kernel' = Append(kernel, r) /\ failed' = failed \ {r}
        /\ UNCHANGED accept
     \/ /\ May("accept_fails")
        /\ pending_reqs' = Append(Tail(pending_reqs), r) /\ failed' = failed \cup {r}
        /\ accept' = [accept EXCEPT !.sockets = @ \ {r}] /\ UNCHANGED kernel
  /\ UNCHANGED <<iocp, status, ctl, world>>

-----------------------------------------------------------------------------
(* The program, in callbacks of this handle and of others.                 *)

UserMayCall == at \in Callback \cup {"timers"} /\ ~Has("CLOSING")

\* uv_tcp_connect of a new handle.
uv_tcp_connect ==
  /\ UserMayCall /\ {"BOUND", "SINGLE_ACCEPT"} \cap handle.flags = {}
  /\ handle' = More(With(handle, {"BOUND"})) /\ Answer(ConnReq, "active")
  /\ (AtOnce(ConnReq) \/ ByKernel(ConnReq))
  /\ UNCHANGED <<accept, ctl, world>>

uv_tcp_write(r) ==
  /\ UserMayCall /\ Has("CONNECTION") /\ ~Has("SHUTTING") /\ status[r] = "idle"
  /\ handle' = [More(handle) EXCEPT !.write_reqs_pending = @ + 1]
  /\ Answer(r, "active") /\ (AtOnce(r) \/ ByKernel(r))
  /\ UNCHANGED <<accept, ctl, world>>

uv_shutdown ==
  /\ UserMayCall /\ Has("CONNECTION") /\ ~Has("SHUTTING")
  /\ handle' = More(With(handle, {"SHUTTING", "ENDGAME_QUEUED"}))
  /\ Answer(ShutReq, "active")
  /\ UNCHANGED <<queues, accept, ctl, world>>

\* Without "restarts", only once and in connect_cb.
uv_read_start ==
  /\ UserMayCall /\ (May("restarts") \/ at = "connect_cb")
  /\ Has("CONNECTION") /\ ~Has("READING") /\ ~Has("EOF")
  /\ \/ Has("READ_PENDING") /\ handle' = With(handle, {"READING"}) /\ UNCHANGED queues
     \/ ~Has("READ_PENDING") /\ QueueRead(With(handle, {"READING"}))
  /\ UNCHANGED <<status, accept, ctl, world>>

uv_read_stop ==
  /\ UserMayCall /\ (May("restarts") \/ at # "connect_cb")
  /\ Has("READING") /\ handle' = Without(handle, {"READING"})
  /\ UNCHANGED <<queues, status, accept, ctl, world>>

\* uv_listen of a new handle: every accept request is queued.
uv_tcp_listen ==
  /\ UserMayCall /\ ~Has("BOUND")
  /\ \E how \in [IF Has("SINGLE_ACCEPT") THEN {FirstA} ELSE AReqs
                   -> {"kernel"} \cup (IF Has("SYNC_BYPASS_IOCP") THEN {"at once"} ELSE {})
                              \cup (IF May("accept_fails") THEN {"failing"} ELSE {})] :
       LET Those(h) == {r \in DOMAIN how : how[r] = h}
       IN /\ handle' = [With(handle, {"BOUND", "LISTENING"}) EXCEPT
                           !.reqs_pending = @ + Cardinality(DOMAIN how)]
          /\ kernel' = kernel \o SetToSeq(Those("kernel"))
          /\ pending_reqs' = pending_reqs \o SetToSeq(Those("at once") \cup Those("failing"))
          /\ failed' = failed \cup Those("failing")
          /\ accept' = [accept EXCEPT !.sockets = Those("kernel") \cup Those("at once")]
  /\ UNCHANGED <<iocp, status, ctl, world>>

\* Mutant: one connection too late.
AllProcessedLate == handle.processed_accepts >= Cardinality(AReqs)
\* This is the last of the requests that uv_tcp_listen queued.
AllProcessed == handle.processed_accepts + 1 >= Cardinality(AReqs)

\* uv_accept takes the connection that came last.  It asserts that the server
\* listens, unless it is closed: the program does not call it otherwise.
uv_tcp_accept ==
  /\ at \in Callback \cup {"timers"} /\ ~Has("CLOSED") /\ accept.pending # <<>>
  /\ LET r == Head(accept.pending)
         a == [sockets |-> accept.sockets \ {r}, pending |-> Tail(accept.pending)]
     IN \/ Has("CLOSING") /\ accept' = a /\ UNCHANGED <<handle, queues>>
        \/ /\ Has("LISTENING") /\ ~Has("ACCEPT_STATE_CHANGING")
           /\ QueueAccept(handle, a, r)
        \/ /\ Has("LISTENING") /\ Has("ACCEPT_STATE_CHANGING") /\ ~AllProcessed
           /\ handle' = [handle EXCEPT !.processed_accepts = @ + 1]
           /\ accept' = a /\ UNCHANGED queues
        \/ /\ Has("LISTENING") /\ Has("ACCEPT_STATE_CHANGING") /\ AllProcessed
           /\ QueueAccept([Without(handle, {"ACCEPT_STATE_CHANGING"}) EXCEPT
                              !.processed_accepts = 0], a, FirstA)
  /\ UNCHANGED <<status, ctl, world>>

\* uv_tcp_simultaneous_accepts(handle, 0).
uv_tcp_simultaneous_accepts ==
  /\ UserMayCall /\ ~Has("CONNECTION") /\ ~Has("SINGLE_ACCEPT")
  /\ status[ConnReq] = "idle"
  /\ handle' = With(handle, {"SINGLE_ACCEPT"} \cup
                  (IF Has("LISTENING") THEN {"ACCEPT_STATE_CHANGING"} ELSE {}))
  /\ UNCHANGED <<queues, status, accept, ctl, world>>

\* closesocket makes the kernel give back what it has.
uv_close ==
  /\ UserMayCall
  /\ status[ShutReq] = "active" => May("closes_shutting")
  /\ handle' = With(Without(handle, {"READING", "LISTENING"}),
                   {"CLOSING", "SHUT"} \cup
                   (IF handle.reqs_pending = 0 THEN {"ENDGAME_QUEUED"} ELSE {}))
  /\ UNCHANGED <<queues, status, accept, ctl, world>>

\* Mutant: the last write does not wake the shutdown that waits for it.
WrittenQuietly == [handle EXCEPT !.write_reqs_pending = @ - 1]
\* uv_process_tcp_write_req after the callback.
Written ==
  LET h == [handle EXCEPT !.write_reqs_pending = @ - 1]
  IN IF "SHUTTING" \in h.flags /\ h.write_reqs_pending = 0
       THEN With(h, {"ENDGAME_QUEUED"}) ELSE h

\* A callback returns, and the code that called it goes on.
Return ==
  /\ at \in Callback /\ resume' = "none"
  /\ \/ resume = "reading" /\ at' = "reading" /\ UNCHANGED <<handle, queues>>
     \/ resume = "posting" /\ Post /\ at' = "reqs"
     \/ resume = "processed" /\ handle' = Decrease(handle) /\ at' = "reqs" /\ UNCHANGED queues
     \/ resume = "written" /\ handle' = Decrease(Written) /\ at' = "reqs" /\ UNCHANGED queues
     \/ resume = "shut" /\ handle' = Decrease(handle) /\ at' = "endgames" /\ UNCHANGED queues
     \/ resume = "endgames" /\ at' = "endgames" /\ UNCHANGED <<handle, queues>>
  /\ UNCHANGED <<status, accept, world>>

-----------------------------------------------------------------------------

Program ==
  \/ uv_tcp_connect \/ uv_shutdown \/ uv_read_start \/ uv_read_stop
  \/ uv_tcp_listen \/ uv_tcp_accept \/ uv_tcp_simultaneous_accepts \/ uv_close
  \/ \E r \in WReqs : uv_tcp_write(r)

Loop ==
  \/ Flush \/ Poll \/ Endgame \/ NoEndgame \/ Flushed
  \/ ConnectReq \/ ReadReqDone \/ Receive \/ Stopped \/ Return
  \/ \E r \in WReqs : WriteReq(r)
  \/ \E r \in AReqs : AcceptReq(r) \/ AcceptAgain(r)

Next == Program \/ Loop \/ \E i \in DOMAIN kernel : Complete(i)

\* The loop runs and callbacks return; the kernel connects or fails to, sends or
\* fails to, and gives back everything of a closed socket.  The peer does not
\* fill the socket for ever faster than it is read, neither in the loop that
\* reads nor between one read and the next: the loop would do nothing else.
KernelOwes(i) == Has("CLOSING") \/ kernel[i] \in WReqs \cup {ConnReq}
Posts == Return \/ uv_read_start
PeerPauses ==
  /\ SF_vars(Receive /\ resume' = "posting")
  /\ []<><<Posts /\ pending_reqs' # pending_reqs>>_vars => []<><<Posts /\ kernel' # kernel>>_vars
Fairness ==
  /\ WF_vars(Loop) /\ PeerPauses
  /\ \A r \in Reqs :
       WF_vars(\E i \in DOMAIN kernel : kernel[i] = r /\ KernelOwes(i) /\ Complete(i))

Spec == Init /\ [][Next]_vars /\ Fairness
=============================================================================
