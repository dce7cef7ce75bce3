------------------------------ MODULE UvServer ------------------------------
(***************************************************************************)
(* A listening stream: uv_bind, uv_listen, the accept handlers of tcp.c,   *)
(* stream.c and pipe.c, uv_accept and uv_close, over the descriptor table  *)
(* of the process and the kernel's queue of connections.                   *)
(*                                                                         *)
(* The server parks one accepted connection in accepted_fd and stops its   *)
(* watcher until the program takes it with uv_accept.                      *)
(***************************************************************************)
EXTENDS Sequences, SequencesExt

CONSTANTS
  Kinds,         \* of server: "tcp" (uv__server_io), "pipe" (uv__pipe_accept)
  Conns,         \* the connections peers make
  Clients,       \* the handles the program gives to uv_accept
  Fds,           \* the descriptors the process may have open
  NoFd,          \* -1
  OpenMayFail,   \* setsockopt may fail on an accepted socket
  AcceptErrors   \* what accept(2) may answer besides EAGAIN and EMFILE

ASSUME ServerAssumption ==
  /\ Kinds \subseteq {"tcp", "pipe"} /\ OpenMayFail \in BOOLEAN
  /\ NoFd \notin Fds
  /\ AcceptErrors \subseteq {"ECONNABORTED", "ENFILE"}
  /\ "free" \notin Conns /\ "listener" \notin Conns

VARIABLES
  kind,        \* server->type
  fd, accepted_fd, delayed_error,  \* of the server
  listening,   \* uv_listen succeeded
  closing,     \* UV_CLOSING of the server
  watching,    \* ev_is_active(&server->read_watcher)
  pending,     \* its event is in libev's pending array
  at,          \* control point
  client_fd,   \* client->fd
  client,      \* what the program did with each client handle
  dropped,     \* history: a uv_accept has failed and dropped a connection
  table,       \* the kernel's descriptor table
  backlog      \* connections established and not yet accepted

server == <<kind, fd, accepted_fd, delayed_error, listening, closing>>
io     == <<watching, pending>>
users  == <<client_fd, client, dropped>>
kernel == <<table, backlog>>
vars   == <<server, io, at, users, kernel>>

Callback == {"connection_cb", "connection_error_cb"}

TypeOK ==
  /\ kind \in Kinds /\ dropped \in BOOLEAN
  /\ fd \in Fds \cup {NoFd} /\ accepted_fd \in Fds \cup {NoFd}
  /\ delayed_error \in BOOLEAN /\ listening \in BOOLEAN /\ closing \in BOOLEAN
  /\ watching \in BOOLEAN /\ pending \in BOOLEAN
  /\ at \in {"loop", "accept"} \cup Callback
  /\ client_fd \in [Clients -> Fds \cup {NoFd}]
  /\ client \in [Clients -> {"init", "open", "failed", "closed"}]
  /\ table \in [Fds -> Conns \cup {"free", "listener"}]
  /\ backlog \in Seq(Conns)

Init ==
  /\ kind \in Kinds /\ dropped = FALSE
  /\ fd = NoFd /\ accepted_fd = NoFd /\ delayed_error = FALSE
  /\ listening = FALSE /\ closing = FALSE
  /\ watching = FALSE /\ pending = FALSE /\ at = "loop"
  /\ client_fd = [c \in Clients |-> NoFd] /\ client = [c \in Clients |-> "init"]
  /\ table = [f \in Fds |-> "free"] /\ backlog = <<>>

-----------------------------------------------------------------------------
(* The kernel.                                                             *)

Free == {f \in Fds : table[f] = "free"}

\* close(2) on each of the descriptors fs.
CloseAll(fs) == [f \in Fds |-> IF f \in fs THEN "free" ELSE table[f]]

Established == ToSet(backlog) \cup {table[f] : f \in Fds}

\* A peer connects; once its connection is gone it may connect again.
Arrive(k) ==
  /\ listening /\ fd # NoFd /\ k \notin Established
  /\ backlog' = Append(backlog, k)
  /\ UNCHANGED <<server, io, at, users, table>>

-----------------------------------------------------------------------------
(* The loop.                                                               *)

\* poll(2) finds a connection to accept.
Poll ==
  /\ at = "loop" /\ watching /\ ~pending /\ backlog # <<>>
  /\ pending' = TRUE
  /\ UNCHANGED <<server, watching, at, users, kernel>>

\* The handler starts: with a connection parked it only stops the watcher.
uv__server_io ==
  /\ kind = "tcp" /\ at = "loop" /\ pending
  /\ pending' = FALSE
  /\ \/ accepted_fd # NoFd /\ watching' = FALSE /\ UNCHANGED at
     \/ accepted_fd = NoFd /\ at' = "accept" /\ UNCHANGED watching
  /\ UNCHANGED <<server, users, kernel>>

\* uv__pipe_accept has no such check: it relies on the watcher being stopped.
uv__pipe_accept ==
  /\ kind = "pipe" /\ at = "loop" /\ pending
  /\ pending' = FALSE /\ at' = "accept"
  /\ UNCHANGED <<server, watching, users, kernel>>

\* accept(2) gives the oldest connection a free descriptor.
AcceptOk ==
  /\ at = "accept" /\ fd # NoFd /\ backlog # <<>>
  /\ \E f \in Free :
       table' = [table EXCEPT ![f] = Head(backlog)] /\ accepted_fd' = f
  /\ backlog' = Tail(backlog) /\ at' = "connection_cb"
  /\ UNCHANGED <<kind, fd, delayed_error, listening, closing, io, users>>

\* EMFILE; or EAGAIN, or the server was closed by the callback.  The last two
\* only uv__server_io expects: uv__pipe_accept asserts that neither happens.
AcceptStops ==
  /\ at = "accept" /\ at' = "loop"
  /\ \/ fd # NoFd /\ Free = {}
     \/ kind = "tcp" /\ (fd = NoFd \/ backlog = <<>>)
  /\ UNCHANGED <<server, io, users, kernel>>

\* Another error: the connection aborted before it was accepted, or the
\* system is out of descriptors.  Only uv__server_io reports it.
AcceptFails ==
  /\ at = "accept" /\ fd # NoFd /\ backlog # <<>>
  /\ \/ "ECONNABORTED" \in AcceptErrors /\ backlog' = Tail(backlog)
     \/ "ENFILE" \in AcceptErrors /\ UNCHANGED backlog
  /\ at' = IF kind = "tcp" THEN "connection_error_cb" ELSE "loop"
  /\ UNCHANGED <<server, io, users, table>>

\* ev_io_stop on the read watcher, which also takes its event back.
LeaveWatching == UNCHANGED io
StopWatching == watching' = FALSE /\ pending' = FALSE

\* connection_cb returns: a connection the program did not take stops the
\* watcher; otherwise uv__server_io accepts the next, uv__pipe_accept is done.
Return ==
  /\ \/ /\ at = "connection_cb" /\ accepted_fd # NoFd
        /\ StopWatching /\ at' = "loop"
     \/ /\ at \in Callback /\ (at = "connection_cb" => accepted_fd = NoFd)
        /\ at' = IF kind = "tcp" THEN "accept" ELSE "loop"
        /\ UNCHANGED io
  /\ UNCHANGED <<server, users, kernel>>

-----------------------------------------------------------------------------
(* The program.                                                            *)

UserMayCall == at \in {"loop"} \cup Callback

\* The socket of the server, opened unless it is open already.
Opened ==
  \/ fd # NoFd /\ UNCHANGED <<fd, table>>
  \/ fd = NoFd /\ \E f \in Free :
       fd' = f /\ table' = [table EXCEPT ![f] = "listener"]

\* uv__bind: an address in use is reported by uv_listen, and a second bind
\* may replace it.  A pipe is bound once.
uv__bind ==
  /\ UserMayCall /\ ~closing /\ ~listening /\ Opened
  /\ \/ kind = "tcp" /\ delayed_error' \in BOOLEAN
     \/ kind = "pipe" /\ fd = NoFd /\ UNCHANGED delayed_error
  /\ UNCHANGED <<kind, accepted_fd, listening, closing, io, at, users, backlog>>

\* uv_tcp_listen, which opens a socket if uv__bind did not; uv_pipe_listen.
MayListen ==
  /\ UserMayCall /\ ~closing /\ ~listening /\ ~delayed_error
  /\ kind = "pipe" => fd # NoFd

uv_listen ==
  /\ MayListen /\ Opened
  /\ listening' = TRUE /\ watching' = TRUE
  /\ UNCHANGED <<kind, accepted_fd, delayed_error, closing, pending, at, users, backlog>>

\* listen(2) fails: the socket stays open.
uv_listen_error ==
  /\ MayListen /\ Opened
  /\ UNCHANGED <<kind, accepted_fd, delayed_error, listening, closing, io, at, users, backlog>>

\* uv_accept when a connection is parked and uv__stream_open succeeds.
AcceptWithoutStart(c) ==
  /\ UserMayCall /\ client[c] = "init" /\ accepted_fd # NoFd
  /\ client_fd' = [client_fd EXCEPT ![c] = accepted_fd]
  /\ client' = [client EXCEPT ![c] = "open"]
  /\ accepted_fd' = NoFd
  /\ UNCHANGED <<kind, fd, delayed_error, listening, closing, io, at, kernel, dropped>>

uv_accept(c) ==
  /\ UserMayCall /\ client[c] = "init" /\ accepted_fd # NoFd
  /\ client_fd' = [client_fd EXCEPT ![c] = accepted_fd]
  /\ client' = [client EXCEPT ![c] = "open"]
  /\ watching' = TRUE /\ accepted_fd' = NoFd
  /\ UNCHANGED <<kind, fd, delayed_error, listening, closing, pending, at, kernel, dropped>>

\* uv_accept when uv__stream_open fails, after it set client->fd: the
\* connection is closed and the watcher is left as it is.
uv_accept_error(c) ==
  /\ OpenMayFail /\ kind = "tcp"
  /\ UserMayCall /\ client[c] = "init" /\ accepted_fd # NoFd
  /\ client_fd' = [client_fd EXCEPT ![c] = accepted_fd]
  /\ client' = [client EXCEPT ![c] = "failed"]
  /\ table' = CloseAll({accepted_fd}) /\ accepted_fd' = NoFd /\ dropped' = TRUE
  /\ UNCHANGED <<kind, fd, delayed_error, listening, closing, io, at, backlog>>

\* uv_close on a client handle closes client->fd at once.
CloseClientKeepsFd(c) ==
  /\ UserMayCall /\ client[c] # "closed"
  /\ client' = [client EXCEPT ![c] = "closed"]
  /\ table' = CloseAll({client_fd[c]})
  /\ UNCHANGED <<server, io, at, client_fd, backlog, dropped>>

uv_close_client(c) ==
  /\ UserMayCall /\ client[c] # "closed"
  /\ client' = [client EXCEPT ![c] = "closed"]
  /\ client_fd' = [client_fd EXCEPT ![c] = NoFd]
  /\ table' = CloseAll({client_fd[c]})
  /\ UNCHANGED <<server, io, at, backlog, dropped>>

\* uv_tcp_init or uv_pipe_init, once the handle was closed.
uv__stream_init(c) ==
  /\ UserMayCall /\ client[c] = "closed"
  /\ client' = [client EXCEPT ![c] = "init"]
  /\ UNCHANGED <<server, io, at, client_fd, kernel, dropped>>

\* uv_close on the server; the kernel resets what was in its queue.
uv_close ==
  /\ UserMayCall /\ ~closing
  /\ closing' = TRUE /\ StopWatching
  /\ table' = CloseAll({fd, accepted_fd}) /\ backlog' = <<>>
  /\ fd' = NoFd /\ accepted_fd' = NoFd
  /\ UNCHANGED <<kind, delayed_error, listening, at, users>>

-----------------------------------------------------------------------------
Loop ==
  \/ Poll \/ uv__server_io \/ uv__pipe_accept
  \/ AcceptOk \/ AcceptStops \/ AcceptFails

User ==
  \/ Return \/ uv__bind \/ uv_listen \/ uv_listen_error \/ uv_close
  \/ \E c \in Clients : \/ uv_accept(c) \/ uv_accept_error(c)
                         \/ uv_close_client(c) \/ uv__stream_init(c)

Next == Loop \/ User \/ \E k \in Conns : Arrive(k)

Spec == Init /\ [][Next]_vars

(* The loop runs and callbacks return; the system does not stay out of     *)
(* descriptors; the program, which is given control again and again, takes *)
(* what is parked, and closes and reuses its client handles.               *)
Fairness ==
  /\ WF_vars(Loop) /\ WF_vars(Return) /\ SF_vars(AcceptOk)
  /\ SF_vars(\E c \in Clients : uv_accept(c))
  /\ \A c \in Clients :
       /\ SF_vars(client[c] = "open" /\ uv_close_client(c))
       /\ SF_vars(uv__stream_init(c))

FairSpec == Spec /\ Fairness

=============================================================================
