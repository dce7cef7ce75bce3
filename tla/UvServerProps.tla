--------------------------- MODULE UvServerProps ---------------------------
(***************************************************************************)
(* What a program that listens relies on, stated of UvServer.              *)
(***************************************************************************)
EXTENDS UvServer

Parked == accepted_fd # NoFd

-----------------------------------------------------------------------------

(* No lost wakeup: an open listening server watches for connections, or    *)
(* has one parked for the program, as long as no uv_accept failed.         *)
AcceptWakeup == ~dropped /\ listening /\ ~closing => watching \/ Parked

(* Back-pressure: control never goes back to the loop with a connection    *)
(* parked and the watcher active, which would spin on a ready listener.    *)
ParkedStopsWatching == Parked /\ at = "loop" => ~watching /\ ~pending

(* The assertions of uv__server_io (stream.c:165, 177), uv__accept         *)
(* (core.c:711) and uv__pipe_accept (pipe.c:258): the handler never runs   *)
(* for a closed server, accept(2) is never called while a connection is    *)
(* parked, and on a pipe always finds a connection.  With the types.       *)
ServerAsserts ==
  /\ TypeOK
  /\ at = "loop" /\ pending => ~closing /\ fd # NoFd
  /\ at = "accept" => accepted_fd = NoFd
  /\ at = "accept" /\ kind = "pipe" => fd # NoFd /\ backlog # <<>>

(* Descriptors: those of the server, of the parked connection and of the   *)
(* clients are different, and each is the kind of socket it should be, so  *)
(* no uv_close closes the descriptor of another handle.                    *)
DescriptorsOwned == ~dropped =>
  /\ fd # NoFd => table[fd] = "listener"
  /\ Parked => table[accepted_fd] \in Conns
  /\ \A c \in Clients : client_fd[c] # NoFd =>
       /\ table[client_fd[c]] \in Conns /\ client_fd[c] # accepted_fd
       /\ \A d \in Clients \ {c} : client_fd[d] # client_fd[c]

(* No connection stays open that neither the server nor a client holds:    *)
(* none is overwritten in accepted_fd, and uv_close and a failing          *)
(* uv_accept close what they drop.                                         *)
NoDescriptorLeak ==
  \A f \in Fds : table[f] # "free" =>
    f \in {fd, accepted_fd} \cup {client_fd[c] : c \in Clients}

(* Every open descriptor has one holder: the first part until a uv_accept  *)
(* fails, the second even then.                                            *)
DescriptorsExact == DescriptorsOwned /\ NoDescriptorLeak

(* The strengthening that makes the properties above inductive: who may be *)
(* parked when, when the watcher may be active, and that the connection of *)
(* a pending event is still there.                                         *)
ServerInv ==
  /\ AcceptWakeup /\ DescriptorsOwned /\ NoDescriptorLeak
  /\ watching \/ Parked => listening /\ ~closing
  /\ listening /\ ~closing => fd # NoFd
  /\ closing => fd = NoFd
  /\ at # "loop" => listening
  /\ pending => watching /\ at = "loop" /\ backlog # <<>>
  /\ at = "accept" /\ kind = "pipe" => ~closing /\ backlog # <<>>
  /\ Parked /\ watching => at = "connection_cb"
  /\ at \in {"accept", "connection_error_cb"} => ~Parked
  /\ \A c \in Clients : client[c] \in {"init", "closed"} => client_fd[c] = NoFd

-----------------------------------------------------------------------------

(* Every connection is accepted, or aborts, or the server closes: parking  *)
(* one, running out of descriptors and a failing accept(2) only delay it.  *)
(* A failing uv_accept may end it.                                         *)
EachAccepted ==
  \A k \in Conns : k \in ToSet(backlog) ~> k \notin ToSet(backlog) \/ dropped

=============================================================================
