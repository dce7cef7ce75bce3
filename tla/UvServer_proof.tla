--------------------------- MODULE UvServer_proof ---------------------------
(***************************************************************************)
(* A listening server loses no wakeup, leaks no descriptor and closes no   *)
(* descriptor of another handle, for every set of connections, clients and *)
(* descriptors and both kinds of server.                                   *)
(***************************************************************************)
EXTENDS UvServerProps, SequenceTheorems, TLAPS

(* Closing the descriptors fs touches no other.                            *)
LEMMA CloseAllFacts ==
  ASSUME TypeOK, NEW fs
  PROVE  /\ CloseAll(fs) \in [Fds -> Conns \cup {"free", "listener"}]
         /\ \A f \in Fds : CloseAll(fs)[f] = IF f \in fs THEN "free" ELSE table[f]
BY DEF CloseAll, TypeOK

(* Types are preserved.                                                    *)
LEMMA ServerType == ASSUME TypeOK, [Next]_vars PROVE TypeOK'
<1> USE DEF TypeOK
<1>1. CASE UNCHANGED vars
  BY <1>1 DEF vars, server, io, users, kernel
<1>2. CASE Poll \/ uv__server_io \/ uv__pipe_accept \/ AcceptStops \/ Return
  BY <1>2 DEF Poll, uv__server_io, uv__pipe_accept, AcceptStops, Return,
     StopWatching, server, io, users, kernel, Callback
<1>3. CASE AcceptOk
  <2>1. Head(backlog) \in Conns /\ Tail(backlog) \in Seq(Conns)
    BY <1>3, HeadTailProperties DEF AcceptOk
  <2> QED
    BY <1>3, <2>1 DEF AcceptOk, Free, io, users, Callback
<1>4. CASE AcceptFails
  <2>1. Tail(backlog) \in Seq(Conns)
    BY <1>4, HeadTailProperties DEF AcceptFails
  <2> QED
    BY <1>4, <2>1 DEF AcceptFails, server, io, users, Callback
<1>5. CASE uv__bind \/ uv_listen \/ uv_listen_error
  BY <1>5 DEF uv__bind, uv_listen, uv_listen_error, MayListen, Opened, Free, io, users
<1>6. CASE uv_close
  <2>1. <<>> \in Seq(Conns)
    BY EmptySeq
  <2> QED
    BY <1>6, <2>1, CloseAllFacts DEF uv_close, StopWatching, users
<1>7. ASSUME NEW c \in Clients, uv_accept(c) PROVE TypeOK'
  BY <1>7 DEF uv_accept, kernel
<1>8. ASSUME NEW c \in Clients, uv_accept_error(c) PROVE TypeOK'
  BY <1>8, CloseAllFacts DEF uv_accept_error, io
<1>9. ASSUME NEW c \in Clients, uv_close_client(c) PROVE TypeOK'
  BY <1>9, CloseAllFacts DEF uv_close_client, server, io
<1>10. ASSUME NEW c \in Clients, uv__stream_init(c) PROVE TypeOK'
  BY <1>10 DEF uv__stream_init, server, io, kernel
<1>11. ASSUME NEW k \in Conns, Arrive(k) PROVE TypeOK'
  BY <1>11, AppendProperties DEF Arrive, server, io, users
<1> QED
  BY <1>1, <1>2, <1>3, <1>4, <1>5, <1>6, <1>7, <1>8, <1>9, <1>10, <1>11
     DEF Next, Loop, User

(* A step that moves no descriptor keeps what is said of descriptors.      *)
LEMMA DescriptorsKept ==
  ASSUME DescriptorsOwned, NoDescriptorLeak,
         UNCHANGED <<fd, accepted_fd, client_fd, table, dropped>>
  PROVE  DescriptorsOwned' /\ NoDescriptorLeak'
BY DEF DescriptorsOwned, NoDescriptorLeak, Parked

(* ServerInv is inductive.                                                 *)
LEMMA ServerStep ==
  ASSUME TypeOK, ServerInv, [Next]_vars, ServerAssumption
  PROVE  ServerInv'
<1> USE DEF ServerInv, AcceptWakeup, Parked
<1> USE ServerAssumption
<1>1. CASE UNCHANGED vars
  BY <1>1, DescriptorsKept DEF vars, server, io, users, kernel
<1>2. CASE Poll \/ uv__server_io \/ uv__pipe_accept \/ AcceptStops \/ AcceptFails \/ Return
  <2>1. UNCHANGED <<kind, fd, accepted_fd, client_fd, client, table, listening, closing, dropped>>
    BY <1>2 DEF Poll, uv__server_io, uv__pipe_accept, AcceptStops, AcceptFails, Return,
       server, users, kernel
  <2>2. DescriptorsOwned' /\ NoDescriptorLeak'
    BY <2>1, DescriptorsKept
  <2>3. CASE Poll
    BY <2>1, <2>2, <2>3 DEF Poll, kernel
  <2>4. CASE uv__server_io
    <3>1. pending /\ at = "loop" /\ ~pending' /\ kind = "tcp"
      BY <2>4 DEF uv__server_io
    <3>2. watching /\ accepted_fd = NoFd /\ listening
      BY <3>1
    <3>3. at' = "accept" /\ UNCHANGED watching
      BY <2>4, <3>2 DEF uv__server_io
    <3> QED
      BY <2>1, <2>2, <3>1, <3>2, <3>3
  <2>5. CASE uv__pipe_accept
    BY <2>1, <2>2, <2>5 DEF uv__pipe_accept, kernel
  <2>6. CASE AcceptStops \/ AcceptFails
    BY <2>1, <2>2, <2>6 DEF AcceptStops, AcceptFails, io
  <2>7. CASE Return
    BY <2>1, <2>2, <2>7 DEF Return, StopWatching, io, Callback
  <2> QED
    BY <1>2, <2>3, <2>4, <2>5, <2>6, <2>7
<1>3. CASE AcceptOk
  <2>1. PICK f \in Free :
          /\ table' = [table EXCEPT ![f] = Head(backlog)] /\ accepted_fd' = f
    BY <1>3 DEF AcceptOk
  <2>2. f \in Fds /\ table[f] = "free" /\ f # NoFd /\ Head(backlog) \in Conns
    BY <1>3, <2>1, HeadTailProperties DEF AcceptOk, Free, TypeOK
  <2>3. /\ table'[f] \in Conns /\ \A g \in Fds \ {f} : table'[g] = table[g]
    BY <2>1, <2>2 DEF TypeOK
  <2>4. /\ UNCHANGED <<kind, fd, client_fd, client, listening, closing, watching, pending, dropped>>
        /\ at = "accept" /\ at' = "connection_cb" /\ fd # NoFd
    BY <1>3 DEF AcceptOk, io, users
  <2>5. DescriptorsOwned'
    BY <2>1, <2>2, <2>3, <2>4 DEF DescriptorsOwned, TypeOK
  <2>6. NoDescriptorLeak'
    BY <2>1, <2>2, <2>3, <2>4 DEF NoDescriptorLeak
  <2>7. listening /\ ~closing
    BY <1>3, <2>2, <2>4 DEF AcceptOk, DescriptorsOwned, TypeOK
  <2> QED
    BY <2>1, <2>2, <2>4, <2>5, <2>6, <2>7
<1>4. CASE uv__bind \/ uv_listen \/ uv_listen_error
  <2>1. /\ UNCHANGED <<kind, accepted_fd, closing, pending, at, client_fd, client, dropped, backlog>>
        /\ ~closing /\ ~listening
        /\ UNCHANGED <<listening, watching>> \/ (listening' /\ watching')
        /\ listening' => fd' # NoFd
    BY <1>4 DEF uv__bind, uv_listen, uv_listen_error, MayListen, Opened, Free, users, io
  <2>2. \/ UNCHANGED <<fd, table>>
        \/ fd = NoFd /\ \E f \in Free : fd' = f /\ table' = [table EXCEPT ![f] = "listener"]
    BY <1>4 DEF uv__bind, uv_listen, uv_listen_error, MayListen, Opened
  <2>3. CASE UNCHANGED <<fd, table>>
    BY <2>1, <2>3, DescriptorsKept
  <2>4. ASSUME fd = NoFd, NEW f \in Free,
               fd' = f, table' = [table EXCEPT ![f] = "listener"]
        PROVE  ServerInv'
    <3>1. /\ f \in Fds /\ table[f] = "free" /\ f # NoFd /\ table'[f] = "listener"
          /\ \A g \in Fds \ {f} : table'[g] = table[g]
      BY <2>4 DEF Free, TypeOK
    <3>2. DescriptorsOwned' /\ NoDescriptorLeak'
      BY <2>1, <2>4, <3>1 DEF DescriptorsOwned, NoDescriptorLeak, TypeOK
    <3> QED
      BY <2>1, <2>4, <3>1, <3>2
  <2> QED
    BY <2>2, <2>3, <2>4
<1>5. CASE uv_close
  <2>1. /\ closing' /\ ~watching' /\ ~pending' /\ fd' = NoFd /\ accepted_fd' = NoFd
        /\ table' = CloseAll({fd, accepted_fd}) /\ at # "accept"
        /\ UNCHANGED <<listening, at, client_fd, client, dropped>>
    BY <1>5 DEF uv_close, StopWatching, UserMayCall, Callback, users
  <2>2. \A g \in Fds : table'[g] = IF g \in {fd, accepted_fd} THEN "free" ELSE table[g]
    BY <2>1, CloseAllFacts
  <2>3. ASSUME NEW c \in Clients, client_fd[c] # NoFd, ~dropped
        PROVE  /\ table'[client_fd[c]] \in Conns
               /\ \A d \in Clients \ {c} : client_fd[d] # client_fd[c]
    <3>1. /\ client_fd[c] \in Fds /\ table[client_fd[c]] \in Conns
          /\ client_fd[c] # accepted_fd
          /\ \A d \in Clients \ {c} : client_fd[d] # client_fd[c]
      BY <2>3 DEF DescriptorsOwned, TypeOK
    <3>2. client_fd[c] # fd
      BY <2>3, <3>1, ServerAssumption DEF DescriptorsOwned
    <3> QED
      BY <2>2, <3>1, <3>2
  <2>4. DescriptorsOwned'
    BY <2>1, <2>3 DEF DescriptorsOwned
  <2>5. ASSUME NEW f \in Fds, table'[f] # "free"
        PROVE  \E c \in Clients : f = client_fd'[c]
    <3>1. f \notin {fd, accepted_fd} /\ table[f] # "free"
      BY <2>2, <2>5
    <3>2. f \in {client_fd[c] : c \in Clients}
      BY <3>1 DEF NoDescriptorLeak
    <3> QED
      BY <2>1, <3>2
  <2>6. NoDescriptorLeak'
    BY <2>5 DEF NoDescriptorLeak
  <2> QED
    BY <2>1, <2>4, <2>6
<1>6. ASSUME NEW c \in Clients, uv_accept(c) PROVE ServerInv'
  <2>1. /\ client[c] = "init" /\ accepted_fd # NoFd /\ accepted_fd' = NoFd /\ watching'
        /\ client_fd' = [client_fd EXCEPT ![c] = accepted_fd]
        /\ client' = [client EXCEPT ![c] = "open"]
        /\ UNCHANGED <<kind, fd, listening, closing, pending, at, table, dropped, backlog>>
    BY <1>6 DEF uv_accept, kernel
  <2>2. DescriptorsOwned'
    BY <2>1 DEF DescriptorsOwned, TypeOK
  <2>3. NoDescriptorLeak'
    BY <2>1 DEF NoDescriptorLeak, TypeOK
  <2> QED
    BY <2>1, <2>2, <2>3 DEF TypeOK
<1>7. ASSUME NEW c \in Clients, uv_accept_error(c) PROVE ServerInv'
  <2>1. /\ accepted_fd # NoFd /\ accepted_fd' = NoFd /\ dropped'
        /\ client_fd' = [client_fd EXCEPT ![c] = accepted_fd]
        /\ client' = [client EXCEPT ![c] = "failed"]
        /\ table' = CloseAll({accepted_fd}) /\ client[c] = "init"
        /\ UNCHANGED <<kind, fd, listening, closing, watching, pending, at, backlog>>
    BY <1>7 DEF uv_accept_error, io
  <2>2. NoDescriptorLeak'
    BY <2>1, CloseAllFacts DEF NoDescriptorLeak, TypeOK
  <2>3. AcceptWakeup' /\ DescriptorsOwned'
    BY <2>1 DEF DescriptorsOwned
  <2> QED
    BY <2>1, <2>2, <2>3 DEF TypeOK
<1>8. ASSUME NEW c \in Clients, uv_close_client(c) PROVE ServerInv'
  <2>1. /\ client' = [client EXCEPT ![c] = "closed"]
        /\ client_fd' = [client_fd EXCEPT ![c] = NoFd]
        /\ table' = CloseAll({client_fd[c]})
        /\ UNCHANGED <<kind, fd, accepted_fd, listening, closing, watching, pending, at, dropped,
                       backlog>>
    BY <1>8 DEF uv_close_client, server, io
  <2>2. \A g \in Fds : table'[g] = IF g = client_fd[c] THEN "free" ELSE table[g]
    BY <2>1, CloseAllFacts
  <2>3. /\ client_fd'[c] = NoFd
        /\ \A d \in Clients \ {c} : client_fd'[d] = client_fd[d]
    BY <2>1 DEF TypeOK
  <2>4. ASSUME ~dropped
        PROVE  /\ fd # NoFd => table'[fd] = "listener"
               /\ Parked => table'[accepted_fd] \in Conns
    <3>1. fd # NoFd => fd \in Fds /\ fd # client_fd[c]
      BY <2>4 DEF TypeOK, DescriptorsOwned
    <3>2. Parked => accepted_fd \in Fds /\ accepted_fd # client_fd[c]
      BY <2>4 DEF TypeOK, DescriptorsOwned
    <3> QED
      BY <2>4, <2>2, <3>1, <3>2 DEF DescriptorsOwned
  <2>5. ASSUME NEW d \in Clients, client_fd'[d] # NoFd, ~dropped
        PROVE  /\ table'[client_fd'[d]] \in Conns /\ client_fd'[d] # accepted_fd
               /\ \A e \in Clients \ {d} : client_fd'[e] # client_fd'[d]
    <3>1. d # c /\ client_fd'[d] = client_fd[d] /\ client_fd[d] \in Fds
      BY <2>3, <2>5 DEF TypeOK
    <3>2. /\ table[client_fd[d]] \in Conns /\ client_fd[d] # accepted_fd
          /\ \A e \in Clients \ {d} : client_fd[e] # client_fd[d]
      BY <2>5, <3>1 DEF DescriptorsOwned
    <3>3. table'[client_fd[d]] = table[client_fd[d]]
      BY <2>2, <3>1, <3>2
    <3> QED
      BY <2>3, <2>5, <3>1, <3>2, <3>3
  <2>6. DescriptorsOwned'
    BY <2>1, <2>4, <2>5 DEF DescriptorsOwned
  <2>7. ASSUME NEW f \in Fds, table'[f] # "free"
        PROVE  f \in {fd, accepted_fd} \cup {client_fd'[d] : d \in Clients}
    <3>1. f # client_fd[c] /\ table[f] # "free"
      BY <2>2, <2>7
    <3>2. CASE f \in {fd, accepted_fd}
      BY <3>2
    <3>3. CASE \E d \in Clients : f = client_fd[d]
      BY <2>3, <3>1, <3>3
    <3> QED
      BY <3>1, <3>2, <3>3 DEF NoDescriptorLeak
  <2>8. NoDescriptorLeak'
    BY <2>1, <2>7 DEF NoDescriptorLeak
  <2> QED
    BY <2>1, <2>3, <2>6, <2>8 DEF TypeOK
<1>9. ASSUME NEW c \in Clients, uv__stream_init(c) PROVE ServerInv'
  <2>1. /\ client[c] = "closed" /\ client' = [client EXCEPT ![c] = "init"]
        /\ UNCHANGED <<server, io, at, client_fd, table, dropped, backlog>>
    BY <1>9 DEF uv__stream_init, kernel
  <2>2. DescriptorsOwned' /\ NoDescriptorLeak'
    BY <2>1, DescriptorsKept DEF server
  <2> QED
    BY <2>1, <2>2 DEF server, io, TypeOK
<1>10. ASSUME NEW k \in Conns, Arrive(k) PROVE ServerInv'
  <2>1. backlog' # <<>>
    BY <1>10, AppendProperties DEF Arrive, TypeOK
  <2> QED
    BY <1>10, <2>1, DescriptorsKept DEF Arrive, server, io, users
<1> QED
  BY <1>1, <1>2, <1>3, <1>4, <1>5, <1>6, <1>7, <1>8, <1>9, <1>10 DEF Next, Loop, User

(* The invariant of every behaviour.                                       *)
LEMMA ServerInvariant == Spec => [](TypeOK /\ ServerInv)
<1>1. Init => TypeOK /\ ServerInv
  <2>1. Init => TypeOK
    <3>1. <<>> \in Seq(Conns)
      BY EmptySeq
    <3> QED
      BY <3>1 DEF Init, TypeOK
  <2>2. Init => ServerInv
    BY ServerAssumption
       DEF Init, ServerInv, AcceptWakeup, DescriptorsOwned, NoDescriptorLeak, Parked
  <2> QED
    BY <2>1, <2>2
<1>2. TypeOK /\ ServerInv /\ [Next]_vars => (TypeOK /\ ServerInv)'
  BY ServerType, ServerStep, ServerAssumption
<1> QED
  BY <1>1, <1>2, PTL DEF Spec

(* An open listening server watches for connections or has one parked, and *)
(* never watches while one is parked.                                      *)
THEOREM ServerLosesNoWakeup == Spec => [](AcceptWakeup /\ ParkedStopsWatching)
<1>1. ServerInv => AcceptWakeup /\ ParkedStopsWatching
  BY DEF ServerInv, ParkedStopsWatching
<1> QED
  BY <1>1, ServerInvariant, PTL

(* The assertions of the accept path hold, and the variables keep types.   *)
THEOREM ServerAssertsHold == Spec => []ServerAsserts
<1>1. TypeOK /\ ServerInv => ServerAsserts
  BY DEF ServerInv, ServerAsserts, Parked
<1> QED
  BY <1>1, ServerInvariant, PTL

(* Every open descriptor belongs to exactly one handle, or is parked, until *)
(* a uv_accept fails; and none leaks even then.                            *)
THEOREM ServerOwnsDescriptors == Spec => []DescriptorsExact
<1>1. ServerInv => DescriptorsExact
  BY DEF ServerInv, DescriptorsExact
<1> QED
  BY <1>1, ServerInvariant, PTL
=============================================================================
