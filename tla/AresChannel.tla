----------------------------- MODULE AresChannel -----------------------------
(***************************************************************************)
(* A channel of c-ares (ares_send.c, ares_process.c, ares_cancel.c,        *)
(* ares_destroy.c, ares__close_sockets.c) in a loop of libuv (cares.c):    *)
(* queries that move from server to server until one answers, over UDP and *)
(* over one TCP connection per server, with the watchers and the timer     *)
(* that bring the loop back to them.                                       *)
(*                                                                         *)
(* The functions call each other and the callbacks of the program, which   *)
(* may ask again: todo is their stack, and each step runs the first task.  *)
(* ares_cancel and ares_destroy are called from the loop only, and the     *)
(* callbacks they make do not ask again.                                   *)
(***************************************************************************)
EXTENDS Naturals, Sequences, FiniteSets, FiniteSetsExt, SequencesExt

CONSTANTS
  Queries, NServers,
  Programs,  \* the queries a program asks, in this order, and the options of its channel
  NoQuery    \* owner of a queued request whose query is over

ASSUME AresAssumption ==
  /\ NServers \in Nat \ {0} /\ NoQuery \notin Queries
  /\ Programs \subseteq
       [asks : Seq(Queries), tries : Nat \ {0}, rotate : BOOLEAN, tcp : SUBSET BOOLEAN,
        answers : SUBSET {"ok", "refused", "truncated"}]

Servers == 0 .. NServers - 1
Sockets  == {"udp", "tcp"} \X Servers

VARIABLES
  query,        \* struct query of each query
  server,       \* struct server_state of each server
  heard,        \* the queries each server received on its present sockets
  handles,      \* uv_ares_handles_ of the loop: sockets that are watched for reading
  writing,      \* servers whose TCP socket is watched for writing too
  timer,        \* is the timer of the loop active?
  due,          \* queries whose timeout is over at the "now" of processfds
  last_server,
  channel,      \* "open", "destroyed"
  program,
  todo

glue == <<handles, writing, timer>>
conf == <<last_server, channel, program>>
ares_vars == <<query, server, heard, glue, due, conf, todo>>

Attempts == NServers * program.tries

Active == {q \in Queries : query[q].phase = "active"}

\* all_queries: a query is freed when its callback has returned.
AllQueries == Active \cup {q \in Queries : <<"callback", q>> \in ToSet(todo)}

AresTypeOK ==
  /\ query \in [Queries -> [phase : {"idle", "active", "success", "failed", "cancelled"},
                            server : Servers, try_count : 0 .. Attempts, skip : SUBSET Servers,
                            over : SUBSET Servers, using_tcp : BOOLEAN]]
  /\ server \in [Servers -> [udp : BOOLEAN, tcp : BOOLEAN, broken : BOOLEAN,
                            queries : SUBSET Queries, queue : Seq(Queries \cup {NoQuery})]]
  /\ heard \in [Servers -> [udp : SUBSET Queries, tcp : SUBSET Queries]]
  /\ handles \subseteq Sockets /\ writing \subseteq Servers /\ timer \in BOOLEAN
  /\ due \subseteq Queries /\ last_server \in Servers /\ channel \in {"open", "destroyed"}
  /\ program \in Programs

NewQuery == [phase |-> "idle", server |-> 0, try_count |-> 0, skip |-> {}, over |-> {},
             using_tcp |-> FALSE]

\* What is left of a query that is over.
Over(q, status) == [NewQuery EXCEPT !.phase = status, !.try_count = query[q].try_count]

AresInit ==
  /\ query = [q \in Queries |-> NewQuery]
  /\ server = [s \in Servers |-> [udp |-> FALSE, tcp |-> FALSE, broken |-> FALSE, queries |-> {},
                                  queue |-> <<>>]]
  /\ heard = [s \in Servers |-> [udp |-> {}, tcp |-> {}]]
  /\ handles = {} /\ writing = {} /\ timer = FALSE
  /\ due = {} /\ last_server = 0 /\ channel = "open" /\ program \in Programs /\ todo = <<>>

-----------------------------------------------------------------------------
(* Sockets and the tasks that follow.                                      *)

Doing(task) == todo # <<>> /\ Head(todo) = task
Then(tasks) == todo' = tasks \o Tail(todo)

\* Mutant: the timer is left to the answers, which reset it.
OpenHandleOnly(socket) == handles' = handles \cup {socket} /\ UNCHANGED timer

\* A new socket is watched for reading, and the first one starts the timer.
OpenHandle(socket) == handles' = handles \cup {socket} /\ timer' = TRUE

\* The sockets of the servers in S are closed, after the changes that made
\* the queries asked and the servers left; the last one stops the timer.
CloseSockets(S, asked, left) ==
  /\ server' = [s \in Servers |->
       IF s \in S THEN [left[s] EXCEPT !.udp = FALSE, !.tcp = FALSE, !.broken = FALSE, !.queue = <<>>]
       ELSE left[s]]
  /\ query' = [q \in Queries |-> [asked[q] EXCEPT !.over = @ \ S]]
  /\ heard' = [s \in Servers |-> IF s \in S THEN [udp |-> {}, tcp |-> {}] ELSE heard[s]]
  /\ handles' = handles \ ({"udp", "tcp"} \X S)
  /\ writing' = writing \ S
  /\ timer' = (timer /\ handles' # {})

\* Mutant: the query stays in the list of the server that had it.
FiledTwice(q, s, servers) == [servers EXCEPT ![s].queries = @ \cup {q}]

\* The query leaves the list of the server that had it for the list of s.
Filed(q, s, servers) ==
  [x \in Servers |-> [servers[x] EXCEPT !.queries = IF x = s THEN @ \cup {q} ELSE @ \ {q}]]

Skipped(q, s) == IF NServers > 1 THEN query[q].skip \cup {s} ELSE query[q].skip

-----------------------------------------------------------------------------
(* Queries.                                                                *)

\* The program asks from the loop or from the callback of a query.
ares_send(q) ==
  /\ channel = "open"
  /\ \E i \in DOMAIN program.asks :
       q = program.asks[i] /\ {j \in DOMAIN program.asks : query[program.asks[j]].phase # "idle"} = 1 .. i - 1
  /\ todo = <<>> \/ \E p \in Queries : Doing(<<"callback", p>>)
  /\ \E tcp \in program.tcp :
       query' = [query EXCEPT ![q].phase = "active", ![q].server = last_server, ![q].using_tcp = tcp]
  /\ last_server' = IF program.rotate THEN (last_server + 1) % NServers ELSE last_server
  /\ todo' = <<<<"send", q>>>> \o todo
  /\ UNCHANGED <<server, heard, glue, due, channel, program>>

SendTcp(q, s) ==
  /\ query[q].using_tcp
  /\ server' = Filed(q, s, [server EXCEPT ![s].tcp = TRUE, ![s].queue = Append(@, q)])
  /\ query' = [p \in Queries |->
       [query[p] EXCEPT !.over = IF p = q THEN @ \cup {s} ELSE IF server[s].tcp THEN @ ELSE @ \ {s}]]
  /\ IF server[s].tcp THEN UNCHANGED <<handles, timer>> ELSE OpenHandle(<<"tcp", s>>)
  /\ writing' = IF server[s].queue = <<>> THEN writing \cup {s} ELSE writing
  /\ UNCHANGED heard

SendUdp(q, s) ==
  /\ ~query[q].using_tcp
  /\ server' = Filed(q, s, [server EXCEPT ![s].udp = TRUE])
  /\ IF server[s].udp THEN UNCHANGED <<handles, timer>> ELSE OpenHandle(<<"udp", s>>)
  /\ heard' = [heard EXCEPT ![s].udp = @ \cup {q}]
  /\ UNCHANGED <<query, writing>>

\* No socket could be opened, or the datagram could not be written to it.
SendFails(q, s) ==
  /\ \/ ~server[s][IF query[q].using_tcp THEN "tcp" ELSE "udp"] /\ UNCHANGED <<server, glue>>
     \/ /\ ~query[q].using_tcp
        /\ server' = [server EXCEPT ![s].udp = TRUE]
        /\ IF server[s].udp THEN UNCHANGED <<handles, timer>> ELSE OpenHandle(<<"udp", s>>)
        /\ UNCHANGED writing
  /\ query' = [query EXCEPT ![q].skip = Skipped(q, s)]
  /\ Then(<<<<"next", q>>>>)
  /\ UNCHANGED <<heard, due>>

ares__send_query(q) ==
  /\ Doing(<<"send", q>>)
  /\ LET s == query[q].server IN
     \/ /\ SendTcp(q, s) \/ SendUdp(q, s)
        /\ due' = due \ {q} /\ Then(<<>>)
     \/ SendFails(q, s)
  /\ UNCHANGED conf

\* Mutant: the attempt is counted after the comparison.
TriesLeftButOne(q) == 1 .. (Attempts - 2 - query[q].try_count)

\* The attempts that are left, as the number of servers to move on by.
TriesLeft(q) == 1 .. (Attempts - 1 - query[q].try_count)

Usable(q, s) ==
  /\ ~server[s].broken /\ s \notin query[q].skip
  /\ ~(query[q].using_tcp /\ s \in query[q].over)

next_server(q) ==
  LET to(n)  == (query[q].server + n) % NServers
      usable == {n \in TriesLeft(q) : Usable(q, to(n))}
  IN /\ Doing(<<"next", q>>)
     /\ IF usable # {}
        THEN /\ query' = [query EXCEPT ![q].server = to(Min(usable)), ![q].try_count = @ + Min(usable)]
             /\ Then(<<<<"send", q>>>>)
        ELSE /\ query' = [query EXCEPT ![q].server = to(Cardinality(TriesLeft(q))),
                                       ![q].try_count = @ + Cardinality(TriesLeft(q)) + 1]
             /\ Then(<<<<"end", q, "failed">>>>)
     /\ UNCHANGED <<server, heard, glue, due, conf>>

\* end_query up to the callback.  What is still queued of the query loses its
\* owner; if the query failed, the connection is marked as broken.
end_query(q, status) ==
  /\ Doing(<<"end", q, status>>)
  /\ query' = [query EXCEPT ![q] = Over(q, status)]
  /\ server' = [s \in Servers |->
       [server[s] EXCEPT !.queue = [i \in DOMAIN @ |-> IF @[i] = q THEN NoQuery ELSE @[i]],
                         !.broken = @ \/ (status # "success" /\ q \in ToSet(server[s].queue))]]
  /\ Then(<<<<"callback", q>>>>)
  /\ UNCHANGED <<heard, glue, due, conf>>

\* The callback returns: the query is freed, and the sockets are closed if it was the last.
Freed(q) ==
  LET left == [s \in Servers |-> [server[s] EXCEPT !.queries = @ \ {q}]]
  IN /\ Doing(<<"callback", q>>)
     /\ due' = due \ {q}
     /\ Then(<<>>)
     /\ CloseSockets(IF AllQueries = {q} THEN Servers ELSE {}, query, left)
     /\ UNCHANGED conf

-----------------------------------------------------------------------------
(* What processfds makes of answers, errors and timeouts.                  *)

\* An answer to a query that is over finds no query.  A truncated datagram
\* makes the query use TCP, once.
process_answer(s, q, answer, tcp) ==
  /\ Doing(<<"answer", s, q, answer, tcp>>)
  /\ \/ q \notin Active /\ Then(<<>>) /\ UNCHANGED query
     \/ /\ q \in Active /\ answer = "truncated" /\ ~tcp
        /\ query' = [query EXCEPT ![q].using_tcp = TRUE]
        /\ Then(IF query[q].using_tcp THEN <<>> ELSE <<<<"send", q>>>>)
     \/ /\ q \in Active /\ answer = "refused"
        /\ query' = [query EXCEPT ![q].skip = Skipped(q, s)]
        /\ Then(IF query[q].server = s THEN <<<<"next", q>>>> ELSE <<>>)
     \/ /\ q \in Active /\ (answer = "ok" \/ (answer = "truncated" /\ tcp))
        /\ Then(<<<<"end", q, "success">>>>) /\ UNCHANGED query
  /\ UNCHANGED <<server, heard, glue, due, conf>>

\* recvfrom until nothing waits: batch is what waits in the socket, which
\* may be closed on the way and then fails.
read_udp_packets(s, batch) ==
  /\ Doing(<<"recv", s, batch>>)
  /\ \/ server[s].udp /\ batch = {} /\ Then(<<>>)
     \/ (~server[s].udp \/ batch = {}) /\ Then(<<<<"error", s>>>>)
     \/ /\ server[s].udp
        /\ \E q \in batch, answer \in program.answers :
             Then(<<<<"answer", s, q, answer, FALSE>>, <<"recv", s, batch \ {q}>>>>)
  /\ UNCHANGED <<query, server, heard, glue, due, conf>>

\* The list of the queries of the server is stolen, then each of them moves on.
handle_error(s) ==
  /\ Doing(<<"error", s>>)
  /\ CloseSockets({s}, query, [server EXCEPT ![s].queries = {}])
  /\ Then(<<<<"move", s, server[s].queries>>>>)
  /\ UNCHANGED <<due, conf>>

MoveOn(s, stolen) ==
  /\ Doing(<<"move", s, stolen>>)
  /\ \/ stolen = {} /\ Then(<<>>) /\ UNCHANGED query
     \/ \E q \in stolen :
          /\ query' = [query EXCEPT ![q].skip = Skipped(q, s)]
          /\ Then(<<<<"next", q>>, <<"move", s, stolen \ {q}>>>>)
  /\ UNCHANGED <<server, heard, glue, due, conf>>

process_timeouts ==
  /\ Doing(<<"timeouts">>)
  /\ \/ due = {} /\ Then(<<>>) /\ UNCHANGED due
     \/ \E q \in due : due' = due \ {q} /\ Then(<<<<"next", q>>, <<"timeouts">>>>)
  /\ UNCHANGED <<query, server, heard, glue, conf>>

process_broken_connections(s) ==
  /\ Doing(<<"broken", s>>)
  /\ Then((IF server[s].broken THEN <<<<"error", s>>>> ELSE <<>>)
          \o (IF s + 1 < NServers THEN <<<<"broken", s + 1>>>> ELSE <<>>))
  /\ UNCHANGED <<query, server, heard, glue, due, conf>>

-----------------------------------------------------------------------------
(* The loop calls ares_process_fd.                                         *)

Processfds(work) ==
  /\ todo = <<>>
  /\ due' \in SUBSET Active
  /\ todo' = work \o <<<<"timeouts">>, <<"broken", 0>>>>
  /\ UNCHANGED <<query, conf>>

\* A server that is marked as broken is passed over.
TcpWritable(s) ==
  /\ s \in writing
  /\ \/ server[s].broken /\ Processfds(<<>>) /\ UNCHANGED <<server, heard, writing>>
     \/ ~server[s].broken /\ Processfds(<<<<"error", s>>>>) /\ UNCHANGED <<server, heard, writing>>
     \/ /\ ~server[s].broken /\ Processfds(<<>>)
        /\ \E n \in 0 .. Len(server[s].queue) :
             /\ server' = [server EXCEPT ![s].queue = SubSeq(@, n + 1, Len(@))]
             /\ heard' = [heard EXCEPT ![s].tcp =
                            @ \cup (ToSet(SubSeq(server[s].queue, 1, n)) \ {NoQuery})]
             /\ writing' = IF n = Len(server[s].queue) THEN writing \ {s} ELSE writing
  /\ UNCHANGED <<handles, timer>>

\* An answer is complete, or the connection is over.
TcpReadable(s) ==
  /\ <<"tcp", s>> \in handles
  /\ \/ server[s].broken /\ Processfds(<<>>)
     \/ ~server[s].broken /\ Processfds(<<<<"error", s>>>>)
     \/ /\ ~server[s].broken
        /\ \E q \in heard[s].tcp, answer \in program.answers \ {"truncated"} :
             Processfds(<<<<"answer", s, q, answer, TRUE>>>>)
  /\ UNCHANGED <<server, heard, glue>>

\* Answers may be late, come again or not at all.
UdpReadable(s) ==
  /\ <<"udp", s>> \in handles
  /\ \E batch \in SUBSET heard[s].udp :
       Processfds(IF server[s].broken THEN <<>> ELSE <<<<"recv", s, batch>>>>)
  /\ UNCHANGED <<server, heard, glue>>

Tick == timer /\ Processfds(<<>>) /\ UNCHANGED <<server, heard, glue>>

\* All callbacks are called and all queries freed; with the channel the timer goes.
GiveUp ==
  /\ channel = "open" /\ todo = <<>>
  /\ CloseSockets(Servers,
       [q \in Queries |-> IF q \in Active THEN Over(q, "cancelled") ELSE query[q]],
       [s \in Servers |-> [server[s] EXCEPT !.queries = {}]])
  /\ UNCHANGED <<due, last_server, program, todo>>

ares_cancel     == GiveUp /\ UNCHANGED channel
uv_ares_destroy == GiveUp /\ channel' = "destroyed"

-----------------------------------------------------------------------------
Run ==
  \/ \E q \in Queries : ares__send_query(q) \/ next_server(q) \/ Freed(q)
  \/ \E q \in Queries, status \in {"success", "failed"} : end_query(q, status)
  \/ \E s \in Servers : handle_error(s) \/ process_broken_connections(s)
  \/ \E s \in Servers, Q \in SUBSET Queries : read_udp_packets(s, Q) \/ MoveOn(s, Q)
  \/ \E s \in Servers, q \in Queries, answer \in {"ok", "refused", "truncated"}, tcp \in BOOLEAN :
       process_answer(s, q, answer, tcp)
  \/ process_timeouts

AresNext ==
  \/ Run \/ Tick \/ ares_cancel \/ uv_ares_destroy
  \/ \E q \in Queries : ares_send(q)
  \/ \E s \in Servers : TcpWritable(s) \/ TcpReadable(s) \/ UdpReadable(s)

AresSpec == AresInit /\ [][AresNext]_ares_vars

\* The code runs on, and while the timer is active it comes at a time when
\* the timeout of a query is over.  A socket that is ready puts the timer off,
\* but uv__ares_io then looks at the timeouts itself, so that a query that is
\* over is found either way.
AresFairness == WF_ares_vars(Run) /\ \A q \in Queries : SF_ares_vars(Tick /\ q \in due')

AresFairSpec == AresSpec /\ AresFairness

=============================================================================
