--------------------------- MODULE AresChannelProps ---------------------------
(* What is checked of AresChannel.                                         *)
EXTENDS AresChannel

\* The queries that a task is about, and those that one moves from server s.
Running == {q \in Queries :
  {<<"send", q>>, <<"next", q>>, <<"callback", q>>, <<"end", q, "success">>, <<"end", q, "failed">>}
  \cap ToSet(todo) # {}}
Moving(s) == {q \in Queries : \E Q \in SUBSET Queries : <<"move", s, Q>> \in ToSet(todo) /\ q \in Q}

\* A query that no running code has in hand is in the list of its server, and
\* in no other; that server has it, or has it queued, on a socket that is open.
Waits(q) ==
  LET s == query[q].server IN
  /\ {x \in Servers : q \in server[x].queries} = {s}
  /\ IF query[q].using_tcp
     THEN /\ server[s].tcp /\ s \in query[q].over
          /\ q \in heard[s].tcp \cup ToSet(server[s].queue)
     ELSE server[s].udp /\ q \in heard[s].udp

\* ares_process.c: every query is filed where an error of its server finds it
\* (the assertions of handle_error), is never put twice on one connection, and
\* leaves nothing behind when it is over; cares.c: the sockets, the handles of the
\* loop, the watchers for writing and the timer agree.
QueriesFiled ==
  /\ AresTypeOK
  /\ \A q \in Active :
       q \notin Running \cup UNION {Moving(s) : s \in Servers} => Waits(q)
  /\ \A s \in Servers :
       /\ \A q \in Moving(s) : query[q].server = s /\ q \in Active
       /\ server[s].queries \cup {q \in Queries : q \in ToSet(server[s].queue)} \subseteq AllQueries
       /\ \A i, j \in DOMAIN server[s].queue :
            server[s].queue[i] \in Queries /\ server[s].queue[i] = server[s].queue[j] => i = j
       /\ ToSet(server[s].queue) \cap heard[s].tcp = {}
       /\ server[s].broken \/ server[s].queue # <<>> => server[s].tcp
  /\ due \subseteq AllQueries
  /\ handles = {h \in Sockets : server[h[2]][h[1]]}
  /\ timer <=> handles # {}
  /\ writing = {s \in Servers : server[s].queue # <<>>}

\* The tasks of the stack, and what may lie below a task of each kind: a callback
\* below what it asked, and at the bottom what processfds has still to do.
Tasks ==
  ({"send", "next", "callback"} \X Queries) \cup ({"end"} \X Queries \X {"success", "failed"})
  \cup ({"answer"} \X Servers \X Queries \X {"ok", "refused", "truncated"} \X BOOLEAN)
  \cup ({"recv", "move"} \X Servers \X SUBSET Queries) \cup ({"error", "broken"} \X Servers)
  \cup {<<"timeouts">>}

MayLieBelow(low, high) ==
  \/ low \in {"timeouts", "broken"} /\ high \notin {"timeouts", "broken"}
  \/ low = "broken" /\ high = "timeouts"
  \/ low \in {"callback", "recv", "move"} /\ high \in {"send", "next", "end", "callback"}
  \/ low = "recv" /\ high = "answer"

Stacked(tasks) ==
  /\ tasks \in Seq(Tasks)
  /\ \A i, j \in DOMAIN tasks : i < j => MayLieBelow(tasks[j][1], tasks[i][1])

\* What is known of a query: when it is in hand it is active, and has attempts left
\* unless it is to fail; it is not sent twice on one connection; else it waits.
QueryInv(q) ==
  /\ {<<"send", q>>, <<"next", q>>, <<"end", q, "success">>} \cap ToSet(todo) # {} =>
       query[q].phase = "active" /\ <<"end", q, "failed">> \notin ToSet(todo)
  /\ <<"end", q, "failed">> \in ToSet(todo) =>
       query[q].phase = "active" /\ query[q].try_count = Attempts
  /\ <<"callback", q>> \in ToSet(todo) => query[q].phase \notin {"idle", "active"}
  /\ query[q].phase = "active" /\ <<"end", q, "failed">> \notin ToSet(todo) =>
       query[q].try_count < Attempts
  /\ <<"send", q>> \in ToSet(todo) /\ query[q].using_tcp => query[q].server \notin query[q].over
  /\ query[q].phase = "idle" => query[q] = NewQuery
  /\ ~query[q].using_tcp => query[q].over = {}
  /\ \A s \in Servers : q \in Moving(s) =>
       query[q].server = s /\ query[q].phase = "active" /\ q \notin Running
  /\ query[q].phase = "active" /\ q \notin Running /\ (\A s \in Servers : q \notin Moving(s)) => Waits(q)
  /\ q \in due => q \in AllQueries

\* What is known of a server and its connection.
ServerInv(s) ==
  /\ server[s].queries \subseteq AllQueries
  /\ \A q \in Queries :
       /\ q \in ToSet(server[s].queue) => query[q].phase = "active" /\ q \notin heard[s].tcp
       /\ q \in heard[s].tcp => query[q].phase # "idle"
       /\ query[q].phase = "active" /\ q \in heard[s].tcp \cup ToSet(server[s].queue) => s \in query[q].over
  /\ \A i, j \in DOMAIN server[s].queue :
       server[s].queue[i] \in Queries /\ server[s].queue[i] = server[s].queue[j] => i = j
  /\ server[s].broken \/ server[s].queue # <<>> \/ heard[s].tcp # {} => server[s].tcp
  /\ <<"udp", s>> \in handles <=> server[s].udp
  /\ <<"tcp", s>> \in handles <=> server[s].tcp
  /\ s \in writing <=> server[s].queue # <<>>

\* The strengthening that makes QueriesFiled inductive.
AresInv ==
  /\ AresTypeOK /\ Stacked(todo)
  /\ \A q \in Queries : QueryInv(q)
  /\ \A s \in Servers : ServerInv(s)
  /\ timer <=> handles # {}
  /\ due # {} => <<"timeouts">> \in ToSet(todo)

Promise ==
  INSTANCE AresContract WITH
    phase <- [q \in Queries |-> query[q].phase], tried <- [q \in Queries |-> query[q].try_count],
    attempts <- Attempts

\* Queries are answered once, fail only when all attempts were made, and none is
\* answered after ares_cancel or uv_ares_destroy.
KeepsPromise == Promise!Spec

\* Every query is answered, whatever the servers, the network and the callbacks do.
Answered == \A q \in Queries : query[q].phase = "active" ~> query[q].phase # "active"
=============================================================================
