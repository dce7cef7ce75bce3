----------------------------- MODULE WinContract -----------------------------
(***************************************************************************)
(* What the requests of a uv_tcp_t promise a program on Windows: each one  *)
(* that was accepted is answered once, a shutdown after all writes, none   *)
(* after close_cb, for which uv_close waits.  Unlike StreamContract, it    *)
(* does not say that writes are answered in the order they were made.      *)
(***************************************************************************)
CONSTANTS WReqs, ConnReq, ShutReq

VARIABLES
  outstanding,  \* accepted requests whose callback has not started
  over,         \* requests whose callback has
  stream        \* "open", "closing" (uv_close was called), "closed" (close_cb started)

vars == <<outstanding, over, stream>>
Reqs == WReqs \cup {ConnReq, ShutReq}

Init == outstanding = {} /\ over = {} /\ stream = "open"

\* Writing and shutting down take a connection, and no write comes after a shutdown.
Submit(r) ==
  /\ stream = "open" /\ r \notin outstanding \cup over
  /\ r # ConnReq => ConnReq \in over /\ ShutReq \notin outstanding \cup over
  /\ outstanding' = outstanding \cup {r}
  /\ UNCHANGED <<over, stream>>

Answer(r) ==
  /\ stream # "closed" /\ r \in outstanding
  /\ r = ShutReq => outstanding \cap WReqs = {}
  /\ outstanding' = outstanding \ {r} /\ over' = over \cup {r}
  /\ UNCHANGED stream

Close == stream = "open" /\ stream' = "closing" /\ UNCHANGED <<outstanding, over>>

Finish ==
  /\ stream = "closing" /\ outstanding = {}
  /\ stream' = "closed" /\ UNCHANGED <<outstanding, over>>

Next == Close \/ Finish \/ \E r \in Reqs : Submit(r) \/ Answer(r)

Spec == Init /\ [][Next]_vars
=============================================================================
