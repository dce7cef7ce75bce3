----------------------------- MODULE WinTcpProps -----------------------------
(* What WinTcp is checked for.                                             *)
EXTENDS WinTcp

Closing == Has("CLOSING")
Closed  == Has("CLOSED")

\* The requests that the loop or the kernel holds.
Held == ToSet(pending_reqs) \cup ToSet(kernel) \cup ToSet(iocp)
\* How many the code is in the middle of: the one whose callback runs.
InProcess == IF at = "reading" \/ at \in Callback \ {"close_cb"} THEN 1 ELSE 0

(* A request is in one place only (a list of the loop that gets a request  *)
(* twice is broken), and reqs_pending, on which the end of the handle      *)
(* hangs, counts what is held, what is processed and the shutdown that is  *)
(* due; so after close_cb, when the program frees the handle, nothing      *)
(* refers to it, and the only sockets left behind are those of connections *)
(* that it had not accepted.                                               *)
ReqsCounted ==
  /\ TypeOK
  /\ IsInjective(pending_reqs \o kernel \o iocp)
  /\ handle.reqs_pending = Cardinality(Held) + InProcess +
       (IF status[ShutReq] = "active" THEN 1 ELSE 0)
  /\ Has("CONNECTION") =>
       handle.write_reqs_pending = Cardinality({r \in WReqs : status[r] = "active"}) +
         (IF at = "write_cb" THEN 1 ELSE 0)
  /\ Closed => handle.reqs_pending = 0 /\ accept.sockets = ToSet(accept.pending)

(* A server that listens has an accept request with the kernel or due, or  *)
(* connections that the program has not accepted; also while it changes    *)
(* from many requests to one.                                              *)
AcceptsOn ==
  Has("LISTENING") =>
    \/ Held \cap AReqs # {} \/ accept.pending # <<>>
    \/ at = "connection_cb"

(* Requests are answered as WinContract says.                              *)
Contract == INSTANCE WinContract WITH
  outstanding <- {r \in UserReqs : status[r] = "active"},
  over <- {r \in UserReqs : status[r] \in {"ok", "error"}},
  stream <- IF ~Closing THEN "open" ELSE IF Closed THEN "closed" ELSE "closing"
ImplementsContract == Contract!Spec

(* Every request that was accepted is answered, if the peer takes what is  *)
(* sent; and uv_close leads to close_cb.                                   *)
CloseAnswered == Closing ~> Closed
Answered ==
  /\ \A r \in UserReqs : status[r] = "active" ~> status[r] # "active"
  /\ CloseAnswered
=============================================================================
