----------------------------- MODULE UvUdpProps -----------------------------
(***************************************************************************)
(* What a program that uses datagrams relies on, stated of UvUdp.          *)
(***************************************************************************)
EXTENDS UvUdp

-----------------------------------------------------------------------------

Sending == at \in {"uv__udp_run_pending", "uv__udp_run_completed", "send_cb"}

(* The watchers say what there is to do, no less and no more.  A request   *)
(* to send is watched for, or its lost wakeup would leave it queued for    *)
(* ever; nothing else is, or an idle socket, always writable, would keep   *)
(* the loop spinning.  With it the assertions hold, of uv__udp_recvmsg and *)
(* uv__udp_sendmsg on entry (udp.c:202, 252), of uv__udp_io (281) and of   *)
(* uv__finish_close (core.c:264-266).                                      *)
WatchersMatch ==
  /\ ~closing =>
       /\ read_watcher <=> recv_cb
       /\ write_queue # <<>> => write_watcher
       /\ write_watcher /\ ~Sending => write_queue # <<>>
       /\ write_completed_queue # <<>> => Sending
  /\ read_watcher \/ write_watcher => bound
  /\ "read" \in pending => read_watcher
  /\ "write" \in pending => write_watcher
  /\ "next" \in pending => closing /\ ~closed /\ ~bound

\* With the types of the variables.
WatchersExact == TypeOK /\ WatchersMatch

(* No recv_cb after uv_udp_recv_stop or uv_close, not even when they are   *)
(* called from recv_cb inside the loop of uv__udp_recvmsg.                 *)
RecvStops ==
  [][at' \in RecvCallback /\ at \notin RecvCallback => recv_cb /\ bound]_vars

\* The requests whose callback has not begun, oldest first.
Outstanding == write_completed_queue \o write_queue

(* UvUdp implements DatagramContract.                                      *)
Contract == INSTANCE DatagramContract WITH
  NoAnswer    <- <<>>,
  outstanding <- Outstanding,
  result <- [r \in Reqs |-> IF r \notin ToSet(write_completed_queue) THEN "none"
                            ELSE IF sent[r] THEN "ok" ELSE "error"],
  answer <- IF running = NoReq THEN <<>> ELSE <<running, status>>,
  socket <- IF ~closing THEN "open"
            ELSE IF closed /\ at \in {"close_cb", "loop"} THEN "closed" ELSE "closing"

(* In the order of submission, once each, and nothing after close_cb.      *)
ImplementsContract == Contract!Spec

-----------------------------------------------------------------------------

(* Every request is called back and uv_close leads to close_cb, if peers   *)
(* do not send faster than recv_cb returns for ever: the loop in           *)
(* uv__udp_recvmsg has no limit.                                           *)
Answered ==
  []<>(at = "loop") =>
    /\ \A r \in Reqs : r \in Queued ~> r \notin Queued
    /\ closing ~> closed /\ at \in {"close_cb", "loop"}

-----------------------------------------------------------------------------
(* The strengthening that makes WatchersMatch inductive, and what the      *)
(* proof that UvUdp implements DatagramContract rests on: where control    *)
(* may be in a socket that is open, closing or closed, and that no request *)
(* is queued twice.                                                        *)

CloseInv ==
  /\ closed => closing
  /\ closing => ~bound
  /\ at \in {"uv__udp_destroy", "destroy_cb", "close_cb"} =>
       closed /\ write_completed_queue = <<>>
  /\ at \in {"uv__udp_recvmsg", "uv__udp_run_pending"} => bound
  /\ at \in RecvCallback => ~closed
  /\ at = "uv__udp_recvmsg" => recv_cb

AnswerInv ==
  /\ at \notin {"send_cb", "destroy_cb"} => running = NoReq
  /\ \A i, j \in DOMAIN Outstanding : Outstanding[i] = Outstanding[j] => i = j

UdpInv == WatchersMatch /\ CloseInv /\ AnswerInv

=============================================================================
