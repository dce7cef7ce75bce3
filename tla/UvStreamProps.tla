--------------------------- MODULE UvStreamProps ---------------------------
(***************************************************************************)
(* What a program that uses a stream relies on, stated of UvStream.        *)
(***************************************************************************)
EXTENDS UvStream

Closing == "CLOSING" \in flags
Closed  == "CLOSED" \in flags /\ at \notin {"uv__stream_destroy", "destroy_cb"}
Queued  == ToSet(write_queue) \cup ToSet(write_completed_queue)

\* The callback of some request starts in this step.
Answers(r) == at' \in Callback /\ at' # at /\ running' = r

-----------------------------------------------------------------------------

(* No byte is lost count of: write_queue_size, which programs read for     *)
(* back-pressure, is what the queued requests still have to write, until   *)
(* uv__stream_destroy; and a write that is reported successful was handed  *)
(* to the kernel to its last byte.                                         *)
BytesAccounted ==
  /\ "CLOSED" \notin flags =>
       write_queue_size = SumFunctionOnSet(left, ToSet(write_queue))
  /\ \A r \in WReqs : status[r] = "ok" => left[r] = 0 /\ ~error[r]

(* No lost wakeup on the write side: while the stream is open, whatever    *)
(* waits for the write watcher (a queued write, a finished one whose       *)
(* callback is due, a shutdown, a connect) finds it active, or its event   *)
(* pending, or the code that will look at it running.                      *)
WriteWakeup ==
  ~Closing =>
    /\ write_queue # <<>> => write_watcher \/ IsPending("write")
    /\ write_completed_queue # <<>> =>
         \/ write_watcher \/ IsPending("write")
         \/ at \in {"uv__write_callbacks", "write_cb"}
    /\ shutdown_req # NoReq /\ status[shutdown_req] = "active" =>
         write_watcher
    /\ connect_req # NoReq => write_watcher \/ IsPending("write")

(* The assertions of the C code: after the read error (stream.c:579), on   *)
(* entry of uv__stream_io and uv__read (688, 694, 524), in uv__drain       *)
(* (276, 277) and in uv__finish_close (core.c:246-248).  With the types of *)
(* the variables, and so no request with less than no byte left to write.  *)
AssertsHold ==
  /\ TypeOK
  /\ at # "abort"
  /\ Invokes("read") \/ Invokes("write") => ~Closing /\ fd # NoFd
  /\ at = "uv__read" /\ read_cb => fd # NoFd
  /\ at = "uv__write_callbacks" /\ Queued = {} => write_queue_size = 0
  /\ at = "uv__stream_destroy" => ~read_watcher /\ ~write_watcher /\ fd = NoFd

(* shutdown_cb and connect_cb run once, for a request the code accepted;   *)
(* and shutdown(2) happens after every write accepted before it was called *)
(* back: "It waits for pending write requests to complete".                *)
ShutdownWaits ==
  [][\A r \in Reqs \ WReqs : Answers(r) =>
       /\ status[r] = "active"
       /\ at' = "shutdown_cb" => \A w \in WReqs : status[w] # "active"]_vars

\* The callback of some request, read_cb or close_cb starts in this step.
Starts == at' \in Callback /\ at' # at

(* No lost wakeup on the read side: after uv_read_start the read watcher   *)
(* stays active until uv_read_stop, uv_close or the end of the data.       *)
ReadWakeup == read_cb /\ ~eof => read_watcher

(* Once the program was told of the end of the data, read_cb stays away    *)
(* until it calls uv_read_start again.                                     *)
NothingAfterEof ==
  [][eof /\ Starts => at' \notin {"read_cb", "read_cb_full", "read_error_cb"}]_vars

(* After uv_close only writes are still called back, and close_cb comes;   *)
(* after close_cb nothing does.                                            *)
QuietAfterClose ==
  [][Closing /\ Starts => at' \in {"write_cb", "destroy_cb", "close_cb"} /\ ~Closed]_vars

-----------------------------------------------------------------------------
(* Liveness, under the fairness of UvStream.                               *)

(* Every accepted write is called back, however its errors, the shutdown   *)
(* and the closing of the stream fall, and every accepted shutdown, unless *)
(* the program closes first; and uv_close always leads to close_cb.        *)
Answered ==
  /\ \A r \in WReqs : status[r] = "active" ~> status[r] # "active"
  /\ \A s \in SReqs : status[s] = "active" ~> status[s] # "active" \/ Closing
  /\ Closing ~> Closed

-----------------------------------------------------------------------------
(* UvStream implements StreamContract.  A request is outstanding while it  *)
(* is in either queue, the completed ones being the older; the stream is   *)
(* closed for the program when close_cb starts.                            *)

Contract == INSTANCE StreamContract WITH
  outstanding <- write_completed_queue \o write_queue,
  status <- [r \in WReqs |-> status[r]],
  stream <- IF ~Closing THEN "open" ELSE IF Closed THEN "closed" ELSE "closing"

\* The safety part: order, once each, nothing after close_cb.
ImplementsContract == Contract!Spec

-----------------------------------------------------------------------------
(* The strengthening that makes WriteWakeup inductive when connect(2) only *)
(* gives the answers uv__connect expects.                                  *)

\* The socket and the file descriptor come and go together.
FdMatchesSocket == ~Closing => (fd = NoFd <=> conn = "none")

\* Nothing can have happened to a stream that has no socket yet.
QuietBeforeSocket ==
  ~Closing /\ fd = NoFd =>
    /\ at = "loop" /\ ~read_watcher /\ ~write_watcher
    /\ ~IsPending("read") /\ ~IsPending("write")

\* uv__drain, which stops the write watcher, never runs while connecting.
ConnectWatched ==
  ~Closing /\ connect_req # NoReq =>
    write_watcher /\ at \notin {"uv__write_callbacks", "write_cb"}

\* What shutdown_req means to uv__drain.
ShutdownFlags ==
  /\ shutdown_req # NoReq => "SHUTTING" \in flags
  /\ "SHUT" \in flags /\ shutdown_req # NoReq => status[shutdown_req] # "active"

NextMeansClosing == IsPending("next") => Closing

WakeupInv ==
  /\ WriteWakeup /\ FdMatchesSocket /\ QuietBeforeSocket /\ ConnectWatched
  /\ ShutdownFlags /\ NextMeansClosing

(* What the proof that UvStream implements StreamContract rests on: a      *)
(* socket means uv_close was not called, uv__next is scheduled at most     *)
(* once and runs once, and when close_cb starts both queues are empty.     *)
CloseInv ==
  /\ fd # NoFd => ~Closing
  /\ "CLOSED" \in flags => Closing
  /\ IsPending("next") => Closing /\ "CLOSED" \notin flags
  /\ \A i, j \in DOMAIN pendings :
       pendings[i] = "next" /\ pendings[j] = "next" => i = j
  /\ at \in {"uv__stream_destroy", "destroy_cb", "close_cb"} => "CLOSED" \in flags
  /\ Closed => write_queue = <<>> /\ write_completed_queue = <<>>

(* The strengthening that makes BytesAccounted inductive.                  *)

\* A request is in one place, once.
QueuesApart ==
  /\ IsInjective(write_queue) /\ IsInjective(write_completed_queue)
  /\ ToSet(write_queue) \cap ToSet(write_completed_queue) = {}

\* The program waits for the requests in the two queues and no other write.
QueuedIsActive == \A r \in WReqs : r \in Queued <=> status[r] = "active"

\* A request is finished because nothing of it is left, or because it failed.
FinishedForAReason ==
  \A r \in ToSet(write_completed_queue) : error[r] \/ left[r] = 0

AccountInv ==
  QueuesApart /\ QueuedIsActive /\ FinishedForAReason /\ BytesAccounted

(* With CloseInv and AccountInv, what AssertsHold rests on: uv_close leaves *)
(* nothing that could run, only an open stream has a read_cb, and once     *)
(* uv__finish_close ran no handler but the destruction does.               *)
AssertInv ==
  /\ QuietBeforeSocket
  /\ Closing => /\ fd = NoFd /\ ~read_cb /\ ~read_watcher /\ ~write_watcher
                /\ ~IsPending("read") /\ ~IsPending("write")
  /\ read_cb => fd # NoFd
  /\ "CLOSED" \in flags =>
       at \in {"loop", "uv__stream_destroy", "destroy_cb", "close_cb"}
  /\ at # "abort"

(* What ShutdownWaits rests on: the requests whose callback is to come are *)
(* the program's to wait for, and a shutdown due is one nobody answered,   *)
(* or one whose failure is being reported.                                 *)
ShutdownInv ==
  /\ connect_req # NoReq => status[connect_req] = "active"
  /\ at \notin Callback => running = NoReq
  /\ ShutdownDue =>
       \/ shutdown_req # NoReq /\ status[shutdown_req] = "active"
       \/ at = "shutdown_cb" /\ running # NoReq /\ status[running] = "error"

(* What NothingAfterEof rests on.  Only a socket that is or was connected  *)
(* has data, and a handle with such a socket takes no connect request, so  *)
(* uv__stream_connect does not start the watcher that the end of the data  *)
(* stopped.                                                                *)
Wired == conn \in {"established", "reset", "closed"}

EofInv ==
  /\ ReadWakeup
  /\ rx > 0 => Wired
  /\ at = "read_cb_full" => Wired
  /\ at \in {"uv__read", "read_cb_full"} => connect_req = NoReq
  /\ eof => /\ Wired /\ connect_req = NoReq
            /\ ~read_watcher /\ ~IsPending("read")
            /\ at \notin {"uv__read", "read_cb_full"}

=============================================================================
