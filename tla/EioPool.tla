------------------------------ MODULE EioPool ------------------------------
(***************************************************************************)
(* The thread pool: requests of uv_queue_work, uv_fs_* and uv_getaddrinfo, *)
(* libeio's workers and queues (eio.c), and the two async handles and the  *)
(* idle handle that bring results back to the loop (uv-eio.c).             *)
(*                                                                         *)
(* Each action of a worker or of the loop is one critical section, or one  *)
(* read of a counter that another thread writes.  A notifier is an async   *)
(* handle, what UvAsync shows of it without store buffers: a callback      *)
(* follows every uv_async_send.                                            *)
(***************************************************************************)
EXTENDS Integers, Sequences, SequencesExt, FiniteSets

CONSTANTS
  Reqs,       \* requests, submitted again once they were called back
  Workers,    \* threads
  NoReq,
  Wanted,     \* the most threads to start; max_idle is the same, so that a
              \* worker always waits without a timeout and never quits
  MaxPoll,    \* max_poll_reqs, requests called back in one eio_poll
  CreateMayFail, \* thread_create may fail
  MaxLeaked   \* bound on failing submissions

ASSUME PoolAssumption ==
  /\ IsFiniteSet(Reqs) /\ IsFiniteSet(Workers) /\ NoReq \notin Reqs
  /\ Wanted \in Nat \ {0} /\ Wanted <= Cardinality(Workers)
  /\ MaxPoll \in Nat \ {0} /\ CreateMayFail \in BOOLEAN /\ MaxLeaked \in Nat

VARIABLES
  req_queue, res_queue,       \* libeio's queues
  nreqs, nready, npending,    \* its counters
  started,
  worker,     \* where each thread is in etp_proc
  job,        \* self->req, while it executes
  want, done, \* callbacks the notifiers owe
  poller,     \* uv_eio_poller is active
  inited,     \* uv_eio_init ran
  at,         \* where the loop's thread is
  starting,   \* etp_maybe_start_thread is next
  caller,     \* which callback of uv-eio.c called eio_poll
  maxreqs,    \* what is left of max_poll_reqs
  running,    \* the request that etp_poll took
  refs,       \* references of the loop that the pool holds
  failed,     \* history: a thread_create failed
  leaked      \* history: references lost by a failing uv_queue_work

queues  == <<req_queue, res_queue, nreqs, nready, npending>>
threads == <<started, worker, job, failed>>
notify  == <<want, done, poller, inited>>
loop    == <<at, starting, caller, maxreqs, running>>
vars    == <<queues, threads, notify, loop, refs, leaked>>

QueuesTypeOK ==
  /\ req_queue \in Seq(Reqs) /\ res_queue \in Seq(Reqs)
  /\ nreqs \in Int /\ nready \in Int /\ npending \in Int
ThreadsTypeOK ==
  /\ started \in Nat /\ failed \in BOOLEAN
  /\ worker \in [Workers -> {"none", "take", "wait", "execute"}]
  /\ job \in [Workers -> Reqs \cup {NoReq}]
NotifyTypeOK ==
  want \in 0..2 /\ done \in 0..2 /\ poller \in BOOLEAN /\ inited \in BOOLEAN
LoopTypeOK ==
  /\ at \in {"out", "loop", "shift", "finish", "callback"}
  /\ starting \in BOOLEAN /\ caller \in {"none", "do_poll", "want", "done"}
  /\ maxreqs \in 0..MaxPoll /\ running \in Reqs \cup {NoReq}
RefsTypeOK == refs \in Int /\ leaked \in 0..MaxLeaked

TypeOK == QueuesTypeOK /\ ThreadsTypeOK /\ NotifyTypeOK /\ LoopTypeOK /\ RefsTypeOK

Init ==
  /\ req_queue = <<>> /\ res_queue = <<>>
  /\ nreqs = 0 /\ nready = 0 /\ npending = 0 /\ started = 0
  /\ worker = [w \in Workers |-> "none"] /\ job = [w \in Workers |-> NoReq]
  /\ want = 0 /\ done = 0 /\ poller = FALSE /\ inited = FALSE
  /\ at = "out" /\ starting = FALSE /\ caller = "none" /\ maxreqs = 0
  /\ running = NoReq /\ refs = 0 /\ failed = FALSE /\ leaked = 0

In(s) == {w \in Workers : worker[w] = s}

\* Where a request is: nowhere, when the program may submit it.
Executing == {job[w] : w \in In("execute")}
Outstanding == ToSet(req_queue) \cup ToSet(res_queue) \cup Executing \cup ({running} \ {NoReq})
Idle(r) == r \notin Outstanding

\* uv_async_send: it joins a send that the loop has not seen yet, or is the
\* second when the loop has the event of the first already pending.
Sent(owed) == IF owed = 0 THEN {1} ELSE {owed, 2}

-----------------------------------------------------------------------------
(* The workers, etp_proc.                                                  *)

\* With reqlock: the oldest request, by a worker that is new, done or woken.
TakeUncounted(w) ==
  /\ worker[w] = "take" /\ req_queue # <<>>
  /\ job' = [job EXCEPT ![w] = Head(req_queue)] /\ req_queue' = Tail(req_queue)
  /\ worker' = [worker EXCEPT ![w] = "execute"]
  /\ UNCHANGED <<res_queue, nreqs, nready, npending, started, failed, notify, loop, refs, leaked>>

Take(w) ==
  /\ worker[w] = "take" /\ req_queue # <<>>
  /\ job' = [job EXCEPT ![w] = Head(req_queue)] /\ req_queue' = Tail(req_queue)
  /\ nready' = nready - 1
  /\ worker' = [worker EXCEPT ![w] = "execute"]
  /\ UNCHANGED <<res_queue, nreqs, npending, started, failed, notify, loop, refs, leaked>>

\* pthread_cond_wait, which may also return unsignalled.
Wait(w) ==
  /\ worker[w] = "take" /\ req_queue = <<>>
  /\ worker' = [worker EXCEPT ![w] = "wait"]
  /\ UNCHANGED <<queues, started, job, failed, notify, loop, refs, leaked>>

Wake(w) ==
  /\ worker[w] = "wait" /\ worker' = [worker EXCEPT ![w] = "take"]
  /\ UNCHANGED <<queues, started, job, failed, notify, loop, refs, leaked>>

\* The request was executed.  With reslock: it goes to res_queue, and the
\* first to get there wakes the loop.
Complete(w) ==
  /\ worker[w] = "execute" /\ worker' = [worker EXCEPT ![w] = "take"]
  /\ npending' = npending + 1
  /\ res_queue' = Append(res_queue, job[w])
  /\ want' \in IF res_queue = <<>> THEN Sent(want) ELSE {want}
  /\ job' = [job EXCEPT ![w] = NoReq]
  /\ UNCHANGED <<req_queue, nreqs, nready, started, failed, done, poller, inited, loop, refs, leaked>>

-----------------------------------------------------------------------------
(* The loop's thread in eio.c.                                             *)

\* etp_maybe_start_thread, once it has read npending.
MayStartReady == started < Wanted /\ started - nready < 0
MayStart == started < Wanted /\ started + npending - nreqs < 0

StartThread ==
  \E w \in In("none") :
    /\ worker' = [worker EXCEPT ![w] = "take"] /\ started' = started + 1
    /\ UNCHANGED <<job, failed>>

CreateFails ==
  /\ CreateMayFail /\ failed' = TRUE
  /\ UNCHANGED <<started, worker, job>>

etp_maybe_start_thread ==
  /\ starting /\ starting' = FALSE
  /\ IF MayStart THEN StartThread \/ CreateFails ELSE UNCHANGED threads
  /\ UNCHANGED <<queues, notify, at, caller, maxreqs, running, refs, leaked>>

\* etp_poll begins, called by one of the callbacks of uv-eio.c.
eio_poll(c) ==
  /\ at = "loop" /\ ~starting
  /\ at' = "shift" /\ starting' = TRUE /\ caller' = c /\ maxreqs' = MaxPoll
  /\ UNCHANGED running

\* It returns: -1 when requests may be left, 0 when there was none.
StopUnguarded == poller' = FALSE /\ refs' = refs - 1
StopPoller == poller' = FALSE /\ refs' = IF poller THEN refs - 1 ELSE refs

StartUnguarded == poller' = TRUE /\ refs' = refs + 1
StartNothing == UNCHANGED <<poller, refs>>
StartPoller == poller' = TRUE /\ refs' = IF poller THEN refs ELSE refs + 1

Returns(again) ==
  /\ at' = "loop" /\ caller' = "none" /\ maxreqs' = 0 /\ running' = NoReq
  /\ IF again /\ caller = "want" THEN StartPoller
     ELSE IF ~again /\ caller # "want" THEN StopPoller
     ELSE UNCHANGED <<poller, refs>>

\* With reslock: the oldest result; done_poll when it was the last.
Shift ==
  /\ at = "shift" /\ ~starting /\ res_queue # <<>>
  /\ running' = Head(res_queue) /\ res_queue' = Tail(res_queue)
  /\ npending' = npending - 1
  /\ done' \in IF Tail(res_queue) = <<>> THEN Sent(done) ELSE {done}
  /\ at' = "finish"
  /\ UNCHANGED <<req_queue, nreqs, nready, threads, want, poller, inited,
                 starting, caller, maxreqs, refs, leaked>>

ShiftNothing ==
  /\ at = "shift" /\ ~starting /\ res_queue = <<>>
  /\ Returns(FALSE)
  /\ UNCHANGED <<queues, threads, want, done, inited, starting, leaked>>

\* With reqlock: one request less.  Then uv__after_work, uv__fs_after or
\* uv_getaddrinfo_done drops its reference and calls the program back.
Finish ==
  /\ at = "finish" /\ at' = "callback"
  /\ nreqs' = nreqs - 1 /\ refs' = refs - 1
  /\ running' = NoReq
  /\ UNCHANGED <<req_queue, res_queue, nready, npending, threads, notify, starting, caller, maxreqs, leaked>>

\* The callback returns: the next request, unless that was the last allowed.
Return ==
  /\ at = "callback" /\ ~starting /\ maxreqs > 1
  /\ at' = "shift" /\ starting' = TRUE /\ maxreqs' = maxreqs - 1
  /\ UNCHANGED <<queues, threads, notify, caller, running, refs, leaked>>

ReturnAtLimit ==
  /\ at = "callback" /\ ~starting /\ maxreqs = 1
  /\ Returns(TRUE)
  /\ UNCHANGED <<queues, threads, want, done, inited, starting, leaked>>

-----------------------------------------------------------------------------
(* uv-eio.c.                                                               *)

uv_eio_do_poll ==
  /\ poller /\ eio_poll("do_poll")
  /\ UNCHANGED <<queues, threads, notify, refs, leaked>>

uv_eio_want_poll_notifier_cb ==
  /\ want > 0 /\ want' = want - 1 /\ eio_poll("want")
  /\ UNCHANGED <<queues, threads, done, poller, inited, refs, leaked>>

uv_eio_done_poll_notifier_cb ==
  /\ done > 0 /\ done' = done - 1 /\ eio_poll("done")
  /\ UNCHANGED <<queues, threads, want, poller, inited, refs, leaked>>

\* uv_run, and its return when nothing holds a reference.
uv_run ==
  /\ at = "out" /\ ~starting /\ at' = "loop"
  /\ UNCHANGED <<queues, threads, notify, starting, caller, maxreqs, running, refs, leaked>>

Exit ==
  /\ at = "loop" /\ ~starting /\ refs = 0 /\ at' = "out"
  /\ UNCHANGED <<queues, threads, notify, starting, caller, maxreqs, running, refs, leaked>>

-----------------------------------------------------------------------------
(* The program, in a callback, outside uv_run, or in another callback of   *)
(* the loop.                                                               *)

UserMayCall == at \in {"out", "loop", "callback"} /\ ~starting

\* The first call starts the poller; its handle holds one reference, those of
\* the notifiers are dropped.
EioInit == IF inited THEN UNCHANGED poller ELSE poller' = TRUE
InitRefs == IF inited THEN 0 ELSE 1

\* The request goes to req_queue and wakes one worker, if one waits.
uv_queue_work(r) ==
  /\ UserMayCall /\ Idle(r)
  /\ EioInit /\ inited' = TRUE /\ refs' = refs + 1 + InitRefs
  /\ nreqs' = nreqs + 1 /\ nready' = nready + 1
  /\ req_queue' = Append(req_queue, r)
  /\ IF In("wait") = {} THEN UNCHANGED worker
     ELSE \E w \in In("wait") : worker' = [worker EXCEPT ![w] = "take"]
  /\ starting' = TRUE
  /\ UNCHANGED <<res_queue, npending, started, job, failed, want, done, at, caller, maxreqs, running, leaked>>

\* No memory for the request: -1, and the reference is not given back.
uv_queue_work_error ==
  /\ UserMayCall /\ leaked < MaxLeaked
  /\ EioInit /\ inited' = TRUE /\ refs' = refs + 1 + InitRefs
  /\ leaked' = leaked + 1
  /\ UNCHANGED <<queues, threads, want, done, loop>>

\* A call that fails before its request exists, or a uv_fs call without a
\* callback, which does its work at once.
uv_eio_init ==
  /\ UserMayCall
  /\ EioInit /\ inited' = TRUE /\ refs' = refs + InitRefs
  /\ UNCHANGED <<queues, threads, want, done, loop, leaked>>

-----------------------------------------------------------------------------
Pool == \E w \in Workers : Take(w) \/ Wait(w) \/ Wake(w) \/ Complete(w)

Loop ==
  \/ etp_maybe_start_thread \/ Shift \/ ShiftNothing
  \/ Finish \/ Return \/ ReturnAtLimit \/ Exit
  \/ uv_eio_do_poll \/ uv_eio_want_poll_notifier_cb \/ uv_eio_done_poll_notifier_cb

User == uv_run \/ uv_eio_init \/ uv_queue_work_error \/ \E r \in Reqs : uv_queue_work(r)

Next == Pool \/ Loop \/ User

Spec == Init /\ [][Next]_vars

(* Every thread runs; callbacks return; the loop gets to each of its       *)
(* events, and has iterations with nothing else to do, in which it runs    *)
(* idle handles.                                                           *)
Fairness ==
  /\ WF_vars(etp_maybe_start_thread) /\ WF_vars(Shift \/ ShiftNothing)
  /\ WF_vars(Finish) /\ WF_vars(Return \/ ReturnAtLimit)
  /\ SF_vars(uv_eio_do_poll) /\ SF_vars(uv_eio_want_poll_notifier_cb)
  /\ SF_vars(uv_eio_done_poll_notifier_cb)
  /\ \A w \in Workers : WF_vars(Wait(w) \/ Take(w)) /\ WF_vars(Complete(w))

FairSpec == Spec /\ Fairness
=============================================================================
