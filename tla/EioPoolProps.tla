---------------------------- MODULE EioPoolProps ----------------------------
(***************************************************************************)
(* What programs rely on when they queue work, stated of EioPool.          *)
(***************************************************************************)
EXTENDS EioPool

-----------------------------------------------------------------------------

(* libeio's counters, which etp_maybe_start_thread reads without the locks *)
(* they are written under, agree with the queues and with the threads.     *)
CountersExact ==
  /\ nready = Len(req_queue)
  /\ npending = Len(res_queue)
  /\ nreqs = Len(req_queue) + Cardinality(In("execute")) + Len(res_queue)
             + (IF running = NoReq THEN 0 ELSE 1)
  /\ started = Cardinality(Workers \ In("none"))

(* The reference count of the loop: one for each request that was not      *)
(* called back, one while the poller runs, and those a failing             *)
(* uv_queue_work has lost.                                                 *)
RefsExact ==
  refs = nreqs + (IF poller THEN 1 ELSE 0) + leaked

(* A request is in one place at a time, whatever the threads do.           *)
OnePlace ==
  /\ IsInjective(req_queue) /\ IsInjective(res_queue)
  /\ \A v, w \in In("execute") : job[v] = job[w] => v = w
  /\ ToSet(req_queue) \cap ToSet(res_queue) = {}
  /\ Executing \cap (ToSet(req_queue) \cup ToSet(res_queue)) = {}
  /\ running \notin ToSet(req_queue) \cup ToSet(res_queue) \cup Executing

(* No result lies in the queue with nothing left to bring it to the loop:  *)
(* the notifier was signalled for the first, and when eio_poll stops at    *)
(* max_poll_reqs the poller is, or will be, started for the rest.          *)
ResultsNotified == res_queue # <<>> => want > 0 \/ poller \/ caller = "want"

(* What the four rest on: where control is and what it holds.              *)
ControlInv ==
  /\ \A w \in Workers : job[w] = NoReq <=> worker[w] # "execute"
  /\ running = NoReq <=> at # "finish"
  /\ at \in {"out", "loop"} => caller = "none"
  /\ ~inited => /\ ~poller /\ ~starting /\ want = 0 /\ done = 0
                /\ at \in {"out", "loop"} /\ In("none") = Workers
  /\ started <= Wanted

PoolInv == ControlInv /\ CountersExact /\ RefsExact /\ OnePlace /\ ResultsNotified

PoolExact == TypeOK /\ PoolInv

(* No thread sleeps through a request: while one waits, others that are    *)
(* awake are enough for the queue.                                         *)
NoneSleeps ==
  In("wait") # {} => Len(req_queue) <= Cardinality(In("take"))

(* There is a thread for each request that is queued or executed, up to    *)
(* the limit, unless thread_create failed: the counters are read while     *)
(* workers change them, and that never starts too few.                     *)
EnoughThreads ==
  ~starting /\ ~failed =>
    \/ started = Wanted
    \/ Len(req_queue) + Cardinality(In("execute")) <= started

\* Both: threads are there, and awake, for what is queued.
ThreadsServe == NoneSleeps /\ EnoughThreads

-----------------------------------------------------------------------------

(* The pool keeps the contract of uv_queue_work.                           *)
Contract == INSTANCE WorkContract WITH
  Limit   <- Wanted,
  queued  <- req_queue,
  working <- Executing,
  worked  <- (IF running = NoReq THEN <<>> ELSE <<running>>) \o res_queue,
  inside  <- at # "out"

ImplementsContract == Contract!FairSpec

(* The two notifiers, as the pool uses them, do what WakeupContract says:  *)
(* uv_eio_init opens both, and no callback comes that was not sent for.    *)
Notifiers == INSTANCE WakeupContract WITH
  Asyncs <- {"want", "done"},
  open   <- IF inited THEN {"want", "done"} ELSE {},
  coming <- [a \in {"want", "done"} |-> IF a = "want" THEN want ELSE done]

UsesNotifiers == Notifiers!Spec

(* Every request is called back while the program stays in uv_run, if a    *)
(* thread was ever started.  When thread_create fails for the first        *)
(* requests nobody tries again, and they wait for ever without an error.   *)
WorkAnswered ==
  <>(started > 0) =>
    \A r \in Reqs : (r \in Outstanding /\ at # "out") ~> r \notin Outstanding

(* The pool does not hold the loop: when all is answered, the poller's     *)
(* reference is given back and uv_run may return.  Nor does it keep it:    *)
(* eio_poll comes back, though callbacks queue more work and threads       *)
(* finish it meanwhile: max_poll_reqs is for this.                         *)
LoopServed ==
  /\ <>[](at # "out" /\ Outstanding = {} /\ leaked = 0) => <>[](refs = 0)
  /\ []<>(at \in {"loop", "out"})

=============================================================================
