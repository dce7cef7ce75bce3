---------------------------- MODULE Requests_proof ---------------------------
(***************************************************************************)
(* Proofs about the two components that take requests of a program away    *)
(* from the loop and answer them later: the thread pool (EioPool) and the  *)
(* resolver channel (AresChannel), whose definitions are named apart.      *)
(*                                                                         *)
(* The thread pool accounts for every request and every reference of the   *)
(* loop, lets no thread sleep through a request, and keeps the contract of *)
(* uv_queue_work, for every set of requests, every number of threads and   *)
(* every limit.                                                            *)
(*                                                                         *)
(* AresChannel, for any number of queries and servers and every set of     *)
(* programs: a query that no running code has in hand is filed where an    *)
(* answer, a timeout or an error of its server finds it, none is twice on  *)
(* one connection, the sockets, the watchers and the timer of the loop     *)
(* agree; and the channel implements AresContract.                         *)
(***************************************************************************)
EXTENDS EioPoolProps, AresChannelProps, SequenceTheorems, FiniteSetTheorems,
  WellFoundedInduction, TLAPS

-----------------------------------------------------------------------------
(* The thread pool.                                                        *)

(* The parts of the type that a step leaves alone are kept.                *)
LEMMA TypeKept ==
  /\ QueuesTypeOK /\ UNCHANGED queues => QueuesTypeOK'
  /\ ThreadsTypeOK /\ UNCHANGED threads => ThreadsTypeOK'
  /\ NotifyTypeOK /\ UNCHANGED notify => NotifyTypeOK'
  /\ LoopTypeOK /\ UNCHANGED loop => LoopTypeOK'
  /\ RefsTypeOK /\ UNCHANGED <<refs, leaked>> => RefsTypeOK'
BY DEF QueuesTypeOK, ThreadsTypeOK, NotifyTypeOK, LoopTypeOK, RefsTypeOK,
   queues, threads, notify, loop

(* A worker keeps the types.                                               *)
LEMMA WorkerType ==
  ASSUME TypeOK, ControlInv, NEW w \in Workers, Take(w) \/ Wait(w) \/ Wake(w) \/ Complete(w)
  PROVE  TypeOK'
<1>1. CASE Take(w)
  <2>1. QueuesTypeOK'
    BY <1>1, HeadTailProperties DEF Take, TypeOK, QueuesTypeOK
  <2>2. ThreadsTypeOK'
    BY <1>1, HeadTailProperties DEF Take, TypeOK, QueuesTypeOK, ThreadsTypeOK
  <2> QED
    BY <1>1, <2>1, <2>2, TypeKept DEF TypeOK, Take
<1>2. CASE Wait(w) \/ Wake(w)
  <2>1. ThreadsTypeOK'
    BY <1>2 DEF Wait, Wake, TypeOK, ThreadsTypeOK
  <2> QED
    BY <1>2, <2>1, TypeKept DEF TypeOK, Wait, Wake
<1>3. CASE Complete(w)
  <2>1. job[w] \in Reqs
    BY <1>3 DEF Complete, ControlInv, TypeOK, ThreadsTypeOK
  <2>2. QueuesTypeOK'
    BY <1>3, <2>1, AppendProperties DEF Complete, TypeOK, QueuesTypeOK
  <2>3. ThreadsTypeOK'
    BY <1>3 DEF Complete, TypeOK, ThreadsTypeOK
  <2>4. NotifyTypeOK'
    BY <1>3 DEF Complete, Sent, TypeOK, NotifyTypeOK
  <2> QED
    BY <1>3, <2>2, <2>3, <2>4, TypeKept DEF TypeOK, Complete
<1> QED
  BY <1>1, <1>2, <1>3

(* What starting, stopping or leaving the poller does.                     *)
LEMMA PollerType ==
  ASSUME NotifyTypeOK, RefsTypeOK, UNCHANGED <<want, done, inited, leaked>>,
         StartPoller \/ StopPoller \/ UNCHANGED <<poller, refs>>
  PROVE  NotifyTypeOK' /\ RefsTypeOK'
<1>1. poller' \in BOOLEAN
  BY DEF NotifyTypeOK, StartPoller, StopPoller
<1>2. refs' = refs - 1 \/ refs' = refs \/ refs' = refs + 1
  BY DEF StartPoller, StopPoller
<1> QED
  BY <1>1, <1>2 DEF NotifyTypeOK, RefsTypeOK

(* eio_poll goes back to the loop.                                         *)
LEMMA ReturnsFacts ==
  ASSUME NEW again \in BOOLEAN, Returns(again)
  PROVE  /\ at' = "loop" /\ caller' = "none" /\ maxreqs' = 0 /\ running' = NoReq
         /\ StartPoller \/ StopPoller \/ UNCHANGED <<poller, refs>>
BY DEF Returns

(* The loop keeps the types.                                               *)
LEMMA LoopType ==
  ASSUME PoolAssumption, TypeOK, Loop
  PROVE  TypeOK'
<1>1. CASE etp_maybe_start_thread
  <2>1. ThreadsTypeOK'
    <3>1. CASE StartThread
      BY <3>1 DEF StartThread, In, TypeOK, ThreadsTypeOK
    <3>2. CASE CreateFails
      BY <3>2 DEF CreateFails, TypeOK, ThreadsTypeOK
    <3> QED
      BY <1>1, <3>1, <3>2, TypeKept DEF etp_maybe_start_thread, TypeOK
  <2>2. LoopTypeOK'
    BY <1>1 DEF etp_maybe_start_thread, TypeOK, LoopTypeOK
  <2> QED
    BY <1>1, <2>1, <2>2, TypeKept DEF etp_maybe_start_thread, TypeOK
<1>2. CASE Shift
  <2>1. QueuesTypeOK'
    BY <1>2, HeadTailProperties DEF Shift, TypeOK, QueuesTypeOK
  <2>2. LoopTypeOK'
    BY <1>2, HeadTailProperties DEF Shift, TypeOK, QueuesTypeOK, LoopTypeOK
  <2>3. done' \in Sent(done) \cup {done} /\ UNCHANGED <<want, poller, inited, refs, leaked>>
    BY <1>2 DEF Shift
  <2>4. NotifyTypeOK'
    BY <2>3 DEF Sent, TypeOK, NotifyTypeOK
  <2> QED
    BY <1>2, <2>1, <2>2, <2>3, <2>4, TypeKept DEF Shift, TypeOK
<1>7. CASE ShiftNothing \/ ReturnAtLimit
  <2>1. PICK again \in BOOLEAN : Returns(again)
    BY <1>7 DEF ShiftNothing, ReturnAtLimit
  <2>2. UNCHANGED <<queues, threads, want, done, inited, starting, leaked>>
    BY <1>7 DEF ShiftNothing, ReturnAtLimit
  <2>3. LoopTypeOK'
    BY <2>1, <2>2, ReturnsFacts DEF TypeOK, LoopTypeOK, PoolAssumption
  <2> QED
    BY <2>1, <2>2, <2>3, ReturnsFacts, PollerType, TypeKept DEF TypeOK
<1>3. CASE Finish
  BY <1>3, TypeKept DEF Finish, TypeOK, QueuesTypeOK, LoopTypeOK, RefsTypeOK
<1>4. CASE Return
  <2>1. LoopTypeOK'
    BY <1>4 DEF Return, TypeOK, LoopTypeOK, PoolAssumption
  <2> QED
    BY <1>4, <2>1, TypeKept DEF Return, TypeOK
<1>5. CASE Exit
  BY <1>5, TypeKept DEF Exit, TypeOK, LoopTypeOK
<1>6. CASE uv_eio_do_poll \/ uv_eio_want_poll_notifier_cb \/ uv_eio_done_poll_notifier_cb
  <2>1. \E c \in {"do_poll", "want", "done"} : eio_poll(c)
    BY <1>6 DEF uv_eio_do_poll, uv_eio_want_poll_notifier_cb, uv_eio_done_poll_notifier_cb
  <2>3. LoopTypeOK'
    BY <2>1 DEF eio_poll, TypeOK, LoopTypeOK, PoolAssumption
  <2>2. NotifyTypeOK'
    BY <1>6 DEF uv_eio_do_poll, uv_eio_want_poll_notifier_cb, uv_eio_done_poll_notifier_cb,
       TypeOK, NotifyTypeOK, notify
  <2> QED
    BY <1>6, <2>2, <2>3, TypeKept DEF TypeOK, uv_eio_do_poll,
       uv_eio_want_poll_notifier_cb, uv_eio_done_poll_notifier_cb
<1> QED
  BY <1>1, <1>2, <1>3, <1>4, <1>5, <1>6, <1>7 DEF Loop

(* The program keeps the types.                                            *)
LEMMA UserType ==
  ASSUME PoolAssumption, TypeOK, User
  PROVE  TypeOK'
<1>1. CASE uv_run
  BY <1>1, TypeKept DEF uv_run, TypeOK, LoopTypeOK
<1>2. ASSUME NEW r \in Reqs, uv_queue_work(r) PROVE TypeOK'
  <2>1. QueuesTypeOK'
    BY <1>2, AppendProperties DEF uv_queue_work, TypeOK, QueuesTypeOK
  <2>2. ThreadsTypeOK'
    BY <1>2 DEF uv_queue_work, In, TypeOK, ThreadsTypeOK
  <2>3. NotifyTypeOK'
    BY <1>2 DEF uv_queue_work, EioInit, TypeOK, NotifyTypeOK
  <2>4. LoopTypeOK' /\ RefsTypeOK'
    BY <1>2 DEF uv_queue_work, InitRefs, TypeOK, LoopTypeOK, RefsTypeOK
  <2> QED
    BY <2>1, <2>2, <2>3, <2>4 DEF TypeOK
<1>3. CASE uv_queue_work_error \/ uv_eio_init
  <2>1. NotifyTypeOK'
    BY <1>3 DEF uv_queue_work_error, uv_eio_init, EioInit, TypeOK, NotifyTypeOK
  <2>2. RefsTypeOK'
    <3>1. InitRefs \in Int
      BY DEF InitRefs
    <3> QED
      BY <1>3, <3>1 DEF uv_queue_work_error, uv_eio_init, TypeOK, RefsTypeOK, PoolAssumption
  <2> QED
    BY <1>3, <2>1, <2>2, TypeKept DEF uv_queue_work_error, uv_eio_init, TypeOK
<1> QED
  BY <1>1, <1>2, <1>3 DEF User

(* Types are kept.                                                         *)
LEMMA PoolType ==
  ASSUME PoolAssumption, TypeOK, ControlInv, [Next]_vars
  PROVE  TypeOK'
<1>1. CASE UNCHANGED vars
  BY <1>1, TypeKept DEF TypeOK, vars
<1> QED
  BY <1>1, WorkerType, LoopType, UserType DEF Next, Pool

-----------------------------------------------------------------------------
(* Counting workers.                                                       *)

(* Sets of workers are finite.                                             *)
LEMMA InFinite ==
  ASSUME PoolAssumption, NEW s
  PROVE  /\ IsFiniteSet(In(s)) /\ Cardinality(In(s)) \in Nat
         /\ IsFiniteSet(Workers \ In(s)) /\ Cardinality(Workers \ In(s)) \in Nat
<1>1. In(s) \in SUBSET Workers /\ (Workers \ In(s)) \in SUBSET Workers
  BY DEF In
<1> QED
  BY <1>1, FS_Subset, FS_CardinalityType DEF PoolAssumption

(* A worker goes from one point of etp_proc to another.                    *)
LEMMA MoveCount ==
  ASSUME PoolAssumption, NEW A \in SUBSET Workers, NEW B \in SUBSET Workers,
         NEW w \in A, w \notin B
  PROVE  /\ Cardinality(A \ {w}) = Cardinality(A) - 1
         /\ Cardinality(B \cup {w}) = Cardinality(B) + 1
<1>1. IsFiniteSet(A) /\ IsFiniteSet(B)
  BY FS_Subset DEF PoolAssumption
<1> QED
  BY <1>1, FS_AddElement, FS_RemoveElement

(* Those at one point are workers.                                         *)
LEMMA InWorkers == \A s : In(s) \in SUBSET Workers
BY DEF In

(* A worker takes a request.                                               *)
LEMMA TakeMoves ==
  ASSUME PoolAssumption, TypeOK, NEW w \in Workers, Take(w)
  PROVE  /\ In("none")' = In("none") /\ In("wait")' = In("wait")
         /\ Cardinality(In("execute"))' = Cardinality(In("execute")) + 1
         /\ Cardinality(In("take"))' = Cardinality(In("take")) - 1
<1>1. \A v \in Workers : worker'[v] = IF v = w THEN "execute" ELSE worker[v]
  BY DEF Take, TypeOK, ThreadsTypeOK
<1>2. worker[w] = "take"
  BY DEF Take
<1>3. In("none")' = In("none") /\ In("wait")' = In("wait")
  BY <1>1, <1>2 DEF In
<1>4. /\ In("execute")' = In("execute") \cup {w} /\ w \notin In("execute")
      /\ In("take")' = In("take") \ {w} /\ w \in In("take")
  BY <1>1, <1>2 DEF In
<1>5. /\ Cardinality(In("execute") \cup {w}) = Cardinality(In("execute")) + 1
      /\ Cardinality(In("take") \ {w}) = Cardinality(In("take")) - 1
  BY <1>4, InWorkers, MoveCount
<1> QED
  BY <1>3, <1>4, <1>5

(* A worker that is done looks for the next request.                       *)
LEMMA CompleteMoves ==
  ASSUME PoolAssumption, TypeOK, NEW w \in Workers, Complete(w)
  PROVE  /\ In("none")' = In("none") /\ In("wait")' = In("wait")
         /\ Cardinality(In("execute"))' = Cardinality(In("execute")) - 1
         /\ Cardinality(In("take"))' = Cardinality(In("take")) + 1
<1>1. \A v \in Workers : worker'[v] = IF v = w THEN "take" ELSE worker[v]
  BY DEF Complete, TypeOK, ThreadsTypeOK
<1>2. worker[w] = "execute"
  BY DEF Complete
<1>3. In("none")' = In("none") /\ In("wait")' = In("wait")
  BY <1>1, <1>2 DEF In
<1>4. /\ In("take")' = In("take") \cup {w} /\ w \notin In("take")
      /\ In("execute")' = In("execute") \ {w} /\ w \in In("execute")
  BY <1>1, <1>2 DEF In
<1>5. /\ Cardinality(In("take") \cup {w}) = Cardinality(In("take")) + 1
      /\ Cardinality(In("execute") \ {w}) = Cardinality(In("execute")) - 1
  BY <1>4, InWorkers, MoveCount
<1> QED
  BY <1>3, <1>4, <1>5

(* A worker goes to sleep.                                                 *)
LEMMA WaitMoves ==
  ASSUME PoolAssumption, TypeOK, NEW w \in Workers, Wait(w)
  PROVE  In("none")' = In("none") /\ In("execute")' = In("execute")
BY DEF Wait, TypeOK, ThreadsTypeOK, In

(* A worker wakes up, by itself or for a submission.                       *)
LEMMA WakeMoves ==
  ASSUME PoolAssumption, TypeOK, NEW w \in Workers, worker[w] = "wait",
         worker' = [worker EXCEPT ![w] = "take"]
  PROVE  /\ In("none")' = In("none") /\ In("execute")' = In("execute")
         /\ In("wait")' = In("wait") \ {w}
         /\ Cardinality(In("take"))' = Cardinality(In("take")) + 1
<1>1. \A v \in Workers : worker'[v] = IF v = w THEN "take" ELSE worker[v]
  BY DEF TypeOK, ThreadsTypeOK
<1>2. In("none")' = In("none") /\ In("execute")' = In("execute")
  BY <1>1 DEF In
<1>3. /\ In("wait")' = In("wait") \ {w} /\ w \in In("wait")
      /\ In("take")' = In("take") \cup {w} /\ w \notin In("take")
  BY <1>1 DEF In
<1>4. Cardinality(In("take") \cup {w}) = Cardinality(In("take")) + 1
  BY <1>3, InWorkers, MoveCount
<1> QED
  BY <1>2, <1>3, <1>4

(* A new worker is one more that is started and awake.                     *)
LEMMA StartMoves ==
  ASSUME PoolAssumption, TypeOK, StartThread
  PROVE  /\ In("execute")' = In("execute") /\ In("wait")' = In("wait")
         /\ Cardinality(Workers \ In("none"))' = Cardinality(Workers \ In("none")) + 1
         /\ Cardinality(In("take"))' = Cardinality(In("take")) + 1
<1>1. PICK w \in Workers : worker[w] = "none" /\ worker' = [worker EXCEPT ![w] = "take"]
  BY DEF StartThread, In
<1>2. \A v \in Workers : worker'[v] = IF v = w THEN "take" ELSE worker[v]
  BY <1>1 DEF TypeOK, ThreadsTypeOK
<1>3. In("execute")' = In("execute") /\ In("wait")' = In("wait")
  BY <1>1, <1>2 DEF In
<1>4. /\ In("none")' = In("none") \ {w} /\ w \in In("none")
      /\ In("take")' = In("take") \cup {w} /\ w \notin In("take")
  BY <1>1, <1>2 DEF In
<1>5. (Workers \ In("none"))' = (Workers \ In("none")) \cup {w} /\ w \notin (Workers \ In("none"))
  BY <1>4
<1>6. /\ Cardinality(In("take") \cup {w}) = Cardinality(In("take")) + 1
      /\ Cardinality((Workers \ In("none")) \cup {w}) = Cardinality(Workers \ In("none")) + 1
  BY <1>4, <1>5, InWorkers, MoveCount
<1> QED
  BY <1>3, <1>4, <1>5, <1>6

-----------------------------------------------------------------------------
(* Where control is.                                                       *)
LEMMA ControlStep ==
  ASSUME PoolAssumption, TypeOK, ControlInv, [Next]_vars
  PROVE  ControlInv'
<1> USE DEF ControlInv, In
<1>1. CASE UNCHANGED vars
  BY <1>1 DEF vars, queues, threads, notify, loop
<1>2. ASSUME NEW w \in Workers, Take(w) PROVE ControlInv'
  <2>1. Head(req_queue) \in Reqs
    BY <1>2, HeadTailProperties DEF Take, TypeOK, QueuesTypeOK
  <2> QED
    BY <1>2, <2>1 DEF Take, TypeOK, ThreadsTypeOK, PoolAssumption, notify, loop
<1>3. ASSUME NEW w \in Workers, Wait(w) \/ Wake(w) \/ Complete(w) PROVE ControlInv'
  BY <1>3 DEF Wait, Wake, Complete, TypeOK, ThreadsTypeOK, notify, loop
<1>4. CASE etp_maybe_start_thread
  <2>1. CASE MayStart /\ StartThread
    BY <1>4, <2>1 DEF etp_maybe_start_thread, MayStart, StartThread, In, TypeOK,
       ThreadsTypeOK, PoolAssumption, notify
  <2>2. CASE UNCHANGED <<started, worker, job>>
    BY <1>4, <2>2 DEF etp_maybe_start_thread, notify
  <2> QED
    BY <1>4, <2>1, <2>2 DEF etp_maybe_start_thread, CreateFails, threads
<1>5. CASE Shift
  <2>1. Head(res_queue) \in Reqs
    BY <1>5, HeadTailProperties DEF Shift, TypeOK, QueuesTypeOK
  <2> QED
    BY <1>5, <2>1 DEF Shift, PoolAssumption, threads
<1>6. CASE ShiftNothing \/ ReturnAtLimit
  <2>1. PICK again \in BOOLEAN : Returns(again)
    BY <1>6 DEF ShiftNothing, ReturnAtLimit
  <2>2. UNCHANGED threads /\ UNCHANGED <<inited, starting, want, done>> /\ inited
    BY <1>6 DEF ShiftNothing, ReturnAtLimit
  <2> QED
    BY <2>1, <2>2, ReturnsFacts DEF threads
<1>7. CASE Finish \/ Return \/ Exit \/ uv_run
  BY <1>7 DEF Finish, Return, Exit, uv_run, threads, notify
<1>8. CASE uv_eio_do_poll \/ uv_eio_want_poll_notifier_cb \/ uv_eio_done_poll_notifier_cb
  BY <1>8 DEF uv_eio_do_poll, uv_eio_want_poll_notifier_cb, uv_eio_done_poll_notifier_cb,
     eio_poll, threads, notify
<1>9. ASSUME NEW r \in Reqs, uv_queue_work(r) PROVE ControlInv'
  BY <1>9 DEF uv_queue_work, In, TypeOK, ThreadsTypeOK
<1>10. CASE uv_queue_work_error \/ uv_eio_init
  BY <1>10 DEF uv_queue_work_error, uv_eio_init, threads, loop
<1> QED
  BY <1>1, <1>2, <1>3, <1>4, <1>5, <1>6, <1>7, <1>8, <1>9, <1>10
     DEF Next, Pool, Loop, User

-----------------------------------------------------------------------------
(* The references of the loop.                                             *)
LEMMA RefsStep ==
  ASSUME PoolAssumption, TypeOK, ControlInv, RefsExact, [Next]_vars
  PROVE  RefsExact'
<1> DEFINE running_(b) == IF b THEN 1 ELSE 0
<1>0. nreqs \in Int /\ refs \in Int /\ leaked \in Int /\ refs = nreqs + running_(poller) + leaked
  BY DEF TypeOK, QueuesTypeOK, RefsTypeOK, PoolAssumption, RefsExact
<1>1. CASE UNCHANGED <<nreqs, refs, poller, leaked>>
  BY <1>0, <1>1 DEF RefsExact
<1>2. CASE Shift
  BY <1>1, <1>2 DEF Shift
<1>3. CASE ShiftNothing \/ ReturnAtLimit
  <2>1. PICK again \in BOOLEAN : Returns(again)
    BY <1>3 DEF ShiftNothing, ReturnAtLimit
  <2>2. UNCHANGED nreqs /\ UNCHANGED leaked
    BY <1>3 DEF ShiftNothing, ReturnAtLimit, queues
  <2>3. CASE StopPoller
    <3>1. CASE poller
      BY <1>0, <2>2, <2>3, <3>1 DEF StopPoller, RefsExact
    <3>2. CASE ~poller
      BY <1>0, <2>2, <2>3, <3>2 DEF StopPoller, RefsExact
    <3> QED
      BY <3>1, <3>2
  <2>4. CASE StartPoller
    <3>1. CASE poller
      BY <1>0, <2>2, <2>4, <3>1 DEF StartPoller, RefsExact
    <3>2. CASE ~poller
      BY <1>0, <2>2, <2>4, <3>2 DEF StartPoller, RefsExact
    <3> QED
      BY <3>1, <3>2
  <2> QED
    BY <1>1, <2>1, <2>2, <2>3, <2>4, ReturnsFacts
<1>4. CASE Finish
  <2>1. nreqs' = nreqs - 1 /\ refs' = refs - 1 /\ UNCHANGED <<poller, leaked>>
    BY <1>4 DEF Finish, notify
  <2> QED
    BY <1>0, <2>1 DEF RefsExact
<1>5. ASSUME UserMayCall, EioInit, inited'
      PROVE  running_(poller') = running_(poller) + InitRefs
  BY <1>5 DEF EioInit, InitRefs, ControlInv
<1>6. ASSUME NEW r \in Reqs, uv_queue_work(r) PROVE RefsExact'
  <2>1. /\ nreqs' = nreqs + 1 /\ refs' = refs + 1 + InitRefs /\ UNCHANGED leaked
        /\ InitRefs \in Int
    BY <1>6 DEF uv_queue_work, InitRefs
  <2> QED
    BY <1>0, <1>5, <1>6, <2>1 DEF uv_queue_work, RefsExact
<1>7. CASE uv_queue_work_error
  <2>1. /\ nreqs' = nreqs /\ refs' = refs + 1 + InitRefs /\ leaked' = leaked + 1
        /\ InitRefs \in Int
    BY <1>7 DEF uv_queue_work_error, InitRefs, queues
  <2> QED
    BY <1>0, <1>5, <1>7, <2>1 DEF uv_queue_work_error, RefsExact
<1>8. CASE uv_eio_init
  <2>1. /\ nreqs' = nreqs /\ refs' = refs + InitRefs /\ leaked' = leaked
        /\ InitRefs \in Int
    BY <1>8 DEF uv_eio_init, InitRefs, queues
  <2> QED
    BY <1>0, <1>5, <1>8, <2>1 DEF uv_eio_init, RefsExact
<1>9. CASE \/ UNCHANGED vars \/ etp_maybe_start_thread \/ Return \/ Exit \/ uv_run
           \/ uv_eio_do_poll \/ uv_eio_want_poll_notifier_cb \/ uv_eio_done_poll_notifier_cb
  BY <1>1, <1>9 DEF etp_maybe_start_thread, Return, Exit, uv_run, uv_eio_do_poll,
     uv_eio_want_poll_notifier_cb, uv_eio_done_poll_notifier_cb, vars, queues, notify
<1>10. ASSUME NEW w \in Workers, Take(w) \/ Wait(w) \/ Wake(w) \/ Complete(w) PROVE RefsExact'
  BY <1>1, <1>10 DEF Take, Wait, Wake, Complete, queues, notify
<1> QED
  BY <1>2, <1>3, <1>4, <1>6, <1>7, <1>8, <1>9, <1>10 DEF Next, Pool, Loop, User

-----------------------------------------------------------------------------
(* Every result will be seen.                                              *)
LEMMA NotifiedStep ==
  ASSUME PoolAssumption, TypeOK, ControlInv, ResultsNotified, [Next]_vars
  PROVE  ResultsNotified'
<1>0. want \in 0..2 /\ poller \in BOOLEAN
  BY DEF TypeOK, NotifyTypeOK
<1>1. CASE UNCHANGED <<res_queue, want, poller, caller>>
  BY <1>1 DEF ResultsNotified
<1>2. ASSUME NEW w \in Workers, Complete(w) PROVE ResultsNotified'
  <2>1. (want' = want /\ res_queue # <<>>) \/ want' \in Sent(want)
    BY <1>2 DEF Complete
  <2>2. want' \in Sent(want) => want' > 0
    BY <1>0 DEF Sent
  <2>3. UNCHANGED poller /\ UNCHANGED caller
    BY <1>2 DEF Complete, loop
  <2> QED
    BY <2>1, <2>2, <2>3 DEF ResultsNotified
<1>3. CASE Shift
  BY <1>3 DEF Shift, ResultsNotified
<1>4. CASE ShiftNothing
  BY <1>4 DEF ShiftNothing, queues, ResultsNotified
<1>5. CASE ReturnAtLimit
  <2>1. UNCHANGED <<res_queue, want>> /\ Returns(TRUE)
    BY <1>5 DEF ReturnAtLimit, queues
  <2>2. caller = "want" => poller'
    BY <2>1 DEF Returns, StartPoller
  <2>3. caller # "want" => UNCHANGED poller
    BY <2>1 DEF Returns
  <2> QED
    BY <2>1, <2>2, <2>3 DEF ResultsNotified
<1>6. CASE uv_eio_do_poll \/ uv_eio_want_poll_notifier_cb \/ uv_eio_done_poll_notifier_cb
  <2>1. caller = "none"
    BY <1>6 DEF uv_eio_do_poll, uv_eio_want_poll_notifier_cb,
       uv_eio_done_poll_notifier_cb, eio_poll, ControlInv
  <2>2. UNCHANGED <<res_queue, poller>>
    BY <1>6 DEF uv_eio_do_poll, uv_eio_want_poll_notifier_cb,
       uv_eio_done_poll_notifier_cb, queues, notify
  <2>3. UNCHANGED want \/ caller' = "want"
    BY <1>6 DEF uv_eio_do_poll, uv_eio_want_poll_notifier_cb,
       uv_eio_done_poll_notifier_cb, eio_poll, notify
  <2> QED
    BY <2>1, <2>2, <2>3 DEF ResultsNotified
<1>7. ASSUME UNCHANGED <<res_queue, want, caller>>, EioInit PROVE ResultsNotified'
  BY <1>7 DEF EioInit, ResultsNotified
<1>8. CASE uv_queue_work_error \/ uv_eio_init \/ \E r \in Reqs : uv_queue_work(r)
  BY <1>7, <1>8 DEF uv_queue_work_error, uv_eio_init, uv_queue_work, queues, loop
<1>9. CASE \/ UNCHANGED vars \/ etp_maybe_start_thread \/ Finish \/ Return \/ Exit \/ uv_run
  BY <1>1, <1>9 DEF etp_maybe_start_thread, Finish, Return, Exit, uv_run,
     vars, queues, notify, loop
<1>10. ASSUME NEW w \in Workers, Take(w) \/ Wait(w) \/ Wake(w) PROVE ResultsNotified'
  BY <1>1, <1>10 DEF Take, Wait, Wake, queues, notify, loop
<1> QED
  BY <1>2, <1>3, <1>4, <1>5, <1>6, <1>8, <1>9, <1>10 DEF Next, Pool, Loop, User

-----------------------------------------------------------------------------
(* Requests move between the queues and the threads.                       *)

(* A request joins a queue that did not hold it.                           *)
LEMMA AppendOnce ==
  ASSUME NEW S, NEW s \in Seq(S), NEW e \in S, IsInjective(s), e \notin ToSet(s)
  PROVE  /\ Append(s, e) \in Seq(S) /\ Len(Append(s, e)) = Len(s) + 1
         /\ IsInjective(Append(s, e)) /\ ToSet(Append(s, e)) = ToSet(s) \cup {e}
<1>1. /\ Append(s, e) \in Seq(S) /\ Len(Append(s, e)) = Len(s) + 1
      /\ DOMAIN s = 1..Len(s) /\ Len(s) \in Nat
      /\ DOMAIN Append(s, e) = 1..(Len(s) + 1)
      /\ \A i \in 1..Len(s) : Append(s, e)[i] = s[i]
      /\ Append(s, e)[Len(s) + 1] = e
  BY AppendProperties, LenProperties
<1>2. ToSet(Append(s, e)) = ToSet(s) \cup {e}
  BY <1>1 DEF ToSet
<1>3. IsInjective(Append(s, e))
  BY <1>1 DEF IsInjective, ToSet
<1> QED
  BY <1>1, <1>2, <1>3

(* The first leaves a queue that holds each once.                          *)
LEMMA TailOnce ==
  ASSUME NEW S, NEW s \in Seq(S), s # <<>>, IsInjective(s)
  PROVE  /\ Head(s) \in S /\ Head(s) \in ToSet(s)
         /\ Tail(s) \in Seq(S) /\ Len(Tail(s)) = Len(s) - 1 /\ Len(s) \in Nat \ {0}
         /\ IsInjective(Tail(s)) /\ ToSet(Tail(s)) = ToSet(s) \ {Head(s)}
<1>1. /\ Head(s) \in S /\ Tail(s) \in Seq(S) /\ Len(Tail(s)) = Len(s) - 1
      /\ Len(s) \in Nat \ {0}
      /\ DOMAIN s = 1..Len(s) /\ DOMAIN Tail(s) = 1..(Len(s) - 1)
      /\ Head(s) = s[1]
      /\ \A i \in 1..(Len(s) - 1) : Tail(s)[i] = s[i + 1]
  BY HeadTailProperties, LenProperties, EmptySeq
<1>2. IsInjective(Tail(s))
  BY <1>1 DEF IsInjective
<1>3. ToSet(Tail(s)) = ToSet(s) \ {Head(s)}
  <2>1. ASSUME NEW x \in ToSet(s), x # Head(s) PROVE x \in ToSet(Tail(s))
    <3>1. PICK i \in 1..Len(s) : x = s[i]
      BY <1>1, <2>1 DEF ToSet
    <3>2. i - 1 \in 1..(Len(s) - 1) /\ Tail(s)[i - 1] = s[i]
      BY <1>1, <2>1, <3>1
    <3> QED
      BY <1>1, <3>1, <3>2 DEF ToSet
  <2>2. ASSUME NEW x \in ToSet(Tail(s)) PROVE x \in ToSet(s) /\ x # Head(s)
    <3>1. PICK i \in 1..(Len(s) - 1) : x = s[i + 1]
      BY <1>1, <2>2 DEF ToSet
    <3>2. i + 1 \in 1..Len(s) /\ 1 \in 1..Len(s) /\ i + 1 # 1
      BY <1>1
    <3> QED
      BY <1>1, <3>1, <3>2 DEF ToSet, IsInjective
  <2> QED
    BY <2>1, <2>2
<1> QED
  BY <1>1, <1>2, <1>3 DEF ToSet

(* A step that leaves every job alone leaves what is executed alone.       *)
LEMMA JobsKept ==
  ASSUME ControlInv, ControlInv', UNCHANGED job
  PROVE  /\ In("execute")' = In("execute") /\ Executing' = Executing
<1>1. \A w \in Workers : worker[w] = "execute" <=> worker'[w] = "execute"
  BY DEF ControlInv
<1>2. In("execute")' = In("execute")
  BY <1>1 DEF In
<1> QED
  BY <1>2 DEF Executing

(* What a worker takes is executed from then on.                           *)
LEMMA JobTaken ==
  ASSUME PoolAssumption, TypeOK, ControlInv, OnePlace, NEW w \in Workers, Take(w)
  PROVE  /\ Head(req_queue) \in ToSet(req_queue) /\ Head(req_queue) \notin Executing
         /\ Executing' = Executing \cup {Head(req_queue)}
         /\ In("execute")' = In("execute") \cup {w} /\ w \notin In("execute")
         /\ \A v \in Workers : job'[v] = IF v = w THEN Head(req_queue) ELSE job[v]
<1>1. Head(req_queue) \in ToSet(req_queue)
  BY TailOnce DEF Take, OnePlace, TypeOK, QueuesTypeOK
<1>2. /\ \A v \in Workers : job'[v] = IF v = w THEN Head(req_queue) ELSE job[v]
      /\ \A v \in Workers : worker'[v] = IF v = w THEN "execute" ELSE worker[v]
      /\ worker[w] = "take"
  BY DEF Take, TypeOK, ThreadsTypeOK
<1>3. In("execute")' = In("execute") \cup {w} /\ w \notin In("execute")
  BY <1>2 DEF In
<1>4. Executing' = Executing \cup {Head(req_queue)}
  BY <1>2, <1>3 DEF Executing, In
<1> QED
  BY <1>1, <1>2, <1>3, <1>4 DEF OnePlace

(* What it completes is executed no more.                                  *)
LEMMA JobDone ==
  ASSUME PoolAssumption, TypeOK, ControlInv, OnePlace, NEW w \in Workers, Complete(w)
  PROVE  /\ job[w] \in Reqs /\ job[w] \in Executing /\ Executing' = Executing \ {job[w]}
         /\ In("execute")' = In("execute") \ {w} /\ w \in In("execute")
         /\ \A v \in Workers : job'[v] = IF v = w THEN NoReq ELSE job[v]
<1>1. job[w] \in Reqs
  BY DEF Complete, ControlInv, TypeOK, ThreadsTypeOK
<1>2. /\ \A v \in Workers : job'[v] = IF v = w THEN NoReq ELSE job[v]
      /\ \A v \in Workers : worker'[v] = IF v = w THEN "take" ELSE worker[v]
      /\ worker[w] = "execute"
  BY DEF Complete, TypeOK, ThreadsTypeOK
<1>3. In("execute")' = In("execute") \ {w} /\ w \in In("execute")
  BY <1>2 DEF In
<1>4. Executing' = Executing \ {job[w]}
  <2>1. \A v \in In("execute") : v # w => job[v] # job[w]
    BY <1>3 DEF OnePlace
  <2> QED
    BY <1>2, <1>3, <2>1 DEF Executing, In
<1> QED
  BY <1>1, <1>2, <1>3, <1>4 DEF Executing

(* A request stays in one place.                                           *)
LEMMA OnePlaceStep ==
  ASSUME PoolAssumption, TypeOK, ControlInv, OnePlace, [Next]_vars
  PROVE  OnePlace'
<1>0. /\ req_queue \in Seq(Reqs) /\ res_queue \in Seq(Reqs) /\ ControlInv'
      /\ IsInjective(req_queue) /\ IsInjective(res_queue)
  BY ControlStep DEF TypeOK, QueuesTypeOK, OnePlace
<1>1. ASSUME UNCHANGED <<req_queue, res_queue, job>>, running' \in {running, NoReq}
      PROVE  OnePlace'
  <2>1. NoReq \notin ToSet(req_queue) \cup ToSet(res_queue) \cup Executing
    <3>1. NoReq \notin Executing
      BY DEF ControlInv, Executing, In
    <3>2. \A i \in DOMAIN req_queue : req_queue[i] \in Reqs
      BY <1>0, LenProperties, ElementOfSeq
    <3>3. \A i \in DOMAIN res_queue : res_queue[i] \in Reqs
      BY <1>0, LenProperties, ElementOfSeq
    <3> QED
      BY <3>1, <3>2, <3>3 DEF ToSet, PoolAssumption
  <2> QED
    BY <1>0, <1>1, <2>1, JobsKept DEF OnePlace
<1>2. ASSUME NEW w \in Workers, Take(w) PROVE OnePlace'
  <2>1. /\ IsInjective(req_queue') /\ ToSet(req_queue') = ToSet(req_queue) \ {Head(req_queue)}
        /\ res_queue' = res_queue /\ running' = running
    BY <1>0, <1>2, TailOnce DEF Take, loop
  <2>2. \A u, v \in In("execute")' : job'[u] = job'[v] => u = v
    BY <1>2, JobTaken DEF OnePlace, Executing, In
  <2> QED
    BY <1>2, <2>1, <2>2, JobTaken DEF OnePlace
<1>3. ASSUME NEW w \in Workers, Complete(w) PROVE OnePlace'
  <2>1. job[w] \notin ToSet(res_queue) /\ job[w] \in Reqs
    BY <1>3, JobDone DEF OnePlace
  <2>2. /\ IsInjective(res_queue') /\ ToSet(res_queue') = ToSet(res_queue) \cup {job[w]}
        /\ req_queue' = req_queue /\ running' = running
    BY <1>0, <1>3, <2>1, AppendOnce DEF Complete, loop
  <2>3. \A u, v \in In("execute")' : job'[u] = job'[v] => u = v
    BY <1>3, JobDone DEF OnePlace, In
  <2> QED
    BY <1>3, <2>2, <2>3, JobDone DEF OnePlace
<1>4. CASE Shift
  <2>1. /\ IsInjective(res_queue') /\ ToSet(res_queue') = ToSet(res_queue) \ {Head(res_queue)}
        /\ running' = Head(res_queue) /\ Head(res_queue) \in ToSet(res_queue)
        /\ req_queue' = req_queue /\ job' = job
    BY <1>0, <1>4, TailOnce DEF Shift, threads
  <2> QED
    BY <1>0, <2>1, JobsKept DEF OnePlace
<1>5. ASSUME NEW r \in Reqs, uv_queue_work(r) PROVE OnePlace'
  <2>1. r \notin ToSet(req_queue) \cup ToSet(res_queue) \cup Executing \cup {running}
    BY <1>5 DEF uv_queue_work, Idle, Outstanding, PoolAssumption
  <2>2. /\ IsInjective(req_queue') /\ ToSet(req_queue') = ToSet(req_queue) \cup {r}
        /\ res_queue' = res_queue /\ job' = job /\ running' = running
    BY <1>0, <1>5, <2>1, AppendOnce DEF uv_queue_work
  <2> QED
    BY <1>0, <2>1, <2>2, JobsKept DEF OnePlace
<1>6. ASSUME NEW w \in Workers, Wait(w) \/ Wake(w) PROVE OnePlace'
  BY <1>1, <1>6 DEF Wait, Wake, queues, loop
<1>7. CASE etp_maybe_start_thread
  BY <1>1, <1>7 DEF etp_maybe_start_thread, StartThread, CreateFails, queues, threads
<1>8. CASE ShiftNothing \/ ReturnAtLimit
  BY <1>1, <1>8, ReturnsFacts DEF ShiftNothing, ReturnAtLimit, queues, threads
<1>9. CASE \/ UNCHANGED vars \/ Finish \/ Return \/ Exit \/ uv_run
           \/ uv_eio_do_poll \/ uv_eio_want_poll_notifier_cb \/ uv_eio_done_poll_notifier_cb
           \/ uv_queue_work_error \/ uv_eio_init
  BY <1>1, <1>9 DEF Finish, Return, Exit, uv_run, uv_eio_do_poll,
     uv_eio_want_poll_notifier_cb, uv_eio_done_poll_notifier_cb, eio_poll,
     uv_queue_work_error, uv_eio_init, vars, queues, threads, loop
<1> QED
  BY <1>2, <1>3, <1>4, <1>5, <1>6, <1>7, <1>8, <1>9 DEF Next, Pool, Loop, User

-----------------------------------------------------------------------------
(* The counters.                                                           *)

(* A step that moves nothing and counts nothing.                           *)
LEMMA CountersKept ==
  ASSUME CountersExact, UNCHANGED <<queues, started>>,
         running' = NoReq <=> running = NoReq,
         In("execute")' = In("execute"), In("none")' = In("none")
  PROVE  CountersExact'
<1>1. Cardinality(In("execute"))' = Cardinality(In("execute"))
  OBVIOUS
<1>2. Cardinality(Workers \ In("none"))' = Cardinality(Workers \ In("none"))
  OBVIOUS
<1> QED
  BY <1>1, <1>2 DEF CountersExact, queues

(* Each counter is changed with what it counts.                            *)
LEMMA CountersStep ==
  ASSUME PoolAssumption, TypeOK, ControlInv, OnePlace, CountersExact, [Next]_vars
  PROVE  CountersExact'
<1> DEFINE e == Cardinality(In("execute"))
           n == Cardinality(Workers \ In("none"))
           taken(r) == IF r = NoReq THEN 0 ELSE 1
<1>0. /\ req_queue \in Seq(Reqs) /\ res_queue \in Seq(Reqs) /\ ControlInv'
      /\ Len(req_queue) \in Nat /\ Len(res_queue) \in Nat /\ e \in Nat /\ n \in Nat
      /\ taken(running) \in Nat
      /\ nready = Len(req_queue) /\ npending = Len(res_queue) /\ started = n
      /\ nreqs = Len(req_queue) + e + Len(res_queue) + taken(running)
      /\ IsInjective(req_queue) /\ IsInjective(res_queue)
  BY ControlStep, InFinite, LenProperties
  DEF TypeOK, QueuesTypeOK, CountersExact, OnePlace
<1>1. ASSUME NEW w \in Workers, Take(w) PROVE CountersExact'
  <2>1. Len(Tail(req_queue)) = Len(req_queue) - 1 /\ Len(req_queue) \in Nat \ {0}
    BY <1>0, <1>1, TailOnce DEF Take
  <2>2. In("none")' = In("none") /\ e' = e + 1
    BY <1>1, TakeMoves
  <2>3. n' = n
    BY <2>2
  <2>4. /\ nready' = nready - 1 /\ npending' = npending /\ nreqs' = nreqs
        /\ started' = started /\ running' = running /\ res_queue' = res_queue
        /\ req_queue' = Tail(req_queue)
    BY <1>1 DEF Take, loop
  <2>5. nreqs' = Len(req_queue') + e' + Len(res_queue') + taken(running')
    BY <1>0, <2>1, <2>2, <2>4
  <2> QED
    BY <1>0, <2>1, <2>2, <2>3, <2>4, <2>5 DEF CountersExact
<1>2. ASSUME NEW w \in Workers, Complete(w) PROVE CountersExact'
  <2>1. job[w] \in Reqs /\ job[w] \notin ToSet(res_queue)
    BY <1>2, JobDone DEF OnePlace
  <2>2. Len(Append(res_queue, job[w])) = Len(res_queue) + 1
    BY <1>0, <2>1, AppendOnce
  <2>3. In("none")' = In("none") /\ e' = e - 1
    BY <1>2, CompleteMoves
  <2>4. n' = n
    BY <2>3
  <2>5. /\ nready' = nready /\ npending' = npending + 1 /\ nreqs' = nreqs
        /\ started' = started /\ running' = running /\ req_queue' = req_queue
        /\ res_queue' = Append(res_queue, job[w])
    BY <1>2 DEF Complete, loop
  <2>7. Len(res_queue') = Len(res_queue) + 1
    BY <2>2, <2>5
  <2>8. nreqs' = nreqs /\ req_queue' = req_queue /\ taken(running') = taken(running)
    BY <2>5
  <2>9. e' = e - 1 /\ Len(req_queue') = Len(req_queue)
    BY <2>3, <2>8
  <2>10. /\ nreqs = Len(req_queue) + e + Len(res_queue) + taken(running)
         /\ Len(req_queue) \in Nat /\ Len(res_queue) \in Nat /\ e \in Nat
         /\ taken(running) \in Nat
    BY <1>0
  <2>6. nreqs' = Len(req_queue') + e' + Len(res_queue') + taken(running')
    <3> HIDE DEF e, taken
    <3> QED
      BY <2>7, <2>8, <2>9, <2>10
  <2> QED
    BY <1>0, <2>2, <2>3, <2>4, <2>5, <2>6 DEF CountersExact
<1>3. ASSUME NEW w \in Workers, Wait(w) \/ Wake(w) PROVE CountersExact'
  <2>1. UNCHANGED <<queues, started, running>>
    BY <1>3 DEF Wait, Wake, loop
  <2>2. In("none")' = In("none") /\ In("execute")' = In("execute")
    BY <1>3, WaitMoves, WakeMoves DEF Wake
  <2> QED
    BY <2>1, <2>2, CountersKept
<1>4. ASSUME etp_maybe_start_thread, StartThread PROVE CountersExact'
  <2>1. n' = n + 1 /\ e' = e
    BY <1>4, StartMoves
  <2>2. started' = started + 1 /\ UNCHANGED queues /\ running' = running
    BY <1>4 DEF etp_maybe_start_thread, StartThread
  <2> QED
    BY <1>0, <2>1, <2>2 DEF CountersExact, queues
<1>5. ASSUME etp_maybe_start_thread, UNCHANGED <<started, worker, job>> PROVE CountersExact'
  <2>1. In("none")' = In("none") /\ In("execute")' = In("execute")
    BY <1>5 DEF In
  <2> QED
    BY <1>5, <2>1, CountersKept DEF etp_maybe_start_thread
<1>6. CASE Shift
  <2>1. Len(Tail(res_queue)) = Len(res_queue) - 1 /\ Len(res_queue) \in Nat \ {0}
        /\ Head(res_queue) \in Reqs
    BY <1>0, <1>6, TailOnce DEF Shift
  <2>2. taken(running) = 0 /\ taken(running') = 1
    BY <1>6, <2>1 DEF Shift, ControlInv, PoolAssumption
  <2>3. e' = e /\ n' = n
    BY <1>6 DEF Shift, threads, In
  <2>4. /\ nready' = nready /\ npending' = npending - 1 /\ nreqs' = nreqs
        /\ started' = started /\ req_queue' = req_queue /\ res_queue' = Tail(res_queue)
    BY <1>6 DEF Shift, threads
  <2>5. nreqs' = Len(req_queue') + e' + Len(res_queue') + taken(running')
    BY <1>0, <2>1, <2>2, <2>3, <2>4
  <2> QED
    BY <1>0, <2>1, <2>3, <2>4, <2>5 DEF CountersExact
<1>7. CASE Finish
  <2>1. taken(running) = 1 /\ taken(running') = 0
    BY <1>7 DEF Finish, ControlInv
  <2>2. e' = e /\ n' = n
    BY <1>7 DEF Finish, threads, In
  <2>3. /\ nready' = nready /\ npending' = npending /\ nreqs' = nreqs - 1
        /\ started' = started /\ req_queue' = req_queue /\ res_queue' = res_queue
    BY <1>7 DEF Finish, threads
  <2>4. nreqs' = Len(req_queue') + e' + Len(res_queue') + taken(running')
    BY <1>0, <2>1, <2>2, <2>3
  <2> QED
    BY <1>0, <2>2, <2>3, <2>4 DEF CountersExact
<1>8. ASSUME NEW r \in Reqs, uv_queue_work(r) PROVE CountersExact'
  <2>1. r \notin ToSet(req_queue)
    BY <1>8 DEF uv_queue_work, Idle, Outstanding
  <2>2. Len(Append(req_queue, r)) = Len(req_queue) + 1
    BY <1>0, <2>1, AppendOnce
  <2>3. In("none")' = In("none") /\ In("execute")' = In("execute")
    <3>1. CASE UNCHANGED worker
      BY <3>1 DEF In
    <3>2. ASSUME NEW w \in In("wait"), worker' = [worker EXCEPT ![w] = "take"]
          PROVE  In("none")' = In("none") /\ In("execute")' = In("execute")
      <4>1. w \in Workers /\ worker[w] = "wait"
        BY <3>2 DEF In
      <4> QED
        BY <3>2, <4>1, WakeMoves
    <3> QED
      BY <1>8, <3>1, <3>2 DEF uv_queue_work
  <2>4. e' = e /\ n' = n
    BY <2>3
  <2>5. /\ nready' = nready + 1 /\ npending' = npending /\ nreqs' = nreqs + 1
        /\ started' = started /\ running' = running /\ res_queue' = res_queue
        /\ req_queue' = Append(req_queue, r)
    BY <1>8 DEF uv_queue_work
  <2>6. nreqs' = Len(req_queue') + e' + Len(res_queue') + taken(running')
    <3>1. Len(req_queue') = Len(req_queue) + 1
      BY <2>2, <2>5
    <3>2. Len(res_queue') = Len(res_queue) /\ taken(running') = taken(running) /\ nreqs' = nreqs + 1
      BY <2>5
    <3>3. /\ nreqs = Len(req_queue) + e + Len(res_queue) + taken(running)
          /\ Len(req_queue) \in Nat /\ Len(res_queue) \in Nat /\ e \in Nat /\ taken(running) \in Nat
      BY <1>0
    <3>4. e' = e
      BY <2>4
    <3> HIDE DEF e, taken
    <3> QED
      BY <3>1, <3>2, <3>3, <3>4
  <2> QED
    BY <1>0, <2>2, <2>4, <2>5, <2>6 DEF CountersExact
<1>9. ASSUME UNCHANGED <<queues, threads>>, running' = NoReq <=> running = NoReq
      PROVE  CountersExact'
  BY <1>9, CountersKept DEF threads, In
<1>10. CASE ShiftNothing \/ ReturnAtLimit
  <2>1. running = NoReq /\ running' = NoReq
    BY <1>10, ReturnsFacts DEF ShiftNothing, ReturnAtLimit, ControlInv
  <2> QED
    BY <1>9, <1>10, <2>1 DEF ShiftNothing, ReturnAtLimit
<1>11. CASE \/ UNCHANGED vars \/ Return \/ Exit \/ uv_run
            \/ uv_eio_do_poll \/ uv_eio_want_poll_notifier_cb \/ uv_eio_done_poll_notifier_cb
            \/ uv_queue_work_error \/ uv_eio_init
  BY <1>9, <1>11 DEF Return, Exit, uv_run, uv_eio_do_poll,
     uv_eio_want_poll_notifier_cb, uv_eio_done_poll_notifier_cb, eio_poll,
     uv_queue_work_error, uv_eio_init, vars, loop
<1>12. CASE etp_maybe_start_thread
  BY <1>4, <1>5, <1>12 DEF etp_maybe_start_thread, CreateFails, threads
<1> QED
  BY <1>1, <1>2, <1>3, <1>6, <1>7, <1>8, <1>10, <1>11, <1>12 DEF Next, Pool, Loop, User

-----------------------------------------------------------------------------
(* The invariant that the five parts make is inductive.                    *)
PoolIInv == TypeOK /\ PoolInv

(* Nothing is queued, started or counted at first.                         *)
LEMMA PoolInit ==
  ASSUME PoolAssumption, Init
  PROVE  PoolIInv
<1> USE DEF Init
<1>1. TypeOK
  <2>1. QueuesTypeOK
    BY EmptySeq DEF QueuesTypeOK
  <2>2. ThreadsTypeOK
    BY DEF ThreadsTypeOK
  <2>b. poller \in BOOLEAN /\ inited \in BOOLEAN /\ starting \in BOOLEAN
    OBVIOUS
  <2>n. want \in 0..2 /\ done \in 0..2
    OBVIOUS
  <2>m. maxreqs \in 0..MaxPoll
    BY DEF PoolAssumption
  <2>3. NotifyTypeOK
    BY <2>b, <2>n DEF NotifyTypeOK
  <2>4. LoopTypeOK
    BY <2>b, <2>m DEF LoopTypeOK
  <2>5. RefsTypeOK
    BY DEF RefsTypeOK, PoolAssumption
  <2> QED
    BY <2>1, <2>2, <2>3, <2>4, <2>5 DEF TypeOK
<1>2. In("none") = Workers /\ In("execute") = {}
  BY DEF In
<1>3. ControlInv
  BY <1>2 DEF ControlInv, PoolAssumption
<1>4. CountersExact
  <2>1. Cardinality(In("execute")) = 0 /\ Cardinality(Workers \ In("none")) = 0
    BY <1>2, FS_EmptySet
  <2>2. Len(req_queue) = 0 /\ Len(res_queue) = 0
    BY EmptySeq
  <2> QED
    BY <2>1, <2>2 DEF CountersExact
<1>5. RefsExact
  BY DEF RefsExact
<1>6. OnePlace
  <2>1. DOMAIN req_queue = {} /\ DOMAIN res_queue = {}
    BY EmptySeq, LenProperties
  <2>2. ToSet(req_queue) = {} /\ ToSet(res_queue) = {} /\ Executing = {}
    BY <1>2, <2>1 DEF ToSet, Executing
  <2> QED
    BY <1>2, <2>1, <2>2 DEF OnePlace, IsInjective
<1> QED
  BY <1>1, <1>3, <1>4, <1>5, <1>6 DEF PoolIInv, PoolInv, ResultsNotified

(* Every step keeps the five parts.                                        *)
LEMMA PoolStep ==
  ASSUME PoolAssumption, PoolIInv, [Next]_vars
  PROVE  PoolIInv'
BY PoolType, ControlStep, CountersStep, RefsStep, OnePlaceStep, NotifiedStep
   DEF PoolIInv, PoolInv

(* libeio's counters agree with its queues and threads, the references of  *)
(* the loop with the requests, a request is in one place, and no result    *)
(* lies unseen, for any number of requests and threads.                    *)
THEOREM PoolAccounts == Spec => []PoolExact
<1>1. Init => PoolIInv
  BY PoolAssumption, PoolInit
<1>2. PoolIInv /\ [Next]_vars => PoolIInv'
  BY PoolAssumption, PoolStep
<1>3. PoolIInv => PoolExact
  BY DEF PoolIInv, PoolExact
<1> QED
  BY <1>1, <1>2, <1>3, PTL DEF Spec

-----------------------------------------------------------------------------
(* Threads that sleep.                                                     *)
LEMMA SleepStep ==
  ASSUME PoolAssumption, PoolIInv, NoneSleeps, [Next]_vars
  PROVE  NoneSleeps'
<1> DEFINE k == Cardinality(In("take"))
<1>0. /\ TypeOK /\ ControlInv /\ OnePlace
      /\ req_queue \in Seq(Reqs) /\ Len(req_queue) \in Nat /\ k \in Nat
      /\ In("wait") # {} => Len(req_queue) <= k
  BY InFinite, LenProperties
  DEF PoolIInv, PoolInv, TypeOK, QueuesTypeOK, NoneSleeps
<1>1. ASSUME NEW w \in Workers, Take(w) PROVE NoneSleeps'
  <2>1. Len(Tail(req_queue)) = Len(req_queue) - 1
    BY <1>0, <1>1, TailOnce DEF Take, OnePlace
  <2>2. req_queue' = Tail(req_queue)
    BY <1>1 DEF Take
  <2>3. In("wait")' = In("wait") /\ k' = k - 1
    BY <1>0, <1>1, TakeMoves
  <2>4. Len(req_queue') = Len(req_queue) - 1
    BY <2>1, <2>2
  <2> QED
    BY <1>0, <2>3, <2>4 DEF NoneSleeps
<1>2. ASSUME NEW w \in Workers, Wait(w) PROVE NoneSleeps'
  <2>1. req_queue' = <<>> /\ Len(<<>>) = 0
    BY <1>2, EmptySeq DEF Wait, queues
  <2>2. \A S : S \in SUBSET Workers => Cardinality(S) \in Nat
    BY FS_Subset, FS_CardinalityType DEF PoolAssumption
  <2>3. k' >= 0
    BY <2>2 DEF In
  <2> QED
    BY <2>1, <2>3 DEF NoneSleeps
<1>3. ASSUME NEW w \in Workers, Complete(w) PROVE NoneSleeps'
  <2>1. In("wait")' = In("wait") /\ k' = k + 1
    BY <1>0, <1>3, CompleteMoves
  <2>2. req_queue' = req_queue
    BY <1>3 DEF Complete
  <2> QED
    BY <1>0, <2>1, <2>2 DEF NoneSleeps
<1>4. ASSUME NEW w \in Workers, worker[w] = "wait", worker' = [worker EXCEPT ![w] = "take"],
             \/ req_queue' = req_queue
             \/ \E r \in Reqs : req_queue' = Append(req_queue, r)
      PROVE  NoneSleeps'
  <2>1. In("wait") # {}
    BY <1>4 DEF In
  <2>2. k' = k + 1
    BY <1>0, <1>4, WakeMoves
  <2>3. Len(req_queue') <= Len(req_queue) + 1
    BY <1>0, <1>4, AppendProperties
  <2>4. Len(req_queue') \in Nat
    BY <1>0, <1>4, AppendProperties
  <2> QED
    BY <1>0, <2>1, <2>2, <2>3, <2>4 DEF NoneSleeps
<1>5. ASSUME NEW w \in Workers, Wake(w) PROVE NoneSleeps'
  BY <1>4, <1>5 DEF Wake, queues
<1>6. ASSUME NEW r \in Reqs, uv_queue_work(r) PROVE NoneSleeps'
  <2>1. CASE In("wait") = {} /\ UNCHANGED worker
    BY <2>1 DEF In, NoneSleeps
  <2>2. ASSUME NEW w \in In("wait"), worker' = [worker EXCEPT ![w] = "take"]
        PROVE  NoneSleeps'
    <3>1. w \in Workers /\ worker[w] = "wait"
      BY DEF In
    <3>2. req_queue' = Append(req_queue, r)
      BY <1>6 DEF uv_queue_work
    <3> QED
      BY <1>4, <2>2, <3>1, <3>2
  <2> QED
    BY <1>6, <2>1, <2>2 DEF uv_queue_work
<1>7. ASSUME UNCHANGED <<req_queue, worker>> PROVE NoneSleeps'
  BY <1>7 DEF NoneSleeps, In
<1>8. CASE etp_maybe_start_thread
  <2>1. CASE StartThread
    <3>1. In("wait")' = In("wait") /\ k' = k + 1
      BY <1>0, <2>1, StartMoves
    <3>2. req_queue' = req_queue
      BY <1>8 DEF etp_maybe_start_thread, queues
    <3> QED
      BY <1>0, <3>1, <3>2 DEF NoneSleeps
  <2> QED
    BY <1>7, <1>8, <2>1 DEF etp_maybe_start_thread, CreateFails, queues, threads
<1>9. CASE \/ UNCHANGED vars \/ Shift \/ ShiftNothing \/ Finish \/ Return \/ ReturnAtLimit
           \/ Exit \/ uv_run
           \/ uv_eio_do_poll \/ uv_eio_want_poll_notifier_cb \/ uv_eio_done_poll_notifier_cb
           \/ uv_queue_work_error \/ uv_eio_init
  BY <1>7, <1>9 DEF Shift, ShiftNothing, Finish, Return, ReturnAtLimit, Exit, uv_run,
     uv_eio_do_poll, uv_eio_want_poll_notifier_cb, uv_eio_done_poll_notifier_cb,
     uv_queue_work_error, uv_eio_init, vars, queues, threads
<1> QED
  BY <1>1, <1>2, <1>3, <1>5, <1>6, <1>8, <1>9 DEF Next, Pool, Loop, User

(* While a thread waits, those that are awake are enough for the queue: a  *)
(* request is never left to threads that all sleep.                        *)
THEOREM NoThreadSleeps == Spec => []NoneSleeps
<1>1. Init => PoolIInv /\ NoneSleeps
  <2>1. Init => In("wait") = {}
    BY DEF Init, In
  <2> QED
    BY <2>1, PoolAssumption, PoolInit DEF NoneSleeps
<1>2. PoolIInv /\ NoneSleeps /\ [Next]_vars => PoolIInv' /\ NoneSleeps'
  BY PoolAssumption, PoolStep, SleepStep
<1> QED
  BY <1>1, <1>2, PTL DEF Spec

-----------------------------------------------------------------------------
(* The contract, without its fairness.                                     *)
worked == (IF running = NoReq THEN <<>> ELSE <<running>>) \o res_queue

(* What moves no request and neither enters nor leaves uv_run.             *)
LEMMA Stutters ==
  ASSUME UNCHANGED <<req_queue, res_queue, running, at>>, Executing' = Executing
  PROVE  UNCHANGED Contract!vars
BY DEF Contract!vars

(* The request taken out is still the first of worked.                     *)
LEMMA HeadFirst ==
  ASSUME NEW S, NEW s \in Seq(S), s # <<>>
  PROVE  <<Head(s)>> \o Tail(s) = s
<1>1. /\ Head(s) \in S /\ Head(s) = s[1] /\ Tail(s) \in Seq(S) /\ Len(Tail(s)) = Len(s) - 1
      /\ \A i \in 1..Len(Tail(s)) : Tail(s)[i] = s[i + 1]
      /\ Len(s) \in Nat \ {0}
  BY HeadTailProperties, LenProperties, EmptySeq
<1>2. <<Head(s)>> \in Seq(S) /\ Len(<<Head(s)>>) = 1 /\ <<Head(s)>>[1] = Head(s)
  BY <1>1
<1> DEFINE t == <<Head(s)>> \o Tail(s)
<1>3. /\ t \in Seq(S) /\ Len(t) = 1 + (Len(s) - 1)
      /\ \A i \in 1..(1 + (Len(s) - 1)) :
           t[i] = IF i <= 1 THEN <<Head(s)>>[i] ELSE Tail(s)[i - 1]
  BY <1>1, <1>2, ConcatProperties
<1>4. Len(t) = Len(s)
  BY <1>1, <1>3
<1>5. ASSUME NEW i \in 1..Len(t) PROVE t[i] = s[i]
  <2>1. CASE i = 1
    BY <1>1, <1>2, <1>3, <1>4, <2>1
  <2>2. CASE i # 1
    <3>1. i - 1 \in 1..Len(Tail(s)) /\ i \in 1..(1 + (Len(s) - 1)) /\ ~(i <= 1)
      BY <1>1, <1>4, <2>2
    <3>2. t[i] = Tail(s)[i - 1]
      BY <1>3, <3>1
    <3>3. Tail(s)[i - 1] = s[(i - 1) + 1] /\ (i - 1) + 1 = i
      BY <1>1, <3>1
    <3> QED
      BY <3>2, <3>3
  <2> QED
    BY <2>1, <2>2
<1> QED
  BY <1>3, <1>4, <1>5, SeqEqual

(* A worker that may take a request is one more than those that execute.   *)
LEMMA BelowLimit ==
  ASSUME PoolAssumption, PoolIInv, NEW w \in Workers, worker[w] = "take"
  PROVE  Cardinality(Executing) < Wanted
<1> DEFINE E == In("execute")
           S == Workers \ In("none")
<1>1. E \in SUBSET Workers /\ w \in S /\ w \notin E /\ E \cup {w} \in SUBSET S
  BY DEF In
<1>2. IsFiniteSet(E) /\ IsFiniteSet(S) /\ IsFiniteSet(E \cup {w})
  BY <1>1, InFinite, FS_AddElement
<1>3. Cardinality(E \cup {w}) = Cardinality(E) + 1
  BY <1>1, <1>2, FS_AddElement
<1>4. Cardinality(E \cup {w}) <= Cardinality(S)
  BY <1>1, <1>2, FS_Subset
<1>5. Cardinality(S) <= Wanted
  BY DEF PoolIInv, PoolInv, ControlInv, CountersExact
<1> DEFINE f == [v \in E |-> job[v]]
<1>6. f \in Surjection(E, Executing)
  BY DEF Surjection, Executing
<1>7. Cardinality(Executing) <= Cardinality(E) /\ IsFiniteSet(Executing)
  BY <1>2, <1>6, FS_Surjection
<1>8. /\ Cardinality(Executing) \in Nat /\ Cardinality(E) \in Nat /\ Cardinality(S) \in Nat
      /\ Wanted \in Nat
  BY <1>2, <1>7, FS_CardinalityType DEF PoolAssumption
<1> QED
  BY <1>3, <1>4, <1>5, <1>7, <1>8

(* What the contract calls worked, before and after a request is taken out *)
(* of res_queue.                                                           *)
LEMMA WorkedFacts ==
  ASSUME PoolAssumption, TypeOK
  PROVE  /\ running = NoReq => worked = res_queue
         /\ running # NoReq => worked = <<running>> \o res_queue
         /\ worked \in Seq(Reqs)
<1>1. res_queue \in Seq(Reqs) /\ running \in Reqs \cup {NoReq}
  BY DEF TypeOK, QueuesTypeOK, LoopTypeOK
<1>2. running = NoReq => worked = res_queue
  BY <1>1, ConcatEmptySeq DEF worked
<1>3. running # NoReq => worked = <<running>> \o res_queue
  BY DEF worked
<1>4. running # NoReq => <<running>> \in Seq(Reqs)
  BY <1>1
<1>5. running # NoReq => <<running>> \o res_queue \in Seq(Reqs)
  BY <1>1, <1>4, ConcatProperties
<1> QED
  BY <1>1, <1>2, <1>3, <1>5

(* Calling it back leaves the queue.                                       *)
LEMMA FrontOfPair ==
  ASSUME NEW S, NEW e \in S, NEW s \in Seq(S)
  PROVE  <<e>> \o s # <<>> /\ Tail(<<e>> \o s) = s
<1> DEFINE t == <<e>> \o s
<1>1. <<e>> \in Seq(S) /\ Len(<<e>>) = 1 /\ Len(s) \in Nat
  BY LenProperties
<1>2. /\ t \in Seq(S) /\ Len(t) = 1 + Len(s)
      /\ \A i \in 1..(1 + Len(s)) : t[i] = IF i <= 1 THEN <<e>>[i] ELSE s[i - 1]
  BY <1>1, ConcatProperties
<1>3. t # <<>>
  BY <1>1, <1>2, EmptySeq
<1>4. /\ Tail(t) \in Seq(S) /\ Len(Tail(t)) = Len(s)
      /\ \A i \in 1..Len(s) : Tail(t)[i] = t[i + 1]
  BY <1>1, <1>2, <1>3, HeadTailProperties
<1>5. ASSUME NEW i \in 1..Len(s) PROVE Tail(t)[i] = s[i]
  <2>1. i + 1 \in 1..(1 + Len(s)) /\ ~(i + 1 <= 1) /\ (i + 1) - 1 = i
    BY <1>1
  <2> QED
    BY <1>2, <1>4, <2>1
<1> QED
  BY <1>3, <1>4, <1>5, SeqEqual

(* What the contract has outstanding.                                      *)
LEMMA ContractOutstanding ==
  Contract!Outstanding = ToSet(req_queue) \cup Executing \cup ToSet(worked)
BY DEF Contract!Outstanding, Contract!ToSet, ToSet, worked

(* Take begins, Complete ends, the others stutter.                         *)
LEMMA RefinesWorker ==
  ASSUME PoolAssumption, PoolIInv, PoolIInv', NEW w \in Workers,
         Take(w) \/ Wait(w) \/ Wake(w) \/ Complete(w)
  PROVE  [Contract!Next]_(Contract!vars)
<1>0. TypeOK /\ ControlInv /\ ControlInv' /\ OnePlace /\ TypeOK'
  BY DEF PoolIInv, PoolInv
<1>1. CASE Take(w)
  <2>1. /\ req_queue # <<>> /\ req_queue' = Tail(req_queue)
        /\ res_queue' = res_queue /\ running' = running /\ at' = at
    BY <1>1 DEF Take, loop
  <2>2. Cardinality(Executing) < Wanted
    BY <1>1, BelowLimit DEF Take
  <2>3. Executing' = Executing \cup {Head(req_queue)}
    BY <1>0, <1>1, JobTaken
  <2>4. Contract!Begin
    <3>1. worked' = worked /\ (at' # "out") = (at # "out")
      BY <2>1 DEF worked
    <3>2. Contract!Cardinality(Executing) = Cardinality(Executing)
      BY DEF Contract!Cardinality, Cardinality
    <3> QED
      BY <2>1, <2>2, <2>3, <3>1, <3>2 DEF Contract!Begin, worked
  <2> QED
    BY <2>4 DEF Contract!Next
<1>2. CASE Wait(w) \/ Wake(w)
  <2>1. UNCHANGED <<req_queue, res_queue, running, at, job>>
    BY <1>2 DEF Wait, Wake, queues, loop
  <2> QED
    BY <1>0, <2>1, JobsKept, Stutters
<1>3. CASE Complete(w)
  <2>1. /\ req_queue' = req_queue /\ res_queue' = Append(res_queue, job[w])
        /\ running' = running /\ at' = at
    BY <1>3 DEF Complete, loop
  <2>2. job[w] \in Reqs /\ job[w] \in Executing /\ Executing' = Executing \ {job[w]}
    BY <1>0, <1>3, JobDone
  <2>3. res_queue \in Seq(Reqs) /\ running \in Reqs \cup {NoReq}
    BY <1>0 DEF TypeOK, QueuesTypeOK, LoopTypeOK
  <2>4. worked' = Append(worked, job[w])
    <3>1. CASE running = NoReq
      <4>1. worked = res_queue
        BY <1>0, <3>1, WorkedFacts
      <4>2. worked' = <<>> \o res_queue'
        BY <2>1, <3>1 DEF worked
      <4>3. res_queue' \in Seq(Reqs)
        BY <1>0 DEF TypeOK, QueuesTypeOK
      <4> QED
        BY <2>1, <4>1, <4>2, <4>3, ConcatEmptySeq
    <3>2. CASE running # NoReq
      <4>1. worked' = <<running>> \o Append(res_queue, job[w])
        BY <2>1, <3>2 DEF worked
      <4>2. <<running>> \in Seq(Reqs) /\ <<job[w]>> \in Seq(Reqs)
        BY <2>2, <2>3, <3>2
      <4>3. Append(res_queue, job[w]) = res_queue \o <<job[w]>>
        BY <2>2, <2>3, AppendIsConcat
      <4>4. Append(worked, job[w]) = worked \o <<job[w]>>
        BY <1>0, <2>2, WorkedFacts, AppendIsConcat
      <4>5. worked = <<running>> \o res_queue
        BY <3>2 DEF worked
      <4> QED
        BY <2>3, <4>1, <4>2, <4>3, <4>4, <4>5, ConcatAssociative
    <3> QED
      BY <3>1, <3>2
  <2>5. Contract!End(job[w])
    BY <2>1, <2>2, <2>4 DEF Contract!End, worked
  <2> QED
    BY <2>2, <2>5 DEF Contract!Next
<1> QED
  BY <1>1, <1>2, <1>3

(* Finish answers, Exit leaves with nothing outstanding.                   *)
LEMMA RefinesLoop ==
  ASSUME PoolAssumption, PoolIInv, PoolIInv', Loop
  PROVE  [Contract!Next]_(Contract!vars)
<1>0. /\ TypeOK /\ ControlInv /\ ControlInv' /\ OnePlace /\ TypeOK'
      /\ req_queue \in Seq(Reqs) /\ res_queue \in Seq(Reqs) /\ running \in Reqs \cup {NoReq}
  BY DEF PoolIInv, PoolInv, TypeOK, QueuesTypeOK, LoopTypeOK
<1>1. ASSUME UNCHANGED <<req_queue, res_queue, job, running>>,
             at' = at \/ (at # "out" /\ at' # "out")
      PROVE  UNCHANGED Contract!vars
  <2>1. Executing' = Executing
    BY <1>0, <1>1, JobsKept
  <2>2. (at' # "out") = (at # "out")
    BY <1>1
  <2> QED
    BY <1>1, <2>1, <2>2 DEF Contract!vars
<1>2. CASE etp_maybe_start_thread
  BY <1>1, <1>2 DEF etp_maybe_start_thread, StartThread, CreateFails, threads, queues
<1>3. CASE Shift
  <2>1. /\ UNCHANGED req_queue /\ UNCHANGED job /\ at # "out" /\ at' # "out"
        /\ res_queue # <<>> /\ running' = Head(res_queue) /\ res_queue' = Tail(res_queue)
        /\ running = NoReq /\ running' # NoReq
    BY <1>0, <1>3 DEF Shift, threads, ControlInv
  <2>2. worked' = <<Head(res_queue)>> \o Tail(res_queue)
    BY <2>1 DEF worked
  <2>3. worked' = worked
    BY <1>0, <2>1, <2>2, HeadFirst, WorkedFacts
  <2>4. Executing' = Executing
    BY <1>0, <2>1, JobsKept
  <2>5. (at' # "out") = (at # "out")
    BY <2>1
  <2> QED
    BY <2>1, <2>3, <2>4, <2>5 DEF Contract!vars, worked
<1>4. CASE ShiftNothing \/ ReturnAtLimit
  <2>1. running = NoReq /\ running' = NoReq /\ at # "out" /\ at' # "out"
    BY <1>0, <1>4, ReturnsFacts DEF ShiftNothing, ReturnAtLimit, ControlInv
  <2>2. UNCHANGED <<req_queue, res_queue, job>>
    BY <1>4 DEF ShiftNothing, ReturnAtLimit, queues, threads
  <2> QED
    BY <1>1, <2>1, <2>2
<1>5. CASE Finish
  <2>1. /\ UNCHANGED <<req_queue, res_queue, job>> /\ at # "out" /\ at' # "out"
        /\ running # NoReq /\ running' = NoReq
    BY <1>0, <1>5 DEF Finish, threads, ControlInv
  <2>2. worked = <<running>> \o res_queue /\ worked' = res_queue
    BY <1>0, <2>1, WorkedFacts DEF worked
  <2>3. worked # <<>> /\ Tail(worked) = res_queue
    BY <1>0, <2>1, <2>2, FrontOfPair
  <2>4. Executing' = Executing
    BY <1>0, <2>1, JobsKept
  <2>5. Contract!Answer
    BY <2>1, <2>2, <2>3, <2>4 DEF Contract!Answer, worked
  <2> QED
    BY <2>5 DEF Contract!Next
<1>6. CASE Return \/ uv_eio_do_poll \/ uv_eio_want_poll_notifier_cb \/ uv_eio_done_poll_notifier_cb
  BY <1>1, <1>6 DEF Return, uv_eio_do_poll, uv_eio_want_poll_notifier_cb,
     uv_eio_done_poll_notifier_cb, eio_poll, queues, threads
<1>7. CASE Exit
  <2>1. /\ at = "loop" /\ at' = "out" /\ refs = 0
        /\ UNCHANGED <<req_queue, res_queue, job, running>>
    BY <1>7 DEF Exit, queues, threads
  <2>2. running = NoReq
    BY <1>0, <2>1 DEF ControlInv
  <2>a. /\ Len(req_queue) \in Nat /\ Len(res_queue) \in Nat
        /\ Cardinality(In("execute")) \in Nat
    BY <1>0, InFinite, LenProperties
  <2>b. leaked \in Nat
    BY <1>0 DEF TypeOK, RefsTypeOK, PoolAssumption
  <2>c. nreqs = Len(req_queue) + Cardinality(In("execute")) + Len(res_queue)
    BY <2>2, <2>a DEF PoolIInv, PoolInv, CountersExact
  <2>3. /\ Len(req_queue) \in Nat /\ Len(res_queue) \in Nat
        /\ Cardinality(In("execute")) \in Nat /\ leaked \in Nat
        /\ nreqs = Len(req_queue) + Cardinality(In("execute")) + Len(res_queue)
    BY <2>a, <2>b, <2>c
  <2>4. nreqs <= 0
    <3>1. CASE poller
      BY <2>1, <2>3, <3>1 DEF PoolIInv, PoolInv, RefsExact
    <3>2. CASE ~poller
      BY <2>1, <2>3, <3>2 DEF PoolIInv, PoolInv, RefsExact
    <3> QED
      BY <3>1, <3>2
  <2>5. Len(req_queue) = 0 /\ Cardinality(In("execute")) = 0 /\ Len(res_queue) = 0
    BY <2>3, <2>4
  <2>6. req_queue = <<>> /\ res_queue = <<>> /\ In("execute") = {}
    BY <1>0, <2>5, EmptySeq, InFinite, FS_EmptySet
  <2>7. Executing = {} /\ worked = <<>>
    BY <1>0, <2>2, <2>6, WorkedFacts DEF Executing
  <2>8. ToSet(<<>>) = {}
    BY EmptySeq, LenProperties DEF ToSet
  <2>9. Contract!Outstanding = {}
    BY <2>6, <2>7, <2>8, ContractOutstanding
  <2>10. Executing' = Executing
    BY <1>0, <2>1, JobsKept
  <2>11. Contract!Leave
    BY <2>1, <2>9, <2>10 DEF Contract!Leave
  <2> QED
    BY <2>11 DEF Contract!Next
<1> QED
  BY <1>2, <1>3, <1>4, <1>5, <1>6, <1>7 DEF Loop

(* uv_run enters and uv_queue_work submits.                                *)
LEMMA RefinesUser ==
  ASSUME PoolAssumption, PoolIInv, PoolIInv', User
  PROVE  [Contract!Next]_(Contract!vars)
<1>0. /\ TypeOK /\ ControlInv /\ ControlInv' /\ OnePlace
      /\ req_queue \in Seq(Reqs) /\ res_queue \in Seq(Reqs) /\ running \in Reqs \cup {NoReq}
  BY DEF PoolIInv, PoolInv, TypeOK, QueuesTypeOK, LoopTypeOK
<1>1. CASE uv_queue_work_error \/ uv_eio_init
  <2>1. UNCHANGED <<req_queue, res_queue, running, at, job>>
    BY <1>1 DEF uv_queue_work_error, uv_eio_init, queues, threads, loop
  <2> QED
    BY <1>0, <2>1, JobsKept, Stutters
<1>2. CASE uv_run
  <2>1. at = "out" /\ at' = "loop" /\ UNCHANGED <<req_queue, res_queue, running, job>>
    BY <1>2 DEF uv_run, queues, threads
  <2>2. Executing' = Executing
    BY <1>0, <2>1, JobsKept
  <2>3. Contract!Enter
    BY <2>1, <2>2 DEF Contract!Enter
  <2> QED
    BY <2>3 DEF Contract!Next
<1>3. ASSUME NEW r \in Reqs, uv_queue_work(r) PROVE [Contract!Next]_(Contract!vars)
  <2>1. /\ req_queue' = Append(req_queue, r) /\ UNCHANGED <<res_queue, running, at, job>>
        /\ r \notin ToSet(req_queue) \cup ToSet(res_queue) \cup Executing \cup {running}
    BY <1>3 DEF uv_queue_work, Idle, Outstanding, PoolAssumption
  <2>2. Executing' = Executing
    BY <1>0, <2>1, JobsKept
  <2>3. r \notin ToSet(worked)
    <3>1. CASE running = NoReq
      BY <1>0, <2>1, <3>1, WorkedFacts
    <3>2. CASE running # NoReq
      <4>1. worked = <<running>> \o res_queue /\ <<running>> \in Seq(Reqs) /\ Len(<<running>>) = 1
        BY <1>0, <3>2, WorkedFacts
      <4>2. /\ DOMAIN worked = 1..(1 + Len(res_queue)) /\ Len(res_queue) \in Nat
            /\ \A i \in 1..(1 + Len(res_queue)) :
                 worked[i] = IF i <= 1 THEN <<running>>[i] ELSE res_queue[i - 1]
        BY <1>0, <4>1, ConcatProperties, LenProperties
      <4>3. ASSUME NEW i \in DOMAIN worked PROVE worked[i] # r
        <5>1. CASE i = 1
          BY <2>1, <4>2, <5>1
        <5>2. CASE i # 1
          <6>1. i - 1 \in DOMAIN res_queue /\ worked[i] = res_queue[i - 1]
            BY <1>0, <4>2, <4>3, <5>2, LenProperties
          <6> QED
            BY <2>1, <6>1 DEF ToSet
        <5> QED
          BY <5>1, <5>2
      <4> QED
        BY <4>3 DEF ToSet
    <3> QED
      BY <3>1, <3>2
  <2>4. r \notin Contract!Outstanding
    BY <2>1, <2>3, ContractOutstanding
  <2>5. Contract!Submit(r)
    BY <2>1, <2>2, <2>4 DEF Contract!Submit
  <2> QED
    BY <2>5 DEF Contract!Next
<1> QED
  BY <1>1, <1>2, <1>3 DEF User

(* The pool keeps the contract of uv_queue_work: the order of the queue,   *)
(* the limit on the threads, one callback for each request and no return   *)
(* from uv_run while one is due.                                           *)
THEOREM PoolKeepsContract == Spec => Contract!Spec
<1>1. Init => Contract!Init
  <2>1. Init => Executing = {}
    BY DEF Init, Executing, In
  <2>2. Init => worked = <<>>
    BY ConcatEmptySeq, EmptySeq DEF Init, worked
  <2> QED
    BY <2>1, <2>2 DEF Init, Contract!Init, worked
<1>2. PoolIInv /\ PoolIInv' /\ [Next]_vars => [Contract!Next]_(Contract!vars)
  <2>1. ASSUME PoolIInv, PoolIInv', UNCHANGED vars PROVE UNCHANGED Contract!vars
    BY <2>1 DEF vars, queues, threads, loop, Contract!vars, Executing, In
  <2> QED
    BY <2>1, PoolAssumption, RefinesWorker, RefinesLoop, RefinesUser DEF Next, Pool
<1>3. Init => PoolIInv
  BY PoolAssumption, PoolInit
<1>4. PoolIInv /\ [Next]_vars => PoolIInv'
  BY PoolAssumption, PoolStep
<1> QED
  BY <1>1, <1>2, <1>3, <1>4, PTL DEF Spec, Contract!Spec

-----------------------------------------------------------------------------
(* The notifiers.                                                          *)

(* A send makes the one callback or the second one due.                    *)
LEMMA SentFacts ==
  ASSUME NEW n \in 0..2, NEW m \in Sent(n)
  PROVE  m \in 1..2 /\ m >= n /\ (n = 0 => m = 1)
BY DEF Sent

(* One of the notifiers is sent to.                                        *)
LEMMA NotifierSent ==
  ASSUME inited, UNCHANGED inited, want \in 0..2, done \in 0..2,
         \/ want' \in Sent(want) /\ UNCHANGED done
         \/ done' \in Sent(done) /\ UNCHANGED want
  PROVE  Notifiers!Next
<1> DEFINE coming == [a \in {"want", "done"} |-> IF a = "want" THEN want ELSE done]
<1>1. CASE want' \in Sent(want) /\ UNCHANGED done
  <2>1. want' \in 1..2 /\ want' >= want /\ (want = 0 => want' = 1)
    BY <1>1, SentFacts
  <2>2. /\ coming["want"] = want
        /\ coming' = [coming EXCEPT !["want"] = want']
    BY <1>1
  <2>3. Notifiers!Send("want")
    BY <2>1, <2>2 DEF Notifiers!Send
  <2> QED
    BY <2>3 DEF Notifiers!Next
<1>2. CASE done' \in Sent(done) /\ UNCHANGED want
  <2>1. done' \in 1..2 /\ done' >= done /\ (done = 0 => done' = 1)
    BY <1>2, SentFacts
  <2>2. /\ coming["done"] = done
        /\ coming' = [coming EXCEPT !["done"] = done']
    BY <1>2
  <2>3. Notifiers!Send("done")
    BY <2>1, <2>2 DEF Notifiers!Send
  <2> QED
    BY <2>3 DEF Notifiers!Next
<1> QED
  BY <1>1, <1>2

(* Every step is one of the contract of the notifiers, or a stutter.       *)
LEMMA RefinesNotifiers ==
  ASSUME TypeOK, ControlInv, [Next]_vars
  PROVE  [Notifiers!Next]_(Notifiers!vars)
<1>0. want \in 0..2 /\ done \in 0..2 /\ inited \in BOOLEAN
  BY DEF TypeOK, NotifyTypeOK
<1>1. UNCHANGED <<want, done, inited>> => UNCHANGED Notifiers!vars
  BY DEF Notifiers!vars
<1>2. ASSUME NEW w \in Workers, Complete(w) PROVE [Notifiers!Next]_(Notifiers!vars)
  <2>1. inited /\ UNCHANGED <<done, inited>>
    BY <1>2 DEF Complete, ControlInv, In
  <2>2. want' \in Sent(want) \/ want' = want
    BY <1>2 DEF Complete
  <2> QED
    BY <1>0, <1>1, <2>1, <2>2, NotifierSent
<1>3. CASE Shift
  <2>1. inited /\ UNCHANGED <<want, inited>>
    BY <1>3 DEF Shift, ControlInv
  <2>2. done' \in Sent(done) \/ done' = done
    BY <1>3 DEF Shift
  <2> QED
    BY <1>0, <1>1, <2>1, <2>2, NotifierSent
<1>4. CASE uv_eio_want_poll_notifier_cb
  <2>1. want > 0 /\ want' = want - 1 /\ inited /\ UNCHANGED <<done, inited>>
    BY <1>0, <1>4 DEF uv_eio_want_poll_notifier_cb, ControlInv
  <2>2. Notifiers!Call("want")
    BY <2>1 DEF Notifiers!Call
  <2> QED
    BY <2>2 DEF Notifiers!Next
<1>5. CASE uv_eio_done_poll_notifier_cb
  <2>1. done > 0 /\ done' = done - 1 /\ inited /\ UNCHANGED <<want, inited>>
    BY <1>0, <1>5 DEF uv_eio_done_poll_notifier_cb, ControlInv
  <2>2. Notifiers!Call("done")
    BY <2>1 DEF Notifiers!Call
  <2> QED
    BY <2>2 DEF Notifiers!Next
<1>6. ASSUME inited', UNCHANGED <<want, done>> PROVE [Notifiers!Next]_(Notifiers!vars)
  <2>1. CASE inited
    BY <1>1, <1>6, <2>1
  <2>2. CASE ~inited
    <3>1. want = 0 /\ done = 0
      BY <2>2 DEF ControlInv
    <3>2. Notifiers!Open({"want", "done"})
      BY <1>6, <2>2, <3>1 DEF Notifiers!Open
    <3> QED
      BY <3>2 DEF Notifiers!Next
  <2> QED
    BY <2>1, <2>2
<1>7. CASE User
  <2>1. \/ UNCHANGED <<want, done, inited>>
        \/ inited' /\ UNCHANGED <<want, done>>
    BY <1>7 DEF User, uv_run, uv_eio_init, uv_queue_work_error, uv_queue_work, notify
  <2> QED
    BY <1>1, <1>6, <2>1
<1>8. ASSUME NEW w \in Workers, Take(w) \/ Wait(w) \/ Wake(w)
      PROVE  UNCHANGED <<want, done, inited>>
  BY <1>8 DEF Take, Wait, Wake, notify
<1>9. CASE \/ etp_maybe_start_thread \/ ShiftNothing \/ Finish \/ Return \/ ReturnAtLimit
           \/ Exit \/ uv_eio_do_poll \/ UNCHANGED vars
  BY <1>1, <1>9 DEF etp_maybe_start_thread, ShiftNothing, Finish, Return, ReturnAtLimit, Exit,
     uv_eio_do_poll, vars, notify
<1> QED
  BY <1>1, <1>2, <1>3, <1>4, <1>5, <1>7, <1>8, <1>9 DEF Next, Pool, Loop

(* What the model of the pool lets its two notifiers do is what            *)
(* WakeupContract allows, which is proved of async handles                 *)
(* (HandlesKeepContract in UvAsync_proof).                                 *)
THEOREM NotifiersAreHandles == Spec => UsesNotifiers
<1>1. Init => Notifiers!Init
  BY DEF Init, Notifiers!Init
<1>2. PoolIInv /\ [Next]_vars => [Notifiers!Next]_(Notifiers!vars)
  BY RefinesNotifiers DEF PoolIInv, PoolInv
<1>3. Init => PoolIInv
  BY PoolAssumption, PoolInit
<1>4. PoolIInv /\ [Next]_vars => PoolIInv'
  BY PoolAssumption, PoolStep
<1> QED
  BY <1>1, <1>2, <1>3, <1>4, PTL DEF Spec, UsesNotifiers, Notifiers!Spec

-----------------------------------------------------------------------------
(* Threads for the work.  While etp_maybe_start_thread is still to come,   *)
(* one may be missing.                                                     *)
Lacking(n) ==
  ~failed => \/ started = Wanted
             \/ Len(req_queue) + Cardinality(In("execute")) <= started + n

StartInv == /\ starting => Lacking(1)
            /\ ~starting => Lacking(0)

(* At most one thread lacks, and only until one is started.                *)
LEMMA StartStep ==
  ASSUME PoolAssumption, PoolIInv, StartInv, [Next]_vars
  PROVE  StartInv'
<1> DEFINE e == Cardinality(In("execute"))
           queued == Len(req_queue)
           Short(n) == ~failed => started = Wanted \/ queued + e <= started + n
<1>0. /\ TypeOK /\ ControlInv /\ OnePlace /\ CountersExact
      /\ req_queue \in Seq(Reqs) /\ queued \in Nat /\ e \in Nat
      /\ started \in Nat /\ Wanted \in Nat /\ started <= Wanted
  BY InFinite, LenProperties
  DEF PoolIInv, PoolInv, TypeOK, QueuesTypeOK, ThreadsTypeOK, ControlInv, PoolAssumption
<1>a. (starting => Short(1)) /\ (~starting => Short(0))
  BY DEF StartInv, Lacking
<1>b. (starting => Short(1))' /\ (~starting => Short(0))' => StartInv'
  BY DEF StartInv, Lacking
<1>c. Short(0) => Short(1)
  BY <1>0
<1>1. ASSUME UNCHANGED <<started, failed>>, queued' + e' = queued + e,
             starting' \in {TRUE, starting}
      PROVE  StartInv'
  <2>1. Short(0)' = Short(0) /\ Short(1)' = Short(1)
    BY <1>1
  <2> QED
    BY <1>1, <1>a, <1>b, <1>c, <2>1
<1>2. ASSUME NEW w \in Workers, Take(w) PROVE StartInv'
  <2>1. Len(Tail(req_queue)) = Len(req_queue) - 1 /\ req_queue' = Tail(req_queue)
    BY <1>0, <1>2, TailOnce DEF Take, OnePlace
  <2>2. queued' = queued - 1
    BY <2>1
  <2>3. e' = e + 1
    BY <1>0, <1>2, TakeMoves
  <2>4. UNCHANGED <<started, failed>> /\ starting' = starting
    BY <1>2 DEF Take, loop
  <2>5. queued' + e' = queued + e
    BY <1>0, <2>2, <2>3
  <2> QED
    BY <1>1, <2>4, <2>5
<1>3. ASSUME NEW w \in Workers, Complete(w) PROVE StartInv'
  <2>1. UNCHANGED <<started, failed, req_queue, starting>>
    BY <1>3 DEF Complete, loop
  <2>2. e' = e - 1
    BY <1>0, <1>3, CompleteMoves
  <2>3. \A n \in {0, 1} : Short(n) => Short(n)'
    BY <1>0, <2>1, <2>2
  <2> QED
    BY <1>a, <1>b, <2>1, <2>3
<1>4. ASSUME NEW w \in Workers, Wait(w) \/ Wake(w) PROVE StartInv'
  <2>1. In("execute")' = In("execute")
    BY <1>0, <1>4, WaitMoves, WakeMoves DEF Wake
  <2>2. UNCHANGED <<started, failed, req_queue, starting>>
    BY <1>4 DEF Wait, Wake, queues, loop
  <2> QED
    BY <1>1, <2>1, <2>2
<1>5. CASE etp_maybe_start_thread
  <2>0. ~starting' /\ UNCHANGED req_queue /\ starting
    BY <1>5 DEF etp_maybe_start_thread, queues
  <2>1. CASE failed'
    BY <1>b, <2>0, <2>1
  <2>2. CASE StartThread
    <3>1. e' = e /\ started' = started + 1 /\ UNCHANGED failed
      BY <1>0, <2>2, StartMoves DEF StartThread
    <3>2. MayStart
      BY <1>5, <2>2, <3>1, <1>0 DEF etp_maybe_start_thread, threads
    <3>3. started < Wanted
      BY <3>2 DEF MayStart
    <3>4. Short(0)'
      BY <1>0, <1>a, <2>0, <3>1, <3>3
    <3> QED
      BY <1>b, <2>0, <3>4
  <2>3. CASE ~MayStart /\ UNCHANGED threads
    <3>1. npending = Len(res_queue) /\ Len(res_queue) \in Nat
      BY <1>0, LenProperties DEF CountersExact, TypeOK, QueuesTypeOK
    <3>2. nreqs >= queued + e + Len(res_queue)
      <4>1. CASE running = NoReq
        BY <1>0, <3>1, <4>1 DEF CountersExact
      <4>2. CASE running # NoReq
        BY <1>0, <3>1, <4>2 DEF CountersExact
      <4> QED
        BY <4>1, <4>2
    <3>3. nreqs \in Int /\ (started = Wanted \/ started + npending - nreqs >= 0)
      BY <1>0, <2>3, <3>1 DEF MayStart, TypeOK, QueuesTypeOK
    <3>4. started = Wanted \/ queued + e <= started + 0
      BY <1>0, <3>1, <3>2, <3>3
    <3>5. e' = e /\ UNCHANGED started
      BY <2>3 DEF threads, In
    <3>6. Short(0)'
      BY <2>0, <3>4, <3>5
    <3> QED
      BY <1>b, <2>0, <3>6
  <2> QED
    BY <1>5, <2>1, <2>2, <2>3 DEF etp_maybe_start_thread, CreateFails
<1>6. ASSUME NEW r \in Reqs, uv_queue_work(r) PROVE StartInv'
  <2>1. ~starting /\ starting' /\ UNCHANGED <<started, failed>> /\ req_queue' = Append(req_queue, r)
    BY <1>6 DEF uv_queue_work, UserMayCall
  <2>2. queued' = queued + 1
    BY <1>0, <2>1, AppendProperties
  <2>3. In("execute")' = In("execute")
    <3>1. CASE UNCHANGED worker
      BY <3>1 DEF In
    <3>2. ASSUME NEW w \in In("wait"), worker' = [worker EXCEPT ![w] = "take"]
          PROVE  In("execute")' = In("execute")
      <4>1. w \in Workers /\ worker[w] = "wait"
        BY DEF In
      <4> QED
        BY <1>0, <3>2, <4>1, WakeMoves
    <3> QED
      BY <1>6, <3>1, <3>2 DEF uv_queue_work
  <2>4. e' = e
    BY <2>3
  <2>5. Short(0) => Short(1)'
    BY <1>0, <2>1, <2>2, <2>4
  <2> QED
    BY <1>a, <1>b, <2>1, <2>5
<1>7. ASSUME UNCHANGED <<started, failed, req_queue, worker>>, starting' \in {TRUE, starting}
      PROVE  StartInv'
  BY <1>1, <1>7 DEF In
<1>8. CASE \/ UNCHANGED vars \/ Shift \/ ShiftNothing \/ Finish \/ Return \/ ReturnAtLimit
           \/ Exit \/ uv_run \/ uv_queue_work_error \/ uv_eio_init
  BY <1>7, <1>8 DEF Shift, ShiftNothing, Finish, Return, ReturnAtLimit, Exit, uv_run,
     uv_queue_work_error, uv_eio_init, vars, queues, threads, loop
<1>9. CASE uv_eio_do_poll \/ uv_eio_want_poll_notifier_cb \/ uv_eio_done_poll_notifier_cb
  BY <1>7, <1>9 DEF uv_eio_do_poll, uv_eio_want_poll_notifier_cb,
     uv_eio_done_poll_notifier_cb, eio_poll, queues, threads
<1> QED
  BY <1>2, <1>3, <1>4, <1>5, <1>6, <1>8, <1>9 DEF Next, Pool, Loop, User

(* Threads are started for all that is queued and executed, or as many as  *)
(* are allowed, though npending is read while the workers write it.        *)
THEOREM ThreadsSuffice == Spec => []EnoughThreads
<1>1. Init => PoolIInv /\ StartInv
  <2>1. Init => Len(req_queue) = 0 /\ Cardinality(In("execute")) = 0
    BY EmptySeq, FS_EmptySet DEF Init, In
  <2>2. Init => ~starting /\ started = 0
    BY DEF Init
  <2> QED
    BY <2>1, <2>2, PoolAssumption, PoolInit DEF StartInv, Lacking
<1>2. PoolIInv /\ StartInv /\ [Next]_vars => PoolIInv' /\ StartInv'
  BY PoolAssumption, PoolStep, StartStep
<1>3. PoolIInv /\ StartInv => EnoughThreads
  <2>1. PoolIInv => started \in Nat
    BY DEF PoolIInv, TypeOK, ThreadsTypeOK
  <2> QED
    BY <2>1 DEF StartInv, Lacking, EnoughThreads
<1> QED
  BY <1>1, <1>2, <1>3, PTL DEF Spec

(* Both: threads are there, and awake, for every request that is queued.   *)
THEOREM ThreadsAreThere == Spec => []ThreadsServe
<1>1. NoneSleeps /\ EnoughThreads => ThreadsServe
  BY DEF ThreadsServe
<1> QED
  BY <1>1, NoThreadSleeps, ThreadsSuffice, PTL

-----------------------------------------------------------------------------
(* The resolver channel.                                                   *)
(*                                                                         *)
(* The code recurses, so the invariant speaks of the stack of tasks: what  *)
(* may lie below what (Stacked), of each query by the task that is about   *)
(* it (QueryInv), and of each server (ServerInv).  A step changes the head *)
(* of the stack only; lemmas say what it leaves as it is for the queries   *)
(* and the servers it is not about, and one lemma per action the rest.     *)

-----------------------------------------------------------------------------
(* Numbers.                                                                *)

(* Every query has at least one attempt.                                   *)
LEMMA AttemptsFacts ==
  ASSUME program \in Programs
  PROVE  Attempts \in Nat /\ Attempts > 0
<1>1. NServers \in Nat /\ NServers > 0
  BY AresAssumption
<1>2. program.tries \in Nat /\ program.tries > 0
  BY AresAssumption
<1> DEFINE t == program.tries
<1> HIDE DEF t
<1>3. t \in Nat /\ t > 0
  BY <1>2 DEF t
<1>4. NServers * t \in Nat /\ NServers * t > 0
  BY <1>1, <1>3
<1> QED
  BY <1>4 DEF Attempts, t

(* The servers are numbered around a circle.                               *)
LEMMA Around ==
  ASSUME NEW n \in Nat
  PROVE  n % NServers \in Servers
BY AresAssumption DEF Servers

(* A set of natural numbers that is not empty has its least element.       *)
LEMMA MinBelongs ==
  ASSUME NEW S, S \subseteq Nat, S # {}
  PROVE  Min(S) \in S
<1>1. PICK x \in S : \A y \in S : ~(<<y, x>> \in OpToRel(<, Nat))
  BY NatLessThanWellFounded, WFMin
<1>2. ASSUME NEW y \in S PROVE x =< y
  <2>1. x \in Nat /\ y \in Nat
    OBVIOUS
  <2>2. ~(y < x)
    BY <1>1, <2>1 DEF OpToRel
  <2> QED
    BY <2>1, <2>2
<1> QED
  BY <1>1, <1>2 DEF Min
-----------------------------------------------------------------------------
(* The stack.                                                              *)

(* The head of the stack and what may lie below it.                        *)
LEMMA Popped ==
  ASSUME NEW s, Stacked(s), s # <<>>
  PROVE  /\ Head(s) \in Tasks /\ Stacked(Tail(s))
         /\ ToSet(s) = {Head(s)} \cup ToSet(Tail(s))
         /\ \A t \in ToSet(Tail(s)) : t \in Tasks /\ MayLieBelow(t[1], Head(s)[1])
<1>1. s \in Seq(Tasks) /\ \A i, j \in DOMAIN s : i < j => MayLieBelow(s[j][1], s[i][1])
  BY DEF Stacked
<1> DEFINE n == Len(s)
           r == Tail(s)
<1>2. n \in Nat \ {0} /\ DOMAIN s = 1 .. n
  BY <1>1
<1>3. Head(s) = s[1] /\ s[1] \in Tasks /\ r \in Seq(Tasks) /\ Len(r) = n - 1
  BY <1>1, <1>2
<1>4. \A i \in 1 .. n - 1 : r[i] = s[i + 1]
  BY <1>1, <1>2
<1> HIDE DEF n, r
<1>5. DOMAIN r = 1 .. n - 1
  BY <1>2, <1>3
<1>6. \A i \in DOMAIN r : r[i] = s[i + 1] /\ i + 1 \in DOMAIN s
  BY <1>2, <1>4, <1>5
<1>7. Stacked(r)
  <2>1. ASSUME NEW i \in DOMAIN r, NEW j \in DOMAIN r, i < j
        PROVE  MayLieBelow(r[j][1], r[i][1])
    <3>1. i + 1 < j + 1
      BY <1>2, <1>5, <2>1
    <3> QED
      BY <1>1, <1>6, <3>1
  <2> QED
    BY <1>3, <2>1 DEF Stacked
<1>8. ToSet(s) = {s[1]} \cup ToSet(r)
  <2>1. ASSUME NEW i \in DOMAIN s PROVE i = 1 \/ (i - 1 \in DOMAIN r /\ s[i] = r[i - 1])
    BY <1>2, <1>4, <1>5
  <2>2. 1 \in DOMAIN s
    BY <1>2
  <2> QED
    BY <2>1, <2>2, <1>6 DEF ToSet
<1>9. ASSUME NEW t \in ToSet(r) PROVE t \in Tasks /\ MayLieBelow(t[1], s[1][1])
  <2>1. PICK i \in DOMAIN r : t = r[i]
    BY DEF ToSet
  <2>2. 1 \in DOMAIN s /\ i + 1 \in DOMAIN s /\ 1 < i + 1
    BY <1>2, <1>5, <1>6
  <2> QED
    BY <1>1, <1>3, <1>6, <2>1, <2>2, ElementOfSeq
<1> QED
  BY <1>3, <1>7, <1>8, <1>9 DEF r

(* One task more.                                                          *)
LEMMA Pushed ==
  ASSUME NEW r, Stacked(r), NEW t \in Tasks, \A u \in ToSet(r) : MayLieBelow(u[1], t[1])
  PROVE  Stacked(<<t>> \o r) /\ ToSet(<<t>> \o r) = {t} \cup ToSet(r)
<1>1. r \in Seq(Tasks) /\ \A i, j \in DOMAIN r : i < j => MayLieBelow(r[j][1], r[i][1])
  BY DEF Stacked
<1> DEFINE n == Len(r)
           s == <<t>> \o r
<1>2. n \in Nat /\ DOMAIN r = 1 .. n
  BY <1>1
<1>3. s \in Seq(Tasks) /\ Len(s) = n + 1 /\ s[1] = t
  BY <1>1, ConcatProperties
<1>4. \A i \in 1 .. n : s[i + 1] = r[i]
  BY <1>1
<1> HIDE DEF n, s
<1>5. DOMAIN s = 1 .. n + 1
  BY <1>2, <1>3
<1>6. \A i \in DOMAIN s : i = 1 \/ (i - 1 \in DOMAIN r /\ s[i] = r[i - 1])
  <2>1. ASSUME NEW i \in DOMAIN s, i # 1 PROVE i - 1 \in DOMAIN r /\ s[i] = r[i - 1]
    <3>1. i - 1 \in 1 .. n /\ (i - 1) + 1 = i
      BY <1>2, <1>5, <2>1
    <3> QED
      BY <1>2, <1>4, <3>1
  <2> QED
    BY <2>1
<1>7. ASSUME NEW i \in DOMAIN s, NEW j \in DOMAIN s, i < j
      PROVE  MayLieBelow(s[j][1], s[i][1])
  <2>1. j # 1 /\ j \in Nat /\ i \in Nat /\ i >= 1
    BY <1>2, <1>5, <1>7
  <2>2. j - 1 \in DOMAIN r /\ s[j] = r[j - 1]
    BY <1>6, <2>1
  <2>3. CASE i = 1
    BY <1>3, <2>2, <2>3 DEF ToSet
  <2>4. CASE i # 1
    <3>1. i - 1 \in DOMAIN r /\ s[i] = r[i - 1] /\ i - 1 < j - 1
      BY <1>6, <1>7, <2>1, <2>4
    <3> QED
      BY <1>1, <2>2, <3>1
  <2> QED
    BY <2>3, <2>4
<1>8. ToSet(s) = {t} \cup ToSet(r)
  <2>1. 1 \in DOMAIN s /\ \A i \in DOMAIN r : i + 1 \in DOMAIN s /\ s[i + 1] = r[i]
    BY <1>2, <1>4, <1>5
  <2> QED
    BY <1>3, <1>6, <2>1 DEF ToSet
<1> QED
  BY <1>3, <1>7, <1>8 DEF s, Stacked
-----------------------------------------------------------------------------
(* What a step makes of the stack.                                         *)

Rest == ToSet(Tail(todo))

(* Two elements are put on a sequence one after the other.                 *)
LEMMA TwoOnTop ==
  ASSUME NEW S, NEW r \in Seq(S), NEW t \in S, NEW u \in S
  PROVE  <<t, u>> \o r = <<t>> \o (<<u>> \o r)
<1> DEFINE n == Len(r)
           low == <<u>> \o r
           one == <<t, u>> \o r
           two == <<t>> \o low
<1>1. n \in Nat /\ low \in Seq(S) /\ Len(low) = n + 1 /\ one \in Seq(S) /\ Len(one) = n + 2
  OBVIOUS
<1>2. /\ low[1] = u /\ \A i \in 1 .. n : low[i + 1] = r[i]
      /\ one[1] = t /\ one[2] = u /\ \A i \in 1 .. n : one[i + 2] = r[i]
  OBVIOUS
<1> HIDE DEF low, one, n
<1>3. two \in Seq(S) /\ Len(two) = n + 2 /\ two[1] = t /\ \A i \in 1 .. n + 1 : two[i + 1] = low[i]
  BY <1>1
<1> HIDE DEF two
<1>4. ASSUME NEW i \in 1 .. n + 2 PROVE one[i] = two[i]
  <2>1. CASE i = 1
    BY <1>2, <1>3, <2>1
  <2>2. CASE i = 2
    BY <1>1, <1>2, <1>3, <2>2
  <2>3. CASE i \in 3 .. n + 2
    <3>1. i - 2 \in 1 .. n /\ (i - 2) + 2 = i /\ i - 1 \in 1 .. n + 1 /\ (i - 1) + 1 = i /\ (i - 2) + 1 = i - 1
      BY <1>1, <2>3
    <3> QED
      BY <1>2, <1>3, <3>1
  <2> QED
    BY <1>1, <2>1, <2>2, <2>3
<1> QED
  BY <1>1, <1>3, <1>4, SeqEqual DEF one, two, low

(* Short sequences put together.                                           *)
LEMMA Joined ==
  ASSUME NEW t, NEW u
  PROVE  /\ <<>> \o <<>> = <<>> /\ <<t>> \o <<>> = <<t>> /\ <<>> \o <<u>> = <<u>>
         /\ <<t>> \o <<u>> = <<t, u>>
<1> DEFINE S == {t, u}
           none == <<>>
           one == <<t>>
           other == <<u>>
           two == <<t, u>>
<1>1. none \in Seq(S) /\ one \in Seq(S) /\ other \in Seq(S) /\ two \in Seq(S) /\ t \in S /\ u \in S
  OBVIOUS
<1> HIDE DEF S, one, other
<1>2. none \o none = none /\ one \o none = one /\ none \o other = other
  BY <1>1
<1> HIDE DEF none, two
<1>3. two \o none = two
  BY <1>1 DEF none
<1>4. <<t, u>> \o none = <<t>> \o (<<u>> \o none)
  BY <1>1, TwoOnTop
<1>5. <<u>> \o none = <<u>>
  BY <1>1 DEF none, other
<1> QED
  BY <1>2, <1>3, <1>4, <1>5 DEF none, one, other, two

(* A head that is replaced by nothing, by one task or by two.              *)
LEMMA Replaced ==
  ASSUME Stacked(todo), todo # <<>>
  PROVE  /\ Then(<<>>) => Stacked(todo') /\ ToSet(todo') = Rest
         /\ \A t \in Tasks :
              Then(<<t>>) /\ (\A r \in Rest : MayLieBelow(r[1], t[1])) =>
                Stacked(todo') /\ ToSet(todo') = {t} \cup Rest
         /\ \A t, u \in Tasks :
              /\ Then(<<t, u>>) /\ MayLieBelow(u[1], t[1])
              /\ \A r \in Rest : MayLieBelow(r[1], t[1]) /\ MayLieBelow(r[1], u[1])
              => Stacked(todo') /\ ToSet(todo') = {t, u} \cup Rest
<1>1. Stacked(Tail(todo)) /\ Tail(todo) \in Seq(Tasks)
  BY Popped DEF Stacked
<1>2. <<>> \o Tail(todo) = Tail(todo)
  BY <1>1
<1>3. Then(<<>>) => Stacked(todo') /\ ToSet(todo') = Rest
  BY <1>1, <1>2 DEF Then, Rest
<1>4. ASSUME NEW t \in Tasks, \A r \in Rest : MayLieBelow(r[1], t[1])
      PROVE  Stacked(<<t>> \o Tail(todo)) /\ ToSet(<<t>> \o Tail(todo)) = {t} \cup Rest
  BY <1>1, <1>4, Pushed DEF Rest
<1>5. ASSUME NEW t \in Tasks, NEW u \in Tasks, MayLieBelow(u[1], t[1]),
             \A r \in Rest : MayLieBelow(r[1], t[1]) /\ MayLieBelow(r[1], u[1])
      PROVE  /\ Stacked(<<t, u>> \o Tail(todo))
             /\ ToSet(<<t, u>> \o Tail(todo)) = {t, u} \cup Rest
  <2> DEFINE low == <<u>> \o Tail(todo)
  <2>1. Stacked(low) /\ ToSet(low) = {u} \cup Rest
    BY <1>4, <1>5
  <2>2. <<t, u>> \o Tail(todo) = <<t>> \o low
    BY <1>1, TwoOnTop
  <2> HIDE DEF low
  <2>3. Stacked(<<t>> \o low) /\ ToSet(<<t>> \o low) = {t} \cup ToSet(low)
    BY <1>5, <2>1, Pushed
  <2> QED
    BY <2>1, <2>2, <2>3
<1> QED
  BY <1>3, <1>4, <1>5 DEF Then

(* The head of the stack, and what is never below it.                      *)
LEMMA AtHead ==
  ASSUME Stacked(todo), NEW t, Doing(t)
  PROVE  /\ todo # <<>> /\ t \in Tasks /\ ToSet(todo) = {t} \cup Rest
         /\ \A r \in Rest : r \in Tasks /\ MayLieBelow(r[1], t[1])
BY Popped DEF Doing, Rest

(* What is in hand is at the head, and nothing that a callback or a task   *)
(* of processfds is about is below a task that cannot lie above it.        *)
LEMMA BelowHead ==
  ASSUME Stacked(todo), NEW t, Doing(t)
  PROVE  /\ \A p \in Queries : /\ <<"send", p>> \notin Rest /\ <<"next", p>> \notin Rest
                               /\ <<"end", p, "success">> \notin Rest
                               /\ <<"end", p, "failed">> \notin Rest
         /\ t[1] \in {"answer", "recv", "error", "move", "timeouts", "broken"} =>
              \A p \in Queries : <<"callback", p>> \notin Rest
         /\ t[1] \notin {"send", "next", "end", "callback"} =>
              \A s, Q : <<"move", s, Q>> \notin Rest
         /\ t[1] \in {"timeouts", "broken"} => <<"timeouts">> \notin Rest
<1>1. \A r \in Rest : MayLieBelow(r[1], t[1])
  BY AtHead
<1>2. ASSUME NEW p \in Queries
      PROVE  /\ <<"send", p>> \notin Rest /\ <<"next", p>> \notin Rest
             /\ <<"end", p, "success">> \notin Rest /\ <<"end", p, "failed">> \notin Rest
             /\ t[1] \in {"answer", "recv", "error", "move", "timeouts", "broken"} =>
                  <<"callback", p>> \notin Rest
  <2>1. /\ <<"send", p>>[1] = "send" /\ <<"next", p>>[1] = "next"
        /\ <<"end", p, "success">>[1] = "end" /\ <<"end", p, "failed">>[1] = "end"
        /\ <<"callback", p>>[1] = "callback"
    OBVIOUS
  <2> QED
    BY <1>1, <2>1 DEF MayLieBelow
<1>3. ASSUME NEW s, NEW Q, t[1] \notin {"send", "next", "end", "callback"}
      PROVE  <<"move", s, Q>> \notin Rest
  <2>1. <<"move", s, Q>>[1] = "move"
    OBVIOUS
  <2> QED
    BY <1>1, <1>3, <2>1 DEF MayLieBelow
<1>4. ASSUME t[1] \in {"timeouts", "broken"} PROVE <<"timeouts">> \notin Rest
  <2>1. <<"timeouts">>[1] = "timeouts"
    OBVIOUS
  <2> QED
    BY <1>1, <1>4, <2>1 DEF MayLieBelow
<1> QED
  BY <1>2, <1>3, <1>4

(* The tasks of processfds.                                                *)
LEMMA ProcessfdsStack ==
  ASSUME NEW work, work = <<>> \/ \E t \in Tasks : work = <<t>> /\ t[1] \in {"error", "answer", "recv"},
         todo' = work \o <<<<"timeouts">>, <<"broken", 0>>>>
  PROVE  /\ Stacked(todo')
         /\ ToSet(todo') = ToSet(work) \cup {<<"timeouts">>, <<"broken", 0>>}
<1> DEFINE bottom == <<<<"timeouts">>, <<"broken", 0>>>>
<1>1. <<"timeouts">> \in Tasks /\ <<"broken", 0>> \in Tasks
  BY AresAssumption DEF Tasks, Servers
<1>2. /\ <<"timeouts">>[1] = "timeouts" /\ <<"broken", 0>>[1] = "broken"
      /\ DOMAIN bottom = {1, 2} /\ bottom[1] = <<"timeouts">> /\ bottom[2] = <<"broken", 0>>
  OBVIOUS
<1>3. bottom \in Seq(Tasks)
  BY <1>1
<1> HIDE DEF bottom
<1>4. Stacked(bottom)
  BY <1>2, <1>3 DEF Stacked, MayLieBelow
<1>5. ToSet(bottom) = {<<"timeouts">>, <<"broken", 0>>}
  BY <1>2 DEF ToSet
<1>6. CASE work = <<>>
  <2>1. <<>> \o bottom = bottom /\ ToSet(<<>>) = {}
    BY <1>3 DEF ToSet
  <2> QED
    BY <1>4, <1>5, <1>6, <2>1 DEF bottom
<1>7. ASSUME NEW t \in Tasks, work = <<t>>, t[1] \in {"error", "answer", "recv"}
      PROVE  /\ Stacked(todo')
             /\ ToSet(todo') = ToSet(work) \cup {<<"timeouts">>, <<"broken", 0>>}
  <2>1. \A u \in ToSet(bottom) : MayLieBelow(u[1], t[1])
    BY <1>2, <1>5, <1>7 DEF MayLieBelow
  <2>2. ToSet(<<t>>) = {t}
    BY DEF ToSet
  <2> QED
    BY <1>4, <1>5, <1>7, <2>1, <2>2, Pushed DEF bottom
<1> QED
  BY <1>6, <1>7
-----------------------------------------------------------------------------
(* The stack after each step.                                              *)

Became(tasks) == Stacked(todo') /\ ToSet(todo') = tasks \cup Rest

(* The head leaves.                                                        *)
LEMMA HeadDone ==
  ASSUME Stacked(todo), NEW t, Doing(t), Then(<<>>)
  PROVE  Became({})
BY AtHead, Replaced DEF Became

(* What a query does makes place for what it does next.                    *)
LEMMA HeadFollowed ==
  ASSUME Stacked(todo), NEW t, Doing(t), t[1] \in {"send", "next", "end", "answer"},
         NEW q \in Queries, NEW u, Then(<<u>>),
         \/ u = <<"send", q>> \/ u = <<"next", q>> \/ u = <<"callback", q>>
         \/ u = <<"end", q, "success">> \/ u = <<"end", q, "failed">>
  PROVE  Became({u})
<1>1. todo # <<>> /\ \A r \in Rest : MayLieBelow(r[1], t[1])
  BY AtHead
<1>2. u \in Tasks /\ u[1] \in {"send", "next", "end", "callback"}
  BY DEF Tasks
<1>3. \A r \in Rest : MayLieBelow(r[1], u[1])
  BY <1>1, <1>2 DEF MayLieBelow
<1> QED
  BY <1>1, <1>2, <1>3, Replaced DEF Became

(* A step of processfds, and the rest of it that stays below.              *)
LEMMA ProcessfdsDone ==
  ASSUME Stacked(todo), NEW s \in Servers
  PROVE  /\ \A Q \in SUBSET Queries :
              Doing(<<"recv", s, Q>>) /\ Then(<<<<"error", s>>>>) => Became({<<"error", s>>})
         /\ \A Q \in SUBSET Queries, P \in SUBSET Queries, q \in Queries,
               answer \in {"ok", "refused", "truncated"} :
              Doing(<<"recv", s, Q>>) /\ Then(<<<<"answer", s, q, answer, FALSE>>, <<"recv", s, P>>>>)
              => Became({<<"answer", s, q, answer, FALSE>>, <<"recv", s, P>>})
         /\ \A Q \in SUBSET Queries :
              Doing(<<"error", s>>) /\ Then(<<<<"move", s, Q>>>>) => Became({<<"move", s, Q>>})
         /\ \A Q \in SUBSET Queries, P \in SUBSET Queries, q \in Queries :
              Doing(<<"move", s, Q>>) /\ Then(<<<<"next", q>>, <<"move", s, P>>>>)
              => Became({<<"next", q>>, <<"move", s, P>>})
         /\ \A q \in Queries :
              Doing(<<"timeouts">>) /\ Then(<<<<"next", q>>, <<"timeouts">>>>)
              => Became({<<"next", q>>, <<"timeouts">>})
         /\ Doing(<<"broken", s>>) /\ Then(<<<<"error", s>>>>) => Became({<<"error", s>>})
         /\ \A x \in Servers :
              /\ Doing(<<"broken", s>>) /\ Then(<<<<"broken", x>>>>) => Became({<<"broken", x>>})
              /\ Doing(<<"broken", s>>) /\ Then(<<<<"error", s>>, <<"broken", x>>>>)
                 => Became({<<"error", s>>, <<"broken", x>>})
<1>1. ASSUME NEW t, Doing(t), NEW u \in Tasks, Then(<<u>>),
             \/ t[1] \in {"recv", "broken"} /\ u[1] = "error"
             \/ t[1] = "error" /\ u[1] = "move"
             \/ t[1] = "broken" /\ u[1] = "broken"
      PROVE  Became({u})
  <2>1. todo # <<>> /\ \A r \in Rest : MayLieBelow(r[1], t[1])
    BY <1>1, AtHead
  <2>2. \A r \in Rest : MayLieBelow(r[1], u[1])
    BY <1>1, <2>1 DEF MayLieBelow
  <2> QED
    BY <1>1, <2>1, <2>2, Replaced DEF Became
<1>2. ASSUME NEW t, Doing(t), NEW u \in Tasks, NEW v \in Tasks, Then(<<u, v>>), v[1] = t[1],
             \/ t[1] = "recv" /\ u[1] = "answer"
             \/ t[1] \in {"move", "timeouts"} /\ u[1] = "next"
             \/ t[1] = "broken" /\ u[1] = "error"
      PROVE  Became({u, v})
  <2>1. todo # <<>> /\ \A r \in Rest : MayLieBelow(r[1], t[1])
    BY <1>2, AtHead
  <2>2. MayLieBelow(v[1], u[1]) /\ \A r \in Rest : MayLieBelow(r[1], u[1])
    BY <1>2, <2>1 DEF MayLieBelow
  <2> QED
    BY <1>2, <2>1, <2>2, Replaced DEF Became
<1>3. ASSUME NEW Q \in SUBSET Queries
      PROVE  /\ <<"recv", s, Q>> \in Tasks /\ <<"recv", s, Q>>[1] = "recv"
             /\ <<"move", s, Q>> \in Tasks /\ <<"move", s, Q>>[1] = "move"
  BY DEF Tasks
<1>4. /\ <<"error", s>> \in Tasks /\ <<"error", s>>[1] = "error"
      /\ \A x \in Servers : <<"broken", x>> \in Tasks /\ <<"broken", x>>[1] = "broken"
      /\ \A q \in Queries : <<"next", q>> \in Tasks /\ <<"next", q>>[1] = "next"
      /\ <<"timeouts">> \in Tasks /\ <<"timeouts">>[1] = "timeouts"
  BY DEF Tasks
<1>5. ASSUME NEW q \in Queries, NEW answer \in {"ok", "refused", "truncated"}
      PROVE  LET t == <<"answer", s, q, answer, FALSE>> IN t \in Tasks /\ t[1] = "answer"
  BY DEF Tasks
<1>6. ASSUME NEW Q \in SUBSET Queries
      PROVE  /\ Doing(<<"recv", s, Q>>) /\ Then(<<<<"error", s>>>>) => Became({<<"error", s>>})
             /\ Doing(<<"error", s>>) /\ Then(<<<<"move", s, Q>>>>) => Became({<<"move", s, Q>>})
  <2> DEFINE t == <<"recv", s, Q>>
             u == <<"error", s>>
             v == <<"move", s, Q>>
  <2>1. /\ t[1] = "recv" /\ u \in Tasks /\ u[1] = "error" /\ v \in Tasks /\ v[1] = "move"
    BY <1>3, <1>4
  <2> HIDE DEF t, u, v
  <2>2. (Doing(t) /\ Then(<<u>>) => Became({u})) /\ (Doing(u) /\ Then(<<v>>) => Became({v}))
    BY <1>1, <2>1
  <2> QED
    BY <2>2 DEF t, u, v
<1>7. ASSUME NEW Q \in SUBSET Queries, NEW P \in SUBSET Queries, NEW q \in Queries
      PROVE  /\ Doing(<<"move", s, Q>>) /\ Then(<<<<"next", q>>, <<"move", s, P>>>>)
                => Became({<<"next", q>>, <<"move", s, P>>})
             /\ \A answer \in {"ok", "refused", "truncated"} :
                  Doing(<<"recv", s, Q>>) /\ Then(<<<<"answer", s, q, answer, FALSE>>, <<"recv", s, P>>>>)
                  => Became({<<"answer", s, q, answer, FALSE>>, <<"recv", s, P>>})
  <2>1. Doing(<<"move", s, Q>>) /\ Then(<<<<"next", q>>, <<"move", s, P>>>>)
        => Became({<<"next", q>>, <<"move", s, P>>})
    <3> DEFINE t == <<"move", s, Q>>
               u == <<"next", q>>
               v == <<"move", s, P>>
    <3>1. /\ t[1] = "move" /\ u \in Tasks /\ u[1] = "next" /\ v \in Tasks /\ v[1] = "move"
      BY <1>3, <1>4
    <3> HIDE DEF t, u, v
    <3>2. Doing(t) /\ Then(<<u, v>>) => Became({u, v})
      BY <1>2, <3>1
    <3> QED
      BY <3>2 DEF t, u, v
  <2>2. ASSUME NEW answer \in {"ok", "refused", "truncated"}
        PROVE  Doing(<<"recv", s, Q>>) /\ Then(<<<<"answer", s, q, answer, FALSE>>, <<"recv", s, P>>>>)
               => Became({<<"answer", s, q, answer, FALSE>>, <<"recv", s, P>>})
    <3> DEFINE t == <<"recv", s, Q>>
               u == <<"answer", s, q, answer, FALSE>>
               v == <<"recv", s, P>>
    <3>1. /\ t[1] = "recv" /\ u \in Tasks /\ u[1] = "answer" /\ v \in Tasks /\ v[1] = "recv"
      BY <1>3, <1>5
    <3> HIDE DEF t, u, v
    <3>2. Doing(t) /\ Then(<<u, v>>) => Became({u, v})
      BY <1>2, <3>1
    <3> QED
      BY <3>2 DEF t, u, v
  <2> QED
    BY <2>1, <2>2
<1>8. ASSUME NEW q \in Queries
      PROVE  Doing(<<"timeouts">>) /\ Then(<<<<"next", q>>, <<"timeouts">>>>)
             => Became({<<"next", q>>, <<"timeouts">>})
  <2> DEFINE t == <<"timeouts">>
             u == <<"next", q>>
  <2>1. t \in Tasks /\ t[1] = "timeouts" /\ u \in Tasks /\ u[1] = "next"
    BY <1>4
  <2> HIDE DEF t, u
  <2>2. Doing(t) /\ Then(<<u, t>>) => Became({u, t})
    BY <1>2, <2>1
  <2> QED
    BY <2>2 DEF t, u
<1>9. /\ Doing(<<"broken", s>>) /\ Then(<<<<"error", s>>>>) => Became({<<"error", s>>})
      /\ \A x \in Servers :
           /\ Doing(<<"broken", s>>) /\ Then(<<<<"broken", x>>>>) => Became({<<"broken", x>>})
           /\ Doing(<<"broken", s>>) /\ Then(<<<<"error", s>>, <<"broken", x>>>>)
              => Became({<<"error", s>>, <<"broken", x>>})
  BY <1>1, <1>2, <1>4
<1> QED
  BY <1>6, <1>7, <1>8, <1>9

(* The program asks with nothing to do or from a callback.                 *)
LEMMA AskStack ==
  ASSUME Stacked(todo), NEW q \in Queries, ares_send(q)
  PROVE  Stacked(todo') /\ ToSet(todo') = {<<"send", q>>} \cup ToSet(todo)
<1>1. todo' = <<<<"send", q>>>> \o todo
  BY DEF ares_send
<1>2. <<"send", q>> \in Tasks /\ <<"send", q>>[1] = "send"
  BY DEF Tasks
<1>3. \A u \in ToSet(todo) : MayLieBelow(u[1], "send")
  <2>1. CASE todo = <<>>
    BY <2>1 DEF ToSet
  <2>2. ASSUME NEW p \in Queries, Doing(<<"callback", p>>)
        PROVE  \A u \in ToSet(todo) : MayLieBelow(u[1], "send")
    <3>1. /\ ToSet(todo) = {<<"callback", p>>} \cup Rest
          /\ \A r \in Rest : MayLieBelow(r[1], <<"callback", p>>[1])
      BY <2>2, AtHead
    <3>2. <<"callback", p>>[1] = "callback"
      OBVIOUS
    <3> QED
      BY <3>1, <3>2 DEF MayLieBelow
  <2> QED
    BY <2>1, <2>2 DEF ares_send
<1> QED
  BY <1>1, <1>2, <1>3, Pushed

(* Nothing is left to do when the loop is called.                          *)
LEMMA NothingToDo ==
  ASSUME todo = <<>>
  PROVE  ToSet(todo) = {}
BY DEF ToSet
-----------------------------------------------------------------------------
(* What the helpers make of the records.                                   *)

QueryStates ==
  [phase : {"idle", "active", "success", "failed", "cancelled"}, server : Servers,
   try_count : 0 .. Attempts, skip : SUBSET Servers, over : SUBSET Servers, using_tcp : BOOLEAN]

ServerStates ==
  [udp : BOOLEAN, tcp : BOOLEAN, broken : BOOLEAN, queries : SUBSET Queries,
   queue : Seq(Queries \cup {NoQuery})]

HeardStates == [udp : SUBSET Queries, tcp : SUBSET Queries]

(* A server whose stream is open, with another queue.                      *)
Opened(g, r) == [g EXCEPT !.tcp = TRUE, !.queue = r]

LEMMA QueuedRecord ==
  ASSUME NEW g \in ServerStates, NEW r \in Seq(Queries \cup {NoQuery})
  PROVE  /\ Opened(g, r) \in ServerStates
         /\ Opened(g, r).tcp = TRUE /\ Opened(g, r).udp = g.udp
         /\ Opened(g, r).broken = g.broken /\ Opened(g, r).queries = g.queries
         /\ Opened(g, r).queue = r
<1> DEFINE QS == SUBSET Queries
           WS == Seq(Queries \cup {NoQuery})
<1>1. ServerStates = [udp : BOOLEAN, tcp : BOOLEAN, broken : BOOLEAN, queries : QS, queue : WS]
  BY Zenon DEF ServerStates
<1>2. r \in WS
  OBVIOUS
<1> HIDE DEF QS, WS
<1> QED
  BY <1>1, <1>2 DEF Opened

(* Filing a query changes the lists of queries only.                       *)
LEMMA FiledFacts ==
  ASSUME NEW servers \in [Servers -> ServerStates], NEW q \in Queries, NEW s \in Servers
  PROVE  /\ Filed(q, s, servers) \in [Servers -> ServerStates]
         /\ \A x \in Servers :
              /\ Filed(q, s, servers)[x].udp = servers[x].udp
              /\ Filed(q, s, servers)[x].tcp = servers[x].tcp
              /\ Filed(q, s, servers)[x].broken = servers[x].broken
              /\ Filed(q, s, servers)[x].queue = servers[x].queue
              /\ \A p \in Queries : p \in Filed(q, s, servers)[x].queries <=>
                   IF p = q THEN x = s ELSE p \in servers[x].queries
<1> DEFINE f == Filed(q, s, servers)
<1>1. ASSUME NEW x \in Servers
      PROVE  /\ f[x] \in ServerStates
             /\ f[x].udp = servers[x].udp /\ f[x].tcp = servers[x].tcp
             /\ f[x].broken = servers[x].broken /\ f[x].queue = servers[x].queue
             /\ f[x].queries = IF x = s THEN servers[x].queries \cup {q} ELSE servers[x].queries \ {q}
  BY DEF Filed, ServerStates
<1>2. f \in [Servers -> ServerStates]
  BY <1>1 DEF Filed
<1> HIDE DEF f
<1>3. ASSUME NEW x \in Servers, NEW p \in Queries
      PROVE  p \in f[x].queries <=> IF p = q THEN x = s ELSE p \in servers[x].queries
  BY <1>1
<1> QED
  BY <1>1, <1>2, <1>3 DEF f

(* A server gets a UDP socket.                                             *)
LEMMA SocketFacts ==
  ASSUME server \in [Servers -> ServerStates], NEW s \in Servers
  PROVE  LET f == [server EXCEPT ![s].udp = TRUE]
         IN /\ f \in [Servers -> ServerStates]
            /\ \A x \in Servers :
                 /\ f[x].udp = (server[x].udp \/ x = s) /\ f[x].tcp = server[x].tcp
                 /\ f[x].broken = server[x].broken /\ f[x].queries = server[x].queries
                 /\ f[x].queue = server[x].queue
<1> DEFINE f == [server EXCEPT ![s].udp = TRUE]
<1>1. ASSUME NEW x \in Servers
      PROVE  f[x] = IF x = s THEN [server[x] EXCEPT !.udp = TRUE] ELSE server[x]
  OBVIOUS
<1>3. f = [x \in Servers |-> f[x]]
  OBVIOUS
<1> HIDE DEF f
<1>2. ASSUME NEW x \in Servers
      PROVE  /\ f[x] \in ServerStates
             /\ f[x].udp = (server[x].udp \/ x = s) /\ f[x].tcp = server[x].tcp
             /\ f[x].broken = server[x].broken /\ f[x].queries = server[x].queries
             /\ f[x].queue = server[x].queue
  BY <1>1 DEF ServerStates
<1>4. f \in [Servers -> ServerStates]
  BY <1>2, <1>3
<1> QED
  BY <1>2, <1>4 DEF f

\* What is left when the sockets of S are closed.
Closed(S, asked, left) ==
  /\ server' \in [Servers -> ServerStates] /\ query' \in [Queries -> QueryStates]
  /\ heard' \in [Servers -> HeardStates]
  /\ \A x \in Servers :
       /\ server'[x].queries = left[x].queries
       /\ x \notin S => server'[x] = left[x] /\ heard'[x] = heard[x]
       /\ x \in S => /\ ~server'[x].udp /\ ~server'[x].tcp /\ ~server'[x].broken
                     /\ server'[x].queue = <<>>
                     /\ heard'[x].udp = {} /\ heard'[x].tcp = {}
  /\ \A q \in Queries :
       /\ query'[q].phase = asked[q].phase /\ query'[q].server = asked[q].server
       /\ query'[q].try_count = asked[q].try_count /\ query'[q].skip = asked[q].skip
       /\ query'[q].using_tcp = asked[q].using_tcp
       /\ query'[q].over = asked[q].over \ S
       /\ asked[q].over = {} => query'[q] = asked[q]

(* Closing the sockets of S.                                               *)
LEMMA CloseFacts ==
  ASSUME NEW S, NEW asked \in [Queries -> QueryStates], NEW left \in [Servers -> ServerStates],
         heard \in [Servers -> HeardStates], CloseSockets(S, asked, left)
  PROVE  Closed(S, asked, left)
<1>1. /\ server' = [s \in Servers |->
           IF s \in S THEN [left[s] EXCEPT !.udp = FALSE, !.tcp = FALSE, !.broken = FALSE, !.queue = <<>>]
           ELSE left[s]]
      /\ query' = [q \in Queries |-> [asked[q] EXCEPT !.over = @ \ S]]
      /\ heard' = [s \in Servers |-> IF s \in S THEN [udp |-> {}, tcp |-> {}] ELSE heard[s]]
  BY DEF CloseSockets
<1>2. <<>> \in Seq(Queries \cup {NoQuery})
  BY EmptySeq
<1>3. ASSUME NEW x \in Servers
      PROVE  /\ server'[x] \in ServerStates /\ server'[x].queries = left[x].queries
             /\ x \notin S => server'[x] = left[x]
             /\ x \in S => /\ ~server'[x].udp /\ ~server'[x].tcp /\ ~server'[x].broken
                           /\ server'[x].queue = <<>>
  <2> DEFINE e == <<>>
  <2>1. left[x] \in ServerStates /\ e \in Seq(Queries \cup {NoQuery})
    BY <1>2
  <2>2. server'[x] = IF x \in S THEN [left[x] EXCEPT !.udp = FALSE, !.tcp = FALSE, !.broken = FALSE,
                                                      !.queue = e] ELSE left[x]
    BY <1>1
  <2> HIDE DEF e
  <2>3. /\ server'[x] \in ServerStates /\ server'[x].queries = left[x].queries
        /\ x \notin S => server'[x] = left[x]
        /\ x \in S => /\ ~server'[x].udp /\ ~server'[x].tcp /\ ~server'[x].broken
                      /\ server'[x].queue = e
    BY <2>1, <2>2 DEF ServerStates
  <2> QED
    BY <2>3 DEF e
<1>4. ASSUME NEW q \in Queries
      PROVE  /\ query'[q] \in QueryStates
             /\ query'[q].phase = asked[q].phase /\ query'[q].server = asked[q].server
             /\ query'[q].try_count = asked[q].try_count /\ query'[q].skip = asked[q].skip
             /\ query'[q].using_tcp = asked[q].using_tcp
             /\ query'[q].over = asked[q].over \ S
             /\ asked[q].over = {} => query'[q] = asked[q]
  BY <1>1 DEF QueryStates
<1>5. ASSUME NEW x \in Servers
      PROVE  /\ heard'[x] \in HeardStates /\ (x \notin S => heard'[x] = heard[x])
             /\ x \in S => heard'[x].udp = {} /\ heard'[x].tcp = {}
  BY <1>1 DEF HeardStates
<1>6. /\ server' \in [Servers -> ServerStates] /\ query' \in [Queries -> QueryStates]
      /\ heard' \in [Servers -> HeardStates]
  BY <1>1, <1>3, <1>4, <1>5
<1> QED
  BY <1>3, <1>4, <1>5, <1>6 DEF Closed

-----------------------------------------------------------------------------
(* What a step leaves alone.                                               *)

InHand(q) == {<<"send", q>>, <<"next", q>>, <<"end", q, "success">>, <<"end", q, "failed">>,
              <<"callback", q>>}

\* The step is not about q.
Aside(q) ==
  /\ \A t \in InHand(q) : t \in ToSet(todo') <=> t \in ToSet(todo)
  /\ \A s \in Servers : q \in Moving(s)' <=> q \in Moving(s)

(* Tasks that are not about a query come and go.                           *)
LEMMA NotAbout ==
  ASSUME NEW q \in Queries, NEW A, NEW B, NEW R,
         ToSet(todo) = A \cup R, ToSet(todo') = B \cup R,
         A \cap InHand(q) = {}, B \cap InHand(q) = {},
         \A s \in Servers :
           (\E Q \in SUBSET Queries : <<"move", s, Q>> \in A /\ q \in Q)
           <=> (\E Q \in SUBSET Queries : <<"move", s, Q>> \in B /\ q \in Q)
  PROVE  Aside(q)
<1>1. \A t \in InHand(q) : t \in ToSet(todo') <=> t \in ToSet(todo)
  OBVIOUS
<1>2. ASSUME NEW s \in Servers PROVE q \in Moving(s)' <=> q \in Moving(s)
  <2>1. q \in Moving(s) <=> \E Q \in SUBSET Queries : <<"move", s, Q>> \in ToSet(todo) /\ q \in Q
    BY DEF Moving
  <2>2. q \in Moving(s)' <=> \E Q \in SUBSET Queries : <<"move", s, Q>> \in ToSet(todo') /\ q \in Q
    BY DEF Moving
  <2> QED
    BY <2>1, <2>2
<1> QED
  BY <1>1, <1>2 DEF Aside

(* The same when none of the tasks moves queries.                          *)
LEMMA NotMoved ==
  ASSUME NEW q \in Queries, NEW A, NEW B, NEW R,
         ToSet(todo) = A \cup R, ToSet(todo') = B \cup R,
         A \cap InHand(q) = {}, B \cap InHand(q) = {},
         \A x, Q : <<"move", x, Q>> \notin A, \A x, Q : <<"move", x, Q>> \notin B
  PROVE  Aside(q)
BY NotAbout

(* Nothing is said of a query that a step is not about.                    *)
LEMMA QueryKept ==
  ASSUME NEW q \in Queries, QueryInv(q), Aside(q), Attempts' = Attempts,
         query'[q].phase = query[q].phase, query'[q].server = query[q].server,
         query'[q].try_count = query[q].try_count, query'[q].using_tcp = query[q].using_tcp,
         query'[q].over \subseteq query[q].over,
         query[q].phase = "idle" => query'[q] = query[q],
         query[q].phase = "active" /\ Waits(q) => Waits(q)',
         q \in due' => q \in due \/ query[q].phase = "active"
  PROVE  QueryInv(q)'
<1>1. \A t \in InHand(q) : t \in ToSet(todo') <=> t \in ToSet(todo)
  BY DEF Aside
<1>2. /\ <<"send", q>> \in ToSet(todo') <=> <<"send", q>> \in ToSet(todo)
      /\ <<"next", q>> \in ToSet(todo') <=> <<"next", q>> \in ToSet(todo)
      /\ <<"end", q, "success">> \in ToSet(todo') <=> <<"end", q, "success">> \in ToSet(todo)
      /\ <<"end", q, "failed">> \in ToSet(todo') <=> <<"end", q, "failed">> \in ToSet(todo)
      /\ <<"callback", q>> \in ToSet(todo') <=> <<"callback", q>> \in ToSet(todo)
  BY <1>1 DEF InHand
<1>3. q \in Running' <=> q \in Running
  BY <1>2 DEF Running
<1>4. \A s \in Servers : q \in Moving(s)' <=> q \in Moving(s)
  BY DEF Aside
<1>5. q \in AllQueries' <=> q \in AllQueries
  BY <1>2 DEF AllQueries, Active
<1>6. q \in due => q \in AllQueries
  BY DEF QueryInv
<1>7. query[q].phase = "active" => q \in AllQueries
  BY DEF AllQueries, Active
<1>8. q \in due' => q \in AllQueries'
  BY <1>5, <1>6, <1>7
<1> HIDE DEF Waits
<1>9. query'[q].phase = "idle" => query'[q] = NewQuery'
  BY DEF QueryInv, NewQuery
<1>10. query'[q].phase = "active" /\ q \notin Running' /\ (\A s \in Servers : q \notin Moving(s)') => Waits(q)'
  BY <1>3, <1>4 DEF QueryInv
<1>11. \A s \in Servers : q \in Moving(s)' =>
         query'[q].server = s /\ query'[q].phase = "active" /\ q \notin Running'
  BY <1>3, <1>4 DEF QueryInv
<1>12. ~query'[q].using_tcp => query'[q].over = {}
  BY DEF QueryInv
<1>13. /\ <<"send", q>> \in ToSet(todo') /\ query'[q].using_tcp => query'[q].server \notin query'[q].over
       /\ query'[q].phase = "active" /\ <<"end", q, "failed">> \notin ToSet(todo') =>
            query'[q].try_count < Attempts'
       /\ <<"end", q, "failed">> \in ToSet(todo') =>
            query'[q].phase = "active" /\ query'[q].try_count = Attempts'
       /\ <<"callback", q>> \in ToSet(todo') => query'[q].phase \notin {"idle", "active"}
  BY <1>2 DEF QueryInv
<1>14. {<<"send", q>>, <<"next", q>>, <<"end", q, "success">>} \cap ToSet(todo') # {} =>
         query'[q].phase = "active" /\ <<"end", q, "failed">> \notin ToSet(todo')
  BY <1>2 DEF QueryInv
<1> QED
  BY <1>8, <1>9, <1>10, <1>11, <1>12, <1>13, <1>14 DEF QueryInv

(* Little is said of a server whose connection stays as it is.             *)
LEMMA ConnectionKept ==
  ASSUME NEW s \in Servers, ServerInv(s),
         server'[s].queries \subseteq server[s].queries \cup AllQueries',
         server'[s].queue = server[s].queue, server'[s].broken => server[s].broken,
         server'[s].tcp = server[s].tcp, heard'[s].tcp = heard[s].tcp,
         <<"udp", s>> \in handles' <=> server'[s].udp,
         <<"tcp", s>> \in handles' <=> <<"tcp", s>> \in handles,
         s \in writing' <=> s \in writing,
         \A q \in Queries :
           /\ q \in AllQueries => q \in AllQueries' \/ q \notin server'[s].queries
           /\ query[q].phase = "active" => query'[q].phase = "active"
           /\ query'[q].phase = "active" => query[q].phase \in {"idle", "active"}
           /\ query'[q].phase = "idle" => query[q].phase = "idle"
           /\ s \in query[q].over => s \in query'[q].over,
         server'[s].queries \subseteq Queries
  PROVE  ServerInv(s)'
<1>1. server'[s].queries \subseteq AllQueries'
  <2>1. ASSUME NEW q \in Queries, q \in server'[s].queries PROVE q \in AllQueries'
    BY <2>1 DEF ServerInv
  <2> QED
    BY <2>1
<1>2. ASSUME NEW q \in Queries
      PROVE  /\ q \in ToSet(server'[s].queue) => query'[q].phase = "active" /\ q \notin heard'[s].tcp
             /\ q \in heard'[s].tcp => query'[q].phase # "idle"
             /\ query'[q].phase = "active" /\ q \in heard'[s].tcp \cup ToSet(server'[s].queue)
                  => s \in query'[q].over
  BY DEF ServerInv
<1>3. \A i, j \in DOMAIN server'[s].queue :
        server'[s].queue[i] \in Queries /\ server'[s].queue[i] = server'[s].queue[j] => i = j
  BY DEF ServerInv
<1>4. /\ server'[s].broken \/ server'[s].queue # <<>> \/ heard'[s].tcp # {} => server'[s].tcp
      /\ <<"udp", s>> \in handles' <=> server'[s].udp
      /\ <<"tcp", s>> \in handles' <=> server'[s].tcp
      /\ s \in writing' <=> server'[s].queue # <<>>
  BY DEF ServerInv
<1> QED
  BY <1>1, <1>2, <1>3, <1>4 DEF ServerInv

(* Nothing is said of a server whose sockets and lists stay as they are.   *)
LEMMA ServerKept ==
  ASSUME NEW s \in Servers, ServerInv(s),
         server'[s].queries \subseteq server[s].queries \cup AllQueries',
         server'[s].queue = server[s].queue, server'[s].broken => server[s].broken,
         server'[s].tcp = server[s].tcp, server'[s].udp = server[s].udp, heard'[s].tcp = heard[s].tcp,
         <<"udp", s>> \in handles' <=> <<"udp", s>> \in handles,
         <<"tcp", s>> \in handles' <=> <<"tcp", s>> \in handles,
         s \in writing' <=> s \in writing,
         \A q \in Queries :
           /\ q \in AllQueries => q \in AllQueries' \/ q \notin server'[s].queries
           /\ query[q].phase = "active" => query'[q].phase = "active"
           /\ query'[q].phase = "active" => query[q].phase \in {"idle", "active"}
           /\ query'[q].phase = "idle" => query[q].phase = "idle"
           /\ s \in query[q].over => s \in query'[q].over,
         server'[s].queries \subseteq Queries
  PROVE  ServerInv(s)'
<1>1. <<"udp", s>> \in handles' <=> server'[s].udp
  BY DEF ServerInv
<1> QED
  BY <1>1, ConnectionKept

(* Nothing is said of the servers if only the stack and what queries are   *)
(* skipping changes.                                                       *)
LEMMA ServersKept ==
  ASSUME AresTypeOK, \A s \in Servers : ServerInv(s), UNCHANGED <<server, heard, handles, writing>>,
         \A q \in Queries :
           /\ query'[q].phase = query[q].phase
           /\ query[q].over \subseteq query'[q].over
           /\ <<"callback", q>> \in ToSet(todo) => <<"callback", q>> \in ToSet(todo')
  PROVE  \A s \in Servers : ServerInv(s)'
<1>1. ASSUME NEW q \in Queries, q \in AllQueries PROVE q \in AllQueries'
  BY <1>1 DEF AllQueries, Active
<1>2. ASSUME NEW s \in Servers PROVE ServerInv(s)'
  <2>1. ServerInv(s)
    OBVIOUS
  <2>2. server[s].queries \subseteq Queries
    BY DEF AresTypeOK
  <2>3. /\ server'[s].queries \subseteq server[s].queries \cup AllQueries'
        /\ server'[s].queue = server[s].queue /\ (server'[s].broken => server[s].broken)
        /\ server'[s].tcp = server[s].tcp /\ server'[s].udp = server[s].udp
        /\ heard'[s].tcp = heard[s].tcp
        /\ (<<"udp", s>> \in handles' <=> <<"udp", s>> \in handles)
        /\ (<<"tcp", s>> \in handles' <=> <<"tcp", s>> \in handles)
        /\ (s \in writing' <=> s \in writing)
        /\ server'[s].queries \subseteq Queries
    BY <2>2
  <2>4. \A q \in Queries :
          /\ q \in AllQueries => q \in AllQueries' \/ q \notin server'[s].queries
          /\ query[q].phase = "active" => query'[q].phase = "active"
          /\ query'[q].phase = "active" => query[q].phase \in {"idle", "active"}
          /\ query'[q].phase = "idle" => query[q].phase = "idle"
          /\ s \in query[q].over => s \in query'[q].over
    BY <1>1
  <2> QED
    BY <2>1, <2>3, <2>4, ServerKept
<1> QED
  BY <1>2
-----------------------------------------------------------------------------
(* A query that a step takes in hand, or lets go.                          *)

(* An active query whose next call is made.                                *)
LEMMA InHandInv ==
  ASSUME NEW q \in Queries, query'[q].phase = "active",
         NEW t \in {<<"send", q>>, <<"next", q>>, <<"end", q, "success">>},
         InHand(q) \cap ToSet(todo') = {t}, query'[q].try_count < Attempts',
         t = <<"send", q>> /\ query'[q].using_tcp => query'[q].server \notin query'[q].over,
         ~query'[q].using_tcp => query'[q].over = {},
         \A s \in Servers : q \notin Moving(s)'
  PROVE  QueryInv(q)'
<1>1. q \in Running' /\ q \in AllQueries'
  BY DEF InHand, Running, AllQueries, Active
<1>2. \A u \in InHand(q) : u \in ToSet(todo') => u = t
  OBVIOUS
<1>3. /\ <<"end", q, "failed">> \notin ToSet(todo') /\ <<"callback", q>> \notin ToSet(todo')
      /\ <<"send", q>> \in ToSet(todo') => t = <<"send", q>>
  BY <1>2 DEF InHand
<1> QED
  BY <1>1, <1>3 DEF QueryInv

(* An active query whose attempts are used up.                             *)
LEMMA FailingInv ==
  ASSUME NEW q \in Queries, query'[q].phase = "active",
         InHand(q) \cap ToSet(todo') = {<<"end", q, "failed">>}, query'[q].try_count = Attempts',
         ~query'[q].using_tcp => query'[q].over = {},
         \A s \in Servers : q \notin Moving(s)'
  PROVE  QueryInv(q)'
<1>1. q \in Running' /\ q \in AllQueries'
  BY DEF InHand, Running, AllQueries, Active
<1>2. \A u \in InHand(q) : u \in ToSet(todo') => u = <<"end", q, "failed">>
  OBVIOUS
<1>3. /\ <<"end", q, "failed">> \in ToSet(todo') /\ <<"callback", q>> \notin ToSet(todo')
      /\ <<"send", q>> \notin ToSet(todo') /\ <<"next", q>> \notin ToSet(todo')
      /\ <<"end", q, "success">> \notin ToSet(todo')
  BY <1>2 DEF InHand
<1> QED
  BY <1>1, <1>3 DEF QueryInv

(* An active query that is in nobody's hand.                               *)
LEMMA WaitingInv ==
  ASSUME NEW q \in Queries, query'[q].phase = "active",
         InHand(q) \cap ToSet(todo') = {}, query'[q].try_count < Attempts',
         ~query'[q].using_tcp => query'[q].over = {},
         \A s \in Servers : q \in Moving(s)' => query'[q].server = s,
         (\A s \in Servers : q \notin Moving(s)') => Waits(q)'
  PROVE  QueryInv(q)'
<1>1. q \notin Running' /\ q \in AllQueries'
  BY DEF InHand, Running, AllQueries, Active
<1>2. /\ <<"end", q, "failed">> \notin ToSet(todo') /\ <<"callback", q>> \notin ToSet(todo')
      /\ <<"send", q>> \notin ToSet(todo') /\ <<"next", q>> \notin ToSet(todo')
      /\ <<"end", q, "success">> \notin ToSet(todo')
  BY DEF InHand
<1> HIDE DEF Waits
<1> QED
  BY <1>1, <1>2 DEF QueryInv

(* A query that is over.                                                   *)
LEMMA OverInv ==
  ASSUME NEW q \in Queries, query'[q].phase \notin {"idle", "active"},
         InHand(q) \cap ToSet(todo') \subseteq {<<"callback", q>>},
         ~query'[q].using_tcp => query'[q].over = {},
         \A s \in Servers : q \notin Moving(s)',
         q \in due' => <<"callback", q>> \in ToSet(todo')
  PROVE  QueryInv(q)'
<1>1. q \in due' => q \in AllQueries'
  BY DEF AllQueries
<1>2. \A u \in InHand(q) : u \in ToSet(todo') => u = <<"callback", q>>
  OBVIOUS
<1>3. /\ <<"end", q, "failed">> \notin ToSet(todo') /\ <<"send", q>> \notin ToSet(todo')
      /\ <<"next", q>> \notin ToSet(todo') /\ <<"end", q, "success">> \notin ToSet(todo')
  BY <1>2 DEF InHand
<1> QED
  BY <1>1, <1>3 DEF QueryInv
-----------------------------------------------------------------------------
(* The steps of processfds that only change the stack and what a query     *)
(* skips.                                                                  *)

(* The types of the records, by name.                                      *)
LEMMA Records ==
  ASSUME AresTypeOK
  PROVE  /\ query \in [Queries -> QueryStates] /\ server \in [Servers -> ServerStates]
         /\ heard \in [Servers -> HeardStates]
BY DEF AresTypeOK, QueryStates, ServerStates, HeardStates

(* The types of all but the queries stay when their variables do.          *)
LEMMA TypesKept ==
  ASSUME AresTypeOK, UNCHANGED <<server, heard, glue, due, conf>>,
         query' \in [Queries -> QueryStates]
  PROVE  AresTypeOK'
<1>1. /\ server' = server /\ heard' = heard /\ due' = due
      /\ handles' = handles /\ writing' = writing /\ timer' = timer
      /\ last_server' = last_server /\ channel' = channel /\ program' = program
  BY DEF glue, conf
<1>2. Attempts' = Attempts
  BY <1>1 DEF Attempts
<1>3. query' \in [Queries -> [phase : {"idle", "active", "success", "failed", "cancelled"},
                             server : Servers, try_count : 0 .. Attempts',
                             skip : SUBSET Servers, over : SUBSET Servers, using_tcp : BOOLEAN]]
  BY <1>2, Zenon DEF QueryStates
<1> QED
  BY <1>1, <1>3, Zenon DEF AresTypeOK

(* What skips a server is a set of servers.                                *)
LEMMA SkippedFacts ==
  ASSUME AresTypeOK, NEW q \in Queries, NEW s \in Servers
  PROVE  Skipped(q, s) \in SUBSET Servers
BY Records DEF Skipped, QueryStates

(* When a query is taken to move on, its fields are as before.             *)
LEMMA SkipFacts ==
  ASSUME query \in [Queries -> QueryStates], NEW q \in Queries, NEW S \in SUBSET Servers,
         query' = [query EXCEPT ![q].skip = S], UNCHANGED program
  PROVE  /\ query' \in [Queries -> QueryStates]
         /\ query' \in [Queries -> QueryStates]'
         /\ \A p \in Queries :
              /\ query'[p].phase = query[p].phase /\ query'[p].server = query[p].server
              /\ query'[p].try_count = query[p].try_count /\ query'[p].over = query[p].over
              /\ query'[p].using_tcp = query[p].using_tcp
              /\ p # q => query'[p] = query[p]
<1>1. query' \in [Queries -> QueryStates]
  BY DEF QueryStates
<1>2. QueryStates' = QueryStates
  BY DEF QueryStates, Attempts, Servers
<1>3. ASSUME NEW p \in Queries
      PROVE  /\ query'[p].phase = query[p].phase /\ query'[p].server = query[p].server
             /\ query'[p].try_count = query[p].try_count /\ query'[p].over = query[p].over
             /\ query'[p].using_tcp = query[p].using_tcp
             /\ p # q => query'[p] = query[p]
  BY DEF QueryStates
<1> QED
  BY <1>1, <1>2, <1>3

(* When a query turns to TCP, its other fields are as before.              *)
LEMMA TcpFacts ==
  ASSUME query \in [Queries -> QueryStates], NEW q \in Queries,
         query' = [query EXCEPT ![q].using_tcp = TRUE]
  PROVE  /\ query' \in [Queries -> QueryStates] /\ query'[q].using_tcp
         /\ \A p \in Queries :
              /\ query'[p].phase = query[p].phase
              /\ query'[p].try_count = query[p].try_count /\ query'[p].over = query[p].over
              /\ p # q => query'[p] = query[p]
<1>1. query' \in [Queries -> QueryStates]
  BY DEF QueryStates
<1>2. ASSUME NEW p \in Queries
      PROVE  /\ query'[p].phase = query[p].phase
             /\ query'[p].try_count = query[p].try_count /\ query'[p].over = query[p].over
             /\ p # q => query'[p] = query[p]
  BY DEF QueryStates
<1>3. query'[q].using_tcp
  BY DEF QueryStates
<1> QED
  BY <1>1, <1>2, <1>3

\* Nothing but the stack and the fields that skip a server may change.
OnlySkips ==
  /\ UNCHANGED <<server, heard, glue, conf>> /\ query' \in [Queries -> QueryStates]'
  /\ \A p \in Queries :
       /\ query'[p].phase = query[p].phase /\ query'[p].server = query[p].server
       /\ query'[p].try_count = query[p].try_count /\ query'[p].over = query[p].over
       /\ query'[p].using_tcp = query[p].using_tcp
       /\ query[p].phase # "active" => query'[p] = query[p]

(* Such a step keeps the invariant for the queries it is not about.        *)
LEMMA OnlySkipsKeeps ==
  ASSUME AresInv, OnlySkips, Stacked(todo'), due' \subseteq Queries,
         \A q \in Queries : <<"callback", q>> \in ToSet(todo) => <<"callback", q>> \in ToSet(todo'),
         due' # {} => <<"timeouts">> \in ToSet(todo'),
         \A q \in due' : q \in due \/ query[q].phase = "active",
         \A q \in Queries : Aside(q) \/ QueryInv(q)'
  PROVE  AresInv'
<1>1. AresTypeOK'
  BY DEF AresInv, OnlySkips, AresTypeOK, glue, conf, QueryStates
<1>2. Attempts' = Attempts
  BY DEF OnlySkips, conf, Attempts
<1>3. ASSUME NEW q \in Queries PROVE QueryInv(q)'
  <2>1. CASE Aside(q)
    <3>1. Waits(q) => Waits(q)'
      BY DEF Waits, OnlySkips
    <3>2. /\ query'[q].phase = query[q].phase /\ query'[q].server = query[q].server
          /\ query'[q].try_count = query[q].try_count /\ query'[q].using_tcp = query[q].using_tcp
          /\ query'[q].over \subseteq query[q].over
          /\ query[q].phase = "idle" => query'[q] = query[q]
      BY DEF OnlySkips
    <3> QED
      BY <1>2, <2>1, <3>1, <3>2, QueryKept DEF AresInv
  <2> QED
    BY <2>1
<1>4. \A s \in Servers : ServerInv(s)'
  BY ServersKept DEF AresInv, OnlySkips, glue
<1>5. timer' <=> handles' # {}
  BY DEF AresInv, OnlySkips, glue
<1> QED
  BY <1>1, <1>3, <1>4, <1>5 DEF AresInv

(* recvfrom hands over one answer, or none.                                *)
LEMMA RecvStep ==
  ASSUME AresInv, NEW s \in Servers, NEW batch \in SUBSET Queries, read_udp_packets(s, batch)
  PROVE  AresInv'
<1> DEFINE t == <<"recv", s, batch>>
<1>1. Stacked(todo) /\ Doing(t) /\ AresTypeOK
  BY DEF AresInv, read_udp_packets
<1>2. ToSet(todo) = {t} \cup Rest
  BY <1>1, AtHead
<1>3. UNCHANGED <<query, server, heard, glue, due, conf>>
  BY DEF read_udp_packets
<1>4. OnlySkips
  BY <1>1, <1>3, Records DEF OnlySkips, conf, QueryStates, Attempts, Servers
<1>5. \E B : /\ Became(B)
             /\ \A q \in Queries : B \cap InHand(q) = {}
             /\ \A x, Q : <<"move", x, Q>> \notin B
  <2>1. CASE Then(<<>>)
    BY <1>1, <2>1, HeadDone
  <2>2. CASE Then(<<<<"error", s>>>>)
    <3>1. Became({<<"error", s>>})
      BY <1>1, <2>2, ProcessfdsDone
    <3> QED
      BY <3>1 DEF InHand
  <2>3. ASSUME NEW q \in batch, NEW answer \in program.answers,
               Then(<<<<"answer", s, q, answer, FALSE>>, <<"recv", s, batch \ {q}>>>>)
        PROVE  \E B : /\ Became(B)
                      /\ \A p \in Queries : B \cap InHand(p) = {}
                      /\ \A x, Q : <<"move", x, Q>> \notin B
    <3>1. answer \in {"ok", "refused", "truncated"}
      BY <1>1, AresAssumption DEF AresTypeOK
    <3>2. q \in Queries /\ batch \ {q} \in SUBSET Queries
      OBVIOUS
    <3>3. Became({<<"answer", s, q, answer, FALSE>>, <<"recv", s, batch \ {q}>>})
      BY <1>1, <2>3, <3>1, <3>2, ProcessfdsDone
    <3>4. \A p \in Queries : <<"answer", s, q, answer, FALSE>> \notin InHand(p)
                             /\ <<"recv", s, batch \ {q}>> \notin InHand(p)
      BY DEF InHand
    <3>5. \A x, Q : <<"move", x, Q>> # <<"answer", s, q, answer, FALSE>>
                    /\ <<"move", x, Q>> # <<"recv", s, batch \ {q}>>
      OBVIOUS
    <3> DEFINE B == {<<"answer", s, q, answer, FALSE>>, <<"recv", s, batch \ {q}>>}
    <3>6. Became(B) /\ (\A p \in Queries : B \cap InHand(p) = {}) /\ \A x, Q : <<"move", x, Q>> \notin B
      BY <3>3, <3>4, <3>5
    <3> HIDE DEF B
    <3> QED
      BY <3>6
  <2> QED
    BY <2>1, <2>2, <2>3 DEF read_udp_packets
<1>6. PICK B : /\ Became(B)
               /\ \A q \in Queries : B \cap InHand(q) = {}
               /\ \A x, Q : <<"move", x, Q>> \notin B
  BY <1>5
<1>7. Stacked(todo') /\ ToSet(todo') = B \cup Rest
  BY <1>6 DEF Became
<1>8. ASSUME NEW q \in Queries PROVE Aside(q)
  <2>1. {t} \cap InHand(q) = {} /\ \A x, Q : <<"move", x, Q>> \notin {t}
    BY DEF InHand
  <2> QED
    BY <1>2, <1>6, <1>7, <2>1, NotMoved
<1>9. \A q \in Queries : <<"callback", q>> \in ToSet(todo) => <<"callback", q>> \in ToSet(todo')
  BY <1>8 DEF Aside, InHand
<1>10. <<"timeouts">> \in ToSet(todo) => <<"timeouts">> \in ToSet(todo')
  BY <1>2, <1>7
<1> QED
  BY <1>3, <1>4, <1>7, <1>8, <1>9, <1>10, OnlySkipsKeeps DEF AresInv, AresTypeOK

(* The connections that are marked as broken are looked for one by one.    *)
LEMMA BrokenStep ==
  ASSUME AresInv, NEW s \in Servers, process_broken_connections(s)
  PROVE  AresInv'
<1> DEFINE t == <<"broken", s>>
           lost == IF server[s].broken THEN <<<<"error", s>>>> ELSE <<>>
           more == IF s + 1 < NServers THEN <<<<"broken", s + 1>>>> ELSE <<>>
<1>1. Stacked(todo) /\ Doing(t) /\ AresTypeOK
  BY DEF AresInv, process_broken_connections
<1>2. ToSet(todo) = {t} \cup Rest
  BY <1>1, AtHead
<1>3. UNCHANGED <<query, server, heard, glue, due, conf>> /\ todo' = (lost \o more) \o Tail(todo)
  BY DEF process_broken_connections, Then
<1>4. OnlySkips
  BY <1>1, <1>3, Records DEF OnlySkips, conf, QueryStates, Attempts, Servers
<1>5. s + 1 < NServers => s + 1 \in Servers
  BY AresAssumption DEF Servers
<1>6. \E B : Became(B) /\ B \subseteq {<<"error", s>>, <<"broken", s + 1>>}
  <2>1. \/ lost = <<>> \/ lost = <<<<"error", s>>>>
    OBVIOUS
  <2>2. \/ more = <<>> \/ (more = <<<<"broken", s + 1>>>> /\ s + 1 \in Servers)
    BY <1>5
  <2>3. /\ <<>> \o <<>> = <<>>
        /\ <<<<"error", s>>>> \o <<>> = <<<<"error", s>>>>
        /\ <<>> \o <<<<"broken", s + 1>>>> = <<<<"broken", s + 1>>>>
        /\ <<<<"error", s>>>> \o <<<<"broken", s + 1>>>> = <<<<"error", s>>, <<"broken", s + 1>>>>
    BY Joined
  <2> HIDE DEF lost, more
  <2>4. CASE lost = <<>> /\ more = <<>>
    <3>1. Then(<<>>)
      BY <1>3, <2>3, <2>4 DEF Then
    <3>2. Became({})
      BY <1>1, <3>1, HeadDone
    <3> QED
      BY <3>2
  <2>5. CASE lost = <<<<"error", s>>>> /\ more = <<>>
    <3>1. Then(<<<<"error", s>>>>)
      BY <1>3, <2>3, <2>5 DEF Then
    <3>2. Became({<<"error", s>>})
      BY <1>1, <3>1, ProcessfdsDone
    <3> QED
      BY <3>2
  <2>6. CASE lost = <<>> /\ more = <<<<"broken", s + 1>>>> /\ s + 1 \in Servers
    <3>1. Then(<<<<"broken", s + 1>>>>)
      BY <1>3, <2>3, <2>6 DEF Then
    <3>2. Became({<<"broken", s + 1>>})
      BY <1>1, <2>6, <3>1, ProcessfdsDone
    <3> QED
      BY <3>2
  <2>7. CASE lost = <<<<"error", s>>>> /\ more = <<<<"broken", s + 1>>>> /\ s + 1 \in Servers
    <3>1. Then(<<<<"error", s>>, <<"broken", s + 1>>>>)
      BY <1>3, <2>3, <2>7 DEF Then
    <3>2. Became({<<"error", s>>, <<"broken", s + 1>>})
      BY <1>1, <2>7, <3>1, ProcessfdsDone
    <3> QED
      BY <3>2
  <2> QED
    BY <2>1, <2>2, <2>4, <2>5, <2>6, <2>7
<1>7. PICK B : Became(B) /\ B \subseteq {<<"error", s>>, <<"broken", s + 1>>}
  BY <1>6
<1>8. Stacked(todo') /\ ToSet(todo') = B \cup Rest
  BY <1>7 DEF Became
<1>9. ASSUME NEW q \in Queries PROVE Aside(q)
  <2>1. /\ t \notin InHand(q) /\ <<"error", s>> \notin InHand(q) /\ <<"broken", s + 1>> \notin InHand(q)
        /\ \A x, Q : /\ <<"move", x, Q>> # t /\ <<"move", x, Q>> # <<"error", s>>
                     /\ <<"move", x, Q>> # <<"broken", s + 1>>
    BY DEF InHand
  <2>2. /\ {t} \cap InHand(q) = {} /\ \A x, Q : <<"move", x, Q>> \notin {t}
        /\ B \cap InHand(q) = {} /\ \A x, Q : <<"move", x, Q>> \notin B
    BY <1>7, <2>1
  <2> HIDE DEF t
  <2> QED
    BY <1>2, <1>8, <2>2, NotMoved
<1>10. \A q \in Queries : <<"callback", q>> \in ToSet(todo) => <<"callback", q>> \in ToSet(todo')
  BY <1>9 DEF Aside, InHand
<1>11. <<"timeouts">> \in ToSet(todo) => <<"timeouts">> \in ToSet(todo')
  BY <1>2, <1>8
<1> QED
  BY <1>3, <1>4, <1>8, <1>9, <1>10, <1>11, OnlySkipsKeeps DEF AresInv, AresTypeOK

(* A query whose timeout is over moves on.                                 *)
LEMMA TimeoutsStep ==
  ASSUME AresInv, process_timeouts
  PROVE  AresInv'
<1> DEFINE t == <<"timeouts">>
<1>1. Stacked(todo) /\ Doing(t) /\ AresTypeOK
  BY DEF AresInv, process_timeouts
<1>2. ToSet(todo) = {t} \cup Rest
  BY <1>1, AtHead
<1>3. t[1] = "timeouts"
  OBVIOUS
<1>4. /\ \A p \in Queries : InHand(p) \cap Rest = {}
      /\ \A x, Q : <<"move", x, Q>> \notin Rest
  <2>1. /\ \A p \in Queries : /\ <<"send", p>> \notin Rest /\ <<"next", p>> \notin Rest
                              /\ <<"end", p, "success">> \notin Rest
                              /\ <<"end", p, "failed">> \notin Rest
                              /\ <<"callback", p>> \notin Rest
        /\ \A x, Q : <<"move", x, Q>> \notin Rest
    BY <1>1, <1>3, BelowHead
  <2> QED
    BY <2>1 DEF InHand
<1>5. UNCHANGED <<query, server, heard, glue, conf>>
  BY DEF process_timeouts
<1>6. OnlySkips
  BY <1>1, <1>5, Records DEF OnlySkips, conf, QueryStates, Attempts, Servers
<1>7. \A q \in Queries : t \notin InHand(q) /\ \A x, Q : <<"move", x, Q>> # t
  BY DEF InHand
<1>8. CASE due = {} /\ Then(<<>>) /\ UNCHANGED due
  <2>1. Stacked(todo') /\ ToSet(todo') = {} \cup Rest
    BY <1>1, <1>8, HeadDone DEF Became
  <2>2. ASSUME NEW q \in Queries PROVE Aside(q)
    <3> DEFINE A == {t}
               B == {}
    <3>1. /\ A \cap InHand(q) = {} /\ \A x, Q : <<"move", x, Q>> \notin A
          /\ B \cap InHand(q) = {} /\ \A x, Q : <<"move", x, Q>> \notin B
      BY <1>7
    <3>2. ToSet(todo) = A \cup Rest /\ ToSet(todo') = B \cup Rest
      BY <1>2, <2>1
    <3> HIDE DEF A, B
    <3> QED
      BY <3>1, <3>2, NotMoved
  <2>3. \A q \in Queries : <<"callback", q>> \in ToSet(todo) => <<"callback", q>> \in ToSet(todo')
    BY <2>2 DEF Aside, InHand
  <2> QED
    BY <1>6, <1>8, <2>1, <2>2, <2>3, OnlySkipsKeeps
<1>9. ASSUME NEW q \in due, due' = due \ {q}, Then(<<<<"next", q>>, t>>)
      PROVE  AresInv'
  <2>1. q \in Queries
    BY <1>1 DEF AresTypeOK
  <2>2. Stacked(todo') /\ ToSet(todo') = {<<"next", q>>, t} \cup Rest
    <3>1. 0 \in Servers
      BY AresAssumption DEF Servers
    <3>2. Became({<<"next", q>>, <<"timeouts">>})
      BY <1>1, <1>9, <2>1, <3>1, ProcessfdsDone
    <3> QED
      BY <3>2 DEF Became
  <2>3. query[q].phase = "active"
    <3>1. QueryInv(q)
      BY <2>1 DEF AresInv
    <3>2. q \in AllQueries
      BY <1>9, <3>1 DEF QueryInv
    <3>3. <<"callback", q>> \notin ToSet(todo)
      BY <1>2, <1>4, <1>7, <2>1 DEF InHand
    <3> QED
      BY <3>2, <3>3 DEF AllQueries, Active
  <2>4. ASSUME NEW p \in Queries, p # q PROVE Aside(p)
    <3>1. <<"next", q>> \notin InHand(p) /\ \A x, Q : <<"move", x, Q>> # <<"next", q>>
      BY <2>4 DEF InHand
    <3> DEFINE A == {t}
               B == {<<"next", q>>, t}
    <3>2. /\ A \cap InHand(p) = {} /\ \A x, Q : <<"move", x, Q>> \notin A
          /\ B \cap InHand(p) = {} /\ \A x, Q : <<"move", x, Q>> \notin B
      BY <1>7, <3>1
    <3>3. ToSet(todo) = A \cup Rest /\ ToSet(todo') = B \cup Rest
      BY <1>2, <2>2
    <3> HIDE DEF A, B
    <3> QED
      BY <3>2, <3>3, NotMoved
  <2>5. QueryInv(q)'
    <3>1. QueryInv(q)
      BY <2>1 DEF AresInv
    <3>2. <<"end", q, "failed">> \notin ToSet(todo)
      BY <1>2, <1>4, <1>7, <2>1 DEF InHand
    <3>3. InHand(q) \cap ToSet(todo') = {<<"next", q>>}
      <4>1. <<"next", q>> \in InHand(q)
        BY DEF InHand
      <4> HIDE DEF t
      <4> QED
        BY <1>4, <1>7, <2>1, <2>2, <4>1
    <3>4. \A s \in Servers : q \notin Moving(s)'
      <4>1. \A x, Q : <<"move", x, Q>> # <<"next", q>>
        OBVIOUS
      <4>2. \A x, Q : <<"move", x, Q>> \notin ToSet(todo')
        BY <1>4, <1>7, <2>1, <2>2, <4>1
      <4> QED
        BY <4>2 DEF Moving
    <3>5. query[q].try_count < Attempts /\ (~query[q].using_tcp => query[q].over = {})
      BY <2>3, <3>1, <3>2 DEF QueryInv
    <3>6. Attempts' = Attempts /\ query' = query
      BY <1>5 DEF conf, Attempts
    <3> QED
      BY <2>1, <2>3, <3>3, <3>4, <3>5, <3>6, InHandInv
  <2>6. \A p \in Queries : <<"callback", p>> \in ToSet(todo) => <<"callback", p>> \in ToSet(todo')
    BY <1>2, <1>4, <1>7 DEF InHand
  <2> QED
    BY <1>1, <1>6, <1>9, <2>2, <2>4, <2>5, <2>6, OnlySkipsKeeps DEF AresTypeOK
<1> QED
  BY <1>8, <1>9 DEF process_timeouts

(* The stolen queries move on one by one.                                  *)
LEMMA MoveStep ==
  ASSUME AresInv, NEW s \in Servers, NEW stolen \in SUBSET Queries, MoveOn(s, stolen)
  PROVE  AresInv'
<1> DEFINE t == <<"move", s, stolen>>
<1>1. Stacked(todo) /\ Doing(t) /\ AresTypeOK
  BY DEF AresInv, MoveOn
<1>2. ToSet(todo) = {t} \cup Rest
  BY <1>1, AtHead
<1>3. t[1] = "move"
  OBVIOUS
<1>4. \A p \in Queries : InHand(p) \cap Rest = {} /\ t \notin InHand(p)
  <2>1. \A p \in Queries : /\ <<"send", p>> \notin Rest /\ <<"next", p>> \notin Rest
                           /\ <<"end", p, "success">> \notin Rest
                           /\ <<"end", p, "failed">> \notin Rest
                           /\ <<"callback", p>> \notin Rest
    BY <1>1, <1>3, BelowHead
  <2> QED
    BY <2>1 DEF InHand
<1>5. \A x, Q : <<"move", x, Q>> \notin Rest
  <2>1. \A r \in Rest : MayLieBelow(r[1], "move")
    BY <1>1, <1>3, AtHead
  <2>2. \A x, Q : <<"move", x, Q>>[1] = "move"
    OBVIOUS
  <2> QED
    BY <2>1, <2>2 DEF MayLieBelow
<1>6. \A p \in Queries : InHand(p) \cap ToSet(todo) = {}
  BY <1>2, <1>4
<1>7. \A p \in Queries : p \in stolen => /\ p \in Moving(s) /\ query[p].phase = "active"
                                         /\ query[p].try_count < Attempts
                                         /\ (~query[p].using_tcp => query[p].over = {})
                                         /\ query[p].server = s
  <2>1. ASSUME NEW p \in Queries, p \in stolen
        PROVE  /\ p \in Moving(s) /\ query[p].phase = "active" /\ query[p].try_count < Attempts
               /\ (~query[p].using_tcp => query[p].over = {}) /\ query[p].server = s
    <3>1. p \in Moving(s)
      BY <1>2, <2>1 DEF Moving
    <3>2. <<"end", p, "failed">> \notin ToSet(todo)
      BY <1>6 DEF InHand
    <3> QED
      BY <3>1, <3>2 DEF AresInv, QueryInv
  <2> QED
    BY <2>1
<1>8. UNCHANGED <<server, heard, glue, due, conf>>
  BY DEF MoveOn
<1>9. CASE stolen = {} /\ Then(<<>>) /\ UNCHANGED query
  <2>1. Stacked(todo') /\ ToSet(todo') = Rest
    BY <1>1, <1>9, HeadDone DEF Became
  <2>2. ASSUME NEW q \in Queries PROVE Aside(q)
    <3>1. \A u \in InHand(q) : u \in ToSet(todo') <=> u \in ToSet(todo)
      BY <1>4, <1>6, <2>1
    <3>2. \A x \in Servers : q \notin Moving(x)' /\ q \notin Moving(x)
      <4>1. \A x, Q : <<"move", x, Q>> = t => Q = {}
        BY <1>9
      <4> HIDE DEF t
      <4> QED
        BY <1>2, <1>5, <2>1, <4>1 DEF Moving
    <3> QED
      BY <3>1, <3>2 DEF Aside
  <2>3. OnlySkips
    BY <1>1, <1>8, <1>9, Records DEF OnlySkips, conf, QueryStates, Attempts, Servers
  <2>4. \A q \in Queries : <<"callback", q>> \in ToSet(todo) => <<"callback", q>> \in ToSet(todo')
    BY <2>2 DEF Aside, InHand
  <2>5. <<"timeouts">> \in ToSet(todo) => <<"timeouts">> \in ToSet(todo')
    BY <1>2, <2>1
  <2> QED
    BY <1>8, <2>1, <2>2, <2>3, <2>4, <2>5, OnlySkipsKeeps DEF AresInv, AresTypeOK
<1>10. ASSUME NEW q \in stolen, query' = [query EXCEPT ![q].skip = Skipped(q, s)],
              Then(<<<<"next", q>>, <<"move", s, stolen \ {q}>>>>)
       PROVE  AresInv'
  <2> DEFINE u == <<"next", q>>
             v == <<"move", s, stolen \ {q}>>
  <2>1. q \in Queries /\ stolen \ {q} \in SUBSET Queries
    OBVIOUS
  <2>2. Stacked(todo') /\ ToSet(todo') = {u, v} \cup Rest
    BY <1>1, <1>10, <2>1, ProcessfdsDone DEF Became
  <2>3. OnlySkips
    <3>1. Skipped(q, s) \in SUBSET Servers /\ UNCHANGED program
      BY <1>1, <1>8, SkippedFacts DEF conf
    <3>2. /\ query' \in [Queries -> QueryStates]'
          /\ \A p \in Queries :
              /\ query'[p].phase = query[p].phase /\ query'[p].server = query[p].server
              /\ query'[p].try_count = query[p].try_count /\ query'[p].over = query[p].over
              /\ query'[p].using_tcp = query[p].using_tcp
              /\ p # q => query'[p] = query[p]
      BY <1>1, <1>10, <3>1, Records, SkipFacts
    <3> QED
      BY <1>7, <1>8, <3>2 DEF OnlySkips
  <2>4. /\ \A p \in Queries : v \notin InHand(p) /\ (p # q => u \notin InHand(p))
        /\ u \in InHand(q)
        /\ \A x, Q : <<"move", x, Q>> # u
        /\ \A x, Q : <<"move", x, Q>> = v <=> x = s /\ Q = stolen \ {q}
        /\ \A x, Q : <<"move", x, Q>> = t <=> x = s /\ Q = stolen
    BY DEF InHand
  <2> HIDE DEF t, u, v
  <2>5. /\ \A x, Q : <<"move", x, Q>> \in ToSet(todo) <=> x = s /\ Q = stolen
        /\ \A x, Q : <<"move", x, Q>> \in ToSet(todo') <=> x = s /\ Q = stolen \ {q}
    BY <1>2, <1>5, <2>2, <2>4
  <2>6. ASSUME NEW p \in Queries, p # q PROVE Aside(p)
    <3>1. \A w \in InHand(p) : w \in ToSet(todo') <=> w \in ToSet(todo)
      BY <1>4, <1>6, <2>2, <2>4, <2>6
    <3>2. \A x \in Servers : p \in Moving(x)' <=> p \in Moving(x)
      <4>1. ASSUME NEW x \in Servers
            PROVE  /\ p \in Moving(x) <=> x = s /\ p \in stolen
                   /\ p \in Moving(x)' <=> x = s /\ p \in stolen
        <5>1. p \in Moving(x) <=> x = s /\ p \in stolen
          BY <2>5 DEF Moving
        <5>2. p \in Moving(x)' <=> x = s /\ p \in stolen \ {q}
          BY <2>1, <2>5 DEF Moving
        <5> QED
          BY <2>6, <5>1, <5>2
      <4> QED
        BY <4>1
    <3> QED
      BY <3>1, <3>2 DEF Aside
  <2>7. QueryInv(q)'
    <3>1. InHand(q) \cap ToSet(todo') = {u}
      BY <1>4, <2>2, <2>4
    <3>2. \A x \in Servers : q \notin Moving(x)'
      BY <2>5 DEF Moving
    <3>3. /\ query'[q].phase = "active" /\ query'[q].try_count < Attempts
          /\ ~query'[q].using_tcp => query'[q].over = {}
      BY <1>7, <2>1, <2>3 DEF OnlySkips
    <3>4. Attempts' = Attempts
      BY <1>8 DEF conf, Attempts
    <3>5. u \in {<<"send", q>>, <<"next", q>>, <<"end", q, "success">>} /\ u # <<"send", q>>
      BY DEF u
    <3> QED
      BY <2>1, <3>1, <3>2, <3>3, <3>4, <3>5, InHandInv
  <2>8. \A p \in Queries : <<"callback", p>> \in ToSet(todo) => <<"callback", p>> \in ToSet(todo')
    BY <1>6 DEF InHand
  <2>9. <<"timeouts">> \in ToSet(todo) => <<"timeouts">> \in ToSet(todo')
    <3>1. <<"timeouts">> # t
      BY DEF t
    <3> QED
      BY <1>2, <2>2, <3>1
  <2> QED
    BY <1>8, <2>2, <2>3, <2>6, <2>7, <2>8, <2>9, OnlySkipsKeeps DEF AresInv, AresTypeOK
<1> QED
  BY <1>9, <1>10 DEF MoveOn

(* Under a task of processfds no query is in hand and none is moved.       *)
LEMMA NobodyInHand ==
  ASSUME AresInv, NEW t, Doing(t), t[1] \in {"answer", "recv", "error", "timeouts", "broken"}
  PROVE  /\ ToSet(todo) = {t} \cup Rest
         /\ \A p \in Queries : InHand(p) \cap ToSet(todo) = {} /\ p \notin Running
         /\ \A x, Q : <<"move", x, Q>> \notin ToSet(todo)
         /\ \A p \in Queries, s \in Servers : p \notin Moving(s)
         /\ AllQueries = Active
         /\ \A p \in Queries : query[p].phase = "active" => Waits(p) /\ query[p].try_count < Attempts
<1>1. Stacked(todo) /\ ToSet(todo) = {t} \cup Rest
  BY AtHead DEF AresInv
<1>2. ASSUME NEW p \in Queries
      PROVE  /\ <<"send", p>> # t /\ <<"next", p>> # t /\ <<"end", p, "success">> # t
             /\ <<"end", p, "failed">> # t /\ <<"callback", p>> # t
  <2>1. /\ <<"send", p>>[1] = "send" /\ <<"next", p>>[1] = "next" /\ <<"callback", p>>[1] = "callback"
        /\ <<"end", p, "success">>[1] = "end" /\ <<"end", p, "failed">>[1] = "end"
    OBVIOUS
  <2> QED
    BY <2>1
<1>3. \A x, Q : <<"move", x, Q>> # t
  <2>1. \A x, Q : <<"move", x, Q>>[1] = "move"
    OBVIOUS
  <2> QED
    BY <2>1
<1>4. ASSUME NEW p \in Queries
      PROVE  InHand(p) \cap ToSet(todo) = {} /\ <<"callback", p>> \notin ToSet(todo)
             /\ <<"end", p, "failed">> \notin ToSet(todo)
  <2>1. /\ <<"send", p>> \notin Rest /\ <<"next", p>> \notin Rest /\ <<"callback", p>> \notin Rest
        /\ <<"end", p, "success">> \notin Rest /\ <<"end", p, "failed">> \notin Rest
    BY <1>1, BelowHead
  <2> QED
    BY <1>1, <1>2, <2>1 DEF InHand
<1>5. \A x, Q : <<"move", x, Q>> \notin ToSet(todo)
  <2>1. \A x, Q : <<"move", x, Q>> \notin Rest
    BY <1>1, BelowHead
  <2> QED
    BY <1>1, <1>3, <2>1
<1>6. \A p \in Queries, s \in Servers : p \notin Moving(s)
  BY <1>5 DEF Moving
<1>7. AllQueries = Active
  BY <1>4 DEF AllQueries
<1>8. \A p \in Queries : p \notin Running
  BY <1>4 DEF Running, InHand
<1>9. ASSUME NEW p \in Queries, query[p].phase = "active" PROVE Waits(p) /\ query[p].try_count < Attempts
  <2>1. QueryInv(p)
    BY DEF AresInv
  <2> HIDE DEF Waits
  <2> QED
    BY <1>4, <1>6, <1>8, <1>9, <2>1 DEF QueryInv
<1> QED
  BY <1>1, <1>4, <1>5, <1>6, <1>7, <1>8, <1>9

(* An answer ends its query, sends it again or makes it move on, or finds  *)
(* no query that waits for it.                                             *)
LEMMA AnswerStep ==
  ASSUME AresInv, NEW s \in Servers, NEW q \in Queries, NEW answer, NEW tcp,
         process_answer(s, q, answer, tcp)
  PROVE  AresInv'
<1> DEFINE t == <<"answer", s, q, answer, tcp>>
<1>1. Stacked(todo) /\ Doing(t) /\ AresTypeOK /\ t[1] = "answer"
  BY DEF AresInv, process_answer
<1>2. UNCHANGED <<server, heard, glue, due, conf>>
  BY DEF process_answer
<1>3. /\ \A p \in Queries : t \notin InHand(p)
      /\ <<"timeouts">> # t
  BY DEF InHand
<1> HIDE DEF t
<1>4. /\ ToSet(todo) = {t} \cup Rest
      /\ \A p \in Queries : InHand(p) \cap ToSet(todo) = {}
      /\ \A x, Q : <<"move", x, Q>> \notin ToSet(todo)
      /\ \A p \in Queries : query[p].phase = "active" => query[p].try_count < Attempts
  BY <1>1, NobodyInHand
<1>5. \A p \in Queries : <<"callback", p>> \notin ToSet(todo)
  BY <1>4 DEF InHand
<1>6. Attempts' = Attempts /\ due' \subseteq Queries /\ (due' # {} => <<"timeouts">> \in ToSet(todo))
      /\ UNCHANGED program
  BY <1>2 DEF AresInv, AresTypeOK, Attempts, conf
<1>7. ASSUME Stacked(todo'), NEW B, ToSet(todo') = B \cup Rest, OnlySkips,
             B # {} => /\ query[q].phase = "active"
                       /\ B = {<<"next", q>>} \/ B = {<<"end", q, "success">>}
      PROVE  AresInv'
  <2>1. \A x, Q : <<"move", x, Q>> \notin B
    BY <1>7
  <2>2. ASSUME NEW p \in Queries, B \cap InHand(p) = {} PROVE Aside(p)
    <3> DEFINE A == {t}
    <3>1. A \cap InHand(p) = {} /\ (\A x, Q : <<"move", x, Q>> \notin A) /\ ToSet(todo) = A \cup Rest
      BY <1>3, <1>4
    <3> HIDE DEF A
    <3> QED
      BY <1>7, <2>1, <2>2, <3>1, NotMoved
  <2>3. ASSUME NEW u \in B PROVE QueryInv(q)'
    <3>1. /\ query[q].phase = "active" /\ B = {u}
          /\ u \in {<<"next", q>>, <<"end", q, "success">>} /\ u # <<"send", q>>
      BY <1>7, <2>3
    <3>2. InHand(q) \cap ToSet(todo') = {u}
      BY <1>4, <1>7, <3>1 DEF InHand
    <3>3. \A x \in Servers : q \notin Moving(x)'
      BY <1>4, <1>7, <2>1 DEF Moving
    <3>4. /\ query'[q].phase = "active" /\ query'[q].try_count < Attempts'
          /\ ~query'[q].using_tcp => query'[q].over = {}
      BY <1>4, <1>6, <1>7, <3>1 DEF OnlySkips, AresInv, QueryInv
    <3> QED
      BY <3>1, <3>2, <3>3, <3>4, InHandInv
  <2>4. ASSUME NEW p \in Queries PROVE Aside(p) \/ QueryInv(p)'
    <3>1. CASE B \cap InHand(p) = {}
      BY <2>2, <3>1
    <3>2. CASE B \cap InHand(p) # {}
      <4>1. p = q
        BY <1>7, <3>2 DEF InHand
      <4> QED
        BY <2>3, <3>2, <4>1
    <3> QED
      BY <3>1, <3>2
  <2>5. due' # {} => <<"timeouts">> \in ToSet(todo')
    BY <1>3, <1>4, <1>6, <1>7
  <2> QED
    BY <1>2, <1>5, <1>6, <1>7, <2>4, <2>5, OnlySkipsKeeps
<1>8. UNCHANGED query => OnlySkips
  BY <1>1, <1>2, Records DEF OnlySkips, conf, QueryStates, Attempts, Servers
<1>9. ASSUME OnlySkips, Then(<<>>) PROVE AresInv'
  <2> DEFINE B == {}
  <2>1. Became(B) /\ B = {}
    BY <1>1, <1>9, HeadDone
  <2> HIDE DEF B
  <2> QED
    BY <1>7, <1>9, <2>1 DEF Became
<1>10. CASE q \notin Active /\ Then(<<>>) /\ UNCHANGED query
  BY <1>8, <1>10, <1>9
<1>11. CASE q \in Active /\ Then(<<<<"end", q, "success">>>>) /\ UNCHANGED query
  BY <1>1, <1>7, <1>8, <1>11, HeadFollowed DEF Became, Active
<1>12. CASE /\ q \in Active /\ query' = [query EXCEPT ![q].skip = Skipped(q, s)]
            /\ Then(IF query[q].server = s THEN <<<<"next", q>>>> ELSE <<>>)
  <2>1. query[q].phase = "active"
    BY <1>12 DEF Active
  <2>2. OnlySkips
    <3>1. Skipped(q, s) \in SUBSET Servers
      BY <1>1, SkippedFacts
    <3>2. /\ query' \in [Queries -> QueryStates]'
          /\ \A p \in Queries :
              /\ query'[p].phase = query[p].phase /\ query'[p].server = query[p].server
              /\ query'[p].try_count = query[p].try_count /\ query'[p].over = query[p].over
              /\ query'[p].using_tcp = query[p].using_tcp
              /\ p # q => query'[p] = query[p]
      BY <1>1, <1>6, <1>12, <3>1, Records, SkipFacts
    <3> QED
      BY <1>2, <2>1, <3>2 DEF OnlySkips
  <2>3. CASE Then(<<>>)
    BY <1>9, <2>2, <2>3
  <2>4. CASE Then(<<<<"next", q>>>>)
    BY <1>1, <1>7, <2>1, <2>2, <2>4, HeadFollowed DEF Became
  <2> QED
    BY <1>12, <2>3, <2>4
<1>13. CASE /\ q \in Active /\ query' = [query EXCEPT ![q].using_tcp = TRUE]
            /\ Then(IF query[q].using_tcp THEN <<>> ELSE <<<<"send", q>>>>)
  <2>1. /\ query[q].phase = "active" /\ query[q].try_count < Attempts
        /\ ~query[q].using_tcp => query[q].over = {}
    BY <1>4, <1>13 DEF Active, AresInv, QueryInv
  <2>2. CASE query[q].using_tcp
    <3>1. query' = query
      BY <1>1, <1>13, <2>2, Records DEF QueryStates
    <3> QED
      BY <1>8, <1>13, <1>9, <2>2, <3>1
  <2>3. CASE ~query[q].using_tcp
    <3> DEFINE u == <<"send", q>>
    <3>1. Stacked(todo') /\ ToSet(todo') = {u} \cup Rest
      BY <1>1, <1>13, <2>3, HeadFollowed DEF Became
    <3>2. /\ query' \in [Queries -> QueryStates]
          /\ query'[q].using_tcp /\ query'[q].phase = "active"
          /\ query'[q].try_count = query[q].try_count /\ query'[q].over = query[q].over
          /\ \A p \in Queries : /\ p # q => query'[p] = query[p]
                                /\ query'[p].phase = query[p].phase /\ query'[p].over = query[p].over
      BY <1>1, <1>13, <2>1, Records, TcpFacts
    <3>3. AresTypeOK'
      BY <1>1, <1>2, <3>2, TypesKept
    <3>4. u \in InHand(q) /\ \A p \in Queries : p # q => u \notin InHand(p)
      BY DEF InHand
    <3>5. \A x, Q : <<"move", x, Q>> # u
      OBVIOUS
    <3> HIDE DEF u
    <3>6. QueryInv(q)'
      <4>1. InHand(q) \cap ToSet(todo') = {u}
        BY <1>4, <3>1, <3>4
      <4>2. \A x \in Servers : q \notin Moving(x)'
        BY <1>4, <3>1, <3>5 DEF Moving
      <4>3. u \in {<<"send", q>>, <<"next", q>>, <<"end", q, "success">>}
        BY DEF u
      <4> QED
        BY <1>6, <2>1, <2>3, <3>2, <4>1, <4>2, <4>3, InHandInv
    <3>7. ASSUME NEW p \in Queries, p # q PROVE QueryInv(p)'
      <4> DEFINE A == {t}
                 B == {u}
      <4>1. /\ A \cap InHand(p) = {} /\ (\A x, Q : <<"move", x, Q>> \notin A) /\ ToSet(todo) = A \cup Rest
            /\ B \cap InHand(p) = {} /\ (\A x, Q : <<"move", x, Q>> \notin B) /\ ToSet(todo') = B \cup Rest
        BY <1>3, <1>4, <3>1, <3>4, <3>5, <3>7
      <4> HIDE DEF A, B
      <4>2. Aside(p)
        BY <4>1, NotMoved
      <4>3. Waits(p) => Waits(p)'
        BY <1>2, <3>2, <3>7 DEF Waits
      <4>4. QueryInv(p) /\ (p \in due' => p \in due)
        BY <1>2 DEF AresInv
      <4> QED
        BY <1>6, <3>2, <3>7, <4>2, <4>3, <4>4, QueryKept
    <3>8. \A x \in Servers : ServerInv(x)'
      BY <1>2, <1>5, <3>2, ServersKept DEF AresInv, glue
    <3>9. (timer' <=> handles' # {}) /\ (due' # {} => <<"timeouts">> \in ToSet(todo'))
      BY <1>2, <1>3, <1>4, <1>6, <3>1 DEF AresInv, glue
    <3> QED
      BY <3>1, <3>3, <3>6, <3>7, <3>8, <3>9 DEF AresInv
  <2> QED
    BY <2>2, <2>3
<1> QED
  BY <1>10, <1>11, <1>12, <1>13 DEF process_answer
-----------------------------------------------------------------------------
(* The calls of the loop.                                                  *)

(* processfds finds an empty stack and lays its tasks on it.               *)
LEMMA ProcessfdsFacts ==
  ASSUME AresInv, NEW work, Processfds(work),
         work = <<>> \/ \E t \in Tasks : work = <<t>> /\ t[1] \in {"error", "answer", "recv"}
  PROVE  /\ Stacked(todo') /\ <<"timeouts">> \in ToSet(todo') /\ ToSet(todo) = {}
         /\ \A q \in Queries : Aside(q)
         /\ due' \subseteq Active
<1> DEFINE bottom == {<<"timeouts">>, <<"broken", 0>>}
<1>1. /\ todo = <<>> /\ due' \subseteq Active
      /\ todo' = work \o <<<<"timeouts">>, <<"broken", 0>>>>
  BY DEF Processfds
<1>2. Stacked(todo') /\ ToSet(todo') = ToSet(work) \cup bottom
  BY <1>1, ProcessfdsStack
<1>3. ToSet(todo) = {}
  BY <1>1, NothingToDo
<1>4. \A t \in ToSet(work) : t[1] \in {"error", "answer", "recv"}
  BY DEF ToSet
<1>5. ASSUME NEW q \in Queries PROVE Aside(q)
  <2> DEFINE A == {}
             B == ToSet(work) \cup bottom
  <2>1. /\ <<"send", q>>[1] = "send" /\ <<"next", q>>[1] = "next" /\ <<"callback", q>>[1] = "callback"
        /\ <<"end", q, "success">>[1] = "end" /\ <<"end", q, "failed">>[1] = "end"
        /\ \A x, Q : <<"move", x, Q>>[1] = "move"
    OBVIOUS
  <2>2. bottom \cap InHand(q) = {} /\ \A x, Q : <<"move", x, Q>> \notin bottom
    BY DEF InHand
  <2>3. ToSet(work) \cap InHand(q) = {}
    BY <1>4, <2>1 DEF InHand
  <2>4. \A x, Q : <<"move", x, Q>> \notin ToSet(work)
    BY <1>4, <2>1
  <2> HIDE DEF bottom
  <2>5. /\ A \cap InHand(q) = {} /\ (\A x, Q : <<"move", x, Q>> \notin A) /\ ToSet(todo) = A \cup {}
        /\ B \cap InHand(q) = {} /\ (\A x, Q : <<"move", x, Q>> \notin B) /\ ToSet(todo') = B \cup {}
    BY <1>2, <1>3, <2>2, <2>3, <2>4
  <2> HIDE DEF A, B
  <2> QED
    BY <2>5, NotMoved
<1> QED
  BY <1>1, <1>2, <1>3, <1>5

(* Calls that take nothing from the queue of a server.                     *)
LEMMA PollStep ==
  ASSUME AresInv, UNCHANGED <<server, heard, glue>>, NEW work, Processfds(work),
         work = <<>> \/ \E t \in Tasks : work = <<t>> /\ t[1] \in {"error", "answer", "recv"}
  PROVE  AresInv'
<1>1. /\ Stacked(todo') /\ <<"timeouts">> \in ToSet(todo') /\ ToSet(todo) = {}
      /\ \A q \in Queries : Aside(q)
      /\ due' \subseteq Active
  BY ProcessfdsFacts
<1>2. UNCHANGED <<query, conf>>
  BY DEF Processfds
<1>3. OnlySkips
  BY <1>2, Records DEF AresInv, OnlySkips, conf, QueryStates, Attempts, Servers
<1>4. /\ \A q \in Queries : <<"callback", q>> \in ToSet(todo) => <<"callback", q>> \in ToSet(todo')
      /\ due' \subseteq Queries /\ \A q \in due' : query[q].phase = "active"
  BY <1>1 DEF Active
<1> QED
  BY <1>1, <1>3, <1>4, OnlySkipsKeeps

(* The tasks that the loop brings.                                         *)
LEMMA LoopTasks ==
  ASSUME NEW s \in Servers
  PROVE  /\ <<"error", s>> \in Tasks /\ <<"error", s>>[1] = "error"
         /\ \A q \in Queries, answer \in {"ok", "refused", "truncated"} :
              <<"answer", s, q, answer, TRUE>> \in Tasks /\ <<"answer", s, q, answer, TRUE>>[1] = "answer"
         /\ \A Q \in SUBSET Queries : <<"recv", s, Q>> \in Tasks /\ <<"recv", s, Q>>[1] = "recv"
BY DEF Tasks

(* The timer, an answer or an error over TCP, and datagrams.               *)
LEMMA ReadableStep ==
  ASSUME AresInv, Tick \/ \E s \in Servers : TcpReadable(s) \/ UdpReadable(s)
  PROVE  AresInv'
<1>1. CASE Tick
  BY <1>1, PollStep DEF Tick
<1>2. ASSUME NEW s \in Servers, TcpReadable(s) PROVE AresInv'
  <2>1. UNCHANGED <<server, heard, glue>>
    BY <1>2 DEF TcpReadable
  <2>2. CASE Processfds(<<>>)
    BY <2>1, <2>2, PollStep
  <2>3. CASE Processfds(<<<<"error", s>>>>)
    BY <2>1, <2>3, LoopTasks, PollStep
  <2>4. ASSUME NEW q \in heard[s].tcp, NEW answer \in program.answers \ {"truncated"},
               Processfds(<<<<"answer", s, q, answer, TRUE>>>>)
        PROVE  AresInv'
    <3> DEFINE t == <<"answer", s, q, answer, TRUE>>
    <3>1. q \in Queries /\ answer \in {"ok", "refused", "truncated"}
      BY AresAssumption DEF AresInv, AresTypeOK
    <3>2. t \in Tasks /\ t[1] = "answer"
      BY <3>1, LoopTasks
    <3> HIDE DEF t
    <3>3. Processfds(<<t>>)
      BY <2>4 DEF t
    <3> QED
      BY <2>1, <3>2, <3>3, PollStep
  <2> QED
    BY <1>2, <2>2, <2>3, <2>4 DEF TcpReadable
<1>3. ASSUME NEW s \in Servers, UdpReadable(s) PROVE AresInv'
  <2>1. UNCHANGED <<server, heard, glue>>
    BY <1>3 DEF UdpReadable
  <2>2. PICK batch \in SUBSET heard[s].udp :
          Processfds(IF server[s].broken THEN <<>> ELSE <<<<"recv", s, batch>>>>)
    BY <1>3 DEF UdpReadable
  <2>3. CASE server[s].broken
    BY <2>1, <2>2, <2>3, PollStep
  <2>4. CASE ~server[s].broken
    <3> DEFINE t == <<"recv", s, batch>>
    <3>1. batch \in SUBSET Queries
      BY DEF AresInv, AresTypeOK
    <3>2. t \in Tasks /\ t[1] = "recv"
      BY <3>1, LoopTasks
    <3> HIDE DEF t
    <3>3. Processfds(<<t>>)
      BY <2>2, <2>4 DEF t
    <3> QED
      BY <2>1, <3>2, <3>3, PollStep
  <2> QED
    BY <2>3, <2>4
<1> QED
  BY <1>1, <1>2, <1>3

(* A prefix that is taken from a queue.                                    *)
LEMMA TakenFromQueue ==
  ASSUME NEW S, NEW w \in Seq(S), NEW n \in 0 .. Len(w)
  PROVE  LET rest == SubSeq(w, n + 1, Len(w))
             sent == SubSeq(w, 1, n)
         IN /\ rest \in Seq(S) /\ Len(rest) = Len(w) - n
            /\ \A i \in 1 .. Len(w) - n : rest[i] = w[i + n]
            /\ ToSet(w) = ToSet(sent) \cup ToSet(rest)
            /\ \A x \in ToSet(sent) : \E i \in 1 .. n : x = w[i]
            /\ \A x \in ToSet(rest) : \E i \in n + 1 .. Len(w) : x = w[i]
            /\ n = Len(w) <=> rest = <<>>
<1> DEFINE rest == SubSeq(w, n + 1, Len(w))
           sent == SubSeq(w, 1, n)
           l == Len(w)
<1>1. l \in Nat /\ n \in 0 .. l
  OBVIOUS
<1>2. rest \in Seq(S) /\ Len(rest) = l - n /\ \A i \in 1 .. l - n : rest[i] = w[n + 1 + i - 1]
  <2>1. n + 1 \in 1 .. l + 1 /\ (n + 1 <= l => \A i \in n + 1 .. l : w[i] \in S) 
    BY <1>1
  <2> QED
    BY <1>1, SubSeqProperties
<1>3. sent \in Seq(S) /\ Len(sent) = n /\ \A i \in 1 .. n : sent[i] = w[i]
  BY <1>1, SubSeqProperties
<1>4. DOMAIN w = 1 .. l
  OBVIOUS
<1> HIDE DEF rest, sent, l
<1>5. \A i \in 1 .. l - n : rest[i] = w[i + n] /\ i + n \in n + 1 .. l
  <2>1. ASSUME NEW i \in 1 .. l - n PROVE n + 1 + i - 1 = i + n /\ i + n \in n + 1 .. l
    BY <1>1
  <2> QED
    BY <1>2, <2>1
<1>6. DOMAIN rest = 1 .. l - n /\ DOMAIN sent = 1 .. n
  BY <1>1, <1>2, <1>3
<1>7. ToSet(w) = {w[i] : i \in 1 .. l} /\ ToSet(rest) = {rest[i] : i \in 1 .. l - n}
      /\ ToSet(sent) = {sent[i] : i \in 1 .. n}
  BY <1>4, <1>6 DEF ToSet
<1>8. \A x \in ToSet(sent) : \E i \in 1 .. n : x = w[i]
  BY <1>3, <1>7
<1>9. \A x \in ToSet(rest) : \E i \in n + 1 .. l : x = w[i]
  BY <1>5, <1>7
<1>10. ToSet(w) \subseteq ToSet(sent) \cup ToSet(rest)
  <2>1. ASSUME NEW i \in 1 .. l PROVE w[i] \in ToSet(sent) \cup ToSet(rest)
    <3>1. CASE i \in 1 .. n
      BY <1>3, <1>7, <3>1
    <3>2. CASE i \notin 1 .. n
      <4>1. i - n \in 1 .. l - n /\ (i - n) + n = i
        BY <1>1, <3>2
      <4> QED
        BY <1>5, <1>7, <4>1
    <3> QED
      BY <3>1, <3>2
  <2> QED
    BY <1>7, <2>1
<1>11. ToSet(sent) \cup ToSet(rest) \subseteq ToSet(w)
  <2>1. 1 .. n \subseteq 1 .. l /\ n + 1 .. l \subseteq 1 .. l
    BY <1>1
  <2> QED
    BY <1>7, <1>8, <1>9, <2>1
<1>12. n = l <=> rest = <<>>
  <2>1. rest = <<>> <=> Len(rest) = 0
    BY <1>2
  <2> QED
    BY <1>1, <1>2, <2>1
<1> QED
  BY <1>2, <1>5, <1>8, <1>9, <1>10, <1>11, <1>12 DEF rest, sent, l

(* A server whose connection takes requests gets a prefix of its queue.    *)
LEMMA WritableStep ==
  ASSUME AresInv, NEW s \in Servers, TcpWritable(s)
  PROVE  AresInv'
<1>1. s \in writing /\ UNCHANGED <<handles, timer>>
  BY DEF TcpWritable
<1>2. CASE Processfds(<<>>) /\ UNCHANGED <<server, heard, writing>>
  BY <1>1, <1>2, PollStep DEF glue
<1>3. CASE Processfds(<<<<"error", s>>>>) /\ UNCHANGED <<server, heard, writing>>
  BY <1>1, <1>3, LoopTasks, PollStep DEF glue
<1>4. ASSUME Processfds(<<>>), NEW n \in 0 .. Len(server[s].queue),
             server' = [server EXCEPT ![s].queue = SubSeq(@, n + 1, Len(@))],
             heard' = [heard EXCEPT ![s].tcp =
                         @ \cup (ToSet(SubSeq(server[s].queue, 1, n)) \ {NoQuery})],
             writing' = IF n = Len(server[s].queue) THEN writing \ {s} ELSE writing
      PROVE  AresInv'
  <2> DEFINE w == server[s].queue
             rest == SubSeq(w, n + 1, Len(w))
             sent == SubSeq(w, 1, n)
  <2>1. /\ Stacked(todo') /\ <<"timeouts">> \in ToSet(todo') /\ ToSet(todo) = {}
        /\ \A q \in Queries : Aside(q)
        /\ due' \subseteq Active
    BY <1>4, ProcessfdsFacts
  <2>2. UNCHANGED <<query, conf>>
    BY <1>4 DEF Processfds
  <2>3. AresTypeOK /\ server \in [Servers -> ServerStates] /\ heard \in [Servers -> HeardStates]
    BY Records DEF AresInv
  <2>4. w \in Seq(Queries \cup {NoQuery})
    BY <2>3 DEF ServerStates
  <2>4a. n \in 0 .. Len(w)
    BY <1>4
  <2> HIDE DEF w
  <2>5. /\ rest \in Seq(Queries \cup {NoQuery}) /\ Len(rest) = Len(w) - n
        /\ \A i \in 1 .. Len(w) - n : rest[i] = w[i + n]
        /\ ToSet(w) = ToSet(sent) \cup ToSet(rest)
        /\ \A x \in ToSet(sent) : \E i \in 1 .. n : x = w[i]
        /\ \A x \in ToSet(rest) : \E i \in n + 1 .. Len(w) : x = w[i]
        /\ n = Len(w) <=> rest = <<>>
    BY <2>4, <2>4a, TakenFromQueue
  <2>6. ToSet(w) \subseteq Queries \cup {NoQuery}
    BY <2>4 DEF ToSet
  <2>7. /\ server' = [server EXCEPT ![s].queue = rest]
        /\ heard' = [heard EXCEPT ![s].tcp = @ \cup (ToSet(sent) \ {NoQuery})]
        /\ writing' = IF n = Len(w) THEN writing \ {s} ELSE writing
    BY <1>4 DEF w
  <2>8. ToSet(sent) \ {NoQuery} \subseteq Queries
    BY <2>5, <2>6
  <2>9. Len(w) \in Nat /\ DOMAIN w = 1 .. Len(w)
    BY <2>4
  <2> HIDE DEF rest, sent
  <2>10. ASSUME NEW x \in Servers
         PROVE  /\ server'[x].udp = server[x].udp /\ server'[x].tcp = server[x].tcp
                /\ server'[x].broken = server[x].broken /\ server'[x].queries = server[x].queries
                /\ server'[x].queue = IF x = s THEN rest ELSE server[x].queue
                /\ heard'[x].udp = heard[x].udp
                /\ heard'[x].tcp = IF x = s THEN heard[x].tcp \cup (ToSet(sent) \ {NoQuery})
                                   ELSE heard[x].tcp
                /\ server'[x] \in ServerStates /\ heard'[x] \in HeardStates
    <3>1. /\ server'[x].udp = server[x].udp /\ server'[x].tcp = server[x].tcp
          /\ server'[x].broken = server[x].broken /\ server'[x].queries = server[x].queries
          /\ server'[x].queue = IF x = s THEN rest ELSE server[x].queue
          /\ server'[x] \in ServerStates
      <4>1. server[x] \in ServerStates
        BY <2>3
      <4>2. server'[x] = IF x = s THEN [server[x] EXCEPT !.queue = rest] ELSE server[x]
        BY <2>3, <2>7
      <4> QED
        BY <2>5, <4>1, <4>2 DEF ServerStates
    <3> DEFINE S == ToSet(sent) \ {NoQuery}
    <3>2. S \subseteq Queries /\ heard' = [heard EXCEPT ![s].tcp = @ \cup S]
      BY <2>7, <2>8
    <3> HIDE DEF S
    <3>3. /\ heard'[x].udp = heard[x].udp
          /\ heard'[x].tcp = IF x = s THEN heard[x].tcp \cup S ELSE heard[x].tcp
          /\ heard'[x] \in HeardStates
      BY <2>3, <3>2 DEF HeardStates
    <3> QED
      BY <3>1, <3>3 DEF S
  <2>11. server' \in [Servers -> ServerStates] /\ heard' \in [Servers -> HeardStates]
    BY <2>3, <2>7, <2>10
  <2>12. AresTypeOK'
    <3>1. writing' \subseteq Servers
      BY <2>3, <2>7 DEF AresTypeOK
    <3>2. due' \subseteq Queries
      BY <2>1 DEF Active
    <3> QED
      BY <1>1, <2>2, <2>3, <2>11, <3>1, <3>2
         DEF AresTypeOK, ServerStates, HeardStates, QueryStates, conf, Attempts
  <2>13. Attempts' = Attempts
    BY <2>2 DEF conf, Attempts
  <2>14. \A q \in Queries : q \in AllQueries' <=> q \in AllQueries
    <3>1. \A q \in Queries : <<"callback", q>> \in ToSet(todo') <=> <<"callback", q>> \in ToSet(todo)
      BY <2>1 DEF Aside, InHand
    <3> QED
      BY <2>2, <3>1 DEF AllQueries, Active
  <2>15. ASSUME NEW q \in Queries PROVE QueryInv(q)'
    <3>1. Waits(q) => Waits(q)'
      <4>1. \A x \in Servers : heard[x].tcp \cup ToSet(server[x].queue)
                               \subseteq heard'[x].tcp \cup ToSet(server'[x].queue) \cup {NoQuery}
        BY <2>5, <2>10 DEF w
      <4>2. q # NoQuery /\ query[q].server \in Servers
        BY <2>3, Records, AresAssumption DEF QueryStates
      <4>3. ASSUME NEW x \in Servers
            PROVE  /\ server'[x].udp = server[x].udp /\ server'[x].tcp = server[x].tcp
                   /\ server'[x].queries = server[x].queries /\ heard'[x].udp = heard[x].udp
                   /\ q \in heard[x].tcp \cup ToSet(server[x].queue)
                        => q \in heard'[x].tcp \cup ToSet(server'[x].queue)
        BY <2>10, <4>1, <4>2
      <4> QED
        BY <2>2, <4>2, <4>3 DEF Waits
    <3>2. QueryInv(q) /\ Aside(q) /\ (q \in due' => query[q].phase = "active")
      BY <2>1 DEF AresInv, Active
    <3> QED
      BY <2>2, <2>13, <3>1, <3>2, QueryKept
  <2>16. ASSUME NEW x \in Servers, x # s PROVE ServerInv(x)'
    <3>1. ServerInv(x) /\ server[x].queries \subseteq Queries
      BY <2>3 DEF AresInv, ServerStates
    <3>2. /\ server'[x].queries \subseteq server[x].queries \cup AllQueries'
          /\ server'[x].queue = server[x].queue /\ (server'[x].broken => server[x].broken)
          /\ server'[x].tcp = server[x].tcp /\ server'[x].udp = server[x].udp
          /\ heard'[x].tcp = heard[x].tcp
          /\ (<<"udp", x>> \in handles' <=> <<"udp", x>> \in handles)
          /\ (<<"tcp", x>> \in handles' <=> <<"tcp", x>> \in handles)
          /\ (x \in writing' <=> x \in writing)
          /\ server'[x].queries \subseteq Queries
      BY <1>1, <2>7, <2>10, <2>16, <3>1
    <3>3. \A q \in Queries :
            /\ q \in AllQueries => q \in AllQueries' \/ q \notin server'[x].queries
            /\ query[q].phase = "active" => query'[q].phase = "active"
            /\ query'[q].phase = "active" => query[q].phase \in {"idle", "active"}
            /\ query'[q].phase = "idle" => query[q].phase = "idle"
            /\ x \in query[q].over => x \in query'[q].over
      BY <2>2, <2>14
    <3> QED
      BY <3>1, <3>2, <3>3, ServerKept
  <2>17. ServerInv(s)'
    <3>1. ServerInv(s)
      BY DEF AresInv
    <3>2. server'[s].queries \subseteq AllQueries'
      BY <2>3, <2>10, <2>14, <3>1 DEF ServerInv, ServerStates
    <3>3. ASSUME NEW q \in Queries
          PROVE  /\ q \in ToSet(rest) => query[q].phase = "active" /\ q \notin heard'[s].tcp
                 /\ q \in heard'[s].tcp => query[q].phase # "idle"
                 /\ query[q].phase = "active" /\ q \in heard'[s].tcp \cup ToSet(rest)
                      => s \in query[q].over
      <4>1. /\ q \in ToSet(w) => query[q].phase = "active" /\ q \notin heard[s].tcp
            /\ q \in heard[s].tcp => query[q].phase # "idle"
            /\ query[q].phase = "active" /\ q \in heard[s].tcp \cup ToSet(w) => s \in query[q].over
        BY <3>1 DEF ServerInv, w
      <4>2. ~(q \in ToSet(sent) /\ q \in ToSet(rest))
        <5>1. SUFFICES ASSUME NEW i \in 1 .. n, q = w[i], NEW j \in n + 1 .. Len(w), q = w[j]
                       PROVE  FALSE
          BY <2>5
        <5>2. i \in DOMAIN w /\ j \in DOMAIN w /\ i # j
          BY <1>4, <2>9 DEF w
        <5> QED
          BY <3>1, <5>1, <5>2 DEF ServerInv, w
      <4> QED
        BY <2>5, <2>10, <4>1, <4>2
    <3>4. \A i, j \in DOMAIN rest : rest[i] \in Queries /\ rest[i] = rest[j] => i = j
      <4>1. DOMAIN rest = 1 .. Len(w) - n
        BY <2>5
      <4>2. ASSUME NEW i \in DOMAIN rest, NEW j \in DOMAIN rest, rest[i] \in Queries, rest[i] = rest[j]
            PROVE  i = j
        <5>1. /\ i + n \in DOMAIN w /\ j + n \in DOMAIN w
              /\ w[i + n] \in Queries /\ w[i + n] = w[j + n]
          <6> DEFINE l == Len(w)
          <6>1. l \in Nat /\ n \in 0 .. l /\ i \in 1 .. l - n /\ j \in 1 .. l - n
            BY <2>4a, <2>9, <4>1, <4>2
          <6>2. i + n \in DOMAIN w /\ j + n \in DOMAIN w
            <7> HIDE DEF l
            <7>1. i + n \in 1 .. l /\ j + n \in 1 .. l
              BY <6>1
            <7> QED
              BY <2>9, <7>1 DEF l
          <6>3. rest[i] = w[i + n] /\ rest[j] = w[j + n]
            BY <2>5, <6>1
          <6> QED
            BY <4>2, <6>2, <6>3
        <5>2. i + n = j + n
          BY <3>1, <5>1 DEF ServerInv, w
        <5> QED
          BY <1>4, <2>9, <4>1, <5>2
      <4> QED
        BY <4>2
    <3>5. w # <<>> /\ server[s].tcp
      BY <1>1, <3>1 DEF ServerInv, w
    <3>6. s \in writing' <=> rest # <<>>
      BY <1>1, <2>5, <2>7
    <3>7. /\ <<"udp", s>> \in handles' <=> server'[s].udp
          /\ <<"tcp", s>> \in handles' <=> server'[s].tcp
      BY <1>1, <2>10, <3>1 DEF ServerInv
    <3> QED
      BY <2>2, <2>10, <3>2, <3>3, <3>4, <3>5, <3>6, <3>7 DEF ServerInv
  <2>18. (timer' <=> handles' # {}) /\ <<"timeouts">> \in ToSet(todo')
    BY <1>1, <2>1 DEF AresInv
  <2> QED
    BY <2>1, <2>12, <2>15, <2>16, <2>17, <2>18 DEF AresInv
<1> QED
  BY <1>2, <1>3, <1>4 DEF TcpWritable
-----------------------------------------------------------------------------
(* The steps of a query.                                                   *)

(* A query that is in hand is so once, and no task moves it.               *)
LEMMA HeadInHand ==
  ASSUME AresInv, NEW q \in Queries, NEW t \in InHand(q), t # <<"callback", q>>, Doing(t)
  PROVE  /\ ToSet(todo) = {t} \cup Rest /\ InHand(q) \cap Rest = {}
         /\ query[q].phase = "active"
         /\ t # <<"end", q, "failed">> => query[q].try_count < Attempts
         /\ t = <<"end", q, "failed">> => query[q].try_count = Attempts
         /\ \A s \in Servers : q \notin Moving(s)
         /\ \A s \in Servers, Q \in SUBSET Queries : <<"move", s, Q>> \in Rest => q \notin Q
         /\ <<"timeouts">> # t
<1>1. Stacked(todo) /\ ToSet(todo) = {t} \cup Rest /\ QueryInv(q)
  BY AtHead DEF AresInv
<1>2. /\ <<"send", q>> \notin Rest /\ <<"next", q>> \notin Rest
      /\ <<"end", q, "success">> \notin Rest /\ <<"end", q, "failed">> \notin Rest
  BY <1>1, BelowHead
<1>3. query[q].phase = "active"
  BY <1>1 DEF QueryInv, InHand
<1>4. <<"callback", q>> \notin Rest
  BY <1>1, <1>3 DEF QueryInv
<1>5. InHand(q) \cap Rest = {}
  BY <1>2, <1>4 DEF InHand
<1>6. q \in Running
  BY <1>1 DEF Running, InHand
<1>7. \A s \in Servers : q \notin Moving(s)
  BY <1>1, <1>6 DEF QueryInv
<1>8. \A s \in Servers, Q \in SUBSET Queries : <<"move", s, Q>> \in Rest => q \notin Q
  BY <1>1, <1>7 DEF Moving
<1>9. <<"timeouts">> # t
  BY DEF InHand
<1>10. t # <<"end", q, "failed">> => <<"end", q, "failed">> \notin ToSet(todo)
  BY <1>1, <1>2
<1>11. t # <<"end", q, "failed">> => query[q].try_count < Attempts
  BY <1>1, <1>3, <1>10 DEF QueryInv
<1>12. t = <<"end", q, "failed">> => query[q].try_count = Attempts
  BY <1>1 DEF QueryInv
<1> QED
  BY <1>1, <1>3, <1>5, <1>7, <1>8, <1>9, <1>11, <1>12

(* What replaces a task of a query is not about another.                   *)
LEMMA OthersAside ==
  ASSUME NEW q \in Queries, NEW A \in SUBSET InHand(q), NEW B \in SUBSET InHand(q), NEW R,
         ToSet(todo) = A \cup R, ToSet(todo') = B \cup R
  PROVE  /\ \A p \in Queries : p # q => Aside(p)
         /\ \A s \in Servers : q \in Moving(s)' <=> q \in Moving(s)
         /\ <<"timeouts">> \in ToSet(todo) => <<"timeouts">> \in ToSet(todo')
<1>1. \A p \in Queries : p # q => InHand(p) \cap InHand(q) = {}
  BY DEF InHand
<1>2. \A x, Q : <<"move", x, Q>> \notin InHand(q)
  BY DEF InHand
<1>3. <<"timeouts">> \notin InHand(q)
  BY DEF InHand
<1>4. ASSUME NEW p \in Queries, p # q PROVE Aside(p)
  <2>1. A \cap InHand(p) = {} /\ B \cap InHand(p) = {}
    BY <1>1, <1>4
  <2>2. (\A x, Q : <<"move", x, Q>> \notin A) /\ (\A x, Q : <<"move", x, Q>> \notin B)
    BY <1>2
  <2> QED
    BY <2>1, <2>2, NotMoved
<1>5. ASSUME NEW s \in Servers PROVE q \in Moving(s)' <=> q \in Moving(s)
  <2>1. \A Q : <<"move", s, Q>> \in ToSet(todo') <=> <<"move", s, Q>> \in ToSet(todo)
    BY <1>2
  <2> QED
    BY <2>1 DEF Moving
<1> QED
  BY <1>3, <1>4, <1>5

(* A query moves on by one attempt at least: it is sent to a server that   *)
(* it may use, or it used its last attempt and fails.                      *)
LEMMA MovesOn ==
  ASSUME AresInv, NEW q \in Queries, next_server(q)
  PROVE  \E n \in (query[q].try_count + 1) .. Attempts, s \in Servers :
           /\ query' = [query EXCEPT ![q].server = s, ![q].try_count = n]
           /\ \/ /\ Then(<<<<"send", q>>>>) /\ n < Attempts
                 /\ query[q].using_tcp => s \notin query[q].over
              \/ Then(<<<<"end", q, "failed">>>>) /\ n = Attempts
<1> DEFINE to(n) == (query[q].server + n) % NServers
           left == TriesLeft(q)
           usable == {n \in left : Usable(q, to(n))}
           c == Cardinality(left)
<1>1. query[q].phase = "active" /\ query[q].try_count < Attempts
  <2> DEFINE t == <<"next", q>>
  <2>1. t \in InHand(q) /\ t # <<"callback", q>> /\ t # <<"end", q, "failed">> /\ Doing(t)
    BY DEF next_server, InHand
  <2> HIDE DEF t
  <2> QED
    BY <2>1, HeadInHand
<1>2. AresTypeOK /\ query \in [Queries -> QueryStates]
  BY Records DEF AresInv
<1>3. Attempts \in Nat /\ query[q].try_count \in Nat /\ query[q].server \in Nat
  BY <1>2, AttemptsFacts, AresAssumption DEF AresTypeOK, QueryStates, Servers
<1>4. \A n \in Nat : to(n) \in Servers
  BY <1>3, Around
<1>5. left = 1 .. (Attempts - 1 - query[q].try_count) /\ Attempts - 1 - query[q].try_count \in Nat
  BY <1>1, <1>3 DEF TriesLeft
<1>6. c = Attempts - 1 - query[q].try_count
  <2> DEFINE k == Attempts - 1 - query[q].try_count
  <2>1. k \in Nat /\ left = 1 .. k
    BY <1>5
  <2> HIDE DEF k
  <2>2. Cardinality(1 .. k) = IF 1 > k THEN 0 ELSE k - 1 + 1
    BY <2>1, FS_Interval
  <2>3. c = k
    BY <2>1, <2>2
  <2> QED
    BY <2>3 DEF k
<1>7. CASE usable # {}
  <2> DEFINE m == Min(usable)
  <2>1. query' = [query EXCEPT ![q].server = to(m), ![q].try_count = @ + m] /\ Then(<<<<"send", q>>>>)
    BY <1>7 DEF next_server
  <2>2. m \in usable
    <3>1. usable \subseteq Nat
      BY <1>5
    <3> HIDE DEF usable
    <3> QED
      BY <1>7, <3>1, MinBelongs
  <2> HIDE DEF m
  <2>3. m \in 1 .. (Attempts - 1 - query[q].try_count) /\ Usable(q, to(m))
    BY <1>5, <2>2
  <2>4. to(m) \in Servers /\ query[q].try_count + m \in 0 .. Attempts
        /\ query[q].try_count + m < Attempts /\ query[q].try_count + m >= query[q].try_count + 1
    BY <1>3, <1>4, <2>3
  <2> DEFINE s == to(m)
             n == query[q].try_count + m
  <2>5. /\ query' = [query EXCEPT ![q].server = s, ![q].try_count = n] /\ Then(<<<<"send", q>>>>)
        /\ n \in (query[q].try_count + 1) .. Attempts /\ n < Attempts /\ s \in Servers
        /\ query[q].using_tcp => s \notin query[q].over
    BY <1>2, <1>3, <2>1, <2>3, <2>4 DEF Usable
  <2> HIDE DEF s, n
  <2> QED
    BY <2>5
<1>8. CASE usable = {}
  <2> HIDE DEF c
  <2>1. /\ query' = [query EXCEPT ![q].server = to(c), ![q].try_count = @ + c + 1]
        /\ Then(<<<<"end", q, "failed">>>>)
    BY <1>8 DEF next_server, c
  <2>2. to(c) \in Servers /\ query[q].try_count + c + 1 = Attempts
    <3>1. c \in Nat
      BY <1>5, <1>6
    <3>2. to(c) \in Servers
      BY <1>4, <3>1
    <3>3. query[q].try_count + c + 1 = Attempts
      BY <1>3, <1>6
    <3> QED
      BY <3>2, <3>3
  <2> DEFINE s == to(c)
             n == query[q].try_count + c + 1
  <2>3. /\ query' = [query EXCEPT ![q].server = s, ![q].try_count = n] /\ Then(<<<<"end", q, "failed">>>>)
        /\ n \in (query[q].try_count + 1) .. Attempts /\ n = Attempts /\ s \in Servers
    BY <1>1, <1>3, <2>1, <2>2
  <2> HIDE DEF s, n
  <2> QED
    BY <2>3
<1> QED
  BY <1>7, <1>8

(* A query that moves on is sent again while attempts are left.            *)
LEMMA NextStep ==
  ASSUME AresInv, NEW q \in Queries, next_server(q)
  PROVE  AresInv'
<1> DEFINE t == <<"next", q>>
<1>1. t \in InHand(q) /\ t # <<"callback", q>> /\ t # <<"end", q, "failed">> /\ Doing(t)
      /\ t[1] = "next"
  BY DEF next_server, InHand
<1> HIDE DEF t
<1>2. /\ ToSet(todo) = {t} \cup Rest /\ InHand(q) \cap Rest = {}
      /\ query[q].phase = "active" /\ query[q].try_count < Attempts
      /\ \A s \in Servers : q \notin Moving(s)
  BY <1>1, HeadInHand
<1>3. Stacked(todo) /\ AresTypeOK /\ query \in [Queries -> QueryStates] /\ QueryInv(q)
  BY Records DEF AresInv
<1>4. Attempts \in Nat /\ query[q].try_count \in Nat
  BY <1>3, AttemptsFacts DEF AresTypeOK, QueryStates
<1>5. UNCHANGED <<server, heard, glue, due, conf>> /\ Attempts' = Attempts
  BY DEF next_server, conf, Attempts
<1>6. ASSUME NEW n \in 0 .. Attempts, NEW s \in Servers,
             query' = [query EXCEPT ![q].server = s, ![q].try_count = n],
             NEW u \in InHand(q), Then(<<u>>),
             \/ u = <<"send", q>> /\ n < Attempts /\ (query[q].using_tcp => s \notin query[q].over)
             \/ u = <<"end", q, "failed">> /\ n = Attempts
      PROVE  AresInv'
  <2>1. /\ query' \in [Queries -> QueryStates]
        /\ query'[q].server = s /\ query'[q].try_count = n
        /\ query'[q].using_tcp = query[q].using_tcp
        /\ \A p \in Queries : /\ query'[p].phase = query[p].phase /\ query'[p].over = query[p].over
                              /\ p # q => query'[p] = query[p]
    BY <1>3, <1>6 DEF QueryStates
  <2>2. AresTypeOK'
    BY <1>3, <1>5, <2>1, TypesKept
  <2>3. Stacked(todo') /\ ToSet(todo') = {u} \cup Rest
    BY <1>1, <1>3, <1>6, HeadFollowed DEF Became
  <2>4. /\ \A p \in Queries : p # q => Aside(p)
        /\ \A x \in Servers : q \notin Moving(x)'
        /\ <<"timeouts">> \in ToSet(todo) => <<"timeouts">> \in ToSet(todo')
    <3> DEFINE A == {t}
               B == {u}
    <3>1. A \in SUBSET InHand(q) /\ B \in SUBSET InHand(q)
          /\ ToSet(todo) = A \cup Rest /\ ToSet(todo') = B \cup Rest
      BY <1>1, <1>2, <2>3
    <3> HIDE DEF A, B
    <3> QED
      BY <1>2, <3>1, OthersAside
  <2>5. InHand(q) \cap ToSet(todo') = {u}
    BY <1>2, <2>3
  <2>6. QueryInv(q)'
    <3>1. query'[q].phase = "active" /\ (~query'[q].using_tcp => query'[q].over = {})
      BY <1>2, <1>3, <2>1 DEF QueryInv
    <3>2. CASE u = <<"send", q>> /\ n < Attempts /\ (query[q].using_tcp => s \notin query[q].over)
      BY <1>5, <2>1, <2>4, <2>5, <3>1, <3>2, InHandInv
    <3>3. CASE u = <<"end", q, "failed">> /\ n = Attempts
      BY <1>5, <2>1, <2>4, <2>5, <3>1, <3>3, FailingInv
    <3> QED
      BY <1>6, <3>2, <3>3
  <2>7. ASSUME NEW p \in Queries, p # q PROVE QueryInv(p)'
    <3>1. Waits(p) => Waits(p)'
      BY <1>5, <2>1, <2>7 DEF Waits
    <3>2. QueryInv(p) /\ Aside(p) /\ (p \in due' => p \in due)
      BY <1>5, <2>4, <2>7 DEF AresInv
    <3> QED
      BY <1>5, <2>1, <2>7, <3>1, <3>2, QueryKept
  <2>8. \A p \in Queries : <<"callback", p>> \in ToSet(todo) => <<"callback", p>> \in ToSet(todo')
    <3>1. <<"callback", q>> \notin ToSet(todo)
      BY <1>2, <1>3 DEF QueryInv
    <3> QED
      BY <2>4, <3>1 DEF Aside, InHand
  <2>9. \A x \in Servers : ServerInv(x)'
    BY <1>3, <1>5, <2>1, <2>8, ServersKept DEF AresInv, glue
  <2>10. (timer' <=> handles' # {}) /\ (due' # {} => <<"timeouts">> \in ToSet(todo'))
    BY <1>5, <2>4 DEF AresInv, glue
  <2> QED
    BY <2>2, <2>3, <2>6, <2>7, <2>9, <2>10 DEF AresInv
<1>7. PICK n \in (query[q].try_count + 1) .. Attempts, s \in Servers :
          /\ query' = [query EXCEPT ![q].server = s, ![q].try_count = n]
          /\ \/ /\ Then(<<<<"send", q>>>>) /\ n < Attempts
                /\ query[q].using_tcp => s \notin query[q].over
             \/ Then(<<<<"end", q, "failed">>>>) /\ n = Attempts
  BY MovesOn
<1>8. n \in 0 .. Attempts
  BY <1>4
<1>9. /\ <<"send", q>> \in InHand(q) /\ <<"end", q, "failed">> \in InHand(q)
  BY DEF InHand
<1> QED
  BY <1>6, <1>7, <1>8, <1>9

(* A queue whose requests of a query lose their owner.                     *)
LEMMA OwnerLost ==
  ASSUME NEW w \in Seq(Queries \cup {NoQuery}), NEW q \in Queries
  PROVE  LET v == [i \in DOMAIN w |-> IF w[i] = q THEN NoQuery ELSE w[i]]
         IN /\ v \in Seq(Queries \cup {NoQuery}) /\ DOMAIN v = DOMAIN w
            /\ \A i \in DOMAIN w : v[i] = IF w[i] = q THEN NoQuery ELSE w[i]
            /\ \A p \in Queries : p \in ToSet(v) <=> p # q /\ p \in ToSet(w)
            /\ v = <<>> <=> w = <<>>
<1> DEFINE v == [i \in DOMAIN w |-> IF w[i] = q THEN NoQuery ELSE w[i]]
           n == Len(w)
<1>1. n \in Nat /\ DOMAIN w = 1 .. n /\ \A i \in 1 .. n : w[i] \in Queries \cup {NoQuery}
  OBVIOUS
<1>2. v \in [1 .. n -> Queries \cup {NoQuery}]
  BY <1>1
<1>3. v \in Seq(Queries \cup {NoQuery})
  BY <1>1, <1>2, IsASeq
<1>4. DOMAIN v = DOMAIN w /\ \A i \in DOMAIN w : v[i] = IF w[i] = q THEN NoQuery ELSE w[i]
  OBVIOUS
<1> HIDE DEF v, n
<1>5. ASSUME NEW p \in Queries PROVE p \in ToSet(v) <=> p # q /\ p \in ToSet(w)
  <2>1. p # NoQuery
    BY AresAssumption
  <2> QED
    BY <1>4, <2>1 DEF ToSet
<1>6. v = <<>> <=> w = <<>>
  <2>1. Len(v) = n
    BY <1>1, <1>3, <1>4
  <2>2. (v = <<>> <=> Len(v) = 0) /\ (w = <<>> <=> n = 0)
    BY <1>3 DEF n
  <2> QED
    BY <2>1, <2>2
<1> QED
  BY <1>3, <1>4, <1>5, <1>6 DEF v

(* A query ends: it leaves the queues, and its callback is due.            *)
LEMMA EndStep ==
  ASSUME AresInv, NEW q \in Queries, NEW status \in {"success", "failed"}, end_query(q, status)
  PROVE  AresInv'
<1> DEFINE t == <<"end", q, status>>
           u == <<"callback", q>>
           lost(w) == [i \in DOMAIN w |-> IF w[i] = q THEN NoQuery ELSE w[i]]
<1>1. t \in InHand(q) /\ t # u /\ Doing(t) /\ t[1] = "end" /\ u \in InHand(q) /\ Then(<<u>>)
  BY DEF end_query, InHand
<1>2. t = <<"end", q, "success">> \/ t = <<"end", q, "failed">>
  OBVIOUS
<1> HIDE DEF t
<1>3. /\ ToSet(todo) = {t} \cup Rest /\ InHand(q) \cap Rest = {}
      /\ query[q].phase = "active"
      /\ \A s \in Servers : q \notin Moving(s)
  BY <1>1, HeadInHand
<1>4. /\ Stacked(todo) /\ AresTypeOK /\ query \in [Queries -> QueryStates]
      /\ server \in [Servers -> ServerStates]
  BY Records DEF AresInv
<1>5. Stacked(todo') /\ ToSet(todo') = {u} \cup Rest
  BY <1>1, <1>4, HeadFollowed DEF Became
<1>6. UNCHANGED <<heard, glue, due, conf>> /\ Attempts' = Attempts
  BY DEF end_query, conf, Attempts
<1>7. /\ \A p \in Queries : p # q => Aside(p)
      /\ \A x \in Servers : q \notin Moving(x)'
      /\ <<"timeouts">> \in ToSet(todo) => <<"timeouts">> \in ToSet(todo')
  <2> DEFINE A == {t}
             B == {u}
  <2>1. A \in SUBSET InHand(q) /\ B \in SUBSET InHand(q)
        /\ ToSet(todo) = A \cup Rest /\ ToSet(todo') = B \cup Rest
    BY <1>1, <1>3, <1>5
  <2> HIDE DEF A, B
  <2> QED
    BY <1>3, <2>1, OthersAside
<1>8. /\ query' \in [Queries -> QueryStates]
      /\ query'[q].phase = status /\ query'[q].over = {}
      /\ \A p \in Queries : p # q => query'[p] = query[p]
  <2>1. 0 \in Servers
    BY AresAssumption DEF Servers
  <2>2. /\ Over(q, status) \in QueryStates /\ Over(q, status).phase = status
        /\ Over(q, status).over = {}
    BY <1>4, <2>1 DEF Over, NewQuery, QueryStates
  <2>3. query' = [query EXCEPT ![q] = Over(q, status)]
    BY DEF end_query
  <2> QED
    BY <1>4, <2>2, <2>3
<1>9. ASSUME NEW s \in Servers
      PROVE  /\ server'[s] \in ServerStates
             /\ server'[s].udp = server[s].udp /\ server'[s].tcp = server[s].tcp
             /\ server'[s].queries = server[s].queries
             /\ server'[s].broken => server[s].broken \/ q \in ToSet(server[s].queue)
             /\ DOMAIN server'[s].queue = DOMAIN server[s].queue
             /\ \A i \in DOMAIN server[s].queue :
                  server'[s].queue[i] = IF server[s].queue[i] = q THEN NoQuery ELSE server[s].queue[i]
             /\ \A p \in Queries :
                  p \in ToSet(server'[s].queue) <=> p # q /\ p \in ToSet(server[s].queue)
             /\ server'[s].queue = <<>> <=> server[s].queue = <<>>
  <2> DEFINE w == server[s].queue
             v == [i \in DOMAIN w |-> IF w[i] = q THEN NoQuery ELSE w[i]]
             b == server[s].broken \/ (status # "success" /\ q \in ToSet(server[s].queue))
  <2>1. server'[s] = [server[s] EXCEPT !.queue = v, !.broken = b]
    BY <1>4 DEF end_query, ServerStates
  <2>2. w \in Seq(Queries \cup {NoQuery}) /\ server[s] \in ServerStates
    BY <1>4 DEF ServerStates
  <2>3. b \in BOOLEAN /\ (b => server[s].broken \/ q \in ToSet(server[s].queue))
    BY <1>4 DEF ServerStates
  <2> HIDE DEF w
  <2>4. /\ v \in Seq(Queries \cup {NoQuery}) /\ DOMAIN v = DOMAIN w
        /\ \A i \in DOMAIN w : v[i] = IF w[i] = q THEN NoQuery ELSE w[i]
        /\ \A p \in Queries : p \in ToSet(v) <=> p # q /\ p \in ToSet(w)
        /\ v = <<>> <=> w = <<>>
    BY <2>2, OwnerLost
  <2> HIDE DEF v, b
  <2>5. /\ server'[s] \in ServerStates
        /\ server'[s].udp = server[s].udp /\ server'[s].tcp = server[s].tcp
        /\ server'[s].queries = server[s].queries
        /\ server'[s].broken = b /\ server'[s].queue = v
    BY <2>1, <2>2, <2>3, <2>4 DEF ServerStates
  <2> QED
    BY <2>3, <2>4, <2>5 DEF w
<1>10. server' \in [Servers -> ServerStates]
  BY <1>9 DEF end_query
<1>11. AresTypeOK'
  BY <1>4, <1>6, <1>8, <1>10 DEF AresTypeOK, QueryStates, ServerStates, glue, conf, Attempts
<1>12. \A p \in Queries : p \in AllQueries' <=> p \in AllQueries
  <2>1. q \in AllQueries' /\ q \in AllQueries
    BY <1>3, <1>5 DEF AllQueries, Active
  <2>2. ASSUME NEW p \in Queries, p # q PROVE p \in AllQueries' <=> p \in AllQueries
    BY <1>7, <1>8, <2>2 DEF AllQueries, Active, Aside, InHand
  <2> QED
    BY <2>1, <2>2
<1>13. QueryInv(q)'
  <2>1. InHand(q) \cap ToSet(todo') \subseteq {u} /\ u \in ToSet(todo')
    BY <1>3, <1>5
  <2> QED
    BY <1>7, <1>8, <2>1, OverInv
<1>14. ASSUME NEW p \in Queries, p # q PROVE QueryInv(p)'
  <2>1. Waits(p) => Waits(p)'
    <3>1. query[p].server \in Servers
      BY <1>4 DEF QueryStates
    <3> QED
      BY <1>6, <1>8, <1>9, <1>14, <3>1 DEF Waits
  <2>2. QueryInv(p) /\ Aside(p) /\ (p \in due' => p \in due)
    BY <1>6, <1>7, <1>14 DEF AresInv
  <2> QED
    BY <1>6, <1>8, <1>14, <2>1, <2>2, QueryKept
<1>15. ASSUME NEW s \in Servers PROVE ServerInv(s)'
  <2>1. ServerInv(s)
    BY DEF AresInv
  <2>2. server'[s].queries \subseteq AllQueries'
    BY <1>4, <1>9, <1>12, <2>1 DEF ServerInv, ServerStates
  <2>3. ASSUME NEW p \in Queries
        PROVE  /\ p \in ToSet(server'[s].queue) => query'[p].phase = "active" /\ p \notin heard'[s].tcp
               /\ p \in heard'[s].tcp => query'[p].phase # "idle"
               /\ query'[p].phase = "active" /\ p \in heard'[s].tcp \cup ToSet(server'[s].queue)
                    => s \in query'[p].over
    BY <1>6, <1>8, <1>9, <2>1 DEF ServerInv
  <2>4. ASSUME NEW i \in DOMAIN server'[s].queue, NEW j \in DOMAIN server'[s].queue,
               server'[s].queue[i] \in Queries, server'[s].queue[i] = server'[s].queue[j]
        PROVE  i = j
    <3>1. NoQuery \notin Queries
      BY AresAssumption
    <3>2. i \in DOMAIN server[s].queue /\ j \in DOMAIN server[s].queue
          /\ server[s].queue[i] \in Queries /\ server[s].queue[i] = server[s].queue[j]
      BY <1>9, <2>4, <3>1
    <3> QED
      BY <2>1, <3>2 DEF ServerInv
  <2>5. server'[s].broken \/ server'[s].queue # <<>> \/ heard'[s].tcp # {} => server'[s].tcp
    <3>1. q \in ToSet(server[s].queue) => server[s].queue # <<>>
      BY DEF ToSet
    <3> QED
      BY <1>6, <1>9, <2>1, <3>1 DEF ServerInv
  <2>6. /\ <<"udp", s>> \in handles' <=> server'[s].udp
        /\ <<"tcp", s>> \in handles' <=> server'[s].tcp
        /\ s \in writing' <=> server'[s].queue # <<>>
    BY <1>6, <1>9, <2>1 DEF ServerInv, glue
  <2> QED
    BY <2>2, <2>3, <2>4, <2>5, <2>6 DEF ServerInv
<1>16. (timer' <=> handles' # {}) /\ (due' # {} => <<"timeouts">> \in ToSet(todo'))
  BY <1>6, <1>7 DEF AresInv, glue
<1> QED
  BY <1>5, <1>11, <1>13, <1>14, <1>15, <1>16 DEF AresInv
-----------------------------------------------------------------------------
(* The steps that close sockets.                                           *)

(* The handles, the watchers and the timer when the sockets of S close.    *)
LEMMA ClosedGlue ==
  ASSUME AresInv, NEW S, NEW asked, NEW left, CloseSockets(S, asked, left)
  PROVE  /\ timer' <=> handles' # {}
         /\ timer' \in BOOLEAN /\ handles' \subseteq Sockets /\ writing' \subseteq Servers
         /\ \A s \in Servers : s \notin S =>
              /\ <<"udp", s>> \in handles' <=> <<"udp", s>> \in handles
              /\ <<"tcp", s>> \in handles' <=> <<"tcp", s>> \in handles
              /\ s \in writing' <=> s \in writing
         /\ \A s \in S : <<"udp", s>> \notin handles' /\ <<"tcp", s>> \notin handles' /\ s \notin writing'
BY DEF AresInv, AresTypeOK, CloseSockets

(* A server whose sockets are closed has nothing on them.                  *)
LEMMA ClosedServer ==
  ASSUME AresInv, NEW S, NEW asked \in [Queries -> QueryStates], NEW left \in [Servers -> ServerStates],
         CloseSockets(S, asked, left), NEW s \in Servers, s \in S,
         server'[s].queries \subseteq AllQueries'
  PROVE  ServerInv(s)'
<1>1. heard \in [Servers -> HeardStates]
  BY Records DEF AresInv
<1>2. /\ ~server'[s].udp /\ ~server'[s].tcp /\ ~server'[s].broken /\ server'[s].queue = <<>>
      /\ heard'[s].tcp = {}
  <2>1. Closed(S, asked, left)
    BY <1>1, CloseFacts
  <2> QED
    BY <2>1 DEF Closed
<1>3. <<"udp", s>> \notin handles' /\ <<"tcp", s>> \notin handles' /\ s \notin writing'
  BY ClosedGlue
<1>4. DOMAIN server'[s].queue = {} /\ ToSet(server'[s].queue) = {}
  BY <1>2 DEF ToSet
<1> QED
  BY <1>2, <1>3, <1>4 DEF ServerInv

(* The callback of a query returns; with the last query the sockets close. *)
LEMMA FreedStep ==
  ASSUME AresInv, NEW q \in Queries, Freed(q)
  PROVE  AresInv'
<1> DEFINE t == <<"callback", q>>
           left == [s \in Servers |-> [server[s] EXCEPT !.queries = @ \ {q}]]
           S == IF AllQueries = {q} THEN Servers ELSE {}
<1>1. Stacked(todo) /\ Doing(t) /\ t \in InHand(q) /\ QueryInv(q)
  BY DEF AresInv, Freed, InHand
<1>2. ToSet(todo) = {t} \cup Rest
  BY <1>1, AtHead
<1>3. Stacked(todo') /\ ToSet(todo') = Rest
  BY <1>1, HeadDone DEF Became, Freed
<1>4. /\ due' = due \ {q} /\ UNCHANGED conf /\ CloseSockets(S, query, left) /\ Attempts' = Attempts
  BY DEF Freed, conf, Attempts
<1>5. /\ query \in [Queries -> QueryStates] /\ server \in [Servers -> ServerStates]
      /\ heard \in [Servers -> HeardStates] /\ AresTypeOK
  BY Records DEF AresInv
<1>6. /\ left \in [Servers -> ServerStates]
      /\ \A s \in Servers :
           /\ left[s].udp = server[s].udp /\ left[s].tcp = server[s].tcp
           /\ left[s].broken = server[s].broken /\ left[s].queue = server[s].queue
           /\ left[s].queries = server[s].queries \ {q}
  <2>1. ASSUME NEW s \in Servers
        PROVE  /\ left[s] \in ServerStates
               /\ left[s].udp = server[s].udp /\ left[s].tcp = server[s].tcp
               /\ left[s].broken = server[s].broken /\ left[s].queue = server[s].queue
               /\ left[s].queries = server[s].queries \ {q}
    BY <1>5 DEF ServerStates
  <2> QED
    BY <2>1
<1> HIDE DEF left, S
<1>7. /\ server' \in [Servers -> ServerStates] /\ query' \in [Queries -> QueryStates]
      /\ heard' \in [Servers -> HeardStates]
      /\ \A x \in Servers :
           /\ server'[x].queries = left[x].queries
           /\ x \notin S => server'[x] = left[x] /\ heard'[x] = heard[x]
      /\ \A p \in Queries :
           /\ query'[p].phase = query[p].phase /\ query'[p].server = query[p].server
           /\ query'[p].try_count = query[p].try_count
           /\ query'[p].using_tcp = query[p].using_tcp
           /\ query'[p].over = query[p].over \ S
           /\ query[p].over = {} => query'[p] = query[p]
  <2>1. Closed(S, query, left)
    BY <1>4, <1>5, <1>6, CloseFacts
  <2> QED
    BY <2>1 DEF Closed
<1>8. AresTypeOK'
  <2>1. handles' \subseteq Sockets /\ writing' \subseteq Servers /\ timer' \in BOOLEAN
    BY <1>4, ClosedGlue
  <2>2. due' \subseteq Queries
    BY <1>4, <1>5 DEF AresTypeOK
  <2> QED
    BY <1>4, <1>5, <1>7, <2>1, <2>2
       DEF AresTypeOK, ServerStates, HeardStates, QueryStates, conf, Attempts
<1>9. query[q].phase \notin {"idle", "active"}
  BY <1>1, <1>2 DEF QueryInv
<1>10. /\ \A p \in Queries : p # q => Aside(p)
       /\ \A x \in Servers : q \in Moving(x)' <=> q \in Moving(x)
       /\ <<"timeouts">> \in ToSet(todo) => <<"timeouts">> \in ToSet(todo')
  <2> DEFINE A == {t}
             B == {}
  <2>1. A \in SUBSET InHand(q) /\ B \in SUBSET InHand(q)
        /\ ToSet(todo) = A \cup Rest /\ ToSet(todo') = B \cup Rest
    BY <1>1, <1>2, <1>3
  <2> HIDE DEF A, B
  <2> QED
    BY <2>1, OthersAside
<1>11. \A p \in Queries : p # q => (p \in AllQueries' <=> p \in AllQueries)
  BY <1>7, <1>10 DEF AllQueries, Active, Aside, InHand
<1>12. QueryInv(q)'
  <2>1. InHand(q) \cap ToSet(todo') \subseteq {t}
    <3>1. InHand(q) \cap ToSet(todo) \subseteq {t}
      BY <1>1, <1>9 DEF QueryInv, InHand
    <3> QED
      BY <1>2, <1>3, <3>1
  <2>2. \A x \in Servers : q \notin Moving(x)'
    BY <1>1, <1>9, <1>10 DEF QueryInv
  <2>3. ~query'[q].using_tcp => query'[q].over = {}
    BY <1>1, <1>7 DEF QueryInv
  <2>4. q \notin due'
    BY <1>4
  <2> QED
    BY <1>7, <1>9, <2>1, <2>2, <2>3, <2>4, OverInv DEF t
<1>13. ASSUME NEW p \in Queries, p # q PROVE QueryInv(p)'
  <2>1. QueryInv(p) /\ Aside(p) /\ (p \in due' => p \in due)
    BY <1>4, <1>10, <1>13 DEF AresInv
  <2>2. query[p].phase = "idle" => query'[p] = query[p]
    BY <1>7, <2>1 DEF QueryInv, NewQuery
  <2>3. ASSUME query[p].phase = "active", Waits(p) PROVE Waits(p)'
    <3>1. S = {}
      BY <1>13, <2>3 DEF S, AllQueries, Active
    <3>2. query[p].server \in Servers
      BY <1>5 DEF QueryStates
    <3>3. \A x \in Servers : /\ p \in server'[x].queries <=> p \in server[x].queries
                             /\ server'[x].udp = server[x].udp /\ server'[x].tcp = server[x].tcp
                             /\ server'[x].queue = server[x].queue /\ heard'[x] = heard[x]
      BY <1>6, <1>7, <1>13, <3>1
    <3>4. query'[p].over = query[p].over
      BY <1>7, <3>1
    <3> QED
      BY <1>7, <2>3, <3>2, <3>3, <3>4 DEF Waits
  <2> QED
    BY <1>4, <1>7, <2>1, <2>2, <2>3, QueryKept
<1>14. ASSUME NEW x \in Servers PROVE ServerInv(x)'
  <2>1. ServerInv(x) /\ server[x].queries \subseteq Queries
    BY <1>5 DEF AresInv, ServerStates
  <2>2. server'[x].queries = server[x].queries \ {q}
    BY <1>6, <1>7
  <2>3. server'[x].queries \subseteq AllQueries'
    BY <1>11, <2>1, <2>2 DEF ServerInv
  <2>4. CASE x \in S
    BY <1>4, <1>5, <1>6, <2>3, <2>4, ClosedServer
  <2>5. CASE x \notin S
    <3>1. S = {}
      BY <2>5 DEF S
    <3>2. /\ server'[x].queries \subseteq server[x].queries \cup AllQueries'
          /\ server'[x].queue = server[x].queue /\ (server'[x].broken => server[x].broken)
          /\ server'[x].tcp = server[x].tcp /\ server'[x].udp = server[x].udp
          /\ heard'[x].tcp = heard[x].tcp
          /\ server'[x].queries \subseteq Queries
      BY <1>6, <1>7, <2>1, <2>2, <2>5
    <3>3. /\ <<"udp", x>> \in handles' <=> <<"udp", x>> \in handles
          /\ <<"tcp", x>> \in handles' <=> <<"tcp", x>> \in handles
          /\ x \in writing' <=> x \in writing
      BY <1>4, <2>5, ClosedGlue
    <3>4. \A p \in Queries :
            /\ p \in AllQueries => p \in AllQueries' \/ p \notin server'[x].queries
            /\ query[p].phase = "active" => query'[p].phase = "active"
            /\ query'[p].phase = "active" => query[p].phase \in {"idle", "active"}
            /\ query'[p].phase = "idle" => query[p].phase = "idle"
            /\ x \in query[p].over => x \in query'[p].over
      BY <1>7, <1>11, <2>2, <3>1
    <3> QED
      BY <2>1, <3>2, <3>3, <3>4, ServerKept
  <2> QED
    BY <2>4, <2>5
<1>15. (timer' <=> handles' # {}) /\ (due' # {} => <<"timeouts">> \in ToSet(todo'))
  <2>1. timer' <=> handles' # {}
    BY <1>4, ClosedGlue
  <2>2. due # {} => <<"timeouts">> \in ToSet(todo)
    BY DEF AresInv
  <2> QED
    BY <1>4, <1>10, <2>1, <2>2
<1> QED
  BY <1>3, <1>8, <1>12, <1>13, <1>14, <1>15 DEF AresInv

(* An error of a server closes its sockets; its queries are to move on.    *)
LEMMA ErrorStep ==
  ASSUME AresInv, NEW s \in Servers, handle_error(s)
  PROVE  AresInv'
<1> DEFINE t == <<"error", s>>
           Q == server[s].queries
           u == <<"move", s, Q>>
           S == {s}
           left == [server EXCEPT ![s].queries = {}]
<1>1. Doing(t) /\ t[1] = "error" /\ Stacked(todo)
  BY DEF handle_error, AresInv
<1>2. /\ query \in [Queries -> QueryStates] /\ server \in [Servers -> ServerStates]
      /\ heard \in [Servers -> HeardStates] /\ AresTypeOK
  BY Records DEF AresInv
<1>3. Q \in SUBSET Queries
  BY <1>2 DEF ServerStates
<1>4. Stacked(todo') /\ ToSet(todo') = {u} \cup Rest
  BY <1>1, <1>3, ProcessfdsDone DEF Became, handle_error
<1>5. UNCHANGED <<due, conf>> /\ CloseSockets(S, query, left) /\ Attempts' = Attempts
  BY DEF handle_error, conf, Attempts
<1>6. /\ left \in [Servers -> ServerStates]
      /\ left[s].queries = {} /\ \A x \in Servers : x # s => left[x] = server[x]
  BY <1>2 DEF ServerStates
<1>7. /\ \A p \in Queries : t \notin InHand(p) /\ u \notin InHand(p)
      /\ \A x, P : <<"move", x, P>> # t
      /\ \A x, P : <<"move", x, P>> = u <=> x = s /\ P = Q
      /\ <<"timeouts">> # t
  BY DEF InHand
<1> HIDE DEF left, t, u, Q, S
<1>8. /\ server' \in [Servers -> ServerStates] /\ query' \in [Queries -> QueryStates]
      /\ heard' \in [Servers -> HeardStates]
      /\ \A x \in Servers :
           /\ server'[x].queries = left[x].queries
           /\ x \notin S => server'[x] = left[x] /\ heard'[x] = heard[x]
      /\ \A p \in Queries :
           /\ query'[p].phase = query[p].phase /\ query'[p].server = query[p].server
           /\ query'[p].try_count = query[p].try_count
           /\ query'[p].using_tcp = query[p].using_tcp
           /\ query'[p].over = query[p].over \ S
           /\ query[p].over = {} => query'[p] = query[p]
  <2>1. Closed(S, query, left)
    BY <1>2, <1>5, <1>6, CloseFacts
  <2> QED
    BY <2>1 DEF Closed
<1>9. AresTypeOK'
  <2>1. handles' \subseteq Sockets /\ writing' \subseteq Servers /\ timer' \in BOOLEAN
    BY <1>5, ClosedGlue
  <2> QED
    BY <1>2, <1>5, <1>8, <2>1
       DEF AresTypeOK, ServerStates, HeardStates, QueryStates, conf, Attempts
<1>10. /\ ToSet(todo) = {t} \cup Rest
       /\ \A p \in Queries : InHand(p) \cap ToSet(todo) = {}
       /\ \A x, P : <<"move", x, P>> \notin ToSet(todo)
       /\ \A p \in Queries, x \in Servers : p \notin Moving(x)
       /\ AllQueries = Active
       /\ \A p \in Queries : query[p].phase = "active" => Waits(p) /\ query[p].try_count < Attempts
  BY <1>1, NobodyInHand
<1>11. \A p \in Queries : InHand(p) \cap ToSet(todo') = {}
  BY <1>4, <1>7, <1>10
<1>12. \A p \in Queries, x \in Servers : p \in Moving(x)' <=> x = s /\ p \in Q
  <2>1. \A x, P : <<"move", x, P>> \in ToSet(todo') <=> x = s /\ P = Q
    <3>1. \A x, P : <<"move", x, P>> \notin Rest
      BY <1>10
    <3>2. ASSUME NEW x, NEW P PROVE <<"move", x, P>> \in ToSet(todo') <=> x = s /\ P = Q
      BY <1>4, <1>7, <3>1
    <3> QED
      BY <3>2
  <2> QED
    BY <1>3, <2>1 DEF Moving
<1>13. \A p \in Queries : p \in AllQueries' <=> p \in AllQueries
  BY <1>8, <1>10, <1>11 DEF AllQueries, Active, InHand
<1>14. ASSUME NEW p \in Queries PROVE QueryInv(p)'
  <2>1. QueryInv(p)
    BY DEF AresInv
  <2>2. CASE query[p].phase = "active"
    <3>1. /\ query'[p].phase = "active" /\ query'[p].try_count < Attempts'
          /\ (~query'[p].using_tcp => query'[p].over = {}) /\ InHand(p) \cap ToSet(todo') = {}
      BY <1>5, <1>8, <1>10, <1>11, <2>1, <2>2 DEF QueryInv
    <3>2. {x \in Servers : p \in server[x].queries} = {query[p].server} /\ query[p].server \in Servers
      BY <1>2, <1>10, <2>2 DEF Waits, QueryStates
    <3>3. \A x \in Servers : p \in Moving(x)' => query'[p].server = x
      BY <1>8, <1>12, <3>2 DEF Q
    <3>4. ASSUME p \notin Q PROVE Waits(p)'
      <4>1. query[p].server # s
        BY <3>2, <3>4 DEF Q
      <4>2. {x \in Servers : p \in server'[x].queries} = {query'[p].server}
        BY <1>6, <1>8, <3>2, <3>4 DEF Q, S
      <4>3. /\ server'[query[p].server] = server[query[p].server]
            /\ heard'[query[p].server] = heard[query[p].server]
        BY <1>6, <1>8, <3>2, <4>1 DEF S
      <4>4. query[p].server \in query[p].over => query[p].server \in query'[p].over
        BY <1>8, <4>1 DEF S
      <4>5. query'[p].server = query[p].server /\ query'[p].using_tcp = query[p].using_tcp
        BY <1>8
      <4> QED
        BY <1>10, <2>2, <4>2, <4>3, <4>4, <4>5 DEF Waits
    <3>5. (\A x \in Servers : p \notin Moving(x)') => Waits(p)'
      BY <1>12, <3>4
    <3> QED
      BY <3>1, <3>3, <3>5, WaitingInv
  <2>3. CASE query[p].phase # "active"
    <3>1. p \notin Q
      <4>1. Q \subseteq AllQueries
        BY DEF AresInv, ServerInv, Q
      <4> QED
        BY <1>10, <2>3, <4>1 DEF Active
    <3>2. Aside(p)
      BY <1>10, <1>11, <1>12, <3>1 DEF Aside
    <3>3. query[p].phase = "idle" => query'[p] = query[p]
      BY <1>8, <2>1 DEF QueryInv, NewQuery
    <3>4. p \in due' => p \in due
      BY <1>5
    <3> QED
      BY <1>5, <1>8, <2>1, <2>3, <3>2, <3>3, <3>4, QueryKept
  <2> QED
    BY <2>2, <2>3
<1>15. ASSUME NEW x \in Servers PROVE ServerInv(x)'
  <2>1. ServerInv(x) /\ server[x].queries \subseteq Queries
    BY <1>2 DEF AresInv, ServerStates
  <2>2. CASE x = s
    <3>1. server'[x].queries \subseteq AllQueries' /\ x \in S
      BY <1>6, <1>8, <2>2 DEF S
    <3> QED
      BY <1>2, <1>5, <1>6, <3>1, ClosedServer
  <2>3. CASE x # s
    <3>1. x \notin S /\ server'[x] = server[x] /\ heard'[x] = heard[x]
      BY <1>6, <1>8, <2>3 DEF S
    <3>2. /\ <<"udp", x>> \in handles' <=> <<"udp", x>> \in handles
          /\ <<"tcp", x>> \in handles' <=> <<"tcp", x>> \in handles
          /\ x \in writing' <=> x \in writing
      BY <1>5, <3>1, ClosedGlue
    <3>3. \A p \in Queries :
            /\ p \in AllQueries => p \in AllQueries' \/ p \notin server'[x].queries
            /\ query[p].phase = "active" => query'[p].phase = "active"
            /\ query'[p].phase = "active" => query[p].phase \in {"idle", "active"}
            /\ query'[p].phase = "idle" => query[p].phase = "idle"
            /\ x \in query[p].over => x \in query'[p].over
      BY <1>8, <1>13, <3>1
    <3> QED
      BY <2>1, <3>1, <3>2, <3>3, ServerKept
  <2> QED
    BY <2>2, <2>3
<1>16. (timer' <=> handles' # {}) /\ (due' # {} => <<"timeouts">> \in ToSet(todo'))
  <2>1. timer' <=> handles' # {}
    BY <1>5, ClosedGlue
  <2>2. due # {} => <<"timeouts">> \in ToSet(todo)
    BY DEF AresInv
  <2> QED
    BY <1>4, <1>5, <1>7, <1>10, <2>1, <2>2
<1> QED
  BY <1>4, <1>9, <1>14, <1>15, <1>16 DEF AresInv

(* ares_cancel and ares_destroy end every query.                           *)
LEMMA GiveUpStep ==
  ASSUME AresInv, GiveUp, channel' \in {channel, "destroyed"}
  PROVE  AresInv'
<1> DEFINE asked == [q \in Queries |-> IF q \in Active THEN Over(q, "cancelled") ELSE query[q]]
           left == [s \in Servers |-> [server[s] EXCEPT !.queries = {}]]
           S == Servers
<1>1. /\ todo = <<>> /\ CloseSockets(S, asked, left)
      /\ UNCHANGED <<due, last_server, program, todo>> /\ Attempts' = Attempts
  BY DEF GiveUp, Attempts
<1>2. /\ query \in [Queries -> QueryStates] /\ server \in [Servers -> ServerStates]
      /\ heard \in [Servers -> HeardStates] /\ AresTypeOK /\ Stacked(todo)
  BY Records DEF AresInv
<1>3. ToSet(todo) = {} /\ due = {}
  BY <1>1, NothingToDo DEF AresInv
<1>4. ASSUME NEW p \in Queries
      PROVE  /\ asked[p] \in QueryStates
             /\ p \in Active => asked[p].phase = "cancelled" /\ asked[p].over = {}
             /\ p \notin Active => asked[p] = query[p]
  <2>1. 0 \in Servers
    BY AresAssumption DEF Servers
  <2>2. /\ Over(p, "cancelled") \in QueryStates /\ Over(p, "cancelled").phase = "cancelled"
        /\ Over(p, "cancelled").over = {}
    BY <1>2, <2>1 DEF Over, NewQuery, QueryStates
  <2> QED
    BY <1>2, <2>2
<1>5. asked \in [Queries -> QueryStates]
  BY <1>4
<1>6. ASSUME NEW s \in Servers PROVE left[s] \in ServerStates /\ left[s].queries = {}
  BY <1>2 DEF ServerStates
<1>7. left \in [Servers -> ServerStates]
  BY <1>6
<1> HIDE DEF asked, left, S
<1>8. /\ server' \in [Servers -> ServerStates] /\ query' \in [Queries -> QueryStates]
      /\ heard' \in [Servers -> HeardStates]
      /\ \A x \in Servers : server'[x].queries = {}
      /\ \A p \in Queries :
           /\ query'[p].phase = asked[p].phase /\ query'[p].server = asked[p].server
           /\ query'[p].try_count = asked[p].try_count
           /\ query'[p].using_tcp = asked[p].using_tcp
           /\ query'[p].over = asked[p].over \ S
           /\ asked[p].over = {} => query'[p] = asked[p]
  <2>1. Closed(S, asked, left)
    BY <1>1, <1>2, <1>5, <1>7, CloseFacts
  <2> QED
    BY <1>6, <2>1 DEF Closed
<1>9. AresTypeOK'
  <2>1. handles' \subseteq Sockets /\ writing' \subseteq Servers /\ timer' \in BOOLEAN
    BY <1>1, ClosedGlue
  <2> QED
    BY <1>1, <1>2, <1>8, <2>1 DEF AresTypeOK, ServerStates, HeardStates, QueryStates, Attempts
<1>10. ASSUME NEW p \in Queries PROVE QueryInv(p)'
  <2>1. QueryInv(p)
    BY DEF AresInv
  <2>2. CASE p \in Active
    <3>1. query'[p].phase \notin {"idle", "active"} /\ query'[p].over = {}
      BY <1>4, <1>8, <2>2
    <3>2. ToSet(todo') = {} /\ p \notin due'
      BY <1>1, <1>3
    <3>3. \A x \in Servers : p \notin Moving(x)'
      BY <3>2 DEF Moving
    <3> QED
      BY <3>1, <3>2, <3>3, OverInv
  <2>3. CASE p \notin Active
    <3>1. Aside(p)
      BY <1>1 DEF Aside, Moving
    <3>2. /\ query'[p].phase = query[p].phase /\ query'[p].server = query[p].server
          /\ query'[p].try_count = query[p].try_count
          /\ query'[p].using_tcp = query[p].using_tcp
          /\ query'[p].over \subseteq query[p].over
          /\ query[p].over = {} => query'[p] = query[p]
          /\ query[p].phase # "active"
      BY <1>4, <1>8, <2>3 DEF Active
    <3>3. query[p].phase = "idle" => query'[p] = query[p]
      BY <2>1, <3>2 DEF QueryInv, NewQuery
    <3>4. p \in due' => p \in due
      BY <1>1
    <3> QED
      BY <1>1, <2>1, <3>1, <3>2, <3>3, <3>4, QueryKept
  <2> QED
    BY <2>2, <2>3
<1>11. ASSUME NEW x \in Servers PROVE ServerInv(x)'
  <2>1. server'[x].queries \subseteq AllQueries' /\ x \in S
    BY <1>8 DEF S
  <2> QED
    BY <1>1, <1>5, <1>7, <2>1, ClosedServer
<1>12. (timer' <=> handles' # {}) /\ due' = {} /\ Stacked(todo')
  BY <1>1, <1>2, <1>3, ClosedGlue DEF Stacked
<1> QED
  BY <1>9, <1>10, <1>11, <1>12 DEF AresInv

(* A query that is asked was never asked before.                           *)
LEMMA AskedOnce ==
  ASSUME AresInv, NEW q \in Queries, ares_send(q)
  PROVE  query[q].phase = "idle"
<1>1. PICK i \in DOMAIN program.asks :
        /\ q = program.asks[i]
        /\ {j \in DOMAIN program.asks : query[program.asks[j]].phase # "idle"} = 1 .. i - 1
  BY DEF ares_send
<1>2. program.asks \in Seq(Queries)
  BY AresAssumption DEF AresInv, AresTypeOK
<1>3. i \in Nat
  BY <1>1, <1>2
<1>4. i \notin 1 .. i - 1
  BY <1>3
<1> QED
  BY <1>1, <1>4

(* The program asks a query it never asked before.                         *)
LEMMA AskStep ==
  ASSUME AresInv, NEW q \in Queries, ares_send(q)
  PROVE  AresInv'
<1> DEFINE u == <<"send", q>>
<1>1. /\ query \in [Queries -> QueryStates] /\ AresTypeOK /\ Stacked(todo) /\ QueryInv(q)
  BY Records DEF AresInv
<1>2. Stacked(todo') /\ ToSet(todo') = {u} \cup ToSet(todo)
  BY <1>1, AskStack
<1>3. UNCHANGED <<server, heard, glue, due, channel, program>> /\ Attempts' = Attempts
  BY DEF ares_send, Attempts
<1>4. query[q].phase = "idle"
  BY AskedOnce
<1>5. query[q] = NewQuery
  BY <1>1, <1>4 DEF QueryInv
<1>6. PICK tcp \in BOOLEAN :
        query' = [query EXCEPT ![q].phase = "active", ![q].server = last_server, ![q].using_tcp = tcp]
  <2>1. program.tcp \subseteq BOOLEAN
    BY <1>1, AresAssumption DEF AresTypeOK
  <2> QED
    BY <2>1 DEF ares_send
<1>7. /\ query' \in [Queries -> QueryStates]
      /\ query'[q].phase = "active" /\ query'[q].over = {} /\ query'[q].try_count = 0
      /\ \A p \in Queries : p # q => query'[p] = query[p]
      /\ \A p \in Queries : query'[p].over = query[p].over
  <2>1. last_server \in Servers
    BY <1>1 DEF AresTypeOK
  <2>2. query[q].over = {} /\ query[q].try_count = 0
    BY <1>5 DEF NewQuery
  <2>3. query' \in [Queries -> QueryStates]
    <3> DEFINE f == [query[q] EXCEPT !.phase = "active", !.server = last_server, !.using_tcp = tcp]
    <3>1. f \in QueryStates
      BY <1>1, <2>1 DEF QueryStates
    <3>2. query' = [query EXCEPT ![q] = f]
      BY <1>6
    <3> HIDE DEF f
    <3> QED
      BY <1>1, <3>1, <3>2
  <2>4. /\ query'[q].phase = "active" /\ query'[q].over = query[q].over
        /\ query'[q].try_count = query[q].try_count
    BY <1>1, <1>6 DEF QueryStates
  <2>5. \A p \in Queries : p # q => query'[p] = query[p]
    BY <1>1, <1>6
  <2> QED
    BY <2>2, <2>3, <2>4, <2>5
<1>8. AresTypeOK'
  <2>1. last_server' \in Servers
    <3>1. last_server \in Nat
      BY <1>1, AresAssumption DEF AresTypeOK, Servers
    <3>2. last_server + 1 \in Nat
      BY <3>1
    <3>3. (last_server + 1) % NServers \in Servers
      BY <3>2, Around
    <3> QED
      BY <1>1, <3>3 DEF ares_send, AresTypeOK
  <2> QED
    BY <1>1, <1>3, <1>7, <2>1 DEF AresTypeOK, QueryStates, glue, Attempts
<1>9. InHand(q) \cap ToSet(todo) = {} /\ \A x \in Servers : q \notin Moving(x)
  BY <1>1, <1>4 DEF QueryInv, InHand
<1>10. u \in InHand(q) /\ u \in {<<"send", q>>, <<"next", q>>, <<"end", q, "success">>}
  BY DEF InHand
<1> HIDE DEF u
<1>11. /\ \A p \in Queries : p # q => Aside(p)
       /\ \A x \in Servers : q \notin Moving(x)'
       /\ <<"timeouts">> \in ToSet(todo) => <<"timeouts">> \in ToSet(todo')
  <2> DEFINE A == {}
             B == {u}
             R == ToSet(todo)
  <2>1. A \in SUBSET InHand(q) /\ B \in SUBSET InHand(q)
        /\ ToSet(todo) = A \cup R /\ ToSet(todo') = B \cup R
    BY <1>2, <1>10
  <2> HIDE DEF A, B, R
  <2> QED
    BY <1>9, <2>1, OthersAside
<1>12. QueryInv(q)'
  <2>1. InHand(q) \cap ToSet(todo') = {u}
    BY <1>2, <1>9, <1>10
  <2>2. query'[q].try_count < Attempts'
    BY <1>1, <1>3, <1>7, AttemptsFacts DEF AresTypeOK
  <2>3. query'[q].server \notin query'[q].over
    BY <1>7
  <2> QED
    BY <1>7, <1>10, <1>11, <2>1, <2>2, <2>3, InHandInv
<1>13. ASSUME NEW p \in Queries, p # q PROVE QueryInv(p)'
  <2>1. Waits(p) => Waits(p)'
    BY <1>3, <1>7, <1>13 DEF Waits
  <2>2. QueryInv(p) /\ Aside(p) /\ (p \in due' => p \in due)
    BY <1>3, <1>11, <1>13 DEF AresInv
  <2> QED
    BY <1>3, <1>7, <1>13, <2>1, <2>2, QueryKept
<1>14. \A p \in Queries : p \in AllQueries => p \in AllQueries'
  <2>1. ASSUME NEW p \in Queries, p # q, p \in AllQueries PROVE p \in AllQueries'
    BY <1>2, <1>7, <2>1 DEF AllQueries, Active
  <2>2. q \in AllQueries'
    BY <1>7 DEF AllQueries, Active
  <2> QED
    BY <2>1, <2>2
<1>15. ASSUME NEW x \in Servers PROVE ServerInv(x)'
  <2>1. ServerInv(x) /\ server[x].queries \subseteq Queries
    BY <1>1 DEF AresInv, AresTypeOK
  <2>2. UNCHANGED <<server, heard, handles, writing>>
    BY <1>3 DEF glue
  <2>3. \A p \in Queries :
          /\ p \in AllQueries => p \in AllQueries' \/ p \notin server'[x].queries
          /\ query[p].phase = "active" => query'[p].phase = "active"
          /\ query'[p].phase = "active" => query[p].phase \in {"idle", "active"}
          /\ query'[p].phase = "idle" => query[p].phase = "idle"
          /\ x \in query[p].over => x \in query'[p].over
    BY <1>4, <1>7, <1>14
  <2> QED
    BY <2>1, <2>2, <2>3, ServerKept
<1>16. (timer' <=> handles' # {}) /\ (due' # {} => <<"timeouts">> \in ToSet(todo'))
  BY <1>3, <1>11 DEF AresInv, glue
<1> QED
  BY <1>2, <1>8, <1>12, <1>13, <1>15, <1>16 DEF AresInv
-----------------------------------------------------------------------------
(* A query is sent.                                                        *)

(* A socket is opened unless it is open.                                   *)
LEMMA OpenedFacts ==
  ASSUME NEW h, NEW open, open <=> h \in handles, timer <=> handles # {},
         IF open THEN UNCHANGED <<handles, timer>> ELSE OpenHandle(h)
  PROVE  handles' = handles \cup {h} /\ (timer' <=> handles' # {}) /\ timer' \in BOOLEAN
<1>1. CASE open
  BY <1>1
<1>2. CASE ~open
  <2>1. handles' = handles \cup {h} /\ timer' = TRUE
    BY <1>2 DEF OpenHandle
  <2> QED
    BY <2>1
<1> QED
  BY <1>1, <1>2

(* A request at the end of a queue that did not hold it.                   *)
LEMMA Queued ==
  ASSUME NEW w \in Seq(Queries \cup {NoQuery}), NEW q \in Queries, q \notin ToSet(w),
         \A i, j \in DOMAIN w : w[i] \in Queries /\ w[i] = w[j] => i = j
  PROVE  /\ ToSet(Append(w, q)) = ToSet(w) \cup {q} /\ Append(w, q) # <<>>
         /\ \A i, j \in DOMAIN Append(w, q) :
              Append(w, q)[i] \in Queries /\ Append(w, q)[i] = Append(w, q)[j] => i = j
<1> DEFINE v == Append(w, q)
           n == Len(w)
<1>1. n \in Nat /\ DOMAIN w = 1 .. n
  OBVIOUS
<1>2. v \in Seq(Queries \cup {NoQuery}) /\ Len(v) = n + 1 /\ v[n + 1] = q /\ \A i \in 1 .. n : v[i] = w[i]
  OBVIOUS
<1> HIDE DEF v, n
<1>3. DOMAIN v = 1 .. n + 1 /\ 1 .. n + 1 = (1 .. n) \cup {n + 1}
  BY <1>1, <1>2
<1>4. v # <<>>
  BY <1>1, <1>3
<1>5. \A i \in 1 .. n : w[i] # q
  BY <1>1 DEF ToSet
<1>6. \A i, j \in 1 .. n + 1 : v[i] \in Queries /\ v[i] = v[j] => i = j
  BY <1>1, <1>2, <1>3, <1>5
<1>7. ToSet(v) = ToSet(w) \cup {q}
  <2>1. ToSet(v) = {v[i] : i \in 1 .. n + 1} /\ ToSet(w) = {w[i] : i \in 1 .. n}
    BY <1>1, <1>3 DEF ToSet
  <2> QED
    BY <1>2, <1>3, <2>1
<1> QED
  BY <1>3, <1>4, <1>6, <1>7 DEF v

(* The queries that a send is not about wait as before.                    *)
LEMMA SendKeepsOthers ==
  ASSUME AresInv, NEW q \in Queries, NEW p \in Queries, p # q, Aside(p), Attempts' = Attempts,
         due' \subseteq due,
         query'[p].phase = query[p].phase, query'[p].server = query[p].server,
         query'[p].try_count = query[p].try_count, query'[p].using_tcp = query[p].using_tcp,
         query'[p].over \subseteq query[p].over,
         query[p].phase = "idle" => query'[p] = query[p],
         \A x \in Servers :
           /\ server[x].udp => server'[x].udp
           /\ server[x].tcp => server'[x].tcp /\ (x \in query[p].over => x \in query'[p].over)
           /\ p \in server'[x].queries <=> p \in server[x].queries
           /\ heard[x].udp \subseteq heard'[x].udp
           /\ heard[x].tcp \cup ToSet(server[x].queue)
              \subseteq heard'[x].tcp \cup ToSet(server'[x].queue)
  PROVE  QueryInv(p)'
<1>1. QueryInv(p) /\ query[p].server \in Servers
  BY Records DEF AresInv, QueryStates
<1>2. Waits(p) => Waits(p)'
  <2>1. SUFFICES ASSUME Waits(p) PROVE Waits(p)'
    OBVIOUS
  <2>2. {x \in Servers : p \in server'[x].queries} = {query'[p].server}
    BY <2>1 DEF Waits
  <2>3. /\ query[p].using_tcp => /\ server[query[p].server].tcp /\ query[p].server \in query[p].over
                                 /\ p \in heard[query[p].server].tcp \cup ToSet(server[query[p].server].queue)
        /\ ~query[p].using_tcp => server[query[p].server].udp /\ p \in heard[query[p].server].udp
    BY <2>1 DEF Waits
  <2>4. /\ query'[p].using_tcp => /\ server'[query'[p].server].tcp /\ query'[p].server \in query'[p].over
                                  /\ p \in heard'[query'[p].server].tcp
                                           \cup ToSet(server'[query'[p].server].queue)
        /\ ~query'[p].using_tcp => server'[query'[p].server].udp /\ p \in heard'[query'[p].server].udp
    BY <1>1, <2>3
  <2> QED
    BY <2>2, <2>4 DEF Waits
<1> QED
  BY <1>1, <1>2, QueryKept

(* What a send does to the stack, whatever comes of it.                    *)
LEMMA SendTask ==
  ASSUME AresInv, NEW q \in Queries, Doing(<<"send", q>>),
         \/ Then(<<>>) \/ Then(<<<<"next", q>>>>)
  PROVE  /\ query[q].phase = "active" /\ query[q].try_count < Attempts
         /\ query[q].server \in Servers
         /\ query[q].using_tcp => query[q].server \notin query[q].over
         /\ ~query[q].using_tcp => query[q].over = {}
         /\ Stacked(todo')
         /\ Then(<<>>) => InHand(q) \cap ToSet(todo') = {}
         /\ Then(<<<<"next", q>>>>) => InHand(q) \cap ToSet(todo') = {<<"next", q>>}
         /\ \A p \in Queries : p # q => Aside(p)
         /\ \A x \in Servers : q \notin Moving(x)'
         /\ due' \subseteq due => (due' # {} => <<"timeouts">> \in ToSet(todo'))
         /\ \A p \in Queries : query'[p].phase = query[p].phase => (p \in AllQueries => p \in AllQueries')
<1> DEFINE t == <<"send", q>>
           u == <<"next", q>>
<1>1. /\ t \in InHand(q) /\ t # <<"callback", q>> /\ t # <<"end", q, "failed">> /\ Doing(t)
      /\ t[1] = "send" /\ u \in InHand(q) /\ (Then(<<>>) \/ Then(<<u>>))
  BY DEF InHand
<1>2. Stacked(todo) /\ QueryInv(q) /\ query \in [Queries -> QueryStates]
  BY Records DEF AresInv
<1>3. t \in ToSet(todo) => (query[q].using_tcp => query[q].server \notin query[q].over)
  BY <1>2 DEF QueryInv
<1> HIDE DEF t
<1>4. /\ ToSet(todo) = {t} \cup Rest /\ InHand(q) \cap Rest = {}
      /\ query[q].phase = "active" /\ query[q].try_count < Attempts
      /\ \A s \in Servers : q \notin Moving(s)
  BY <1>1, HeadInHand
<1>5. ASSUME NEW B \in SUBSET {u}, Stacked(todo'), ToSet(todo') = B \cup Rest
      PROVE  /\ InHand(q) \cap ToSet(todo') = B
             /\ \A p \in Queries : p # q => Aside(p)
             /\ \A x \in Servers : q \notin Moving(x)'
             /\ <<"timeouts">> \in ToSet(todo) => <<"timeouts">> \in ToSet(todo')
  <2> DEFINE A == {t}
  <2>1. A \in SUBSET InHand(q) /\ B \in SUBSET InHand(q)
        /\ ToSet(todo) = A \cup Rest /\ ToSet(todo') = B \cup Rest
    BY <1>1, <1>4, <1>5
  <2> HIDE DEF A
  <2>2. InHand(q) \cap ToSet(todo') = B
    BY <1>1, <1>4, <1>5
  <2> QED
    BY <1>4, <2>1, <2>2, OthersAside
<1>6. Then(<<>>) => Became({})
  BY <1>1, <1>2, HeadDone
<1>7. Then(<<u>>) => Became({u})
  BY <1>1, <1>2, HeadFollowed
<1>8. /\ Stacked(todo')
      /\ Then(<<>>) => InHand(q) \cap ToSet(todo') = {}
      /\ Then(<<u>>) => InHand(q) \cap ToSet(todo') = {u}
      /\ \A p \in Queries : p # q => Aside(p)
      /\ \A x \in Servers : q \notin Moving(x)'
      /\ <<"timeouts">> \in ToSet(todo) => <<"timeouts">> \in ToSet(todo')
  <2> DEFINE C == {}
             D == {u}
  <2>1. (Then(<<>>) => Became(C)) /\ (Then(<<u>>) => Became(D)) /\ C \in SUBSET {u} /\ D \in SUBSET {u}
    BY <1>6, <1>7
  <2> HIDE DEF C, D
  <2>2. CASE Then(<<>>) /\ ~Then(<<u>>)
    <3>1. InHand(q) \cap ToSet(todo') = C
      BY <1>5, <2>1, <2>2 DEF Became
    <3> QED
      BY <1>5, <2>1, <2>2, <3>1 DEF Became, C
  <2>3. CASE Then(<<u>>) /\ ~Then(<<>>)
    <3>1. InHand(q) \cap ToSet(todo') = D
      BY <1>5, <2>1, <2>3 DEF Became
    <3> QED
      BY <1>5, <2>1, <2>3, <3>1 DEF Became, D
  <2>4. CASE Then(<<>>) /\ Then(<<u>>)
    <3>1. InHand(q) \cap ToSet(todo') = C
      BY <1>5, <2>1, <2>4 DEF Became
    <3>2. InHand(q) \cap ToSet(todo') = D
      BY <1>5, <2>1, <2>4 DEF Became
    <3> QED
      BY <1>5, <2>1, <2>4, <3>1, <3>2 DEF Became, C, D
  <2> QED
    BY <1>1, <2>2, <2>3, <2>4
<1>9. due' \subseteq due => (due' # {} => <<"timeouts">> \in ToSet(todo'))
  BY <1>8 DEF AresInv
<1>10. ASSUME NEW p \in Queries, query'[p].phase = query[p].phase, p \in AllQueries
       PROVE  p \in AllQueries'
  <2>1. CASE p = q
    BY <1>4, <1>10, <2>1 DEF AllQueries, Active
  <2>2. CASE p # q
    BY <1>8, <1>10, <2>2 DEF AllQueries, Active, Aside, InHand
  <2> QED
    BY <2>1, <2>2
<1>11. ~query[q].using_tcp => query[q].over = {}
  BY <1>2 DEF QueryInv
<1>12. query[q].server \in Servers /\ t \in ToSet(todo)
  BY <1>2, <1>4 DEF QueryStates
<1> QED
  BY <1>3, <1>4, <1>8, <1>9, <1>10, <1>11, <1>12 DEF t

(* A datagram is sent, or nothing: the connections stay as they are.       *)
LEMMA NoConnectionStep ==
  ASSUME AresInv, NEW q \in Queries, Doing(<<"send", q>>), Then(<<>>) \/ Then(<<<<"next", q>>>>),
         AresTypeOK', UNCHANGED <<writing, conf>>, due' \subseteq due, QueryInv(q)',
         timer' <=> handles' # {},
         \A p \in Queries :
           /\ query'[p].phase = query[p].phase /\ query'[p].over = query[p].over
           /\ p # q => query'[p] = query[p],
         \A x \in Servers :
           /\ server[x].udp => server'[x].udp
           /\ server'[x].tcp = server[x].tcp /\ server'[x].broken = server[x].broken
           /\ server'[x].queue = server[x].queue
           /\ \A p \in Queries : p # q => (p \in server'[x].queries <=> p \in server[x].queries)
           /\ heard[x].udp \subseteq heard'[x].udp /\ heard'[x].tcp = heard[x].tcp
           /\ <<"udp", x>> \in handles' <=> server'[x].udp
           /\ <<"tcp", x>> \in handles' <=> <<"tcp", x>> \in handles
  PROVE  AresInv'
<1>1. /\ query[q].phase = "active" /\ Stacked(todo')
      /\ \A p \in Queries : p # q => Aside(p)
      /\ due' # {} => <<"timeouts">> \in ToSet(todo')
      /\ \A p \in Queries : p \in AllQueries => p \in AllQueries'
  BY SendTask
<1>2. Attempts' = Attempts
  BY DEF conf, Attempts
<1>3. ASSUME NEW p \in Queries, p # q PROVE QueryInv(p)'
  BY <1>1, <1>2, <1>3, SendKeepsOthers
<1>4. ASSUME NEW x \in Servers PROVE ServerInv(x)'
  <2>1. ServerInv(x)
    BY DEF AresInv
  <2>2. server'[x].queries \subseteq Queries
    BY DEF AresTypeOK
  <2>3. server'[x].queries \subseteq server[x].queries \cup AllQueries'
    <3>1. q \in AllQueries'
      BY <1>1 DEF AllQueries, Active
    <3> QED
      BY <2>2, <3>1
  <2> QED
    BY <1>1, <2>1, <2>2, <2>3, ConnectionKept
<1> QED
  BY <1>1, <1>3, <1>4 DEF AresInv

(* A UDP socket is opened, unless it is open, for a datagram.              *)
LEMMA UdpOpened ==
  ASSUME AresInv, NEW s \in Servers,
         IF server[s].udp THEN UNCHANGED <<handles, timer>> ELSE OpenHandle(<<"udp", s>>)
  PROVE  /\ handles' \subseteq Sockets /\ timer' \in BOOLEAN /\ (timer' <=> handles' # {})
         /\ \A x \in Servers :
              /\ <<"udp", x>> \in handles' <=> server[x].udp \/ x = s
              /\ <<"tcp", x>> \in handles' <=> <<"tcp", x>> \in handles
<1> DEFINE h == <<"udp", s>>
<1>1. /\ h \in Sockets /\ \A x : <<"tcp", x>> # h
      /\ \A x : <<"udp", x>> = h <=> x = s
  BY DEF Sockets
<1>2. /\ handles \subseteq Sockets /\ (timer <=> handles # {})
      /\ \A x \in Servers : <<"udp", x>> \in handles <=> server[x].udp
  BY DEF AresInv, AresTypeOK, ServerInv
<1>3. server[s].udp <=> h \in handles
  BY <1>2
<1> HIDE DEF h
<1>4. IF server[s].udp THEN UNCHANGED <<handles, timer>> ELSE OpenHandle(h)
  BY DEF h
<1>5. handles' = handles \cup {h} /\ (timer' <=> handles' # {}) /\ timer' \in BOOLEAN
  BY <1>2, <1>3, <1>4, OpenedFacts
<1> QED
  BY <1>1, <1>2, <1>5

(* A query is sent in a datagram.                                          *)
LEMMA SendUdpStep ==
  ASSUME AresInv, NEW q \in Queries, NEW s \in Servers, s = query[q].server, Doing(<<"send", q>>),
         SendUdp(q, s), due' = due \ {q}, Then(<<>>), UNCHANGED conf
  PROVE  AresInv'
<1>1. /\ query[q].phase = "active" /\ query[q].try_count < Attempts
      /\ ~query[q].using_tcp => query[q].over = {}
      /\ InHand(q) \cap ToSet(todo') = {} /\ \A x \in Servers : q \notin Moving(x)'
  BY SendTask
<1>2. AresTypeOK /\ server \in [Servers -> ServerStates] /\ heard \in [Servers -> HeardStates]
  BY Records DEF AresInv
<1>3. ~query[q].using_tcp /\ UNCHANGED <<query, writing>> /\ Attempts' = Attempts
  BY DEF SendUdp, conf, Attempts
<1>4. /\ handles' \subseteq Sockets /\ timer' \in BOOLEAN /\ (timer' <=> handles' # {})
      /\ \A x \in Servers :
           /\ <<"udp", x>> \in handles' <=> server[x].udp \/ x = s
           /\ <<"tcp", x>> \in handles' <=> <<"tcp", x>> \in handles
  BY UdpOpened DEF SendUdp
<1> DEFINE f == [server EXCEPT ![s].udp = TRUE]
<1>5. /\ f \in [Servers -> ServerStates]
      /\ \A x \in Servers :
           /\ f[x].udp = (server[x].udp \/ x = s) /\ f[x].tcp = server[x].tcp
           /\ f[x].broken = server[x].broken /\ f[x].queries = server[x].queries
           /\ f[x].queue = server[x].queue
  BY <1>2, SocketFacts
<1>6. server' = Filed(q, s, f)
  BY DEF SendUdp
<1> HIDE DEF f
<1>7. /\ server' \in [Servers -> ServerStates]
      /\ \A x \in Servers :
           /\ server'[x].udp = (server[x].udp \/ x = s) /\ server'[x].tcp = server[x].tcp
           /\ server'[x].broken = server[x].broken /\ server'[x].queue = server[x].queue
           /\ \A p \in Queries :
                p \in server'[x].queries <=> IF p = q THEN x = s ELSE p \in server[x].queries
  <2>1. /\ server' \in [Servers -> ServerStates]
        /\ \A x \in Servers :
             /\ server'[x].udp = f[x].udp /\ server'[x].tcp = f[x].tcp
             /\ server'[x].broken = f[x].broken /\ server'[x].queue = f[x].queue
             /\ \A p \in Queries :
                  p \in server'[x].queries <=> IF p = q THEN x = s ELSE p \in f[x].queries
    BY <1>5, <1>6, FiledFacts
  <2> QED
    BY <1>5, <2>1
<1>8. /\ heard' \in [Servers -> HeardStates]
      /\ \A x \in Servers :
           heard[x].udp \subseteq heard'[x].udp /\ heard'[x].tcp = heard[x].tcp
      /\ q \in heard'[s].udp
  BY <1>2 DEF SendUdp, HeardStates
<1>9. AresTypeOK'
  BY <1>2, <1>3, <1>4, <1>7, <1>8
     DEF AresTypeOK, ServerStates, HeardStates, QueryStates, conf, Attempts
<1>10. QueryInv(q)'
  <2>1. Waits(q)'
    <3>1. {x \in Servers : q \in server'[x].queries} = {s}
      BY <1>7
    <3> QED
      BY <1>3, <1>7, <1>8, <3>1 DEF Waits
  <2> QED
    BY <1>1, <1>3, <2>1, WaitingInv
<1> QED
  BY <1>3, <1>4, <1>7, <1>8, <1>9, <1>10, NoConnectionStep

(* The query could not be sent and is to move on.                          *)
LEMMA SendFailsStep ==
  ASSUME AresInv, NEW q \in Queries, NEW s \in Servers, s = query[q].server, Doing(<<"send", q>>),
         SendFails(q, s), UNCHANGED conf
  PROVE  AresInv'
<1> DEFINE u == <<"next", q>>
<1>1. Then(<<u>>) /\ UNCHANGED <<heard, due>>
  BY DEF SendFails
<1>2. /\ query[q].phase = "active" /\ query[q].try_count < Attempts
      /\ ~query[q].using_tcp => query[q].over = {}
      /\ InHand(q) \cap ToSet(todo') = {u} /\ \A x \in Servers : q \notin Moving(x)'
  BY <1>1, SendTask
<1>3. /\ AresTypeOK /\ query \in [Queries -> QueryStates] /\ server \in [Servers -> ServerStates]
      /\ heard \in [Servers -> HeardStates] /\ Attempts' = Attempts
  BY Records DEF AresInv, conf, Attempts
<1>4. /\ query' \in [Queries -> QueryStates]
      /\ \A p \in Queries :
           /\ query'[p].phase = query[p].phase /\ query'[p].server = query[p].server
           /\ query'[p].try_count = query[p].try_count /\ query'[p].over = query[p].over
           /\ query'[p].using_tcp = query[p].using_tcp
           /\ p # q => query'[p] = query[p]
  <2>1. Skipped(q, s) \in SUBSET Servers
    BY <1>3, SkippedFacts
  <2>2. query' = [query EXCEPT ![q].skip = Skipped(q, s)] /\ UNCHANGED program
    BY DEF SendFails, conf
  <2> QED
    BY <1>3, <2>1, <2>2, SkipFacts
<1>5. /\ server' \in [Servers -> ServerStates] /\ writing' = writing
      /\ handles' \subseteq Sockets /\ timer' \in BOOLEAN /\ (timer' <=> handles' # {})
      /\ \A x \in Servers :
           /\ server[x].udp => server'[x].udp
           /\ server'[x].tcp = server[x].tcp /\ server'[x].broken = server[x].broken
           /\ server'[x].queue = server[x].queue /\ server'[x].queries = server[x].queries
           /\ <<"udp", x>> \in handles' <=> server'[x].udp
           /\ <<"tcp", x>> \in handles' <=> <<"tcp", x>> \in handles
  <2>1. CASE UNCHANGED <<server, glue>>
    BY <1>3, <2>1 DEF glue, AresInv, AresTypeOK, ServerInv
  <2>2. CASE /\ server' = [server EXCEPT ![s].udp = TRUE]
             /\ IF server[s].udp THEN UNCHANGED <<handles, timer>> ELSE OpenHandle(<<"udp", s>>)
             /\ UNCHANGED writing
    <3>1. /\ server' \in [Servers -> ServerStates]
          /\ \A x \in Servers :
               /\ server'[x].udp = (server[x].udp \/ x = s) /\ server'[x].tcp = server[x].tcp
               /\ server'[x].broken = server[x].broken /\ server'[x].queries = server[x].queries
               /\ server'[x].queue = server[x].queue
      <4> DEFINE f == [server EXCEPT ![s].udp = TRUE]
      <4>1. server \in [Servers -> ServerStates] /\ server' = f
        BY <1>3, <2>2
      <4>2. /\ f \in [Servers -> ServerStates]
            /\ \A x \in Servers :
                 /\ f[x].udp = (server[x].udp \/ x = s) /\ f[x].tcp = server[x].tcp
                 /\ f[x].broken = server[x].broken /\ f[x].queries = server[x].queries
                 /\ f[x].queue = server[x].queue
        BY <4>1, SocketFacts, Zenon
      <4> HIDE DEF f
      <4> QED
        BY <4>1, <4>2
    <3>2. /\ handles' \subseteq Sockets /\ timer' \in BOOLEAN /\ (timer' <=> handles' # {})
          /\ \A x \in Servers :
               /\ <<"udp", x>> \in handles' <=> server[x].udp \/ x = s
               /\ <<"tcp", x>> \in handles' <=> <<"tcp", x>> \in handles
      BY <2>2, UdpOpened
    <3> QED
      BY <2>2, <3>1, <3>2
  <2> QED
    BY <2>1, <2>2 DEF SendFails
<1>6. AresTypeOK'
  BY <1>1, <1>3, <1>4, <1>5
     DEF AresTypeOK, ServerStates, HeardStates, QueryStates, conf, Attempts
<1>7. QueryInv(q)'
  <2>1. u \in {<<"send", q>>, <<"next", q>>, <<"end", q, "success">>} /\ u # <<"send", q>>
    OBVIOUS
  <2> HIDE DEF u
  <2> QED
    BY <1>2, <1>3, <1>4, <2>1, InHandInv
<1> QED
  BY <1>1, <1>4, <1>5, <1>6, <1>7, NoConnectionStep

(* A query is queued on the connection of its server, which is made if     *)
(* there is none; what was asked on an earlier connection is forgotten.    *)
LEMMA SendTcpStep ==
  ASSUME AresInv, NEW q \in Queries, NEW s \in Servers, s = query[q].server, Doing(<<"send", q>>),
         SendTcp(q, s), due' = due \ {q}, Then(<<>>), UNCHANGED conf
  PROVE  AresInv'
<1> DEFINE w == server[s].queue
           f == [server EXCEPT ![s].tcp = TRUE, ![s].queue = Append(@, q)]
           over(p) == IF p = q THEN query[p].over \cup {s}
                      ELSE IF server[s].tcp THEN query[p].over ELSE query[p].over \ {s}
<1>1. /\ query[q].phase = "active" /\ query[q].try_count < Attempts
      /\ query[q].using_tcp => s \notin query[q].over
      /\ InHand(q) \cap ToSet(todo') = {} /\ \A x \in Servers : q \notin Moving(x)'
      /\ Stacked(todo') /\ \A p \in Queries : p # q => Aside(p)
      /\ due' \subseteq due => (due' # {} => <<"timeouts">> \in ToSet(todo'))
      /\ \A p \in Queries : query'[p].phase = query[p].phase => (p \in AllQueries => p \in AllQueries')
  BY SendTask
<1>2. /\ AresTypeOK /\ query \in [Queries -> QueryStates] /\ server \in [Servers -> ServerStates]
      /\ heard \in [Servers -> HeardStates] /\ ServerInv(s)
  BY Records DEF AresInv
<1>3. query[q].using_tcp /\ UNCHANGED heard /\ Attempts' = Attempts
  BY DEF SendTcp, conf, Attempts
<1>4. /\ w \in Seq(Queries \cup {NoQuery}) /\ q \notin ToSet(w) /\ q \notin heard[s].tcp
      /\ \A i, j \in DOMAIN w : w[i] \in Queries /\ w[i] = w[j] => i = j
      /\ ~server[s].tcp => w = <<>> /\ heard[s].tcp = {}
  BY <1>1, <1>2, <1>3 DEF ServerInv, ServerStates
<1>5. /\ f \in [Servers -> ServerStates]
      /\ \A x \in Servers :
           /\ f[x].tcp = (server[x].tcp \/ x = s) /\ f[x].udp = server[x].udp
           /\ f[x].broken = server[x].broken /\ f[x].queries = server[x].queries
           /\ f[x].queue = IF x = s THEN Append(server[x].queue, q) ELSE server[x].queue
  <2> DEFINE r == Append(server[s].queue, q)
  <2>1. r \in Seq(Queries \cup {NoQuery})
    BY <1>2 DEF ServerStates
  <2> HIDE DEF r
  <2>2. ASSUME NEW x \in Servers
        PROVE  f[x] = IF x = s THEN [server[x] EXCEPT !.tcp = TRUE, !.queue = r] ELSE server[x]
    BY <1>2 DEF r, ServerStates
  <2>3. ASSUME NEW x \in Servers
        PROVE  /\ f[x] \in ServerStates
               /\ f[x].tcp = (server[x].tcp \/ x = s) /\ f[x].udp = server[x].udp
               /\ f[x].broken = server[x].broken /\ f[x].queries = server[x].queries
               /\ f[x].queue = IF x = s THEN r ELSE server[x].queue
    <3> DEFINE g == server[x]
    <3>1. g \in ServerStates
      BY <1>2
    <3>2. f[x] = IF x = s THEN [g EXCEPT !.tcp = TRUE, !.queue = r] ELSE g
      BY <2>2
    <3> HIDE DEF g
    <3>3. /\ f[x] \in ServerStates
          /\ f[x].tcp = (g.tcp \/ x = s) /\ f[x].udp = g.udp
          /\ f[x].broken = g.broken /\ f[x].queries = g.queries
          /\ f[x].queue = IF x = s THEN r ELSE g.queue
      <4>1. CASE x = s
        <5>1. f[x] = Opened(g, r)
          BY <3>2, <4>1 DEF Opened
        <5> HIDE DEF f
        <5>2. /\ f[x] \in ServerStates
              /\ f[x].tcp = TRUE /\ f[x].udp = g.udp /\ f[x].broken = g.broken
              /\ f[x].queries = g.queries /\ f[x].queue = r
          <6>1. g \in ServerStates /\ r \in Seq(Queries \cup {NoQuery})
            BY <2>1, <3>1
          <6>2. /\ Opened(g, r) \in ServerStates
                /\ Opened(g, r).tcp = TRUE /\ Opened(g, r).udp = g.udp
                /\ Opened(g, r).broken = g.broken /\ Opened(g, r).queries = g.queries
                /\ Opened(g, r).queue = r
            BY <6>1, QueuedRecord, Zenon
          <6> QED
            BY <5>1, <6>2, Zenon
        <5>4. (g.tcp \/ x = s) = TRUE
          BY <4>1
        <5>5. f[x].tcp = (g.tcp \/ x = s)
          BY <5>2, <5>4, Zenon
        <5> QED
          BY <4>1, <5>2, <5>5
      <4>2. CASE x # s
        <5>1. g.tcp \in BOOLEAN
          BY <3>1 DEF ServerStates
        <5>2. (g.tcp \/ x = s) = g.tcp
          BY <4>2, <5>1
        <5> QED
          BY <3>1, <3>2, <4>2, <5>2
      <4> QED
        BY <4>1, <4>2
    <3> QED
      BY <3>3 DEF g
  <2>4. f = [x \in Servers |-> f[x]]
    BY <1>2
  <2>5. f \in [Servers -> ServerStates]
    BY <2>3, <2>4
  <2> QED
    BY <2>3, <2>5 DEF r
<1>6. server' = Filed(q, s, f)
  BY DEF SendTcp
<1> HIDE DEF f
<1>7. /\ server' \in [Servers -> ServerStates]
      /\ \A x \in Servers :
           /\ server'[x].tcp = (server[x].tcp \/ x = s) /\ server'[x].udp = server[x].udp
           /\ server'[x].broken = server[x].broken
           /\ server'[x].queue = IF x = s THEN Append(w, q) ELSE server[x].queue
           /\ \A p \in Queries :
                p \in server'[x].queries <=> IF p = q THEN x = s ELSE p \in server[x].queries
  <2>1. /\ server' \in [Servers -> ServerStates]
        /\ \A x \in Servers :
             /\ server'[x].udp = f[x].udp /\ server'[x].tcp = f[x].tcp
             /\ server'[x].broken = f[x].broken /\ server'[x].queue = f[x].queue
             /\ \A p \in Queries :
                  p \in server'[x].queries <=> IF p = q THEN x = s ELSE p \in f[x].queries
    BY <1>5, <1>6, FiledFacts
  <2> QED
    BY <1>5, <2>1
<1> DEFINE v == Append(w, q)
<1> HIDE DEF w
<1>8. /\ ToSet(v) = ToSet(w) \cup {q} /\ v # <<>>
      /\ \A i, j \in DOMAIN v : v[i] \in Queries /\ v[i] = v[j] => i = j
  BY <1>4, Queued
<1>9. server'[s].queue = v /\ server'[s].tcp
  BY <1>7
<1> HIDE DEF v
<1>10. ASSUME NEW p \in Queries
       PROVE  /\ query'[p] \in QueryStates /\ query'[p].phase = query[p].phase
              /\ query'[p].server = query[p].server /\ query'[p].try_count = query[p].try_count
              /\ query'[p].using_tcp = query[p].using_tcp
              /\ query'[p].over = over(p)
              /\ over(p) = query[p].over => query'[p] = query[p]
  <2> DEFINE o == over(p)
  <2>1. o \in SUBSET Servers
    BY <1>2 DEF QueryStates
  <2>2. query'[p] = [query[p] EXCEPT !.over = o]
    BY DEF SendTcp
  <2> HIDE DEF o
  <2>3. /\ query'[p] \in QueryStates /\ query'[p].phase = query[p].phase
        /\ query'[p].server = query[p].server /\ query'[p].try_count = query[p].try_count
        /\ query'[p].using_tcp = query[p].using_tcp /\ query'[p].over = o
        /\ o = query[p].over => query'[p] = query[p]
    BY <1>2, <2>1, <2>2 DEF QueryStates
  <2> QED
    BY <2>3 DEF o
<1>11. query' \in [Queries -> QueryStates]
  <2>1. query' = [p \in Queries |-> query'[p]]
    BY DEF SendTcp
  <2> QED
    BY <1>10, <2>1
<1>12. /\ handles' \subseteq Sockets /\ timer' \in BOOLEAN /\ (timer' <=> handles' # {})
       /\ \A x \in Servers :
            /\ <<"udp", x>> \in handles' <=> <<"udp", x>> \in handles
            /\ <<"tcp", x>> \in handles' <=> <<"tcp", x>> \in handles \/ x = s
  <2> DEFINE h == <<"tcp", s>>
  <2>1. /\ h \in Sockets /\ \A x : <<"udp", x>> # h
        /\ \A x : <<"tcp", x>> = h <=> x = s
    BY DEF Sockets
  <2>2. handles \subseteq Sockets /\ (timer <=> handles # {}) /\ (server[s].tcp <=> h \in handles)
    BY <1>2 DEF AresInv, AresTypeOK, ServerInv
  <2> HIDE DEF h
  <2>3. IF server[s].tcp THEN UNCHANGED <<handles, timer>> ELSE OpenHandle(h)
    BY DEF SendTcp, h
  <2>4. handles' = handles \cup {h} /\ (timer' <=> handles' # {}) /\ timer' \in BOOLEAN
    BY <2>2, <2>3, OpenedFacts
  <2> QED
    BY <2>1, <2>2, <2>4
<1>13. writing' = IF w = <<>> THEN writing \cup {s} ELSE writing
  BY DEF SendTcp, w
<1>14. AresTypeOK'
  <2>1. writing' \subseteq Servers /\ due' \subseteq Queries
    BY <1>2, <1>13 DEF AresTypeOK
  <2> QED
    BY <1>2, <1>3, <1>7, <1>11, <1>12, <2>1
       DEF AresTypeOK, ServerStates, HeardStates, QueryStates, conf, Attempts
<1>15. QueryInv(q)'
  <2>1. Waits(q)'
    <3>1. {x \in Servers : q \in server'[x].queries} = {s}
      BY <1>7
    <3>2. query'[q].server = s /\ s \in query'[q].over /\ q \in ToSet(server'[s].queue)
      BY <1>8, <1>9, <1>10
    <3> QED
      BY <1>9, <3>1, <3>2, <1>10, <1>3 DEF Waits
  <2>2. /\ query'[q].phase = "active" /\ query'[q].try_count < Attempts' /\ query'[q].using_tcp
    BY <1>1, <1>3, <1>10
  <2> QED
    BY <1>1, <2>1, <2>2, WaitingInv
<1>16. ASSUME NEW p \in Queries, p # q PROVE QueryInv(p)'
  <2>1. QueryInv(p)
    BY DEF AresInv
  <2>2. /\ query'[p].over \subseteq query[p].over
        /\ \A x \in Servers : server[x].tcp /\ x \in query[p].over => x \in query'[p].over
        /\ query[p].phase = "idle" => query'[p] = query[p]
    <3>1. over(p) = query[p].over \/ (~server[s].tcp /\ over(p) = query[p].over \ {s})
      BY <1>16
    <3>2. query[p].phase = "idle" => query[p].over = {}
      BY <2>1 DEF QueryInv, NewQuery
    <3> QED
      BY <1>10, <3>1, <3>2
  <2>3. \A x \in Servers :
          /\ server[x].udp => server'[x].udp
          /\ server[x].tcp => server'[x].tcp
          /\ p \in server'[x].queries <=> p \in server[x].queries
          /\ heard[x].udp \subseteq heard'[x].udp
          /\ heard[x].tcp \cup ToSet(server[x].queue)
             \subseteq heard'[x].tcp \cup ToSet(server'[x].queue)
    <3>1. ToSet(server[s].queue) \subseteq ToSet(server'[s].queue)
      BY <1>8, <1>9 DEF w
    <3>2. \A x \in Servers : ToSet(server[x].queue) \subseteq ToSet(server'[x].queue)
      BY <1>7, <3>1
    <3> QED
      BY <1>3, <1>7, <1>16, <3>2
  <2>4. Aside(p) /\ due' \subseteq due
    BY <1>1, <1>16
  <2> QED
    BY <1>3, <1>10, <1>16, <2>2, <2>3, <2>4, SendKeepsOthers
<1>17. \A p \in Queries : query'[p].phase = query[p].phase /\ (p \in AllQueries => p \in AllQueries')
  BY <1>1, <1>10
<1>18. ASSUME NEW x \in Servers PROVE server'[x].queries \subseteq AllQueries'
  <2>1. server[x].queries \subseteq AllQueries
    BY DEF AresInv, ServerInv
  <2>2. server'[x].queries \subseteq Queries
    BY <1>7 DEF ServerStates
  <2>3. q \in AllQueries'
    BY <1>1, <1>17 DEF AllQueries, Active
  <2>4. ASSUME NEW p \in server'[x].queries PROVE p \in AllQueries'
    <3>1. p \in Queries
      BY <2>2
    <3> QED
      BY <1>7, <1>17, <2>1, <2>3, <3>1
  <2> QED
    BY <2>4
<1>19. ASSUME NEW x \in Servers, x # s PROVE ServerInv(x)'
  <2>1. ServerInv(x)
    BY DEF AresInv
  <2>2. server'[x].queries \subseteq Queries
    BY <1>7 DEF ServerStates
  <2>3. ASSUME NEW p \in Queries, x \in query[p].over PROVE x \in query'[p].over
    BY <1>10, <1>19, <2>3
  <2>4. /\ <<"udp", x>> \in handles' <=> server'[x].udp
        /\ <<"tcp", x>> \in handles' <=> <<"tcp", x>> \in handles
        /\ x \in writing' <=> x \in writing
    BY <1>7, <1>12, <1>13, <1>19, <2>1 DEF ServerInv
  <2>5. /\ server'[x].queue = server[x].queue /\ server'[x].broken = server[x].broken
        /\ server'[x].tcp = server[x].tcp /\ heard'[x].tcp = heard[x].tcp
        /\ server'[x].queries \subseteq server[x].queries \cup AllQueries'
    <3>1. server'[x].queue = server[x].queue /\ server'[x].tcp = server[x].tcp
      <4>1. server'[x].tcp = (server[x].tcp \/ FALSE)
        BY <1>7, <1>19
      <4>2. server[x].tcp \in BOOLEAN
        BY <1>2 DEF ServerStates
      <4>3. server'[x].queue = server[x].queue
        BY <1>7, <1>19
      <4> QED
        BY <4>1, <4>2, <4>3
    <3> QED
      BY <1>3, <1>7, <1>18, <1>19, <3>1
  <2> QED
    BY <1>17, <2>1, <2>2, <2>3, <2>4, <2>5, ConnectionKept
<1>20. ServerInv(s)'
  <2>1. ASSUME NEW p \in Queries
        PROVE  /\ p \in ToSet(v) => query'[p].phase = "active" /\ p \notin heard'[s].tcp
               /\ p \in heard'[s].tcp => query'[p].phase # "idle"
               /\ query'[p].phase = "active" /\ p \in heard'[s].tcp \cup ToSet(v)
                    => s \in query'[p].over
    <3>1. /\ p \in ToSet(w) => query[p].phase = "active" /\ p \notin heard[s].tcp
          /\ p \in heard[s].tcp => query[p].phase # "idle"
          /\ query[p].phase = "active" /\ p \in heard[s].tcp \cup ToSet(w) => s \in query[p].over
      BY <1>2 DEF ServerInv, w
    <3>2. ~server[s].tcp => p \notin heard[s].tcp \cup ToSet(w)
      BY <1>4 DEF ToSet
    <3>3. CASE p = q
      BY <1>1, <1>3, <1>4, <1>10, <3>3
    <3>4. CASE p # q
      <4>1. p \in ToSet(v) <=> p \in ToSet(w)
        BY <1>8, <3>4
      <4>2. server[s].tcp => query'[p].over = query[p].over
        BY <1>10, <3>4
      <4> QED
        BY <1>3, <1>10, <3>1, <3>2, <4>1, <4>2
    <3> QED
      BY <3>3, <3>4
  <2>2. /\ <<"udp", s>> \in handles' <=> server'[s].udp
        /\ <<"tcp", s>> \in handles' <=> server'[s].tcp
        /\ s \in writing' <=> v # <<>>
    BY <1>2, <1>7, <1>8, <1>12, <1>13 DEF ServerInv, w
  <2> QED
    BY <1>8, <1>9, <1>18, <2>1, <2>2 DEF ServerInv
<1> QED
  BY <1>1, <1>12, <1>14, <1>15, <1>16, <1>19, <1>20 DEF AresInv

(* Sending a query keeps the invariant.                                    *)
LEMMA SendStep ==
  ASSUME AresInv, NEW q \in Queries, ares__send_query(q)
  PROVE  AresInv'
<1> DEFINE s == query[q].server
<1>1. Doing(<<"send", q>>) /\ UNCHANGED conf
  BY DEF ares__send_query
<1>2. s \in Servers
  BY Records DEF AresInv, QueryStates
<1>3. \/ /\ SendTcp(q, s) \/ SendUdp(q, s)
         /\ due' = due \ {q} /\ Then(<<>>)
      \/ SendFails(q, s)
  BY DEF ares__send_query
<1> QED
  BY <1>1, <1>2, <1>3, SendTcpStep, SendUdpStep, SendFailsStep
-----------------------------------------------------------------------------
(* The invariant and what follows from it.                                 *)

(* Every step of the channel keeps the invariant.                          *)
LEMMA AresStep ==
  ASSUME AresInv, [AresNext]_ares_vars
  PROVE  AresInv'
<1>1. CASE UNCHANGED ares_vars
  <2>1. UNCHANGED <<query, server, heard, handles, writing, timer, due, last_server, channel, program, todo>>
    BY <1>1 DEF ares_vars, glue, conf
  <2>2. Attempts' = Attempts /\ AllQueries' = AllQueries /\ Active' = Active
    BY <2>1 DEF Attempts, AllQueries, Active
  <2>3. AresTypeOK'
    BY <2>1, <2>2 DEF AresInv, AresTypeOK
  <2>4. ASSUME NEW q \in Queries PROVE QueryInv(q)'
    <3>1. QueryInv(q) /\ Aside(q) /\ (Waits(q) => Waits(q)')
      BY <2>1 DEF AresInv, Aside, Moving, Waits
    <3> QED
      BY <2>1, <2>2, <3>1, QueryKept
  <2>5. ASSUME NEW s \in Servers PROVE ServerInv(s)'
    <3>1. ServerInv(s)
      BY DEF AresInv
    <3> QED
      BY <2>1, <2>2, <3>1 DEF ServerInv
  <2>6. Stacked(todo') /\ (timer' <=> handles' # {}) /\ (due' # {} => <<"timeouts">> \in ToSet(todo'))
    BY <2>1 DEF AresInv
  <2> QED
    BY <2>3, <2>4, <2>5, <2>6 DEF AresInv
<1>2. CASE Run
  <2>1. ASSUME NEW q \in Queries, ares__send_query(q) \/ next_server(q) \/ Freed(q) PROVE AresInv'
    BY <2>1, SendStep, NextStep, FreedStep
  <2>2. ASSUME NEW q \in Queries, NEW status \in {"success", "failed"}, end_query(q, status)
        PROVE  AresInv'
    BY <2>2, EndStep
  <2>3. ASSUME NEW s \in Servers, handle_error(s) \/ process_broken_connections(s) PROVE AresInv'
    BY <2>3, ErrorStep, BrokenStep
  <2>4. ASSUME NEW s \in Servers, NEW Q \in SUBSET Queries, read_udp_packets(s, Q) \/ MoveOn(s, Q)
        PROVE  AresInv'
    BY <2>4, RecvStep, MoveStep
  <2>5. ASSUME NEW s \in Servers, NEW q \in Queries, NEW answer \in {"ok", "refused", "truncated"},
               NEW tcp \in BOOLEAN, process_answer(s, q, answer, tcp)
        PROVE  AresInv'
    BY <2>5, AnswerStep
  <2>6. CASE process_timeouts
    BY <2>6, TimeoutsStep
  <2> QED
    BY <1>2, <2>1, <2>2, <2>3, <2>4, <2>5, <2>6 DEF Run
<1>3. CASE Tick
  BY <1>3, ReadableStep
<1>4. CASE ares_cancel \/ uv_ares_destroy
  BY <1>4, GiveUpStep DEF ares_cancel, uv_ares_destroy
<1>5. ASSUME NEW q \in Queries, ares_send(q) PROVE AresInv'
  BY <1>5, AskStep
<1>6. ASSUME NEW s \in Servers, TcpWritable(s) \/ TcpReadable(s) \/ UdpReadable(s) PROVE AresInv'
  BY <1>6, WritableStep, ReadableStep
<1> QED
  BY <1>1, <1>2, <1>3, <1>4, <1>5, <1>6 DEF AresNext

(* A channel starts with no query, no socket and nothing to do.            *)
LEMMA AresStarts ==
  ASSUME AresInit
  PROVE  AresInv
<1>1. 0 \in Servers
  BY AresAssumption DEF Servers
<1>2. program \in Programs /\ Attempts \in Nat /\ Attempts > 0
  BY AttemptsFacts DEF AresInit
<1>3. NewQuery \in QueryStates
  BY <1>1, <1>2 DEF NewQuery, QueryStates
<1>4. query = [q \in Queries |-> NewQuery] /\ todo = <<>> /\ due = {} /\ ToSet(todo) = {}
  BY NothingToDo DEF AresInit
<1>5. ASSUME NEW s \in Servers
      PROVE  /\ server[s] \in ServerStates /\ server[s].queue = <<>> /\ server[s].queries = {}
             /\ server[s].broken = FALSE /\ server[s].tcp = FALSE /\ server[s].udp = FALSE
             /\ heard[s] \in HeardStates /\ heard[s].tcp = {}
  <2>1. <<>> \in Seq(Queries \cup {NoQuery})
    BY EmptySeq
  <2> QED
    BY <2>1 DEF AresInit, ServerStates, HeardStates
<1>6. AresTypeOK
  <2>1. query \in [Queries -> QueryStates]
    BY <1>3, <1>4
  <2>2. server \in [Servers -> ServerStates] /\ heard \in [Servers -> HeardStates]
    BY <1>5 DEF AresInit
  <2> QED
    BY <1>1, <1>2, <2>1, <2>2 DEF AresInit, AresTypeOK, QueryStates, ServerStates, HeardStates
<1>7. Stacked(todo)
  <2>1. todo \in Seq(Tasks) /\ DOMAIN todo = {}
    BY <1>4, EmptySeq
  <2> QED
    BY <2>1 DEF Stacked
<1>8. ASSUME NEW q \in Queries PROVE QueryInv(q)
  <2>1. query[q] = NewQuery /\ query[q].phase = "idle" /\ query[q].over = {}
    BY <1>4 DEF NewQuery
  <2>2. \A s \in Servers : q \notin Moving(s)
    BY <1>4 DEF Moving
  <2> QED
    BY <1>4, <2>1, <2>2 DEF QueryInv
<1>9. ASSUME NEW s \in Servers PROVE ServerInv(s)
  <2>1. handles = {} /\ writing = {} /\ ToSet(server[s].queue) = {}
    BY <1>5 DEF AresInit, ToSet
  <2>2. DOMAIN server[s].queue = {} /\ server[s].queries \subseteq AllQueries
    <3>1. server[s].queue = todo
      BY <1>4, <1>5
    <3>2. DOMAIN todo = {}
      BY <1>4, EmptySeq
    <3> QED
      BY <1>5, <3>1, <3>2
  <2>3. <<"udp", s>> \notin handles /\ <<"tcp", s>> \notin handles /\ s \notin writing
    BY <2>1
  <2> QED
    BY <1>5, <2>1, <2>2, <2>3 DEF ServerInv
<1>10. timer <=> handles # {}
  BY DEF AresInit
<1> QED
  BY <1>4, <1>6, <1>7, <1>8, <1>9, <1>10 DEF AresInv

(* The invariant holds of every run of a channel.                          *)
LEMMA AresInvariant == AresSpec => []AresInv
<1>1. AresInit => AresInv
  BY AresStarts
<1>2. AresInv /\ [AresNext]_ares_vars => AresInv'
  BY AresStep
<1> QED
  BY <1>1, <1>2, PTL DEF AresSpec

(* Every query is filed where an error or an answer of its server finds it, no        *)
(* query is put twice on one connection or leaves anything behind, and sockets,       *)
(* watchers and timer agree (ares_process.c, ares_send.c, cares.c).                   *)
THEOREM QueriesAreFiled == AresSpec => []QueriesFiled
<1>1. ASSUME AresInv PROVE QueriesFiled
  <2>1. AresTypeOK /\ handles \subseteq Sockets /\ writing \subseteq Servers /\ due \subseteq Queries
        /\ server \in [Servers -> ServerStates]
    BY <1>1, Records DEF AresInv, AresTypeOK
  <2>2. \A q \in Active : q \notin Running \cup UNION {Moving(s) : s \in Servers} => Waits(q)
    <3>1. ASSUME NEW q \in Active, q \notin Running \cup UNION {Moving(s) : s \in Servers}
          PROVE  Waits(q)
      <4>1. q \in Queries /\ query[q].phase = "active" /\ QueryInv(q)
        BY <1>1 DEF Active, AresInv
      <4>2. q \notin Running /\ \A s \in Servers : q \notin Moving(s)
        BY <3>1
      <4> HIDE DEF Waits
      <4> QED
        BY <4>1, <4>2 DEF QueryInv
    <3> QED
      BY <3>1
  <2>3. ASSUME NEW s \in Servers
        PROVE  /\ \A q \in Moving(s) : query[q].server = s /\ q \in Active
               /\ server[s].queries \cup {q \in Queries : q \in ToSet(server[s].queue)} \subseteq AllQueries
               /\ \A i, j \in DOMAIN server[s].queue :
                    server[s].queue[i] \in Queries /\ server[s].queue[i] = server[s].queue[j] => i = j
               /\ ToSet(server[s].queue) \cap heard[s].tcp = {}
               /\ server[s].broken \/ server[s].queue # <<>> => server[s].tcp
    <3>1. ServerInv(s)
      BY <1>1 DEF AresInv
    <3>2. \A q \in Moving(s) : query[q].server = s /\ q \in Active
      BY <1>1 DEF AresInv, QueryInv, Moving, Active
    <3>3. server[s].queries \cup {q \in Queries : q \in ToSet(server[s].queue)} \subseteq AllQueries
      BY <3>1 DEF ServerInv, AllQueries, Active
    <3>4. ToSet(server[s].queue) \cap heard[s].tcp = {}
      <4>1. heard[s].tcp \subseteq Queries
        BY <1>1, Records DEF AresInv, HeardStates
      <4> QED
        BY <3>1, <4>1 DEF ServerInv
    <3> QED
      BY <3>1, <3>2, <3>3, <3>4 DEF ServerInv
  <2>4. due \subseteq AllQueries
    BY <1>1, <2>1 DEF AresInv, QueryInv
  <2>5. handles = {h \in Sockets : server[h[2]][h[1]]}
    <3>1. ASSUME NEW h \in Sockets PROVE h \in handles <=> server[h[2]][h[1]]
      <4>1. PICK s \in Servers : h = <<"udp", s>> \/ h = <<"tcp", s>>
        BY DEF Sockets
      <4>2. ServerInv(s)
        BY <1>1 DEF AresInv
      <4> QED
        BY <4>1, <4>2 DEF ServerInv
    <3> QED
      BY <2>1, <3>1
  <2>6. writing = {s \in Servers : server[s].queue # <<>>}
    BY <1>1, <2>1 DEF AresInv, ServerInv
  <2>7. timer <=> handles # {}
    BY <1>1 DEF AresInv
  <2> QED
    BY <2>1, <2>2, <2>3, <2>4, <2>5, <2>6, <2>7 DEF QueriesFiled
<1> QED
  BY <1>1, AresInvariant, PTL
-----------------------------------------------------------------------------
(* The channel keeps its contract.                                         *)

(* What the contract sees of the queries.                                  *)
Phases == [p \in Queries |-> query[p].phase]
Tried == [p \in Queries |-> query[p].try_count]

(* A step that leaves the phases and the attempts is none of the contract. *)
LEMMA Unseen ==
  ASSUME UNCHANGED <<channel, program>>,
         \A p \in Queries : query'[p].phase = query[p].phase /\ query'[p].try_count = query[p].try_count
  PROVE  UNCHANGED Promise!vars
<1>1. Phases' = Phases /\ Tried' = Tried /\ Attempts' = Attempts
  BY DEF Phases, Tried, Attempts
<1> QED
  BY <1>1 DEF Promise!vars, Phases, Tried

(* A query that is asked.                                                  *)
LEMMA RefinesAsk ==
  ASSUME AresInv, NEW q \in Queries, ares_send(q)
  PROVE  Promise!Ask(q)
<1>1. query \in [Queries -> QueryStates] /\ query[q].phase = "idle"
  BY Records, AskedOnce DEF AresInv
<1>2. channel = "open" /\ UNCHANGED <<channel, program>> /\ Attempts' = Attempts
  BY DEF ares_send, Attempts
<1>3. PICK tcp \in program.tcp :
        query' = [query EXCEPT ![q].phase = "active", ![q].server = last_server, ![q].using_tcp = tcp]
  BY DEF ares_send
<1>4. ASSUME NEW p \in Queries
      PROVE  /\ query'[p].phase = IF p = q THEN "active" ELSE query[p].phase
             /\ query'[p].try_count = query[p].try_count
  BY <1>1, <1>3 DEF QueryStates
<1>5. Phases' = [Phases EXCEPT ![q] = "active"] /\ Tried' = Tried /\ Phases[q] = "idle"
  BY <1>1, <1>4 DEF Phases, Tried
<1> QED
  BY <1>2, <1>5 DEF Promise!Ask, Phases, Tried

(* A query that moves on.                                                  *)
LEMMA RefinesTryNext ==
  ASSUME AresInv, NEW q \in Queries, next_server(q)
  PROVE  Promise!TryNext(q)
<1>1. query \in [Queries -> QueryStates]
  BY Records DEF AresInv
<1>2. query[q].phase = "active"
  <2> DEFINE t == <<"next", q>>
  <2>1. t \in InHand(q) /\ t # <<"callback", q>> /\ Doing(t)
    BY DEF next_server, InHand
  <2> HIDE DEF t
  <2> QED
    BY <2>1, HeadInHand
<1>3. UNCHANGED <<channel, program>> /\ Attempts' = Attempts
  BY DEF next_server, conf, Attempts
<1>4. PICK n \in (query[q].try_count + 1) .. Attempts, s \in Servers :
        query' = [query EXCEPT ![q].server = s, ![q].try_count = n]
  BY MovesOn
<1>5. ASSUME NEW p \in Queries
      PROVE  /\ query'[p].try_count = IF p = q THEN n ELSE query[p].try_count
             /\ query'[p].phase = query[p].phase
  BY <1>1, <1>4 DEF QueryStates
<1>6. /\ Phases' = Phases /\ Tried' = [Tried EXCEPT ![q] = n] /\ Phases[q] = "active"
      /\ n \in (Tried[q] + 1) .. Attempts
  BY <1>2, <1>4, <1>5 DEF Phases, Tried
<1> QED
  BY <1>3, <1>6 DEF Promise!TryNext, Phases, Tried

(* A query that is over.                                                   *)
LEMMA RefinesAnswer ==
  ASSUME AresInv, NEW q \in Queries, NEW status \in {"success", "failed"}, end_query(q, status)
  PROVE  Promise!Answer(q, status)
<1>1. query \in [Queries -> QueryStates]
  BY Records DEF AresInv
<1>2. /\ query[q].phase = "active"
      /\ status = "failed" => query[q].try_count = Attempts
      /\ status = "success" => query[q].try_count < Attempts
  <2> DEFINE t == <<"end", q, status>>
  <2>1. /\ t \in InHand(q) /\ t # <<"callback", q>> /\ Doing(t)
        /\ status = "failed" <=> t = <<"end", q, "failed">>
        /\ status = "success" => t # <<"end", q, "failed">>
    BY DEF end_query, InHand
  <2> HIDE DEF t
  <2> QED
    BY <2>1, HeadInHand
<1>3. UNCHANGED <<channel, program>> /\ Attempts' = Attempts
  BY DEF end_query, conf, Attempts
<1>4. query' = [query EXCEPT ![q] = Over(q, status)]
  BY DEF end_query
<1>5. Over(q, status).phase = status /\ Over(q, status).try_count = query[q].try_count
  BY DEF Over, NewQuery
<1>6. ASSUME NEW p \in Queries
      PROVE  /\ query'[p].phase = IF p = q THEN status ELSE query[p].phase
             /\ query'[p].try_count = query[p].try_count
  BY <1>1, <1>4, <1>5
<1>7. /\ Phases' = [Phases EXCEPT ![q] = status] /\ Tried' = Tried /\ Phases[q] = "active"
      /\ Tried[q] = query[q].try_count
  BY <1>2, <1>6 DEF Phases, Tried
<1> QED
  BY <1>2, <1>3, <1>7 DEF Promise!Answer, Phases, Tried

(* Queries that are cancelled.                                             *)
LEMMA RefinesCancel ==
  ASSUME AresInv, GiveUp, channel' \in {channel, "destroyed"}
  PROVE  Promise!Cancel
<1> DEFINE asked == [q \in Queries |-> IF q \in Active THEN Over(q, "cancelled") ELSE query[q]]
<1>1. Attempts' = Attempts
  BY DEF GiveUp, Attempts
<1>2. query' = [q \in Queries |-> [asked[q] EXCEPT !.over = @ \ Servers]]
  BY DEF GiveUp, CloseSockets
<1>3. ASSUME NEW p \in Queries
      PROVE  /\ asked[p].phase = IF query[p].phase = "active" THEN "cancelled" ELSE query[p].phase
             /\ asked[p].try_count = query[p].try_count
             /\ asked[p] \in QueryStates
  <2>1. query[p] \in QueryStates /\ 0 \in Servers
    BY Records, AresAssumption DEF AresInv, Servers
  <2>2. /\ Over(p, "cancelled").phase = "cancelled" /\ Over(p, "cancelled").try_count = query[p].try_count
        /\ Over(p, "cancelled") \in QueryStates
    BY <2>1 DEF Over, NewQuery, QueryStates
  <2> QED
    BY <2>1, <2>2 DEF Active
<1> HIDE DEF asked
<1>4. ASSUME NEW p \in Queries
      PROVE  query'[p].phase = asked[p].phase /\ query'[p].try_count = asked[p].try_count
  BY <1>2, <1>3 DEF QueryStates
<1>5. /\ Tried' = Tried
      /\ Phases' = [q \in Queries |-> IF Phases[q] = "active" THEN "cancelled" ELSE Phases[q]]
  BY <1>3, <1>4 DEF Phases, Tried
<1> QED
  BY <1>1, <1>5 DEF Promise!Cancel, Phases, Tried

(* Closing sockets is none of the contract.                                *)
LEMMA ClosingUnseen ==
  ASSUME AresInv, NEW S, NEW left, CloseSockets(S, query, left), UNCHANGED conf
  PROVE  UNCHANGED Promise!vars
<1>1. query \in [Queries -> QueryStates]
  BY Records DEF AresInv
<1>2. query' = [q \in Queries |-> [query[q] EXCEPT !.over = @ \ S]]
  BY DEF CloseSockets
<1>3. ASSUME NEW p \in Queries
      PROVE  query'[p].phase = query[p].phase /\ query'[p].try_count = query[p].try_count
  BY <1>1, <1>2 DEF QueryStates
<1> QED
  BY <1>3, Unseen DEF conf

(* Sending a query is none of the contract.                                *)
LEMMA SendingUnseen ==
  ASSUME AresInv, NEW q \in Queries, ares__send_query(q)
  PROVE  UNCHANGED Promise!vars
<1> DEFINE s == query[q].server
<1>1. query \in [Queries -> QueryStates] /\ UNCHANGED conf
  BY Records DEF AresInv, ares__send_query
<1>2. \/ SendTcp(q, s)
      \/ UNCHANGED query
      \/ query' = [query EXCEPT ![q].skip = Skipped(q, s)]
  BY DEF ares__send_query, SendUdp, SendFails
<1> HIDE DEF s
<1>3. ASSUME NEW p \in Queries
      PROVE  query'[p].phase = query[p].phase /\ query'[p].try_count = query[p].try_count
  <2>1. CASE SendTcp(q, s)
    BY <1>1, <2>1 DEF SendTcp, QueryStates
  <2>2. CASE UNCHANGED query
    BY <2>2
  <2>3. CASE query' = [query EXCEPT ![q].skip = Skipped(q, s)]
    BY <1>1, <2>3 DEF QueryStates
  <2> QED
    BY <1>2, <2>1, <2>2, <2>3
<1> QED
  BY <1>1, <1>3, Unseen DEF conf

(* Each step of the channel is one of the contract or none.                *)
LEMMA StepRefines ==
  ASSUME AresInv, [AresNext]_ares_vars
  PROVE  [Promise!Next]_(Promise!vars)
<1>1. query \in [Queries -> QueryStates]
  BY Records DEF AresInv
<1>2. ASSUME UNCHANGED <<query, conf>> PROVE UNCHANGED Promise!vars
  BY <1>2, Unseen DEF conf
<1>3. ASSUME NEW q \in Queries, NEW S, query' = [query EXCEPT ![q].skip = S], UNCHANGED conf
      PROVE  UNCHANGED Promise!vars
  <2>1. \A p \in Queries : query'[p].phase = query[p].phase /\ query'[p].try_count = query[p].try_count
    BY <1>1, <1>3 DEF QueryStates
  <2> QED
    BY <1>3, <2>1, Unseen DEF conf
<1>4. CASE UNCHANGED ares_vars
  BY <1>2, <1>4 DEF ares_vars
<1>5. CASE Run
  <2>1. ASSUME NEW q \in Queries, ares__send_query(q) PROVE UNCHANGED Promise!vars
    BY <2>1, SendingUnseen
  <2>2. ASSUME NEW q \in Queries, next_server(q) PROVE Promise!Next
    BY <2>2, RefinesTryNext DEF Promise!Next
  <2>3. ASSUME NEW q \in Queries, Freed(q) PROVE UNCHANGED Promise!vars
    <3> DEFINE left == [s \in Servers |-> [server[s] EXCEPT !.queries = @ \ {q}]]
               S == IF AllQueries = {q} THEN Servers ELSE {}
    <3>1. CloseSockets(S, query, left) /\ UNCHANGED conf
      BY <2>3 DEF Freed
    <3> HIDE DEF S, left
    <3> QED
      BY <3>1, ClosingUnseen
  <2>4. ASSUME NEW q \in Queries, NEW status \in {"success", "failed"}, end_query(q, status)
        PROVE  Promise!Next
    BY <2>4, RefinesAnswer DEF Promise!Next
  <2>5. ASSUME NEW s \in Servers, handle_error(s) PROVE UNCHANGED Promise!vars
    <3> DEFINE left == [server EXCEPT ![s].queries = {}]
               S == {s}
    <3>1. CloseSockets(S, query, left) /\ UNCHANGED conf
      BY <2>5 DEF handle_error
    <3> HIDE DEF S, left
    <3> QED
      BY <3>1, ClosingUnseen
  <2>6. ASSUME NEW s \in Servers, NEW Q \in SUBSET Queries,
               process_broken_connections(s) \/ read_udp_packets(s, Q)
        PROVE  UNCHANGED Promise!vars
    BY <1>2, <2>6 DEF process_broken_connections, read_udp_packets
  <2>7. ASSUME NEW s \in Servers, NEW Q \in SUBSET Queries, MoveOn(s, Q) PROVE UNCHANGED Promise!vars
    BY <1>2, <1>3, <2>7 DEF MoveOn
  <2>8. ASSUME NEW s \in Servers, NEW q \in Queries, NEW answer, NEW tcp, process_answer(s, q, answer, tcp)
        PROVE  UNCHANGED Promise!vars
    <3>1. CASE UNCHANGED query
      BY <1>2, <2>8, <3>1 DEF process_answer
    <3>2. CASE query' = [query EXCEPT ![q].using_tcp = TRUE]
      <4>1. \A p \in Queries : query'[p].phase = query[p].phase /\ query'[p].try_count = query[p].try_count
        BY <1>1, <3>2 DEF QueryStates
      <4> QED
        BY <2>8, <4>1, Unseen DEF process_answer, conf
    <3>3. CASE query' = [query EXCEPT ![q].skip = Skipped(q, s)]
      BY <1>3, <2>8, <3>3 DEF process_answer
    <3> QED
      BY <2>8, <3>1, <3>2, <3>3 DEF process_answer
  <2>9. CASE process_timeouts
    BY <1>2, <2>9 DEF process_timeouts
  <2> QED
    BY <1>5, <2>1, <2>2, <2>3, <2>4, <2>5, <2>6, <2>7, <2>8, <2>9 DEF Run
<1>6. ASSUME NEW work, Processfds(work) PROVE UNCHANGED Promise!vars
  BY <1>2, <1>6 DEF Processfds
<1>7. CASE Tick
  BY <1>6, <1>7 DEF Tick
<1>8. CASE ares_cancel \/ uv_ares_destroy
  BY <1>8, RefinesCancel DEF ares_cancel, uv_ares_destroy, Promise!Next
<1>9. ASSUME NEW q \in Queries, ares_send(q) PROVE Promise!Next
  BY <1>9, RefinesAsk DEF Promise!Next
<1>10. ASSUME NEW s \in Servers, TcpWritable(s) PROVE UNCHANGED Promise!vars
  BY <1>6, <1>10 DEF TcpWritable
<1>11. ASSUME NEW s \in Servers, TcpReadable(s) PROVE UNCHANGED Promise!vars
  BY <1>6, <1>11 DEF TcpReadable
<1>12. ASSUME NEW s \in Servers, UdpReadable(s) PROVE UNCHANGED Promise!vars
  BY <1>6, <1>12 DEF UdpReadable
<1> QED
  BY <1>4, <1>5, <1>7, <1>8, <1>9, <1>10, <1>11, <1>12 DEF AresNext

(* A query is answered once, fails only when all its attempts were made, and is not    *)
(* answered after it was cancelled (AresContract; end_query, next_server, ares_cancel). *)
THEOREM ChannelKeepsContract == AresSpec => KeepsPromise
<1>1. AresInit => Promise!Init
  <2>1. ASSUME AresInit PROVE Promise!Init
    <3>1. Attempts \in Nat /\ query = [q \in Queries |-> NewQuery] /\ channel = "open"
      BY <2>1, AttemptsFacts DEF AresInit
    <3>2. \A q \in Queries : query[q].phase = "idle" /\ query[q].try_count = 0
      BY <3>1 DEF NewQuery
    <3> QED
      BY <3>1, <3>2 DEF Promise!Init
  <2> QED
    BY <2>1
<1>2. AresInv /\ [AresNext]_ares_vars => [Promise!Next]_(Promise!vars)
  BY StepRefines
<1> QED
  BY <1>1, <1>2, AresInvariant, PTL DEF AresSpec, KeepsPromise, Promise!Spec
=============================================================================
