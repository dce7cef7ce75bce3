---------------------------- MODULE WorkContract ----------------------------
(***************************************************************************)
(* What uv_queue_work promises a program, whatever the threads do: work is *)
(* begun in the order it was queued, by Limit threads at the most, and its *)
(* after_work_cb runs once, inside uv_run, in the order the work ended;    *)
(* uv_run does not return while work is outstanding.                       *)
(***************************************************************************)
EXTENDS Naturals, Sequences, SequencesExt, FiniteSets

CONSTANTS Reqs, Limit

VARIABLES
  queued,   \* requests no thread has begun, oldest first
  working,  \* those whose work_cb runs
  worked,   \* those whose after_work_cb is due, oldest first
  inside    \* the program is in uv_run

vars == <<queued, working, worked, inside>>

Outstanding == ToSet(queued) \cup working \cup ToSet(worked)

Init == queued = <<>> /\ working = {} /\ worked = <<>> /\ inside = FALSE

\* uv_queue_work returns 0.
Submit(r) ==
  /\ r \notin Outstanding
  /\ queued' = Append(queued, r)
  /\ UNCHANGED <<working, worked, inside>>

Begin ==
  /\ queued # <<>> /\ Cardinality(working) < Limit
  /\ working' = working \cup {Head(queued)} /\ queued' = Tail(queued)
  /\ UNCHANGED <<worked, inside>>

End(r) ==
  /\ r \in working
  /\ working' = working \ {r} /\ worked' = Append(worked, r)
  /\ UNCHANGED <<queued, inside>>

\* after_work_cb runs.
Answer ==
  /\ inside /\ worked # <<>>
  /\ worked' = Tail(worked)
  /\ UNCHANGED <<queued, working, inside>>

Enter == ~inside /\ inside' = TRUE /\ UNCHANGED <<queued, working, worked>>

Leave ==
  /\ inside /\ Outstanding = {}
  /\ inside' = FALSE /\ UNCHANGED <<queued, working, worked>>

Next ==
  \/ Begin \/ Answer \/ Enter \/ Leave
  \/ \E r \in Reqs : Submit(r) \/ End(r)

Spec == Init /\ [][Next]_vars

\* What has begun ends and is answered.
FairSpec == Spec /\ WF_vars(Answer) /\ \A r \in Reqs : WF_vars(End(r))
=============================================================================
