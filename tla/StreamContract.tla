--------------------------- MODULE StreamContract ---------------------------
(***************************************************************************)
(* What uv_write and uv_close promise a program, whatever the kernel does: *)
(* accepted writes are answered once each, in the order they were accepted *)
(* while the stream is open; uv_close answers the rest, in whatever order, *)
(* before it calls close_cb, and after close_cb nothing is called back.    *)
(***************************************************************************)
EXTENDS Naturals, Sequences, SequencesExt

CONSTANT WReqs

VARIABLES
  outstanding,  \* accepted requests whose callback has not run, oldest first
  status,       \* what the program knows of each request
  stream        \* "open", "closing" (uv_close called), "closed" (close_cb ran)

vars == <<outstanding, status, stream>>

Init ==
  /\ outstanding = <<>>
  /\ status = [r \in WReqs |-> "idle"]
  /\ stream = "open"

\* uv_write returns 0.
Submit(r) ==
  /\ stream = "open" /\ status[r] = "idle"
  /\ status' = [status EXCEPT ![r] = "active"]
  /\ outstanding' = Append(outstanding, r)
  /\ UNCHANGED stream

\* The write callback of the oldest request runs.
Answer ==
  /\ outstanding # <<>>
  /\ \E s \in {"ok", "error"} : status' = [status EXCEPT ![Head(outstanding)] = s]
  /\ outstanding' = Tail(outstanding)
  /\ UNCHANGED stream

\* The callback of any outstanding request runs, because of uv_close.
Cancel ==
  /\ stream = "closing"
  /\ \E i \in DOMAIN outstanding :
       /\ \E s \in {"ok", "error"} : status' = [status EXCEPT ![outstanding[i]] = s]
       /\ outstanding' = RemoveAt(outstanding, i)
  /\ UNCHANGED stream

Close == stream = "open" /\ stream' = "closing" /\ UNCHANGED <<outstanding, status>>

\* close_cb runs.
Finish ==
  /\ stream = "closing" /\ outstanding = <<>>
  /\ stream' = "closed" /\ UNCHANGED <<outstanding, status>>

Next == Answer \/ Cancel \/ Close \/ Finish \/ \E r \in WReqs : Submit(r)

Spec == Init /\ [][Next]_vars
=============================================================================
