-------------------------- MODULE DatagramContract --------------------------
(***************************************************************************)
(* What uv_udp_send and uv_close promise a program: requests are handed to *)
(* the kernel and called back in the order they were submitted, each once, *)
(* with 0 only if the kernel took the datagram; uv_close fails what was    *)
(* not handed over, and close_cb comes after all callbacks.                *)
(***************************************************************************)
EXTENDS Naturals, Sequences, SequencesExt

CONSTANTS Reqs, Mute, NoAnswer

VARIABLES
  outstanding,  \* requests whose callback has not begun, oldest first
  result,       \* what the kernel said of each
  answer,       \* the callback that runs: a request and its status
  socket        \* "open", "closing" (uv_close called), "closed" (close_cb began)

vars == <<outstanding, result, answer, socket>>

Untried == {i \in DOMAIN outstanding : result[outstanding[i]] = "none"}

Init ==
  /\ outstanding = <<>> /\ result = [r \in Reqs |-> "none"]
  /\ answer = NoAnswer /\ socket = "open"

\* uv_udp_send returns 0.
Submit(r) ==
  /\ socket = "open" /\ r \notin ToSet(outstanding)
  /\ outstanding' = Append(outstanding, r)
  /\ UNCHANGED <<result, answer, socket>>

\* sendmsg(2), for the oldest request that it was not called for.
Try ==
  /\ socket = "open"
  /\ \E i \in Untried, s \in {"ok", "error"} :
       /\ \A j \in Untried : i <= j
       /\ result' = [result EXCEPT ![outstanding[i]] = s]
  /\ UNCHANGED <<outstanding, answer, socket>>

\* send_cb of the oldest request, if it has one.
Answer ==
  /\ answer = NoAnswer /\ outstanding # <<>>
  /\ LET r == Head(outstanding)
     IN  /\ result[r] # "none" \/ socket = "closing"
         /\ answer' = IF r \in Mute THEN NoAnswer
                      ELSE <<r, IF result[r] = "none" THEN "error" ELSE result[r]>>
         /\ result' = [result EXCEPT ![r] = "none"]
  /\ outstanding' = Tail(outstanding)
  /\ UNCHANGED socket

Return == answer' = NoAnswer /\ UNCHANGED <<outstanding, result, socket>>

Close == socket = "open" /\ socket' = "closing" /\ UNCHANGED <<outstanding, result, answer>>

Finish ==
  /\ socket = "closing" /\ outstanding = <<>> /\ answer = NoAnswer
  /\ socket' = "closed" /\ UNCHANGED <<outstanding, result, answer>>

Next == Try \/ Answer \/ Return \/ Close \/ Finish \/ \E r \in Reqs : Submit(r)

Spec == Init /\ [][Next]_vars
=============================================================================
