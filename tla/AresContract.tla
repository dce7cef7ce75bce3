---------------------------- MODULE AresContract ----------------------------
(***************************************************************************)
(* What c-ares promises a program: a query is answered once, and not after *)
(* it was cancelled; it fails only after every server was tried tries      *)
(* times, a server that was passed over counting as tried; and a channel   *)
(* that was destroyed owes no answer.                                      *)
(***************************************************************************)
EXTENDS Naturals

CONSTANTS Queries

VARIABLES
  phase,     \* of each query: "idle", "active", "success", "failed", "cancelled"
  tried,     \* attempts that did not succeed
  attempts,  \* nservers * tries
  channel    \* "open", "destroyed"

vars == <<phase, tried, attempts, channel>>

Init == /\ phase = [q \in Queries |-> "idle"] /\ tried = [q \in Queries |-> 0]
        /\ attempts \in Nat /\ channel = "open"

Ask(q) ==
  /\ channel = "open" /\ phase[q] = "idle"
  /\ phase' = [phase EXCEPT ![q] = "active"]
  /\ UNCHANGED <<tried, attempts, channel>>

TryNext(q) ==
  /\ phase[q] = "active"
  /\ \E n \in (tried[q] + 1) .. attempts : tried' = [tried EXCEPT ![q] = n]
  /\ UNCHANGED <<phase, attempts, channel>>

Answer(q, status) ==
  /\ phase[q] = "active"
  /\ status = "failed" => tried[q] = attempts
  /\ status = "success" => tried[q] < attempts
  /\ phase' = [phase EXCEPT ![q] = status]
  /\ UNCHANGED <<tried, attempts, channel>>

\* All queries that are not answered at once, for ares_cancel and ares_destroy.
Cancel ==
  /\ channel' \in {channel, "destroyed"}
  /\ phase' = [q \in Queries |-> IF phase[q] = "active" THEN "cancelled" ELSE phase[q]]
  /\ UNCHANGED <<tried, attempts>>

Next ==
  \/ Cancel
  \/ \E q \in Queries : \/ Ask(q) \/ TryNext(q)
                        \/ \E status \in {"success", "failed"} : Answer(q, status)

Spec == Init /\ [][Next]_vars
=============================================================================
