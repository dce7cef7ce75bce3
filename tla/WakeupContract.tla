--------------------------- MODULE WakeupContract ---------------------------
(***************************************************************************)
(* What an async handle promises those who wake the loop with it: a call   *)
(* of uv_async_send is followed by a callback that begins after it, calls  *)
(* may share one, and at most two callbacks are to come: one whose event   *)
(* is pending and one for the calls made since.  After uv_close there is   *)
(* none.                                                                   *)
(***************************************************************************)
EXTENDS Naturals

CONSTANT Asyncs

VARIABLES
  open,    \* handles that uv_async_init started and uv_close did not stop
  coming   \* how many callbacks of each are to come

vars == <<open, coming>>

Init == open = {} /\ coming = [a \in Asyncs |-> 0]

\* A program may initialise several handles before it looks again.
Open(S) ==
  /\ S \cap open = {} /\ \A a \in S : coming[a] = 0
  /\ open' = open \cup S /\ UNCHANGED coming

\* uv_async_send, from any thread.
Send(a) ==
  /\ a \in open
  /\ \E n \in 1..2 : n >= coming[a] /\ (coming[a] = 0 => n = 1)
                       /\ coming' = [coming EXCEPT ![a] = n]
  /\ UNCHANGED open

\* The callback of a begins.
Call(a) ==
  /\ a \in open /\ coming[a] > 0
  /\ coming' = [coming EXCEPT ![a] = @ - 1]
  /\ UNCHANGED open

Close(a) ==
  /\ a \in open /\ open' = open \ {a}
  /\ coming' = [coming EXCEPT ![a] = 0]

Next ==
  \/ \E S \in SUBSET Asyncs : Open(S)
  \/ \E a \in Asyncs : Send(a) \/ Call(a) \/ Close(a)

Spec == Init /\ [][Next]_vars
=============================================================================
