----------------------------- MODULE UvLoopProps -----------------------------
(***************************************************************************)
(* What programs rely on from the loop, stated of UvLoop.                  *)
(***************************************************************************)
EXTENDS UvLoop

-----------------------------------------------------------------------------

OpenHandles == {h \in Handles : state[h] # "closed"}
Closing     == {h \in Handles : state[h] = "closing"}
Streaming   == {h \in Handles : kind[h] = "stream" /\ active[h]}
ExpiredTimers == {h \in Handles : Expired(h)}

(* The reference count is exactly what the handles account for: one for    *)
(* each until its close_cb has returned, one more while it waits for       *)
(* close_cb, one for each active stream watcher, what the program added,   *)
(* less one for each expired timer whose callback has not run, and less    *)
(* the references that uv_timer_stop, uv_timer_start, uv_timer_again and   *)
(* uv_close lose.  No other path of core.c loses or gains one.             *)
RefBalance ==
  activecnt + lost =
    Cardinality(OpenHandles) + Cardinality(Closing) + Cardinality(Streaming) + refs
      - Cardinality(ExpiredTimers) + (IF in = "close_cb" THEN 1 ELSE 0)

(* "Ref the loop until this handle is closed": uv_run does not return      *)
(* while a handle is open, if the program balances its own references.     *)
RefUntilClosed == [][phase # "out" /\ phase' = "out" /\ refs = 0 => OpenHandles = {}]_vars

(* The same as long as no reference was lost.                              *)
RefUntilClosedOrLost ==
  [][phase # "out" /\ phase' = "out" /\ refs = 0 /\ lost = 0 => OpenHandles = {}]_vars

(* A stopped or closed handle is not called: an event that was pending in  *)
(* libev when it was stopped is taken back.                                *)
StoppedIsQuiet ==
  \A h \in Handles : IsPending(Watcher(h)) =>
    state[h] = "open" /\ (active[h] \/ kind[h] = "timer")

(* A closing handle has its event pending, and only once: uv_run cannot    *)
(* return before its close_cb, and close_cb runs once per uv_close.        *)
CloseIsPending ==
  /\ \A h \in Handles : state[h] = "closing" <=> IsPending(Next_(h))
  /\ \A m, n \in DOMAIN pendings : pendings[m] = pendings[n] /\ m # n => pendings[m] = Dummy

\* The events that libev has pending are those the handles account for.
EventsExact == TypeOK /\ StoppedIsQuiet /\ CloseIsPending

(* Timers that expired in one iteration are called in the order of their   *)
(* due times: of two that wait, the one nearer the top was due earlier.    *)
ExpiredInOrder ==
  \A m, n \in DOMAIN pendings : \A g, h \in ExpiredTimers :
    m < n /\ pendings[m] = Watcher(g) /\ pendings[n] = Watcher(h) => left[h] <= left[g]

-----------------------------------------------------------------------------

(* A program that closes handles for ever keeps libev invoking them.       *)
ClosesForever == []<><<\E h \in Handles : uv_close(h)>>_vars

(* Once everything is closed and the program's references are balanced,    *)
(* uv_run returns, if no reference was lost.  Inside uv_run every uv_close *)
(* is followed by its close_cb, even when references were lost; and a      *)
(* timer fires, unless it is stopped or put off for ever, or uv_run has    *)
(* returned.                                                               *)
LoopServes ==
  /\ <>[](OpenHandles = {} /\ refs = 0 /\ lost = 0) => []<>(phase = "out")
  /\ \/ ClosesForever
     \/ /\ \A h \in Handles :
             state[h] = "closing" /\ phase # "out" ~> state[h] = "closed"
        /\ \/ []<><<\E h \in Handles : uv_timer_again(h)>>_vars
           \/ \A h \in Handles : kind[h] = "timer" /\ active[h] ~>
                IsPending(Watcher(h)) \/ ~active[h] \/ phase = "out"

=============================================================================
