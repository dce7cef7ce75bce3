------------------------------- MODULE UvLoop -------------------------------
(***************************************************************************)
(* Handles on a loop: init, start, stop and close of timers, idle, prepare *)
(* and check handles, of async handles and of streams as far as the loop   *)
(* sees them; uv_run over libev's ev_run; and the reference count that     *)
(* decides when uv_run returns (core.c, ev.c).                             *)
(***************************************************************************)
EXTENDS Integers, Sequences, SequencesExt, FiniteSets

CONSTANTS
  Handles,      \* memory for handles, reused after close_cb
  Kinds,        \* the types of handle considered
  Timeouts,     \* for uv_timer_start, in ticks
  Repeats,      \* for uv_timer_start and uv_timer_set_repeat, 0 for none
  MaxElapsed,   \* bound on the ticks between two polls
  MaxRefs,      \* bound on uv_ref without uv_unref, and the reverse
  MaxLost       \* bound on references lost

ASSUME LoopAssumption ==
  /\ IsFiniteSet(Handles)
  /\ Kinds \subseteq {"timer", "idle", "prepare", "check", "async", "stream"}
  /\ Timeouts \subseteq Nat /\ Repeats \subseteq Nat
  /\ MaxElapsed \in Nat /\ MaxRefs \in Nat /\ MaxLost \in Nat

VARIABLES
  phase,      \* "out" of uv_run, or which ev_invoke_pending of ev_run is next
  in,         \* the callback that runs: "none", "callback" or "close_cb"
  activecnt,  \* libev's reference count
  pendings,   \* libev's pending array
  state,      \* of each handle
  kind,       \* handle->type; a handle's memory is reused for the same type
  active,     \* ev_is_active of its watcher
  left,       \* of a timer: ev_at(w) less the loop's time, in ticks
  repeat,     \* of a timer: w->repeat
  refs,       \* history: calls of uv_ref less calls of uv_unref
  lost        \* history: references lost with the event of an expired timer

timers  == <<left, repeat>>
handles == <<state, kind, active>>
vars    == <<phase, in, activecnt, pendings, handles, timers, refs, lost>>

Watcher(h) == <<h, "watcher">>
Next_(h)   == <<h, "next_watcher">>
Dummy      == <<>>
Slots      == {Watcher(h) : h \in Handles} \cup {Next_(h) : h \in Handles} \cup {Dummy}

TypeOK ==
  /\ phase \in {"out", "entry", "prepare", "check"}
  /\ in \in {"none", "callback", "close_cb"}
  /\ activecnt \in Int
  /\ pendings \in Seq(Slots)
  /\ state \in [Handles -> {"closed", "open", "closing"}]
  /\ kind \in [Handles -> Kinds] /\ active \in [Handles -> BOOLEAN]
  /\ left \in [Handles -> Int] /\ repeat \in [Handles -> Nat]
  /\ \A h \in Handles : kind[h] = "timer" /\ active[h] => left[h] >= 0
  /\ refs \in Int /\ lost \in Nat

Init ==
  /\ phase = "out" /\ in = "none" /\ activecnt = 0 /\ pendings = <<>>
  /\ state = [h \in Handles |-> "closed"]
  /\ kind \in [Handles -> Kinds] /\ active = [h \in Handles |-> FALSE]
  /\ left = [h \in Handles |-> 0] /\ repeat = [h \in Handles |-> 0]
  /\ refs = 0 /\ lost = 0

-----------------------------------------------------------------------------
(* libev.                                                                  *)

Open(h, k) == state[h] = "open" /\ kind[h] = k
Active(k) == {h \in Handles : kind[h] = k /\ active[h]}

IsPending(w) == \E n \in DOMAIN pendings : pendings[n] = w

\* A timer that libev stopped and whose callback has not run yet.
Expired(h) == kind[h] = "timer" /\ ~active[h] /\ IsPending(Watcher(h))

\* clear_pending, which leaves a dummy in the slot.
KeepsSlot(w) == pendings
Cleared(w) == [n \in DOMAIN pendings |-> IF pendings[n] = w THEN Dummy ELSE pendings[n]]

\* ev_invoke_pending takes the last slot.
Popped(w) ==
  /\ phase # "out" /\ in = "none"
  /\ pendings # <<>> /\ Last(pendings) = w /\ pendings' = Front(pendings)

InvokeDummy ==
  /\ Popped(Dummy)
  /\ UNCHANGED <<phase, in, activecnt, handles, timers, refs, lost>>

\* uv__idle, uv__prepare, uv__check, uv__async and the handlers of streams.
InvokeWatcher(h) ==
  /\ kind[h] # "timer" /\ Popped(Watcher(h)) /\ in' = "callback"
  /\ UNCHANGED <<phase, activecnt, handles, timers, refs, lost>>

\* A timer that expired and does not repeat gets back the reference that
\* libev dropped when it stopped it.
TimerWithoutRef(h) ==
  /\ kind[h] = "timer" /\ Popped(Watcher(h)) /\ in' = "callback"
  /\ UNCHANGED <<phase, activecnt, handles, timers, refs, lost>>

uv__timer_cb(h) ==
  /\ kind[h] = "timer" /\ Popped(Watcher(h)) /\ in' = "callback"
  /\ activecnt' = IF active[h] THEN activecnt ELSE activecnt + 1
  /\ UNCHANGED <<phase, handles, timers, refs, lost>>

\* uv__finish_close stops the idle watcher and calls close_cb; it drops the
\* reference of the handle only when close_cb has returned.
uv__finish_close(h) ==
  /\ Popped(Next_(h)) /\ in' = "close_cb"
  /\ state' = [state EXCEPT ![h] = "closed"]
  /\ activecnt' = activecnt - 1
  /\ UNCHANGED <<phase, kind, active, timers, refs, lost>>

ReturnWithoutUnref ==
  /\ in # "none" /\ in' = "none"
  /\ UNCHANGED <<phase, activecnt, pendings, handles, timers, refs, lost>>

Return ==
  /\ in # "none" /\ in' = "none"
  /\ activecnt' = IF in = "close_cb" THEN activecnt - 1 ELSE activecnt
  /\ UNCHANGED <<phase, pendings, handles, timers, refs, lost>>

uv_run ==
  /\ phase = "out" /\ phase' = "entry"
  /\ UNCHANGED <<in, activecnt, pendings, handles, timers, refs, lost>>

Drained == in = "none" /\ pendings = <<>>

\* An iteration begins by queueing the prepare watchers.  The first one
\* does not look at activecnt.
Iterate ==
  /\ Drained /\ phase \in {"entry", "check"}
  /\ phase = "check" => activecnt # 0
  /\ phase' = "prepare"
  /\ pendings' \in SetToSeqs({Watcher(h) : h \in Active("prepare")})
  /\ UNCHANGED <<in, activecnt, handles, timers, refs, lost>>

Exit ==
  /\ Drained /\ phase = "check" /\ activecnt = 0
  /\ phase' = "out"
  /\ UNCHANGED <<in, activecnt, pendings, handles, timers, refs, lost>>

\* timers_reify: the timers that are due after e more ticks, and in which
\* order it feeds them (feed_reverse): the earliest on top.
Due(e) == {h \in Active("timer") : left[h] - e < 0}
FeedForward(e) ==
  {s \in SetToSeqs(Due(e)) : \A m, n \in DOMAIN s : m < n => left[s[m]] <= left[s[n]]}
FeedOrders(e) ==
  {s \in SetToSeqs(Due(e)) : \A m, n \in DOMAIN s : m < n => left[s[m]] >= left[s[n]]}

\* A timer that repeats is due again at once, not earlier, when the loop is
\* late.
Later(e, h) ==
  IF h \notin Active("timer") THEN left[h]
  ELSE IF h \in Due(e) /\ repeat[h] > 0 /\ left[h] - e + repeat[h] < 0 THEN 0
  ELSE IF h \in Due(e) THEN left[h] - e + repeat[h]
  ELSE left[h] - e

\* idle_reify runs the idle watchers, the next watchers of closing handles
\* among them, when there is nothing else to do.
Idles == {Watcher(h) : h \in Active("idle")}
         \cup {Next_(h) : h \in {g \in Handles : state[g] = "closing"}}

\* The poll, which returns after e ticks with events for the watchers io,
\* then timers_reify, idle_reify and the check watchers.
Poll(e) ==
  /\ Drained /\ phase = "prepare" /\ phase' = "check"
  /\ \E io \in SUBSET (Active("stream") \cup Active("async")),
        due \in FeedOrders(e),
        check \in SetToSeqs({Watcher(h) : h \in Active("check")}) :
       \E events \in SetToSeqs({Watcher(h) : h \in io}),
          idle \in SetToSeqs(IF io = {} /\ due = <<>> THEN Idles ELSE {}) :
         pendings' = events \o [n \in DOMAIN due |-> Watcher(due[n])] \o idle \o check
  /\ left' = [h \in Handles |-> Later(e, h)]
  /\ active' = [h \in Handles |-> active[h] /\ ~(h \in Due(e) /\ repeat[h] = 0)]
  /\ activecnt' = activecnt - Cardinality({h \in Due(e) : repeat[h] = 0})
  /\ UNCHANGED <<in, state, kind, repeat, refs, lost>>

-----------------------------------------------------------------------------
(* The program.                                                            *)

UserMayCall == phase = "out" \/ in # "none"

\* uv__handle_init, for uv_timer_init, uv_idle_init, ...: one reference until
\* close_cb has run.  uv_async_init also starts its watcher, and drops that
\* reference.
Init_(h) ==
  /\ UserMayCall /\ state[h] = "closed"
  /\ state' = [state EXCEPT ![h] = "open"]
  /\ active' = [active EXCEPT ![h] = (kind[h] = "async")]
  /\ activecnt' = activecnt + 1
  /\ UNCHANGED <<phase, in, pendings, kind, timers, refs, lost>>

Unreferenced == {"idle", "prepare", "check"}

\* uv_idle_start, uv_prepare_start and uv_check_start take libev's reference
\* back; uv_read_start keeps it.
Start(h) ==
  /\ UserMayCall /\ state[h] = "open" /\ ~active[h]
  /\ kind[h] \in Unreferenced \cup {"stream"}
  /\ active' = [active EXCEPT ![h] = TRUE]
  /\ activecnt' = IF kind[h] = "stream" THEN activecnt + 1 ELSE activecnt
  /\ UNCHANGED <<phase, in, pendings, state, kind, timers, refs, lost>>

StopRefsAlways(h) ==
  /\ UserMayCall /\ state[h] = "open" /\ kind[h] \in Unreferenced \cup {"stream"}
  /\ active' = [active EXCEPT ![h] = FALSE]
  /\ pendings' = Cleared(Watcher(h))
  /\ activecnt' = IF kind[h] = "stream" THEN activecnt - 1
                  ELSE IF active[h] THEN activecnt ELSE activecnt + 1
  /\ UNCHANGED <<phase, in, state, kind, timers, refs, lost>>

Stop(h) ==
  /\ UserMayCall /\ state[h] = "open" /\ kind[h] \in Unreferenced \cup {"stream"}
  /\ active' = [active EXCEPT ![h] = FALSE]
  /\ pendings' = Cleared(Watcher(h))
  /\ activecnt' = IF kind[h] = "stream" /\ active[h] THEN activecnt - 1 ELSE activecnt
  /\ UNCHANGED <<phase, in, state, kind, timers, refs, lost>>

\* The event of an expired timer goes, and its reference with it.
Loses(h) == Expired(h) /\ lost < MaxLost /\ lost' = lost + 1
Keeps(h) == ~Expired(h) /\ UNCHANGED lost

\* A timer that already expired keeps its event: its callback will find it
\* active and not take the reference back.
uv_timer_start(h, timeout, rep) ==
  /\ UserMayCall /\ Open(h, "timer") /\ ~active[h]
  /\ active' = [active EXCEPT ![h] = TRUE]
  /\ left' = [left EXCEPT ![h] = timeout] /\ repeat' = [repeat EXCEPT ![h] = rep]
  /\ Loses(h) \/ Keeps(h)
  /\ UNCHANGED <<phase, in, activecnt, pendings, state, kind, refs>>

uv_timer_stop(h) ==
  /\ UserMayCall /\ Open(h, "timer")
  /\ active' = [active EXCEPT ![h] = FALSE]
  /\ pendings' = Cleared(Watcher(h))
  /\ Loses(h) \/ Keeps(h)
  /\ UNCHANGED <<phase, in, activecnt, state, kind, timers, refs>>

\* uv_timer_again restarts a repeating timer; one that does not repeat is
\* stopped by libev, which drops a reference that uv_timer_start dropped.
uv_timer_again(h) ==
  /\ UserMayCall /\ Open(h, "timer") /\ active[h]
  /\ \/ /\ repeat[h] > 0
        /\ left' = [left EXCEPT ![h] = repeat[h]]
        /\ UNCHANGED <<activecnt, active, pendings, lost>>
     \/ /\ repeat[h] = 0
        /\ active' = [active EXCEPT ![h] = FALSE] /\ pendings' = Cleared(Watcher(h))
        /\ activecnt' = activecnt - 1
        /\ lost < MaxLost /\ lost' = lost + 1
        /\ UNCHANGED left
  /\ UNCHANGED <<phase, in, state, kind, repeat, refs>>

uv_timer_set_repeat(h, rep) ==
  /\ UserMayCall /\ Open(h, "timer")
  /\ repeat' = [repeat EXCEPT ![h] = rep]
  /\ UNCHANGED <<phase, in, activecnt, pendings, handles, left, refs, lost>>

\* uv_close stops the watcher and starts the idle watcher that will call
\* close_cb, and makes it pending at once.
uv_close(h) ==
  /\ UserMayCall /\ state[h] = "open"
  /\ state' = [state EXCEPT ![h] = "closing"]
  /\ active' = [active EXCEPT ![h] = FALSE]
  /\ pendings' = Append(Cleared(Watcher(h)), Next_(h))
  /\ activecnt' = IF kind[h] = "stream" /\ active[h] THEN activecnt ELSE activecnt + 1
  /\ Loses(h) \/ Keeps(h)
  /\ UNCHANGED <<phase, in, kind, timers, refs>>

uv_ref ==
  /\ UserMayCall /\ refs < MaxRefs /\ refs' = refs + 1 /\ activecnt' = activecnt + 1
  /\ UNCHANGED <<phase, in, pendings, handles, timers, lost>>

uv_unref ==
  /\ UserMayCall /\ -refs < MaxRefs /\ refs' = refs - 1 /\ activecnt' = activecnt - 1
  /\ UNCHANGED <<phase, in, pendings, handles, timers, lost>>

-----------------------------------------------------------------------------
Loop ==
  \/ InvokeDummy \/ Return \/ Iterate \/ Exit
  \/ \E e \in 0..MaxElapsed : Poll(e)
  \/ \E h \in Handles : InvokeWatcher(h) \/ uv__timer_cb(h) \/ uv__finish_close(h)

User ==
  \/ uv_run \/ uv_ref \/ uv_unref
  \/ \E h \in Handles :
       \/ Init_(h) \/ Start(h) \/ Stop(h) \/ uv_close(h)
       \/ \E timeout \in Timeouts, rep \in Repeats : uv_timer_start(h, timeout, rep)
       \/ uv_timer_stop(h) \/ uv_timer_again(h)
       \/ \E rep \in Repeats : uv_timer_set_repeat(h, rep)

Next == Loop \/ User

Spec == Init /\ [][Next]_vars

(* The loop runs, callbacks return, and time passes between polls.         *)
Fairness ==
  /\ SF_vars(Loop)
  /\ SF_vars(\E e \in 1..MaxElapsed : Poll(e))

FairSpec == Spec /\ Fairness
=============================================================================
