------------------------------- MODULE UvAsync -------------------------------
(***************************************************************************)
(* Async handles: uv_async_send from any thread, libev's wakeup pipe, and  *)
(* the loop that turns wakeups into callbacks (core.c, ev.c).              *)
(*                                                                         *)
(* w->sent and async_pending are plain volatile variables that threads     *)
(* read and write without a lock or a fence.  When buffering, a thread     *)
(* may read ahead of its own buffered stores, as every x86 does; otherwise *)
(* memory is sequentially consistent.                                      *)
(***************************************************************************)
EXTENDS Naturals, Sequences, SequencesExt

CONSTANTS
  Asyncs,        \* handles
  Threads,       \* threads other than the loop's that call uv_async_send
  Loop,          \* the loop's thread
  StoreBuffers,  \* which memories to consider: {FALSE}, {TRUE} or both
  BufLen         \* bound on the buffered stores of one thread

ASSUME AsyncAssumption ==
  /\ Loop \notin Threads /\ "async_pending" \notin Asyncs
  /\ StoreBuffers \subseteq BOOLEAN /\ BufLen \in Nat \ {0}

VARIABLES
  buffering, \* stores are buffered (TSO); never changes
  mem,      \* mem[a] is a->sent, and mem["async_pending"]
  buf,      \* the store buffer of each thread
  pc,       \* where each thread is in ev_async_send, and for which handle
  evfd,     \* the eventfd is readable
  at,       \* where the loop is
  i,        \* index of pipecb's walk over asyncs
  asyncs,   \* libev's array of started async watchers
  active,   \* ev_active(w): its position in asyncs, 0 when stopped
  fed,      \* async watchers in the pending array
  state,    \* of the handle
  owed      \* uv_async_send was called and no callback has started since

memory  == <<buffering, mem, buf>>
pipe    == <<at, i>>
handles == <<asyncs, active, fed, state>>
vars    == <<memory, pc, evfd, pipe, handles, owed>>

Procs == Threads \cup {Loop}
Locs  == Asyncs \cup {"async_pending"}

TypeOK ==
  /\ buffering \in StoreBuffers
  /\ mem \in [Locs -> BOOLEAN]
  /\ buf \in [Procs -> Seq(Locs \X BOOLEAN)]
  /\ pc \in [Procs -> {"idle", "test", "set", "write"}]
  /\ evfd \in BOOLEAN
  /\ at \in {"poll", "test", "clear", "scan", "take", "callback"}
  /\ asyncs \in Seq(Asyncs) /\ i \in Nat
  /\ active \in [Asyncs -> Nat]
  /\ fed \subseteq Asyncs
  /\ state \in [Asyncs -> {"closed", "open", "closing"}]
  /\ owed \in [Asyncs -> BOOLEAN]

Init ==
  /\ buffering \in StoreBuffers
  /\ mem = [x \in Locs |-> FALSE] /\ buf = [p \in Procs |-> <<>>]
  /\ pc = [p \in Procs |-> "idle"] /\ evfd = FALSE
  /\ at = "poll" /\ i = 0
  /\ asyncs = <<>> /\ active = [a \in Asyncs |-> 0] /\ fed = {}
  /\ state = [a \in Asyncs |-> "closed"] /\ owed = [a \in Asyncs |-> FALSE]

-----------------------------------------------------------------------------
(* Memory.                                                                 *)

\* The value thread p reads: its own last buffered store, or memory.
Buffered(p, x) == {j \in DOMAIN buf[p] : buf[p][j][1] = x}
Load(p, x) ==
  IF Buffered(p, x) = {} THEN mem[x]
  ELSE \E j \in Buffered(p, x) :
         buf[p][j][2] /\ \A k \in Buffered(p, x) : k <= j

Store(p, x, v) ==
  /\ UNCHANGED buffering
  /\ \/ ~buffering /\ mem' = [mem EXCEPT ![x] = v] /\ UNCHANGED buf
     \/ /\ buffering /\ Len(buf[p]) < BufLen
        /\ buf' = [buf EXCEPT ![p] = Append(@, <<x, v>>)] /\ UNCHANGED mem

\* The oldest buffered store of p reaches memory.
Drain(p) ==
  /\ buf[p] # <<>>
  /\ mem' = [mem EXCEPT ![Head(buf[p])[1]] = Head(buf[p])[2]]
  /\ buf' = [buf EXCEPT ![p] = Tail(@)]
  /\ UNCHANGED <<buffering, pc, evfd, pipe, handles, owed>>

-----------------------------------------------------------------------------
(* uv_async_send and evpipe_write, on any thread.                          *)

\* The loop's thread runs the program in callbacks and between them.
UserMayCall == at \in {"poll", "callback"} /\ pc[Loop] = "idle"

Step(p, from, to) == pc[p] = from /\ pc' = [pc EXCEPT ![p] = to]

\* w->sent = 1
SendUnmarked(p, a) ==
  /\ Step(p, "idle", "test") /\ (p = Loop => UserMayCall)
  /\ state[a] = "open"
  /\ owed' = [owed EXCEPT ![a] = TRUE]
  /\ UNCHANGED <<memory, evfd, pipe, handles>>

uv_async_send(p, a) ==
  /\ Step(p, "idle", "test") /\ (p = Loop => UserMayCall)
  /\ state[a] = "open"
  /\ Store(p, a, TRUE)
  /\ owed' = [owed EXCEPT ![a] = TRUE]
  /\ UNCHANGED <<evfd, pipe, handles>>

\* if (!*flag)
TestFlag(p) ==
  /\ IF Load(p, "async_pending") THEN Step(p, "test", "idle") ELSE Step(p, "test", "set")
  /\ UNCHANGED <<memory, evfd, pipe, handles, owed>>

\* *flag = 1
SetFlag(p) ==
  /\ Step(p, "set", "write")
  /\ Store(p, "async_pending", TRUE)
  /\ UNCHANGED <<evfd, pipe, handles, owed>>

\* write(2) on the eventfd, whose locking drains the store buffer.
WriteFd(p) ==
  /\ Step(p, "write", "idle") /\ buf[p] = <<>>
  /\ evfd' = TRUE
  /\ UNCHANGED <<memory, pipe, handles, owed>>

-----------------------------------------------------------------------------
(* The loop: poll, pipecb and the callbacks it feeds.                      *)

Closing == {a \in Asyncs : state[a] = "closing"}

\* epoll_wait finds the eventfd readable, once nothing is pending, and pipecb
\* reads it: both drain the store buffer.
Poll ==
  /\ at = "poll" /\ pc[Loop] = "idle" /\ fed = {} /\ Closing = {}
  /\ evfd /\ buf[Loop] = <<>>
  /\ evfd' = FALSE /\ at' = "test"
  /\ UNCHANGED <<memory, pc, i, handles, owed>>

\* if (async_pending)
TestPending ==
  /\ at = "test"
  /\ at' = IF Load(Loop, "async_pending") THEN "clear" ELSE "poll"
  /\ UNCHANGED <<memory, pc, evfd, i, handles, owed>>

\* async_pending = 0, and the walk starts at the end of the array.
ClearNothing ==
  /\ at = "clear" /\ at' = "scan" /\ i' = Len(asyncs)
  /\ UNCHANGED <<memory, pc, evfd, handles, owed>>

ClearPending ==
  /\ at = "clear" /\ at' = "scan" /\ i' = Len(asyncs)
  /\ Store(Loop, "async_pending", FALSE)
  /\ UNCHANGED <<pc, evfd, handles, owed>>

\* if (asyncs [i]->sent)
ScanThenClear ==
  /\ at = "scan"
  /\ \/ i = 0 /\ at' = "poll" /\ UNCHANGED i /\ Store(Loop, "async_pending", FALSE)
     \/ i > 0 /\ Load(Loop, asyncs[i]) /\ at' = "take" /\ UNCHANGED <<i, memory>>
     \/ i > 0 /\ ~Load(Loop, asyncs[i]) /\ i' = i - 1 /\ UNCHANGED <<at, memory>>
  /\ UNCHANGED <<pc, evfd, handles, owed>>

Scan ==
  /\ at = "scan"
  /\ \/ i = 0 /\ at' = "poll" /\ UNCHANGED i
     \/ i > 0 /\ Load(Loop, asyncs[i]) /\ at' = "take" /\ UNCHANGED i
     \/ i > 0 /\ ~Load(Loop, asyncs[i]) /\ i' = i - 1 /\ UNCHANGED at
  /\ UNCHANGED <<memory, pc, evfd, handles, owed>>

\* sent = 0, ev_feed_event
Take ==
  /\ at = "take" /\ at' = "scan" /\ i' = i - 1
  /\ Store(Loop, asyncs[i], FALSE)
  /\ fed' = fed \cup {asyncs[i]}
  /\ UNCHANGED <<pc, evfd, asyncs, active, state, owed>>

\* ev_invoke_pending calls uv__async.
uv__async(a) ==
  /\ at = "poll" /\ pc[Loop] = "idle" /\ a \in fed
  /\ fed' = fed \ {a} /\ at' = "callback"
  /\ owed' = [owed EXCEPT ![a] = FALSE]
  /\ UNCHANGED <<memory, pc, evfd, i, asyncs, active, state>>

\* ev_invoke_pending calls uv__next, which calls close_cb.
uv__finish_close(a) ==
  /\ at = "poll" /\ pc[Loop] = "idle" /\ state[a] = "closing"
  /\ state' = [state EXCEPT ![a] = "closed"] /\ at' = "callback"
  /\ UNCHANGED <<memory, pc, evfd, i, asyncs, active, fed, owed>>

\* A callback returns.
Return ==
  /\ at = "callback" /\ pc[Loop] = "idle" /\ at' = "poll"
  /\ UNCHANGED <<memory, pc, evfd, i, handles, owed>>

-----------------------------------------------------------------------------
(* The program, on the loop's thread.                                      *)

\* uv_async_init: ev_async_start clears sent and appends the watcher.  Handing
\* the handle to another thread (a lock, pthread_create) drains the buffer.
uv_async_init(a) ==
  /\ UserMayCall /\ state[a] = "closed"
  /\ state' = [state EXCEPT ![a] = "open"]
  /\ buf[Loop] = <<>> /\ mem' = [mem EXCEPT ![a] = FALSE]
  /\ asyncs' = Append(asyncs, a)
  /\ active' = [active EXCEPT ![a] = Len(asyncs) + 1]
  /\ owed' = [owed EXCEPT ![a] = FALSE]
  /\ UNCHANGED <<buffering, buf, pc, evfd, pipe, fed>>

\* The array after the watcher at position n is replaced by the last one.
SwappedOut(n) == [k \in 1..(Len(asyncs) - 1) |-> IF k = n THEN Last(asyncs) ELSE asyncs[k]]

\* ev_async_stop takes the event back and the watcher out of the array.
StopForgetsMoved(a) ==
  /\ fed' = fed \ {a}
  /\ asyncs' = SwappedOut(active[a])
  /\ active' = [active EXCEPT ![a] = 0]

StopKeepsEvent(a) ==
  /\ UNCHANGED fed
  /\ asyncs' = SwappedOut(active[a])
  /\ active' = [active EXCEPT ![Last(asyncs)] = active[a], ![a] = 0]

ev_async_stop(a) ==
  /\ fed' = fed \ {a}
  /\ asyncs' = SwappedOut(active[a])
  /\ active' = [active EXCEPT ![Last(asyncs)] = active[a], ![a] = 0]

uv_close(a) ==
  /\ UserMayCall /\ state[a] = "open"
  /\ state' = [state EXCEPT ![a] = "closing"]
  /\ ev_async_stop(a)
  /\ UNCHANGED <<memory, pc, evfd, pipe, owed>>

-----------------------------------------------------------------------------
Sending(p) == TestFlag(p) \/ SetFlag(p) \/ WriteFd(p) \/ Drain(p)

Running ==
  \/ Poll \/ TestPending \/ ClearPending \/ Scan \/ Take \/ Return
  \/ \E a \in Asyncs : uv__async(a) \/ uv__finish_close(a)

Next ==
  \/ Running
  \/ \E p \in Procs : Sending(p) \/ \E a \in Asyncs : uv_async_send(p, a)
  \/ \E a \in Asyncs : uv_async_init(a) \/ uv_close(a)

Spec == Init /\ [][Next]_vars

(* A thread that called uv_async_send finishes the call, callbacks return   *)
(* however often they call, and the loop runs.                              *)
Fairness == SF_vars(Running) /\ \A p \in Procs : WF_vars(Sending(p))

FairSpec == Spec /\ Fairness
=============================================================================
