---------------------------- MODULE UvAsyncProps ----------------------------
(***************************************************************************)
(* What programs rely on when they wake the loop from another thread,      *)
(* stated of UvAsync.                                                      *)
(***************************************************************************)
EXTENDS UvAsync

-----------------------------------------------------------------------------

(* At rest: no thread is inside uv_async_send, every store has reached     *)
(* memory, and the loop waits in epoll_wait with nothing to wake it.       *)
Quiet ==
  /\ \A p \in Procs : pc[p] = "idle" /\ buf[p] = <<>>
  /\ at = "poll" /\ ~evfd /\ fed = {} /\ Closing = {}

(* "The only guarantee is that the callback function is called at least    *)
(* once after the call to async_send": the system never comes to rest with *)
(* an open handle whose callback is still owed.                            *)
AtLeastOnce ==
  Quiet => \A a \in Asyncs : state[a] = "open" => ~owed[a]

(* The guarantee holds on a machine that does not buffer stores.           *)
AtLeastOnceInOrder == ~buffering => AtLeastOnce

(* A wakeup may get lost in a store buffer, but it does not take the next  *)
(* ones with it: async_pending never stays set with nobody to clear it,    *)
(* which would make every later uv_async_send skip the write.              *)
FlagNotStuck == Quiet => ~mem["async_pending"]

(* libev's array of async watchers holds each open handle once, at the     *)
(* position the watcher remembers, through every start and every stop,     *)
(* which moves the last watcher into the gap.                              *)
ArrayMatches ==
  /\ \A a \in Asyncs : state[a] = "open" =>
       active[a] \in DOMAIN asyncs /\ asyncs[active[a]] = a
  /\ \A k \in DOMAIN asyncs :
       state[asyncs[k]] = "open" /\ active[asyncs[k]] = k

(* The callback of a handle never runs once uv_close was called, though    *)
(* its event may have been pending then.                                   *)
ClosedIsQuiet == fed \subseteq {a \in Asyncs : state[a] = "open"}

\* Both with the types, whatever the store buffers hold.
ArrayConsistent == TypeOK /\ ArrayMatches /\ ClosedIsQuiet

(* Without store buffers UvAsync implements WakeupContract, which is how   *)
(* the thread pool uses its two notifiers: no call is lost, none makes     *)
(* more than one callback, and uv_close ends them.  A callback is to come  *)
(* for a sent that is set, and for an event that is pending.  A machine    *)
(* that buffers stores is left out: it shows the contract nothing.         *)
Seen(P) == ~buffering /\ P

Contract == INSTANCE WakeupContract WITH
  open   <- {a \in Asyncs : Seen(state[a] = "open")},
  coming <- [a \in Asyncs |-> (IF Seen(state[a] = "open" /\ mem[a]) THEN 1 ELSE 0)
                             + (IF Seen(a \in fed) THEN 1 ELSE 0)]

KeepsContract == Contract!Spec

(* pipecb's walk stays inside the array.                                   *)
WalkInv ==
  /\ at \in {"poll", "callback", "test", "clear"} => i = 0
  /\ at = "take" => i > 0
  /\ i <= Len(asyncs)

\* What the walk has fed lies behind it, and sent is still set for the
\* watcher that it is about to feed.
FedBehind ==
  /\ at \in {"test", "clear"} => fed = {}
  /\ at \in {"scan", "take"} => \A a \in fed : active[a] > i
  /\ at = "take" /\ ~buffering => mem[asyncs[i]]

(* The argument for AtLeastOnce without store buffers.  An owed callback   *)
(* is fed, or its sent is set; a sent that is set is seen by the walk      *)
(* that runs, or async_pending is or will be set; and async_pending comes  *)
(* with an eventfd that is or will be written, or is being served.         *)
SomeoneIn(points) == \E p \in Procs : pc[p] \in points

WalkWillSee(a) ==
  \/ at = "clear"
  \/ at \in {"scan", "take"} /\ active[a] <= i

WakeupInv ==
  /\ \A p \in Procs : buf[p] = <<>>
  /\ \A a \in Asyncs : state[a] = "open" /\ owed[a] => mem[a] \/ a \in fed
  /\ \A a \in Asyncs : state[a] = "open" /\ mem[a] =>
       mem["async_pending"] \/ WalkWillSee(a) \/ SomeoneIn({"test", "set"})
  /\ mem["async_pending"] => evfd \/ at \in {"test", "clear"} \/ SomeoneIn({"write"})

AsyncInv ==
  /\ WalkInv /\ ArrayMatches /\ ClosedIsQuiet
  /\ ~buffering => WakeupInv

(* The argument for FlagNotStuck, with store buffers too: a store that     *)
(* sets async_pending belongs to a thread that will write the eventfd, the *)
(* loop tests the flag with nothing buffered, and a flag that is set comes *)
(* with a wakeup, or with the store of the loop that will clear it.        *)
Buffers(p, x, v) == \E j \in DOMAIN buf[p] : buf[p][j] = <<x, v>>

FlagInv ==
  /\ \A p \in Procs : Buffers(p, "async_pending", TRUE) => pc[p] = "write"
  /\ at \notin {"poll", "callback"} => pc[Loop] = "idle"
  /\ at = "test" => buf[Loop] = <<>>
  /\ mem["async_pending"] =>
       \/ evfd \/ at \in {"test", "clear"} \/ SomeoneIn({"write"})
       \/ Buffers(Loop, "async_pending", FALSE)

-----------------------------------------------------------------------------

(* Without store buffers, every call is answered by a callback or by       *)
(* uv_close, unless the program closes handles for ever: uv_close makes an *)
(* event pending at once, so a close_cb that opens and closes the next     *)
(* handle keeps libev from polling.                                        *)
Answered ==
  \/ buffering
  \/ []<><<\E a \in Asyncs : uv_close(a)>>_vars
  \/ \A a \in Asyncs : owed[a] ~> ~owed[a] \/ state[a] # "open"

=============================================================================
