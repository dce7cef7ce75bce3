---------------------------- MODULE UvLoop_proof ----------------------------
(***************************************************************************)
(* Proofs about UvLoop, for every finite set of handles, every timeout and *)
(* repeat value and every length of a wait.                                *)
(***************************************************************************)
EXTENDS UvLoopProps, SequenceTheorems, FiniteSetTheorems, TLAPS

USE LoopAssumption

In(w, s) == \E n \in DOMAIN s : s[n] = w
Once(s)  == \A m, n \in DOMAIN s : s[m] = s[n] /\ m # n => s[m] = Dummy

-----------------------------------------------------------------------------
(* Slots of the pending array, and the sequences that it is made of.       *)

(* The two watchers of a handle, those of others and the dummy differ.     *)
LEMMA SlotFacts ==
  /\ \A g, h : Watcher(g) = Watcher(h) => g = h
  /\ \A g, h : Next_(g) = Next_(h) => g = h
  /\ \A g, h : Watcher(g) # Next_(h)
  /\ \A h : Watcher(h) # Dummy /\ Next_(h) # Dummy
<1>1. \A h : Len(Watcher(h)) = 2 /\ Len(Next_(h)) = 2 /\ Len(Dummy) = 0
  BY DEF Watcher, Next_, Dummy
<1> QED
  BY <1>1 DEF Watcher, Next_

(* An ordering of a finite set holds each member, once.                    *)
LEMMA OrderingFacts ==
  ASSUME NEW S, IsFiniteSet(S), NEW s \in SetToSeqs(S)
  PROVE  /\ s \in Seq(S)
         /\ \A m, n \in DOMAIN s : s[m] = s[n] => m = n
         /\ \A x : In(x, s) <=> x \in S
<1> DEFINE D == 1..Cardinality(S)
<1>1. Cardinality(S) \in Nat
  BY FS_CardinalityType
<1>2. s \in [D -> S] /\ \A m, n \in D : m # n => s[m] # s[n]
  BY DEF SetToSeqs
<1>3. s \in Injection(D, S)
  BY <1>2 DEF Injection, IsInjective
<1>4. IsFiniteSet(D) /\ Cardinality(D) = Cardinality(S)
  BY <1>1, FS_Interval
<1>5. s \in Surjection(D, S)
  BY <1>3, <1>4, FS_Injection
<1>6. \A x \in S : \E n \in D : s[n] = x
  BY <1>5 DEF Surjection
<1> QED
  BY <1>1, <1>2, <1>6 DEF In

(* Joining two sequences that share nothing.                               *)
LEMMA JoinedFacts ==
  ASSUME NEW S, NEW s \in Seq(S), NEW t \in Seq(S), Once(s), Once(t),
         \A w : ~(In(w, s) /\ In(w, t))
  PROVE  /\ s \o t \in Seq(S) /\ Once(s \o t)
         /\ \A w : In(w, s \o t) <=> In(w, s) \/ In(w, t)
<1> DEFINE j == s \o t
<1>1. /\ j \in Seq(S) /\ Len(j) = Len(s) + Len(t)
      /\ \A n \in 1..(Len(s) + Len(t)) : j[n] = IF n <= Len(s) THEN s[n] ELSE t[n - Len(s)]
  BY ConcatProperties
<1>2. Len(s) \in Nat /\ Len(t) \in Nat /\ DOMAIN s = 1..Len(s) /\ DOMAIN t = 1..Len(t)
      /\ DOMAIN j = 1..(Len(s) + Len(t))
  BY <1>1
<1> HIDE DEF j
<1>3. \A n \in DOMAIN j : \/ n \in DOMAIN s /\ j[n] = s[n]
                          \/ n - Len(s) \in DOMAIN t /\ j[n] = t[n - Len(s)]
  BY <1>1, <1>2
<1>4. \A n \in DOMAIN s : n \in DOMAIN j /\ j[n] = s[n]
  BY <1>1, <1>2
<1>5. \A n \in DOMAIN t : n + Len(s) \in DOMAIN j /\ j[n + Len(s)] = t[n]
  BY <1>1, <1>2
<1>6. \A w : In(w, j) <=> In(w, s) \/ In(w, t)
  BY <1>3, <1>4, <1>5 DEF In
<1>7. ASSUME NEW m \in DOMAIN j, NEW n \in DOMAIN j, j[m] = j[n], m # n PROVE j[m] = Dummy
  <2>1. CASE m \in DOMAIN s /\ j[m] = s[m] /\ n \in DOMAIN s /\ j[n] = s[n]
    BY <1>7, <2>1 DEF Once
  <2>2. CASE m - Len(s) \in DOMAIN t /\ j[m] = t[m - Len(s)]
             /\ n - Len(s) \in DOMAIN t /\ j[n] = t[n - Len(s)]
    <3>1. m - Len(s) # n - Len(s)
      BY <1>2, <1>7
    <3> QED
      BY <1>7, <2>2, <3>1 DEF Once
  <2>3. CASE m \in DOMAIN s /\ j[m] = s[m] /\ n - Len(s) \in DOMAIN t /\ j[n] = t[n - Len(s)]
    BY <1>7, <2>3 DEF In
  <2>4. CASE m - Len(s) \in DOMAIN t /\ j[m] = t[m - Len(s)] /\ n \in DOMAIN s /\ j[n] = s[n]
    BY <1>7, <2>4 DEF In
  <2> QED
    BY <1>3, <1>7, <2>1, <2>2, <2>3, <2>4
<1> QED
  BY <1>1, <1>6, <1>7 DEF j, Once

(* What is left when ev_invoke_pending has taken the last slot.            *)
LEMMA PoppedFacts ==
  ASSUME pendings \in Seq(Slots), Once(pendings), NEW w, Popped(w)
  PROVE  /\ pendings' \in Seq(Slots) /\ Once(pendings') /\ IsPending(w)
         /\ \A v : v # w => (In(v, pendings') <=> IsPending(v))
         /\ w # Dummy => ~In(w, pendings')
<1> DEFINE p == pendings
           f == Front(pendings)
<1>1. Len(p) \in Nat \ {0} /\ p[Len(p)] = w /\ DOMAIN p = 1..Len(p)
  BY EmptySeq DEF Popped, Last
<1>2. f \in Seq(Slots) /\ Len(f) = Len(p) - 1 /\ \A n \in 1..(Len(p) - 1) : f[n] = p[n]
  <2> DEFINE k == Len(p) - 1
  <2>1. k \in Nat /\ 1 \in Int /\ k \in Int /\ \A n \in 1..k : p[n] \in Slots
    BY <1>1
  <2> HIDE DEF k
  <2>2. /\ SubSeq(p, 1, k) \in Seq(Slots)
        /\ Len(SubSeq(p, 1, k)) = IF 1 <= k THEN k - 1 + 1 ELSE 0
        /\ \A n \in 1..(k - 1 + 1) : SubSeq(p, 1, k)[n] = p[1 + n - 1]
    BY <2>1, SubSeqProperties
  <2>3. f = SubSeq(p, 1, k)
    BY DEF Front, k
  <2> HIDE DEF f
  <2>4. f \in Seq(Slots) /\ Len(f) = k /\ \A n \in 1..k : f[n] = p[n]
    BY <2>1, <2>2, <2>3
  <2> QED
    BY <2>4, Zenon DEF k
<1>3. DOMAIN f = 1..(Len(p) - 1) /\ pendings' = f
  BY <1>2, <1>1 DEF Popped
<1> HIDE DEF f
<1>4. \A n \in DOMAIN f : n \in DOMAIN p /\ n # Len(p) /\ f[n] = p[n]
  BY <1>1, <1>2, <1>3
<1>5. \A n \in DOMAIN p : n = Len(p) \/ n \in DOMAIN f
  BY <1>1, <1>3
<1>6. Len(p) \in DOMAIN p
  BY <1>1
<1>7. Once(f)
  BY <1>4 DEF Once
<1>8. w # Dummy => ~In(w, f)
  BY <1>1, <1>4, <1>6 DEF Once, In
<1>9. \A v : v # w => (In(v, f) <=> IsPending(v))
  BY <1>1, <1>4, <1>5 DEF In, IsPending
<1> QED
  BY <1>1, <1>2, <1>3, <1>6, <1>7, <1>8, <1>9 DEF IsPending

(* Stopping a watcher takes its event, and no other.                       *)
LEMMA ClearedFacts ==
  ASSUME pendings \in Seq(Slots), Once(pendings), NEW w, w # Dummy
  PROVE  /\ Cleared(w) \in Seq(Slots) /\ Once(Cleared(w))
         /\ \A v : v # Dummy => (In(v, Cleared(w)) <=> IsPending(v) /\ v # w)
<1>1. Cleared(w) \in [1..Len(pendings) -> Slots]
  BY DEF Cleared, Slots
<1>2. Cleared(w) \in Seq(Slots)
  BY <1>1
<1> QED
  BY <1>2 DEF Cleared, Once, In, IsPending

(* Feeding an event that is not pending.                                   *)
LEMMA FedFacts ==
  ASSUME NEW p \in Seq(Slots), Once(p), NEW w \in Slots, ~In(w, p)
  PROVE  /\ Append(p, w) \in Seq(Slots) /\ Once(Append(p, w))
         /\ \A v : In(v, Append(p, w)) <=> In(v, p) \/ v = w
<1> DEFINE q == Append(p, w)
<1>1. /\ q \in Seq(Slots) /\ Len(q) = Len(p) + 1 /\ q[Len(p) + 1] = w
      /\ \A n \in 1..Len(p) : q[n] = p[n]
      /\ Len(p) \in Nat /\ DOMAIN p = 1..Len(p) /\ DOMAIN q = 1..(Len(p) + 1)
  OBVIOUS
<1> HIDE DEF q
<1>2. \A n \in DOMAIN q : n = Len(p) + 1 \/ (n \in DOMAIN p /\ q[n] = p[n])
  BY <1>1
<1>3. \A n \in DOMAIN p : n \in DOMAIN q /\ q[n] = p[n]
  BY <1>1
<1>4. Len(p) + 1 \in DOMAIN q
  BY <1>1
<1>5. Once(q)
  BY <1>1, <1>2 DEF Once, In
<1>6. \A v : In(v, q) <=> In(v, p) \/ v = w
  BY <1>1, <1>2, <1>3, <1>4 DEF In
<1> QED
  BY <1>1, <1>5, <1>6 DEF q

-----------------------------------------------------------------------------
(* What the loop queues in one iteration.                                  *)

(* A queue of the watchers of a set of handles.                            *)
Queues(q, S) ==
  /\ q \in Seq(Slots) /\ Once(q)
  /\ \A v : In(v, q) <=> \E h \in S : v = Watcher(h)

(* An ordering of watchers is a queue of them.                             *)
LEMMA WatchersQueued ==
  ASSUME NEW S \in SUBSET Handles, NEW q \in SetToSeqs({Watcher(h) : h \in S})
  PROVE  Queues(q, S)
<1> DEFINE W == {Watcher(h) : h \in S}
<1>1. IsFiniteSet(S)
  BY FS_Subset
<1>2. [h \in S |-> Watcher(h)] \in Surjection(S, W)
  BY DEF Surjection
<1>3. IsFiniteSet(W)
  BY <1>1, <1>2, FS_Surjection
<1>4. W \subseteq Slots /\ \A v : v \in W <=> \E h \in S : v = Watcher(h)
  BY DEF Slots
<1> HIDE DEF W
<1>5. /\ q \in Seq(W) /\ \A m, n \in DOMAIN q : q[m] = q[n] => m = n
      /\ \A v : In(v, q) <=> v \in W
  BY <1>3, OrderingFacts DEF W
<1> QED
  BY <1>4, <1>5 DEF Queues, Once

(* feed_reverse_done queues the watchers of the timers it was given.       *)
LEMMA TimersQueued ==
  ASSUME NEW S \in SUBSET Handles, NEW s \in SetToSeqs(S)
  PROVE  Queues([n \in DOMAIN s |-> Watcher(s[n])], S)
<1> DEFINE q == [n \in DOMAIN s |-> Watcher(s[n])]
<1>1. /\ s \in Seq(S) /\ \A m, n \in DOMAIN s : s[m] = s[n] => m = n
      /\ \A h : In(h, s) <=> h \in S
  BY FS_Subset, OrderingFacts
<1>2. \A n \in DOMAIN s : s[n] \in S /\ Watcher(s[n]) \in Slots
  BY <1>1 DEF Slots
<1>3. q \in [1..Len(s) -> Slots] /\ Len(s) \in Nat
  BY <1>1, <1>2
<1>4. q \in Seq(Slots) /\ DOMAIN q = DOMAIN s /\ \A n \in DOMAIN s : q[n] = Watcher(s[n])
  BY <1>3
<1> HIDE DEF q
<1>5. \A v : In(v, q) <=> \E h \in S : v = Watcher(h)
  BY <1>1, <1>2, <1>4 DEF In
<1>6. Once(q)
  BY <1>1, <1>4, SlotFacts DEF Once
<1> QED
  BY <1>4, <1>5, <1>6 DEF Queues, q

(* Queues of different handles follow one another.                         *)
LEMMA QueuesJoined ==
  ASSUME NEW S, NEW T, NEW p, NEW q, Queues(p, S), Queues(q, T), S \cap T = {}
  PROVE  Queues(p \o q, S \cup T)
<1>1. \A v : ~(In(v, p) /\ In(v, q))
  BY SlotFacts DEF Queues
<1>2. /\ p \o q \in Seq(Slots) /\ Once(p \o q)
      /\ \A v : In(v, p \o q) <=> In(v, p) \/ In(v, q)
  BY <1>1, JoinedFacts DEF Queues
<1> QED
  BY <1>2 DEF Queues

QueueInv ==
  /\ TypeOK /\ StoppedIsQuiet /\ CloseIsPending
  /\ \A h \in Handles : active[h] => state[h] = "open"

(* When nothing is pending no handle is closing.                           *)
LEMMA DrainedFacts ==
  ASSUME QueueInv, Drained
  PROVE  /\ \A v : ~IsPending(v)
         /\ \A h \in Handles : state[h] # "closing"
BY DEF QueueInv, CloseIsPending, IsPending, Drained

(* A poll queues the watchers of active handles, and among timers those    *)
(* that are due.                                                           *)
LEMMA PolledFacts ==
  ASSUME QueueInv, NEW e \in 0..MaxElapsed, Poll(e)
  PROVE  \E S \in SUBSET Handles :
           /\ Queues(pendings', S)
           /\ \A h \in S : active[h] /\ (kind[h] = "timer" => h \in Due(e))
           /\ Due(e) \subseteq S
<1>1. PICK io \in SUBSET (Active("stream") \cup Active("async")),
           due \in FeedOrders(e),
           check \in SetToSeqs({Watcher(h) : h \in Active("check")}) :
        \E events \in SetToSeqs({Watcher(h) : h \in io}),
           idle \in SetToSeqs(IF io = {} /\ due = <<>> THEN Idles ELSE {}) :
          pendings' = events \o [n \in DOMAIN due |-> Watcher(due[n])] \o idle \o check
  BY DEF Poll
<1>2. PICK events \in SetToSeqs({Watcher(h) : h \in io}),
           idle \in SetToSeqs(IF io = {} /\ due = <<>> THEN Idles ELSE {}) :
        pendings' = events \o [n \in DOMAIN due |-> Watcher(due[n])] \o idle \o check
  BY <1>1
<1> DEFINE fed == [n \in DOMAIN due |-> Watcher(due[n])]
           I == IF io = {} /\ due = <<>> THEN Active("idle") ELSE {}
<1>3. /\ io \in SUBSET Handles /\ Due(e) \in SUBSET Handles
      /\ Active("idle") \in SUBSET Handles /\ Active("check") \in SUBSET Handles
      /\ I \in SUBSET Handles
  BY DEF Active, Due
<1>4. Idles = {Watcher(h) : h \in Active("idle")}
  BY DrainedFacts DEF Poll, Idles
<1>5. idle \in SetToSeqs({Watcher(h) : h \in I})
  <2>1. CASE io = {} /\ due = <<>>
    BY <2>1, <1>2, <1>4
  <2>2. CASE ~(io = {} /\ due = <<>>)
    <3>1. {Watcher(h) : h \in I} = {}
      BY <2>2
    <3> QED
      BY <3>1, <2>2, <1>2
  <2> QED
    BY <2>1, <2>2
<1>6. Queues(events, io)
  BY <1>2, <1>3, WatchersQueued
<1>7. Queues(fed, Due(e))
  BY <1>3, TimersQueued DEF FeedOrders
<1>8. Queues(idle, I)
  BY <1>3, <1>5, WatchersQueued
<1>9. Queues(check, Active("check"))
  BY <1>1, <1>3, WatchersQueued
<1>10. /\ io \cap Due(e) = {} /\ (io \cup Due(e)) \cap I = {}
       /\ ((io \cup Due(e)) \cup I) \cap Active("check") = {}
  BY <1>1 DEF Active, Due
<1> HIDE DEF fed, I
<1>11. Queues(events \o fed, io \cup Due(e))
  BY <1>6, <1>7, <1>10, QueuesJoined
<1>12. Queues((events \o fed) \o idle, (io \cup Due(e)) \cup I)
  BY <1>8, <1>10, <1>11, QueuesJoined
<1>13. Queues(((events \o fed) \o idle) \o check, ((io \cup Due(e)) \cup I) \cup Active("check"))
  BY <1>9, <1>10, <1>12, QueuesJoined
<1>14. pendings' = ((events \o fed) \o idle) \o check
  BY <1>2 DEF fed
<1> DEFINE S == ((io \cup Due(e)) \cup I) \cup Active("check")
<1>15. S \in SUBSET Handles /\ Due(e) \subseteq S
  BY <1>3
<1>16. \A h \in S : active[h] /\ (kind[h] = "timer" => h \in Due(e))
  BY <1>1 DEF S, I, Active, Due
<1> QED
  BY <1>13, <1>14, <1>15, <1>16

(* An iteration queues the prepare watchers.                               *)
LEMMA IteratedFacts ==
  ASSUME Iterate
  PROVE  Queues(pendings', Active("prepare"))
BY WatchersQueued DEF Iterate, Active

-----------------------------------------------------------------------------
(* QueueInv is inductive.                                                  *)

(* Nothing is pending and nothing is open at first.                        *)
LEMMA InitQueue ==
  ASSUME Init PROVE QueueInv
<1>1. pendings \in Seq(Slots) /\ DOMAIN pendings = {}
  BY DEF Init
<1>2. StoppedIsQuiet /\ CloseIsPending
  BY <1>1 DEF Init, StoppedIsQuiet, CloseIsPending, IsPending
<1>3. TypeOK
  BY <1>1 DEF Init, TypeOK
<1> QED
  BY <1>2, <1>3 DEF QueueInv, Init

(* Taking the top slot disturbs nothing else.                              *)
LEMMA InvokedQueue ==
  ASSUME QueueInv,
         InvokeDummy \/ \E h \in Handles : InvokeWatcher(h) \/ uv__timer_cb(h)
  PROVE  QueueInv'
<1>1. PICK w : Popped(w) /\ (\A h : w # Next_(h))
  BY SlotFacts DEF InvokeDummy, InvokeWatcher, uv__timer_cb
<1>2. /\ pendings' \in Seq(Slots) /\ Once(pendings')
      /\ \A v : v # w => (In(v, pendings') <=> IsPending(v))
      /\ w # Dummy => ~In(w, pendings')
  BY <1>1, PoppedFacts DEF QueueInv, TypeOK, CloseIsPending, Once
<1>3. UNCHANGED <<phase, state, kind, active, left, repeat, refs, lost>>
  BY DEF InvokeDummy, InvokeWatcher, uv__timer_cb, handles, timers
<1>4. in' \in {"none", "callback", "close_cb"} /\ activecnt' \in Int
  BY DEF InvokeDummy, InvokeWatcher, uv__timer_cb, QueueInv, TypeOK
<1>5. TypeOK'
  BY <1>2, <1>3, <1>4 DEF QueueInv, TypeOK
<1>6. StoppedIsQuiet'
  <2>1. \A h \in Handles : In(Watcher(h), pendings') => IsPending(Watcher(h))
    BY <1>2, SlotFacts
  <2> QED
    BY <2>1, <1>3 DEF QueueInv, StoppedIsQuiet, IsPending, In
<1>7. CloseIsPending'
  BY <1>1, <1>2, <1>3 DEF QueueInv, CloseIsPending, IsPending, In, Once
<1> QED
  BY <1>3, <1>5, <1>6, <1>7 DEF QueueInv

(* The pending event of a closing handle is the only one, so close_cb runs *)
(* once.                                                                   *)
LEMMA FinishedQueue ==
  ASSUME QueueInv, NEW g \in Handles, uv__finish_close(g)
  PROVE  QueueInv' /\ state[g] = "closing"
<1>1. /\ pendings' \in Seq(Slots) /\ Once(pendings')
      /\ \A v : v # Next_(g) => (In(v, pendings') <=> IsPending(v))
      /\ ~In(Next_(g), pendings') /\ IsPending(Next_(g))
  BY PoppedFacts, SlotFacts DEF QueueInv, TypeOK, CloseIsPending, Once, uv__finish_close
<1>2. /\ UNCHANGED <<phase, kind, active, left, repeat, refs, lost>>
      /\ state' = [state EXCEPT ![g] = "closed"] /\ in' = "close_cb"
      /\ activecnt' \in Int
  BY DEF uv__finish_close, timers, QueueInv, TypeOK
<1>3. state[g] = "closing"
  BY <1>1 DEF QueueInv, CloseIsPending
<1>4. TypeOK'
  BY <1>1, <1>2 DEF QueueInv, TypeOK
<1>5. StoppedIsQuiet'
  BY <1>1, <1>2, <1>3, SlotFacts DEF QueueInv, TypeOK, StoppedIsQuiet, IsPending, In
<1>6. CloseIsPending'
  <2>1. \A h \in Handles : state'[h] = "closing" <=> In(Next_(h), pendings')
    BY <1>1, <1>2, SlotFacts DEF QueueInv, TypeOK, CloseIsPending
  <2> QED
    BY <2>1, <1>1 DEF CloseIsPending, IsPending, In, Once
<1> QED
  BY <1>2, <1>3, <1>4, <1>5, <1>6 DEF QueueInv, TypeOK

(* An iteration and a poll queue only active watchers, or expired timers.  *)
LEMMA LoopQueue ==
  ASSUME QueueInv, Iterate \/ \E e \in 0..MaxElapsed : Poll(e)
  PROVE  QueueInv'
<1>1. Drained
  BY DEF Iterate, Poll
<1>2. PICK S \in SUBSET Handles :
        /\ Queues(pendings', S)
        /\ \A h \in S : active[h] /\ (active'[h] \/ kind[h] = "timer")
  <2>1. CASE Iterate
    BY <2>1, IteratedFacts DEF Iterate, handles, Active
  <2>2. ASSUME NEW e \in 0..MaxElapsed, Poll(e) PROVE
          \E S \in SUBSET Handles :
            /\ Queues(pendings', S)
            /\ \A h \in S : active[h] /\ (active'[h] \/ kind[h] = "timer")
    <3>1. PICK S \in SUBSET Handles :
            /\ Queues(pendings', S)
            /\ \A h \in S : active[h] /\ (kind[h] = "timer" => h \in Due(e))
      BY <2>2, PolledFacts
    <3>2. \A h \in S : active'[h] \/ h \in Due(e)
      BY <2>2, <3>1 DEF Poll, QueueInv, TypeOK
    <3>3. \A h \in Due(e) : kind[h] = "timer"
      BY DEF Due, Active
    <3> QED
      BY <3>1, <3>2, <3>3
  <2> QED
    BY <2>1, <2>2
<1>3. UNCHANGED <<in, state, kind, repeat, refs, lost>> /\ phase' \in {"prepare", "check"}
  BY DEF Iterate, Poll, handles, timers
<1>4. \A h \in Handles : active'[h] => active[h]
  BY DEF Iterate, Poll, handles, QueueInv, TypeOK
<1>5. activecnt' \in Int /\ active' \in [Handles -> BOOLEAN]
  <2>1. CASE Iterate
    BY <2>1 DEF Iterate, handles, QueueInv, TypeOK
  <2>2. ASSUME NEW e \in 0..MaxElapsed, Poll(e)
        PROVE  activecnt' \in Int /\ active' \in [Handles -> BOOLEAN]
    <3>1. IsFiniteSet({h \in Due(e) : repeat[h] = 0})
      BY FS_Subset DEF Due, Active
    <3>2. Cardinality({h \in Due(e) : repeat[h] = 0}) \in Nat
      BY <3>1, FS_CardinalityType
    <3>3. activecnt' = activecnt - Cardinality({h \in Due(e) : repeat[h] = 0})
      BY <2>2 DEF Poll
    <3>4. active' \in [Handles -> BOOLEAN]
      BY <2>2 DEF Poll, QueueInv, TypeOK
    <3> QED
      BY <3>2, <3>3, <3>4 DEF QueueInv, TypeOK
  <2> QED
    BY <2>1, <2>2
<1>6. left' \in [Handles -> Int]
      /\ \A h \in Handles : kind'[h] = "timer" /\ active'[h] => left'[h] >= 0
  <2>1. CASE Iterate
    BY <2>1 DEF Iterate, handles, timers, QueueInv, TypeOK
  <2>2. ASSUME NEW e \in 0..MaxElapsed, Poll(e)
        PROVE  left' \in [Handles -> Int]
               /\ \A h \in Handles : kind'[h] = "timer" /\ active'[h] => left'[h] >= 0
    <3>1. /\ left \in [Handles -> Int] /\ repeat \in [Handles -> Nat] /\ e \in Int
          /\ left' = [h \in Handles |-> Later(e, h)] /\ kind' = kind
          /\ active' = [h \in Handles |-> active[h] /\ ~(h \in Due(e) /\ repeat[h] = 0)]
      BY <2>2 DEF Poll, QueueInv, TypeOK
    <3>2. \A h \in Handles : Later(e, h) \in Int
      BY <3>1 DEF Later
    <3>3. \A h \in Handles : kind[h] = "timer" /\ active'[h] => h \in Active("timer")
      BY <3>1 DEF Active
    <3>4. \A h \in Active("timer") : h \notin Due(e) => left[h] - e >= 0
      BY <3>1 DEF Due, Active
    <3>5. \A h \in Due(e) : active'[h] => repeat[h] > 0
      <4>1. Due(e) \subseteq Handles
        BY DEF Due, Active
      <4>2. \A h \in Due(e) : active'[h] => repeat[h] # 0
        BY <3>1, <4>1, Zenon
      <4> QED
        BY <3>1, <4>1, <4>2
    <3>6. \A h \in Handles : kind[h] = "timer" /\ active'[h] => Later(e, h) >= 0
      BY <3>1, <3>3, <3>4, <3>5 DEF Later
    <3> QED
      BY <3>1, <3>2, <3>6
  <2> QED
    BY <2>1, <2>2
<1>7. TypeOK'
  BY <1>2, <1>3, <1>5, <1>6 DEF QueueInv, TypeOK, Queues
<1>8. StoppedIsQuiet'
  BY <1>2, <1>3, SlotFacts DEF QueueInv, StoppedIsQuiet, IsPending, In, Queues
<1>9. CloseIsPending'
  <2>1. \A h \in Handles : state'[h] # "closing"
    BY <1>1, <1>3, DrainedFacts
  <2>2. \A h \in Handles : ~In(Next_(h), pendings')
    BY <1>2, SlotFacts DEF Queues
  <2> QED
    BY <1>2, <2>1, <2>2 DEF CloseIsPending, IsPending, In, Queues, Once
<1> QED
  BY <1>3, <1>4, <1>7, <1>8, <1>9 DEF QueueInv

(* What the program does to the watcher of one handle: it may open it, or  *)
(* start or stop the watcher, or both, but never changes the type.         *)
LEMMA ClearedQueue ==
  ASSUME QueueInv, NEW g \in Handles, state[g] = "open",
         pendings' = Cleared(Watcher(g)), UNCHANGED <<in, state, kind>>,
         phase' = phase, refs' = refs, lost' \in Nat,
         activecnt' \in Int, UNCHANGED timers,
         active' = [active EXCEPT ![g] = FALSE]
  PROVE  QueueInv'
<1>1. /\ pendings' \in Seq(Slots) /\ Once(pendings')
      /\ \A v : v # Dummy => (In(v, pendings') <=> IsPending(v) /\ v # Watcher(g))
  BY ClearedFacts, SlotFacts DEF QueueInv, TypeOK, CloseIsPending, Once
<1>2. TypeOK'
  BY <1>1 DEF QueueInv, TypeOK, timers
<1>3. StoppedIsQuiet'
  <2>1. ASSUME NEW h \in Handles, IsPending(Watcher(h))'
        PROVE  h # g /\ IsPending(Watcher(h))
    BY <1>1, <2>1, SlotFacts DEF IsPending, In
  <2>2. \A h \in Handles : h # g => active'[h] = active[h]
    BY DEF QueueInv, TypeOK
  <2> QED
    BY <2>1, <2>2 DEF QueueInv, StoppedIsQuiet
<1>4. CloseIsPending'
  <2>1. \A h \in Handles : In(Next_(h), pendings') <=> IsPending(Next_(h))
    BY <1>1, SlotFacts
  <2> QED
    BY <1>1, <2>1 DEF QueueInv, CloseIsPending, IsPending, In, Once
<1>5. \A h \in Handles : active'[h] => state'[h] = "open"
  BY DEF QueueInv, TypeOK
<1> QED
  BY <1>2, <1>3, <1>4, <1>5 DEF QueueInv

(* Opening or starting a handle leaves the queue alone.                    *)
LEMMA StartedQueue ==
  ASSUME QueueInv, NEW g \in Handles, UNCHANGED <<pendings, in, kind>>,
         phase' \in {"out", "entry", "prepare", "check"},
         refs' \in Int, lost' \in Nat, activecnt' \in Int,
         \/ UNCHANGED state
         \/ state[g] = "closed" /\ state' = [state EXCEPT ![g] = "open"],
         \/ UNCHANGED active
         \/ ~active[g] /\ state'[g] = "open" /\ \E b \in BOOLEAN : active' = [active EXCEPT ![g] = b],
         left' \in [Handles -> Int], repeat' \in [Handles -> Nat],
         \A h \in Handles : kind'[h] = "timer" /\ active'[h] => left'[h] >= 0
  PROVE  QueueInv'
<1>1. TypeOK'
  BY DEF QueueInv, TypeOK
<1>2. \A v : In(v, pendings') <=> IsPending(v)
  BY DEF In, IsPending
<1>3. /\ \A h \in Handles : state[h] = "open" => state'[h] = "open"
      /\ \A h \in Handles : state[h] = "closing" <=> state'[h] = "closing"
      /\ \A h \in Handles : active[h] => active'[h]
      /\ \A h \in Handles : active'[h] => state'[h] = "open"
  BY DEF QueueInv, TypeOK
<1>4. StoppedIsQuiet'
  BY <1>2, <1>3 DEF QueueInv, StoppedIsQuiet, IsPending, In
<1>5. CloseIsPending'
  BY <1>2, <1>3 DEF QueueInv, CloseIsPending, IsPending, In
<1> QED
  BY <1>1, <1>3, <1>4, <1>5 DEF QueueInv

(* uv_close takes the event of the watcher and feeds that of close_cb,     *)
(* which is not pending yet.                                               *)
LEMMA ClosedQueue ==
  ASSUME QueueInv, NEW g \in Handles, uv_close(g)
  PROVE  QueueInv'
<1> DEFINE c == Cleared(Watcher(g))
<1>1. /\ c \in Seq(Slots) /\ Once(c)
      /\ \A v : v # Dummy => (In(v, c) <=> IsPending(v) /\ v # Watcher(g))
  BY ClearedFacts, SlotFacts DEF QueueInv, TypeOK, CloseIsPending, Once
<1>2. ~IsPending(Next_(g)) /\ state[g] = "open"
  BY DEF uv_close, QueueInv, CloseIsPending
<1>3. Next_(g) \in Slots /\ ~In(Next_(g), c)
  BY <1>1, <1>2, SlotFacts DEF Slots
<1>4. pendings' = Append(c, Next_(g))
  BY DEF uv_close
<1> HIDE DEF c
<1>5. /\ pendings' \in Seq(Slots) /\ Once(pendings')
      /\ \A v : In(v, pendings') <=> In(v, c) \/ v = Next_(g)
  BY <1>1, <1>3, <1>4, FedFacts
<1>6. /\ state' = [state EXCEPT ![g] = "closing"] /\ active' = [active EXCEPT ![g] = FALSE]
      /\ UNCHANGED <<phase, in, kind, left, repeat, refs>>
      /\ activecnt' \in Int /\ lost' \in Nat
  BY DEF uv_close, timers, QueueInv, TypeOK, Loses, Keeps
<1>7. TypeOK'
  BY <1>5, <1>6 DEF QueueInv, TypeOK
<1>8. StoppedIsQuiet'
  <2>1. \A h \in Handles : In(Watcher(h), pendings') => IsPending(Watcher(h)) /\ h # g
    BY <1>1, <1>5, SlotFacts
  <2>2. \A h \in Handles : h # g => state'[h] = state[h] /\ active'[h] = active[h]
    BY <1>6 DEF QueueInv, TypeOK
  <2> QED
    BY <1>6, <2>1, <2>2 DEF QueueInv, StoppedIsQuiet, IsPending, In
<1>9. CloseIsPending'
  <2>1. \A h \in Handles : state'[h] = "closing" <=> In(Next_(h), pendings')
    BY <1>1, <1>2, <1>5, <1>6, SlotFacts DEF QueueInv, TypeOK, CloseIsPending
  <2> QED
    BY <2>1, <1>5 DEF CloseIsPending, IsPending, In, Once
<1>10. \A h \in Handles : active'[h] => state'[h] = "open"
  BY <1>6 DEF QueueInv, TypeOK
<1> QED
  BY <1>7, <1>8, <1>9, <1>10 DEF QueueInv

(* Every step of the loop and of the program preserves QueueInv.           *)
LEMMA StepQueue ==
  ASSUME QueueInv, [Next]_vars
  PROVE  QueueInv'
<1>1. ASSUME NEW g \in Handles, Init_(g) PROVE QueueInv'
  <2>1. /\ UNCHANGED <<phase, in, pendings, kind, left, repeat, refs, lost>>
        /\ state[g] = "closed" /\ state' = [state EXCEPT ![g] = "open"]
        /\ active' = [active EXCEPT ![g] = (kind[g] = "async")]
    BY <1>1 DEF Init_, timers
  <2>2. ~active[g] /\ state'[g] = "open" /\ (kind[g] = "async") \in BOOLEAN
    BY <2>1 DEF QueueInv, TypeOK
  <2>3. \A h \in Handles : kind'[h] = "timer" /\ active'[h] => left'[h] >= 0
    BY <2>1 DEF QueueInv, TypeOK
  <2>4. /\ left' \in [Handles -> Int] /\ repeat' \in [Handles -> Nat]
        /\ phase' \in {"out", "entry", "prepare", "check"}
        /\ refs' \in Int /\ lost' \in Nat
    BY <2>1 DEF QueueInv, TypeOK
  <2>5. activecnt' \in Int
    BY <1>1 DEF Init_, QueueInv, TypeOK
  <2>6. \E b \in BOOLEAN : active' = [active EXCEPT ![g] = b]
    BY <2>1, <2>2
  <2> QED
    BY <2>1, <2>2, <2>3, <2>4, <2>5, <2>6, StartedQueue
<1>2. ASSUME NEW g \in Handles, Start(g) PROVE QueueInv'
  <2>1. /\ UNCHANGED <<phase, in, pendings, state, kind, left, repeat, refs, lost>>
        /\ active' = [active EXCEPT ![g] = TRUE] /\ ~active[g] /\ state'[g] = "open"
        /\ kind[g] # "timer"
    BY <1>2 DEF Start, timers, Unreferenced
  <2>2. \A h \in Handles : kind'[h] = "timer" /\ active'[h] => left'[h] >= 0
    BY <2>1 DEF QueueInv, TypeOK
  <2>3. /\ left' \in [Handles -> Int] /\ repeat' \in [Handles -> Nat]
        /\ phase' \in {"out", "entry", "prepare", "check"}
        /\ refs' \in Int /\ lost' \in Nat
    BY <2>1 DEF QueueInv, TypeOK
  <2>4. activecnt' \in Int
    BY <1>2 DEF Start, QueueInv, TypeOK
  <2> QED
    BY <2>1, <2>2, <2>3, <2>4, StartedQueue
<1>3. ASSUME NEW g \in Handles, Stop(g) PROVE QueueInv'
  <2>1. activecnt' \in Int /\ lost' \in Nat /\ state[g] = "open"
    BY <1>3 DEF Stop, QueueInv, TypeOK
  <2>2. /\ UNCHANGED <<phase, in, state, kind, timers, refs>>
        /\ active' = [active EXCEPT ![g] = FALSE] /\ pendings' = Cleared(Watcher(g))
    BY <1>3 DEF Stop
  <2> QED
    BY <2>1, <2>2, ClearedQueue
<1>4. ASSUME NEW g \in Handles, uv_timer_stop(g) PROVE QueueInv'
  <2>1. activecnt' \in Int /\ lost' \in Nat /\ state[g] = "open"
    BY <1>4 DEF uv_timer_stop, Open, Loses, Keeps, QueueInv, TypeOK
  <2>2. /\ UNCHANGED <<phase, in, state, kind, timers, refs>>
        /\ active' = [active EXCEPT ![g] = FALSE] /\ pendings' = Cleared(Watcher(g))
    BY <1>4 DEF uv_timer_stop
  <2> QED
    BY <2>1, <2>2, ClearedQueue
<1>5. ASSUME NEW g \in Handles, NEW t \in Timeouts, NEW r \in Repeats, uv_timer_start(g, t, r)
      PROVE  QueueInv'
  <2>1. left' \in [Handles -> Int] /\ repeat' \in [Handles -> Nat]
        /\ left' = [left EXCEPT ![g] = t] /\ t >= 0 /\ lost' \in Nat
    BY <1>5, LoopAssumption DEF uv_timer_start, QueueInv, TypeOK, Loses, Keeps
  <2>2. /\ UNCHANGED <<phase, in, activecnt, pendings, state, kind, refs>>
        /\ active' = [active EXCEPT ![g] = TRUE] /\ ~active[g] /\ state[g] = "open"
    BY <1>5 DEF uv_timer_start, Open
  <2>3. \A h \in Handles : kind'[h] = "timer" /\ active'[h] => left'[h] >= 0
    BY <2>1, <2>2 DEF QueueInv, TypeOK
  <2>4. /\ phase' \in {"out", "entry", "prepare", "check"}
        /\ activecnt' \in Int /\ refs' \in Int
    BY <2>2 DEF QueueInv, TypeOK
  <2> QED
    BY <2>1, <2>2, <2>3, <2>4, StartedQueue
<1>6. ASSUME NEW g \in Handles, uv_timer_again(g) PROVE QueueInv'
  <2>1. CASE repeat[g] > 0
    <3>1. /\ left' = [left EXCEPT ![g] = repeat[g]] /\ left' \in [Handles -> Int]
          /\ UNCHANGED <<phase, in, activecnt, pendings, state, kind, active, repeat, refs, lost>>
      BY <1>6, <2>1 DEF uv_timer_again, QueueInv, TypeOK
    <3>2. \A h \in Handles : kind'[h] = "timer" /\ active'[h] => left'[h] >= 0
      BY <2>1, <3>1 DEF QueueInv, TypeOK
    <3> QED
      BY <3>1, <3>2, StartedQueue DEF QueueInv, TypeOK
  <2>2. CASE ~(repeat[g] > 0)
    BY <1>6, <2>2, ClearedQueue DEF uv_timer_again, Open, timers, QueueInv, TypeOK
  <2> QED
    BY <2>1, <2>2
<1>7. ASSUME NEW g \in Handles, NEW r \in Repeats, uv_timer_set_repeat(g, r) PROVE QueueInv'
  BY <1>7, StartedQueue, LoopAssumption DEF uv_timer_set_repeat, handles, QueueInv, TypeOK
<1>8. ASSUME uv_ref \/ uv_unref \/ uv_run \/ Exit \/ Return \/ UNCHANGED vars
      PROVE  QueueInv'
  <2>1. UNCHANGED <<pendings, state, kind, active, left, repeat, lost>>
    BY <1>8 DEF uv_ref, uv_unref, uv_run, Exit, Return, vars, handles, timers
  <2>2. /\ phase' \in {"out", "entry", "prepare", "check"}
        /\ in' \in {"none", "callback", "close_cb"} /\ activecnt' \in Int /\ refs' \in Int
    BY <1>8 DEF uv_ref, uv_unref, uv_run, Exit, Return, vars, QueueInv, TypeOK
  <2>3. TypeOK'
    BY <2>1, <2>2 DEF QueueInv, TypeOK
  <2> QED
    BY <2>1, <2>3 DEF QueueInv, StoppedIsQuiet, CloseIsPending, IsPending
<1>9. ASSUME InvokeDummy \/ \E h \in Handles : InvokeWatcher(h) \/ uv__timer_cb(h)
      PROVE  QueueInv'
  BY <1>9, InvokedQueue
<1>10. ASSUME NEW g \in Handles, uv__finish_close(g) PROVE QueueInv'
  BY <1>10, FinishedQueue
<1>11. ASSUME Iterate \/ \E e \in 0..MaxElapsed : Poll(e) PROVE QueueInv'
  BY <1>11, LoopQueue
<1>12. ASSUME NEW g \in Handles, uv_close(g) PROVE QueueInv'
  BY <1>12, ClosedQueue
<1> QED
  BY <1>1, <1>2, <1>3, <1>4, <1>5, <1>6, <1>7, <1>8, <1>9, <1>10, <1>11, <1>12
  DEF Next, Loop, User

-----------------------------------------------------------------------------
(* RefBalance is inductive, given QueueInv.                                *)

(* How the size of a set of handles changes with one handle.               *)
LEMMA Counting ==
  \A S \in SUBSET Handles, h \in Handles :
    /\ Cardinality(S) \in Nat
    /\ h \notin S => Cardinality(S \cup {h}) = Cardinality(S) + 1
    /\ h \in S => Cardinality(S \ {h}) = Cardinality(S) - 1
BY FS_Subset, FS_CardinalityType, FS_AddElement, FS_RemoveElement

(* At first no handle holds a reference.                                   *)
LEMMA InitBalance ==
  ASSUME Init PROVE RefBalance
<1>1. OpenHandles = {} /\ Closing = {} /\ Streaming = {} /\ ExpiredTimers = {}
  BY DEF Init, OpenHandles, Closing, Streaming, ExpiredTimers, Expired, IsPending
<1> QED
  BY <1>1, FS_EmptySet DEF Init, RefBalance

Counted == <<OpenHandles, Closing, Streaming, ExpiredTimers>>

(* What RefBalance counts are sets of handles.                             *)
LEMMA CountedTypes ==
  /\ OpenHandles \in SUBSET Handles /\ Closing \in SUBSET Handles
  /\ Streaming \in SUBSET Handles /\ ExpiredTimers \in SUBSET Handles
BY DEF OpenHandles, Closing, Streaming, ExpiredTimers

CountsAre ==
  /\ Cardinality(OpenHandles) \in Nat /\ Cardinality(Closing) \in Nat
  /\ Cardinality(Streaming) \in Nat /\ Cardinality(ExpiredTimers) \in Nat

(* Their sizes are numbers.                                                *)
LEMMA CountsTyped == CountsAre
BY CountedTypes, Counting, FS_Subset, FS_CardinalityType DEF CountsAre

(* And so they are after a step.                                           *)
LEMMA CountsTypedNext == CountsAre'
<1>1. /\ OpenHandles' \in SUBSET Handles /\ Closing' \in SUBSET Handles
      /\ Streaming' \in SUBSET Handles /\ ExpiredTimers' \in SUBSET Handles
  BY DEF OpenHandles, Closing, Streaming, ExpiredTimers
<1> QED
  BY <1>1, FS_Subset, FS_CardinalityType DEF CountsAre

(* The steps of ev_invoke_pending: a timer's callback takes its reference  *)
(* back, and close_cb runs between the two that a closing handle holds.    *)
LEMMA InvokedBalance ==
  ASSUME QueueInv, RefBalance, QueueInv',
         \/ InvokeDummy \/ Return
         \/ \E g \in Handles : InvokeWatcher(g) \/ uv__timer_cb(g) \/ uv__finish_close(g)
  PROVE  RefBalance'
<1>0. CountsAre /\ CountsAre'
  BY CountsTyped, CountsTypedNext
<1>1. ASSUME NEW w, Popped(w), UNCHANGED <<kind, active>>
      PROVE  /\ \A h \in Handles : w = Watcher(h) => ExpiredTimers' = ExpiredTimers \ {h}
             /\ (\A h \in Handles : w # Watcher(h)) => ExpiredTimers' = ExpiredTimers
  <2>1. /\ \A v : v # w => (In(v, pendings') <=> IsPending(v))
        /\ w # Dummy => ~In(w, pendings')
    BY <1>1, PoppedFacts DEF QueueInv, TypeOK, CloseIsPending, Once
  <2>2. \A h \in Handles : h \in ExpiredTimers' <=>
          kind[h] = "timer" /\ ~active[h] /\ In(Watcher(h), pendings')
    BY <1>1 DEF ExpiredTimers, Expired, IsPending, In
  <2>3. \A h \in Handles : h \in ExpiredTimers <=>
          kind[h] = "timer" /\ ~active[h] /\ IsPending(Watcher(h))
    BY DEF ExpiredTimers, Expired
  <2> QED
    BY <2>1, <2>2, <2>3, SlotFacts DEF ExpiredTimers
<1>2. /\ activecnt \in Int /\ activecnt' \in Int /\ lost \in Nat /\ refs \in Int
      /\ in \in {"none", "callback", "close_cb"}
  BY DEF QueueInv, TypeOK
<1>3. CASE InvokeDummy
  <2>1. Popped(Dummy) /\ UNCHANGED <<in, activecnt, state, kind, active, refs, lost>>
    BY <1>3 DEF InvokeDummy, handles
  <2>2. UNCHANGED Counted
    BY <1>1, <2>1, SlotFacts DEF OpenHandles, Closing, Streaming, Counted
  <2> QED
    BY <2>1, <2>2 DEF Counted, RefBalance
<1>4. ASSUME NEW g \in Handles, InvokeWatcher(g) PROVE RefBalance'
  <2>1. /\ Popped(Watcher(g)) /\ UNCHANGED <<activecnt, state, kind, active, refs, lost>>
        /\ kind[g] # "timer" /\ in = "none" /\ in' = "callback"
    BY <1>4 DEF InvokeWatcher, handles, Popped
  <2>2. g \notin ExpiredTimers
    BY <2>1 DEF ExpiredTimers, Expired
  <2>3. ExpiredTimers' = ExpiredTimers
    BY <1>1, <2>1, <2>2
  <2>4. UNCHANGED <<OpenHandles, Closing, Streaming>>
    BY <2>1 DEF OpenHandles, Closing, Streaming
  <2> QED
    BY <2>1, <2>3, <2>4 DEF RefBalance
<1>5. ASSUME NEW g \in Handles, uv__timer_cb(g) PROVE RefBalance'
  <2>1. /\ Popped(Watcher(g)) /\ UNCHANGED <<state, kind, active, refs, lost>>
        /\ kind[g] = "timer" /\ in = "none" /\ in' = "callback"
        /\ activecnt' = IF active[g] THEN activecnt ELSE activecnt + 1
    BY <1>5 DEF uv__timer_cb, handles, Popped
  <2>2. IsPending(Watcher(g))
    BY <2>1, PoppedFacts DEF QueueInv, TypeOK, CloseIsPending, Once
  <2>3. g \in ExpiredTimers <=> ~active[g]
    BY <2>1, <2>2 DEF ExpiredTimers, Expired
  <2>4. ExpiredTimers' = ExpiredTimers \ {g}
    BY <1>1, <2>1
  <2>5. UNCHANGED <<OpenHandles, Closing, Streaming>>
    BY <2>1 DEF OpenHandles, Closing, Streaming
  <2>6. Cardinality(ExpiredTimers') =
          IF active[g] THEN Cardinality(ExpiredTimers) ELSE Cardinality(ExpiredTimers) - 1
    BY <2>3, <2>4, CountedTypes, Counting
  <2> QED
    BY <1>0, <1>2, <2>1, <2>5, <2>6 DEF RefBalance, CountsAre
<1>6. ASSUME NEW g \in Handles, uv__finish_close(g) PROVE RefBalance'
  <2>1. /\ Popped(Next_(g)) /\ UNCHANGED <<kind, active, refs, lost>>
        /\ state' = [state EXCEPT ![g] = "closed"]
        /\ in = "none" /\ in' = "close_cb" /\ activecnt' = activecnt - 1
    BY <1>6 DEF uv__finish_close, Popped
  <2>2. state[g] = "closing"
    BY <1>6, FinishedQueue
  <2>3. ExpiredTimers' = ExpiredTimers /\ Streaming' = Streaming
    BY <1>1, <2>1, SlotFacts DEF Streaming
  <2>4. OpenHandles' = OpenHandles \ {g} /\ Closing' = Closing \ {g}
    BY <2>1 DEF OpenHandles, Closing, QueueInv, TypeOK
  <2>5. g \in OpenHandles /\ g \in Closing
    BY <2>2 DEF OpenHandles, Closing
  <2>6. /\ Cardinality(OpenHandles') = Cardinality(OpenHandles) - 1
        /\ Cardinality(Closing') = Cardinality(Closing) - 1
    BY <2>4, <2>5, CountedTypes, Counting
  <2>7. /\ Cardinality(ExpiredTimers') = Cardinality(ExpiredTimers)
        /\ Cardinality(Streaming') = Cardinality(Streaming)
    BY <2>3
  <2>8. lost' = lost /\ refs' = refs /\ in = "none" /\ in' = "close_cb"
        /\ activecnt' = activecnt - 1
    BY <2>1
  <2>9. activecnt + lost = Cardinality(OpenHandles) + Cardinality(Closing)
          + Cardinality(Streaming) + refs - Cardinality(ExpiredTimers)
    BY <1>0, <1>2, <2>8 DEF RefBalance, CountsAre
  <2>10. activecnt' + lost' = Cardinality(OpenHandles') + Cardinality(Closing')
          + Cardinality(Streaming') + refs' - Cardinality(ExpiredTimers') + 1
    BY <1>0, <1>2, <2>6, <2>7, <2>8, <2>9, SMTT(30) DEF CountsAre
  <2> QED
    BY <2>8, <2>10 DEF RefBalance
<1>7. CASE Return
  <2>1. /\ UNCHANGED <<pendings, state, kind, active, refs, lost>> /\ in # "none" /\ in' = "none"
        /\ activecnt' = IF in = "close_cb" THEN activecnt - 1 ELSE activecnt
    BY <1>7 DEF Return, handles
  <2>2. UNCHANGED Counted
    BY <2>1 DEF Counted, OpenHandles, Closing, Streaming, ExpiredTimers, Expired, IsPending
  <2>3. /\ Cardinality(OpenHandles') = Cardinality(OpenHandles)
        /\ Cardinality(Closing') = Cardinality(Closing)
        /\ Cardinality(Streaming') = Cardinality(Streaming)
        /\ Cardinality(ExpiredTimers') = Cardinality(ExpiredTimers)
    BY <2>2 DEF Counted
  <2> QED
    BY <1>0, <1>2, <2>1, <2>3 DEF RefBalance, CountsAre
<1> QED
  BY <1>3, <1>4, <1>5, <1>6, <1>7

(* The timers that libev stops in a poll are those whose callbacks wait.   *)
LEMMA LoopBalance ==
  ASSUME QueueInv, RefBalance, QueueInv', Iterate \/ \E e \in 0..MaxElapsed : Poll(e)
  PROVE  RefBalance'
<1>0. CountsAre /\ CountsAre'
  BY CountsTyped, CountsTypedNext
<1>1. Drained
  BY DEF Iterate, Poll
<1>2. ExpiredTimers = {}
  BY <1>1, DrainedFacts DEF ExpiredTimers, Expired
<1>3. UNCHANGED <<in, state, kind, repeat, refs, lost>>
  BY DEF Iterate, Poll, handles, timers
<1>4. UNCHANGED <<OpenHandles, Closing>>
  BY <1>3 DEF OpenHandles, Closing
<1>5. activecnt \in Int /\ activecnt' \in Int /\ lost \in Nat /\ refs \in Int
  BY DEF QueueInv, TypeOK
<1>6. CASE Iterate
  <2>1. UNCHANGED <<active, activecnt>> /\ Queues(pendings', Active("prepare"))
    BY <1>6, IteratedFacts DEF Iterate, handles
  <2>2. \A h \in Handles : ~(kind[h] = "timer" /\ In(Watcher(h), pendings'))
    BY <2>1, SlotFacts DEF Queues, Active
  <2>3. ExpiredTimers' = {}
    BY <1>3, <2>2 DEF ExpiredTimers, Expired, IsPending, In
  <2>4. Streaming' = Streaming
    BY <1>3, <2>1 DEF Streaming
  <2> QED
    BY <1>2, <1>3, <1>4, <2>1, <2>3, <2>4 DEF RefBalance
<1>7. ASSUME NEW e \in 0..MaxElapsed, Poll(e) PROVE RefBalance'
  <2> DEFINE D == {h \in Due(e) : repeat[h] = 0}
  <2>1. /\ active' = [h \in Handles |-> active[h] /\ ~(h \in Due(e) /\ repeat[h] = 0)]
        /\ activecnt' = activecnt - Cardinality(D)
    BY <1>7 DEF Poll
  <2>2. PICK S \in SUBSET Handles :
          /\ Queues(pendings', S)
          /\ \A h \in S : active[h] /\ (kind[h] = "timer" => h \in Due(e))
          /\ Due(e) \subseteq S
    BY <1>7, PolledFacts
  <2>3. \A h \in Handles : In(Watcher(h), pendings') <=> h \in S
    BY <2>2, SlotFacts DEF Queues
  <2>4. \A h \in Due(e) : h \in Handles /\ kind[h] = "timer"
    BY DEF Due, Active
  <2>5. \A h \in Handles : active'[h] <=> active[h] /\ h \notin D
    BY <2>1
  <2> HIDE DEF D
  <2>6. \A h \in D : h \in Due(e)
    BY DEF D
  <2>7. \A h \in Handles : kind[h] = "timer" /\ ~active'[h] /\ h \in S <=> h \in D
    BY <2>2, <2>4, <2>5, <2>6
  <2>8. ExpiredTimers' = {h \in Handles : kind[h] = "timer" /\ ~active'[h] /\ h \in S}
    BY <1>3, <2>3 DEF ExpiredTimers, Expired, IsPending, In
  <2>9. ExpiredTimers' = D /\ D \in SUBSET Handles
    BY <2>4, <2>6, <2>7, <2>8
  <2>10. Streaming' = Streaming
    BY <1>3, <2>4, <2>5, <2>6 DEF Streaming
  <2>11. Cardinality(ExpiredTimers) = 0
    BY <1>2, FS_EmptySet
  <2>12. Cardinality(D) \in Nat
    BY <2>9, FS_Subset, FS_CardinalityType
  <2>13. /\ Cardinality(ExpiredTimers') = Cardinality(D)
         /\ Cardinality(Streaming') = Cardinality(Streaming)
         /\ Cardinality(OpenHandles') = Cardinality(OpenHandles)
         /\ Cardinality(Closing') = Cardinality(Closing)
    BY <1>4, <2>9, <2>10
  <2>14. in = "none" /\ in' = "none" /\ lost' = lost /\ refs' = refs
         /\ activecnt' = activecnt - Cardinality(D)
    BY <1>1, <1>3, <2>1 DEF Drained
  <2>15. activecnt + lost =
           Cardinality(OpenHandles) + Cardinality(Closing) + Cardinality(Streaming) + refs
    BY <1>0, <1>5, <2>11, <2>14 DEF RefBalance, CountsAre
  <2>16. activecnt' + lost' = Cardinality(OpenHandles) + Cardinality(Closing)
           + Cardinality(Streaming) + refs - Cardinality(D)
    BY <1>0, <1>5, <2>12, <2>14, <2>15 DEF CountsAre
  <2>17. activecnt' + lost' = Cardinality(OpenHandles') + Cardinality(Closing')
           + Cardinality(Streaming') + refs' - Cardinality(ExpiredTimers')
    BY <2>13, <2>14, <2>16
  <2> QED
    BY <1>0, <1>5, <2>14, <2>17 DEF RefBalance, CountsAre
<1> QED
  BY <1>6, <1>7

(* A call on one handle takes at most that handle's event.                 *)
LEMMA TakenFacts ==
  ASSUME NEW g \in Handles, UNCHANGED kind,
         \A h \in Handles : In(Watcher(h), pendings') => IsPending(Watcher(h)),
         \A h \in Handles : h # g /\ IsPending(Watcher(h)) => In(Watcher(h), pendings'),
         \A h \in Handles : h # g => (active'[h] <=> active[h]),
         In(Watcher(g), pendings') => active'[g]
  PROVE  ExpiredTimers' = ExpiredTimers \ {g}
<1>1. \A h \in Handles : h \in ExpiredTimers' <=>
        kind[h] = "timer" /\ ~active'[h] /\ In(Watcher(h), pendings')
  BY DEF ExpiredTimers, Expired, IsPending, In
<1>2. \A h \in Handles : h \in ExpiredTimers <=>
        kind[h] = "timer" /\ ~active[h] /\ IsPending(Watcher(h))
  BY DEF ExpiredTimers, Expired
<1>3. \A h \in Handles : h \in ExpiredTimers' <=> h \in ExpiredTimers /\ h # g
  BY <1>1, <1>2
<1> QED
  BY <1>3 DEF ExpiredTimers

(* What is lost is the reference of an expired timer.                      *)
LEMMA LostFacts ==
  ASSUME QueueInv, NEW g \in Handles, Loses(g) \/ Keeps(g),
         ExpiredTimers' = ExpiredTimers \ {g}
  PROVE  lost' - lost = Cardinality(ExpiredTimers) - Cardinality(ExpiredTimers')
<1>1. g \in ExpiredTimers <=> Expired(g)
  BY DEF ExpiredTimers
<1>2. lost \in Nat /\ Cardinality(ExpiredTimers) \in Nat
  BY CountsTyped DEF QueueInv, TypeOK, CountsAre
<1>3. CASE Loses(g)
  <2>1. lost' = lost + 1 /\ g \in ExpiredTimers
    BY <1>1, <1>3 DEF Loses
  <2>2. Cardinality(ExpiredTimers') = Cardinality(ExpiredTimers) - 1
    BY <2>1, CountedTypes, Counting
  <2> QED
    BY <1>2, <2>1, <2>2
<1>4. CASE Keeps(g)
  <2>1. lost' = lost /\ g \notin ExpiredTimers
    BY <1>1, <1>4 DEF Keeps
  <2>2. Cardinality(ExpiredTimers') = Cardinality(ExpiredTimers)
    <3>1. ExpiredTimers' = ExpiredTimers
      BY <2>1
    <3> QED
      BY <3>1
  <2> QED
    BY <1>2, <2>1, <2>2
<1> QED
  BY <1>3, <1>4

(* The event that uv_timer_stop, uv_idle_stop, ... and uv_close take.      *)
LEMMA StoppedFacts ==
  ASSUME QueueInv, NEW g \in Handles, UNCHANGED kind,
         active' = [active EXCEPT ![g] = FALSE],
         \/ pendings' = Cleared(Watcher(g))
         \/ uv_close(g)
  PROVE  ExpiredTimers' = ExpiredTimers \ {g}
<1> DEFINE c == Cleared(Watcher(g))
<1>1. /\ c \in Seq(Slots) /\ Once(c)
      /\ \A v : v # Dummy => (In(v, c) <=> IsPending(v) /\ v # Watcher(g))
  BY ClearedFacts, SlotFacts DEF QueueInv, TypeOK, CloseIsPending, Once
<1>2. \A h \in Handles : In(Watcher(h), c) <=> IsPending(Watcher(h)) /\ h # g
  BY <1>1, SlotFacts
<1>3. \A h \in Handles : In(Watcher(h), pendings') <=> In(Watcher(h), c)
  <2>1. CASE pendings' = c
    BY <2>1
  <2>2. CASE uv_close(g)
    <3>1. pendings' = Append(c, Next_(g)) /\ Next_(g) \in Slots
      BY <2>2 DEF uv_close, Slots
    <3>2. ~IsPending(Next_(g))
      BY <2>2 DEF uv_close, QueueInv, CloseIsPending
    <3>3. ~In(Next_(g), c)
      BY <1>1, <3>2, SlotFacts
    <3> HIDE DEF c
    <3>4. \A v : In(v, pendings') <=> In(v, c) \/ v = Next_(g)
      BY <1>1, <3>1, <3>3, FedFacts
    <3> QED
      BY <3>4, SlotFacts
  <2> QED
    BY <2>1, <2>2
<1> HIDE DEF c
<1>4. \A h \in Handles : h # g => (active'[h] <=> active[h])
  BY DEF QueueInv, TypeOK
<1> QED
  BY <1>2, <1>3, <1>4, TakenFacts

(* The calls of the program balance, and those that lose a reference say   *)
(* so.                                                                     *)
LEMMA UserBalance ==
  ASSUME QueueInv, RefBalance, QueueInv', User \/ Exit \/ UNCHANGED vars
  PROVE  RefBalance'
<1>0. CountsAre /\ CountsAre'
  BY CountsTyped, CountsTypedNext
<1>1. /\ activecnt \in Int /\ activecnt' \in Int /\ lost \in Nat /\ lost' \in Nat
      /\ refs \in Int /\ refs' \in Int /\ active \in [Handles -> BOOLEAN]
      /\ state \in [Handles -> {"closed", "open", "closing"}]
  BY DEF QueueInv, TypeOK
<1>2. CASE uv_run \/ uv_ref \/ uv_unref \/ Exit \/ UNCHANGED vars
  <2>1. /\ UNCHANGED <<in, pendings, state, kind, active, lost>>
        /\ activecnt' - activecnt = refs' - refs
    BY <1>1, <1>2 DEF uv_run, uv_ref, uv_unref, Exit, vars, handles
  <2>2. UNCHANGED Counted
    BY <2>1 DEF Counted, OpenHandles, Closing, Streaming, ExpiredTimers, Expired, IsPending
  <2>3. /\ Cardinality(OpenHandles') = Cardinality(OpenHandles)
        /\ Cardinality(Closing') = Cardinality(Closing)
        /\ Cardinality(Streaming') = Cardinality(Streaming)
        /\ Cardinality(ExpiredTimers') = Cardinality(ExpiredTimers)
    BY <2>2 DEF Counted
  <2> QED
    BY <1>0, <1>1, <2>1, <2>3 DEF RefBalance, CountsAre
<1>3. ASSUME NEW g \in Handles, Init_(g) PROVE RefBalance'
  <2>1. /\ UNCHANGED <<in, pendings, kind, refs, lost>> /\ activecnt' = activecnt + 1
        /\ state[g] = "closed" /\ state' = [state EXCEPT ![g] = "open"]
        /\ active' = [active EXCEPT ![g] = (kind[g] = "async")]
    BY <1>3 DEF Init_
  <2>2. ~active[g] /\ ~IsPending(Watcher(g))
    BY <2>1 DEF QueueInv, StoppedIsQuiet
  <2>3. OpenHandles' = OpenHandles \cup {g} /\ g \notin OpenHandles /\ Closing' = Closing
    BY <1>1, <2>1 DEF OpenHandles, Closing
  <2>4. Streaming' = Streaming
    BY <1>1, <2>1, <2>2 DEF Streaming
  <2>5. ExpiredTimers' = ExpiredTimers
    <3>1. \A h \in Handles : h # g => active'[h] = active[h]
      BY <1>1, <2>1
    <3>2. \A h \in Handles : Expired(h)' <=> Expired(h)
      BY <2>1, <2>2, <3>1 DEF Expired, IsPending
    <3> QED
      BY <3>2 DEF ExpiredTimers
  <2>6. /\ Cardinality(OpenHandles') = Cardinality(OpenHandles) + 1
        /\ Cardinality(Closing') = Cardinality(Closing)
        /\ Cardinality(Streaming') = Cardinality(Streaming)
        /\ Cardinality(ExpiredTimers') = Cardinality(ExpiredTimers)
    BY <2>3, <2>4, <2>5, CountedTypes, Counting
  <2> QED
    BY <1>0, <1>1, <2>1, <2>6 DEF RefBalance, CountsAre
<1>4. ASSUME NEW g \in Handles, Start(g) PROVE RefBalance'
  <2>1. /\ UNCHANGED <<in, pendings, state, kind, refs, lost>>
        /\ activecnt' = IF kind[g] = "stream" THEN activecnt + 1 ELSE activecnt
        /\ ~active[g] /\ active' = [active EXCEPT ![g] = TRUE] /\ kind[g] # "timer"
    BY <1>4 DEF Start, Unreferenced
  <2>2. OpenHandles' = OpenHandles /\ Closing' = Closing
    BY <2>1 DEF OpenHandles, Closing
  <2>3. /\ g \notin Streaming
        /\ Streaming' = IF kind[g] = "stream" THEN Streaming \cup {g} ELSE Streaming
    BY <1>1, <2>1 DEF Streaming
  <2>4. ExpiredTimers' = ExpiredTimers
    <3>1. \A h \in Handles : h # g => active'[h] = active[h]
      BY <1>1, <2>1
    <3>2. \A h \in Handles : Expired(h)' <=> Expired(h)
      BY <2>1, <3>1 DEF Expired, IsPending
    <3> QED
      BY <3>2 DEF ExpiredTimers
  <2>5. /\ Cardinality(OpenHandles') = Cardinality(OpenHandles)
        /\ Cardinality(Closing') = Cardinality(Closing)
        /\ Cardinality(Streaming') = Cardinality(Streaming) + (IF kind[g] = "stream" THEN 1 ELSE 0)
        /\ Cardinality(ExpiredTimers') = Cardinality(ExpiredTimers)
    BY <1>0, <2>2, <2>3, <2>4, CountedTypes, Counting DEF CountsAre
  <2> QED
    BY <1>0, <1>1, <2>1, <2>5 DEF RefBalance, CountsAre
<1>5. ASSUME NEW g \in Handles, Stop(g) PROVE RefBalance'
  <2>1. /\ UNCHANGED <<in, state, kind, refs, lost>>
        /\ activecnt' = IF kind[g] = "stream" /\ active[g] THEN activecnt - 1 ELSE activecnt
        /\ pendings' = Cleared(Watcher(g)) /\ active' = [active EXCEPT ![g] = FALSE]
        /\ kind[g] # "timer"
    BY <1>5 DEF Stop, Unreferenced
  <2>2. OpenHandles' = OpenHandles /\ Closing' = Closing
    BY <2>1 DEF OpenHandles, Closing
  <2>3. /\ g \in Streaming <=> kind[g] = "stream" /\ active[g]
        /\ Streaming' = Streaming \ {g}
    BY <1>1, <2>1 DEF Streaming
  <2>4. ExpiredTimers' = ExpiredTimers
    <3>1. ExpiredTimers' = ExpiredTimers \ {g}
      BY <2>1, StoppedFacts
    <3>2. g \notin ExpiredTimers
      BY <2>1 DEF ExpiredTimers, Expired
    <3> QED
      BY <3>1, <3>2
  <2>5. Cardinality(Streaming') =
          IF kind[g] = "stream" /\ active[g] THEN Cardinality(Streaming) - 1
          ELSE Cardinality(Streaming)
    BY <2>3, CountedTypes, Counting
  <2>6. /\ Cardinality(OpenHandles') = Cardinality(OpenHandles)
        /\ Cardinality(Closing') = Cardinality(Closing)
        /\ Cardinality(ExpiredTimers') = Cardinality(ExpiredTimers)
    BY <2>2, <2>4
  <2> QED
    BY <1>0, <1>1, <2>1, <2>5, <2>6 DEF RefBalance, CountsAre
<1>6. ASSUME NEW g \in Handles,
             \/ \E t \in Timeouts, r \in Repeats : uv_timer_start(g, t, r)
             \/ uv_timer_stop(g)
             \/ uv_timer_again(g)
             \/ \E r \in Repeats : uv_timer_set_repeat(g, r)
      PROVE  RefBalance'
  <2>1. UNCHANGED <<in, state, kind, refs>> /\ kind[g] = "timer"
    BY <1>6 DEF uv_timer_start, uv_timer_stop, uv_timer_again, uv_timer_set_repeat, Open, handles
  <2>2. \A h \in Handles : h # g => (active'[h] <=> active[h])
    BY <1>1, <1>6 DEF uv_timer_start, uv_timer_stop, uv_timer_again, uv_timer_set_repeat, handles
  <2>3. OpenHandles' = OpenHandles /\ Closing' = Closing /\ Streaming' = Streaming
    BY <2>1, <2>2 DEF OpenHandles, Closing, Streaming
  <2>4. activecnt' + lost' - (activecnt + lost) =
          Cardinality(ExpiredTimers) - Cardinality(ExpiredTimers')
    <3>1. ASSUME NEW t \in Timeouts, NEW r \in Repeats, uv_timer_start(g, t, r)
          PROVE  activecnt' = activecnt
                 /\ lost' - lost = Cardinality(ExpiredTimers) - Cardinality(ExpiredTimers')
      <4>1. /\ UNCHANGED <<pendings, activecnt>> /\ active'[g]
            /\ Loses(g) \/ Keeps(g)
        BY <1>1, <3>1 DEF uv_timer_start
      <4>2. ExpiredTimers' = ExpiredTimers \ {g}
        BY <2>1, <2>2, <4>1, TakenFacts DEF IsPending, In
      <4> QED
        BY <4>1, <4>2, LostFacts
    <3>2. ASSUME uv_timer_stop(g)
          PROVE  activecnt' = activecnt
                 /\ lost' - lost = Cardinality(ExpiredTimers) - Cardinality(ExpiredTimers')
      <4>1. /\ UNCHANGED activecnt /\ active' = [active EXCEPT ![g] = FALSE]
            /\ pendings' = Cleared(Watcher(g)) /\ (Loses(g) \/ Keeps(g))
        BY <3>2 DEF uv_timer_stop
      <4>2. ExpiredTimers' = ExpiredTimers \ {g}
        BY <2>1, <4>1, StoppedFacts
      <4> QED
        BY <4>1, <4>2, LostFacts
    <3>3. ASSUME uv_timer_again(g)
          PROVE  /\ \E d \in {0, 1} : activecnt' = activecnt - d /\ lost' = lost + d
                 /\ Cardinality(ExpiredTimers') = Cardinality(ExpiredTimers)
      <4>1. CASE repeat[g] > 0
        <5>1. UNCHANGED <<pendings, active, activecnt, lost>>
          BY <3>3, <4>1 DEF uv_timer_again
        <5>2. ExpiredTimers' = ExpiredTimers
          BY <5>1, <2>1 DEF ExpiredTimers, Expired, IsPending
        <5>3. activecnt' = activecnt - 0 /\ lost' = lost + 0
          BY <1>1, <5>1
        <5> QED
          BY <5>2, <5>3
      <4>2. CASE ~(repeat[g] > 0)
        <5>1. /\ active' = [active EXCEPT ![g] = FALSE] /\ pendings' = Cleared(Watcher(g))
              /\ activecnt' = activecnt - 1 /\ lost' = lost + 1 /\ active[g]
          BY <3>3, <4>2 DEF uv_timer_again
        <5>2. ExpiredTimers' = ExpiredTimers \ {g} /\ g \notin ExpiredTimers
          BY <2>1, <5>1, StoppedFacts DEF ExpiredTimers, Expired
        <5>3. ExpiredTimers' = ExpiredTimers
          BY <5>2
        <5> QED
          BY <1>1, <5>1, <5>3
      <4> QED
        BY <4>1, <4>2
    <3>4. ASSUME NEW r \in Repeats, uv_timer_set_repeat(g, r)
          PROVE  /\ \E d \in {0, 1} : activecnt' = activecnt - d /\ lost' = lost + d
                 /\ Cardinality(ExpiredTimers') = Cardinality(ExpiredTimers)
      <4>1. UNCHANGED <<pendings, kind, active, activecnt, lost>>
        BY <3>4 DEF uv_timer_set_repeat, handles
      <4>2. ExpiredTimers' = ExpiredTimers
        BY <4>1 DEF ExpiredTimers, Expired, IsPending
      <4>3. activecnt' = activecnt - 0 /\ lost' = lost + 0
        BY <1>1, <4>1
      <4> QED
        BY <4>2, <4>3
    <3>5. CASE \/ \E t \in Timeouts, r \in Repeats : uv_timer_start(g, t, r)
               \/ uv_timer_stop(g)
      <4>1. activecnt' = activecnt
            /\ lost' - lost = Cardinality(ExpiredTimers) - Cardinality(ExpiredTimers')
        BY <3>1, <3>2, <3>5
      <4> QED
        BY <1>0, <1>1, <4>1 DEF CountsAre
    <3>6. CASE uv_timer_again(g) \/ \E r \in Repeats : uv_timer_set_repeat(g, r)
      <4>1. /\ \E d \in {0, 1} : activecnt' = activecnt - d /\ lost' = lost + d
            /\ Cardinality(ExpiredTimers') = Cardinality(ExpiredTimers)
        BY <3>3, <3>4, <3>6
      <4>2. activecnt' + lost' - (activecnt + lost) = 0
        BY <1>1, <4>1
      <4>3. Cardinality(ExpiredTimers) - Cardinality(ExpiredTimers') = 0
        BY <1>0, <4>1 DEF CountsAre
      <4> QED
        BY <4>2, <4>3
    <3> QED
      BY <1>6, <3>5, <3>6
  <2>5. /\ Cardinality(OpenHandles') = Cardinality(OpenHandles)
        /\ Cardinality(Closing') = Cardinality(Closing)
        /\ Cardinality(Streaming') = Cardinality(Streaming)
    BY <2>3
  <2> QED
    BY <1>0, <1>1, <2>1, <2>4, <2>5 DEF RefBalance, CountsAre
<1>7. ASSUME NEW g \in Handles, uv_close(g) PROVE RefBalance'
  <2>1. /\ UNCHANGED <<in, kind, refs>> /\ (Loses(g) \/ Keeps(g))
        /\ state[g] = "open" /\ state' = [state EXCEPT ![g] = "closing"]
        /\ active' = [active EXCEPT ![g] = FALSE]
        /\ activecnt' = IF kind[g] = "stream" /\ active[g] THEN activecnt ELSE activecnt + 1
    BY <1>7 DEF uv_close
  <2>2. /\ OpenHandles' = OpenHandles
        /\ Closing' = Closing \cup {g} /\ g \notin Closing
    BY <1>1, <2>1 DEF OpenHandles, Closing
  <2>3. /\ g \in Streaming <=> kind[g] = "stream" /\ active[g]
        /\ Streaming' = Streaming \ {g}
    BY <1>1, <2>1 DEF Streaming
  <2>4. lost' - lost = Cardinality(ExpiredTimers) - Cardinality(ExpiredTimers')
    BY <1>7, <2>1, StoppedFacts, LostFacts
  <2>5. Cardinality(Streaming') =
          IF kind[g] = "stream" /\ active[g] THEN Cardinality(Streaming) - 1
          ELSE Cardinality(Streaming)
    BY <2>3, CountedTypes, Counting
  <2>6. /\ Cardinality(OpenHandles') = Cardinality(OpenHandles)
        /\ Cardinality(Closing') = Cardinality(Closing) + 1
    BY <2>2, CountedTypes, Counting
  <2> QED
    BY <1>0, <1>1, <2>1, <2>4, <2>5, <2>6 DEF RefBalance, CountsAre
<1> QED
  BY <1>2, <1>3, <1>4, <1>5, <1>6, <1>7 DEF User

(* Every step of the loop and of the program preserves RefBalance.         *)
LEMMA StepBalance ==
  ASSUME QueueInv, RefBalance, [Next]_vars
  PROVE  RefBalance'
<1>1. QueueInv'
  BY StepQueue
<1> QED
  BY <1>1, InvokedBalance, LoopBalance, UserBalance DEF Next, Loop

-----------------------------------------------------------------------------
(* Timers that expired are called in the order of their due times.         *)

\* The timers in q are ordered as feed_reverse_done leaves them: the one that
\* was due earlier is nearer the top.
Ordered(q) ==
  \A m, n \in DOMAIN q : \A g, h \in Handles :
    /\ m < n /\ q[m] = Watcher(g) /\ q[n] = Watcher(h)
    /\ kind[g] = "timer" /\ kind[h] = "timer"
    => left[h] <= left[g]

\* Every watcher in q is where it was in p.
Remains(q, p) ==
  \A n \in DOMAIN q : \A h \in Handles :
    q[n] = Watcher(h) => n \in DOMAIN p /\ p[n] = Watcher(h)

(* A queue without timers is ordered.                                      *)
LEMMA NoTimersOrdered ==
  ASSUME NEW q, NEW S \in SUBSET Handles, Queues(q, S), \A h \in S : kind[h] # "timer"
  PROVE  Ordered(q)
<1>1. \A n \in DOMAIN q : \A h \in Handles : q[n] = Watcher(h) => h \in S
  BY SlotFacts DEF Queues, In
<1> QED
  BY <1>1 DEF Ordered

(* timers_reify feeds the timers that are due in the order of their times. *)
LEMMA FedOrdered ==
  ASSUME NEW e \in Nat, NEW due \in FeedOrders(e)
  PROVE  Ordered([n \in DOMAIN due |-> Watcher(due[n])])
<1> DEFINE q == [n \in DOMAIN due |-> Watcher(due[n])]
<1>1. DOMAIN q = DOMAIN due /\ \A n \in DOMAIN due : q[n] = Watcher(due[n])
  OBVIOUS
<1> HIDE DEF q
<1>2. \A n \in DOMAIN q : \A h : q[n] = Watcher(h) => due[n] = h
  BY <1>1, SlotFacts
<1>3. DOMAIN due \subseteq Int
  BY DEF FeedOrders, SetToSeqs
<1>4. ASSUME NEW m \in DOMAIN q, NEW n \in DOMAIN q, NEW g \in Handles, NEW h \in Handles,
             m < n, q[m] = Watcher(g), q[n] = Watcher(h)
      PROVE  left[h] <= left[g]
  <2>1. due[m] = g /\ due[n] = h
    BY <1>2, <1>4
  <2>2. left[due[m]] >= left[due[n]]
    BY <1>1, <1>4 DEF FeedOrders
  <2> QED
    BY <2>1, <2>2
<1>5. Ordered(q)
  BY <1>4 DEF Ordered
<1> QED
  BY <1>5 DEF q

(* Joining queues of which one holds no timer.                             *)
LEMMA JoinedOrdered ==
  ASSUME TypeOK, NEW S \in SUBSET Handles, NEW T \in SUBSET Handles,
         NEW p, NEW q, Queues(p, S), Queues(q, T), Ordered(p), Ordered(q),
         (\A h \in S : kind[h] # "timer") \/ (\A h \in T : kind[h] # "timer")
  PROVE  Ordered(p \o q)
<1> DEFINE j == p \o q
<1>1. /\ j \in Seq(Slots) /\ Len(j) = Len(p) + Len(q)
      /\ \A n \in 1..(Len(p) + Len(q)) : j[n] = IF n <= Len(p) THEN p[n] ELSE q[n - Len(p)]
  BY ConcatProperties DEF Queues
<1>2. Len(p) \in Nat /\ Len(q) \in Nat /\ DOMAIN p = 1..Len(p) /\ DOMAIN q = 1..Len(q)
      /\ DOMAIN j = 1..(Len(p) + Len(q))
  BY <1>1 DEF Queues
<1> HIDE DEF j
<1>3. \A n \in DOMAIN j : \/ n \in DOMAIN p /\ j[n] = p[n]
                          \/ n - Len(p) \in DOMAIN q /\ n \notin DOMAIN p /\ j[n] = q[n - Len(p)]
  BY <1>1, <1>2
<1>4. /\ \A n \in DOMAIN p : \A h \in Handles : p[n] = Watcher(h) => h \in S
      /\ \A n \in DOMAIN q : \A h \in Handles : q[n] = Watcher(h) => h \in T
  BY SlotFacts DEF Queues, In
<1>5. ASSUME NEW m \in DOMAIN j, NEW n \in DOMAIN j, NEW g \in Handles, NEW h \in Handles,
             m < n, j[m] = Watcher(g), j[n] = Watcher(h), kind[g] = "timer", kind[h] = "timer"
      PROVE  left[h] <= left[g]
  <2>1. CASE m \in DOMAIN p /\ j[m] = p[m] /\ n \in DOMAIN p /\ j[n] = p[n]
    BY <1>5, <2>1 DEF Ordered
  <2>2. CASE /\ m - Len(p) \in DOMAIN q /\ j[m] = q[m - Len(p)]
             /\ n - Len(p) \in DOMAIN q /\ j[n] = q[n - Len(p)]
    <3>1. m - Len(p) < n - Len(p)
      BY <1>2, <1>5
    <3> QED
      BY <1>5, <2>2, <3>1 DEF Ordered
  <2>3. CASE m \in DOMAIN p /\ j[m] = p[m] /\ n - Len(p) \in DOMAIN q /\ j[n] = q[n - Len(p)]
    BY <1>4, <1>5, <2>3
  <2>4. CASE m \notin DOMAIN p /\ n \in DOMAIN p
    BY <1>2, <1>5, <2>4
  <2> QED
    BY <1>3, <1>5, <2>1, <2>2, <2>3, <2>4
<1>6. Ordered(j)
  BY <1>5 DEF Ordered
<1> QED
  BY <1>6 DEF j

(* What a poll leaves pending is ordered by what was left before it.       *)
LEMMA PolledOrdered ==
  ASSUME QueueInv, NEW e \in 0..MaxElapsed, Poll(e)
  PROVE  Ordered(pendings')
<1>1. PICK io \in SUBSET (Active("stream") \cup Active("async")),
           due \in FeedOrders(e),
           check \in SetToSeqs({Watcher(h) : h \in Active("check")}) :
        \E events \in SetToSeqs({Watcher(h) : h \in io}),
           idle \in SetToSeqs(IF io = {} /\ due = <<>> THEN Idles ELSE {}) :
          pendings' = events \o [n \in DOMAIN due |-> Watcher(due[n])] \o idle \o check
  BY DEF Poll
<1>2. PICK events \in SetToSeqs({Watcher(h) : h \in io}),
           idle \in SetToSeqs(IF io = {} /\ due = <<>> THEN Idles ELSE {}) :
        pendings' = events \o [n \in DOMAIN due |-> Watcher(due[n])] \o idle \o check
  BY <1>1
<1> DEFINE fed == [n \in DOMAIN due |-> Watcher(due[n])]
           I == IF io = {} /\ due = <<>> THEN Active("idle") ELSE {}
<1>3. /\ io \in SUBSET Handles /\ Due(e) \in SUBSET Handles
      /\ Active("check") \in SUBSET Handles /\ I \in SUBSET Handles
  BY DEF Active, Due
<1>4. Idles = {Watcher(h) : h \in Active("idle")}
  BY DrainedFacts DEF Poll, Idles
<1>5. idle \in SetToSeqs({Watcher(h) : h \in I})
  <2>1. CASE io = {} /\ due = <<>>
    BY <2>1, <1>2, <1>4
  <2>2. CASE ~(io = {} /\ due = <<>>)
    <3>1. {Watcher(h) : h \in I} = {}
      BY <2>2
    <3> QED
      BY <3>1, <2>2, <1>2
  <2> QED
    BY <2>1, <2>2
<1>6. /\ \A h \in io : kind[h] # "timer"
      /\ \A h \in I : kind[h] # "timer"
      /\ \A h \in Active("check") : kind[h] # "timer"
  BY <1>1 DEF Active
<1>7. /\ io \cap Due(e) = {} /\ (io \cup Due(e)) \cap I = {}
      /\ ((io \cup Due(e)) \cup I) \cap Active("check") = {}
  BY <1>1 DEF Active, Due
<1>8. Queues(events, io) /\ Ordered(events)
  BY <1>2, <1>3, <1>6, WatchersQueued, NoTimersOrdered
<1>9. Queues(fed, Due(e)) /\ Ordered(fed)
  <2>1. e \in Nat
    BY DEF LoopAssumption
  <2>2. Ordered(fed)
    BY <2>1, FedOrdered
  <2> QED
    BY <1>3, <2>2, TimersQueued DEF FeedOrders
<1>10. Queues(idle, I) /\ Ordered(idle)
  BY <1>3, <1>5, <1>6, WatchersQueued, NoTimersOrdered
<1>11. Queues(check, Active("check")) /\ Ordered(check)
  BY <1>1, <1>3, <1>6, WatchersQueued, NoTimersOrdered
<1> HIDE DEF fed, I
<1>12. TypeOK
  BY DEF QueueInv
<1>13. Queues(events \o fed, io \cup Due(e)) /\ Ordered(events \o fed)
  BY <1>3, <1>6, <1>7, <1>8, <1>9, <1>12, QueuesJoined, JoinedOrdered
<1>14. /\ Queues((events \o fed) \o idle, (io \cup Due(e)) \cup I)
       /\ Ordered((events \o fed) \o idle)
  <2>1. io \cup Due(e) \in SUBSET Handles
    BY <1>3
  <2> QED
    BY <2>1, <1>3, <1>6, <1>7, <1>10, <1>12, <1>13, QueuesJoined, JoinedOrdered
<1>15. Ordered(((events \o fed) \o idle) \o check)
  <2>1. (io \cup Due(e)) \cup I \in SUBSET Handles
    BY <1>3
  <2> QED
    BY <2>1, <1>3, <1>6, <1>11, <1>12, <1>14, JoinedOrdered
<1> QED
  BY <1>2, <1>15 DEF fed

(* A poll takes the same time from every timer that it lets expire.        *)
LEMMA PollKeepsOrder ==
  ASSUME QueueInv, NEW e \in 0..MaxElapsed, Poll(e)
  PROVE  ExpiredInOrder'
<1>1. PICK S \in SUBSET Handles :
        /\ Queues(pendings', S)
        /\ \A h \in S : active[h] /\ (kind[h] = "timer" => h \in Due(e))
  BY PolledFacts
<1>2. /\ UNCHANGED <<kind, repeat>>
      /\ left' = [h \in Handles |-> Later(e, h)]
      /\ active' = [h \in Handles |-> active[h] /\ ~(h \in Due(e) /\ repeat[h] = 0)]
  BY DEF Poll
<1>3. e \in Int /\ left \in [Handles -> Int] /\ repeat \in [Handles -> Nat]
  BY DEF QueueInv, TypeOK, LoopAssumption
<1>4. ASSUME NEW h \in Handles, Expired(h)'
      PROVE  kind[h] = "timer" /\ left'[h] = left[h] - e
  <2>1. kind[h] = "timer" /\ ~active'[h] /\ h \in S
    BY <1>1, <1>2, <1>4, SlotFacts DEF Expired, IsPending, Queues, In
  <2>2. h \in Due(e) /\ repeat[h] = 0
    BY <1>1, <1>2, <2>1
  <2>3. h \in Active("timer")
    BY <2>2 DEF Due
  <2>4. Later(e, h) = left[h] - e + repeat[h]
    BY <2>2, <2>3, <1>3 DEF Later
  <2> QED
    BY <1>2, <1>3, <2>1, <2>2, <2>4
<1>5. Ordered(pendings')
  BY PolledOrdered
<1>6. ASSUME NEW m \in DOMAIN pendings', NEW n \in DOMAIN pendings',
             NEW g \in ExpiredTimers', NEW h \in ExpiredTimers',
             m < n, pendings'[m] = Watcher(g), pendings'[n] = Watcher(h)
      PROVE  left'[h] <= left'[g]
  <2>1. g \in Handles /\ h \in Handles /\ Expired(g)' /\ Expired(h)'
    BY DEF ExpiredTimers
  <2>2. /\ kind[g] = "timer" /\ kind[h] = "timer"
        /\ left'[g] = left[g] - e /\ left'[h] = left[h] - e
    BY <1>4, <2>1
  <2>3. left[h] <= left[g]
    BY <1>5, <1>6, <2>1, <2>2 DEF Ordered
  <2> QED
    BY <1>3, <2>1, <2>2, <2>3
<1>7. \A h : Watcher(h)' = Watcher(h)
  BY DEF Watcher
<1> QED
  BY <1>6, <1>7 DEF ExpiredInOrder

(* A step that leaves the watchers that stay pending where they were, and  *)
(* the expired timers' times alone, keeps their order.                     *)
LEMMA RemainingInOrder ==
  ASSUME ExpiredInOrder, Remains(pendings', pendings),
         \A h \in Handles : Expired(h)' => Expired(h) /\ left'[h] = left[h]
  PROVE  ExpiredInOrder'
<1>1. ASSUME NEW m \in DOMAIN pendings', NEW n \in DOMAIN pendings',
             NEW g \in ExpiredTimers', NEW h \in ExpiredTimers',
             m < n, pendings'[m] = Watcher(g), pendings'[n] = Watcher(h)
      PROVE  left'[h] <= left'[g]
  <2>1. g \in Handles /\ h \in Handles /\ Expired(g)' /\ Expired(h)'
    BY DEF ExpiredTimers
  <2>2. /\ g \in ExpiredTimers /\ h \in ExpiredTimers
        /\ left'[g] = left[g] /\ left'[h] = left[h]
    BY <2>1 DEF ExpiredTimers
  <2>3. /\ m \in DOMAIN pendings /\ n \in DOMAIN pendings
        /\ pendings[m] = Watcher(g) /\ pendings[n] = Watcher(h)
    BY <1>1, <2>1 DEF Remains
  <2> QED
    BY <1>1, <2>2, <2>3 DEF ExpiredInOrder
<1>2. \A h : Watcher(h)' = Watcher(h)
  BY DEF Watcher
<1> QED
  BY <1>1, <1>2 DEF ExpiredInOrder
(* Taking the last slot, stopping a watcher and feeding a next watcher     *)
(* leave the other watchers where they were.                               *)
LEMMA PoppedRemains ==
  ASSUME pendings \in Seq(Slots), NEW w, Popped(w)
  PROVE  Remains(pendings', pendings)
<1> DEFINE p == pendings
           k == Len(p) - 1
<1>1. Len(p) \in Nat \ {0} /\ DOMAIN p = 1..Len(p)
  BY EmptySeq DEF Popped
<1>2. k \in Nat /\ 1 \in Int /\ k \in Int /\ \A n \in 1..k : p[n] \in Slots
  BY <1>1
<1>3. pendings' = SubSeq(p, 1, k)
  BY DEF Popped, Front
<1> HIDE DEF k
<1>4. /\ SubSeq(p, 1, k) \in Seq(Slots)
      /\ Len(SubSeq(p, 1, k)) = IF 1 <= k THEN k - 1 + 1 ELSE 0
      /\ \A n \in 1..(k - 1 + 1) : SubSeq(p, 1, k)[n] = p[1 + n - 1]
  BY <1>2, SubSeqProperties
<1>5. pendings' \in Seq(Slots) /\ Len(pendings') = k /\ \A n \in 1..k : pendings'[n] = p[n]
  BY <1>2, <1>3, <1>4
<1>6. DOMAIN pendings' = 1..k
  BY <1>5
<1>7. \A n \in 1..k : n \in DOMAIN p
  BY <1>1, <1>2 DEF k
<1> QED
  BY <1>5, <1>6, <1>7 DEF Remains

(* clear_pending keeps the slots of the other watchers.                    *)
LEMMA ClearedRemains ==
  ASSUME NEW w
  PROVE  Remains(Cleared(w), pendings)
BY SlotFacts DEF Remains, Cleared

(* Feeding a next watcher puts it on top.                                  *)
LEMMA FedRemains ==
  ASSUME NEW q \in Seq(Slots), NEW g \in Handles, NEW p, Remains(q, p)
  PROVE  Remains(Append(q, Next_(g)), p)
<1> DEFINE a == Append(q, Next_(g))
<1>1. /\ a[Len(q) + 1] = Next_(g) /\ \A n \in 1..Len(q) : a[n] = q[n]
      /\ Len(q) \in Nat /\ DOMAIN q = 1..Len(q) /\ DOMAIN a = 1..(Len(q) + 1)
  OBVIOUS
<1> HIDE DEF a
<1>2. \A n \in DOMAIN a : n = Len(q) + 1 \/ (n \in DOMAIN q /\ a[n] = q[n])
  BY <1>1
<1>3. Remains(a, p)
  BY <1>1, <1>2, SlotFacts DEF Remains
<1> QED
  BY <1>3 DEF a

(* The loop's steps between polls keep the order.                          *)
LEMMA LoopKeepsOrder ==
  ASSUME QueueInv, ExpiredInOrder, QueueInv', Loop
  PROVE  ExpiredInOrder'
<1>1. CASE InvokeDummy \/ \E h \in Handles :
             InvokeWatcher(h) \/ uv__timer_cb(h) \/ uv__finish_close(h)
  <2>1. PICK w : Popped(w)
    BY <1>1 DEF InvokeDummy, InvokeWatcher, uv__timer_cb, uv__finish_close
  <2>2. UNCHANGED <<kind, active, left>>
    BY <1>1 DEF InvokeDummy, InvokeWatcher, uv__timer_cb, uv__finish_close, handles, timers
  <2>3. Remains(pendings', pendings)
    BY <2>1, PoppedRemains DEF QueueInv, TypeOK
  <2>4. \A h : Watcher(h)' = Watcher(h)
    BY DEF Watcher
  <2>5. \A h \in Handles : Expired(h)' => Expired(h) /\ left'[h] = left[h]
    BY <2>2, <2>3, <2>4 DEF Expired, IsPending, Remains
  <2> QED
    BY <2>3, <2>5, RemainingInOrder
<1>2. CASE Return \/ Exit
  <2>1. UNCHANGED <<kind, active, left, pendings>>
    BY <1>2 DEF Return, Exit, handles, timers
  <2>2. Remains(pendings', pendings)
    BY <2>1 DEF Remains
  <2>3. \A h \in Handles : Expired(h)' => Expired(h) /\ left'[h] = left[h]
    BY <2>1 DEF Expired, IsPending, Watcher
  <2> QED
    BY <2>2, <2>3, RemainingInOrder
<1>3. CASE Iterate
  <2>1. Queues(pendings', Active("prepare"))
    BY <1>3, IteratedFacts
  <2>2. UNCHANGED <<kind, active>>
    BY <1>3 DEF Iterate, handles
  <2>3. \A n \in DOMAIN pendings' : \A h \in Handles :
          pendings'[n] = Watcher(h) => kind[h] = "prepare"
    BY <2>1, SlotFacts DEF Queues, In, Active
  <2>4. \A h : Watcher(h)' = Watcher(h)
    BY DEF Watcher
  <2>5. \A h \in Handles : ~Expired(h)'
    BY <2>2, <2>3, <2>4 DEF Expired, IsPending
  <2>6. ExpiredTimers' = {}
    BY <2>5 DEF ExpiredTimers
  <2> QED
    BY <2>6 DEF ExpiredInOrder
<1>4. CASE \E e \in 0..MaxElapsed : Poll(e)
  BY <1>4, PollKeepsOrder
<1> QED
  BY <1>1, <1>2, <1>3, <1>4 DEF Loop

(* No call of the program reorders what is pending, and one that sets a    *)
(* timer's time sets that of an active one.                                *)
LEMMA UserKeepsOrder ==
  ASSUME QueueInv, ExpiredInOrder, QueueInv', User \/ UNCHANGED vars
  PROVE  ExpiredInOrder'
<1>1. /\ pendings \in Seq(Slots) /\ Once(pendings)
      /\ active \in [Handles -> BOOLEAN] /\ left \in [Handles -> Int]
  BY DEF QueueInv, TypeOK, CloseIsPending, Once
<1>2. \A h : Watcher(h)' = Watcher(h)
  BY DEF Watcher
<1>3. CASE uv_run \/ uv_ref \/ uv_unref \/ (\E h \in Handles, rep \in Repeats :
             uv_timer_set_repeat(h, rep)) \/ UNCHANGED vars
  <2>1. UNCHANGED <<kind, active, left, pendings>>
    BY <1>3 DEF uv_run, uv_ref, uv_unref, uv_timer_set_repeat, vars, handles, timers
  <2>2. Remains(pendings', pendings)
    BY <2>1 DEF Remains
  <2>3. \A h \in Handles : Expired(h)' => Expired(h) /\ left'[h] = left[h]
    BY <2>1, <1>2 DEF Expired, IsPending
  <2> QED
    BY <2>2, <2>3, RemainingInOrder
<1>4. ASSUME NEW g \in Handles, Init_(g) \/ Start(g)
      PROVE  ExpiredInOrder'
  <2>1. /\ UNCHANGED <<kind, left, pendings>> /\ \A h \in Handles \ {g} : active'[h] = active[h]
        /\ state[g] = "closed" \/ kind[g] # "timer"
    BY <1>1, <1>4 DEF Init_, Start, Unreferenced, timers
  <2>2. Remains(pendings', pendings)
    BY <2>1 DEF Remains
  <2>3. ~Expired(g)'
    BY <2>1, <1>2 DEF Expired, IsPending, QueueInv, StoppedIsQuiet
  <2>4. \A h \in Handles : Expired(h)' => Expired(h) /\ left'[h] = left[h]
    BY <2>1, <2>3, <1>2 DEF Expired, IsPending
  <2> QED
    BY <2>2, <2>4, RemainingInOrder
<1>5. ASSUME NEW g \in Handles,
             Remains(pendings', pendings), UNCHANGED kind, ~Expired(g)',
             \A h \in Handles \ {g} : active'[h] = active[h] /\ left'[h] = left[h]
      PROVE  ExpiredInOrder'
  <2>1. \A h \in Handles : Expired(h)' => Expired(h) /\ left'[h] = left[h]
    BY <1>5, <1>2 DEF Expired, IsPending, Remains
  <2> QED
    BY <1>5, <2>1, RemainingInOrder
<1>6. ASSUME NEW g \in Handles, pendings' = Cleared(Watcher(g)) PROVE ~Expired(g)'
  <2>1. ~In(Watcher(g), Cleared(Watcher(g)))
    BY <1>1, SlotFacts, ClearedFacts
  <2> QED
    BY <1>2, <1>6, <2>1 DEF Expired, IsPending, In
<1>7. ASSUME NEW g \in Handles, Stop(g) PROVE ExpiredInOrder'
  <2>1. /\ UNCHANGED <<kind, left>> /\ pendings' = Cleared(Watcher(g))
        /\ \A h \in Handles \ {g} : active'[h] = active[h]
    BY <1>1, <1>7 DEF Stop, timers
  <2> QED
    BY <1>5, <1>6, <2>1, ClearedRemains
<1>8. ASSUME NEW g \in Handles, uv_close(g) PROVE ExpiredInOrder'
  <2>1. /\ UNCHANGED <<kind, left>> /\ pendings' = Append(Cleared(Watcher(g)), Next_(g))
        /\ \A h \in Handles \ {g} : active'[h] = active[h]
    BY <1>1, <1>8 DEF uv_close, timers
  <2>2. Cleared(Watcher(g)) \in Seq(Slots)
    BY <1>1, SlotFacts, ClearedFacts
  <2>3. Remains(pendings', pendings)
    BY <2>1, <2>2, ClearedRemains, FedRemains
  <2>4. state'[g] = "closing"
    BY <1>8 DEF uv_close, QueueInv, TypeOK
  <2>5. ~Expired(g)'
    BY <2>4 DEF QueueInv, StoppedIsQuiet, Expired
  <2> QED
    BY <1>5, <2>1, <2>3, <2>5
<1>9. ASSUME NEW g \in Handles, NEW t \in Timeouts, NEW r \in Repeats, uv_timer_start(g, t, r)
      PROVE  ExpiredInOrder'
  <2>1. /\ UNCHANGED <<kind, pendings>> /\ active'[g]
        /\ \A h \in Handles \ {g} : active'[h] = active[h] /\ left'[h] = left[h]
    BY <1>1, <1>9 DEF uv_timer_start
  <2>2. ~Expired(g)' /\ Remains(pendings', pendings)
    BY <2>1 DEF Expired, Remains
  <2> QED
    BY <1>5, <2>1, <2>2
<1>10. ASSUME NEW g \in Handles, uv_timer_stop(g) PROVE ExpiredInOrder'
  <2>1. /\ UNCHANGED <<kind, left>> /\ pendings' = Cleared(Watcher(g))
        /\ \A h \in Handles \ {g} : active'[h] = active[h]
    BY <1>1, <1>10 DEF uv_timer_stop, timers
  <2> QED
    BY <1>5, <1>6, <2>1, ClearedRemains
<1>11. ASSUME NEW g \in Handles, uv_timer_again(g) PROVE ExpiredInOrder'
  <2>1. CASE repeat[g] > 0
    <3>1. /\ UNCHANGED <<kind, pendings, active>> /\ active[g]
          /\ \A h \in Handles \ {g} : left'[h] = left[h]
      BY <1>1, <1>11, <2>1 DEF uv_timer_again
    <3>2. ~Expired(g)' /\ Remains(pendings', pendings)
      BY <3>1 DEF Expired, Remains
    <3> QED
      BY <1>5, <3>1, <3>2
  <2>2. CASE ~(repeat[g] > 0)
    <3>1. /\ UNCHANGED <<kind, left>> /\ pendings' = Cleared(Watcher(g))
          /\ \A h \in Handles \ {g} : active'[h] = active[h]
      BY <1>1, <1>11, <2>2 DEF uv_timer_again
    <3> QED
      BY <1>5, <1>6, <3>1, ClearedRemains
  <2> QED
    BY <2>1, <2>2
<1> QED
  BY <1>3, <1>4, <1>7, <1>8, <1>9, <1>10, <1>11 DEF User

-----------------------------------------------------------------------------
(* The theorems.                                                           *)

LoopInv == QueueInv /\ RefBalance

(* The invariant that the theorems rest on holds in every behaviour.       *)
THEOREM LoopInvHolds == Spec => []LoopInv
<1>1. Init => LoopInv
  BY InitQueue, InitBalance DEF LoopInv
<1>2. LoopInv /\ [Next]_vars => LoopInv'
  BY StepQueue, StepBalance DEF LoopInv
<1> QED
  BY <1>1, <1>2, PTL DEF Spec

(* libev calls no watcher of a handle that the program stopped or closed,  *)
(* and a closing handle has exactly one event, that of its close_cb.       *)
THEOREM LoopIsQuiet == Spec => []EventsExact
<1>1. LoopInv => EventsExact
  BY DEF LoopInv, QueueInv, EventsExact
<1> QED
  BY <1>1, LoopInvHolds, PTL

(* The reference count of core.c and ev.c is what the handles, the active  *)
(* stream watchers and the program's own references account for, less what *)
(* expired timers gave up and what calls on them lost.                     *)
THEOREM LoopReferences == Spec => []RefBalance
<1>1. LoopInv => RefBalance
  BY DEF LoopInv
<1> QED
  BY <1>1, LoopInvHolds, PTL

(* uv_run returns only when every handle is closed, if the program         *)
(* balances its own references and none was lost.                          *)
THEOREM LoopReturnsWhenClosed == Spec => RefUntilClosedOrLost
<1> DEFINE A == phase # "out" /\ phase' = "out" /\ refs = 0 /\ lost = 0 => OpenHandles = {}
<1>1. ASSUME LoopInv, Next, phase # "out", phase' = "out", refs = 0, lost = 0
      PROVE  OpenHandles = {}
  <2>1. Exit
    BY <1>1 DEF Next, Loop, User, InvokeDummy, Return, Iterate, Poll, InvokeWatcher,
      uv__timer_cb, uv__finish_close, uv_run, uv_ref, uv_unref, Init_, Start, Stop, uv_close,
      uv_timer_start, uv_timer_stop, uv_timer_again, uv_timer_set_repeat
  <2>2. Drained /\ activecnt = 0
    BY <2>1 DEF Exit
  <2>3. ExpiredTimers = {}
    BY <1>1, <2>2, DrainedFacts DEF LoopInv, ExpiredTimers, Expired
  <2>4. Cardinality(ExpiredTimers) = 0 /\ in = "none"
    BY <2>2, <2>3, FS_EmptySet DEF Drained
  <2>5. Cardinality(OpenHandles) = 0
    <3>1. Cardinality(OpenHandles) + Cardinality(Closing) + Cardinality(Streaming) <= 0
      BY <1>1, <2>2, <2>4, CountsTyped DEF LoopInv, RefBalance, CountsAre
    <3>2. /\ Cardinality(OpenHandles) \in Nat /\ Cardinality(Closing) \in Nat
          /\ Cardinality(Streaming) \in Nat
      BY CountsTyped DEF CountsAre
    <3> QED
      BY <3>1, <3>2
  <2>6. IsFiniteSet(OpenHandles)
    BY CountedTypes, FS_Subset
  <2> QED
    BY <2>5, <2>6, FS_EmptySet
<1>2. LoopInv /\ [Next]_vars => [A]_vars
  BY <1>1
<1> QED
  BY <1>2, LoopInvHolds, PTL DEF Spec, RefUntilClosedOrLost

(* Timers that expired in one iteration are called in the order of their   *)
(* due times, whatever the callbacks before them start, stop or close.     *)
THEOREM TimersExpireInOrder == Spec => []ExpiredInOrder
<1>1. Init => ExpiredInOrder
  BY DEF Init, ExpiredInOrder
<1>2. LoopInv /\ ExpiredInOrder /\ [Next]_vars => ExpiredInOrder'
  BY StepQueue, LoopKeepsOrder, UserKeepsOrder DEF LoopInv, Next
<1> QED
  BY <1>1, <1>2, LoopInvHolds, PTL DEF Spec
=============================================================================
