---------------------------- MODULE UvAsync_proof ----------------------------
(***************************************************************************)
(* For every number of threads and handles: without store buffers no       *)
(* wakeup is lost, and with or without them no callback follows uv_close,  *)
(* the array of watchers matches them and async_pending does not stay set. *)
(***************************************************************************)
EXTENDS UvAsyncProps, SequenceTheorems, TLAPS

(* A store keeps the types of memory and of the buffers.                   *)
LEMMA StoreType ==
  ASSUME TypeOK, NEW p \in Procs, NEW x \in Locs, NEW v \in BOOLEAN, Store(p, x, v)
  PROVE  /\ UNCHANGED buffering
         /\ mem' \in [Locs -> BOOLEAN] /\ buf' \in [Procs -> Seq(Locs \X BOOLEAN)]
<1>1. Append(buf[p], <<x, v>>) \in Seq(Locs \X BOOLEAN)
  BY AppendProperties DEF TypeOK
<1> QED
  BY <1>1 DEF Store, TypeOK

(* Without store buffers, memory is read and written directly.             *)
LEMMA DirectStore ==
  ASSUME ~buffering, NEW p, NEW x, NEW v, Store(p, x, v)
  PROVE  mem' = [mem EXCEPT ![x] = v] /\ UNCHANGED buf
BY DEF Store

(* A thread whose store buffer is empty reads memory.                      *)
LEMMA DirectLoad ==
  ASSUME NEW p, NEW x, buf[p] = <<>>
  PROVE  Load(p, x) = mem[x]
<1>1. Buffered(p, x) = {}
  BY DEF Buffered
<1> QED
  BY <1>1 DEF Load

(* The array after a watcher is appended or swapped out.                   *)
LEMMA AppendFacts ==
  ASSUME asyncs \in Seq(Asyncs), NEW a \in Asyncs
  PROVE  /\ Append(asyncs, a) \in Seq(Asyncs)
         /\ Len(Append(asyncs, a)) = Len(asyncs) + 1
         /\ \A k \in 1..Len(asyncs) : Append(asyncs, a)[k] = asyncs[k]
         /\ Append(asyncs, a)[Len(asyncs) + 1] = a
BY AppendProperties

(* ev_async_stop moves the last watcher to the place of the one it         *)
(* removes.                                                                *)
LEMMA SwapFacts ==
  ASSUME asyncs \in Seq(Asyncs), NEW n \in 1..Len(asyncs)
  PROVE  /\ SwappedOut(n) \in Seq(Asyncs) /\ Len(SwappedOut(n)) = Len(asyncs) - 1
         /\ Last(asyncs) = asyncs[Len(asyncs)] /\ Len(asyncs) \in Nat \ {0}
         /\ \A k \in 1..(Len(asyncs) - 1) :
              SwappedOut(n)[k] = IF k = n THEN asyncs[Len(asyncs)] ELSE asyncs[k]
<1>1. Len(asyncs) \in Nat \ {0} /\ \A k \in 1..Len(asyncs) : asyncs[k] \in Asyncs
  BY LenProperties, ElementOfSeq
<1>2. Last(asyncs) = asyncs[Len(asyncs)]
  BY DEF Last
<1>3. DEFINE m == Len(asyncs) - 1
             e(k) == IF k = n THEN Last(asyncs) ELSE asyncs[k]
<1>4. m \in Nat /\ \A k \in 1..m : e(k) \in Asyncs
  BY <1>1, <1>2
<1>5. SwappedOut(n) = [k \in 1..m |-> e(k)]
  BY DEF SwappedOut
<1> HIDE DEF m, e
<1>6. SwappedOut(n) \in Seq(Asyncs) /\ Len(SwappedOut(n)) = m
       /\ \A k \in 1..m : SwappedOut(n)[k] = e(k)
  BY <1>4, <1>5
<1> QED
  BY <1>1, <1>2, <1>6 DEF m, e

-----------------------------------------------------------------------------
(* The invariant holds initially.                                          *)
LEMMA AsyncInit == Init /\ AsyncAssumption => TypeOK /\ AsyncInv
<1> SUFFICES ASSUME Init, AsyncAssumption PROVE TypeOK /\ AsyncInv
  OBVIOUS
<1>1. <<>> \in Seq(Asyncs) /\ <<>> \in Seq(Locs \X BOOLEAN) /\ Len(<<>>) = 0
  BY EmptySeq
<1>2. TypeOK
  BY <1>1 DEF Init, TypeOK
<1>3. ArrayMatches /\ ClosedIsQuiet
  BY DEF Init, ArrayMatches, ClosedIsQuiet
<1>4. WakeupInv /\ WalkInv
  BY <1>1 DEF Init, WakeupInv, WalkInv, Locs, Procs
<1> QED
  BY <1>2, <1>3, <1>4 DEF AsyncInv

-----------------------------------------------------------------------------
(* Types are kept.                                                         *)
LEMMA AsyncType ==
  ASSUME AsyncAssumption, TypeOK, AsyncInv, [Next]_vars
  PROVE  TypeOK'
<1> USE DEF TypeOK, Locs, Procs
<1>1. CASE UNCHANGED vars
  BY <1>1 DEF vars, memory, pipe, handles
<1>2. ASSUME NEW p \in Procs, NEW a \in Asyncs, uv_async_send(p, a) PROVE TypeOK'
  <2>1. /\ UNCHANGED buffering
        /\ mem' \in [Locs -> BOOLEAN] /\ buf' \in [Procs -> Seq(Locs \X BOOLEAN)]
    BY <1>2, StoreType DEF uv_async_send
  <2> QED
    BY <1>2, <2>1 DEF uv_async_send, Step, pipe, handles
<1>3. ASSUME NEW p \in Procs, TestFlag(p) \/ WriteFd(p) PROVE TypeOK'
  BY <1>3 DEF TestFlag, WriteFd, Step, memory, pipe, handles
<1>4. ASSUME NEW p \in Procs, SetFlag(p) PROVE TypeOK'
  <2>1. /\ UNCHANGED buffering
        /\ mem' \in [Locs -> BOOLEAN] /\ buf' \in [Procs -> Seq(Locs \X BOOLEAN)]
    BY <1>4, StoreType DEF SetFlag
  <2> QED
    BY <1>4, <2>1 DEF SetFlag, Step, pipe, handles
<1>5. ASSUME NEW p \in Procs, Drain(p) PROVE TypeOK'
  <2>1. /\ Head(buf[p]) \in Locs \X BOOLEAN
        /\ Tail(buf[p]) \in Seq(Locs \X BOOLEAN)
    BY <1>5, HeadTailProperties DEF Drain
  <2>2. Head(buf[p])[1] \in Locs /\ Head(buf[p])[2] \in BOOLEAN
    BY <2>1
  <2>3. /\ mem' = [mem EXCEPT ![Head(buf[p])[1]] = Head(buf[p])[2]]
        /\ buf' = [buf EXCEPT ![p] = Tail(buf[p])]
    BY <1>5 DEF Drain
  <2>4. /\ mem' \in [Locs -> BOOLEAN] /\ buf' \in [Procs -> Seq(Locs \X BOOLEAN)]
    BY <2>1, <2>2, <2>3
  <2> QED
    BY <1>5, <2>4 DEF Drain, pipe, handles
<1>6. CASE Poll \/ TestPending \/ Return
  BY <1>6 DEF Poll, TestPending, Return, memory, handles
<1>7. CASE ClearPending
  <2>1. /\ UNCHANGED buffering
        /\ mem' \in [Locs -> BOOLEAN] /\ buf' \in [Procs -> Seq(Locs \X BOOLEAN)]
    BY <1>7, StoreType DEF ClearPending
  <2>2. Len(asyncs) \in Nat
    BY LenProperties
  <2> QED
    BY <1>7, <2>1, <2>2 DEF ClearPending, handles
<1>8. CASE Scan
  BY <1>8 DEF Scan, memory, handles
<1>9. CASE Take
  <2>1. i > 0 /\ i <= Len(asyncs) /\ Len(asyncs) \in Nat
    BY <1>9, LenProperties DEF Take, AsyncInv, WalkInv
  <2>2. asyncs[i] \in Asyncs
    BY <2>1, ElementOfSeq
  <2>3. /\ UNCHANGED buffering
        /\ mem' \in [Locs -> BOOLEAN] /\ buf' \in [Procs -> Seq(Locs \X BOOLEAN)]
    BY <1>9, <2>2, StoreType DEF Take
  <2> QED
    BY <1>9, <2>1, <2>2, <2>3 DEF Take
<1>10. ASSUME NEW a \in Asyncs, uv__async(a) \/ uv__finish_close(a) PROVE TypeOK'
  BY <1>10 DEF uv__async, uv__finish_close, memory
<1>11. ASSUME NEW a \in Asyncs, uv_async_init(a) PROVE TypeOK'
  <2>1. Len(asyncs) + 1 \in Nat
    BY LenProperties
  <2> QED
    BY <1>11, <2>1, AppendFacts DEF uv_async_init, pipe
<1>12. ASSUME NEW a \in Asyncs, uv_close(a) PROVE TypeOK'
  <2>1. active[a] \in 1..Len(asyncs)
    BY <1>12, LenProperties DEF uv_close, AsyncInv, ArrayMatches
  <2>2. Last(asyncs) \in Asyncs
    <3>1. asyncs \in Seq(Asyncs)
      OBVIOUS
    <3>2. Len(asyncs) \in 1..Len(asyncs) /\ Last(asyncs) = asyncs[Len(asyncs)]
      BY <2>1, <3>1, LenProperties DEF Last
    <3> QED
      BY <3>1, <3>2, ElementOfSeq
  <2>3. SwappedOut(active[a]) \in Seq(Asyncs)
    BY <2>1, SwapFacts
  <2> QED
    BY <1>12, <2>1, <2>2, <2>3 DEF uv_close, ev_async_stop, memory, pipe
<1> QED
  BY <1>1, <1>2, <1>3, <1>4, <1>5, <1>6, <1>7, <1>8, <1>9, <1>10, <1>11, <1>12
     DEF Next, Running, Sending

(* Starts and stops keep libev's array in order, and nothing feeds a       *)
(* watcher that is not in it.                                              *)
LEMMA ArrayStep ==
  ASSUME AsyncAssumption, TypeOK, AsyncInv, [Next]_vars
  PROVE  ArrayMatches' /\ ClosedIsQuiet'
<1> USE DEF AsyncInv, ClosedIsQuiet
<1>1. ASSUME UNCHANGED <<asyncs, active, state>>, fed' \subseteq fed
      PROVE  ArrayMatches' /\ ClosedIsQuiet'
  BY <1>1 DEF ArrayMatches
<1>2. CASE UNCHANGED vars
  BY <1>1, <1>2 DEF vars, handles
<1>3. ASSUME NEW p \in Procs, Sending(p) \/ \E a \in Asyncs : uv_async_send(p, a)
      PROVE  ArrayMatches' /\ ClosedIsQuiet'
  BY <1>1, <1>3 DEF Sending, TestFlag, SetFlag, WriteFd, Drain, uv_async_send, handles
<1>4. CASE Poll \/ TestPending \/ ClearPending \/ Scan \/ Return
  BY <1>1, <1>4 DEF Poll, TestPending, ClearPending, Scan, Return, handles
<1>5. CASE Take
  <2>1. i \in DOMAIN asyncs
    BY <1>5, LenProperties DEF Take, WalkInv, TypeOK
  <2>2. asyncs[i] \in Asyncs /\ state[asyncs[i]] = "open"
    BY <2>1, ElementOfSeq DEF ArrayMatches, TypeOK
  <2> QED
    BY <1>5, <2>2 DEF Take, ArrayMatches
<1>6. ASSUME NEW a \in Asyncs, uv__async(a) PROVE ArrayMatches' /\ ClosedIsQuiet'
  BY <1>1, <1>6 DEF uv__async
<1>7. ASSUME NEW a \in Asyncs, uv__finish_close(a)
      PROVE  ArrayMatches' /\ ClosedIsQuiet'
  <2>1. /\ state[a] = "closing" /\ state' = [state EXCEPT ![a] = "closed"]
        /\ UNCHANGED <<asyncs, active, fed>>
    BY <1>7 DEF uv__finish_close
  <2>2. \A k \in DOMAIN asyncs : asyncs[k] # a
    BY <2>1 DEF ArrayMatches
  <2> QED
    BY <2>1, <2>2 DEF ArrayMatches, TypeOK
<1>8. ASSUME NEW a \in Asyncs, uv_async_init(a) PROVE ArrayMatches' /\ ClosedIsQuiet'
  <2>1. /\ state[a] = "closed" /\ state' = [state EXCEPT ![a] = "open"]
        /\ asyncs' = Append(asyncs, a) /\ UNCHANGED fed
        /\ active' = [active EXCEPT ![a] = Len(asyncs) + 1]
    BY <1>8 DEF uv_async_init
  <2>2. Len(asyncs) \in Nat /\ DOMAIN asyncs = 1..Len(asyncs)
    BY LenProperties DEF TypeOK
  <2>3. /\ asyncs' \in Seq(Asyncs) /\ Len(asyncs') = Len(asyncs) + 1
        /\ \A k \in 1..Len(asyncs) : asyncs'[k] = asyncs[k]
        /\ asyncs'[Len(asyncs) + 1] = a
    BY <2>1, AppendFacts DEF TypeOK
  <2>4. DOMAIN asyncs' = 1..(Len(asyncs) + 1)
    BY <2>3, LenProperties
  <2>5. \A k \in DOMAIN asyncs : asyncs[k] \in Asyncs /\ asyncs[k] # a
    BY <2>1, <2>2, ElementOfSeq DEF ArrayMatches, TypeOK
  <2>6. ASSUME NEW b \in Asyncs, state'[b] = "open"
        PROVE  active'[b] \in DOMAIN asyncs' /\ asyncs'[active'[b]] = b
    BY <2>1, <2>2, <2>3, <2>4, <2>6 DEF ArrayMatches, TypeOK
  <2>7. ASSUME NEW k \in DOMAIN asyncs'
        PROVE  state'[asyncs'[k]] = "open" /\ active'[asyncs'[k]] = k
    BY <2>1, <2>2, <2>3, <2>4, <2>5, <2>7 DEF ArrayMatches, TypeOK
  <2> QED
    BY <2>1, <2>6, <2>7 DEF ArrayMatches, TypeOK
<1>9. ASSUME NEW a \in Asyncs, uv_close(a) PROVE ArrayMatches' /\ ClosedIsQuiet'
  <2> DEFINE n == Len(asyncs)
             z == asyncs[n]
  <2>1. /\ state[a] = "open" /\ state' = [state EXCEPT ![a] = "closing"]
        /\ fed' = fed \ {a} /\ asyncs' = SwappedOut(active[a])
        /\ active' = [active EXCEPT ![Last(asyncs)] = active[a], ![a] = 0]
    BY <1>9 DEF uv_close, ev_async_stop
  <2>2. active[a] \in 1..n /\ asyncs[active[a]] = a /\ DOMAIN asyncs = 1..n
    BY <2>1, LenProperties DEF ArrayMatches, TypeOK
  <2>3. /\ asyncs' \in Seq(Asyncs) /\ Len(asyncs') = n - 1 /\ n \in Nat \ {0}
        /\ Last(asyncs) = z
        /\ \A k \in 1..(n - 1) : asyncs'[k] = IF k = active[a] THEN z ELSE asyncs[k]
    BY <2>1, <2>2, SwapFacts DEF TypeOK
  <2>4. DOMAIN asyncs' = 1..(n - 1)
    BY <2>3, LenProperties
  <2>5. \A k \in 1..n : /\ asyncs[k] \in Asyncs /\ state[asyncs[k]] = "open"
                        /\ active[asyncs[k]] = k
    BY <2>2, ElementOfSeq DEF ArrayMatches, TypeOK
  <2>6. n \in 1..n
    BY <2>3
  <2>7. z \in Asyncs /\ state[z] = "open" /\ active[z] = n
    BY <2>5, <2>6
  <2> HIDE DEF n, z
  <2>8. ASSUME NEW b \in Asyncs, state'[b] = "open"
        PROVE  active'[b] \in DOMAIN asyncs' /\ asyncs'[active'[b]] = b
    <3>1. b # a /\ state[b] = "open"
      BY <2>1, <2>8 DEF TypeOK
    <3>2. active[b] \in 1..n /\ asyncs[active[b]] = b
      BY <2>2, <3>1 DEF ArrayMatches
    <3>3. CASE b = z
      <4>1. active'[b] = active[a] /\ active[a] # n
        BY <2>1, <2>2, <2>3, <2>7, <3>1, <3>2, <3>3 DEF TypeOK
      <4> QED
        BY <2>2, <2>3, <2>4, <3>3, <4>1
    <3>4. CASE b # z
      <4>1. active'[b] = active[b] /\ active[b] # n /\ active[b] # active[a]
        BY <2>1, <2>2, <2>3, <2>7, <3>1, <3>2, <3>4 DEF TypeOK, n, z
      <4> QED
        BY <2>3, <2>4, <3>2, <4>1
    <3> QED
      BY <3>3, <3>4
  <2>9. ASSUME NEW k \in DOMAIN asyncs'
        PROVE  state'[asyncs'[k]] = "open" /\ active'[asyncs'[k]] = k
    <3>1. k \in 1..(n - 1) /\ k \in 1..n /\ k # n
      BY <2>3, <2>4, <2>9
    <3>2. CASE k = active[a]
      <4>1. asyncs'[k] = z /\ z # a
        BY <2>2, <2>3, <2>7, <3>1, <3>2
      <4> QED
        BY <2>1, <2>3, <2>7, <3>2, <4>1 DEF TypeOK
    <3>3. CASE k # active[a]
      <4>1. asyncs'[k] = asyncs[k]
        BY <2>3, <3>1, <3>3
      <4>2. asyncs[k] # a /\ asyncs[k] # z
        BY <2>7, <2>5, <3>1, <3>3
      <4> QED
        BY <2>1, <2>3, <2>5, <3>1, <4>1, <4>2 DEF TypeOK
    <3> QED
      BY <3>2, <3>3
  <2> QED
    BY <2>1, <2>8, <2>9 DEF ArrayMatches, TypeOK
<1> QED
  BY <1>2, <1>3, <1>4, <1>5, <1>6, <1>7, <1>8, <1>9 DEF Next, Running

(* The walk stays in the array, which only changes while none runs.        *)
LEMMA WalkStep ==
  ASSUME AsyncAssumption, TypeOK, AsyncInv, [Next]_vars
  PROVE  WalkInv'
<1> USE DEF AsyncInv, WalkInv
<1>0. Len(asyncs) \in Nat /\ i \in Nat /\ DOMAIN asyncs = 1..Len(asyncs)
  BY LenProperties DEF TypeOK
<1>1. CASE UNCHANGED vars
  BY <1>1 DEF vars, pipe, handles
<1>2. ASSUME NEW p \in Procs, Sending(p) \/ \E a \in Asyncs : uv_async_send(p, a)
      PROVE  WalkInv'
  BY <1>2 DEF Sending, TestFlag, SetFlag, WriteFd, Drain, uv_async_send, pipe, handles
<1>3. CASE Poll \/ TestPending \/ ClearPending \/ Scan \/ Take \/ Return
  <2>1. CASE Poll \/ TestPending \/ Return
    BY <1>0, <2>1 DEF Poll, TestPending, Return, handles
  <2>2. CASE ClearPending
    BY <1>0, <2>2 DEF ClearPending, handles
  <2>3. CASE Scan
    BY <1>0, <2>3 DEF Scan, handles
  <2>4. CASE Take
    BY <1>0, <2>4 DEF Take
  <2> QED
    BY <1>3, <2>1, <2>2, <2>3, <2>4
<1>4. ASSUME NEW a \in Asyncs, uv__async(a) \/ uv__finish_close(a) PROVE WalkInv'
  BY <1>4 DEF uv__async, uv__finish_close
<1>5. ASSUME NEW a \in Asyncs, uv_async_init(a) PROVE WalkInv'
  BY <1>0, <1>5, AppendFacts DEF uv_async_init, UserMayCall, pipe, TypeOK
<1>6. ASSUME NEW a \in Asyncs, uv_close(a) PROVE WalkInv'
  <2>1. active[a] \in 1..Len(asyncs)
    BY <1>0, <1>6 DEF uv_close, ArrayMatches
  <2>2. Len(SwappedOut(active[a])) \in Nat
    BY <2>1, SwapFacts DEF TypeOK
  <2> QED
    BY <1>0, <1>6, <2>2 DEF uv_close, ev_async_stop, UserMayCall, pipe
<1> QED
  BY <1>1, <1>2, <1>3, <1>4, <1>5, <1>6 DEF Next, Running

(* The chain from a send to the eventfd is never cut.                      *)
LEMMA WakeupStep ==
  ASSUME ~buffering, AsyncAssumption, TypeOK, AsyncInv, [Next]_vars
  PROVE  WakeupInv'
<1> USE DEF AsyncInv, WalkInv
<1> USE AsyncAssumption
<1>1. CASE UNCHANGED vars
  BY <1>1 DEF vars, memory, pipe, handles, WakeupInv, WalkWillSee, SomeoneIn
<1>2. ASSUME NEW p \in Procs, NEW a \in Asyncs, uv_async_send(p, a) PROVE WakeupInv'
  <2>1. /\ mem' = [mem EXCEPT ![a] = TRUE] /\ UNCHANGED <<buf, evfd, at, i>>
        /\ UNCHANGED <<asyncs, active, fed, state>>
        /\ owed' = [owed EXCEPT ![a] = TRUE]
        /\ pc[p] = "idle" /\ pc' = [pc EXCEPT ![p] = "test"]
    BY <1>2, DirectStore DEF uv_async_send, Step, pipe, handles
  <2>2. /\ pc'[p] = "test" /\ \A q \in Procs \ {p} : pc'[q] = pc[q]
        /\ mem'["async_pending"] = mem["async_pending"]
    BY <2>1 DEF TypeOK, Locs
  <2>3. SomeoneIn({"test", "set"})' /\ (SomeoneIn({"write"}) => SomeoneIn({"write"})')
    BY <2>1, <2>2 DEF SomeoneIn
  <2> QED
    BY <2>1, <2>2, <2>3 DEF WakeupInv, TypeOK, Locs
<1>3. ASSUME NEW p \in Procs, TestFlag(p) PROVE WakeupInv'
  <2>1. /\ UNCHANGED <<mem, buf, evfd, at, i, asyncs, active, fed, state, owed>>
        /\ pc[p] = "test" /\ Load(p, "async_pending") = mem["async_pending"]
        /\ pc' = [pc EXCEPT ![p] = IF mem["async_pending"] THEN "idle" ELSE "set"]
    BY <1>3, DirectLoad DEF TestFlag, Step, memory, pipe, handles, WakeupInv
  <2>2. pc'[p] = (IF mem["async_pending"] THEN "idle" ELSE "set")
        /\ \A q \in Procs \ {p} : pc'[q] = pc[q]
    BY <2>1 DEF TypeOK
  <2>3. /\ SomeoneIn({"test", "set"})' \/ mem["async_pending"]
        /\ SomeoneIn({"write"}) => SomeoneIn({"write"})'
    BY <2>1, <2>2 DEF SomeoneIn
  <2> QED
    BY <2>1, <2>3 DEF WakeupInv, WalkWillSee
<1>4. ASSUME NEW p \in Procs, SetFlag(p) PROVE WakeupInv'
  <2>1. /\ mem' = [mem EXCEPT !["async_pending"] = TRUE]
        /\ UNCHANGED <<buf, evfd, at, i, asyncs, active, fed, state, owed>>
        /\ pc' = [pc EXCEPT ![p] = "write"]
    BY <1>4, DirectStore DEF SetFlag, Step, pipe, handles
  <2>2. SomeoneIn({"write"})'
    BY <2>1 DEF SomeoneIn, TypeOK
  <2>3. mem'["async_pending"] /\ \A a \in Asyncs : mem'[a] = mem[a]
    BY <2>1 DEF TypeOK, Locs
  <2> QED
    BY <2>1, <2>2, <2>3 DEF WakeupInv
<1>5. ASSUME NEW p \in Procs, WriteFd(p) PROVE WakeupInv'
  <2>1. /\ UNCHANGED <<mem, buf, at, i, asyncs, active, fed, state, owed>>
        /\ evfd' /\ pc[p] = "write" /\ pc' = [pc EXCEPT ![p] = "idle"]
    BY <1>5 DEF WriteFd, Step, memory, pipe, handles
  <2>2. \A q \in Procs \ {p} : pc'[q] = pc[q]
    BY <2>1 DEF TypeOK
  <2>3. SomeoneIn({"test", "set"}) => SomeoneIn({"test", "set"})'
    BY <2>1, <2>2 DEF SomeoneIn
  <2> QED
    BY <2>1, <2>3 DEF WakeupInv, WalkWillSee
<1>6. ASSUME NEW p \in Procs, Drain(p) PROVE WakeupInv'
  BY <1>6 DEF Drain, WakeupInv
<1>7. CASE Poll \/ Return
  BY <1>7 DEF Poll, Return, memory, handles, WakeupInv, WalkWillSee, SomeoneIn
<1>8. CASE TestPending
  <2>1. Load(Loop, "async_pending") = mem["async_pending"]
    BY DirectLoad DEF WakeupInv, Procs
  <2> QED
    BY <1>8, <2>1 DEF TestPending, memory, handles, WakeupInv, WalkWillSee, SomeoneIn
<1>9. CASE ClearPending
  <2>1. /\ mem' = [mem EXCEPT !["async_pending"] = FALSE]
        /\ at' = "scan" /\ i' = Len(asyncs)
        /\ UNCHANGED <<buf, pc, evfd, asyncs, active, fed, state, owed>>
    BY <1>9, DirectStore DEF ClearPending, handles
  <2>2. ~mem'["async_pending"] /\ \A a \in Asyncs : mem'[a] = mem[a]
    BY <2>1 DEF TypeOK, Locs
  <2>3. Len(asyncs) \in Nat /\ DOMAIN asyncs = 1..Len(asyncs)
    BY LenProperties DEF TypeOK
  <2>4. \A a \in Asyncs : state[a] = "open" => WalkWillSee(a)'
    BY <2>1, <2>3 DEF WalkWillSee, ArrayMatches
  <2> QED
    BY <2>1, <2>2, <2>3, <2>4 DEF WakeupInv
<1>10. CASE Scan
  <2>1. /\ at = "scan" /\ i \in Nat
        /\ UNCHANGED <<mem, buf, pc, evfd, asyncs, active, fed, state, owed>>
    BY <1>10 DEF Scan, memory, handles, TypeOK
  <2>2. Len(asyncs) \in Nat /\ i <= Len(asyncs)
    BY LenProperties DEF TypeOK, WakeupInv
  <2>3. Load(Loop, asyncs[i]) = mem[asyncs[i]]
    BY DirectLoad DEF WakeupInv, Procs
  <2>4. CASE i = 0
    <3>1. \A a \in Asyncs : state[a] = "open" => ~WalkWillSee(a)
      BY <2>1, <2>4, LenProperties DEF WalkWillSee, ArrayMatches, TypeOK
    <3> QED
      BY <1>10, <2>1, <2>4, <3>1 DEF Scan, WakeupInv, WalkWillSee, SomeoneIn
  <2>5. CASE i > 0 /\ mem[asyncs[i]]
    BY <1>10, <2>1, <2>2, <2>3, <2>5 DEF Scan, WakeupInv, WalkWillSee, SomeoneIn
  <2>6. CASE i > 0 /\ ~mem[asyncs[i]]
    <3>1. i' = i - 1 /\ at' = "scan" /\ i' \in Nat /\ i' <= Len(asyncs)
      BY <1>10, <2>1, <2>2, <2>3, <2>6 DEF Scan
    <3>2. ASSUME NEW a \in Asyncs, state[a] = "open", mem[a], WalkWillSee(a)
          PROVE  WalkWillSee(a)'
      <4>1. active[a] <= i /\ active[a] # i /\ active[a] \in Nat
        BY <2>1, <2>6, <3>2 DEF WalkWillSee, ArrayMatches, TypeOK
      <4> QED
        BY <2>1, <3>1, <4>1 DEF WalkWillSee
    <3> QED
      BY <2>1, <3>1, <3>2 DEF WakeupInv, SomeoneIn
  <2> QED
    BY <2>1, <2>4, <2>5, <2>6
<1>11. CASE Take
  <2>1. /\ at = "take" /\ at' = "scan" /\ i' = i - 1 /\ fed' = fed \cup {asyncs[i]}
        /\ mem' = [mem EXCEPT ![asyncs[i]] = FALSE]
        /\ UNCHANGED <<buf, pc, evfd, asyncs, active, state, owed>>
    BY <1>11, DirectStore DEF Take
  <2>2. /\ i > 0 /\ i <= Len(asyncs) /\ Len(asyncs) \in Nat /\ i \in Nat
        /\ i \in DOMAIN asyncs
    BY <2>1, LenProperties DEF WakeupInv, TypeOK
  <2>3. asyncs[i] \in Asyncs
    BY <2>2, ElementOfSeq DEF TypeOK
  <2>4. /\ mem'["async_pending"] = mem["async_pending"] /\ ~mem'[asyncs[i]]
        /\ \A a \in Asyncs \ {asyncs[i]} : mem'[a] = mem[a]
    BY <2>1, <2>3 DEF TypeOK, Locs
  <2>5. ASSUME NEW a \in Asyncs, state[a] = "open", a # asyncs[i], WalkWillSee(a)
        PROVE  WalkWillSee(a)'
    <3>1. active[a] <= i /\ active[a] # i /\ active[a] \in Nat
      BY <2>1, <2>5 DEF WalkWillSee, ArrayMatches, TypeOK
    <3> QED
      BY <2>1, <2>2, <3>1 DEF WalkWillSee
  <2>6. /\ UNCHANGED SomeoneIn({"test", "set"}) /\ UNCHANGED SomeoneIn({"write"})
    BY <2>1 DEF SomeoneIn
  <2>7. \A p \in Procs : buf'[p] = <<>>
    BY <2>1 DEF WakeupInv
  <2>8. \A a \in Asyncs : state'[a] = "open" /\ owed'[a] => mem'[a] \/ a \in fed'
    BY <2>1, <2>4 DEF WakeupInv
  <2>9. \A a \in Asyncs : state'[a] = "open" /\ mem'[a] =>
          mem'["async_pending"] \/ WalkWillSee(a)' \/ SomeoneIn({"test", "set"})'
    BY <2>1, <2>4, <2>5, <2>6 DEF WakeupInv
  <2>10. mem'["async_pending"] =>
          evfd' \/ at' \in {"test", "clear"} \/ SomeoneIn({"write"})'
    BY <2>1, <2>4, <2>6 DEF WakeupInv
  <2>11. i' <= Len(asyncs') /\ at' \notin {"poll", "callback", "test", "clear", "take"}
    BY <2>1, <2>2
  <2> QED
    BY <2>7, <2>8, <2>9, <2>10, <2>11 DEF WakeupInv
<1>12. ASSUME NEW a \in Asyncs, uv__async(a) PROVE WakeupInv'
  <2>1. /\ at = "poll" /\ at' = "callback" /\ fed' = fed \ {a}
        /\ owed' = [owed EXCEPT ![a] = FALSE]
        /\ UNCHANGED <<mem, buf, pc, evfd, i, asyncs, active, state>>
    BY <1>12 DEF uv__async, memory
  <2>2. ~owed'[a] /\ \A b \in Asyncs \ {a} : owed'[b] = owed[b]
    BY <2>1 DEF TypeOK
  <2> QED
    BY <2>1, <2>2 DEF WakeupInv, WalkWillSee, SomeoneIn
<1>13. ASSUME NEW a \in Asyncs, uv__finish_close(a) PROVE WakeupInv'
  <2>1. /\ at = "poll" /\ at' = "callback" /\ state' = [state EXCEPT ![a] = "closed"]
        /\ UNCHANGED <<mem, buf, pc, evfd, i, asyncs, active, fed, owed>>
    BY <1>13 DEF uv__finish_close, memory
  <2>2. \A b \in Asyncs : state'[b] = "open" => state[b] = "open"
    BY <2>1 DEF TypeOK
  <2> QED
    BY <2>1, <2>2 DEF WakeupInv, WalkWillSee, SomeoneIn
<1>14. ASSUME NEW a \in Asyncs, uv_async_init(a) PROVE WakeupInv'
  <2>1. /\ at \in {"poll", "callback"} /\ state' = [state EXCEPT ![a] = "open"]
        /\ mem' = [mem EXCEPT ![a] = FALSE] /\ owed' = [owed EXCEPT ![a] = FALSE]
        /\ asyncs' = Append(asyncs, a)
        /\ UNCHANGED <<buf, pc, evfd, at, i, fed>>
    BY <1>14 DEF uv_async_init, UserMayCall, pipe
  <2>2. i' <= Len(asyncs')
    BY <2>1, AppendFacts, LenProperties DEF WakeupInv, TypeOK
  <2>3. /\ ~mem'[a] /\ ~owed'[a] /\ mem'["async_pending"] = mem["async_pending"]
        /\ \A b \in Asyncs \ {a} :
             mem'[b] = mem[b] /\ owed'[b] = owed[b] /\ state'[b] = state[b]
    BY <2>1 DEF TypeOK, Locs
  <2>4. \A b \in Asyncs : ~WalkWillSee(b)
    BY <2>1 DEF WalkWillSee
  <2>5. /\ UNCHANGED SomeoneIn({"test", "set"}) /\ UNCHANGED SomeoneIn({"write"})
    BY <2>1 DEF SomeoneIn
  <2> QED
    BY <2>1, <2>2, <2>3, <2>4, <2>5 DEF WakeupInv
<1>15. ASSUME NEW a \in Asyncs, uv_close(a) PROVE WakeupInv'
  <2>1. /\ at \in {"poll", "callback"} /\ state[a] = "open" /\ fed' = fed \ {a}
        /\ state' = [state EXCEPT ![a] = "closing"]
        /\ asyncs' = SwappedOut(active[a])
        /\ UNCHANGED <<mem, buf, pc, evfd, at, i, owed>>
    BY <1>15 DEF uv_close, ev_async_stop, UserMayCall, memory, pipe
  <2>2. active[a] \in 1..Len(asyncs)
    BY <2>1, LenProperties DEF ArrayMatches, TypeOK
  <2>3. i' = 0 /\ Len(asyncs') \in Nat
    BY <2>1, <2>2, SwapFacts DEF WakeupInv, TypeOK
  <2>4. \A b \in Asyncs : state'[b] = "open" => state[b] = "open" /\ b # a
    BY <2>1 DEF TypeOK
  <2>5. \A b \in Asyncs : ~WalkWillSee(b)
    BY <2>1 DEF WalkWillSee
  <2>6. /\ UNCHANGED SomeoneIn({"test", "set"}) /\ UNCHANGED SomeoneIn({"write"})
    BY <2>1 DEF SomeoneIn
  <2> QED
    BY <2>1, <2>3, <2>4, <2>5, <2>6 DEF WakeupInv
<1> QED
  BY <1>1, <1>2, <1>3, <1>4, <1>5, <1>6, <1>7, <1>8, <1>9, <1>10, <1>11, <1>12, <1>13,
     <1>14, <1>15 DEF Next, Running, Sending

-----------------------------------------------------------------------------
(* Which memory the machine has never changes.                             *)
LEMMA BufferingKept == ASSUME [Next]_vars PROVE UNCHANGED buffering
BY DEF Next, vars, memory, Running, Sending, Poll, TestPending, ClearPending, Scan,
   Take, Return, uv__async, uv__finish_close, TestFlag, SetFlag, WriteFd, Drain,
   uv_async_send, uv_async_init, uv_close, Store

(* The invariant of every behaviour.                                       *)
LEMMA AsyncInvariant == Spec => [](TypeOK /\ AsyncInv)
<1>1. Init => TypeOK /\ AsyncInv
  BY AsyncInit, AsyncAssumption
<1>2. TypeOK /\ AsyncInv /\ [Next]_vars => (TypeOK /\ AsyncInv)'
  <2> SUFFICES ASSUME TypeOK, AsyncInv, [Next]_vars PROVE (TypeOK /\ AsyncInv)'
    OBVIOUS
  <2>1. TypeOK' /\ ArrayMatches' /\ ClosedIsQuiet' /\ WalkInv'
    BY AsyncAssumption, AsyncType, ArrayStep, WalkStep
  <2>2. UNCHANGED buffering
    BY BufferingKept
  <2>3. ~buffering => WakeupInv'
    BY AsyncAssumption, WakeupStep
  <2> QED
    BY <2>1, <2>2, <2>3 DEF AsyncInv
<1> QED
  BY <1>1, <1>2, PTL DEF Spec

(* Under sequential consistency the guarantee uv.h gives for               *)
(* uv_async_send holds for every number of threads and handles: the loop   *)
(* never comes to rest with the callback of an open handle owed.           *)
THEOREM SendCallsBack == Spec => []AtLeastOnceInOrder
<1>1. TypeOK /\ AsyncInv => AtLeastOnceInOrder
  <2> SUFFICES ASSUME TypeOK, AsyncInv, ~buffering, Quiet,
                      NEW a \in Asyncs, state[a] = "open", owed[a]
               PROVE  FALSE
    BY DEF AtLeastOnceInOrder, AtLeastOnce, TypeOK
  <2>1. ~SomeoneIn({"test", "set"}) /\ ~SomeoneIn({"write"}) /\ ~WalkWillSee(a)
    BY DEF Quiet, SomeoneIn, WalkWillSee
  <2>2. mem[a]
    BY DEF AsyncInv, WakeupInv, Quiet
  <2>3. mem["async_pending"]
    BY <2>1, <2>2 DEF AsyncInv, WakeupInv
  <2> QED
    BY <2>1, <2>3 DEF AsyncInv, WakeupInv, Quiet
<1> QED
  BY <1>1, AsyncInvariant, PTL

(* No callback follows uv_close, with or without store buffers.            *)
THEOREM ClosedStaysQuiet == Spec => []ClosedIsQuiet
<1>1. AsyncInv => ClosedIsQuiet
  BY DEF AsyncInv
<1> QED
  BY <1>1, AsyncInvariant, PTL

(* libev's array of async watchers holds each open handle once and where   *)
(* its watcher says, for any number of handles, with or without store      *)
(* buffers.                                                                *)
THEOREM ArrayStaysConsistent == Spec => []ArrayConsistent
<1>1. TypeOK /\ AsyncInv => ArrayConsistent
  BY DEF AsyncInv, ArrayConsistent
<1> QED
  BY <1>1, AsyncInvariant, PTL

-----------------------------------------------------------------------------
(* The flag does not stay set, whatever the store buffers hold.            *)

(* A store enters the buffer of its thread, and no other store leaves one. *)
LEMMA BuffersStore ==
  ASSUME TypeOK, NEW p \in Procs, NEW x \in Locs, NEW v \in BOOLEAN, Store(p, x, v)
  PROVE  /\ \A q \in Procs : \A y, w : Buffers(q, y, w) => Buffers(q, y, w)'
         /\ \A q \in Procs : \A y, w : Buffers(q, y, w)' =>
              Buffers(q, y, w) \/ (q = p /\ <<y, w>> = <<x, v>>)
         /\ mem' = [mem EXCEPT ![x] = v] \/ (UNCHANGED mem /\ Buffers(p, x, v)')
<1>1. CASE UNCHANGED buf /\ mem' = [mem EXCEPT ![x] = v]
  BY <1>1 DEF Buffers
<1>2. CASE UNCHANGED mem /\ buf' = [buf EXCEPT ![p] = Append(buf[p], <<x, v>>)]
  <2> DEFINE b == buf[p]
             c == Append(b, <<x, v>>)
  <2>1. /\ buf'[p] = c /\ \A q \in Procs \ {p} : buf'[q] = buf[q]
    BY <1>2 DEF TypeOK
  <2>2. b \in Seq(Locs \X BOOLEAN) /\ <<x, v>> \in Locs \X BOOLEAN
    BY DEF TypeOK
  <2> HIDE DEF b
  <2>3. /\ Len(b) \in Nat /\ DOMAIN b = 1..Len(b) /\ DOMAIN c = 1..(Len(b) + 1)
        /\ \A j \in 1..Len(b) : c[j] = b[j]
        /\ c[Len(b) + 1] = <<x, v>>
    BY <2>2, AppendProperties, LenProperties
  <2> HIDE DEF c
  <2>4. ASSUME NEW z
        PROVE  (\E j \in DOMAIN c : c[j] = z)
                 <=> ((\E j \in DOMAIN b : b[j] = z) \/ z = <<x, v>>)
    <3>1. ASSUME NEW j \in DOMAIN c, c[j] = z
          PROVE  (\E k \in DOMAIN b : b[k] = z) \/ z = <<x, v>>
      <4>1. CASE j = Len(b) + 1
        BY <2>3, <3>1, <4>1
      <4>2. CASE j # Len(b) + 1
        <5>1. j \in DOMAIN b /\ b[j] = z
          BY <2>3, <3>1, <4>2
        <5> QED
          BY <5>1
      <4> QED
        BY <4>1, <4>2
    <3>2. ASSUME NEW j \in DOMAIN b, b[j] = z PROVE \E k \in DOMAIN c : c[k] = z
      BY <2>3, <3>2
    <3>3. Len(b) + 1 \in DOMAIN c
      BY <2>3
    <3> QED
      BY <2>3, <3>1, <3>2, <3>3
  <2>5. ASSUME NEW y, NEW w
        PROVE  Buffers(p, y, w)' <=> (Buffers(p, y, w) \/ <<y, w>> = <<x, v>>)
    BY <2>1, <2>4 DEF Buffers, b
  <2>6. ASSUME NEW q \in Procs, q # p, NEW y, NEW w PROVE Buffers(q, y, w)' <=> Buffers(q, y, w)
    BY <2>1, <2>6 DEF Buffers
  <2>7. Buffers(p, x, v)'
    BY <2>5
  <2> QED
    BY <1>2, <2>5, <2>6, <2>7
<1> QED
  BY <1>1, <1>2 DEF Store

(* The oldest store leaves the buffer of its thread, and no other does.    *)
LEMMA BuffersDrain ==
  ASSUME TypeOK, NEW p \in Procs, Drain(p)
  PROVE  /\ \A q \in Procs : \A y, w : Buffers(q, y, w)' => Buffers(q, y, w)
         /\ \A q \in Procs : \A y, w : Buffers(q, y, w) =>
              Buffers(q, y, w)' \/ (q = p /\ <<y, w>> = Head(buf[p]))
         /\ \E y \in Locs, w \in BOOLEAN :
              /\ Head(buf[p]) = <<y, w>> /\ Buffers(p, y, w)
              /\ mem' = [mem EXCEPT ![y] = w]
<1> DEFINE b == buf[p]
           c == Tail(b)
<1>1. /\ b \in Seq(Locs \X BOOLEAN) /\ b # <<>> /\ buf' = [buf EXCEPT ![p] = c]
      /\ mem' = [mem EXCEPT ![Head(b)[1]] = Head(b)[2]]
  BY DEF Drain, TypeOK
<1>2. /\ buf'[p] = c /\ \A q \in Procs \ {p} : buf'[q] = buf[q]
  BY <1>1 DEF TypeOK
<1> HIDE DEF b
<1>3. /\ Len(b) \in Nat \ {0} /\ DOMAIN b = 1..Len(b) /\ DOMAIN c = 1..(Len(b) - 1)
      /\ \A j \in 1..(Len(b) - 1) : c[j] = b[j + 1]
      /\ Head(b) = b[1] /\ Head(b) \in Locs \X BOOLEAN
  BY <1>1, EmptySeq, HeadTailProperties, LenProperties, ElementOfSeq
<1> HIDE DEF c
<1>4. \A j \in 1..(Len(b) - 1) : j + 1 \in DOMAIN b /\ c[j] = b[j + 1]
  BY <1>3
<1>5. \A z : (\E j \in DOMAIN c : c[j] = z) => (\E j \in DOMAIN b : b[j] = z)
  BY <1>3, <1>4
<1>6. ASSUME NEW z, \E j \in DOMAIN b : b[j] = z, z # Head(b)
      PROVE  \E j \in DOMAIN c : c[j] = z
  <2>1. PICK j \in 1..Len(b) : b[j] = z
    BY <1>3, <1>6
  <2>2. j # 1 /\ j - 1 \in DOMAIN c /\ c[j - 1] = b[(j - 1) + 1] /\ (j - 1) + 1 = j
    BY <1>3, <1>6, <2>1
  <2> QED
    BY <2>1, <2>2
<1>7. PICK y \in Locs, w \in BOOLEAN : Head(b) = <<y, w>>
  BY <1>3
<1>8. Buffers(p, y, w) /\ mem' = [mem EXCEPT ![y] = w]
  <2>1. 1 \in DOMAIN b /\ b[1] = <<y, w>>
    BY <1>3, <1>7
  <2>2. mem' = [mem EXCEPT ![y] = w]
    <3>1. Head(b)[1] = y /\ Head(b)[2] = w
      BY <1>7
    <3> QED
      BY <1>1, <3>1, Zenon
  <2> QED
    BY <2>1, <2>2 DEF Buffers, b
<1>9. ASSUME NEW x, NEW v
      PROVE  /\ Buffers(p, x, v)' => Buffers(p, x, v)
             /\ Buffers(p, x, v) => Buffers(p, x, v)' \/ <<x, v>> = Head(b)
  BY <1>2, <1>5, <1>6 DEF Buffers, b
<1>10. ASSUME NEW q \in Procs, q # p, NEW x, NEW v PROVE Buffers(q, x, v)' <=> Buffers(q, x, v)
  BY <1>2, <1>10 DEF Buffers
<1> QED
  BY <1>7, <1>8, <1>9, <1>10 DEF b

(* A step that leaves the flag, the buffers and the senders alone.         *)
LEMMA FlagKept ==
  ASSUME FlagInv, UNCHANGED <<buf, pc>>,
         mem'["async_pending"] => mem["async_pending"],
         evfd => evfd',
         at' \notin {"poll", "callback"} => at \notin {"poll", "callback"} \/ pc[Loop] = "idle",
         at' = "test" => at = "test",
         at \in {"test", "clear"} /\ mem'["async_pending"] => at' \in {"test", "clear"}
  PROVE  FlagInv'
BY DEF FlagInv, Buffers, SomeoneIn

(* FlagInv is inductive.                                                   *)
LEMMA FlagStep ==
  ASSUME AsyncAssumption, TypeOK, AsyncInv, FlagInv, [Next]_vars PROVE FlagInv'
<1>0. Loop \in Procs /\ "async_pending" \in Locs /\ "async_pending" \notin Asyncs
  BY AsyncAssumption DEF Procs, Locs
<1>1. CASE UNCHANGED vars
  BY <1>1, FlagKept DEF vars, memory, pipe
<1>2. ASSUME NEW p \in Procs, NEW a \in Asyncs, uv_async_send(p, a) PROVE FlagInv'
  <2>1. /\ pc[p] = "idle" /\ pc'[p] = "test" /\ \A q \in Procs \ {p} : pc'[q] = pc[q]
        /\ Store(p, a, TRUE) /\ a \in Locs /\ UNCHANGED <<evfd, at>>
        /\ p = Loop => at \in {"poll", "callback"}
    BY <1>2 DEF uv_async_send, Step, pipe, TypeOK, Locs, UserMayCall
  <2>2. /\ \A q \in Procs : \A y, w : Buffers(q, y, w) => Buffers(q, y, w)'
        /\ \A q \in Procs : \A y, w : Buffers(q, y, w)' =>
             Buffers(q, y, w) \/ (q = p /\ <<y, w>> = <<a, TRUE>>)
        /\ mem' = [mem EXCEPT ![a] = TRUE] \/ UNCHANGED mem
    <3>1. a \in Locs /\ Store(p, a, TRUE)
      BY <2>1
    <3> QED
      BY <3>1, BuffersStore
  <2>3. mem'["async_pending"] = mem["async_pending"]
    BY <1>0, <2>2 DEF TypeOK
  <2>4. SomeoneIn({"write"}) => SomeoneIn({"write"})'
    BY <2>1 DEF SomeoneIn
  <2>5. \A q \in Procs : Buffers(q, "async_pending", TRUE)' =>
          Buffers(q, "async_pending", TRUE) /\ q # p
    BY <1>0, <2>1, <2>2 DEF FlagInv
  <2>6. at = "test" => buf'[Loop] = buf[Loop]
    BY <1>0, <2>1 DEF Store, TypeOK
  <2> QED
    BY <1>0, <2>1, <2>2, <2>3, <2>4, <2>5, <2>6 DEF FlagInv
<1>3. ASSUME NEW p \in Procs, TestFlag(p) PROVE FlagInv'
  <2>1. /\ pc[p] = "test" /\ pc'[p] \in {"idle", "set"} /\ \A q \in Procs \ {p} : pc'[q] = pc[q]
        /\ UNCHANGED <<mem, buf, evfd, at>>
    BY <1>3 DEF TestFlag, Step, memory, pipe, TypeOK
  <2>2. SomeoneIn({"write"}) => SomeoneIn({"write"})'
    BY <2>1 DEF SomeoneIn
  <2> QED
    BY <1>0, <2>1, <2>2 DEF FlagInv, Buffers
<1>4. ASSUME NEW p \in Procs, SetFlag(p) PROVE FlagInv'
  <2>1. /\ pc[p] = "set" /\ pc'[p] = "write" /\ \A q \in Procs \ {p} : pc'[q] = pc[q]
        /\ Store(p, "async_pending", TRUE) /\ UNCHANGED <<evfd, at>>
    BY <1>4 DEF SetFlag, Step, pipe, TypeOK
  <2>2. \A q \in Procs : \A y, w : Buffers(q, y, w)' =>
          Buffers(q, y, w) \/ (q = p /\ <<y, w>> = <<"async_pending", TRUE>>)
    BY <1>0, <2>1, BuffersStore
  <2>3. SomeoneIn({"write"})'
    BY <2>1 DEF SomeoneIn
  <2>4. p = Loop => at \in {"poll", "callback"}
    BY <2>1 DEF FlagInv
  <2>5. p # Loop => buf'[Loop] = buf[Loop]
    BY <1>0, <2>1 DEF Store, TypeOK
  <2> QED
    BY <1>0, <2>1, <2>2, <2>3, <2>4, <2>5 DEF FlagInv
<1>5. ASSUME NEW p \in Procs, WriteFd(p) PROVE FlagInv'
  <2>1. /\ pc'[p] = "idle" /\ \A q \in Procs \ {p} : pc'[q] = pc[q]
        /\ buf[p] = <<>> /\ evfd' /\ UNCHANGED <<mem, buf, at>>
    BY <1>5 DEF WriteFd, Step, memory, pipe, TypeOK
  <2>2. ~Buffers(p, "async_pending", TRUE)
    BY <2>1 DEF Buffers
  <2> QED
    BY <1>0, <2>1, <2>2 DEF FlagInv, Buffers
<1>6. ASSUME NEW p \in Procs, Drain(p) PROVE FlagInv'
  <2>1. PICK y \in Locs, w \in BOOLEAN :
          /\ Head(buf[p]) = <<y, w>> /\ Buffers(p, y, w)
          /\ mem' = [mem EXCEPT ![y] = w]
    BY <1>6, BuffersDrain
  <2>2. /\ \A q \in Procs : \A x, v : Buffers(q, x, v)' => Buffers(q, x, v)
        /\ \A q \in Procs : \A x, v : Buffers(q, x, v) =>
             Buffers(q, x, v)' \/ (q = p /\ <<x, v>> = <<y, w>>)
    BY <1>6, <2>1, BuffersDrain
  <2>3. /\ UNCHANGED <<pc, evfd, at>> /\ buf[p] # <<>> /\ buf' = [buf EXCEPT ![p] = Tail(@)]
    BY <1>6 DEF Drain, pipe
  <2>4. at = "test" => p # Loop /\ buf'[Loop] = <<>>
    BY <1>0, <2>3 DEF FlagInv, TypeOK
  <2>5. UNCHANGED SomeoneIn({"write"})
    BY <2>3 DEF SomeoneIn
  <2>6. CASE y = "async_pending"
    <3>1. mem'["async_pending"] = w
      BY <1>0, <2>1, <2>6 DEF TypeOK
    <3>2. w => SomeoneIn({"write"})
      BY <2>1, <2>6 DEF FlagInv, SomeoneIn
    <3> QED
      BY <2>2, <2>3, <2>4, <2>5, <3>1, <3>2 DEF FlagInv
  <2>7. CASE y # "async_pending"
    <3>1. mem'["async_pending"] = mem["async_pending"]
      BY <1>0, <2>1, <2>7 DEF TypeOK
    <3>2. Buffers(Loop, "async_pending", FALSE) => Buffers(Loop, "async_pending", FALSE)'
      <4>1. <<"async_pending", FALSE>> # <<y, w>>
        BY <2>7
      <4> QED
        BY <1>0, <2>2, <4>1
    <3> QED
      BY <2>2, <2>3, <2>4, <2>5, <3>1, <3>2 DEF FlagInv
  <2> QED
    BY <2>6, <2>7
<1>7. CASE Poll
  BY <1>7 DEF Poll, memory, FlagInv, Buffers
<1>8. CASE TestPending
  <2>1. at = "test" /\ Load(Loop, "async_pending") = mem["async_pending"]
    BY <1>8, DirectLoad DEF TestPending, FlagInv
  <2> QED
    BY <1>8, <2>1, FlagKept DEF TestPending, memory
<1>9. CASE ClearPending
  <2>1. /\ at = "clear" /\ at' = "scan" /\ UNCHANGED <<pc, evfd>>
        /\ Store(Loop, "async_pending", FALSE)
    BY <1>9 DEF ClearPending
  <2>2. /\ \A q \in Procs : \A y, w : Buffers(q, y, w)' =>
             Buffers(q, y, w) \/ (q = Loop /\ <<y, w>> = <<"async_pending", FALSE>>)
        /\ \/ mem' = [mem EXCEPT !["async_pending"] = FALSE]
           \/ Buffers(Loop, "async_pending", FALSE)'
    BY <1>0, <2>1, BuffersStore
  <2>3. \A q \in Procs : Buffers(q, "async_pending", TRUE)' => Buffers(q, "async_pending", TRUE)
    BY <2>2
  <2>4. mem'["async_pending"] => Buffers(Loop, "async_pending", FALSE)'
    BY <1>0, <2>2 DEF TypeOK
  <2> QED
    BY <2>1, <2>3, <2>4 DEF FlagInv
<1>10. CASE Scan \/ Return
  <2>1. /\ UNCHANGED <<mem, buf, pc, evfd>> /\ at \notin {"test", "clear"}
        /\ at' \in {"scan", "take", "poll"} /\ (at = "scan" \/ at' = "poll")
    BY <1>10 DEF Scan, Return, memory
  <2> QED
    BY <2>1, FlagKept DEF FlagInv
<1>11. CASE Take
  <2>1. /\ at = "take" /\ at' = "scan" /\ UNCHANGED <<pc, evfd>>
        /\ Store(Loop, asyncs[i], FALSE)
    BY <1>11 DEF Take
  <2>2. asyncs[i] \in Asyncs
    BY <2>1, LenProperties, ElementOfSeq DEF AsyncInv, WalkInv, TypeOK
  <2>3. /\ \A q \in Procs : \A y, w : Buffers(q, y, w) => Buffers(q, y, w)'
        /\ \A q \in Procs : \A y, w : Buffers(q, y, w)' =>
             Buffers(q, y, w) \/ (q = Loop /\ <<y, w>> = <<asyncs[i], FALSE>>)
        /\ mem' = [mem EXCEPT ![asyncs[i]] = FALSE] \/ UNCHANGED mem
    BY <1>0, <2>1, <2>2, BuffersStore DEF Locs
  <2>4. mem'["async_pending"] = mem["async_pending"]
    BY <1>0, <2>2, <2>3 DEF TypeOK
  <2>5. \A q \in Procs : Buffers(q, "async_pending", TRUE)' => Buffers(q, "async_pending", TRUE)
    BY <1>0, <2>2, <2>3
  <2>6. UNCHANGED SomeoneIn({"write"})
    BY <2>1 DEF SomeoneIn
  <2>7. Buffers(Loop, "async_pending", FALSE) => Buffers(Loop, "async_pending", FALSE)'
    BY <1>0, <2>3
  <2> QED
    BY <2>1, <2>4, <2>5, <2>6, <2>7 DEF FlagInv
<1>12. ASSUME NEW a \in Asyncs, uv__async(a) \/ uv__finish_close(a) \/ uv_close(a)
       PROVE  FlagInv'
  BY <1>12, FlagKept DEF uv__async, uv__finish_close, uv_close, memory, pipe
<1>13. ASSUME NEW a \in Asyncs, uv_async_init(a) PROVE FlagInv'
  <2>1. mem'["async_pending"] = mem["async_pending"]
    BY <1>0, <1>13 DEF uv_async_init, TypeOK
  <2> QED
    BY <1>13, <2>1, FlagKept DEF uv_async_init, pipe
<1> QED
  BY <1>1, <1>2, <1>3, <1>4, <1>5, <1>6, <1>7, <1>8, <1>9, <1>10, <1>11, <1>12, <1>13
     DEF Next, Running, Sending

(* A wakeup that a store buffer loses does not take the next ones with it: *)
(* the loop never comes to rest with async_pending set, for any number of  *)
(* threads and handles and store buffers of any length.                    *)
THEOREM FlagIsNotStuck == Spec => []FlagNotStuck
<1>1. Init => FlagInv
  BY AsyncAssumption DEF Init, FlagInv, Buffers, Locs
<1>2. TypeOK /\ AsyncInv /\ FlagInv /\ [Next]_vars => FlagInv'
  BY AsyncAssumption, FlagStep
<1>3. FlagInv => FlagNotStuck
  <2> SUFFICES ASSUME FlagInv, Quiet PROVE ~mem["async_pending"]
    BY DEF FlagNotStuck
  <2>1. Loop \in Procs /\ buf[Loop] = <<>>
    BY DEF Procs, Quiet
  <2>2. ~Buffers(Loop, "async_pending", FALSE)
    BY <2>1 DEF Buffers
  <2>3. ~evfd /\ at = "poll" /\ ~SomeoneIn({"write"})
    BY DEF Quiet, SomeoneIn
  <2> QED
    BY <2>2, <2>3 DEF FlagInv
<1> QED
  BY <1>1, <1>2, <1>3, AsyncInvariant, PTL DEF Spec

-----------------------------------------------------------------------------
(* UvAsync implements WakeupContract.                                      *)

\* The variables of WakeupContract, as functions of those of UvAsync.
OpenNow == {a \in Asyncs : Seen(state[a] = "open")}
Due(a) == (IF Seen(state[a] = "open" /\ mem[a]) THEN 1 ELSE 0)
          + (IF Seen(a \in fed) THEN 1 ELSE 0)
Coming == [a \in Asyncs |-> Due(a)]

(* What the walk has fed lies behind it, and it feeds a watcher whose sent *)
(* is still set, since only the loop clears it.                            *)
LEMMA FedStep ==
  ASSUME AsyncAssumption, TypeOK, AsyncInv, FedBehind, [Next]_vars
  PROVE  FedBehind'
<1> USE DEF AsyncInv
<1>0. Len(asyncs) \in Nat /\ DOMAIN asyncs = 1..Len(asyncs) /\ i \in Nat
  BY LenProperties DEF TypeOK
<1>1. ASSUME UNCHANGED <<buffering, at, i, asyncs, active, fed>>,
             \A a \in Asyncs : mem[a] => mem'[a] \/ buffering
      PROVE  FedBehind'
  <2>1. at = "take" => asyncs[i] \in Asyncs
    BY <1>0, ElementOfSeq DEF WalkInv, TypeOK
  <2> QED
    BY <1>1, <2>1 DEF FedBehind
<1>2. CASE UNCHANGED vars
  BY <1>1, <1>2 DEF vars, memory, pipe, handles
<1>3. ASSUME NEW p \in Procs, NEW a \in Asyncs, uv_async_send(p, a) PROVE FedBehind'
  <2>1. \/ mem' = [mem EXCEPT ![a] = TRUE]
        \/ mem' = mem
    BY <1>3 DEF uv_async_send, Store
  <2>2. \A b \in Asyncs : mem[b] => mem'[b]
    BY <2>1 DEF TypeOK, Locs
  <2> QED
    BY <1>1, <1>3, <2>2 DEF uv_async_send, Store, pipe, handles
<1>4. ASSUME NEW p \in Procs, SetFlag(p) PROVE FedBehind'
  <2>1. \/ mem' = [mem EXCEPT !["async_pending"] = TRUE]
        \/ mem' = mem
    BY <1>4 DEF SetFlag, Store
  <2>2. \A b \in Asyncs : mem[b] => mem'[b]
    BY <2>1 DEF TypeOK, Locs
  <2> QED
    BY <1>1, <1>4, <2>2 DEF SetFlag, Store, pipe, handles
<1>5. ASSUME NEW p \in Procs, TestFlag(p) \/ WriteFd(p) PROVE FedBehind'
  BY <1>1, <1>5 DEF TestFlag, WriteFd, memory, pipe, handles
<1>6. ASSUME NEW p \in Procs, Drain(p) PROVE FedBehind'
  <2>1. buffering
    BY <1>6 DEF Drain, WakeupInv
  <2> QED
    BY <1>1, <1>6, <2>1 DEF Drain, pipe, handles
<1>7. CASE Poll \/ TestPending \/ Return
  BY <1>7 DEF Poll, TestPending, Return, handles, FedBehind
<1>8. CASE ClearPending
  BY <1>8 DEF ClearPending, handles, FedBehind
<1>9. CASE Scan
  <2>1. ~buffering => Load(Loop, asyncs[i]) = mem[asyncs[i]]
    BY DirectLoad DEF WakeupInv, Procs
  <2>2. /\ at = "scan" /\ at' \in {"scan", "take", "poll"} /\ i' \in {i, i - 1} /\ i' <= i
        /\ at' = "take" => i' = i /\ Load(Loop, asyncs[i])
        /\ UNCHANGED <<buffering, mem, asyncs, active, fed>>
    BY <1>0, <1>9 DEF Scan, memory, handles
  <2>3. \A a \in fed : active[a] > i' \/ at' = "poll"
    BY <1>0, <2>2 DEF FedBehind, TypeOK
  <2> QED
    BY <2>1, <2>2, <2>3 DEF FedBehind
<1>10. CASE Take
  <2>1. /\ at = "take" /\ at' = "scan" /\ i' = i - 1 /\ fed' = fed \cup {asyncs[i]}
        /\ UNCHANGED <<asyncs, active>>
    BY <1>10 DEF Take
  <2>2. i \in DOMAIN asyncs /\ active[asyncs[i]] = i
    BY <1>0, <2>1 DEF WalkInv, ArrayMatches
  <2>3. \A a \in fed : active[a] > i'
    BY <1>0, <2>1 DEF FedBehind, TypeOK
  <2>4. i > i'
    BY <1>0, <2>1
  <2> QED
    BY <2>1, <2>2, <2>3, <2>4 DEF FedBehind
<1>11. ASSUME NEW a \in Asyncs,
              uv__async(a) \/ uv__finish_close(a) \/ uv_async_init(a) \/ uv_close(a)
       PROVE  FedBehind'
  <2>1. at' \in {"poll", "callback"}
    BY <1>11 DEF uv__async, uv__finish_close, uv_async_init, uv_close, UserMayCall, pipe
  <2> QED
    BY <2>1 DEF FedBehind
<1> QED
  BY <1>2, <1>3, <1>4, <1>5, <1>6, <1>7, <1>8, <1>9, <1>10, <1>11 DEF Next, Running, Sending

(* A step that shows in none of the contract's variables stutters.         *)
LEMMA WakeupStutters ==
  ASSUME UNCHANGED OpenNow, \A a \in Asyncs : Due(a)' = Due(a)
  PROVE  UNCHANGED Contract!vars
BY DEF Contract!vars, OpenNow, Due

(* The count of one handle changes.                                        *)
LEMMA ComingChanges ==
  ASSUME NEW a \in Asyncs, NEW n, Due(a)' = n,
         \A b \in Asyncs \ {a} : Due(b)' = Due(b)
  PROVE  Coming' = [Coming EXCEPT ![a] = n]
BY DEF Coming

(* Every step is one of the contract, or a stutter.                        *)
LEMMA RefinesWakeup ==
  ASSUME AsyncAssumption, TypeOK, AsyncInv, FedBehind, UNCHANGED buffering, [Next]_vars
  PROVE  [Contract!Next]_(Contract!vars)
<1> USE DEF AsyncInv
<1>1. CASE buffering
  BY <1>1, WakeupStutters DEF OpenNow, Due, Seen
<1>2. CASE ~buffering
  <2>a. ~buffering'
    BY <1>2
  <2>b. ASSUME UNCHANGED <<state, fed>>, \A a \in Asyncs : mem'[a] = mem[a]
        PROVE  UNCHANGED Contract!vars
    <3>1. UNCHANGED OpenNow /\ \A a \in Asyncs : Due(a)' = Due(a)
      BY <1>2, <2>a, <2>b DEF OpenNow, Due, Seen
    <3> QED
      BY <3>1, WakeupStutters
  <2>1. CASE UNCHANGED vars
    BY <2>1, <2>b DEF vars, memory, handles
  <2>2. ASSUME NEW p \in Procs, NEW a \in Asyncs, uv_async_send(p, a)
        PROVE  [Contract!Next]_(Contract!vars)
    <3>1. /\ mem' = [mem EXCEPT ![a] = TRUE] /\ state[a] = "open"
          /\ UNCHANGED <<state, fed>>
      BY <1>2, <2>2, DirectStore DEF uv_async_send, handles
    <3>2. mem'[a] /\ \A b \in Asyncs \ {a} : mem'[b] = mem[b]
      BY <3>1 DEF TypeOK, Locs
    <3>3. CASE mem[a]
      <4>1. \A b \in Asyncs : mem'[b] = mem[b]
        BY <3>1, <3>2, <3>3 DEF TypeOK, Locs
      <4> QED
        BY <2>b, <3>1, <4>1
    <3>4. CASE ~mem[a]
      <4>1. Due(a) \in 0..1 /\ Due(a)' = Due(a) + 1 /\ \A b \in Asyncs \ {a} : Due(b)' = Due(b)
        BY <1>2, <2>a, <3>1, <3>2, <3>4 DEF Due, Seen
      <4>2. Coming' = [Coming EXCEPT ![a] = Due(a) + 1] /\ Coming[a] = Due(a)
        BY <4>1, ComingChanges DEF Coming
      <4>3. a \in OpenNow /\ UNCHANGED OpenNow
        BY <1>2, <2>a, <3>1 DEF OpenNow, Seen
      <4>4. a \in OpenNow /\ Coming' = [Coming EXCEPT ![a] = Due(a) + 1]
            /\ Due(a) + 1 \in 1..2 /\ Due(a) + 1 >= Coming[a]
            /\ (Coming[a] = 0 => Due(a) + 1 = 1)
        BY <4>1, <4>2, <4>3
      <4>5. \E n \in 1..2 : n >= Coming[a] /\ (Coming[a] = 0 => n = 1)
                             /\ Coming' = [Coming EXCEPT ![a] = n]
        BY <4>4
      <4>6. Contract!Send(a)
        BY <4>3, <4>5, Zenon DEF Contract!Send, Coming, OpenNow, Due
      <4> QED
        BY <4>6 DEF Contract!Next
    <3> QED
      BY <3>3, <3>4
  <2>3. ASSUME NEW p \in Procs, Sending(p) PROVE UNCHANGED Contract!vars
    <3>1. \/ UNCHANGED mem
          \/ mem' = [mem EXCEPT !["async_pending"] = TRUE]
          \/ Drain(p)
      BY <2>3 DEF Sending, TestFlag, SetFlag, WriteFd, Store, memory
    <3>2. ~Drain(p)
      BY <1>2 DEF Drain, WakeupInv
    <3>3. \A a \in Asyncs : mem'[a] = mem[a]
      BY <3>1, <3>2, AsyncAssumption DEF TypeOK, Locs
    <3> QED
      BY <2>3, <2>b, <3>2, <3>3 DEF Sending, TestFlag, SetFlag, WriteFd, handles
  <2>4. CASE Poll \/ TestPending \/ Scan \/ Return
    BY <2>4, <2>b DEF Poll, TestPending, Scan, Return, memory, handles
  <2>5. CASE ClearPending
    <3>1. mem' = [mem EXCEPT !["async_pending"] = FALSE] /\ UNCHANGED <<state, fed>>
      BY <1>2, <2>5, DirectStore DEF ClearPending, handles
    <3>2. \A a \in Asyncs : mem'[a] = mem[a]
      BY <3>1, AsyncAssumption DEF TypeOK, Locs
    <3> QED
      BY <2>b, <3>1, <3>2
  <2>6. CASE Take
    <3>1. i \in DOMAIN asyncs /\ i \in Nat
      BY <2>6, LenProperties DEF Take, WalkInv, TypeOK
    <3>2. PICK a \in Asyncs : a = asyncs[i]
      BY <3>1, ElementOfSeq DEF TypeOK
    <3>3. /\ at = "take" /\ fed' = fed \cup {a} /\ UNCHANGED state
          /\ mem' = [mem EXCEPT ![a] = FALSE]
      BY <1>2, <2>6, <3>2, DirectStore DEF Take
    <3>4. state[a] = "open" /\ active[a] = i
      BY <3>1, <3>2 DEF ArrayMatches
    <3>5. mem[a] /\ a \notin fed
      BY <1>2, <3>1, <3>2, <3>3, <3>4 DEF FedBehind
    <3>6. ~mem'[a] /\ a \in fed'
          /\ \A b \in Asyncs \ {a} : mem'[b] = mem[b] /\ (b \in fed' <=> b \in fed)
      BY <3>3 DEF TypeOK, Locs
    <3>7. Due(a)' = Due(a)
      BY <1>2, <2>a, <3>4, <3>5, <3>6 DEF Due, Seen
    <3>8. \A b \in Asyncs \ {a} : Due(b)' = Due(b)
      BY <1>2, <2>a, <3>3, <3>6 DEF Due, Seen
    <3>9. UNCHANGED OpenNow
      BY <1>2, <2>a, <3>3 DEF OpenNow, Seen
    <3> QED
      BY <3>7, <3>8, <3>9, WakeupStutters
  <2>7. ASSUME NEW a \in Asyncs, uv__async(a) PROVE [Contract!Next]_(Contract!vars)
    <3>1. a \in fed /\ fed' = fed \ {a} /\ state[a] = "open" /\ UNCHANGED <<state, mem>>
      BY <2>7 DEF uv__async, memory, ClosedIsQuiet
    <3>2. Due(a) \in 1..2 /\ Due(a)' = Due(a) - 1
      BY <1>2, <2>a, <3>1 DEF Due, Seen
    <3>3. \A b \in Asyncs \ {a} : Due(b)' = Due(b)
      BY <1>2, <2>a, <3>1 DEF Due, Seen
    <3>4. Coming' = [Coming EXCEPT ![a] = Coming[a] - 1] /\ Coming[a] > 0
      <4>1. Coming[a] = Due(a)
        BY DEF Coming
      <4> QED
        BY <3>2, <3>3, <4>1, ComingChanges
    <3>5. a \in OpenNow /\ UNCHANGED OpenNow
      BY <1>2, <2>a, <3>1 DEF OpenNow, Seen
    <3>6. Contract!Call(a)
      BY <3>4, <3>5 DEF Contract!Call, Coming, OpenNow, Due
    <3> QED
      BY <3>6 DEF Contract!Next
  <2>8. ASSUME NEW a \in Asyncs, uv__finish_close(a) PROVE UNCHANGED Contract!vars
    <3>1. /\ state[a] = "closing" /\ state' = [state EXCEPT ![a] = "closed"]
          /\ UNCHANGED <<mem, fed>>
      BY <2>8 DEF uv__finish_close, memory
    <3>2. \A b \in Asyncs : state'[b] = "open" <=> state[b] = "open"
      BY <3>1 DEF TypeOK
    <3>3. UNCHANGED OpenNow /\ \A b \in Asyncs : Due(b)' = Due(b)
      BY <1>2, <2>a, <3>1, <3>2 DEF OpenNow, Due, Seen
    <3> QED
      BY <3>3, WakeupStutters
  <2>9. ASSUME NEW a \in Asyncs, uv_async_init(a) PROVE [Contract!Next]_(Contract!vars)
    <3>1. /\ state[a] = "closed" /\ state' = [state EXCEPT ![a] = "open"]
          /\ mem' = [mem EXCEPT ![a] = FALSE] /\ UNCHANGED fed /\ a \notin fed
      BY <2>9 DEF uv_async_init, ClosedIsQuiet, pipe
    <3>2. /\ ~mem'[a] /\ state'[a] = "open"
          /\ \A b \in Asyncs \ {a} : mem'[b] = mem[b] /\ state'[b] = state[b]
      BY <3>1 DEF TypeOK, Locs
    <3>3. Due(a) = 0 /\ \A b \in Asyncs : Due(b)' = Due(b)
      BY <1>2, <2>a, <3>1, <3>2 DEF Due, Seen
    <3>4. a \notin OpenNow /\ OpenNow' = OpenNow \cup {a}
      BY <1>2, <2>a, <3>1, <3>2 DEF OpenNow, Seen
    <3>5. Coming[a] = 0 /\ UNCHANGED Coming
      BY <3>3 DEF Coming
    <3>6. Contract!Open({a})
      BY <3>4, <3>5 DEF Contract!Open, Coming, OpenNow, Due
    <3> QED
      BY <3>6 DEF Contract!Next
  <2>10. ASSUME NEW a \in Asyncs, uv_close(a) PROVE [Contract!Next]_(Contract!vars)
    <3>1. /\ state[a] = "open" /\ state' = [state EXCEPT ![a] = "closing"]
          /\ fed' = fed \ {a} /\ UNCHANGED mem
      BY <2>10 DEF uv_close, ev_async_stop, memory
    <3>2. state'[a] # "open" /\ \A b \in Asyncs \ {a} : state'[b] = state[b]
      BY <3>1 DEF TypeOK
    <3>3. Due(a)' = 0 /\ \A b \in Asyncs \ {a} : Due(b)' = Due(b)
      BY <1>2, <2>a, <3>1, <3>2 DEF Due, Seen
    <3>4. Coming' = [Coming EXCEPT ![a] = 0]
      BY <3>3, ComingChanges
    <3>5. a \in OpenNow /\ OpenNow' = OpenNow \ {a}
      BY <1>2, <2>a, <3>1, <3>2 DEF OpenNow, Seen
    <3>6. Contract!Close(a)
      BY <3>4, <3>5 DEF Contract!Close, Coming, OpenNow, Due
    <3> QED
      BY <3>6 DEF Contract!Next
  <2> QED
    BY <2>1, <2>2, <2>3, <2>4, <2>5, <2>6, <2>7, <2>8, <2>9, <2>10 DEF Next, Running
<1> QED
  BY <1>1, <1>2

(* Without store buffers an async handle keeps WakeupContract, for every   *)
(* number of threads and handles: no uv_async_send is lost, one or two     *)
(* callbacks are to come and no more, and uv_close ends them.  It is what  *)
(* the model of the thread pool takes for granted of its notifiers.        *)
THEOREM HandlesKeepContract == Spec => KeepsContract
<1>1. Init => FedBehind
  BY DEF Init, FedBehind
<1>2. Init => Contract!Init
  BY DEF Init, Contract!Init, Seen, Locs
<1>3. TypeOK /\ AsyncInv /\ FedBehind /\ [Next]_vars => FedBehind'
  BY AsyncAssumption, FedStep
<1>4. [Next]_vars => UNCHANGED buffering
  BY BufferingKept
<1>5. TypeOK /\ AsyncInv /\ FedBehind /\ [Next]_vars => [Contract!Next]_(Contract!vars)
  BY <1>4, AsyncAssumption, RefinesWakeup
<1> QED
  BY <1>1, <1>2, <1>3, <1>5, AsyncInvariant, PTL DEF Spec, KeepsContract, Contract!Spec
=============================================================================
