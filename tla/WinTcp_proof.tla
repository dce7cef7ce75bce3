---------------------------- MODULE WinTcp_proof ----------------------------
(***************************************************************************)
(* WinTcp's requests are counted exactly and each is in one place; a       *)
(* server goes on accepting; and WinTcp implements WinContract.            *)
(***************************************************************************)
EXTENDS WinTcpProps, SequenceTheorems, FiniteSetTheorems, TLAPS

(* A read that failed to start does not set READ_PENDING.  So a program    *)
(* must not meet a failing WSARecv and start reading again after a stop:   *)
(* read_req would be inserted twice.                                       *)
ReadsOnce == \A w \in Worlds : ~({"restarts", "recv_fails"} \subseteq w)

-----------------------------------------------------------------------------
(* The inductive invariant.                                                *)

InOnePlace ==
  /\ IsInjective(pending_reqs) /\ IsInjective(kernel) /\ IsInjective(iocp)
  /\ ToSet(pending_reqs) \cap ToSet(kernel) = {}
  /\ ToSet(pending_reqs) \cap ToSet(iocp) = {}
  /\ ToSet(kernel) \cap ToSet(iocp) = {}

Active  == {r \in WReqs : status[r] = "active"}
ShutDue == IF status[ShutReq] = "active" THEN 1 ELSE 0
Writing == IF at = "write_cb" THEN 1 ELSE 0

CountInv ==
  /\ handle.reqs_pending = Cardinality(Held) + InProcess + ShutDue
  /\ Has("CONNECTION") => handle.write_reqs_pending = Cardinality(Active) + Writing
  /\ Has("CLOSED") => handle.reqs_pending = 0

\* A request of the program is held exactly while it is due.
HeldInv ==
  /\ ShutReq \notin Held
  /\ \A r \in WReqs \cup {ConnReq} : r \in Held <=> status[r] = "active"

FlagsInv ==
  /\ ~Has("BOUND") =>
       /\ {"LISTENING", "CONNECTION", "ACCEPT_STATE_CHANGING"} \cap handle.flags = {}
       /\ status[ConnReq] = "idle" /\ Held = {}
       /\ accept.sockets = {} /\ accept.pending = <<>>
  /\ Has("CONNECTION") <=> status[ConnReq] = "ok"
  /\ \A r \in WReqs : status[r] # "idle" => Has("CONNECTION")
  /\ Has("SHUTTING") <=> status[ShutReq] # "idle"
  /\ Has("SHUTTING") => Has("CONNECTION")
  /\ Has("CLOSING") => Has("SHUT") /\ {"READING", "LISTENING"} \cap handle.flags = {}
  /\ Has("CLOSED") => Has("CLOSING")

\* The endgame answers a shutdown once, and after it nothing is written.
ShutInv ==
  /\ Has("SHUTTING") /\ Has("ENDGAME_QUEUED") => Has("SHUT") \/ status[ShutReq] = "active"
  /\ status[ShutReq] \in {"ok", "error"} => Active = {} /\ at # "write_cb"

Then(callback) ==
  {then \in {"reading", "posting", "processed", "written", "shut", "endgames"} :
     \/ callback = "read_cb" /\ then \in {"reading", "posting", "processed"}
     \/ callback \in {"connect_cb", "connection_cb"} /\ then = "processed"
     \/ callback = "write_cb" /\ then = "written"
     \/ callback = "shutdown_cb" /\ then = "shut"
     \/ callback = "close_cb" /\ then = "endgames"}

ControlInv ==
  /\ at \in Callback => resume \in Then(at)
  /\ at \notin Callback => resume = "none"
  /\ at \in {"write_cb", "reading", "read_cb"} => Has("CONNECTION")

\* The read that is out is marked, but for one that failed to start.
ReadInv ==
  /\ Has("READ_PENDING") => ReadReq \in Held
  /\ ReadReq \in Held =>
       /\ Has("CONNECTION")
       /\ \/ Has("READ_PENDING")
          \/ /\ May("recv_fails") /\ at \notin {"reading", "read_cb"}
             /\ at = "connect_cb" => Has("READING") \/ Has("CLOSING")

\* The accept requests that the server has not lost.
Live == (Held \cap AReqs) \cup ToSet(accept.pending)

AcceptInv ==
  /\ IsInjective(accept.pending) /\ ToSet(accept.pending) \cap Held = {}
  /\ ToSet(accept.pending) \subseteq accept.sockets
  /\ accept.sockets \subseteq ToSet(accept.pending) \cup Held
  /\ ~Has("ACCEPT_STATE_CHANGING") => handle.processed_accepts = 0
  /\ Has("ACCEPT_STATE_CHANGING") => Has("SINGLE_ACCEPT")
  /\ Has("LISTENING") =>
       /\ ~Has("SINGLE_ACCEPT") => Live = AReqs
       /\ Has("SINGLE_ACCEPT") /\ ~Has("ACCEPT_STATE_CHANGING") => Live = {FirstA}
       /\ Has("ACCEPT_STATE_CHANGING") =>
            handle.processed_accepts + Cardinality(Live) = Cardinality(AReqs) /\ Live # {}

WinInv ==
  /\ TypeOK /\ InOnePlace /\ CountInv /\ HeldInv /\ FlagsInv /\ ShutInv /\ ControlInv
  /\ ReadInv /\ AcceptInv

-----------------------------------------------------------------------------
(* Sequences without repetitions.                                          *)

(* Joining the end of one that does not hold it.                           *)
LEMMA AppendOnce ==
  ASSUME NEW S, NEW s \in Seq(S), NEW e \in S, IsInjective(s), e \notin ToSet(s)
  PROVE  /\ Append(s, e) \in Seq(S) /\ IsInjective(Append(s, e))
         /\ ToSet(Append(s, e)) = ToSet(s) \cup {e}
<1>1. /\ Append(s, e) \in Seq(S)
      /\ DOMAIN s = 1..Len(s) /\ Len(s) \in Nat
      /\ DOMAIN Append(s, e) = 1..(Len(s) + 1)
      /\ \A i \in 1..Len(s) : Append(s, e)[i] = s[i]
      /\ Append(s, e)[Len(s) + 1] = e
  BY AppendProperties, LenProperties
<1>2. ToSet(Append(s, e)) = ToSet(s) \cup {e}
  BY <1>1 DEF ToSet
<1>3. IsInjective(Append(s, e))
  BY <1>1 DEF IsInjective, ToSet
<1> QED
  BY <1>1, <1>2, <1>3

(* Concatenation: nothing is in both.                                      *)
LEMMA ConcatOnce ==
  ASSUME NEW S, NEW s \in Seq(S), NEW t \in Seq(S)
  PROVE  /\ s \o t \in Seq(S) /\ ToSet(s \o t) = ToSet(s) \cup ToSet(t)
         /\ IsInjective(s \o t) <=>
              IsInjective(s) /\ IsInjective(t) /\ ToSet(s) \cap ToSet(t) = {}
<1> DEFINE j == s \o t
<1>1. /\ j \in Seq(S) /\ DOMAIN j = 1..(Len(s) + Len(t))
      /\ DOMAIN s = 1..Len(s) /\ DOMAIN t = 1..Len(t)
      /\ Len(s) \in Nat /\ Len(t) \in Nat
      /\ \A i \in 1..(Len(s) + Len(t)) : j[i] = IF i <= Len(s) THEN s[i] ELSE t[i - Len(s)]
  BY ConcatProperties, LenProperties
<1>2. \A i \in 1..Len(s) : i \in DOMAIN j /\ j[i] = s[i]
  BY <1>1
<1>3. ASSUME NEW i \in 1..Len(t) PROVE Len(s) + i \in DOMAIN j /\ j[Len(s) + i] = t[i]
  <2>1. Len(s) + i \in 1..(Len(s) + Len(t)) /\ ~(Len(s) + i <= Len(s)) /\ (Len(s) + i) - Len(s) = i
    BY <1>1
  <2> QED
    BY <1>1, <2>1
<1>4. ASSUME NEW k \in DOMAIN j
      PROVE  \/ k \in 1..Len(s) /\ j[k] = s[k]
             \/ \E i \in 1..Len(t) : k = Len(s) + i /\ j[k] = t[i]
  <2>1. CASE k <= Len(s)
    BY <1>1, <2>1
  <2>2. CASE ~(k <= Len(s))
    <3>1. k - Len(s) \in 1..Len(t) /\ k = Len(s) + (k - Len(s)) /\ j[k] = t[k - Len(s)]
      BY <1>1, <2>2
    <3> QED
      BY <3>1
  <2> QED
    BY <2>1, <2>2
<1> HIDE DEF j
<1>5. ToSet(j) \subseteq ToSet(s) \cup ToSet(t)
  BY <1>1, <1>4 DEF ToSet
<1>6. ToSet(s) \subseteq ToSet(j)
  BY <1>1, <1>2 DEF ToSet
<1>7. ToSet(t) \subseteq ToSet(j)
  <2>1. \A i \in 1..Len(t) : t[i] \in ToSet(j)
    BY <1>3 DEF ToSet
  <2>2. ToSet(t) = {t[i] : i \in 1..Len(t)}
    BY <1>1 DEF ToSet
  <2> QED
    BY <2>1, <2>2
<1>8. ASSUME IsInjective(j) PROVE IsInjective(s) /\ IsInjective(t) /\ ToSet(s) \cap ToSet(t) = {}
  <2>1. IsInjective(s)
    BY <1>1, <1>2, <1>8 DEF IsInjective
  <2>2. IsInjective(t)
    <3>1. ASSUME NEW a \in 1..Len(t), NEW b \in 1..Len(t), t[a] = t[b] PROVE a = b
      <4>1. Len(s) + a = Len(s) + b
        BY <1>3, <1>8, <3>1 DEF IsInjective
      <4> QED
        BY <1>1, <4>1
    <3> QED
      BY <1>1, <3>1 DEF IsInjective
  <2>3. ASSUME NEW a \in 1..Len(s), NEW b \in 1..Len(t), s[a] = t[b] PROVE FALSE
    <3>1. a = Len(s) + b
      BY <1>2, <1>3, <1>8, <2>3 DEF IsInjective
    <3> QED
      BY <1>1, <3>1
  <2> QED
    BY <1>1, <2>1, <2>2, <2>3 DEF ToSet
<1>9. ASSUME IsInjective(s), IsInjective(t), ToSet(s) \cap ToSet(t) = {} PROVE IsInjective(j)
  <2> SUFFICES ASSUME NEW a \in DOMAIN j, NEW b \in DOMAIN j, j[a] = j[b] PROVE a = b
    BY DEF IsInjective
  <2>1. ASSUME NEW m \in 1..Len(s), NEW n \in 1..Len(t) PROVE s[m] # t[n]
    BY <1>1, <1>9 DEF ToSet
  <2>2. \A m, n \in 1..Len(s) : s[m] = s[n] => m = n
    BY <1>1, <1>9 DEF IsInjective
  <2>3. \A m, n \in 1..Len(t) : t[m] = t[n] => m = n
    BY <1>1, <1>9 DEF IsInjective
  <2>4. CASE a \in 1..Len(s) /\ j[a] = s[a]
    BY <1>4, <2>1, <2>2, <2>4
  <2>5. CASE \E i \in 1..Len(t) : a = Len(s) + i /\ j[a] = t[i]
    <3>1. PICK m \in 1..Len(t) : a = Len(s) + m /\ j[a] = t[m]
      BY <2>5
    <3>2. ~(b \in 1..Len(s) /\ j[b] = s[b])
      BY <2>1, <3>1
    <3>3. PICK n \in 1..Len(t) : b = Len(s) + n /\ j[b] = t[n]
      BY <1>4, <3>2
    <3> QED
      BY <2>3, <3>1, <3>3
  <2> QED
    BY <1>4, <2>4, <2>5
<1> QED
  BY <1>1, <1>5, <1>6, <1>7, <1>8, <1>9 DEF j

(* The first one is taken.                                                 *)
LEMMA TailOnce ==
  ASSUME NEW S, NEW s \in Seq(S), s # <<>>, IsInjective(s)
  PROVE  /\ Head(s) \in S /\ Head(s) \in ToSet(s)
         /\ Tail(s) \in Seq(S) /\ IsInjective(Tail(s))
         /\ ToSet(Tail(s)) = ToSet(s) \ {Head(s)}
<1>1. Head(s) \in S /\ Tail(s) \in Seq(S) /\ <<Head(s)>> \in Seq(S)
  BY HeadTailProperties
<1>2. s = <<Head(s)>> \o Tail(s)
  <2>1. /\ Len(s) \in Nat \ {0} /\ SubSeq(s, 1, Len(s)) = s
        /\ SubSeq(s, 1, Len(s)) = <<s[1]>> \o SubSeq(s, 2, Len(s))
        /\ Tail(s) = SubSeq(s, 2, Len(s)) /\ Head(s) = s[1]
    BY EmptySeq, SubSeqFull, SubSeqRecursiveFirst, TailIsSubSeq
  <2> QED
    BY <2>1
<1>3. ToSet(<<Head(s)>>) = {Head(s)}
  BY DEF ToSet
<1> DEFINE h == <<Head(s)>>
           l == Tail(s)
<1>4. /\ ToSet(h \o l) = ToSet(h) \cup ToSet(l)
      /\ IsInjective(h \o l) => IsInjective(l) /\ ToSet(h) \cap ToSet(l) = {}
  <2>1. h \in Seq(S) /\ l \in Seq(S)
    BY <1>1
  <2> HIDE DEF h, l
  <2> QED
    BY <2>1, ConcatOnce
<1> QED
  BY <1>1, <1>2, <1>3, <1>4

(* It is cut in two.                                                       *)
LEMMA SplitOnce ==
  ASSUME NEW S, NEW s \in Seq(S), NEW n \in 0..Len(s), IsInjective(s)
  PROVE  LET t == SubSeq(s, 1, n)
             u == SubSeq(s, n + 1, Len(s))
         IN /\ t \in Seq(S) /\ u \in Seq(S) /\ IsInjective(t) /\ IsInjective(u)
            /\ ToSet(t) \cap ToSet(u) = {} /\ ToSet(s) = ToSet(t) \cup ToSet(u)
<1> DEFINE t == SubSeq(s, 1, n)
           u == SubSeq(s, n + 1, Len(s))
<1>1. Len(s) \in Nat /\ n \in Nat /\ \A i \in 1..Len(s) : s[i] \in S
  BY LenProperties, ElementOfSeq
<1>2. t \in Seq(S)
  <2>1. \A i \in 1..n : s[i] \in S
    BY <1>1
  <2> QED
    BY <1>1, <2>1, SubSeqProperties
<1>3. u \in Seq(S)
  <2>1. \A i \in (n + 1)..Len(s) : s[i] \in S
    BY <1>1
  <2> QED
    BY <1>1, <2>1, SubSeqProperties
<1>4. t \o u = s
  <2>1. 1 \in 1..Len(s) + 1 /\ n \in 1 - 1..Len(s) /\ Len(s) \in n..Len(s)
    BY <1>1
  <2>2. t \o u = SubSeq(s, 1, Len(s))
    BY <2>1, ConcatAdjacentSubSeq
  <2> QED
    BY <2>2, SubSeqFull
<1> HIDE DEF t, u
<1>5. /\ ToSet(t \o u) = ToSet(t) \cup ToSet(u)
      /\ IsInjective(t \o u) => IsInjective(t) /\ IsInjective(u) /\ ToSet(t) \cap ToSet(u) = {}
  BY <1>2, <1>3, ConcatOnce
<1> QED
  BY <1>2, <1>3, <1>4, <1>5 DEF t, u

(* One of them is taken out.                                               *)
LEMMA RemoveOnce ==
  ASSUME NEW S, NEW s \in Seq(S), NEW i \in 1..Len(s), IsInjective(s)
  PROVE  /\ s[i] \in S /\ s[i] \in ToSet(s)
         /\ RemoveAt(s, i) \in Seq(S) /\ IsInjective(RemoveAt(s, i))
         /\ ToSet(RemoveAt(s, i)) = ToSet(s) \ {s[i]}
<1> DEFINE t == SubSeq(s, 1, i - 1)
           r == SubSeq(s, i, Len(s))
           u == SubSeq(s, i + 1, Len(s))
<1>1. /\ Len(s) \in Nat /\ i - 1 \in 0..Len(s) /\ (i - 1) + 1 = i /\ Len(s) \in i..Len(s)
      /\ s[i] \in S /\ s[i] \in ToSet(s) /\ i \in 0..Len(s)
  BY LenProperties, ElementOfSeq DEF ToSet
<1>2. /\ t \in Seq(S) /\ r \in Seq(S) /\ IsInjective(t) /\ IsInjective(r)
      /\ ToSet(t) \cap ToSet(r) = {} /\ ToSet(s) = ToSet(t) \cup ToSet(r)
  BY <1>1, SplitOnce
<1>3. u \in Seq(S)
  BY <1>1, SplitOnce
<1>4. r = <<s[i]>> \o u
  BY <1>1, SubSeqRecursiveFirst
<1>5. RemoveAt(s, i) = t \o u
  BY DEF RemoveAt
<1> HIDE DEF t, r, u
<1> DEFINE h == <<s[i]>>
<1>6. h \in Seq(S) /\ ToSet(h) = {s[i]}
  BY <1>1 DEF ToSet
<1>7. r = h \o u
  BY <1>4
<1> HIDE DEF h
<1>8. ToSet(r) = {s[i]} \cup ToSet(u) /\ IsInjective(u) /\ s[i] \notin ToSet(u)
  <2>1. /\ ToSet(h \o u) = ToSet(h) \cup ToSet(u)
        /\ IsInjective(h \o u) => IsInjective(u) /\ ToSet(h) \cap ToSet(u) = {}
    BY <1>3, <1>6, ConcatOnce
  <2> QED
    BY <1>2, <1>6, <1>7, <2>1
<1>9. /\ t \o u \in Seq(S) /\ ToSet(t \o u) = ToSet(t) \cup ToSet(u)
      /\ IsInjective(t) /\ IsInjective(u) /\ ToSet(t) \cap ToSet(u) = {} => IsInjective(t \o u)
  BY <1>2, <1>3, ConcatOnce
<1> QED
  BY <1>1, <1>2, <1>5, <1>8, <1>9

(* A finite set is listed.                                                 *)
LEMMA ListedOnce ==
  ASSUME NEW S, IsFiniteSet(S)
  PROVE  /\ SetToSeq(S) \in Seq(S) /\ IsInjective(SetToSeq(S))
         /\ ToSet(SetToSeq(S)) = S
<1> DEFINE n == Cardinality(S)
           s == SetToSeq(S)
<1>1. n \in Nat /\ IsFiniteSet(1..n) /\ Cardinality(1..n) = n
  BY FS_CardinalityType, FS_Interval
<1>2. \E f \in [1..n -> S] : IsInjective(f)
  <2>1. ExistsBijection(1..n, S)
    BY <1>1, FS_SameCardinalityBij
  <2>2. PICK f : f \in Bijection(1..n, S)
    BY <2>1 DEF ExistsBijection
  <2>3. f \in [1..n -> S] /\ IsInjective(f)
    BY <2>2 DEF Bijection, Injection, IsInjective
  <2> QED
    BY <2>3
<1>3. s \in [1..n -> S] /\ IsInjective(s)
  BY <1>2 DEF SetToSeq
<1>4. s \in Seq(S)
  BY <1>1, <1>3, SeqDef
<1>5. s \in Surjection(1..n, S)
  <2>1. s \in Injection(1..n, S)
    BY <1>3 DEF Injection, IsInjective
  <2> QED
    BY <1>1, <2>1, FS_Injection
<1>6. ToSet(s) = S
  <2> HIDE DEF s, n
  <2> QED
    BY <1>3, <1>5 DEF Surjection, ToSet
<1> QED
  BY <1>3, <1>4, <1>6

-----------------------------------------------------------------------------
(* Requests move.                                                          *)

(* Each queue is a sequence of requests.                                   *)
LEMMA QueueTypes ==
  ASSUME TypeOK
  PROVE  /\ pending_reqs \in Seq(Reqs) /\ kernel \in Seq(Reqs) /\ iocp \in Seq(Reqs)
         /\ failed \subseteq Reqs
         /\ DOMAIN pending_reqs = 1..Len(pending_reqs) /\ DOMAIN kernel = 1..Len(kernel)
         /\ DOMAIN iocp = 1..Len(iocp) /\ Len(iocp) \in Nat
         /\ iocp # <<>> => Len(iocp) > 0
<1>1. /\ pending_reqs \in Seq(Reqs) /\ kernel \in Seq(Reqs) /\ iocp \in Seq(Reqs)
      /\ failed \subseteq Reqs
  BY DEF TypeOK
<1>2. iocp # <<>> => Len(iocp) \in Nat \ {0}
  BY <1>1, EmptySeq
<1> QED
  BY <1>1, <1>2, LenProperties

(* What is held is finite, so putting in and taking out count by one.      *)
LEMMA HeldCounts ==
  ASSUME TypeOK
  PROVE  /\ Held \subseteq Reqs /\ Cardinality(Held) \in Nat
         /\ \A r \in Reqs \ Held : Cardinality(Held \cup {r}) = Cardinality(Held) + 1
         /\ \A r \in Held : Cardinality(Held \ {r}) = Cardinality(Held) - 1 /\ Cardinality(Held) > 0
         /\ Cardinality(Held) = 0 => Held = {}
<1>1. IsFiniteSet(Reqs)
  <2>1. IsFiniteSet({ReadReq}) /\ IsFiniteSet({ConnReq}) /\ IsFiniteSet({ShutReq})
    BY FS_Singleton
  <2>2. IsFiniteSet({ReadReq} \cup {ConnReq} \cup {ShutReq})
    BY <2>1, FS_Union
  <2>3. IsFiniteSet(WReqs \cup AReqs)
    BY WinAssumption, FS_Union
  <2>4. Reqs = (WReqs \cup AReqs) \cup ({ReadReq} \cup {ConnReq} \cup {ShutReq})
    BY DEF Reqs
  <2> QED
    BY <2>2, <2>3, <2>4, FS_Union
<1>2. Held \subseteq Reqs
  <2>1. ToSet(pending_reqs) \subseteq Reqs /\ ToSet(kernel) \subseteq Reqs /\ ToSet(iocp) \subseteq Reqs
    BY QueueTypes, ElementOfSeq DEF ToSet
  <2> QED
    BY <2>1 DEF Held
<1>3. IsFiniteSet(Held)
  BY <1>1, <1>2, FS_Subset
<1>4. \A r \in Reqs \ Held : Cardinality(Held \cup {r}) = Cardinality(Held) + 1
  BY <1>3, FS_AddElement
<1>5. \A r \in Held : Cardinality(Held \ {r}) = Cardinality(Held) - 1 /\ Cardinality(Held) > 0
  BY <1>3, FS_RemoveElement, FS_CardinalityType, FS_EmptySet
<1> QED
  BY <1>2, <1>3, <1>4, <1>5, FS_CardinalityType, FS_EmptySet

(* A step that leaves the queues and the counted statuses alone.           *)
LEMMA QueuesKept ==
  ASSUME UNCHANGED <<pending_reqs, kernel, iocp>>
  PROVE  Held' = Held /\ InOnePlace' = InOnePlace
BY DEF Held, InOnePlace

(* A request joins one of the queues.                                      *)
LEMMA Added ==
  ASSUME TypeOK, InOnePlace, NEW r \in Reqs, r \notin Held,
         AtOnce(r) \/ ByKernel(r) \/ Failing(r)
  PROVE  /\ pending_reqs' \in Seq(Reqs) /\ kernel' \in Seq(Reqs) /\ iocp' \in Seq(Reqs)
         /\ failed' \subseteq Reqs
         /\ InOnePlace' /\ Held' = Held \cup {r}
<1>1. r \notin ToSet(pending_reqs) \cup ToSet(kernel) \cup ToSet(iocp)
  BY DEF Held
<1>2. CASE AtOnce(r) \/ Failing(r)
  <2>1. /\ pending_reqs' = Append(pending_reqs, r) /\ UNCHANGED <<kernel, iocp>>
        /\ failed' \subseteq Reqs
    BY <1>2, QueueTypes DEF AtOnce, Failing
  <2>2. /\ pending_reqs' \in Seq(Reqs) /\ IsInjective(pending_reqs')
        /\ ToSet(pending_reqs') = ToSet(pending_reqs) \cup {r}
    BY <1>1, <2>1, AppendOnce, QueueTypes DEF InOnePlace
  <2> QED
    BY <1>1, <2>1, <2>2, QueueTypes DEF InOnePlace, Held
<1>3. CASE ByKernel(r)
  <2>1. /\ kernel' = Append(kernel, r) /\ UNCHANGED <<pending_reqs, iocp>>
        /\ failed' \subseteq Reqs
    BY <1>3, QueueTypes DEF ByKernel
  <2>2. /\ kernel' \in Seq(Reqs) /\ IsInjective(kernel')
        /\ ToSet(kernel') = ToSet(kernel) \cup {r}
    BY <1>1, <2>1, AppendOnce, QueueTypes DEF InOnePlace
  <2> QED
    BY <1>1, <2>1, <2>2, QueueTypes DEF InOnePlace, Held
<1> QED
  BY <1>2, <1>3

(* The loop takes the oldest pending request.                              *)
LEMMA Taken ==
  ASSUME TypeOK, InOnePlace, NEW r, Processes(r), UNCHANGED <<kernel, iocp>>
  PROVE  /\ r \in Held /\ r \in Reqs
         /\ pending_reqs' \in Seq(Reqs) /\ kernel' \in Seq(Reqs) /\ iocp' \in Seq(Reqs)
         /\ InOnePlace' /\ Held' = Held \ {r}
<1>1. /\ r \in Reqs /\ r \in ToSet(pending_reqs)
      /\ pending_reqs' \in Seq(Reqs) /\ IsInjective(pending_reqs')
      /\ ToSet(pending_reqs') = ToSet(pending_reqs) \ {r}
  BY TailOnce, QueueTypes DEF InOnePlace, Processes
<1> QED
  BY <1>1, QueueTypes DEF InOnePlace, Held

(* The kernel is done with one.                                            *)
LEMMA Completed ==
  ASSUME TypeOK, InOnePlace, NEW i \in DOMAIN kernel, Complete(i)
  PROVE  /\ kernel' \in Seq(Reqs) /\ iocp' \in Seq(Reqs) /\ failed' \subseteq Reqs
         /\ InOnePlace' /\ Held' = Held
<1>0. i \in 1..Len(kernel) /\ kernel \in Seq(Reqs) /\ iocp \in Seq(Reqs)
  BY QueueTypes
<1>1. kernel' = RemoveAt(kernel, i) /\ iocp' = Append(iocp, kernel[i]) /\ UNCHANGED pending_reqs
  BY DEF Complete
<1>2. /\ kernel[i] \in Reqs /\ kernel[i] \in ToSet(kernel)
      /\ kernel' \in Seq(Reqs) /\ IsInjective(kernel')
      /\ ToSet(kernel') = ToSet(kernel) \ {kernel[i]}
  BY <1>0, <1>1, RemoveOnce DEF InOnePlace
<1>3. /\ iocp' \in Seq(Reqs) /\ IsInjective(iocp')
      /\ ToSet(iocp') = ToSet(iocp) \cup {kernel[i]}
  BY <1>0, <1>1, <1>2, AppendOnce DEF InOnePlace
<1>4. failed' \subseteq Reqs
  BY <1>2, QueueTypes DEF Complete
<1> QED
  BY <1>1, <1>2, <1>3, <1>4 DEF InOnePlace, Held

(* The loop takes requests out of the port.                                *)
LEMMA Polled ==
  ASSUME TypeOK, InOnePlace, Poll
  PROVE  /\ pending_reqs' \in Seq(Reqs) /\ iocp' \in Seq(Reqs)
         /\ InOnePlace' /\ Held' = Held
<1>0. /\ iocp \in Seq(Reqs) /\ pending_reqs \in Seq(Reqs) /\ Len(iocp) \in Nat
      /\ iocp # <<>> => Len(iocp) > 0
  BY QueueTypes
<1>1. PICK n \in 0..Len(iocp) :
        /\ pending_reqs' = pending_reqs \o SubSeq(iocp, 1, n)
        /\ iocp' = SubSeq(iocp, n + 1, Len(iocp))
  <2>1. PICK n \in {Len(iocp)} \cup (IF iocp = <<>> THEN {} ELSE {1}) :
          /\ pending_reqs' = pending_reqs \o SubSeq(iocp, 1, n)
          /\ iocp' = SubSeq(iocp, n + 1, Len(iocp))
    BY Zenon DEF Poll
  <2>2. n = Len(iocp) \/ (iocp # <<>> /\ n = 1)
    BY <2>1
  <2>3. n \in 0..Len(iocp)
    BY <1>0, <2>2
  <2> QED
    BY <2>1, <2>3
<1> DEFINE t == SubSeq(iocp, 1, n)
           u == SubSeq(iocp, n + 1, Len(iocp))
<1>2. /\ t \in Seq(Reqs) /\ u \in Seq(Reqs) /\ IsInjective(t) /\ IsInjective(u)
      /\ ToSet(t) \cap ToSet(u) = {} /\ ToSet(iocp) = ToSet(t) \cup ToSet(u)
  BY <1>0, SplitOnce DEF InOnePlace
<1>3. pending_reqs' = pending_reqs \o t /\ iocp' = u /\ UNCHANGED kernel
  BY <1>1 DEF Poll
<1> HIDE DEF t, u
<1>4. /\ pending_reqs \o t \in Seq(Reqs)
      /\ ToSet(pending_reqs \o t) = ToSet(pending_reqs) \cup ToSet(t)
      /\ IsInjective(pending_reqs) /\ IsInjective(t) /\ ToSet(pending_reqs) \cap ToSet(t) = {}
           => IsInjective(pending_reqs \o t)
  BY <1>0, <1>2, ConcatOnce
<1> QED
  BY <1>2, <1>3, <1>4 DEF InOnePlace, Held

(* An accept request is used again: it changes its place at most.          *)
LEMMA UsedAgain ==
  ASSUME TypeOK, InOnePlace, NEW r \in AReqs, AcceptAgain(r)
  PROVE  /\ r \in Held
         /\ pending_reqs' \in Seq(Reqs) /\ kernel' \in Seq(Reqs) /\ iocp' \in Seq(Reqs)
         /\ failed' \subseteq Reqs
         /\ InOnePlace' /\ Held' = Held
<1> DEFINE l == Tail(pending_reqs)
<1>0. pending_reqs # <<>> /\ r = Head(pending_reqs) /\ r \in Reqs
  BY DEF AcceptAgain, Reqs
<1>1. /\ r \in ToSet(pending_reqs) /\ l \in Seq(Reqs) /\ IsInjective(l)
      /\ ToSet(l) = ToSet(pending_reqs) \ {r}
  BY <1>0, TailOnce, QueueTypes DEF InOnePlace
<1>2. \/ pending_reqs' = Append(l, r) /\ UNCHANGED <<kernel, iocp>>
      \/ pending_reqs' = l /\ kernel' = Append(kernel, r) /\ UNCHANGED iocp
  BY DEF AcceptAgain
<1>3. failed' \subseteq Reqs
  BY <1>0, QueueTypes DEF AcceptAgain
<1> HIDE DEF l
<1>4. CASE pending_reqs' = Append(l, r) /\ UNCHANGED <<kernel, iocp>>
  <2>1. /\ pending_reqs' \in Seq(Reqs) /\ IsInjective(pending_reqs')
        /\ ToSet(pending_reqs') = ToSet(l) \cup {r}
    BY <1>0, <1>1, <1>4, AppendOnce
  <2> QED
    BY <1>1, <1>3, <1>4, <2>1, QueueTypes DEF InOnePlace, Held
<1>5. CASE pending_reqs' = l /\ kernel' = Append(kernel, r) /\ UNCHANGED iocp
  <2>1. /\ kernel' \in Seq(Reqs) /\ IsInjective(kernel')
        /\ ToSet(kernel') = ToSet(kernel) \cup {r}
    BY <1>0, <1>1, <1>5, AppendOnce, QueueTypes DEF InOnePlace
  <2> QED
    BY <1>1, <1>3, <1>5, <2>1, QueueTypes DEF InOnePlace, Held
<1> QED
  BY <1>2, <1>4, <1>5

(* Every accept request of a new server is queued.                         *)
LEMMA Listened ==
  ASSUME TypeOK, InOnePlace, Held = {}, NEW A \in SUBSET AReqs, NEW B \in SUBSET AReqs,
         A \cap B = {}, kernel' = kernel \o SetToSeq(A),
         pending_reqs' = pending_reqs \o SetToSeq(B), UNCHANGED iocp
  PROVE  /\ pending_reqs' \in Seq(Reqs) /\ kernel' \in Seq(Reqs)
         /\ InOnePlace' /\ Held' = A \cup B
<1>1. IsFiniteSet(A) /\ IsFiniteSet(B) /\ A \subseteq Reqs /\ B \subseteq Reqs
  BY WinAssumption, FS_Subset DEF Reqs
<1> DEFINE a == SetToSeq(A)
           b == SetToSeq(B)
<1>2. /\ a \in Seq(Reqs) /\ IsInjective(a) /\ ToSet(a) = A
      /\ b \in Seq(Reqs) /\ IsInjective(b) /\ ToSet(b) = B
  BY <1>1, ListedOnce, SeqMonotonic
<1>3. kernel' = kernel \o a /\ pending_reqs' = pending_reqs \o b
  OBVIOUS
<1> HIDE DEF a, b
<1>4. ToSet(kernel) = {} /\ ToSet(pending_reqs) = {} /\ ToSet(iocp) = {}
  BY DEF Held
<1>5. kernel' \in Seq(Reqs) /\ ToSet(kernel') = A /\ IsInjective(kernel')
  <2>1. kernel \in Seq(Reqs) /\ IsInjective(kernel) /\ ToSet(kernel) \cap A = {}
    BY <1>4, QueueTypes DEF InOnePlace
  <2>2. /\ kernel \o a \in Seq(Reqs) /\ ToSet(kernel \o a) = ToSet(kernel) \cup ToSet(a)
        /\ IsInjective(kernel \o a)
    BY <1>2, <2>1, ConcatOnce
  <2> QED
    BY <1>2, <1>3, <1>4, <2>2
<1>6. pending_reqs' \in Seq(Reqs) /\ ToSet(pending_reqs') = B /\ IsInjective(pending_reqs')
  <2> DEFINE p == pending_reqs
  <2>1. p \in Seq(Reqs) /\ IsInjective(p) /\ ToSet(p) \cap B = {}
    BY <1>4, QueueTypes DEF InOnePlace
  <2>2. p \o b \in Seq(Reqs) /\ ToSet(p \o b) = ToSet(p) \cup ToSet(b) /\ IsInjective(p \o b)
    BY <1>2, <2>1, ConcatOnce
  <2> QED
    BY <1>2, <1>3, <1>4, <2>2
<1> QED
  BY <1>4, <1>5, <1>6 DEF InOnePlace, Held

-----------------------------------------------------------------------------
(* What the proofs of the actions have in common.                          *)

Handles == [flags : SUBSET Flags, reqs_pending : Nat, write_reqs_pending : Nat,
            processed_accepts : Nat]

\* The handle after a step, field by field.
Becomes(fs, reqs, writes, accepts) ==
  /\ handle' \in Handles
  /\ handle'.flags = fs /\ handle'.reqs_pending = reqs
  /\ handle'.write_reqs_pending = writes /\ handle'.processed_accepts = accepts

(* The handle with other flags, or with one request more or less.          *)
LEMMA HandleOps ==
  ASSUME NEW h \in Handles
  PROVE  /\ h.flags \subseteq Flags /\ h.reqs_pending \in Nat
         /\ h.write_reqs_pending \in Nat /\ h.processed_accepts \in Nat
         /\ \A fs \in SUBSET Flags :
              /\ With(h, fs) \in Handles /\ With(h, fs).flags = h.flags \cup fs
              /\ With(h, fs).reqs_pending = h.reqs_pending
              /\ With(h, fs).write_reqs_pending = h.write_reqs_pending
              /\ With(h, fs).processed_accepts = h.processed_accepts
         /\ \A fs \in SUBSET Flags :
              /\ Without(h, fs) \in Handles /\ Without(h, fs).flags = h.flags \ fs
              /\ Without(h, fs).reqs_pending = h.reqs_pending
              /\ Without(h, fs).write_reqs_pending = h.write_reqs_pending
              /\ Without(h, fs).processed_accepts = h.processed_accepts
         /\ More(h) \in Handles /\ More(h).flags = h.flags
         /\ More(h).reqs_pending = h.reqs_pending + 1
         /\ More(h).write_reqs_pending = h.write_reqs_pending
         /\ More(h).processed_accepts = h.processed_accepts
BY DEF Handles, With, Without, More

LEMMA DecreaseOps ==
  ASSUME NEW h \in Handles, h.reqs_pending > 0
  PROVE  /\ Decrease(h) \in Handles
         /\ Decrease(h).flags = h.flags \cup
              (IF "CLOSING" \in h.flags /\ h.reqs_pending = 1 THEN {"ENDGAME_QUEUED"} ELSE {})
         /\ Decrease(h).reqs_pending = h.reqs_pending - 1
         /\ Decrease(h).write_reqs_pending = h.write_reqs_pending
         /\ Decrease(h).processed_accepts = h.processed_accepts
<1> DEFINE d == [h EXCEPT !.reqs_pending = @ - 1]
<1>1. /\ d \in Handles /\ d.flags = h.flags /\ d.reqs_pending = h.reqs_pending - 1
      /\ d.write_reqs_pending = h.write_reqs_pending
      /\ d.processed_accepts = h.processed_accepts
  BY DEF Handles
<1>2. Decrease(h) = IF "CLOSING" \in d.flags /\ d.reqs_pending = 0
                      THEN With(d, {"ENDGAME_QUEUED"}) ELSE d
  BY DEF Decrease
<1>3. {"ENDGAME_QUEUED"} \in SUBSET Flags
  BY DEF Flags
<1> HIDE DEF d
<1>4. CASE "CLOSING" \in d.flags /\ d.reqs_pending = 0
  <2>1. Decrease(h) = With(d, {"ENDGAME_QUEUED"}) /\ "CLOSING" \in h.flags /\ h.reqs_pending = 1
    BY <1>1, <1>2, <1>4, HandleOps
  <2> QED
    BY <1>1, <1>3, <2>1, HandleOps
<1>5. CASE ~("CLOSING" \in d.flags /\ d.reqs_pending = 0)
  <2>1. Decrease(h) = d /\ ~("CLOSING" \in h.flags /\ h.reqs_pending = 1)
    BY <1>1, <1>2, <1>5, HandleOps
  <2> QED
    BY <1>1, <2>1
<1> QED
  BY <1>4, <1>5

(* The requests are different from each other.                             *)
LEMMA Distinct ==
  /\ ReadReq # ConnReq /\ ReadReq # ShutReq /\ ConnReq # ShutReq
  /\ \A r \in WReqs \cup AReqs : r # ReadReq /\ r # ConnReq /\ r # ShutReq
  /\ WReqs \cap AReqs = {}
<1>1. ASSUME NEW a, NEW b PROVE Cardinality({a, b}) # 3
  <2>1. IsFiniteSet({a}) /\ Cardinality({a}) = 1
    BY FS_Singleton
  <2>2. Cardinality({a} \cup {b}) = IF b \in {a} THEN Cardinality({a}) ELSE Cardinality({a}) + 1
    BY <2>1, FS_AddElement
  <2>3. {a} \cup {b} = {a, b}
    OBVIOUS
  <2> QED
    BY <2>1, <2>2, <2>3
<1>2. ReadReq # ConnReq
  <2>1. ReadReq = ConnReq => {ReadReq, ConnReq, ShutReq} = {ReadReq, ShutReq}
    OBVIOUS
  <2> QED
    BY <1>1, <2>1, WinAssumption
<1>3. ReadReq # ShutReq
  <2>1. ReadReq = ShutReq => {ReadReq, ConnReq, ShutReq} = {ReadReq, ConnReq}
    OBVIOUS
  <2> QED
    BY <1>1, <2>1, WinAssumption
<1>4. ConnReq # ShutReq
  <2>1. ConnReq = ShutReq => {ReadReq, ConnReq, ShutReq} = {ReadReq, ConnReq}
    OBVIOUS
  <2> QED
    BY <1>1, <2>1, WinAssumption
<1> QED
  BY <1>2, <1>3, <1>4, WinAssumption

(* A finite set grows and shrinks by one.                                  *)
LEMMA SetCounts ==
  ASSUME NEW S, IsFiniteSet(S)
  PROVE  /\ Cardinality(S) \in Nat
         /\ Cardinality(S) = 0 <=> S = {}
         /\ \A x : x \notin S => Cardinality(S \cup {x}) = Cardinality(S) + 1
         /\ \A x \in S : Cardinality(S \ {x}) = Cardinality(S) - 1
BY FS_AddElement, FS_RemoveElement, FS_CardinalityType, FS_EmptySet

(* The writes that are due are finitely many.                              *)
LEMMA ActiveCounts ==
  /\ IsFiniteSet(Active) /\ Cardinality(Active) \in Nat
  /\ Cardinality(Active) = 0 <=> Active = {}
<1>1. IsFiniteSet(Active)
  BY WinAssumption, FS_Subset DEF Active
<1> QED
  BY <1>1, SetCounts

(* A request gets a status.                                                *)
LEMMA AnswerFacts ==
  ASSUME TypeOK, NEW r \in UserReqs, NEW s \in {"idle", "active", "ok", "error"}, Answer(r, s)
  PROVE  /\ status' \in [UserReqs -> {"idle", "active", "ok", "error"}]
         /\ status'[r] = s /\ \A q \in UserReqs : q # r => status'[q] = status[q]
BY DEF TypeOK, Answer

(* A step that does not meddle with accepting.                             *)
LEMMA AcceptKept ==
  ASSUME AcceptInv, UNCHANGED accept, Held' \cap AReqs = Held \cap AReqs, TypeOK,
         handle'.processed_accepts = handle.processed_accepts,
         Has("ACCEPT_STATE_CHANGING")' = Has("ACCEPT_STATE_CHANGING"),
         Has("SINGLE_ACCEPT")' = Has("SINGLE_ACCEPT"),
         Has("LISTENING")' => Has("LISTENING")
  PROVE  AcceptInv'
<1>1. accept.sockets \subseteq AReqs
  BY DEF TypeOK
<1>2. ToSet(accept.pending) \cap Held' = {}
  BY <1>1 DEF AcceptInv
<1>3. accept.sockets \subseteq ToSet(accept.pending) \cup Held'
  BY <1>1 DEF AcceptInv
<1>4. Live' = Live
  BY DEF Live
<1> QED
  BY <1>2, <1>3, <1>4 DEF AcceptInv

(* What the invariant says of the handle before a step.                    *)
LEMMA HandleFacts ==
  ASSUME WinInv
  PROVE  /\ TypeOK /\ InOnePlace /\ handle \in Handles
         /\ handle.flags \subseteq Flags /\ handle.reqs_pending \in Nat
         /\ handle.write_reqs_pending \in Nat /\ handle.processed_accepts \in Nat
         /\ Held \subseteq Reqs /\ Cardinality(Held) \in Nat
BY HeldCounts DEF WinInv, TypeOK, Handles

(* The counts before a step.                                               *)
LEMMA CountFacts ==
  ASSUME WinInv
  PROVE  /\ handle.reqs_pending = Cardinality(Held) + InProcess + ShutDue
         /\ Cardinality(Held) \in Nat /\ InProcess \in {0, 1} /\ ShutDue \in {0, 1}
         /\ Has("CLOSED") => handle.reqs_pending = 0
         /\ Has("CONNECTION") => handle.write_reqs_pending = Cardinality(Active) + Writing
         /\ Cardinality(Active) \in Nat /\ Writing \in {0, 1}
BY HandleFacts, ActiveCounts DEF WinInv, CountInv, InProcess, ShutDue, Writing

(* What is left to show when a step has been described.                    *)
LEMMA TypeAgain ==
  ASSUME TypeOK, handle' \in Handles,
         pending_reqs' \in Seq(Reqs), kernel' \in Seq(Reqs), iocp' \in Seq(Reqs),
         failed' \subseteq Reqs, status' \in [UserReqs -> {"idle", "active", "ok", "error"}],
         accept' \in [sockets : SUBSET AReqs, pending : Seq(AReqs)],
         at' \in {"timers", "endgames", "reqs", "poll", "reading"} \cup Callback,
         resume' \in {"none", "reading", "posting", "processed", "written", "shut", "endgames"},
         UNCHANGED world
  PROVE  TypeOK'
BY DEF TypeOK, Handles

(* What has not changed keeps its type.                                    *)
LEMMA TypesBefore ==
  ASSUME TypeOK
  PROVE  /\ status \in [UserReqs -> {"idle", "active", "ok", "error"}]
         /\ accept \in [sockets : SUBSET AReqs, pending : Seq(AReqs)]
         /\ at \in {"timers", "endgames", "reqs", "poll", "reading"} \cup Callback
         /\ resume \in {"none", "reading", "posting", "processed", "written", "shut", "endgames"}
         /\ failed \subseteq Reqs /\ world \in Worlds
BY DEF TypeOK

-----------------------------------------------------------------------------
(* Every action keeps the invariant.                                       *)

(* uv_close.                                                               *)
LEMMA CloseKeeps ==
  ASSUME WinInv, uv_close
  PROVE  WinInv'
<1>1. /\ Held' = Held /\ InOnePlace' /\ UNCHANGED <<pending_reqs, kernel, iocp, failed>>
      /\ UNCHANGED <<status, accept, at, resume, world>>
      /\ Active' = Active /\ ShutDue' = ShutDue
  BY QueuesKept DEF uv_close, queues, ctl, WinInv, Active, ShutDue
<1>2. /\ handle \in [flags : SUBSET Flags, reqs_pending : Nat, write_reqs_pending : Nat,
                     processed_accepts : Nat]
  BY DEF WinInv, TypeOK
<1>3. /\ ~Has("CLOSING") /\ at # "reading"
  BY DEF uv_close, UserMayCall, Callback
<1>4. \E q \in {{}, {"ENDGAME_QUEUED"}} :
        /\ handle'.flags = (handle.flags \ {"READING", "LISTENING"}) \cup {"CLOSING", "SHUT"} \cup q
        /\ handle'.reqs_pending = handle.reqs_pending
        /\ handle'.write_reqs_pending = handle.write_reqs_pending
        /\ handle'.processed_accepts = handle.processed_accepts
        /\ handle' \in [flags : SUBSET Flags, reqs_pending : Nat, write_reqs_pending : Nat,
                     processed_accepts : Nat]
  BY <1>2 DEF uv_close, With, Without, Flags
<1>5. TypeOK'
  BY <1>1, <1>2, <1>4 DEF WinInv, TypeOK
<1>6. CountInv'
  BY <1>1, <1>3, <1>4 DEF WinInv, CountInv, Has, Writing, InProcess
<1>7. HeldInv'
  BY <1>1 DEF WinInv, HeldInv
<1>8. FlagsInv'
  BY <1>1, <1>3, <1>4 DEF WinInv, FlagsInv, Has
<1>9. ShutInv' /\ ControlInv'
  BY <1>1, <1>3, <1>4 DEF WinInv, ShutInv, ControlInv, Has
<1>10. ReadInv' /\ AcceptInv'
  BY <1>1, <1>3, <1>4 DEF WinInv, ReadInv, AcceptInv, Has, Live, May
<1> QED
  BY <1>1, <1>5, <1>6, <1>7, <1>8, <1>9, <1>10 DEF WinInv

(* The places of the loop between requests.                                *)
LEMMA LoopKeeps ==
  ASSUME WinInv, Flush \/ NoEndgame \/ Flushed
  PROVE  WinInv'
<1>1. /\ Held' = Held /\ InOnePlace' /\ UNCHANGED <<pending_reqs, kernel, iocp, failed>>
      /\ UNCHANGED <<handle, status, accept, resume, world>>
      /\ Active' = Active /\ ShutDue' = ShutDue
  BY QueuesKept DEF Flush, NoEndgame, Flushed, queues, WinInv, Active, ShutDue
<1>2. /\ at \in {"timers", "endgames", "reqs"} /\ at' \in {"endgames", "reqs", "poll"}
      /\ at \notin Callback /\ at' \notin Callback
  BY DEF Flush, NoEndgame, Flushed, Callback
<1>3. TypeOK'
  BY <1>1, <1>2, HandleFacts, QueueTypes, TypesBefore, TypeAgain
<1>4. CountInv'
  BY <1>1, <1>2 DEF WinInv, CountInv, Has, Writing, InProcess
<1>5. HeldInv' /\ FlagsInv' /\ ShutInv' /\ ControlInv' /\ ReadInv'
  BY <1>1, <1>2 DEF WinInv, HeldInv, FlagsInv, ShutInv, ControlInv, ReadInv, Has, May
<1>6. AcceptInv'
  BY <1>1, AcceptKept DEF WinInv, Has
<1> QED
  BY <1>1, <1>3, <1>4, <1>5, <1>6 DEF WinInv

(* Requests on their way to the loop.                                      *)
LEMMA MovesKeep ==
  ASSUME WinInv, Poll \/ \E i \in DOMAIN kernel : Complete(i)
  PROVE  WinInv'
<1>1. /\ pending_reqs' \in Seq(Reqs) /\ kernel' \in Seq(Reqs) /\ iocp' \in Seq(Reqs)
      /\ failed' \subseteq Reqs /\ InOnePlace' /\ Held' = Held
  <2>1. CASE Poll
    BY <2>1, Polled, QueueTypes DEF WinInv, Poll
  <2>2. ASSUME NEW i \in DOMAIN kernel, Complete(i)
        PROVE  /\ pending_reqs' \in Seq(Reqs) /\ kernel' \in Seq(Reqs) /\ iocp' \in Seq(Reqs)
               /\ failed' \subseteq Reqs /\ InOnePlace' /\ Held' = Held
    <3>1. pending_reqs' = pending_reqs
      BY <2>2 DEF Complete
    <3> QED
      BY <2>2, <3>1, Completed, QueueTypes DEF WinInv
  <2> QED
    BY <2>1, <2>2
<1>2. /\ UNCHANGED <<handle, status, accept, resume, world>>
      /\ \/ UNCHANGED at
         \/ at = "poll" /\ at' = "timers"
  BY DEF Poll, Complete, ctl
<1>3. Active' = Active /\ ShutDue' = ShutDue
  BY <1>2 DEF Active, ShutDue
<1>4. TypeOK'
  BY <1>1, <1>2, HandleFacts, TypesBefore, TypeAgain
<1>5. CountInv'
  BY <1>1, <1>2, <1>3 DEF WinInv, CountInv, Has, Writing, InProcess, Callback
<1>6. HeldInv' /\ FlagsInv' /\ ShutInv'
  BY <1>1, <1>2, <1>3 DEF WinInv, HeldInv, FlagsInv, ShutInv, Has
<1>7. ControlInv' /\ ReadInv'
  BY <1>1, <1>2, <1>3 DEF WinInv, ControlInv, ReadInv, Has, May, Callback
<1>8. AcceptInv'
  BY <1>1, <1>2, HandleFacts, AcceptKept DEF WinInv, Has
<1> QED
  BY <1>1, <1>4, <1>5, <1>6, <1>7, <1>8 DEF WinInv

(* uv_shutdown.                                                            *)
LEMMA ShutdownKeeps ==
  ASSUME WinInv, uv_shutdown
  PROVE  WinInv'
<1>1. /\ Held' = Held /\ InOnePlace' /\ UNCHANGED <<pending_reqs, kernel, iocp, failed>>
      /\ UNCHANGED <<accept, at, resume, world>>
      /\ ~Has("CLOSING") /\ ~Has("CLOSED") /\ Has("CONNECTION") /\ ~Has("SHUTTING") /\ at # "reading"
  BY QueuesKept DEF uv_shutdown, queues, ctl, UserMayCall, Callback, WinInv, FlagsInv
<1>2. /\ status' \in [UserReqs -> {"idle", "active", "ok", "error"}]
      /\ status'[ShutReq] = "active" /\ \A q \in UserReqs : q # ShutReq => status'[q] = status[q]
  BY AnswerFacts DEF uv_shutdown, UserReqs, WinInv
<1>3. Becomes(handle.flags \cup {"SHUTTING", "ENDGAME_QUEUED"}, handle.reqs_pending + 1,
              handle.write_reqs_pending, handle.processed_accepts)
  <2> DEFINE h == With(handle, {"SHUTTING", "ENDGAME_QUEUED"})
  <2>1. /\ h \in Handles /\ h.flags = handle.flags \cup {"SHUTTING", "ENDGAME_QUEUED"}
        /\ h.reqs_pending = handle.reqs_pending
        /\ h.write_reqs_pending = handle.write_reqs_pending
        /\ h.processed_accepts = handle.processed_accepts
    <3>1. {"SHUTTING", "ENDGAME_QUEUED"} \in SUBSET Flags
      BY DEF Flags
    <3> QED
      BY <3>1, HandleFacts, HandleOps
  <2>2. handle' = More(h)
    BY DEF uv_shutdown
  <2> HIDE DEF h
  <2> QED
    BY <2>1, <2>2, HandleOps DEF Becomes
<1>4. Active' = Active /\ ShutDue' = 1 /\ ShutDue = 0
  BY <1>1, <1>2, Distinct DEF Active, ShutDue, UserReqs, WinInv, FlagsInv
<1>5. TypeOK'
  BY <1>1, <1>2, <1>3, HandleFacts, QueueTypes, TypesBefore, TypeAgain DEF Becomes
<1>6. CountInv'
  BY <1>1, <1>3, <1>4, HandleFacts DEF WinInv, CountInv, Has, Writing, InProcess, Becomes
<1>7. HeldInv' /\ FlagsInv'
  BY <1>1, <1>2, <1>3, Distinct DEF WinInv, HeldInv, FlagsInv, Has, Becomes, UserReqs
<1>8. ShutInv' /\ ControlInv' /\ ReadInv'
  BY <1>1, <1>2, <1>3 DEF WinInv, ShutInv, ControlInv, ReadInv, Has, May, Becomes
<1>9. AcceptInv'
  BY <1>1, <1>3, HandleFacts, AcceptKept DEF WinInv, Has, Becomes
<1> QED
  BY <1>1, <1>5, <1>6, <1>7, <1>8, <1>9 DEF WinInv

(* uv_tcp_endgame: a shutdown, the end of the handle, or nothing yet.      *)
LEMMA EndgameKeeps ==
  ASSUME WinInv, Endgame
  PROVE  WinInv'
<1> DEFINE h == Without(handle, {"ENDGAME_QUEUED"})
<1>1. /\ Held' = Held /\ InOnePlace' /\ UNCHANGED <<pending_reqs, kernel, iocp, failed>>
      /\ UNCHANGED <<accept, world>> /\ at = "endgames" /\ Has("ENDGAME_QUEUED")
      /\ at \notin Callback
  BY QueuesKept DEF Endgame, queues, WinInv, Callback
<1>2. /\ h \in Handles /\ h.flags = handle.flags \ {"ENDGAME_QUEUED"}
      /\ h.reqs_pending = handle.reqs_pending
      /\ h.write_reqs_pending = handle.write_reqs_pending
      /\ h.processed_accepts = handle.processed_accepts
  <2>1. {"ENDGAME_QUEUED"} \in SUBSET Flags
    BY DEF Flags
  <2> QED
    BY <2>1, HandleFacts, HandleOps
<1>3. \/ /\ ShutsDown
         /\ \/ handle' = With(h, {"SHUT"}) /\ Answer(ShutReq, "ok")
            \/ handle' = h /\ Answer(ShutReq, "error")
         /\ at' = "shutdown_cb" /\ resume' = "shut"
      \/ /\ Has("CLOSING") /\ handle.reqs_pending = 0
         /\ handle' = With(h, {"CLOSED"}) /\ UNCHANGED status
         /\ at' = "close_cb" /\ resume' = "endgames"
      \/ handle' = h /\ UNCHANGED <<status, at, resume>>
  BY DEF Endgame, Call, ctl, Answer
<1> HIDE DEF h
<1>4. CASE /\ ShutsDown
           /\ \/ handle' = With(h, {"SHUT"}) /\ Answer(ShutReq, "ok")
              \/ handle' = h /\ Answer(ShutReq, "error")
           /\ at' = "shutdown_cb" /\ resume' = "shut"
  <2>1. status[ShutReq] = "active" /\ Has("CONNECTION") /\ Active = {} /\ ~Has("CLOSING")
    BY <1>1, <1>4, ActiveCounts DEF ShutsDown, WinInv, ShutInv, CountInv, FlagsInv, Has, Writing
  <2>2. PICK s \in {"ok", "error"} : Answer(ShutReq, s)
    BY <1>4
  <2>3. /\ status' \in [UserReqs -> {"idle", "active", "ok", "error"}]
        /\ status'[ShutReq] \in {"ok", "error"}
        /\ \A q \in UserReqs : q # ShutReq => status'[q] = status[q]
    BY <2>2, AnswerFacts DEF UserReqs, WinInv
  <2>4. PICK f \in {{}, {"SHUT"}} :
          Becomes((handle.flags \ {"ENDGAME_QUEUED"}) \cup f, handle.reqs_pending,
                  handle.write_reqs_pending, handle.processed_accepts)
    <3>1. {"SHUT"} \in SUBSET Flags
      BY DEF Flags
    <3>2. CASE handle' = With(h, {"SHUT"})
      BY <1>2, <3>1, <3>2, HandleOps DEF Becomes
    <3>3. CASE handle' = h
      BY <1>2, <3>3 DEF Becomes
    <3> QED
      BY <1>4, <3>2, <3>3
  <2>5. Active' = Active /\ ShutDue' = 0 /\ ShutDue = 1
    BY <2>1, <2>3, Distinct DEF Active, ShutDue, UserReqs
  <2>6. TypeOK'
    BY <1>1, <1>4, <2>3, <2>4, HandleFacts, QueueTypes, TypesBefore, TypeAgain DEF Becomes, Callback
  <2>7. CountInv'
    BY <1>1, <1>4, <2>1, <2>4, <2>5, HandleFacts
    DEF WinInv, CountInv, FlagsInv, Has, Writing, InProcess, Becomes, Callback
  <2>8. HeldInv' /\ FlagsInv'
    BY <1>1, <2>1, <2>3, <2>4, Distinct DEF WinInv, HeldInv, FlagsInv, Has, Becomes, UserReqs
  <2>9. ShutInv' /\ ControlInv' /\ ReadInv'
    BY <1>1, <1>4, <2>1, <2>3, <2>4, <2>5
    DEF WinInv, ShutInv, ControlInv, ReadInv, Has, May, Becomes, Callback, Then
  <2>10. AcceptInv'
    BY <1>1, <2>4, HandleFacts, AcceptKept DEF WinInv, Has, Becomes
  <2> QED
    BY <1>1, <2>6, <2>7, <2>8, <2>9, <2>10 DEF WinInv
<1>5. CASE \/ /\ Has("CLOSING") /\ handle.reqs_pending = 0
              /\ handle' = With(h, {"CLOSED"}) /\ UNCHANGED status
              /\ at' = "close_cb" /\ resume' = "endgames"
           \/ handle' = h /\ UNCHANGED <<status, at, resume>>
  <2>1. PICK f \in {{}, {"CLOSED"}} :
          /\ Becomes((handle.flags \ {"ENDGAME_QUEUED"}) \cup f, handle.reqs_pending,
                     handle.write_reqs_pending, handle.processed_accepts)
          /\ f = {} => UNCHANGED <<at, resume>>
          /\ f # {} => /\ Has("CLOSING") /\ handle.reqs_pending = 0
                       /\ at' = "close_cb" /\ resume' = "endgames"
    <3>1. {"CLOSED"} \in SUBSET Flags
      BY DEF Flags
    <3>2. CASE handle' = With(h, {"CLOSED"}) /\ Has("CLOSING") /\ handle.reqs_pending = 0
               /\ at' = "close_cb" /\ resume' = "endgames"
      BY <1>2, <3>1, <3>2, HandleOps DEF Becomes
    <3>3. CASE handle' = h /\ UNCHANGED <<at, resume>>
      BY <1>2, <3>3 DEF Becomes
    <3> QED
      BY <1>5, <3>2, <3>3
  <2>2. UNCHANGED status /\ Active' = Active /\ ShutDue' = ShutDue
    BY <1>5 DEF Active, ShutDue
  <2>3. TypeOK'
    BY <1>1, <2>1, <2>2, HandleFacts, QueueTypes, TypesBefore, TypeAgain DEF Becomes, Callback
  <2>4. CountInv'
    BY <1>1, <2>1, <2>2, HandleFacts
    DEF WinInv, CountInv, Has, Writing, InProcess, Becomes, Callback
  <2>5. HeldInv' /\ FlagsInv'
    BY <1>1, <2>1, <2>2 DEF WinInv, HeldInv, FlagsInv, Has, Becomes
  <2>6. ShutInv' /\ ControlInv' /\ ReadInv'
    BY <1>1, <2>1, <2>2
    DEF WinInv, ShutInv, ControlInv, ReadInv, Has, May, Becomes, Callback, Then
  <2>7. AcceptInv'
    BY <1>1, <2>1, HandleFacts, AcceptKept DEF WinInv, Has, Becomes
  <2> QED
    BY <1>1, <2>3, <2>4, <2>5, <2>6, <2>7 DEF WinInv
<1> QED
  BY <1>3, <1>4, <1>5

(* uv_process_tcp_write_req up to the callback.                            *)
LEMMA WriteReqKeeps ==
  ASSUME WinInv, NEW r \in WReqs, WriteReq(r)
  PROVE  WinInv'
<1>1. /\ UNCHANGED <<handle, accept, failed, world>> /\ at = "reqs" /\ at \notin Callback
      /\ at' = "write_cb" /\ resume' = "written"
  BY DEF WriteReq, Call, Processes, Callback
<1>2. /\ r \in Held /\ Held' = Held \ {r} /\ InOnePlace'
      /\ pending_reqs' \in Seq(Reqs) /\ kernel' \in Seq(Reqs) /\ iocp' \in Seq(Reqs)
  BY Taken DEF WriteReq, WinInv
<1>3. Cardinality(Held') = Cardinality(Held) - 1
  BY <1>2, HeldCounts DEF WinInv
<1>4. PICK s \in {"ok", "error"} : Answer(r, s)
  BY DEF WriteReq
<1>5. /\ status' \in [UserReqs -> {"idle", "active", "ok", "error"}]
      /\ status'[r] \in {"ok", "error"} /\ \A q \in UserReqs : q # r => status'[q] = status[q]
  BY <1>4, AnswerFacts DEF UserReqs, WinInv
<1>6. /\ status[r] = "active" /\ Has("CONNECTION") /\ r \in Active
      /\ status[ShutReq] \notin {"ok", "error"} /\ status'[ShutReq] = status[ShutReq]
      /\ status'[ConnReq] = status[ConnReq]
  BY <1>2, <1>5, Distinct DEF WinInv, HeldInv, FlagsInv, ShutInv, Active, UserReqs
<1>7. Active' = Active \ {r} /\ ShutDue' = ShutDue
  BY <1>5, <1>6 DEF Active, ShutDue, UserReqs
<1>8. Cardinality(Active') = Cardinality(Active) - 1 /\ Cardinality(Active) \in Nat
  BY <1>6, <1>7, ActiveCounts, SetCounts
<1>9. TypeOK'
  BY <1>1, <1>2, <1>5, HandleFacts, TypesBefore, TypeAgain DEF Callback
<1>10. CountInv'
  BY <1>1, <1>3, <1>7, <1>8, HandleFacts
  DEF WinInv, CountInv, Has, Writing, InProcess, Callback
<1>11. HeldInv' /\ FlagsInv'
  BY <1>1, <1>2, <1>5, <1>6, Distinct DEF WinInv, HeldInv, FlagsInv, Has, UserReqs
<1>12. ShutInv' /\ ControlInv' /\ ReadInv'
  BY <1>1, <1>2, <1>6, Distinct DEF WinInv, ShutInv, ControlInv, ReadInv, Has, May, Callback, Then
<1>13. AcceptInv'
  BY <1>1, <1>2, Distinct, HandleFacts, AcceptKept DEF WinInv, Has
<1> QED
  BY <1>2, <1>9, <1>10, <1>11, <1>12, <1>13 DEF WinInv

(* uv_process_tcp_connect_req up to the callback.                          *)
LEMMA ConnectReqKeeps ==
  ASSUME WinInv, ConnectReq
  PROVE  WinInv'
<1>1. /\ UNCHANGED <<accept, failed, world>> /\ at = "reqs" /\ at \notin Callback
      /\ at' = "connect_cb" /\ resume' = "processed"
  BY DEF ConnectReq, Call, Processes, Callback
<1>2. /\ ConnReq \in Held /\ Held' = Held \ {ConnReq} /\ InOnePlace'
      /\ pending_reqs' \in Seq(Reqs) /\ kernel' \in Seq(Reqs) /\ iocp' \in Seq(Reqs)
  BY Taken DEF ConnectReq, WinInv
<1>3. Cardinality(Held') = Cardinality(Held) - 1
  BY <1>2, HeldCounts DEF WinInv
<1>4. /\ status[ConnReq] = "active" /\ ~Has("CONNECTION") /\ Has("BOUND")
      /\ ReadReq \notin Held' /\ Active = {} /\ ~Has("READ_PENDING") /\ ~Has("SHUTTING")
      /\ \A r \in WReqs : status[r] = "idle"
  <2>1. \A r \in WReqs : status[r] \in {"idle", "active", "ok", "error"}
    BY TypesBefore DEF WinInv, UserReqs
  <2> QED
    BY <1>2, <2>1 DEF WinInv, HeldInv, FlagsInv, ReadInv, Active
<1>5. PICK s \in {"ok", "error"} :
        /\ Answer(ConnReq, s)
        /\ s = "error" => UNCHANGED handle
        /\ s = "ok" => /\ ~Has("CLOSING")
                       /\ handle' = [With(handle, {"CONNECTION"}) EXCEPT !.write_reqs_pending = 0]
  BY DEF ConnectReq
<1>6. /\ status' \in [UserReqs -> {"idle", "active", "ok", "error"}]
      /\ status'[ConnReq] = s /\ \A q \in UserReqs : q # ConnReq => status'[q] = status[q]
  BY <1>5, AnswerFacts DEF UserReqs, WinInv
<1>7. PICK f \in {{}, {"CONNECTION"}}, w \in {0, handle.write_reqs_pending} :
        /\ Becomes(handle.flags \cup f, handle.reqs_pending, w, handle.processed_accepts)
        /\ f = {} <=> s = "error"
        /\ f # {} => w = 0 /\ ~Has("CLOSING")
  <2>1. CASE s = "ok"
    <3> DEFINE g == With(handle, {"CONNECTION"})
    <3>1. /\ g \in Handles /\ g.flags = handle.flags \cup {"CONNECTION"}
          /\ g.reqs_pending = handle.reqs_pending
          /\ g.processed_accepts = handle.processed_accepts
      <4>1. {"CONNECTION"} \in SUBSET Flags
        BY DEF Flags
      <4> QED
        BY <4>1, HandleFacts, HandleOps
    <3>2. handle' = [g EXCEPT !.write_reqs_pending = 0] /\ ~Has("CLOSING")
      BY <1>5, <2>1
    <3> HIDE DEF g
    <3>3. Becomes(handle.flags \cup {"CONNECTION"}, handle.reqs_pending, 0, handle.processed_accepts)
      BY <3>1, <3>2 DEF Handles, Becomes
    <3> QED
      BY <2>1, <3>2, <3>3
  <2>2. CASE s = "error"
    <3>1. Becomes(handle.flags \cup {}, handle.reqs_pending, handle.write_reqs_pending,
                  handle.processed_accepts)
      BY <1>5, <2>2, HandleFacts DEF Becomes
    <3> QED
      BY <2>2, <3>1
  <2> QED
    BY <2>1, <2>2
<1>8. Active' = Active /\ ShutDue' = ShutDue /\ status'[ShutReq] = status[ShutReq]
  BY <1>6, Distinct DEF Active, ShutDue, UserReqs
<1>9. TypeOK'
  BY <1>1, <1>2, <1>6, <1>7, HandleFacts, TypesBefore, TypeAgain DEF Callback, Becomes
<1>10. CountInv'
  BY <1>1, <1>3, <1>4, <1>7, <1>8, ActiveCounts, HandleFacts
  DEF WinInv, CountInv, Has, Writing, InProcess, Callback, Becomes
<1>11. HeldInv'
  BY <1>2, <1>5, <1>6, Distinct DEF WinInv, HeldInv, UserReqs
<1>12. FlagsInv'
  <2>1. \A r \in WReqs : status'[r] = "idle"
    BY <1>4, <1>6, Distinct DEF UserReqs
  <2>2. (Has("CONNECTION") <=> status[ConnReq] = "ok")'
    BY <1>4, <1>5, <1>6, <1>7 DEF Has, Becomes
  <2> QED
    BY <1>1, <1>4, <1>7, <1>8, <2>1, <2>2 DEF WinInv, FlagsInv, Has, Becomes
<1>13. ShutInv' /\ ControlInv' /\ ReadInv'
  BY <1>1, <1>2, <1>4, <1>7, <1>8
  DEF WinInv, ShutInv, ControlInv, ReadInv, Has, May, Callback, Then, Becomes
<1>14. AcceptInv'
  BY <1>1, <1>2, <1>7, Distinct, HandleFacts, AcceptKept DEF WinInv, Has, Becomes
<1> QED
  BY <1>2, <1>9, <1>10, <1>11, <1>12, <1>13, <1>14 DEF WinInv

(* uv_process_tcp_read_req up to the first receive or the callback.        *)
LEMMA ReadReqKeeps ==
  ASSUME WinInv, ReadReqDone
  PROVE  WinInv'
<1> DEFINE h == Without(handle, {"READ_PENDING"})
           g == Without(h, {"READING"})
<1>1. /\ UNCHANGED <<status, accept, failed, world>> /\ at = "reqs" /\ at \notin Callback
  BY DEF ReadReqDone, Processes, Callback
<1>2. /\ ReadReq \in Held /\ Held' = Held \ {ReadReq} /\ InOnePlace'
      /\ pending_reqs' \in Seq(Reqs) /\ kernel' \in Seq(Reqs) /\ iocp' \in Seq(Reqs)
  BY Taken DEF ReadReqDone, WinInv
<1>3. Cardinality(Held') = Cardinality(Held) - 1 /\ Cardinality(Held) > 0
  BY <1>2, HeldCounts DEF WinInv
<1>4. /\ h \in Handles /\ h.flags = handle.flags \ {"READ_PENDING"}
      /\ h.reqs_pending = handle.reqs_pending
      /\ h.write_reqs_pending = handle.write_reqs_pending
      /\ h.processed_accepts = handle.processed_accepts
  <2>1. {"READ_PENDING"} \in SUBSET Flags
    BY DEF Flags
  <2> QED
    BY <2>1, HandleFacts, HandleOps
<1>5. /\ handle.reqs_pending > 0 /\ handle.reqs_pending \in Nat /\ resume = "none"
      /\ ~Has("CLOSED")
  <2>1. handle.reqs_pending > 0 /\ handle.reqs_pending \in Nat
    BY <1>3, CountFacts
  <2>2. ~Has("CLOSED")
    BY <2>1, CountFacts
  <2> QED
    BY <1>1, <2>1, <2>2 DEF WinInv, ControlInv
<1> HIDE DEF h
<1>6. /\ g \in Handles /\ g.flags = h.flags \ {"READING"}
      /\ g.reqs_pending = h.reqs_pending
      /\ g.write_reqs_pending = h.write_reqs_pending
      /\ g.processed_accepts = h.processed_accepts
  <2>1. {"READING"} \in SUBSET Flags
    BY DEF Flags
  <2> QED
    BY <1>4, <2>1, HandleOps
<1> HIDE DEF g
<1>7. \/ handle' = h /\ at' = "reading" /\ UNCHANGED resume
      \/ /\ \E eof \in {{}, {"EOF"}} : handle' = With(g, eof)
         /\ at' = "read_cb" /\ resume' = "processed"
      \/ handle' = Decrease(h) /\ at' = "reqs" /\ UNCHANGED resume
  BY DEF ReadReqDone, Call, h, g
<1>8. \E R \in {{}, {"READING"}}, A \in {{}, {"EOF"}, {"ENDGAME_QUEUED"}}, n \in {0, 1} :
        /\ Becomes((handle.flags \ ({"READ_PENDING"} \cup R)) \cup A, handle.reqs_pending - n,
                   handle.write_reqs_pending, handle.processed_accepts)
        /\ A = {"ENDGAME_QUEUED"} => Has("CLOSING")
        /\ n = 0 => \/ at' = "reading" /\ UNCHANGED resume
                    \/ at' = "read_cb" /\ resume' = "processed"
        /\ n = 1 => at' = "reqs" /\ UNCHANGED resume
  <2>1. CASE handle' = h /\ at' = "reading" /\ UNCHANGED resume
    <3>1. /\ (handle.flags \ ({"READ_PENDING"} \cup {})) \cup {} = h.flags
          /\ handle.reqs_pending - 0 = h.reqs_pending
      BY <1>4, <1>5
    <3>2. Becomes((handle.flags \ ({"READ_PENDING"} \cup {})) \cup {}, handle.reqs_pending - 0,
                   handle.write_reqs_pending, handle.processed_accepts)
      BY <1>4, <2>1, <3>1 DEF Becomes
    <3> QED
      BY <2>1, <3>2
  <2>2. ASSUME NEW eof \in {{}, {"EOF"}}, handle' = With(g, eof),
               at' = "read_cb", resume' = "processed"
        PROVE  Becomes((handle.flags \ ({"READ_PENDING"} \cup {"READING"})) \cup eof,
                   handle.reqs_pending - 0,
                   handle.write_reqs_pending, handle.processed_accepts)
    <3>1. eof \in SUBSET Flags
      BY DEF Flags
    <3>2. /\ (handle.flags \ ({"READ_PENDING"} \cup {"READING"})) \cup eof = g.flags \cup eof
          /\ handle.reqs_pending - 0 = g.reqs_pending
      BY <1>4, <1>5, <1>6
    <3> QED
      BY <1>4, <1>6, <2>2, <3>1, <3>2, HandleOps DEF Becomes
  <2>3. CASE handle' = Decrease(h) /\ at' = "reqs" /\ UNCHANGED resume
    <3>1. CASE "CLOSING" \in h.flags /\ h.reqs_pending = 1
      <4>1. Becomes((handle.flags \ ({"READ_PENDING"} \cup {})) \cup {"ENDGAME_QUEUED"},
                    handle.reqs_pending - 1,
                    handle.write_reqs_pending, handle.processed_accepts)
        BY <1>4, <1>5, <2>3, <3>1, DecreaseOps DEF Becomes
      <4>2. Has("CLOSING")
        BY <1>4, <3>1 DEF Has
      <4> QED
        BY <2>3, <4>1, <4>2
    <3>2. CASE ~("CLOSING" \in h.flags /\ h.reqs_pending = 1)
      <4>1. Becomes((handle.flags \ ({"READ_PENDING"} \cup {})) \cup {},
                    handle.reqs_pending - 1,
                    handle.write_reqs_pending, handle.processed_accepts)
        BY <1>4, <1>5, <2>3, <3>2, DecreaseOps DEF Becomes
      <4> QED
        BY <2>3, <4>1
    <3> QED
      BY <3>1, <3>2
  <2>4. CASE \E eof \in {{}, {"EOF"}} : handle' = With(g, eof)
                                       /\ at' = "read_cb" /\ resume' = "processed"
    <3>1. PICK eof \in {{}, {"EOF"}} : handle' = With(g, eof)
                                       /\ at' = "read_cb" /\ resume' = "processed"
      BY <2>4
    <3>2. Becomes((handle.flags \ ({"READ_PENDING"} \cup {"READING"})) \cup eof,
                   handle.reqs_pending - 0,
                   handle.write_reqs_pending, handle.processed_accepts)
      BY <2>2, <3>1
    <3>3. eof # {"ENDGAME_QUEUED"}
      OBVIOUS
    <3> QED
      BY <3>1, <3>2, <3>3
  <2> QED
    BY <1>7, <2>1, <2>3, <2>4
<1>9. PICK R \in {{}, {"READING"}}, A \in {{}, {"EOF"}, {"ENDGAME_QUEUED"}}, n \in {0, 1} :
        /\ Becomes((handle.flags \ ({"READ_PENDING"} \cup R)) \cup A, handle.reqs_pending - n,
                   handle.write_reqs_pending, handle.processed_accepts)
        /\ A = {"ENDGAME_QUEUED"} => Has("CLOSING")
        /\ n = 0 => \/ at' = "reading" /\ UNCHANGED resume
                    \/ at' = "read_cb" /\ resume' = "processed"
        /\ n = 1 => at' = "reqs" /\ UNCHANGED resume
  BY <1>8
<1>10. Active' = Active /\ ShutDue' = ShutDue
  BY <1>1 DEF Active, ShutDue
<1>11. TypeOK'
  <2>1. resume' \in {"none", "processed"} /\ at' \in {"reading", "read_cb", "reqs"} /\ handle' \in Handles
    BY <1>5, <1>9 DEF Becomes
  <2> QED
    BY <1>1, <1>2, <2>1, HandleFacts, TypesBefore, TypeAgain DEF Callback
<1>12. CountInv'
  <2>1. InProcess = 0 /\ InProcess' = 1 - n /\ Writing = 0 /\ Writing' = 0
    BY <1>1, <1>9 DEF InProcess, Writing, Callback
  <2> QED
    BY <1>3, <1>5, <1>9, <1>10, <2>1, CountFacts DEF CountInv, Has, Becomes
<1>13. HeldInv'
  BY <1>1, <1>2, Distinct DEF WinInv, HeldInv
<1>14. FlagsInv'
  <2>1. Has("BOUND")
    BY <1>2 DEF WinInv, FlagsInv
  <2> QED
    BY <1>1, <1>9, <2>1 DEF WinInv, FlagsInv, Has, Becomes
<1>15. ShutInv'
  BY <1>1, <1>9, <1>10 DEF WinInv, ShutInv, FlagsInv, Has, Becomes
<1>16. ControlInv' /\ ReadInv'
  <2>1. Has("CONNECTION")
    BY <1>2 DEF WinInv, ReadInv
  <2> QED
    BY <1>2, <1>5, <1>9, <2>1 DEF WinInv, ControlInv, ReadInv, Has, Callback, Then, Becomes
<1>17. AcceptInv'
  BY <1>1, <1>2, <1>9, Distinct, HandleFacts, AcceptKept DEF WinInv, Has, Becomes
<1> QED
  BY <1>2, <1>11, <1>12, <1>13, <1>14, <1>15, <1>16, <1>17 DEF WinInv

(* The handle loses a request whose processing has ended.                  *)
LEMMA Finished ==
  ASSUME WinInv, UNCHANGED <<pending_reqs, kernel, iocp, failed, status, accept, world>>,
         InProcess = 1, at # "write_cb", handle' = Decrease(handle),
         at' \in {"reqs", "endgames"}, resume' = "none"
  PROVE  WinInv'
<1>1. Held' = Held /\ InOnePlace' /\ Active' = Active /\ ShutDue' = ShutDue
  BY QueuesKept DEF WinInv, Active, ShutDue
<1>2. handle.reqs_pending > 0 /\ handle.reqs_pending \in Nat
  <2>1. handle.reqs_pending = Cardinality(Held) + 1 + ShutDue
    BY CountFacts
  <2>2. Cardinality(Held) \in Nat /\ ShutDue \in Nat
    BY CountFacts
  <2> QED
    BY <2>1, <2>2
<1>3. PICK A \in {{}, {"ENDGAME_QUEUED"}} :
        /\ Becomes(handle.flags \cup A, handle.reqs_pending - 1,
                   handle.write_reqs_pending, handle.processed_accepts)
        /\ A # {} => Has("CLOSING")
  <2>1. CASE "CLOSING" \in handle.flags /\ handle.reqs_pending = 1
    <3>1. Becomes(handle.flags \cup {"ENDGAME_QUEUED"}, handle.reqs_pending - 1,
                  handle.write_reqs_pending, handle.processed_accepts)
      BY <1>2, <2>1, HandleFacts, DecreaseOps DEF Becomes
    <3> QED
      BY <2>1, <3>1 DEF Has
  <2>2. CASE ~("CLOSING" \in handle.flags /\ handle.reqs_pending = 1)
    <3>1. Becomes(handle.flags \cup {}, handle.reqs_pending - 1,
                  handle.write_reqs_pending, handle.processed_accepts)
      BY <1>2, <2>2, HandleFacts, DecreaseOps DEF Becomes
    <3> QED
      BY <3>1
  <2> QED
    BY <2>1, <2>2
<1>4. at' \notin Callback /\ at' # "reading"
  BY DEF Callback
<1>5. TypeOK'
  BY <1>3, HandleFacts, QueueTypes, TypesBefore, TypeAgain DEF Becomes
<1>6. CountInv'
  <2>1. InProcess' = 0 /\ Writing = 0 /\ Writing' = 0
    BY <1>4 DEF InProcess, Writing
  <2> QED
    BY <1>1, <1>2, <1>3, <2>1, CountFacts DEF CountInv, Has, Becomes
<1>7. HeldInv' /\ FlagsInv'
  BY <1>1, <1>3 DEF WinInv, HeldInv, FlagsInv, Has, Becomes
<1>8. ShutInv' /\ ControlInv' /\ ReadInv'
  BY <1>1, <1>3, <1>4
  DEF WinInv, ShutInv, FlagsInv, ControlInv, ReadInv, Has, May, Callback, Becomes
<1>9. AcceptInv'
  <2>1. \A f \in {"ACCEPT_STATE_CHANGING", "SINGLE_ACCEPT", "LISTENING"} :
          f \in handle'.flags <=> f \in handle.flags
    BY <1>3 DEF Becomes
  <2> QED
    BY <1>1, <1>3, <2>1, HandleFacts, AcceptKept DEF WinInv, Has, Becomes
<1> QED
  BY <1>1, <1>5, <1>6, <1>7, <1>8, <1>9 DEF WinInv

(* The loop that receives.                                                 *)
LEMMA ReceiveKeeps ==
  ASSUME WinInv, Receive \/ Stopped
  PROVE  WinInv'
<1>1. CASE Stopped
  <2>1. at = "reading" /\ InProcess = 1 /\ resume = "none"
    BY <1>1 DEF Stopped, InProcess, WinInv, ControlInv, Callback
  <2> QED
    BY <1>1, <2>1, Finished DEF Stopped, queues
<1>2. CASE Receive
  <2>1. /\ Held' = Held /\ InOnePlace' /\ UNCHANGED <<pending_reqs, kernel, iocp, failed>>
        /\ UNCHANGED <<status, accept, world>> /\ at = "reading" /\ at' = "read_cb"
        /\ resume' \in {"reading", "posting"}
        /\ Active' = Active /\ ShutDue' = ShutDue
    BY <1>2, QueuesKept DEF Receive, queues, WinInv, Active, ShutDue, Call
  <2>2. PICK R \in {{}, {"READING"}}, A \in {{}, {"EOF"}} :
          Becomes((handle.flags \ R) \cup A, handle.reqs_pending,
                  handle.write_reqs_pending, handle.processed_accepts)
    <3>1. CASE UNCHANGED handle
      <4>1. Becomes((handle.flags \ {}) \cup {}, handle.reqs_pending,
                  handle.write_reqs_pending, handle.processed_accepts)
        BY <3>1, HandleFacts DEF Becomes
      <4> QED
        BY <4>1
    <3>2. CASE \E eof \in {{}, {"EOF"}} : handle' = With(Without(handle, {"READING"}), eof)
      <4> DEFINE g == Without(handle, {"READING"})
      <4>1. PICK eof \in {{}, {"EOF"}} : handle' = With(g, eof)
        BY <3>2
      <4>2. {"READING"} \in SUBSET Flags /\ eof \in SUBSET Flags
        BY DEF Flags
      <4>3. /\ g \in Handles /\ g.flags = handle.flags \ {"READING"}
            /\ g.reqs_pending = handle.reqs_pending
            /\ g.write_reqs_pending = handle.write_reqs_pending
            /\ g.processed_accepts = handle.processed_accepts
        BY <4>2, HandleFacts, HandleOps
      <4> HIDE DEF g
      <4>4. Becomes((handle.flags \ {"READING"}) \cup eof, handle.reqs_pending,
                  handle.write_reqs_pending, handle.processed_accepts)
        BY <4>1, <4>2, <4>3, HandleOps DEF Becomes
      <4> QED
        BY <4>4
    <3> QED
      BY <1>2, <3>1, <3>2 DEF Receive
  <2>3. TypeOK'
    BY <2>1, <2>2, HandleFacts, QueueTypes, TypesBefore, TypeAgain DEF Becomes, Callback
  <2>4. CountInv'
    BY <2>1, <2>2, HandleFacts
    DEF WinInv, CountInv, Has, Writing, InProcess, Becomes, Callback
  <2>5. HeldInv' /\ FlagsInv'
    BY <2>1, <2>2 DEF WinInv, HeldInv, FlagsInv, Has, Becomes
  <2>6. ShutInv' /\ ControlInv' /\ ReadInv'
    BY <2>1, <2>2
    DEF WinInv, ShutInv, ControlInv, ReadInv, Has, May, Becomes, Callback, Then
  <2>7. AcceptInv'
    BY <2>1, <2>2, HandleFacts, AcceptKept DEF WinInv, Has, Becomes
  <2> QED
    BY <2>1, <2>3, <2>4, <2>5, <2>6, <2>7 DEF WinInv
<1> QED
  BY <1>1, <1>2

(* uv_process_tcp_accept_req up to the callback.                           *)
LEMMA AcceptReqKeeps ==
  ASSUME WinInv, NEW r \in AReqs, AcceptReq(r)
  PROVE  WinInv'
<1>1. /\ UNCHANGED <<status, failed, world>> /\ at = "reqs" /\ at \notin Callback
      /\ resume = "none"
  BY DEF AcceptReq, Processes, Callback, WinInv, ControlInv
<1>2. /\ r \in Held /\ Held' = Held \ {r} /\ InOnePlace'
      /\ pending_reqs' \in Seq(Reqs) /\ kernel' \in Seq(Reqs) /\ iocp' \in Seq(Reqs)
  BY Taken DEF AcceptReq, WinInv
<1>3. Cardinality(Held') = Cardinality(Held) - 1 /\ Cardinality(Held) > 0
  BY <1>2, HeldCounts DEF WinInv
<1>4. /\ handle.reqs_pending > 0 /\ handle.reqs_pending \in Nat /\ ~Has("CLOSED")
      /\ Has("BOUND")
  <2>1. handle.reqs_pending > 0 /\ handle.reqs_pending \in Nat
    BY <1>3, CountFacts
  <2> QED
    BY <1>2, <2>1, CountFacts DEF WinInv, FlagsInv
<1>5. Active' = Active /\ ShutDue' = ShutDue
  BY <1>1 DEF Active, ShutDue
<1>6. \E R \in {{}, {"LISTENING"}}, A \in {{}, {"ENDGAME_QUEUED"}}, n \in {0, 1} :
        /\ Becomes((handle.flags \ R) \cup A, handle.reqs_pending - n,
                   handle.write_reqs_pending, handle.processed_accepts)
        /\ A # {} => Has("CLOSING")
        /\ n = 0 => at' = "connection_cb" /\ resume' = "processed"
        /\ n = 1 => at' = "reqs" /\ resume' = "none"
  <2>1. CASE handle' \in {handle, Without(handle, {"LISTENING"})}
             /\ at' = "connection_cb" /\ resume' = "processed"
    <3>1. {"LISTENING"} \in SUBSET Flags
      BY DEF Flags
    <3>2. PICK R \in {{}, {"LISTENING"}} :
            handle' \in Handles /\ handle'.flags = handle.flags \ R
            /\ handle'.reqs_pending = handle.reqs_pending
            /\ handle'.write_reqs_pending = handle.write_reqs_pending
            /\ handle'.processed_accepts = handle.processed_accepts
      <4>1. CASE handle' = handle
        <5>1. handle'.flags = handle.flags \ {}
          BY <4>1
        <5> QED
          BY <4>1, <5>1, HandleFacts
      <4>2. CASE handle' = Without(handle, {"LISTENING"})
        BY <3>1, <4>2, HandleFacts, HandleOps
      <4> QED
        BY <2>1, <4>1, <4>2
    <3>3. handle.reqs_pending = handle.reqs_pending - 0 /\ handle.flags \ R = (handle.flags \ R) \cup {}
      BY <1>4
    <3>4. Becomes((handle.flags \ R) \cup {}, handle.reqs_pending - 0,
                   handle.write_reqs_pending, handle.processed_accepts)
      BY <3>2, <3>3 DEF Becomes
    <3> QED
      BY <2>1, <3>4
  <2>2. CASE handle' = Decrease(handle) /\ at' = "reqs" /\ resume' = "none"
    <3>1. CASE "CLOSING" \in handle.flags /\ handle.reqs_pending = 1
      <4>1. Becomes((handle.flags \ {}) \cup {"ENDGAME_QUEUED"}, handle.reqs_pending - 1,
                    handle.write_reqs_pending, handle.processed_accepts)
        BY <1>4, <2>2, <3>1, HandleFacts, DecreaseOps DEF Becomes
      <4> QED
        BY <2>2, <3>1, <4>1 DEF Has
    <3>2. CASE ~("CLOSING" \in handle.flags /\ handle.reqs_pending = 1)
      <4>1. Becomes((handle.flags \ {}) \cup {}, handle.reqs_pending - 1,
                    handle.write_reqs_pending, handle.processed_accepts)
        BY <1>4, <2>2, <3>2, HandleFacts, DecreaseOps DEF Becomes
      <4> QED
        BY <2>2, <4>1
    <3> QED
      BY <3>1, <3>2
  <2> QED
    BY <1>1, <2>1, <2>2 DEF AcceptReq, Call
<1>7. PICK R \in {{}, {"LISTENING"}}, A \in {{}, {"ENDGAME_QUEUED"}}, n \in {0, 1} :
        /\ Becomes((handle.flags \ R) \cup A, handle.reqs_pending - n,
                   handle.write_reqs_pending, handle.processed_accepts)
        /\ A # {} => Has("CLOSING")
        /\ n = 0 => at' = "connection_cb" /\ resume' = "processed"
        /\ n = 1 => at' = "reqs" /\ resume' = "none"
  BY <1>6
<1>8. accept \in [sockets : SUBSET AReqs, pending : Seq(AReqs)]
  BY TypesBefore DEF WinInv
<1>9. \/ r \notin accept.sockets /\ UNCHANGED accept /\ ~Has("LISTENING")'
      \/ r \in accept.sockets /\ accept' = [accept EXCEPT !.pending = <<r>> \o @]
      \/ accept' = [accept EXCEPT !.sockets = @ \ {r}] /\ ~Has("LISTENING")'
  <2>1. CASE r \notin accept.sockets /\ Has("LISTENING") /\ UNCHANGED accept
             /\ handle' = Without(handle, {"LISTENING"})
    <3>1. {"LISTENING"} \in SUBSET Flags
      BY DEF Flags
    <3>2. handle'.flags = handle.flags \ {"LISTENING"}
      BY <2>1, <3>1, HandleFacts, HandleOps
    <3> QED
      BY <2>1, <3>2 DEF Has
  <2>2. CASE ~Has("LISTENING")
    <3>1. ~Has("LISTENING")'
      BY <1>7, <2>2 DEF Has, Becomes
    <3> QED
      BY <2>2, <3>1 DEF AcceptReq
  <2> QED
    BY <2>1, <2>2 DEF AcceptReq
<1>10. accept' \in [sockets : SUBSET AReqs, pending : Seq(AReqs)] /\ AcceptInv'
  <2>1. CASE r \notin accept.sockets /\ UNCHANGED accept /\ ~Has("LISTENING")'
    <3>1. accept.sockets \subseteq ToSet(accept.pending) \cup Held'
      BY <1>2, <2>1 DEF WinInv, AcceptInv
    <3>2. \A f \in {"ACCEPT_STATE_CHANGING", "SINGLE_ACCEPT"} :
            f \in handle'.flags <=> f \in handle.flags
      BY <1>7 DEF Becomes
    <3> QED
      BY <1>2, <1>7, <1>8, <2>1, <3>1, <3>2 DEF WinInv, AcceptInv, Has, Becomes
  <2>2. CASE r \in accept.sockets /\ accept' = [accept EXCEPT !.pending = <<r>> \o @]
    <3> DEFINE p == <<r>>
               q == accept.pending
    <3>1. p \in Seq(AReqs) /\ q \in Seq(AReqs) /\ ToSet(p) = {r} /\ IsInjective(p)
      BY <1>8 DEF ToSet, IsInjective
    <3>2. accept'.sockets = accept.sockets /\ accept'.pending = p \o q
          /\ accept' \in [sockets : SUBSET AReqs, pending : Seq(AReqs)] <=> p \o q \in Seq(AReqs)
      BY <1>8, <2>2
    <3>3. r \notin ToSet(q) /\ IsInjective(q)
      BY <1>2 DEF WinInv, AcceptInv
    <3> HIDE DEF p, q
    <3>4. /\ p \o q \in Seq(AReqs) /\ IsInjective(p \o q)
          /\ ToSet(p \o q) = {r} \cup ToSet(q)
      BY <3>1, <3>3, ConcatOnce
    <3>5. accept' \in [sockets : SUBSET AReqs, pending : Seq(AReqs)]
      BY <3>2, <3>4
    <3>6. /\ IsInjective(accept'.pending) /\ ToSet(accept'.pending) \cap Held' = {}
          /\ ToSet(accept'.pending) \subseteq accept'.sockets
          /\ accept'.sockets \subseteq ToSet(accept'.pending) \cup Held'
      BY <1>2, <2>2, <3>2, <3>4 DEF WinInv, AcceptInv, q
    <3>7. Live' = Live
      BY <1>2, <3>2, <3>4 DEF Live, q
    <3>8. /\ \A f \in {"ACCEPT_STATE_CHANGING", "SINGLE_ACCEPT"} :
              f \in handle'.flags <=> f \in handle.flags
          /\ "LISTENING" \in handle'.flags => "LISTENING" \in handle.flags
          /\ handle'.processed_accepts = handle.processed_accepts
      BY <1>7 DEF Becomes
    <3> QED
      BY <3>5, <3>6, <3>7, <3>8 DEF WinInv, AcceptInv, Has
  <2>3. CASE accept' = [accept EXCEPT !.sockets = @ \ {r}] /\ ~Has("LISTENING")'
    <3>1. /\ accept' \in [sockets : SUBSET AReqs, pending : Seq(AReqs)]
          /\ accept'.sockets = accept.sockets \ {r} /\ accept'.pending = accept.pending
      BY <1>8, <2>3
    <3>2. /\ IsInjective(accept'.pending) /\ ToSet(accept'.pending) \cap Held' = {}
          /\ ToSet(accept'.pending) \subseteq accept'.sockets
          /\ accept'.sockets \subseteq ToSet(accept'.pending) \cup Held'
      BY <1>2, <3>1 DEF WinInv, AcceptInv
    <3>3. /\ \A f \in {"ACCEPT_STATE_CHANGING", "SINGLE_ACCEPT"} :
              f \in handle'.flags <=> f \in handle.flags
          /\ handle'.processed_accepts = handle.processed_accepts
      BY <1>7 DEF Becomes
    <3> QED
      BY <2>3, <3>1, <3>2, <3>3 DEF WinInv, AcceptInv, Has
  <2> QED
    BY <1>9, <2>1, <2>2, <2>3
<1>11. TypeOK'
  <2>1. resume' \in {"none", "processed"} /\ at' \in {"connection_cb", "reqs"} /\ handle' \in Handles
    BY <1>7 DEF Becomes
  <2> QED
    BY <1>1, <1>2, <1>10, <2>1, HandleFacts, TypesBefore, TypeAgain DEF Callback
<1>12. CountInv'
  <2>1. InProcess = 0 /\ InProcess' = 1 - n /\ Writing = 0 /\ Writing' = 0
    BY <1>1, <1>7 DEF InProcess, Writing, Callback
  <2> QED
    BY <1>3, <1>4, <1>5, <1>7, <2>1, CountFacts DEF CountInv, Has, Becomes
<1>13. HeldInv' /\ FlagsInv'
  BY <1>1, <1>2, <1>4, <1>7, Distinct DEF WinInv, HeldInv, FlagsInv, Has, Becomes
<1>14. ShutInv' /\ ControlInv'
  BY <1>1, <1>5, <1>7
  DEF WinInv, ShutInv, FlagsInv, ControlInv, Has, Callback, Then, Becomes
<1>15. ReadInv'
  BY <1>1, <1>2, <1>7, Distinct DEF WinInv, ReadInv, Has, May, Becomes
<1> QED
  BY <1>2, <1>10, <1>11, <1>12, <1>13, <1>14, <1>15 DEF WinInv

(* An accept request is used again.                                        *)
LEMMA AcceptAgainKeeps ==
  ASSUME WinInv, NEW r \in AReqs, AcceptAgain(r)
  PROVE  WinInv'
<1>1. /\ r \in Held /\ Held' = Held /\ InOnePlace' /\ failed' \subseteq Reqs
      /\ pending_reqs' \in Seq(Reqs) /\ kernel' \in Seq(Reqs) /\ iocp' \in Seq(Reqs)
  BY UsedAgain DEF WinInv
<1>2. UNCHANGED <<handle, status, at, resume, world>>
  BY DEF AcceptAgain, ctl
<1>3. Active' = Active /\ ShutDue' = ShutDue /\ InProcess' = InProcess
  BY <1>2 DEF Active, ShutDue, InProcess
<1>4. accept \in [sockets : SUBSET AReqs, pending : Seq(AReqs)]
  BY TypesBefore DEF WinInv
<1>5. PICK R \in {{}, {r}} : /\ accept' \in [sockets : SUBSET AReqs, pending : Seq(AReqs)]
                            /\ accept'.sockets = accept.sockets \ R
                            /\ accept'.pending = accept.pending
  <2>1. CASE UNCHANGED accept
    <3>1. accept'.sockets = accept.sockets \ {}
      BY <2>1
    <3> QED
      BY <1>4, <2>1, <3>1
  <2>2. CASE accept' = [accept EXCEPT !.sockets = @ \ {r}]
    BY <1>4, <2>2
  <2> QED
    BY <2>1, <2>2 DEF AcceptAgain
<1>6. AcceptInv'
  <2>1. /\ ToSet(accept'.pending) \subseteq accept'.sockets
        /\ accept'.sockets \subseteq ToSet(accept'.pending) \cup Held'
    BY <1>1, <1>5 DEF WinInv, AcceptInv
  <2>2. Live' = Live
    BY <1>1, <1>5 DEF Live
  <2> QED
    BY <1>1, <1>2, <1>5, <2>1, <2>2 DEF WinInv, AcceptInv, Has
<1>7. TypeOK'
  BY <1>1, <1>2, <1>5, HandleFacts, TypesBefore, TypeAgain
<1>8. CountInv' /\ HeldInv'
  BY <1>1, <1>2, <1>3 DEF WinInv, CountInv, HeldInv, Has, Writing
<1>9. FlagsInv'
  <2>1. Has("BOUND")
    BY <1>1 DEF WinInv, FlagsInv
  <2> QED
    BY <1>1, <1>2, <2>1 DEF WinInv, FlagsInv, Has
<1>10. ShutInv' /\ ControlInv' /\ ReadInv'
  BY <1>1, <1>2, <1>3 DEF WinInv, ShutInv, ControlInv, ReadInv, Has, May
<1> QED
  BY <1>1, <1>6, <1>7, <1>8, <1>9, <1>10 DEF WinInv

(* uv_tcp_queue_read adds read_req, which must not be held already.        *)
LEMMA ReadQueued ==
  ASSUME TypeOK, InOnePlace, NEW h \in Handles, ReadReq \notin Held, QueueRead(h)
  PROVE  /\ pending_reqs' \in Seq(Reqs) /\ kernel' \in Seq(Reqs) /\ iocp' \in Seq(Reqs)
         /\ failed' \subseteq Reqs /\ InOnePlace' /\ Held' = Held \cup {ReadReq}
         /\ Cardinality(Held') = Cardinality(Held) + 1
         /\ \E P \in {{}, {"READ_PENDING"}} :
              /\ Becomes(h.flags \cup P, h.reqs_pending + 1, h.write_reqs_pending,
                         h.processed_accepts)
              /\ P = {} => May("recv_fails")
<1>1. ReadReq \in Reqs
  BY DEF Reqs
<1>2. AtOnce(ReadReq) \/ ByKernel(ReadReq) \/ Failing(ReadReq)
  BY DEF QueueRead
<1>3. /\ pending_reqs' \in Seq(Reqs) /\ kernel' \in Seq(Reqs) /\ iocp' \in Seq(Reqs)
      /\ failed' \subseteq Reqs /\ InOnePlace' /\ Held' = Held \cup {ReadReq}
  BY <1>1, <1>2, Added
<1>4. Cardinality(Held') = Cardinality(Held) + 1
  BY <1>1, <1>3, HeldCounts
<1>5. CASE handle' = More(With(h, {"READ_PENDING"}))
  <2> DEFINE g == With(h, {"READ_PENDING"})
  <2>1. {"READ_PENDING"} \in SUBSET Flags
    BY DEF Flags
  <2>2. /\ g \in Handles /\ g.flags = h.flags \cup {"READ_PENDING"}
        /\ g.reqs_pending = h.reqs_pending /\ g.write_reqs_pending = h.write_reqs_pending
        /\ g.processed_accepts = h.processed_accepts
    BY <2>1, HandleOps
  <2>3. handle' = More(g)
    BY <1>5
  <2> HIDE DEF g
  <2>4. Becomes(h.flags \cup {"READ_PENDING"}, h.reqs_pending + 1, h.write_reqs_pending,
                h.processed_accepts)
    BY <2>2, <2>3, HandleOps DEF Becomes
  <2> QED
    BY <1>3, <1>4, <2>4
<1>6. CASE handle' = More(h) /\ May("recv_fails")
  <2>1. Becomes(h.flags \cup {}, h.reqs_pending + 1, h.write_reqs_pending, h.processed_accepts)
    BY <1>6, HandleOps DEF Becomes
  <2> QED
    BY <1>3, <1>4, <1>6, <2>1
<1> QED
  BY <1>5, <1>6 DEF QueueRead

(* After the last receive another read is posted.                          *)
LEMMA PostKeeps ==
  ASSUME WinInv, at = "read_cb", resume' = "none", at' = "reqs",
         Has("READING"), ~Has("READ_PENDING"), QueueRead(Decrease(handle)),
         UNCHANGED <<status, accept, world>>
  PROVE  WinInv'
<1> DEFINE d == Decrease(handle)
<1>1. /\ InProcess = 1 /\ at # "write_cb" /\ at \in Callback
      /\ InProcess' = 0 /\ at' \notin Callback
  BY DEF InProcess, Callback
<1>2. handle.reqs_pending > 0 /\ handle.reqs_pending \in Nat /\ ~Has("CLOSED") /\ ~Has("CLOSING")
      /\ ReadReq \notin Held /\ Has("CONNECTION") /\ Has("BOUND")
  <2>1. handle.reqs_pending > 0 /\ handle.reqs_pending \in Nat
    BY <1>1, CountFacts
  <2>2. ~Has("CLOSING") /\ ReadReq \notin Held
    BY DEF WinInv, FlagsInv, ReadInv, Has
  <2> QED
    BY <2>1, <2>2, CountFacts DEF WinInv, ControlInv, FlagsInv, Has
<1>3. /\ d \in Handles /\ d.flags = handle.flags
      /\ d.reqs_pending = handle.reqs_pending - 1
      /\ d.write_reqs_pending = handle.write_reqs_pending
      /\ d.processed_accepts = handle.processed_accepts
  <2>1. (IF "CLOSING" \in handle.flags /\ handle.reqs_pending = 1 THEN {"ENDGAME_QUEUED"} ELSE {}) = {}
    BY <1>2 DEF Has
  <2> QED
    BY <1>2, <2>1, HandleFacts, DecreaseOps
<1> HIDE DEF d
<1>4. /\ pending_reqs' \in Seq(Reqs) /\ kernel' \in Seq(Reqs) /\ iocp' \in Seq(Reqs)
      /\ failed' \subseteq Reqs /\ InOnePlace' /\ Held' = Held \cup {ReadReq}
      /\ Cardinality(Held') = Cardinality(Held) + 1
      /\ \E P \in {{}, {"READ_PENDING"}} :
           /\ Becomes(d.flags \cup P, d.reqs_pending + 1, d.write_reqs_pending,
                      d.processed_accepts)
           /\ P = {} => May("recv_fails")
  BY <1>2, <1>3, HandleFacts, ReadQueued DEF d
<1>5. PICK P \in {{}, {"READ_PENDING"}} :
        /\ Becomes(d.flags \cup P, d.reqs_pending + 1, d.write_reqs_pending,
                   d.processed_accepts)
        /\ P = {} => May("recv_fails")
  BY <1>4
<1>6. Becomes(handle.flags \cup P, handle.reqs_pending, handle.write_reqs_pending,
              handle.processed_accepts)
  <2>1. d.reqs_pending + 1 = handle.reqs_pending
    BY <1>2, <1>3
  <2> QED
    BY <1>3, <1>5, <2>1 DEF Becomes
<1>7. Active' = Active /\ ShutDue' = ShutDue /\ Writing = 0 /\ Writing' = 0
  BY DEF Active, ShutDue, Writing
<1>8. TypeOK'
  BY <1>4, <1>6, HandleFacts, TypesBefore, TypeAgain DEF Becomes
<1>9. CountInv'
  BY <1>1, <1>2, <1>4, <1>6, <1>7, CountFacts DEF CountInv, Has, Becomes
<1>10. HeldInv' /\ FlagsInv'
  BY <1>2, <1>4, <1>6, Distinct DEF WinInv, HeldInv, FlagsInv, Has, Becomes
<1>11. ShutInv' /\ ControlInv'
  BY <1>1, <1>6, <1>7 DEF WinInv, ShutInv, ControlInv, Has, Becomes
<1>12. ReadInv'
  BY <1>2, <1>4, <1>5, <1>6 DEF WinInv, ReadInv, Has, May, Becomes
<1>13. AcceptInv'
  BY <1>4, <1>6, Distinct, HandleFacts, AcceptKept DEF WinInv, Has, Becomes
<1> QED
  BY <1>4, <1>8, <1>9, <1>10, <1>11, <1>12, <1>13 DEF WinInv

(* A write is over: its count goes, and perhaps a shutdown is woken.       *)
LEMMA WrittenKeeps ==
  ASSUME WinInv, at = "write_cb", resume' = "none", at' = "reqs",
         handle' = Decrease(Written), UNCHANGED <<queues, status, accept, world>>
  PROVE  WinInv'
<1> DEFINE h == [handle EXCEPT !.write_reqs_pending = @ - 1]
<1>1. /\ InProcess = 1 /\ Writing = 1 /\ InProcess' = 0 /\ Writing' = 0
      /\ at \in Callback /\ at' \notin Callback
  BY DEF InProcess, Callback, Writing
<1>2. /\ Held' = Held /\ InOnePlace' /\ Active' = Active /\ ShutDue' = ShutDue
      /\ UNCHANGED <<pending_reqs, kernel, iocp, failed>>
  BY QueuesKept DEF WinInv, Active, ShutDue, queues
<1>3. /\ handle.reqs_pending > 0 /\ handle.reqs_pending \in Nat /\ ~Has("CLOSED")
      /\ Has("CONNECTION") /\ handle.write_reqs_pending - 1 = Cardinality(Active)
      /\ handle.write_reqs_pending - 1 \in Nat
  <2>1. Has("CONNECTION")
    BY DEF WinInv, ControlInv
  <2>2. handle.write_reqs_pending = Cardinality(Active) + 1 /\ Cardinality(Active) \in Nat
    BY <1>1, <2>1, CountFacts
  <2>3. handle.reqs_pending > 0 /\ handle.reqs_pending \in Nat
    BY <1>1, CountFacts
  <2> QED
    BY <2>1, <2>2, <2>3, CountFacts
<1>4. /\ h \in Handles /\ h.flags = handle.flags /\ h.reqs_pending = handle.reqs_pending
      /\ h.write_reqs_pending = handle.write_reqs_pending - 1
      /\ h.processed_accepts = handle.processed_accepts
  BY <1>3, HandleFacts DEF Handles
<1>5. \/ Written = h
      \/ Written = With(h, {"ENDGAME_QUEUED"}) /\ "SHUTTING" \in h.flags
  BY DEF Written
<1> HIDE DEF h
<1>6. PICK A \in {{}, {"ENDGAME_QUEUED"}} :
        /\ Written \in Handles /\ Written.flags = handle.flags \cup A
        /\ Written.reqs_pending = handle.reqs_pending
        /\ Written.write_reqs_pending = handle.write_reqs_pending - 1
        /\ Written.processed_accepts = handle.processed_accepts
        /\ A # {} => Has("SHUTTING")
  <2>1. CASE Written = h
    <3>1. h.flags = handle.flags \cup {}
      BY <1>4
    <3> QED
      BY <1>4, <2>1, <3>1
  <2>2. CASE Written = With(h, {"ENDGAME_QUEUED"}) /\ "SHUTTING" \in h.flags
    <3>1. {"ENDGAME_QUEUED"} \in SUBSET Flags
      BY DEF Flags
    <3> QED
      BY <1>4, <2>2, <3>1, HandleOps DEF Has
  <2> QED
    BY <1>5, <2>1, <2>2
<1> DEFINE w == Written
<1> HIDE DEF w
<1>7. PICK B \in {{}, {"ENDGAME_QUEUED"}} :
        /\ Becomes(w.flags \cup B, w.reqs_pending - 1, w.write_reqs_pending, w.processed_accepts)
        /\ B # {} => Has("CLOSING")
  <2>1. handle' = Decrease(w) /\ w \in Handles /\ w.reqs_pending > 0
    BY <1>3, <1>6 DEF w
  <2>2. CASE "CLOSING" \in w.flags /\ w.reqs_pending = 1
    <3>1. Becomes(w.flags \cup {"ENDGAME_QUEUED"}, w.reqs_pending - 1, w.write_reqs_pending,
                  w.processed_accepts)
      BY <2>1, <2>2, DecreaseOps DEF Becomes
    <3>2. Has("CLOSING")
      BY <1>6, <2>2 DEF Has, w
    <3> QED
      BY <3>1, <3>2
  <2>3. CASE ~("CLOSING" \in w.flags /\ w.reqs_pending = 1)
    <3>1. Becomes(w.flags \cup {}, w.reqs_pending - 1, w.write_reqs_pending, w.processed_accepts)
      BY <2>1, <2>3, DecreaseOps DEF Becomes
    <3> QED
      BY <3>1
  <2> QED
    BY <2>2, <2>3
<1>8. PICK C \in {{}, {"ENDGAME_QUEUED"}} :
        /\ Becomes(handle.flags \cup C, handle.reqs_pending - 1, handle.write_reqs_pending - 1,
                   handle.processed_accepts)
        /\ C # {} => Has("SHUTTING") \/ Has("CLOSING")
  <2>1. A \cup B \in {{}, {"ENDGAME_QUEUED"}}
    OBVIOUS
  <2>2. w.flags \cup B = handle.flags \cup (A \cup B)
    BY <1>6 DEF w
  <2>3. Becomes(handle.flags \cup (A \cup B), handle.reqs_pending - 1,
                handle.write_reqs_pending - 1, handle.processed_accepts)
    BY <1>6, <1>7, <2>2 DEF Becomes, w
  <2>4. A \cup B # {} => Has("SHUTTING") \/ Has("CLOSING")
    BY <1>6, <1>7
  <2> QED
    BY <2>1, <2>3, <2>4
<1>9. TypeOK'
  BY <1>2, <1>8, HandleFacts, QueueTypes, TypesBefore, TypeAgain DEF Becomes
<1>10. CountInv'
  BY <1>1, <1>2, <1>3, <1>8, CountFacts DEF CountInv, Has, Becomes
<1>11. HeldInv' /\ FlagsInv'
  BY <1>2, <1>8 DEF WinInv, HeldInv, FlagsInv, Has, Becomes
<1>12. ShutInv'
  <2>1. status[ShutReq] \notin {"ok", "error"}
    BY DEF WinInv, ShutInv
  <2>2. Has("SHUTTING") => status[ShutReq] = "active"
    BY <2>1, TypesBefore DEF WinInv, FlagsInv, UserReqs
  <2> QED
    BY <1>2, <1>8, <2>1, <2>2 DEF WinInv, ShutInv, FlagsInv, Has, Becomes
<1>13. ControlInv' /\ ReadInv'
  BY <1>1, <1>2, <1>8 DEF WinInv, ControlInv, ReadInv, Has, May, Becomes
<1>14. AcceptInv'
  BY <1>2, <1>8, HandleFacts, AcceptKept DEF WinInv, Has, Becomes
<1> QED
  BY <1>2, <1>9, <1>10, <1>11, <1>12, <1>13, <1>14 DEF WinInv

(* A callback returns.                                                     *)
LEMMA ReturnKeeps ==
  ASSUME WinInv, Return
  PROVE  WinInv'
<1>1. /\ at \in Callback /\ resume' = "none" /\ UNCHANGED <<status, accept, world>>
      /\ resume \in Then(at)
  BY DEF Return, WinInv, ControlInv
<1>2. CASE \/ resume = "reading" /\ at' = "reading" /\ UNCHANGED <<handle, queues>>
           \/ resume = "endgames" /\ at' = "endgames" /\ UNCHANGED <<handle, queues>>
  <2>1. /\ Held' = Held /\ InOnePlace' /\ UNCHANGED <<pending_reqs, kernel, iocp, failed>>
        /\ UNCHANGED handle /\ Active' = Active /\ ShutDue' = ShutDue
    BY <1>1, <1>2, QueuesKept DEF WinInv, Active, ShutDue, queues
  <2>2. \/ at = "read_cb" /\ at' = "reading"
        \/ at = "close_cb" /\ at' = "endgames"
    BY <1>1, <1>2 DEF Then
  <2>3. InProcess' = InProcess /\ Writing' = Writing /\ at' \notin Callback
    BY <2>2 DEF InProcess, Writing, Callback
  <2>4. TypeOK'
    BY <1>1, <2>1, <2>2, HandleFacts, QueueTypes, TypesBefore, TypeAgain
  <2>5. CountInv' /\ HeldInv' /\ FlagsInv'
    BY <1>1, <2>1, <2>3 DEF WinInv, CountInv, HeldInv, FlagsInv, Has
  <2>6. ShutInv' /\ ControlInv' /\ ReadInv'
    BY <1>1, <2>1, <2>2, <2>3 DEF WinInv, ShutInv, ControlInv, ReadInv, Has, May
  <2>7. AcceptInv'
    BY <1>1, <2>1, HandleFacts, AcceptKept DEF WinInv, Has
  <2> QED
    BY <2>1, <2>4, <2>5, <2>6, <2>7 DEF WinInv
<1>3. CASE resume = "posting" /\ Post /\ at' = "reqs"
  <2>1. at = "read_cb"
    BY <1>1, <1>3 DEF Then
  <2>2. CASE Has("READING") /\ ~Has("READ_PENDING") /\ QueueRead(Decrease(handle))
    BY <1>1, <1>3, <2>1, <2>2, PostKeeps
  <2>3. CASE handle' = Decrease(handle) /\ UNCHANGED queues
    <3>1. InProcess = 1
      BY <2>1 DEF InProcess, Callback
    <3> QED
      BY <1>1, <1>3, <2>1, <2>3, <3>1, Finished DEF queues
  <2> QED
    BY <1>3, <2>2, <2>3 DEF Post
<1>4. CASE \/ resume = "processed" /\ handle' = Decrease(handle) /\ at' = "reqs" /\ UNCHANGED queues
           \/ resume = "shut" /\ handle' = Decrease(handle) /\ at' = "endgames" /\ UNCHANGED queues
  <2>1. at \in {"read_cb", "connect_cb", "connection_cb", "shutdown_cb"}
    BY <1>1, <1>4 DEF Then
  <2>2. InProcess = 1 /\ at # "write_cb"
    BY <2>1 DEF InProcess, Callback
  <2> QED
    BY <1>1, <1>4, <2>2, Finished DEF queues
<1>5. CASE resume = "written" /\ handle' = Decrease(Written) /\ at' = "reqs" /\ UNCHANGED queues
  <2>1. at = "write_cb"
    BY <1>1, <1>5 DEF Then
  <2> QED
    BY <1>1, <1>5, <2>1, WrittenKeeps
<1> QED
  BY <1>2, <1>3, <1>4, <1>5 DEF Return

(* uv_tcp_connect.                                                         *)
LEMMA ConnectKeeps ==
  ASSUME WinInv, uv_tcp_connect
  PROVE  WinInv'
<1> DEFINE h == With(handle, {"BOUND"})
<1>1. /\ UNCHANGED <<accept, at, resume, world>> /\ ~Has("CLOSING") /\ ~Has("BOUND") /\ at # "reading"
      /\ handle' = More(h) /\ Answer(ConnReq, "active")
      /\ AtOnce(ConnReq) \/ ByKernel(ConnReq) \/ Failing(ConnReq)
  BY DEF uv_tcp_connect, UserMayCall, ctl, Callback, Has
<1>2. /\ {"LISTENING", "CONNECTION", "ACCEPT_STATE_CHANGING"} \cap handle.flags = {}
      /\ status[ConnReq] = "idle" /\ Held = {} /\ ConnReq \notin Held
      /\ ~Has("CLOSED") /\ ~Has("SHUTTING") /\ status[ShutReq] = "idle"
      /\ \A r \in WReqs : status[r] = "idle"
  <2>1. \A r \in UserReqs : status[r] \in {"idle", "active", "ok", "error"}
    BY TypesBefore DEF WinInv
  <2> QED
    BY <1>1, <2>1 DEF WinInv, FlagsInv, HeldInv, Has, UserReqs
<1>3. /\ pending_reqs' \in Seq(Reqs) /\ kernel' \in Seq(Reqs) /\ iocp' \in Seq(Reqs)
      /\ failed' \subseteq Reqs /\ InOnePlace' /\ Held' = Held \cup {ConnReq}
      /\ Cardinality(Held') = Cardinality(Held) + 1
  <2>1. ConnReq \in Reqs
    BY DEF Reqs
  <2> QED
    BY <1>1, <1>2, <2>1, Added, HeldCounts DEF WinInv
<1>4. /\ status' \in [UserReqs -> {"idle", "active", "ok", "error"}]
      /\ status'[ConnReq] = "active" /\ \A q \in UserReqs : q # ConnReq => status'[q] = status[q]
  BY <1>1, AnswerFacts DEF UserReqs, WinInv
<1>5. /\ h \in Handles /\ h.flags = handle.flags \cup {"BOUND"}
      /\ h.reqs_pending = handle.reqs_pending
      /\ h.write_reqs_pending = handle.write_reqs_pending
      /\ h.processed_accepts = handle.processed_accepts
  <2>1. {"BOUND"} \in SUBSET Flags
    BY DEF Flags
  <2> QED
    BY <2>1, HandleFacts, HandleOps
<1> HIDE DEF h
<1>6. Becomes(handle.flags \cup {"BOUND"}, handle.reqs_pending + 1, handle.write_reqs_pending,
              handle.processed_accepts)
  BY <1>1, <1>5, HandleOps DEF Becomes
<1>7. Active' = Active /\ ShutDue' = ShutDue /\ InProcess' = InProcess /\ Writing' = Writing
      /\ status'[ShutReq] = status[ShutReq]
  BY <1>1, <1>4, Distinct DEF Active, ShutDue, UserReqs, InProcess, Writing
<1>8. TypeOK'
  BY <1>1, <1>3, <1>4, <1>6, HandleFacts, TypesBefore, TypeAgain DEF Becomes
<1>9. CountInv'
  BY <1>2, <1>3, <1>6, <1>7, CountFacts DEF CountInv, Has, Becomes
<1>10. HeldInv' /\ FlagsInv'
  <2>1. \A r \in WReqs : status'[r] = "idle"
    BY <1>2, <1>4, Distinct DEF UserReqs
  <2> QED
    BY <1>1, <1>2, <1>3, <1>4, <1>6, <1>7, <2>1, Distinct DEF WinInv, HeldInv, FlagsInv, Has, Becomes
<1>11. ShutInv' /\ ControlInv' /\ ReadInv'
  BY <1>1, <1>2, <1>3, <1>6, <1>7, Distinct
  DEF WinInv, ShutInv, ControlInv, ReadInv, Has, May, Becomes
<1>12. AcceptInv'
  BY <1>1, <1>3, <1>6, Distinct, HandleFacts, AcceptKept DEF WinInv, Has, Becomes
<1> QED
  BY <1>3, <1>8, <1>9, <1>10, <1>11, <1>12 DEF WinInv

(* uv_tcp_write.                                                           *)
LEMMA WriteKeeps ==
  ASSUME WinInv, NEW r \in WReqs, uv_tcp_write(r)
  PROVE  WinInv'
<1>1. /\ UNCHANGED <<accept, at, resume, world>> /\ ~Has("CLOSING") /\ at # "reading"
      /\ Has("CONNECTION") /\ ~Has("SHUTTING") /\ status[r] = "idle"
      /\ handle' = [More(handle) EXCEPT !.write_reqs_pending = @ + 1] /\ Answer(r, "active")
      /\ AtOnce(r) \/ ByKernel(r) \/ Failing(r)
  BY DEF uv_tcp_write, UserMayCall, ctl, Callback
<1>2. /\ r \notin Held /\ r \notin Active /\ ~Has("CLOSED") /\ status[ShutReq] = "idle" /\ Has("BOUND")
      /\ status[ConnReq] = "ok"
  BY <1>1 DEF WinInv, FlagsInv, HeldInv, Has, Active
<1>3. /\ pending_reqs' \in Seq(Reqs) /\ kernel' \in Seq(Reqs) /\ iocp' \in Seq(Reqs)
      /\ failed' \subseteq Reqs /\ InOnePlace' /\ Held' = Held \cup {r}
      /\ Cardinality(Held') = Cardinality(Held) + 1
  <2>1. r \in Reqs
    BY DEF Reqs
  <2> QED
    BY <1>1, <1>2, <2>1, Added, HeldCounts DEF WinInv
<1>4. /\ status' \in [UserReqs -> {"idle", "active", "ok", "error"}]
      /\ status'[r] = "active" /\ \A q \in UserReqs : q # r => status'[q] = status[q]
  BY <1>1, AnswerFacts DEF UserReqs, WinInv
<1>5. Becomes(handle.flags, handle.reqs_pending + 1, handle.write_reqs_pending + 1,
              handle.processed_accepts)
  <2> DEFINE m == More(handle)
  <2>1. /\ m \in Handles /\ m.flags = handle.flags /\ m.reqs_pending = handle.reqs_pending + 1
        /\ m.write_reqs_pending = handle.write_reqs_pending
        /\ m.processed_accepts = handle.processed_accepts
    BY HandleFacts, HandleOps
  <2>2. handle' = [m EXCEPT !.write_reqs_pending = @ + 1]
    BY <1>1
  <2> HIDE DEF m
  <2> QED
    BY <2>1, <2>2 DEF Becomes, Handles
<1>6. /\ Active' = Active \cup {r} /\ ShutDue' = ShutDue /\ InProcess' = InProcess
      /\ Writing' = Writing /\ status'[ShutReq] = status[ShutReq]
      /\ status'[ConnReq] = status[ConnReq]
  BY <1>1, <1>4, Distinct DEF Active, ShutDue, UserReqs, InProcess, Writing
<1>7. Cardinality(Active') = Cardinality(Active) + 1
  BY <1>2, <1>6, ActiveCounts, SetCounts
<1>8. TypeOK'
  BY <1>1, <1>3, <1>4, <1>5, HandleFacts, TypesBefore, TypeAgain DEF Becomes
<1>9. CountInv'
  BY <1>1, <1>2, <1>3, <1>5, <1>6, <1>7, CountFacts DEF CountInv, Has, Becomes
<1>10. HeldInv' /\ FlagsInv'
  BY <1>1, <1>2, <1>3, <1>4, <1>5, <1>6, Distinct
  DEF WinInv, HeldInv, FlagsInv, Has, Becomes, UserReqs
<1>11. ShutInv' /\ ControlInv' /\ ReadInv'
  BY <1>1, <1>2, <1>3, <1>5, <1>6, Distinct
  DEF WinInv, ShutInv, ControlInv, ReadInv, Has, May, Becomes
<1>12. AcceptInv'
  BY <1>1, <1>3, <1>5, Distinct, HandleFacts, AcceptKept DEF WinInv, Has, Becomes
<1> QED
  BY <1>3, <1>8, <1>9, <1>10, <1>11, <1>12 DEF WinInv

(* uv_read_stop, and uv_read_start when read_req is out.                   *)
LEMMA ReadingKeeps ==
  ASSUME WinInv, ReadsOnce, uv_read_start \/ uv_read_stop
  PROVE  WinInv'
<1>0. ~(May("restarts") /\ May("recv_fails")) /\ UNCHANGED <<status, accept, at, resume, world>>
      /\ ~Has("CLOSING") /\ at # "reading"
  <2>1. world \in Worlds
    BY TypesBefore DEF WinInv
  <2> QED
    BY <2>1 DEF ReadsOnce, May, uv_read_start, uv_read_stop, ctl, UserMayCall, Callback
<1>1. /\ Active' = Active /\ ShutDue' = ShutDue /\ InProcess' = InProcess /\ Writing' = Writing
  BY <1>0 DEF Active, ShutDue, InProcess, Writing
<1>2. {"READING"} \in SUBSET Flags
  BY DEF Flags
<1>3. CASE \/ uv_read_stop
           \/ uv_read_start /\ Has("READ_PENDING")
  <2>1. UNCHANGED queues
    BY <1>3 DEF uv_read_start, uv_read_stop
  <2>2. Held' = Held /\ InOnePlace' /\ UNCHANGED <<pending_reqs, kernel, iocp, failed>>
    BY <2>1, QueuesKept DEF WinInv, queues
  <2>3. \E R, S \in {{}, {"READING"}} :
           /\ Becomes((handle.flags \ R) \cup S, handle.reqs_pending,
                       handle.write_reqs_pending, handle.processed_accepts)
           /\ R # {} => May("restarts") \/ at # "connect_cb"
    <3>1. CASE uv_read_stop
      <4>1. handle' = Without(handle, {"READING"}) /\ (May("restarts") \/ at # "connect_cb")
        BY <3>1 DEF uv_read_stop
      <4>2. (handle.flags \ {"READING"}) \cup {} = handle.flags \ {"READING"}
        OBVIOUS
      <4>3. Becomes((handle.flags \ {"READING"}) \cup {}, handle.reqs_pending,
                       handle.write_reqs_pending, handle.processed_accepts)
        BY <1>2, <4>1, <4>2, HandleFacts, HandleOps DEF Becomes
      <4> QED
        BY <4>1, <4>3
    <3>2. CASE uv_read_start /\ Has("READ_PENDING")
      <4>1. handle' = With(handle, {"READING"})
        BY <3>2 DEF uv_read_start
      <4>2. (handle.flags \ {}) \cup {"READING"} = handle.flags \cup {"READING"}
        OBVIOUS
      <4>3. Becomes((handle.flags \ {}) \cup {"READING"}, handle.reqs_pending,
                       handle.write_reqs_pending, handle.processed_accepts)
        BY <1>2, <4>1, <4>2, HandleFacts, HandleOps DEF Becomes
      <4> QED
        BY <4>3
    <3> QED
      BY <1>3, <3>1, <3>2
  <2>4. PICK R, S \in {{}, {"READING"}} :
           /\ Becomes((handle.flags \ R) \cup S, handle.reqs_pending,
                       handle.write_reqs_pending, handle.processed_accepts)
           /\ R # {} => May("restarts") \/ at # "connect_cb"
    BY <2>3
  <2>5. TypeOK'
    BY <1>0, <2>2, <2>4, HandleFacts, QueueTypes, TypesBefore, TypeAgain DEF Becomes
  <2>6. CountInv'
    BY <1>1, <2>2, <2>4, CountFacts DEF CountInv, Has, Becomes
  <2>7. HeldInv' /\ FlagsInv'
    BY <1>0, <2>2, <2>4 DEF WinInv, HeldInv, FlagsInv, Has, Becomes
  <2>8. ShutInv' /\ ControlInv'
    BY <1>0, <1>1, <2>4 DEF WinInv, ShutInv, ControlInv, Has, Becomes
  <2>9. ReadInv'
    BY <1>0, <2>2, <2>4 DEF WinInv, ReadInv, Has, May, Becomes
  <2>10. AcceptInv'
    BY <1>0, <2>2, <2>4, HandleFacts, AcceptKept DEF WinInv, Has, Becomes
  <2> QED
    BY <2>2, <2>5, <2>6, <2>7, <2>8, <2>9, <2>10 DEF WinInv
<1>4. CASE uv_read_start /\ ~Has("READ_PENDING")
  <2> DEFINE h == With(handle, {"READING"})
  <2>1. /\ h \in Handles /\ h.flags = handle.flags \cup {"READING"}
        /\ h.reqs_pending = handle.reqs_pending
        /\ h.write_reqs_pending = handle.write_reqs_pending
        /\ h.processed_accepts = handle.processed_accepts
    BY <1>2, HandleFacts, HandleOps
  <2>2. QueueRead(h) /\ (May("restarts") \/ at = "connect_cb") /\ Has("CONNECTION") /\ ~Has("READING")
    BY <1>4 DEF uv_read_start
  <2> HIDE DEF h
  <2>3. ReadReq \notin Held /\ ~Has("CLOSED") /\ Has("BOUND")
    BY <1>0, <1>4, <2>2 DEF WinInv, ReadInv, FlagsInv, Has
  <2>4. /\ pending_reqs' \in Seq(Reqs) /\ kernel' \in Seq(Reqs) /\ iocp' \in Seq(Reqs)
        /\ failed' \subseteq Reqs /\ InOnePlace' /\ Held' = Held \cup {ReadReq}
        /\ Cardinality(Held') = Cardinality(Held) + 1
        /\ \E P \in {{}, {"READ_PENDING"}} :
             /\ Becomes(h.flags \cup P, h.reqs_pending + 1, h.write_reqs_pending,
                        h.processed_accepts)
             /\ P = {} => May("recv_fails")
    BY <2>1, <2>2, <2>3, HandleFacts, ReadQueued
  <2>5. PICK P \in {{}, {"READ_PENDING"}} :
          /\ Becomes(h.flags \cup P, h.reqs_pending + 1, h.write_reqs_pending,
                     h.processed_accepts)
          /\ P = {} => May("recv_fails")
    BY <2>4
  <2>6. Becomes(handle.flags \cup {"READING"} \cup P, handle.reqs_pending + 1,
                handle.write_reqs_pending, handle.processed_accepts)
    BY <2>1, <2>5 DEF Becomes
  <2>7. TypeOK'
    BY <1>0, <2>4, <2>6, HandleFacts, TypesBefore, TypeAgain DEF Becomes
  <2>8. CountInv'
    <3>1. /\ handle'.reqs_pending = handle.reqs_pending + 1
          /\ handle'.write_reqs_pending = handle.write_reqs_pending
          /\ Has("CONNECTION")' = Has("CONNECTION") /\ Has("CLOSED")' = Has("CLOSED")
      BY <2>6 DEF Has, Becomes
    <3> QED
      BY <1>1, <2>3, <2>4, <3>1, CountFacts DEF CountInv
  <2>9. HeldInv' /\ FlagsInv'
    BY <1>0, <2>3, <2>4, <2>6, Distinct DEF WinInv, HeldInv, FlagsInv, Has, Becomes
  <2>10. ShutInv' /\ ControlInv'
    BY <1>0, <1>1, <2>6 DEF WinInv, ShutInv, ControlInv, Has, Becomes
  <2>11. ReadInv'
    BY <1>0, <2>2, <2>4, <2>5, <2>6 DEF WinInv, ReadInv, Has, May, Becomes
  <2>12. AcceptInv'
    <3>1. \A f \in {"ACCEPT_STATE_CHANGING", "SINGLE_ACCEPT", "LISTENING"} :
            f \in handle'.flags <=> f \in handle.flags
      BY <2>6 DEF Becomes
    <3>2. Held' \cap AReqs = Held \cap AReqs /\ handle'.processed_accepts = handle.processed_accepts
      BY <2>4, <2>6, Distinct DEF Becomes
    <3> QED
      BY <1>0, <3>1, <3>2, HandleFacts, AcceptKept DEF WinInv, Has
  <2> QED
    BY <2>4, <2>7, <2>8, <2>9, <2>10, <2>11, <2>12 DEF WinInv
<1> QED
  BY <1>3, <1>4

(* uv_tcp_simultaneous_accepts: all accept requests are still there.       *)
LEMMA SimultaneousKeeps ==
  ASSUME WinInv, uv_tcp_simultaneous_accepts
  PROVE  WinInv'
<1>1. /\ Held' = Held /\ InOnePlace' /\ UNCHANGED <<pending_reqs, kernel, iocp, failed>>
      /\ UNCHANGED <<status, accept, at, resume, world>>
      /\ Active' = Active /\ ShutDue' = ShutDue /\ InProcess' = InProcess /\ Writing' = Writing
      /\ ~Has("SINGLE_ACCEPT")
  BY QueuesKept
  DEF uv_tcp_simultaneous_accepts, queues, ctl, WinInv, Active, ShutDue, InProcess, Writing
<1>2. PICK C \in {{}, {"ACCEPT_STATE_CHANGING"}} :
        /\ Becomes(handle.flags \cup ({"SINGLE_ACCEPT"} \cup C), handle.reqs_pending,
                   handle.write_reqs_pending, handle.processed_accepts)
        /\ C # {} <=> Has("LISTENING")
  <2>1. ASSUME NEW C \in {{}, {"ACCEPT_STATE_CHANGING"}}, handle' = With(handle, {"SINGLE_ACCEPT"} \cup C)
        PROVE  Becomes(handle.flags \cup ({"SINGLE_ACCEPT"} \cup C), handle.reqs_pending,
                   handle.write_reqs_pending, handle.processed_accepts)
    <3>1. {"SINGLE_ACCEPT"} \cup C \in SUBSET Flags
      BY DEF Flags
    <3> QED
      BY <2>1, <3>1, HandleFacts, HandleOps DEF Becomes
  <2>2. CASE Has("LISTENING")
    <3>1. handle' = With(handle, {"SINGLE_ACCEPT"} \cup {"ACCEPT_STATE_CHANGING"})
      BY <2>2 DEF uv_tcp_simultaneous_accepts
    <3> QED
      BY <2>1, <2>2, <3>1
  <2>3. CASE ~Has("LISTENING")
    <3>1. handle' = With(handle, {"SINGLE_ACCEPT"} \cup {})
      BY <2>3 DEF uv_tcp_simultaneous_accepts
    <3> QED
      BY <2>1, <2>3, <3>1
  <2> QED
    BY <2>2, <2>3
<1>3. TypeOK'
  BY <1>1, <1>2, HandleFacts, QueueTypes, TypesBefore, TypeAgain DEF Becomes
<1>4. CountInv'
  BY <1>1, <1>2, CountFacts DEF CountInv, Has, Becomes
<1>5. HeldInv' /\ FlagsInv'
  <2>1. Has("LISTENING") => Has("BOUND")
    BY DEF WinInv, FlagsInv, Has
  <2> QED
    BY <1>1, <1>2, <2>1 DEF WinInv, HeldInv, FlagsInv, Has, Becomes
<1>6. ShutInv' /\ ControlInv' /\ ReadInv'
  BY <1>1, <1>2 DEF WinInv, ShutInv, ControlInv, ReadInv, Has, May, Becomes
<1>7. AcceptInv'
  <2>1. Live' = Live
    BY <1>1 DEF Live
  <2>2. handle.processed_accepts = 0
    BY <1>1 DEF WinInv, AcceptInv
  <2>3. Has("LISTENING") => Live = AReqs /\ Live # {}
    BY <1>1, WinAssumption DEF WinInv, AcceptInv
  <2>4. Cardinality(AReqs) \in Nat
    BY WinAssumption, FS_CardinalityType
  <2>5. /\ Has("LISTENING")' <=> Has("LISTENING") /\ Has("SINGLE_ACCEPT")'
        /\ Has("ACCEPT_STATE_CHANGING")' <=> Has("LISTENING")
        /\ handle'.processed_accepts = 0
    <3>1. ~Has("ACCEPT_STATE_CHANGING")
      BY <1>1 DEF WinInv, AcceptInv
    <3> QED
      BY <1>2, <2>2, <3>1 DEF Has, Becomes
  <2>6. /\ Has("ACCEPT_STATE_CHANGING")' =>
             handle'.processed_accepts + Cardinality(Live') = Cardinality(AReqs) /\ Live' # {}
        /\ Has("SINGLE_ACCEPT")'
        /\ Has("LISTENING")' => Has("ACCEPT_STATE_CHANGING")'
    <3>1. 0 + Cardinality(AReqs) = Cardinality(AReqs)
      BY <2>4
    <3> QED
      BY <1>2, <2>1, <2>3, <2>5, <3>1 DEF Has, Becomes
  <2> QED
    BY <1>1, <2>5, <2>6 DEF WinInv, AcceptInv
<1> QED
  BY <1>1, <1>3, <1>4, <1>5, <1>6, <1>7 DEF WinInv

(* uv_listen.                                                              *)
LEMMA ListenKeeps ==
  ASSUME WinInv, uv_tcp_listen
  PROVE  WinInv'
<1> DEFINE A == IF Has("SINGLE_ACCEPT") THEN {FirstA} ELSE AReqs
           h == With(handle, {"BOUND", "LISTENING"})
<1>1. /\ UNCHANGED <<status, at, resume, world, iocp>> /\ ~Has("CLOSING") /\ ~Has("BOUND")
  BY DEF uv_tcp_listen, UserMayCall, ctl
<1>2. /\ {"LISTENING", "CONNECTION", "ACCEPT_STATE_CHANGING"} \cap handle.flags = {}
      /\ status[ConnReq] = "idle" /\ Held = {} /\ accept.sockets = {} /\ accept.pending = <<>>
      /\ ~Has("CLOSED") /\ handle.processed_accepts = 0
  BY <1>1 DEF WinInv, FlagsInv, AcceptInv, Has
<1>3. PICK K, B, F \in SUBSET A :
        /\ K \cap B = {} /\ K \cap F = {} /\ B \cap F = {} /\ K \cup (B \cup F) = A
        /\ handle' = [h EXCEPT !.reqs_pending = @ + Cardinality(A)]
        /\ kernel' = kernel \o SetToSeq(K) /\ pending_reqs' = pending_reqs \o SetToSeq(B \cup F)
        /\ failed' = failed \cup F /\ accept' = [accept EXCEPT !.sockets = K \cup B]
  <2> DEFINE R == {"kernel"} \cup (IF Has("SYNC_BYPASS_IOCP") THEN {"at once"} ELSE {})
                            \cup (IF May("accept_fails") THEN {"failing"} ELSE {})
  <2>1. PICK how \in [A -> R] :
          /\ handle' = [h EXCEPT !.reqs_pending = @ + Cardinality(DOMAIN how)]
          /\ kernel' = kernel \o SetToSeq({r \in DOMAIN how : how[r] = "kernel"})
          /\ pending_reqs' = pending_reqs \o SetToSeq({r \in DOMAIN how : how[r] = "at once"} \cup
                                                      {r \in DOMAIN how : how[r] = "failing"})
          /\ failed' = failed \cup {r \in DOMAIN how : how[r] = "failing"}
          /\ accept' = [accept EXCEPT !.sockets = {r \in DOMAIN how : how[r] = "kernel"} \cup
                                                  {r \in DOMAIN how : how[r] = "at once"}]
    BY DEF uv_tcp_listen
  <2> DEFINE K == {r \in DOMAIN how : how[r] = "kernel"}
             B == {r \in DOMAIN how : how[r] = "at once"}
             F == {r \in DOMAIN how : how[r] = "failing"}
  <2>2. DOMAIN how = A /\ \A r \in A : how[r] \in {"kernel", "at once", "failing"}
    BY <2>1
  <2>3. /\ K \in SUBSET A /\ B \in SUBSET A /\ F \in SUBSET A
        /\ K \cap B = {} /\ K \cap F = {} /\ B \cap F = {} /\ K \cup (B \cup F) = A
    BY <2>2
  <2>4. /\ handle' = [h EXCEPT !.reqs_pending = @ + Cardinality(A)]
        /\ kernel' = kernel \o SetToSeq(K) /\ pending_reqs' = pending_reqs \o SetToSeq(B \cup F)
        /\ failed' = failed \cup F /\ accept' = [accept EXCEPT !.sockets = K \cup B]
    BY <2>1, <2>2
  <2> HIDE DEF K, B, F, A, h
  <2> QED
    BY <2>3, <2>4
<1>4. /\ A \subseteq AReqs /\ IsFiniteSet(A) /\ Cardinality(A) \in Nat /\ A # {}
      /\ A = IF Has("SINGLE_ACCEPT") THEN {FirstA} ELSE AReqs
  <2>1. A \subseteq AReqs /\ A # {}
    BY WinAssumption
  <2> QED
    BY <2>1, WinAssumption, FS_Subset, FS_CardinalityType
<1>5. /\ h \in Handles /\ h.flags = handle.flags \cup {"BOUND", "LISTENING"}
      /\ h.reqs_pending = handle.reqs_pending
      /\ h.write_reqs_pending = handle.write_reqs_pending
      /\ h.processed_accepts = handle.processed_accepts
  <2>1. {"BOUND", "LISTENING"} \in SUBSET Flags
    BY DEF Flags
  <2> QED
    BY <2>1, HandleFacts, HandleOps
<1> HIDE DEF A, h
<1>6. /\ pending_reqs' \in Seq(Reqs) /\ kernel' \in Seq(Reqs)
      /\ InOnePlace' /\ Held' = A
  <2>1. K \in SUBSET AReqs /\ B \cup F \in SUBSET AReqs /\ K \cap (B \cup F) = {}
    BY <1>3, <1>4
  <2> QED
    BY <1>1, <1>2, <1>3, <2>1, Listened DEF WinInv
<1>7. Becomes(handle.flags \cup {"BOUND", "LISTENING"}, handle.reqs_pending + Cardinality(A),
              handle.write_reqs_pending, handle.processed_accepts)
  <2> DEFINE c == Cardinality(A)
  <2>1. handle' = [h EXCEPT !.reqs_pending = @ + c] /\ c \in Nat
    BY <1>3, <1>4
  <2> HIDE DEF c
  <2>2. /\ handle' \in Handles /\ handle'.flags = h.flags
        /\ handle'.reqs_pending = h.reqs_pending + c
        /\ handle'.write_reqs_pending = h.write_reqs_pending
        /\ handle'.processed_accepts = h.processed_accepts
    BY <1>5, <2>1 DEF Handles
  <2> QED
    BY <1>5, <2>2 DEF Becomes, c
<1>8. /\ Active' = Active /\ ShutDue' = ShutDue /\ InProcess' = InProcess /\ Writing' = Writing
  BY <1>1 DEF Active, ShutDue, InProcess, Writing
<1>9. /\ accept' \in [sockets : SUBSET AReqs, pending : Seq(AReqs)]
      /\ accept'.sockets = K \cup B /\ accept'.pending = <<>>
  <2>1. accept \in [sockets : SUBSET AReqs, pending : Seq(AReqs)] /\ K \cup B \subseteq AReqs
    BY <1>3, <1>4, TypesBefore DEF WinInv
  <2> QED
    BY <1>2, <1>3, <2>1
<1>10. TypeOK'
  <2>1. failed' \subseteq Reqs
    BY <1>3, <1>4, QueueTypes DEF Reqs, WinInv
  <2> QED
    BY <1>1, <1>6, <1>7, <1>9, <2>1, HandleFacts, QueueTypes, TypesBefore, TypeAgain DEF Becomes
<1>11. CountInv'
  <2>1. Cardinality(Held) = 0
    BY <1>2, FS_EmptySet
  <2>2. ~Has("CLOSED")' /\ ~Has("CONNECTION")'
    BY <1>2, <1>7 DEF Has, Becomes
  <2>3. handle'.reqs_pending = Cardinality(A) + InProcess + ShutDue
    BY <1>4, <1>7, <2>1, CountFacts DEF Becomes
  <2> QED
    BY <1>6, <1>8, <2>2, <2>3 DEF CountInv
<1>12. HeldInv'
  BY <1>1, <1>2, <1>4, <1>6, Distinct DEF WinInv, HeldInv
<1>13. FlagsInv'
  BY <1>1, <1>2, <1>7 DEF WinInv, FlagsInv, Has, Becomes
<1>14. ShutInv' /\ ControlInv' /\ ReadInv'
  <2>1. ReadReq \notin Held'
    BY <1>4, <1>6, Distinct
  <2>2. ~Has("READ_PENDING")
    BY <1>2 DEF WinInv, ReadInv
  <2> QED
    BY <1>1, <1>7, <1>8, <2>1, <2>2 DEF WinInv, ShutInv, ControlInv, ReadInv, Has, Becomes
<1>15. AcceptInv'
  <2>1. ToSet(accept'.pending) = {} /\ IsInjective(accept'.pending)
    BY <1>9 DEF ToSet, IsInjective
  <2>2. Live' = A
    BY <1>4, <1>6, <2>1 DEF Live
  <2>3. K \cup B \subseteq A
    BY <1>3
  <2>4. /\ Has("SINGLE_ACCEPT")' <=> Has("SINGLE_ACCEPT")
        /\ ~Has("ACCEPT_STATE_CHANGING")' /\ handle'.processed_accepts = 0
    BY <1>2, <1>7 DEF Has, Becomes
  <2>5. /\ ~Has("SINGLE_ACCEPT") => A = AReqs
        /\ Has("SINGLE_ACCEPT") => A = {FirstA}
    BY <1>4
  <2> QED
    BY <1>6, <1>9, <2>1, <2>2, <2>3, <2>4, <2>5 DEF AcceptInv
<1> QED
  BY <1>6, <1>10, <1>11, <1>12, <1>13, <1>14, <1>15 DEF WinInv

(* uv_tcp_queue_accept adds an accept request.                             *)
LEMMA AcceptQueued ==
  ASSUME TypeOK, InOnePlace, NEW h \in Handles, NEW r \in AReqs, r \notin Held,
         NEW a \in [sockets : SUBSET AReqs, pending : Seq(AReqs)], QueueAccept(h, a, r)
  PROVE  /\ pending_reqs' \in Seq(Reqs) /\ kernel' \in Seq(Reqs) /\ iocp' \in Seq(Reqs)
         /\ failed' \subseteq Reqs /\ InOnePlace' /\ Held' = Held \cup {r}
         /\ Cardinality(Held') = Cardinality(Held) + 1
         /\ Becomes(h.flags, h.reqs_pending + 1, h.write_reqs_pending, h.processed_accepts)
         /\ \E S \in {{}, {r}} : /\ accept' \in [sockets : SUBSET AReqs, pending : Seq(AReqs)]
                                /\ accept'.sockets = a.sockets \cup S
                                /\ accept'.pending = a.pending
<1>1. r \in Reqs
  BY DEF Reqs
<1>2. AtOnce(r) \/ ByKernel(r) \/ Failing(r)
  BY DEF QueueAccept
<1>3. /\ pending_reqs' \in Seq(Reqs) /\ kernel' \in Seq(Reqs) /\ iocp' \in Seq(Reqs)
      /\ failed' \subseteq Reqs /\ InOnePlace' /\ Held' = Held \cup {r}
  BY <1>1, <1>2, Added
<1>4. Cardinality(Held') = Cardinality(Held) + 1
  BY <1>1, <1>3, HeldCounts
<1>5. Becomes(h.flags, h.reqs_pending + 1, h.write_reqs_pending, h.processed_accepts)
  <2>1. handle' = More(h)
    BY DEF QueueAccept
  <2> QED
    BY <2>1, HandleOps DEF Becomes
<1>6. \E S \in {{}, {r}} : /\ accept' \in [sockets : SUBSET AReqs, pending : Seq(AReqs)]
                         /\ accept'.sockets = a.sockets \cup S
                         /\ accept'.pending = a.pending
  <2>1. CASE accept' = [a EXCEPT !.sockets = @ \cup {r}]
    BY <2>1
  <2>2. CASE accept' = a
    <3>1. accept'.sockets = a.sockets \cup {}
      BY <2>2
    <3> QED
      BY <2>2, <3>1
  <2> QED
    BY <2>1, <2>2 DEF QueueAccept
<1> QED
  BY <1>3, <1>4, <1>5, <1>6

(* uv_accept: the request is used again, or dropped for a single one.      *)
LEMMA UserAcceptKeeps ==
  ASSUME WinInv, uv_tcp_accept
  PROVE  WinInv'
<1> DEFINE r == Head(accept.pending)
           a == [sockets |-> accept.sockets \ {r}, pending |-> Tail(accept.pending)]
<1>1. /\ UNCHANGED <<status, at, resume, world>> /\ ~Has("CLOSED") /\ accept.pending # <<>>
  BY DEF uv_tcp_accept, ctl
<1>2. /\ Active' = Active /\ ShutDue' = ShutDue /\ InProcess' = InProcess /\ Writing' = Writing
  BY <1>1 DEF Active, ShutDue, InProcess, Writing
<1>3. /\ \/ Has("CLOSING") /\ accept' = a /\ UNCHANGED <<handle, queues>>
         \/ /\ Has("LISTENING") /\ ~Has("ACCEPT_STATE_CHANGING")
            /\ QueueAccept(handle, a, r)
         \/ /\ Has("LISTENING") /\ Has("ACCEPT_STATE_CHANGING") /\ ~AllProcessed
            /\ handle' = [handle EXCEPT !.processed_accepts = @ + 1]
            /\ accept' = a /\ UNCHANGED queues
         \/ /\ Has("LISTENING") /\ Has("ACCEPT_STATE_CHANGING") /\ AllProcessed
            /\ QueueAccept([Without(handle, {"ACCEPT_STATE_CHANGING"}) EXCEPT
                               !.processed_accepts = 0], a, FirstA)
  BY DEF uv_tcp_accept
<1>4. /\ r \in AReqs /\ r \in ToSet(accept.pending) /\ r \notin Held
      /\ a \in [sockets : SUBSET AReqs, pending : Seq(AReqs)]
      /\ a.sockets = accept.sockets \ {r} /\ IsInjective(a.pending)
      /\ ToSet(a.pending) = ToSet(accept.pending) \ {r}
  <2>1. accept.sockets \subseteq AReqs /\ accept.pending \in Seq(AReqs) /\ IsInjective(accept.pending)
    BY TypesBefore DEF WinInv, AcceptInv
  <2>2. /\ r \in AReqs /\ r \in ToSet(accept.pending) /\ Tail(accept.pending) \in Seq(AReqs)
        /\ IsInjective(Tail(accept.pending))
        /\ ToSet(Tail(accept.pending)) = ToSet(accept.pending) \ {r}
    BY <1>1, <2>1, TailOnce
  <2>3. r \notin Held
    BY <2>2 DEF WinInv, AcceptInv
  <2> QED
    BY <2>1, <2>2, <2>3
<1> HIDE DEF r, a
<1>5. /\ ToSet(a.pending) \cap Held = {} /\ ToSet(a.pending) \subseteq a.sockets
      /\ a.sockets \subseteq ToSet(a.pending) \cup Held
      /\ Live \ {r} = (Held \cap AReqs) \cup ToSet(a.pending) /\ r \in Live
      /\ Live \subseteq AReqs
  <2>1. /\ ToSet(accept.pending) \cap Held = {}
        /\ ToSet(accept.pending) \subseteq accept.sockets
        /\ accept.sockets \subseteq ToSet(accept.pending) \cup Held
        /\ accept.sockets \subseteq AReqs
    BY TypesBefore DEF WinInv, AcceptInv
  <2> QED
    BY <1>4, <2>1 DEF Live
<1>6. IsFiniteSet(Live) /\ Cardinality(Live) \in Nat /\ Cardinality(AReqs) \in Nat
      /\ Cardinality(Live \ {r}) = Cardinality(Live) - 1
  BY <1>5, WinAssumption, FS_Subset, SetCounts
<1>7. Has("BOUND")
  BY <1>1 DEF WinInv, FlagsInv
<1>8. CASE Has("CLOSING") /\ accept' = a /\ UNCHANGED <<handle, queues>>
  <2>1. /\ Held' = Held /\ InOnePlace' /\ UNCHANGED <<pending_reqs, kernel, iocp, failed>>
        /\ UNCHANGED handle
    BY <1>8, QueuesKept DEF queues, WinInv
  <2>2. TypeOK'
    BY <1>1, <1>4, <1>8, <2>1, HandleFacts, QueueTypes, TypesBefore, TypeAgain
  <2>3. CountInv' /\ HeldInv' /\ FlagsInv'
    BY <1>1, <1>2, <1>7, <2>1 DEF WinInv, CountInv, HeldInv, FlagsInv, Has
  <2>4. ShutInv' /\ ControlInv' /\ ReadInv'
    BY <1>1, <1>2, <2>1 DEF WinInv, ShutInv, ControlInv, ReadInv, Has, May
  <2>5. AcceptInv'
    <3>1. ~Has("LISTENING")'
      BY <1>8 DEF WinInv, FlagsInv, Has
    <3> QED
      BY <1>4, <1>5, <1>8, <2>1, <3>1 DEF WinInv, AcceptInv, Has
  <2> QED
    BY <2>1, <2>2, <2>3, <2>4, <2>5 DEF WinInv
<1>9. CASE /\ Has("LISTENING") /\ Has("ACCEPT_STATE_CHANGING") /\ ~AllProcessed
           /\ handle' = [handle EXCEPT !.processed_accepts = @ + 1]
           /\ accept' = a /\ UNCHANGED queues
  <2>1. /\ Held' = Held /\ InOnePlace' /\ UNCHANGED <<pending_reqs, kernel, iocp, failed>>
    BY <1>9, QueuesKept DEF queues, WinInv
  <2>2. Becomes(handle.flags, handle.reqs_pending, handle.write_reqs_pending,
                handle.processed_accepts + 1)
    BY <1>9, HandleFacts DEF Becomes, Handles
  <2>3. TypeOK'
    BY <1>1, <1>4, <1>9, <2>1, <2>2, HandleFacts, QueueTypes, TypesBefore, TypeAgain DEF Becomes
  <2>4. CountInv' /\ HeldInv'
    BY <1>1, <1>2, <2>1, <2>2 DEF WinInv, CountInv, HeldInv, Has, Becomes
  <2>5. FlagsInv'
    BY <1>1, <1>7, <2>1, <2>2 DEF WinInv, FlagsInv, Has, Becomes
  <2>6. ShutInv' /\ ControlInv' /\ ReadInv'
    BY <1>1, <1>2, <2>1, <2>2 DEF WinInv, ShutInv, ControlInv, ReadInv, Has, May, Becomes
  <2>7. AcceptInv'
    <3>1. Live' = Live \ {r}
      BY <1>5, <1>9, <2>1 DEF Live
    <3>2. handle.processed_accepts + Cardinality(Live) = Cardinality(AReqs)
      BY <1>9 DEF WinInv, AcceptInv
    <3>3. handle.processed_accepts + 1 < Cardinality(AReqs) /\ handle.processed_accepts \in Nat
      BY <1>6, <1>9, HandleFacts DEF AllProcessed
    <3>4. handle'.processed_accepts + Cardinality(Live') = Cardinality(AReqs) /\ Cardinality(Live') # 0
      BY <1>6, <2>2, <3>1, <3>2, <3>3 DEF Becomes
    <3>5. Live' # {}
      BY <3>4, FS_EmptySet
    <3>6. Has("SINGLE_ACCEPT")' /\ Has("ACCEPT_STATE_CHANGING")'
      BY <1>9, <2>2 DEF WinInv, AcceptInv, Has, Becomes
    <3> QED
      BY <1>4, <1>5, <1>9, <2>1, <3>4, <3>5, <3>6 DEF AcceptInv
  <2> QED
    BY <2>1, <2>3, <2>4, <2>5, <2>6, <2>7 DEF WinInv
<1>10. ASSUME NEW h \in Handles, NEW q \in AReqs, q \notin Held, NEW C \in {{}, {"ACCEPT_STATE_CHANGING"}},
              h.flags = handle.flags \ C, h.reqs_pending = handle.reqs_pending,
              h.write_reqs_pending = handle.write_reqs_pending, h.processed_accepts = 0,
              QueueAccept(h, a, q), q \notin ToSet(a.pending), Has("LISTENING"),
              "ACCEPT_STATE_CHANGING" \notin h.flags,
              Has("SINGLE_ACCEPT") => (Live \ {r}) \cup {q} = {FirstA},
              ~Has("SINGLE_ACCEPT") => (Live \ {r}) \cup {q} = AReqs
       PROVE  WinInv'
  <2>1. /\ pending_reqs' \in Seq(Reqs) /\ kernel' \in Seq(Reqs) /\ iocp' \in Seq(Reqs)
        /\ failed' \subseteq Reqs /\ InOnePlace' /\ Held' = Held \cup {q}
        /\ Cardinality(Held') = Cardinality(Held) + 1
        /\ Becomes(h.flags, h.reqs_pending + 1, h.write_reqs_pending, h.processed_accepts)
        /\ \E S \in {{}, {q}} : /\ accept' \in [sockets : SUBSET AReqs, pending : Seq(AReqs)]
                               /\ accept'.sockets = a.sockets \cup S
                               /\ accept'.pending = a.pending
    BY <1>4, <1>10, HandleFacts, AcceptQueued
  <2>2. PICK S \in {{}, {q}} : /\ accept' \in [sockets : SUBSET AReqs, pending : Seq(AReqs)]
                               /\ accept'.sockets = a.sockets \cup S
                               /\ accept'.pending = a.pending
    BY <2>1
  <2>3. Becomes(handle.flags \ C, handle.reqs_pending + 1, handle.write_reqs_pending, 0)
    BY <1>10, <2>1 DEF Becomes
  <2>4. TypeOK'
    BY <1>1, <2>1, <2>2, <2>3, HandleFacts, TypesBefore, TypeAgain DEF Becomes
  <2>5. CountInv'
    <3>1. ~Has("CLOSED")'
      BY <1>1, <2>3 DEF Has, Becomes
    <3>2. handle'.reqs_pending = Cardinality(Held') + InProcess' + ShutDue'
      BY <1>2, <2>1, <2>3, CountFacts DEF Becomes
    <3>3. Has("CONNECTION")' => handle'.write_reqs_pending = Cardinality(Active') + Writing'
      BY <1>2, <2>3, CountFacts DEF Becomes, Has
    <3> QED
      BY <3>1, <3>2, <3>3 DEF CountInv
  <2>6. HeldInv'
    BY <1>1, <2>1, Distinct DEF WinInv, HeldInv
  <2>7. FlagsInv'
    BY <1>1, <1>7, <2>3 DEF WinInv, FlagsInv, Has, Becomes
  <2>8. ShutInv' /\ ControlInv'
    BY <1>1, <1>2, <2>3 DEF WinInv, ShutInv, ControlInv, Has, Becomes
  <2>9. ReadInv'
    BY <1>1, <2>1, <2>3, Distinct DEF WinInv, ReadInv, Has, May, Becomes
  <2>10. AcceptInv'
    <3>1. Live' = (Live \ {r}) \cup {q}
      BY <1>5, <1>10, <2>1, <2>2 DEF Live
    <3>2. /\ ~Has("ACCEPT_STATE_CHANGING")' /\ handle'.processed_accepts = 0
          /\ Has("SINGLE_ACCEPT")' <=> Has("SINGLE_ACCEPT")
      BY <1>10, <2>3 DEF Has, Becomes
    <3>3. /\ IsInjective(accept'.pending) /\ ToSet(accept'.pending) \cap Held' = {}
          /\ ToSet(accept'.pending) \subseteq accept'.sockets
          /\ accept'.sockets \subseteq ToSet(accept'.pending) \cup Held'
      BY <1>4, <1>5, <1>10, <2>1, <2>2
    <3>4. /\ Has("SINGLE_ACCEPT") => Live' = {FirstA}
          /\ ~Has("SINGLE_ACCEPT") => Live' = AReqs
      BY <1>10, <3>1
    <3> QED
      BY <3>2, <3>3, <3>4 DEF AcceptInv
  <2> QED
    BY <2>1, <2>4, <2>5, <2>6, <2>7, <2>8, <2>9, <2>10 DEF WinInv
<1>11. CASE /\ Has("LISTENING") /\ ~Has("ACCEPT_STATE_CHANGING")
            /\ QueueAccept(handle, a, r)
  <2>1. /\ handle.flags = handle.flags \ {} /\ handle.processed_accepts = 0
        /\ r \notin ToSet(a.pending) /\ "ACCEPT_STATE_CHANGING" \notin handle.flags
    BY <1>4, <1>11 DEF WinInv, AcceptInv, Has
  <2>2. /\ (Live \ {r}) \cup {r} = Live
        /\ Has("SINGLE_ACCEPT") => Live = {FirstA}
        /\ ~Has("SINGLE_ACCEPT") => Live = AReqs
    BY <1>5, <1>11 DEF WinInv, AcceptInv
  <2> QED
    BY <1>4, <1>10, <1>11, <2>1, <2>2, HandleFacts
<1>12. CASE /\ Has("LISTENING") /\ Has("ACCEPT_STATE_CHANGING") /\ AllProcessed
            /\ QueueAccept([Without(handle, {"ACCEPT_STATE_CHANGING"}) EXCEPT
                               !.processed_accepts = 0], a, FirstA)
  <2> DEFINE g == Without(handle, {"ACCEPT_STATE_CHANGING"})
             h == [g EXCEPT !.processed_accepts = 0]
  <2>1. /\ g \in Handles /\ g.flags = handle.flags \ {"ACCEPT_STATE_CHANGING"}
        /\ g.reqs_pending = handle.reqs_pending
        /\ g.write_reqs_pending = handle.write_reqs_pending
    <3>1. {"ACCEPT_STATE_CHANGING"} \in SUBSET Flags
      BY DEF Flags
    <3> QED
      BY <3>1, HandleFacts, HandleOps
  <2> HIDE DEF g
  <2>2. /\ h \in Handles /\ h.flags = handle.flags \ {"ACCEPT_STATE_CHANGING"}
        /\ h.reqs_pending = handle.reqs_pending
        /\ h.write_reqs_pending = handle.write_reqs_pending
        /\ h.processed_accepts = 0
    BY <2>1 DEF Handles
  <2>3. QueueAccept(h, a, FirstA)
    BY <1>12 DEF g
  <2> HIDE DEF h
  <2>4. Live \ {r} = {}
    <3>1. handle.processed_accepts + Cardinality(Live) = Cardinality(AReqs)
      BY <1>12 DEF WinInv, AcceptInv
    <3>2. handle.processed_accepts + 1 >= Cardinality(AReqs) /\ handle.processed_accepts \in Nat
      BY <1>12, HandleFacts DEF AllProcessed
    <3>3. IsFiniteSet(Live \ {r}) /\ Cardinality(Live \ {r}) \in Nat
      BY <1>6, FS_Subset, SetCounts
    <3>4. Cardinality(Live \ {r}) = 0
      BY <1>6, <3>1, <3>2, <3>3
    <3> QED
      BY <3>3, <3>4, FS_EmptySet
  <2>5. /\ FirstA \in AReqs /\ FirstA \notin Held /\ FirstA \notin ToSet(a.pending)
        /\ (Live \ {r}) \cup {FirstA} = {FirstA} /\ Has("SINGLE_ACCEPT")
    BY <1>5, <1>12, <2>4, WinAssumption DEF WinInv, AcceptInv, Has
  <2>6. "ACCEPT_STATE_CHANGING" \notin h.flags
    BY <2>2
  <2> QED
    BY <1>10, <1>12, <2>2, <2>3, <2>5, <2>6
<1> QED
  BY <1>3, <1>8, <1>9, <1>11, <1>12

(* Nothing happens.                                                        *)
LEMMA StutterKeeps ==
  ASSUME WinInv, UNCHANGED vars
  PROVE  WinInv'
<1>1. /\ Held' = Held /\ InOnePlace' = InOnePlace
      /\ UNCHANGED <<handle, pending_reqs, kernel, iocp, failed, status, accept, at, resume, world>>
  BY QueuesKept DEF vars, queues, ctl
<1>2. TypeOK'
  BY <1>1 DEF WinInv, TypeOK
<1>3. CountInv' /\ HeldInv' /\ FlagsInv' /\ ShutInv'
  BY <1>1 DEF WinInv, CountInv, HeldInv, FlagsInv, ShutInv, Has, Active, ShutDue, Writing, InProcess
<1>4. ControlInv' /\ ReadInv' /\ AcceptInv'
  BY <1>1 DEF WinInv, ControlInv, ReadInv, AcceptInv, Has, May, Live
<1> QED
  BY <1>1, <1>2, <1>3, <1>4 DEF WinInv

(* uv_tcp_init establishes it.                                             *)
LEMMA InitEstablishes ==
  ASSUME Init
  PROVE  WinInv
<1>1. ToSet(<<>>) = {} /\ IsInjective(<<>>)
  BY DEF ToSet, IsInjective
<1>2. Held = {} /\ InOnePlace
  BY <1>1 DEF Init, Held, InOnePlace
<1>3. TypeOK
  <2>1. handle \in [flags : SUBSET Flags, reqs_pending : Nat, write_reqs_pending : Nat,
                    processed_accepts : Nat]
    BY DEF Init, Flags
  <2>2. \A S : <<>> \in Seq(S)
    BY EmptySeq
  <2>3. accept \in [sockets : SUBSET AReqs, pending : Seq(AReqs)]
    BY <2>2 DEF Init
  <2> QED
    BY <2>1, <2>2, <2>3 DEF Init, TypeOK
<1>4. /\ \A r \in UserReqs : status[r] = "idle"
      /\ ShutReq \in UserReqs /\ ConnReq \in UserReqs /\ WReqs \subseteq UserReqs
  BY DEF Init, UserReqs
<1>5. /\ \A f : f # "SYNC_BYPASS_IOCP" => f \notin handle.flags
      /\ handle.reqs_pending = 0 /\ handle.processed_accepts = 0
      /\ at = "timers" /\ resume = "none" /\ accept.sockets = {} /\ accept.pending = <<>>
  BY DEF Init
<1>6. CountInv
  <2>1. InProcess = 0 /\ ShutDue = 0 /\ Cardinality(Held) = 0
    BY <1>2, <1>4, <1>5, FS_EmptySet DEF InProcess, ShutDue, Callback
  <2> QED
    BY <1>5, <2>1 DEF CountInv, Has
<1>7. HeldInv /\ FlagsInv /\ ShutInv /\ ControlInv /\ ReadInv
  BY <1>2, <1>4, <1>5
  DEF HeldInv, FlagsInv, ShutInv, ControlInv, ReadInv, Has, Callback
<1>8. AcceptInv
  BY <1>1, <1>2, <1>5 DEF AcceptInv, Has
<1> QED
  BY <1>2, <1>3, <1>6, <1>7, <1>8 DEF WinInv

(* Every step keeps the invariant.                                         *)
LEMMA StepKeeps ==
  ASSUME WinInv, ReadsOnce, [Next]_vars
  PROVE  WinInv'
<1>1. CASE Program
  BY <1>1, ConnectKeeps, ShutdownKeeps, ReadingKeeps, ListenKeeps, UserAcceptKeeps,
     SimultaneousKeeps, CloseKeeps, WriteKeeps DEF Program
<1>2. CASE Loop
  BY <1>2, LoopKeeps, MovesKeep, EndgameKeeps, ConnectReqKeeps, ReadReqKeeps, ReceiveKeeps,
     ReturnKeeps, WriteReqKeeps, AcceptReqKeeps, AcceptAgainKeeps DEF Loop
<1>3. CASE \E i \in DOMAIN kernel : Complete(i)
  BY <1>3, MovesKeep
<1>4. CASE UNCHANGED vars
  BY <1>4, StutterKeeps
<1> QED
  BY <1>1, <1>2, <1>3, <1>4 DEF Next

-----------------------------------------------------------------------------
(* What it gives.                                                          *)

(* After close_cb nothing is held, so every socket left is one that the    *)
(* program had not accepted.                                               *)
LEMMA NothingAfterClose ==
  ASSUME WinInv, Has("CLOSED")
  PROVE  /\ handle.reqs_pending = 0 /\ Held = {} /\ ShutDue = 0 /\ InProcess = 0
         /\ accept.sockets = ToSet(accept.pending)
<1>1. handle.reqs_pending = 0 /\ Cardinality(Held) = 0 /\ ShutDue = 0 /\ InProcess = 0
  BY CountFacts
<1>2. Held = {}
  BY <1>1, HandleFacts, HeldCounts
<1> QED
  BY <1>1, <1>2 DEF WinInv, AcceptInv

(* The invariant implies ReqsCounted.                                      *)
LEMMA InvCounts ==
  ASSUME WinInv
  PROVE  ReqsCounted
<1>1. IsInjective(pending_reqs \o kernel \o iocp)
  <2> DEFINE j == pending_reqs \o kernel
  <2>1. /\ j \in Seq(Reqs) /\ ToSet(j) = ToSet(pending_reqs) \cup ToSet(kernel)
        /\ IsInjective(j)
    BY HandleFacts, QueueTypes, ConcatOnce DEF InOnePlace
  <2> HIDE DEF j
  <2>2. IsInjective(j \o iocp) <=>
          IsInjective(j) /\ IsInjective(iocp) /\ ToSet(j) \cap ToSet(iocp) = {}
    BY <2>1, HandleFacts, QueueTypes, ConcatOnce
  <2>3. IsInjective(iocp) /\ ToSet(j) \cap ToSet(iocp) = {}
    BY <2>1, HandleFacts DEF InOnePlace
  <2> QED
    BY <2>1, <2>2, <2>3 DEF j
<1>2. Closed => handle.reqs_pending = 0 /\ accept.sockets = ToSet(accept.pending)
  BY NothingAfterClose DEF Closed
<1> QED
  BY <1>1, <1>2 DEF WinInv, ReqsCounted, CountInv, Active, ShutDue, Writing

(* The invariant implies AcceptsOn.                                        *)
LEMMA InvAccepts ==
  ASSUME WinInv
  PROVE  AcceptsOn
<1> SUFFICES ASSUME Has("LISTENING") PROVE Held \cap AReqs # {} \/ accept.pending # <<>>
  BY DEF AcceptsOn
<1>1. Live # {}
  BY WinAssumption DEF WinInv, AcceptInv
<1>2. accept.pending = <<>> => ToSet(accept.pending) = {}
  BY DEF ToSet
<1> QED
  BY <1>1, <1>2 DEF Live

(* The inductive invariant holds in every behaviour.                       *)
THEOREM WinInvHolds ==
  ASSUME ReadsOnce
  PROVE  Spec => []WinInv
<1>1. Init => WinInv
  BY InitEstablishes
<1>2. WinInv /\ [Next]_vars => WinInv'
  BY ReadsOnce, StepKeeps
<1> QED
  BY <1>1, <1>2, PTL DEF Spec

(* A request is in one place only, and reqs_pending, on which the end of   *)
(* the handle hangs, is exact: nothing refers to it after close_cb         *)
(* (uv_tcp_endgame, DECREASE_PENDING_REQ_COUNT, uv_insert_pending_req).    *)
THEOREM RequestsAreCounted ==
  ASSUME ReadsOnce
  PROVE  Spec => []ReqsCounted
<1>1. Spec => []WinInv
  BY ReadsOnce, WinInvHolds
<1>2. WinInv => ReqsCounted
  BY InvCounts
<1> QED
  BY <1>1, <1>2, PTL

(* A server that listens never runs out of accept requests, also while it  *)
(* changes from many to one (uv_tcp_accept, processed_accepts).            *)
THEOREM ServerAcceptsOn ==
  ASSUME ReadsOnce
  PROVE  Spec => []AcceptsOn
<1>1. Spec => []WinInv
  BY ReadsOnce, WinInvHolds
<1>2. WinInv => AcceptsOn
  BY InvAccepts
<1> QED
  BY <1>1, <1>2, PTL

-----------------------------------------------------------------------------
(* WinContract.                                                            *)

\* A handle that is as closed as the one before the step.
AsClosed(h) ==
  /\ h \in [flags : SUBSET Flags, reqs_pending : Int, write_reqs_pending : Int,
            processed_accepts : Int]
  /\ "CLOSING" \in h.flags <=> Has("CLOSING")
  /\ "CLOSED" \in h.flags <=> Has("CLOSED")

(* What the operations on the handle leave alone.                          *)
LEMMA ClosedOps ==
  ASSUME NEW h, AsClosed(h)
  PROVE  /\ \A fs \in SUBSET (Flags \ {"CLOSING", "CLOSED"}) :
              AsClosed(With(h, fs)) /\ AsClosed(Without(h, fs))
         /\ AsClosed(More(h)) /\ AsClosed(Decrease(h))
         /\ \A n \in Nat : /\ AsClosed([h EXCEPT !.write_reqs_pending = n])
                           /\ AsClosed([h EXCEPT !.processed_accepts = n])
                           /\ AsClosed([h EXCEPT !.reqs_pending = @ + n])
         /\ AsClosed([h EXCEPT !.write_reqs_pending = @ - 1])
         /\ AsClosed([h EXCEPT !.write_reqs_pending = @ + 1])
         /\ AsClosed([h EXCEPT !.processed_accepts = @ + 1])
<1>1. ASSUME NEW g, AsClosed(g), NEW fs \in SUBSET (Flags \ {"CLOSING", "CLOSED"})
      PROVE  AsClosed(With(g, fs)) /\ AsClosed(Without(g, fs))
  BY <1>1 DEF AsClosed, With, Without
<1>2. AsClosed(More(h))
  BY DEF AsClosed, More
<1>3. AsClosed(Decrease(h))
  <2> DEFINE d == [h EXCEPT !.reqs_pending = @ - 1]
  <2>1. AsClosed(d)
    BY DEF AsClosed
  <2>2. Decrease(h) = d \/ Decrease(h) = With(d, {"ENDGAME_QUEUED"})
    BY DEF Decrease
  <2>3. {"ENDGAME_QUEUED"} \in SUBSET (Flags \ {"CLOSING", "CLOSED"})
    BY DEF Flags
  <2> HIDE DEF d
  <2> QED
    BY <1>1, <2>1, <2>2, <2>3
<1>4. \A n \in Nat : /\ AsClosed([h EXCEPT !.write_reqs_pending = n])
                     /\ AsClosed([h EXCEPT !.processed_accepts = n])
                     /\ AsClosed([h EXCEPT !.reqs_pending = @ + n])
  BY DEF AsClosed
<1>5. /\ AsClosed([h EXCEPT !.write_reqs_pending = @ - 1])
      /\ AsClosed([h EXCEPT !.write_reqs_pending = @ + 1])
      /\ AsClosed([h EXCEPT !.processed_accepts = @ + 1])
  BY DEF AsClosed
<1> QED
  BY <1>1, <1>2, <1>3, <1>4, <1>5

(* Which sets of flags the actions touch.                                  *)
LEMMA OtherFlags ==
  \A f \in Flags \ {"CLOSING", "CLOSED"}, g \in Flags \ {"CLOSING", "CLOSED"} :
    {f, g} \in SUBSET (Flags \ {"CLOSING", "CLOSED"}) /\ {f} \in SUBSET (Flags \ {"CLOSING", "CLOSED"})
OBVIOUS

(* The contract's view of a state.                                         *)
Out     == {r \in UserReqs : status[r] = "active"}
Over    == {r \in UserReqs : status[r] \in {"ok", "error"}}
Stream  == IF ~Closing THEN "open" ELSE IF Closed THEN "closed" ELSE "closing"

(* A step that answers nothing and closes nothing is none of the contract. *)
LEMMA ContractKept ==
  ASSUME UNCHANGED status, AsClosed(handle')
  PROVE  UNCHANGED Contract!vars
<1>1. Closing' = Closing /\ Closed' = Closed
  BY DEF AsClosed, Closing, Closed, Has
<1> QED
  BY <1>1 DEF Contract!vars

(* A request of the program is accepted.                                   *)
LEMMA RefinesSubmit ==
  ASSUME WinInv, NEW r \in UserReqs, status[r] = "idle", ~Has("CLOSING"),
         Answer(r, "active"), AsClosed(handle'),
         r # ConnReq => Has("CONNECTION") /\ ~Has("SHUTTING")
  PROVE  Contract!Submit(r)
<1>1. /\ status' \in [UserReqs -> {"idle", "active", "ok", "error"}]
      /\ status'[r] = "active" /\ \A q \in UserReqs : q # r => status'[q] = status[q]
      /\ ShutReq \in UserReqs /\ ConnReq \in UserReqs
  BY HandleFacts, AnswerFacts DEF UserReqs
<1>2. Stream = "open" /\ Stream' = Stream
  BY DEF Stream, AsClosed, Closing, Closed, Has
<1>3. r \notin Out \cup Over /\ Out' = Out \cup {r} /\ Over' = Over
  BY <1>1 DEF Out, Over
<1>4. r # ConnReq => ConnReq \in Over /\ ShutReq \notin Out \cup Over
  BY <1>1 DEF Out, Over, WinInv, FlagsInv
<1> QED
  BY <1>2, <1>3, <1>4 DEF Contract!Submit, Out, Over, Stream

(* A callback is called.                                                   *)
LEMMA RefinesAnswer ==
  ASSUME WinInv, NEW r \in UserReqs, status[r] = "active", ~Has("CLOSED"),
         NEW s \in {"ok", "error"}, Answer(r, s), AsClosed(handle'),
         r = ShutReq => Active = {}
  PROVE  Contract!Answer(r)
<1>1. /\ status' \in [UserReqs -> {"idle", "active", "ok", "error"}]
      /\ status'[r] = s /\ \A q \in UserReqs : q # r => status'[q] = status[q]
  BY HandleFacts, AnswerFacts
<1>2. Stream # "closed" /\ Stream' = Stream
  BY DEF Stream, AsClosed, Closing, Closed, Has
<1>3. r \in Out /\ Out' = Out \ {r} /\ Over' = Over \cup {r}
  BY <1>1 DEF Out, Over
<1>4. r = ShutReq => Out \cap WReqs = {}
  BY DEF Out, Active
<1> QED
  BY <1>2, <1>3, <1>4 DEF Contract!Answer, Out, Over, Stream

(* The handle before the step.                                             *)
LEMMA ClosedNow ==
  ASSUME WinInv
  PROVE  AsClosed(handle)
BY HandleFacts DEF AsClosed, Has, Handles

(* A read or an accept that is posted closes nothing.                      *)
LEMMA PostedKept ==
  ASSUME NEW h, AsClosed(h)
  PROVE  /\ QueueRead(h) => AsClosed(handle')
         /\ \A a, r : QueueAccept(h, a, r) => AsClosed(handle')
<1>1. {"READ_PENDING"} \in SUBSET (Flags \ {"CLOSING", "CLOSED"})
  BY DEF Flags
<1>2. AsClosed(With(h, {"READ_PENDING"}))
  BY <1>1, ClosedOps
<1>3. AsClosed(More(h)) /\ AsClosed(More(With(h, {"READ_PENDING"})))
  BY <1>2, ClosedOps
<1> QED
  BY <1>3 DEF QueueRead, QueueAccept

(* What the loop and the kernel do on their own.                           *)
LEMMA LoopStutters ==
  ASSUME WinInv,
         \/ Flush \/ Poll \/ NoEndgame \/ Flushed \/ Stopped \/ Return \/ Receive \/ ReadReqDone
         \/ \E r \in AReqs : AcceptReq(r) \/ AcceptAgain(r)
         \/ \E i \in DOMAIN kernel : Complete(i)
  PROVE  UNCHANGED Contract!vars
<1>1. AsClosed(handle)
  BY ClosedNow
<1>2. AsClosed(Decrease(handle))
  BY <1>1, ClosedOps
<1>3. \A f \in {"READ_PENDING", "READING", "EOF", "LISTENING", "ENDGAME_QUEUED"} :
        {f} \in SUBSET (Flags \ {"CLOSING", "CLOSED"})
  BY DEF Flags
<1>4. CASE \/ Flush \/ Poll \/ NoEndgame \/ Flushed \/ Stopped
           \/ \E r \in AReqs : AcceptAgain(r)
           \/ \E i \in DOMAIN kernel : Complete(i)
  <2>1. UNCHANGED status /\ AsClosed(handle')
    BY <1>1, <1>2, <1>4 DEF Flush, Poll, NoEndgame, Flushed, Stopped, AcceptAgain, Complete
  <2> QED
    BY <2>1, ContractKept
<1>5. CASE Return
  <2>1. UNCHANGED status /\ \/ handle' = handle \/ Post \/ handle' = Decrease(handle)
                            \/ handle' = Decrease(Written)
    BY <1>5 DEF Return
  <2>2. Post => AsClosed(handle')
    BY <1>2, PostedKept DEF Post
  <2>3. AsClosed(Written)
    <3> DEFINE h == [handle EXCEPT !.write_reqs_pending = @ - 1]
    <3>1. AsClosed(h)
      BY <1>1, ClosedOps
    <3>2. Written = h \/ Written = With(h, {"ENDGAME_QUEUED"})
      BY DEF Written
    <3> HIDE DEF h
    <3>3. AsClosed(With(h, {"ENDGAME_QUEUED"}))
      BY <1>3, <3>1, ClosedOps
    <3> QED
      BY <3>1, <3>2, <3>3
  <2>4. AsClosed(Decrease(Written))
    BY <2>3, ClosedOps
  <2> QED
    BY <1>1, <1>2, <2>1, <2>2, <2>4, ContractKept
<1>6. CASE Receive
  <2>1. UNCHANGED status /\ \/ handle' = handle
                            \/ \E eof \in {{}, {"EOF"}} :
                                 handle' = With(Without(handle, {"READING"}), eof)
    BY <1>6 DEF Receive
  <2>2. \A eof \in {{}, {"EOF"}} : AsClosed(With(Without(handle, {"READING"}), eof))
    <3>1. AsClosed(Without(handle, {"READING"}))
      BY <1>1, <1>3, ClosedOps
    <3> QED
      BY <1>3, <3>1, ClosedOps
  <2> QED
    BY <1>1, <2>1, <2>2, ContractKept
<1>7. CASE ReadReqDone
  <2> DEFINE h == Without(handle, {"READ_PENDING"})
  <2>1. UNCHANGED status /\ \/ handle' = h \/ handle' = Decrease(h)
                            \/ \E eof \in {{}, {"EOF"}} :
                                 handle' = With(Without(h, {"READING"}), eof)
    BY <1>7 DEF ReadReqDone
  <2>2. AsClosed(h)
    BY <1>1, <1>3, ClosedOps
  <2> HIDE DEF h
  <2>3. \A eof \in {{}, {"EOF"}} : AsClosed(With(Without(h, {"READING"}), eof))
    <3>1. AsClosed(Without(h, {"READING"}))
      BY <1>3, <2>2, ClosedOps
    <3> QED
      BY <1>3, <3>1, ClosedOps
  <2> QED
    BY <2>1, <2>2, <2>3, ClosedOps, ContractKept
<1>8. ASSUME NEW r \in AReqs, AcceptReq(r) PROVE UNCHANGED Contract!vars
  <2>1. UNCHANGED status /\ \/ handle' = handle \/ handle' = Decrease(handle)
                            \/ handle' = Without(handle, {"LISTENING"})
    BY <1>8 DEF AcceptReq
  <2>2. AsClosed(Without(handle, {"LISTENING"}))
    BY <1>1, <1>3, ClosedOps
  <2> QED
    BY <1>1, <1>2, <2>1, <2>2, ContractKept
<1> QED
  BY <1>4, <1>5, <1>6, <1>7, <1>8

(* Reading, listening, and accepting.                                      *)
LEMMA ProgramStutters ==
  ASSUME WinInv,
         \/ uv_read_start \/ uv_read_stop \/ uv_tcp_listen \/ uv_tcp_accept
         \/ uv_tcp_simultaneous_accepts
  PROVE  UNCHANGED Contract!vars
<1>1. AsClosed(handle)
  BY ClosedNow
<1>2. /\ {"READING"} \in SUBSET (Flags \ {"CLOSING", "CLOSED"})
      /\ {"ACCEPT_STATE_CHANGING"} \in SUBSET (Flags \ {"CLOSING", "CLOSED"})
      /\ {"BOUND", "LISTENING"} \in SUBSET (Flags \ {"CLOSING", "CLOSED"})
      /\ {"SINGLE_ACCEPT"} \cup {} \in SUBSET (Flags \ {"CLOSING", "CLOSED"})
      /\ {"SINGLE_ACCEPT"} \cup {"ACCEPT_STATE_CHANGING"} \in SUBSET (Flags \ {"CLOSING", "CLOSED"})
  BY DEF Flags
<1>3. CASE uv_read_start \/ uv_read_stop
  <2>1. UNCHANGED status /\ \/ handle' = With(handle, {"READING"})
                            \/ handle' = Without(handle, {"READING"})
                            \/ QueueRead(With(handle, {"READING"}))
    BY <1>3 DEF uv_read_start, uv_read_stop
  <2>2. AsClosed(With(handle, {"READING"})) /\ AsClosed(Without(handle, {"READING"}))
    BY <1>1, <1>2, ClosedOps
  <2> QED
    BY <2>1, <2>2, PostedKept, ContractKept
<1>4. CASE uv_tcp_listen
  <2> DEFINE h == With(handle, {"BOUND", "LISTENING"})
  <2>1. AsClosed(h)
    BY <1>1, <1>2, ClosedOps
  <2>2. UNCHANGED status /\ \E n \in Nat : handle' = [h EXCEPT !.reqs_pending = @ + n]
    <3>1. PICK D \in SUBSET AReqs :
            UNCHANGED status /\ handle' = [h EXCEPT !.reqs_pending = @ + Cardinality(D)]
      <4> DEFINE A == IF Has("SINGLE_ACCEPT") THEN {FirstA} ELSE AReqs
                 K == {"kernel"} \cup (IF Has("SYNC_BYPASS_IOCP") THEN {"at once"} ELSE {})
                        \cup (IF May("accept_fails") THEN {"failing"} ELSE {})
      <4>1. A \in SUBSET AReqs
        BY WinAssumption
      <4>2. UNCHANGED status /\ \E how \in [A -> K] :
              handle' = [h EXCEPT !.reqs_pending = @ + Cardinality(DOMAIN how)]
        BY <1>4 DEF uv_tcp_listen
      <4> HIDE DEF A, K, h
      <4>3. PICK how \in [A -> K] :
              UNCHANGED status /\ handle' = [h EXCEPT !.reqs_pending = @ + Cardinality(DOMAIN how)]
        BY <4>2
      <4>4. DOMAIN how = A
        OBVIOUS
      <4> QED
        BY <4>1, <4>3, <4>4
    <3>2. Cardinality(D) \in Nat
      BY WinAssumption, FS_Subset, FS_CardinalityType
    <3> QED
      BY <3>1, <3>2
  <2> HIDE DEF h
  <2>3. PICK n \in Nat : handle' = [h EXCEPT !.reqs_pending = @ + n]
    BY <2>2
  <2>4. AsClosed([h EXCEPT !.reqs_pending = @ + n])
    BY <2>1, ClosedOps
  <2> QED
    BY <2>2, <2>3, <2>4, ContractKept
<1>5. CASE uv_tcp_accept
  <2> DEFINE g == Without(handle, {"ACCEPT_STATE_CHANGING"})
             h == [g EXCEPT !.processed_accepts = 0]
  <2>1. UNCHANGED status /\ \/ handle' = handle
                            \/ handle' = [handle EXCEPT !.processed_accepts = @ + 1]
                            \/ \E a, r : QueueAccept(handle, a, r) \/ QueueAccept(h, a, r)
    BY <1>5 DEF uv_tcp_accept
  <2>2. AsClosed(g)
    BY <1>1, <1>2, ClosedOps
  <2> HIDE DEF g
  <2>3. AsClosed(h)
    BY <2>2, ClosedOps
  <2> HIDE DEF h
  <2>4. AsClosed([handle EXCEPT !.processed_accepts = @ + 1])
    BY <1>1, ClosedOps
  <2>5. AsClosed(handle')
    BY <1>1, <2>1, <2>3, <2>4, PostedKept
  <2> QED
    BY <2>1, <2>5, ContractKept
<1>6. CASE uv_tcp_simultaneous_accepts
  <2>1. /\ UNCHANGED status
        /\ \/ handle' = With(handle, {"SINGLE_ACCEPT"} \cup {})
           \/ handle' = With(handle, {"SINGLE_ACCEPT"} \cup {"ACCEPT_STATE_CHANGING"})
    BY <1>6 DEF uv_tcp_simultaneous_accepts
  <2>2. /\ AsClosed(With(handle, {"SINGLE_ACCEPT"} \cup {}))
        /\ AsClosed(With(handle, {"SINGLE_ACCEPT"} \cup {"ACCEPT_STATE_CHANGING"}))
    BY <1>1, <1>2, ClosedOps
  <2> QED
    BY <2>1, <2>2, ContractKept
<1> QED
  BY <1>3, <1>4, <1>5, <1>6

(* The program's requests and uv_close.                                    *)
LEMMA ProgramRefines ==
  ASSUME WinInv, Program
  PROVE  [Contract!Next]_(Contract!vars)
<1>1. AsClosed(handle) /\ ShutReq \in UserReqs /\ ConnReq \in UserReqs /\ WReqs \subseteq UserReqs
  BY ClosedNow DEF UserReqs
<1>2. Contract!Reqs = UserReqs
  BY DEF Contract!Reqs, UserReqs
<1>3. /\ {"BOUND"} \in SUBSET (Flags \ {"CLOSING", "CLOSED"})
      /\ {"SHUTTING", "ENDGAME_QUEUED"} \in SUBSET (Flags \ {"CLOSING", "CLOSED"})
  BY DEF Flags
<1>4. CASE uv_tcp_connect
  <2>1. AsClosed(With(handle, {"BOUND"}))
    BY <1>1, <1>3, ClosedOps
  <2>2. AsClosed(handle')
    BY <1>4, <2>1, ClosedOps DEF uv_tcp_connect
  <2>3. /\ ~Has("CLOSING") /\ ~Has("BOUND") /\ status[ConnReq] = "idle"
        /\ Answer(ConnReq, "active")
    BY <1>4 DEF uv_tcp_connect, UserMayCall, WinInv, FlagsInv, Has
  <2>4. Contract!Submit(ConnReq)
    BY <1>1, <2>2, <2>3, RefinesSubmit
  <2> QED
    BY <1>1, <1>2, <2>4 DEF Contract!Next
<1>5. CASE uv_shutdown
  <2>1. AsClosed(With(handle, {"SHUTTING", "ENDGAME_QUEUED"}))
    BY <1>1, <1>3, ClosedOps
  <2>2. AsClosed(handle')
    BY <1>5, <2>1, ClosedOps DEF uv_shutdown
  <2>3. /\ ~Has("CLOSING") /\ Has("CONNECTION") /\ ~Has("SHUTTING") /\ status[ShutReq] = "idle"
        /\ Answer(ShutReq, "active")
    BY <1>5 DEF uv_shutdown, UserMayCall, WinInv, FlagsInv
  <2>4. Contract!Submit(ShutReq)
    BY <1>1, <2>2, <2>3, RefinesSubmit
  <2> QED
    BY <1>1, <1>2, <2>4 DEF Contract!Next
<1>6. ASSUME NEW r \in WReqs, uv_tcp_write(r) PROVE [Contract!Next]_(Contract!vars)
  <2>1. /\ ~Has("CLOSING") /\ Has("CONNECTION") /\ ~Has("SHUTTING") /\ status[r] = "idle"
        /\ Answer(r, "active") /\ r \in UserReqs
        /\ handle' = [More(handle) EXCEPT !.write_reqs_pending = @ + 1]
    BY <1>1, <1>6 DEF uv_tcp_write, UserMayCall
  <2>2. AsClosed(More(handle))
    BY <1>1, ClosedOps
  <2>3. AsClosed(handle')
    BY <2>1, <2>2, ClosedOps
  <2>4. Contract!Submit(r)
    BY <2>1, <2>3, RefinesSubmit
  <2> QED
    BY <1>2, <2>1, <2>4 DEF Contract!Next
<1>7. CASE uv_close
  <2>1. /\ UNCHANGED status /\ ~Has("CLOSING") /\ handle'.flags =
             (handle.flags \ {"READING", "LISTENING"}) \cup ({"CLOSING", "SHUT"} \cup
                (IF handle.reqs_pending = 0 THEN {"ENDGAME_QUEUED"} ELSE {}))
    <3> DEFINE h == Without(handle, {"READING", "LISTENING"})
               fs == {"CLOSING", "SHUT"} \cup
                       (IF handle.reqs_pending = 0 THEN {"ENDGAME_QUEUED"} ELSE {})
    <3>1. {"READING", "LISTENING"} \in SUBSET Flags /\ fs \in SUBSET Flags
      BY DEF Flags
    <3>2. h \in Handles /\ h.flags = handle.flags \ {"READING", "LISTENING"}
      BY <3>1, HandleFacts, HandleOps
    <3>3. UNCHANGED status /\ ~Has("CLOSING") /\ handle' = With(h, fs)
      BY <1>7 DEF uv_close, UserMayCall
    <3> HIDE DEF h, fs
    <3>4. handle'.flags = h.flags \cup fs
      BY <3>1, <3>2, <3>3, HandleOps
    <3> QED
      BY <3>2, <3>3, <3>4 DEF fs
  <2>2. ~Has("CLOSED")
    BY <2>1 DEF WinInv, FlagsInv
  <2>3. Closing' /\ ~Closed' /\ ~Closing
    BY <2>1, <2>2 DEF Closing, Closed, Has
  <2>4. Contract!Close
    BY <2>1, <2>3 DEF Contract!Close
  <2> QED
    BY <2>4 DEF Contract!Next
<1> QED
  BY <1>4, <1>5, <1>6, <1>7, ProgramStutters DEF Program

(* A request of the program that is taken from the loop is due.            *)
LEMMA TakenIsDue ==
  ASSUME WinInv, NEW r \in WReqs \cup {ConnReq}, Processes(r)
  PROVE  status[r] = "active" /\ ~Has("CLOSED") /\ r # ShutReq /\ r \in UserReqs
<1>1. r \in Held
  <2>1. Head(pending_reqs) \in ToSet(pending_reqs)
    BY HandleFacts, QueueTypes, TailOnce DEF Processes, InOnePlace
  <2> QED
    BY <2>1 DEF Processes, Held
<1>2. ~Has("CLOSED")
  BY <1>1, NothingAfterClose
<1> QED
  BY <1>1, <1>2, Distinct DEF WinInv, HeldInv, UserReqs

(* The callbacks.                                                          *)
LEMMA LoopRefines ==
  ASSUME WinInv, Loop \/ \E i \in DOMAIN kernel : Complete(i)
  PROVE  [Contract!Next]_(Contract!vars)
<1>1. AsClosed(handle) /\ ShutReq \in UserReqs /\ ConnReq \in UserReqs /\ WReqs \subseteq UserReqs
  BY ClosedNow DEF UserReqs
<1>2. Contract!Reqs = UserReqs
  BY DEF Contract!Reqs, UserReqs
<1>3. /\ {"CONNECTION"} \in SUBSET (Flags \ {"CLOSING", "CLOSED"})
      /\ {"SHUT"} \in SUBSET (Flags \ {"CLOSING", "CLOSED"})
      /\ {"ENDGAME_QUEUED"} \in SUBSET (Flags \ {"CLOSING", "CLOSED"})
  BY DEF Flags
<1>4. ASSUME NEW r \in WReqs, WriteReq(r) PROVE [Contract!Next]_(Contract!vars)
  <2>1. status[r] = "active" /\ ~Has("CLOSED") /\ r # ShutReq /\ r \in UserReqs
    BY <1>4, TakenIsDue DEF WriteReq
  <2>2. PICK s \in {"ok", "error"} : Answer(r, s)
    BY <1>4 DEF WriteReq
  <2>3. AsClosed(handle')
    BY <1>1, <1>4 DEF WriteReq
  <2>4. Contract!Answer(r)
    BY <2>1, <2>2, <2>3, RefinesAnswer
  <2> QED
    BY <1>2, <2>1, <2>4 DEF Contract!Next
<1>5. CASE ConnectReq
  <2>1. status[ConnReq] = "active" /\ ~Has("CLOSED") /\ ConnReq # ShutReq
    BY <1>5, TakenIsDue DEF ConnectReq
  <2>2. PICK s \in {"ok", "error"} : Answer(ConnReq, s)
    BY <1>5 DEF ConnectReq
  <2>3. AsClosed(With(handle, {"CONNECTION"}))
    BY <1>1, <1>3, ClosedOps
  <2>4. AsClosed(handle')
    <3> DEFINE h == With(handle, {"CONNECTION"})
    <3>1. handle' = [h EXCEPT !.write_reqs_pending = 0] \/ handle' = handle
      BY <1>5 DEF ConnectReq
    <3>2. AsClosed(h)
      BY <2>3
    <3> HIDE DEF h
    <3>3. \A n \in Nat : AsClosed([h EXCEPT !.write_reqs_pending = n])
      BY <3>2, ClosedOps
    <3>4. AsClosed([h EXCEPT !.write_reqs_pending = 0])
      BY <3>3
    <3> QED
      BY <1>1, <3>1, <3>4
  <2>5. Contract!Answer(ConnReq)
    BY <1>1, <2>1, <2>2, <2>4, RefinesAnswer
  <2> QED
    BY <1>1, <1>2, <2>5 DEF Contract!Next
<1>6. CASE Endgame
  <2> DEFINE h == Without(handle, {"ENDGAME_QUEUED"})
  <2>1. AsClosed(h)
    BY <1>1, <1>3, ClosedOps
  <2>2. \/ /\ ShutsDown /\ Has("ENDGAME_QUEUED")
           /\ handle' \in {h, With(h, {"SHUT"})} /\ \E s \in {"ok", "error"} : Answer(ShutReq, s)
        \/ /\ Has("CLOSING") /\ handle.reqs_pending = 0
           /\ handle' = With(h, {"CLOSED"}) /\ UNCHANGED status
        \/ handle' = h /\ UNCHANGED status
    BY <1>6 DEF Endgame, Answer, ctl
  <2> HIDE DEF h
  <2>3. CASE /\ ShutsDown /\ Has("ENDGAME_QUEUED")
             /\ handle' \in {h, With(h, {"SHUT"})} /\ \E s \in {"ok", "error"} : Answer(ShutReq, s)
    <3>1. status[ShutReq] = "active" /\ ~Has("CLOSED")
      BY <2>3 DEF ShutsDown, WinInv, ShutInv, FlagsInv, Has
    <3>2. Active = {}
      BY <2>3, CountFacts, ActiveCounts DEF ShutsDown, Has
    <3>3. AsClosed(handle')
      <4>1. AsClosed(With(h, {"SHUT"}))
        BY <2>1, ClosedOps DEF Flags
      <4> QED
        BY <2>1, <2>3, <4>1
    <3>4. Contract!Answer(ShutReq)
      BY <1>1, <2>3, <3>1, <3>2, <3>3, RefinesAnswer
    <3> QED
      BY <1>1, <1>2, <3>4 DEF Contract!Next
  <2>4. CASE /\ Has("CLOSING") /\ handle.reqs_pending = 0
             /\ handle' = With(h, {"CLOSED"}) /\ UNCHANGED status
    <3>1. "CLOSING" \in handle'.flags /\ "CLOSED" \in handle'.flags
      BY <2>1, <2>4 DEF AsClosed, With
    <3>2. Closing /\ Closing' /\ Closed'
      BY <2>4, <3>1 DEF Closing, Closed, Has
    <3>3. Out = {}
      <4>1. Cardinality(Held) = 0 /\ ShutDue = 0
        BY <2>4, CountFacts
      <4>2. Held = {} /\ status[ShutReq] # "active"
        BY <4>1, HandleFacts, HeldCounts DEF ShutDue
      <4> QED
        BY <4>2 DEF Out, UserReqs, WinInv, HeldInv
    <3>4. CASE Closed
      BY <2>4, <3>2, <3>4 DEF Contract!vars
    <3>5. CASE ~Closed
      <4>1. Contract!Finish
        BY <2>4, <3>2, <3>3, <3>5 DEF Contract!Finish, Out
      <4> QED
        BY <4>1 DEF Contract!Next
    <3> QED
      BY <3>4, <3>5
  <2>5. CASE handle' = h /\ UNCHANGED status
    BY <2>1, <2>5, ContractKept
  <2> QED
    BY <2>2, <2>3, <2>4, <2>5
<1> QED
  BY <1>4, <1>5, <1>6, LoopStutters DEF Loop

(* Each request that was accepted is answered once, a shutdown after all   *)
(* writes, and close_cb comes when all are answered (WinContract).         *)
THEOREM WinImplementsContract ==
  ASSUME ReadsOnce
  PROVE  Spec => ImplementsContract
<1>1. Init => Contract!Init
  <2>1. ASSUME Init PROVE ~Closing /\ \A r \in UserReqs : status[r] = "idle"
    BY <2>1 DEF Init, Closing, Has
  <2> QED
    BY <2>1 DEF Contract!Init
<1>2. WinInv /\ [Next]_vars => [Contract!Next]_(Contract!vars)
  <2>1. ASSUME UNCHANGED vars PROVE UNCHANGED Contract!vars
    BY <2>1 DEF vars, Contract!vars, Closing, Closed, Has
  <2> QED
    BY <2>1, ProgramRefines, LoopRefines DEF Next
<1>3. Spec => []WinInv
  BY ReadsOnce, WinInvHolds
<1> QED
  BY <1>1, <1>2, <1>3, PTL DEF Spec, ImplementsContract, Contract!Spec
=============================================================================
