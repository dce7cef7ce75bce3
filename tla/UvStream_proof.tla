--------------------------- MODULE UvStream_proof ---------------------------
(***************************************************************************)
(* Proofs about UvStream, for every set of requests, every length and      *)
(* buffer size: every variable keeps its type, and no wakeup of the write  *)
(* side is lost as long as connect(2) only gives the answers uv__connect   *)
(* expects, and, whatever it answers, UvStream implements StreamContract:  *)
(* a write is called back once, in order, and never after close_cb.  No    *)
(* byte of a write is lost count of; and for a program that closes where   *)
(* it has to, no assertion of the C code fails and a shutdown waits for    *)
(* the writes before it.                                                   *)
(***************************************************************************)
EXTENDS UvStreamProps, SequenceTheorems, FiniteSetTheorems, WellFoundedInduction, TLAPS

-----------------------------------------------------------------------------
(* The queue of finished requests before the queue of those still to do.   *)

(* Finishing the head of the second queue leaves their concatenation.      *)
LEMMA FinishKeepsOrder ==
  ASSUME NEW S, NEW c \in Seq(S), NEW q \in Seq(S), q # <<>>
  PROVE  Append(c, Head(q)) \o Tail(q) = c \o q
<1>1. /\ Head(q) \in S /\ Tail(q) \in Seq(S) /\ Len(Tail(q)) = Len(q) - 1
      /\ \A i \in 1..Len(Tail(q)) : Tail(q)[i] = q[i + 1]
      /\ Len(q) \in Nat \ {0} /\ Head(q) = q[1]
  BY HeadTailProperties, EmptySeq
<1>2. /\ Append(c, Head(q)) \in Seq(S) /\ Len(Append(c, Head(q))) = Len(c) + 1
      /\ \A i \in 1..Len(c) : Append(c, Head(q))[i] = c[i]
      /\ Append(c, Head(q))[Len(c) + 1] = Head(q)
      /\ Len(c) \in Nat
  BY <1>1
<1> DEFINE l == Append(c, Head(q)) \o Tail(q)
           r == c \o q
<1>3. /\ l \in Seq(S) /\ Len(l) = Len(c) + Len(q)
      /\ r \in Seq(S) /\ Len(r) = Len(c) + Len(q)
  BY <1>1, <1>2, ConcatProperties
<1>4. ASSUME NEW i \in 1..Len(l) PROVE l[i] = r[i]
  <2>1. /\ l[i] = IF i <= Len(c) + 1 THEN Append(c, Head(q))[i]
                                     ELSE Tail(q)[i - (Len(c) + 1)]
        /\ r[i] = IF i <= Len(c) THEN c[i] ELSE q[i - Len(c)]
    BY <1>1, <1>2, <1>3, ConcatProperties
  <2> QED
    BY <1>1, <1>2, <1>3, <2>1
<1> HIDE DEF l, r
<1>5. l = r
  BY <1>3, <1>4, SeqEqual
<1> QED
  BY <1>5 DEF l, r

(* Submitting appends to the concatenation.                                *)
LEMMA SubmitAppends ==
  ASSUME NEW S, NEW c \in Seq(S), NEW q \in Seq(S), NEW r \in S
  PROVE  c \o Append(q, r) = Append(c \o q, r)
<1>1. Append(q, r) = q \o <<r>> /\ Append(c \o q, r) = (c \o q) \o <<r>> /\ <<r>> \in Seq(S)
  BY ConcatProperties, AppendIsConcat
<1> QED
  BY <1>1, ConcatAssociative

(* Calling back the head of the first queue takes the head of the whole.   *)
LEMMA AnswerTakesHead ==
  ASSUME NEW S, NEW c \in Seq(S), NEW q \in Seq(S), c # <<>>
  PROVE  /\ c \o q # <<>> /\ Head(c \o q) = Head(c)
         /\ Tail(c \o q) = Tail(c) \o q
<1>1. /\ Head(c) = c[1] /\ Tail(c) \in Seq(S) /\ Len(Tail(c)) = Len(c) - 1
      /\ \A i \in 1..Len(Tail(c)) : Tail(c)[i] = c[i + 1]
      /\ Len(c) \in Nat \ {0} /\ Len(q) \in Nat
  BY HeadTailProperties, EmptySeq
<1>2. /\ c \o q \in Seq(S) /\ Len(c \o q) = Len(c) + Len(q)
      /\ \A i \in 1..Len(c) + Len(q) :
           (c \o q)[i] = IF i <= Len(c) THEN c[i] ELSE q[i - Len(c)]
  BY ConcatProperties
<1>3. c \o q # <<>> /\ Head(c \o q) = Head(c)
  BY <1>1, <1>2, EmptySeq
<1>4. /\ Tail(c \o q) \in Seq(S) /\ Len(Tail(c \o q)) = Len(c \o q) - 1
      /\ \A i \in 1..Len(Tail(c \o q)) : Tail(c \o q)[i] = (c \o q)[i + 1]
  BY <1>2, <1>3, HeadTailProperties
<1>5. /\ Tail(c) \o q \in Seq(S) /\ Len(Tail(c) \o q) = Len(c) + Len(q) - 1
      /\ \A i \in 1..Len(c) + Len(q) - 1 :
           (Tail(c) \o q)[i] = IF i <= Len(c) - 1 THEN Tail(c)[i] ELSE q[i - (Len(c) - 1)]
  BY <1>1, ConcatProperties
<1>6. ASSUME NEW i \in 1..Len(Tail(c \o q)) PROVE Tail(c \o q)[i] = (Tail(c) \o q)[i]
  BY <1>1, <1>2, <1>4, <1>5
<1>7. Tail(c \o q) = Tail(c) \o q
  BY <1>2, <1>4, <1>5, <1>6, SeqEqual
<1> QED
  BY <1>3, <1>7

Slot == Watcher \cup {"none"}

-----------------------------------------------------------------------------
(* The pending array.                                                      *)

(* Feeding keeps the array, and at most appends the watcher.               *)
LEMMA FedFacts ==
  ASSUME NEW p \in Seq(Slot), NEW w \in Slot
  PROVE  /\ Fed(p, w) \in Seq(Slot)
         /\ \E i \in DOMAIN Fed(p, w) : Fed(p, w)[i] = w
         /\ \A v : (\E i \in DOMAIN p : p[i] = v)
                     => \E i \in DOMAIN Fed(p, w) : Fed(p, w)[i] = v
         /\ \A v : v # w /\ (\E i \in DOMAIN Fed(p, w) : Fed(p, w)[i] = v)
                     => \E i \in DOMAIN p : p[i] = v
<1>1. CASE \E i \in DOMAIN p : p[i] = w
  BY <1>1 DEF Fed
<1>2. CASE ~ \E i \in DOMAIN p : p[i] = w
  <2>1. Fed(p, w) = Append(p, w)
    BY <1>2 DEF Fed
  <2>2. /\ Append(p, w) \in Seq(Slot) /\ Len(Append(p, w)) = Len(p) + 1
        /\ Append(p, w)[Len(p) + 1] = w
        /\ \A i \in 1..Len(p) : Append(p, w)[i] = p[i]
    OBVIOUS
  <2> QED
    BY <2>1, <2>2
<1> QED
  BY <1>1, <1>2

(* Clearing a watcher removes it, and nothing else, from the array.        *)
LEMMA ClearedFacts ==
  ASSUME NEW p \in Seq(Slot), NEW w \in Slot
  PROVE  /\ Cleared(p, w) \in Seq(Slot)
         /\ w # "none" => ~ \E i \in DOMAIN Cleared(p, w) : Cleared(p, w)[i] = w
         /\ \A v : v \notin {w, "none"} =>
              ((\E i \in DOMAIN Cleared(p, w) : Cleared(p, w)[i] = v)
                 <=> \E i \in DOMAIN p : p[i] = v)
<1>1. Cleared(p, w) \in [1..Len(p) -> Slot]
  BY DEF Cleared, Slot
<1>2. Cleared(p, w) \in Seq(Slot)
  BY <1>1
<1> QED
  BY <1>2 DEF Cleared

(* A sequence without its last element.                                    *)
LEMMA FrontFacts ==
  ASSUME NEW S, NEW p \in Seq(S), Len(p) # 0
  PROVE  /\ SubSeq(p, 1, Len(p) - 1) \in Seq(S)
         /\ Len(SubSeq(p, 1, Len(p) - 1)) = Len(p) - 1
         /\ \A i \in 1..(Len(p) - 1) : SubSeq(p, 1, Len(p) - 1)[i] = p[i]
<1> DEFINE n == Len(p) - 1
           f == SubSeq(p, 1, n)
<1>1. n \in Nat /\ \A i \in 1..n : p[i] \in S
  OBVIOUS
<1>2. 1 \in Int /\ n \in Int
  BY <1>1
<1> HIDE DEF n
<1>3. /\ f \in Seq(S) /\ Len(f) = IF 1 <= n THEN n - 1 + 1 ELSE 0
      /\ \A i \in 1..(n - 1 + 1) : f[i] = p[1 + i - 1]
  BY <1>1, <1>2, SubSeqProperties
<1> HIDE DEF f
<1>4. f \in Seq(S) /\ Len(f) = n /\ \A i \in 1..n : f[i] = p[i]
  BY <1>1, <1>3
<1> QED
  BY <1>4, Zenon DEF f, n

(* The pending array without its last slot, when w is in that slot.        *)
LEMMA InvokedSlots ==
  ASSUME pendings \in Seq(Slot), NEW w, Invokes(w)
  PROVE  /\ Len(pendings) \in Nat \ {0} /\ pendings[Len(pendings)] = w
         /\ Invoked \in Seq(Slot) /\ Len(Invoked) = Len(pendings) - 1
         /\ \A i \in 1..(Len(pendings) - 1) : Invoked[i] = pendings[i]
<1>1. Len(pendings) \in Nat /\ Len(pendings) # 0
  BY DEF Invokes
<1>2. /\ Invoked \in Seq(Slot) /\ Len(Invoked) = Len(pendings) - 1
      /\ \A i \in 1..(Len(pendings) - 1) : Invoked[i] = pendings[i]
  BY <1>1, FrontFacts, Zenon DEF Invoked
<1> QED
  BY <1>1, <1>2 DEF Invokes

(* It was pending, and no other watcher gains or loses an event.           *)
LEMMA InvokedFacts ==
  ASSUME pendings \in Seq(Slot), NEW w, Invokes(w)
  PROVE  /\ Invoked \in Seq(Slot) /\ w \in Slot
         /\ IsPending(w)
         /\ \A v : (\E i \in DOMAIN Invoked : Invoked[i] = v) => IsPending(v)
         /\ \A v : v # w /\ IsPending(v) => \E i \in DOMAIN Invoked : Invoked[i] = v
BY InvokedSlots DEF IsPending

-----------------------------------------------------------------------------
(* Type correctness.                                                       *)

(* A step that leaves a group of variables alone keeps its type.           *)
LEMMA Kept ==
  /\ HandleTypeOK /\ UNCHANGED handle => HandleTypeOK'
  /\ IoTypeOK /\ UNCHANGED io => IoTypeOK'
  /\ QueueTypeOK /\ UNCHANGED queue => QueueTypeOK'
  /\ CtlTypeOK /\ UNCHANGED ctl => CtlTypeOK'
  /\ KernelTypeOK /\ UNCHANGED kernel => KernelTypeOK'
  /\ HistoryTypeOK /\ UNCHANGED <<status, eof>> => HistoryTypeOK'
<1>1. HandleTypeOK /\ UNCHANGED handle => HandleTypeOK'
  BY DEF HandleTypeOK, handle
<1>2. IoTypeOK /\ UNCHANGED io => IoTypeOK'
  BY DEF IoTypeOK, io
<1>3. QueueTypeOK /\ UNCHANGED queue => QueueTypeOK'
  BY DEF QueueTypeOK, queue
<1>4. CtlTypeOK /\ UNCHANGED ctl => CtlTypeOK'
  BY DEF CtlTypeOK, ctl
<1>5. KernelTypeOK /\ UNCHANGED kernel => KernelTypeOK'
  BY DEF KernelTypeOK, kernel
<1>6. HistoryTypeOK /\ UNCHANGED <<status, eof>> => HistoryTypeOK'
  BY DEF HistoryTypeOK
<1> QED
  BY <1>1, <1>2, <1>3, <1>4, <1>5, <1>6

(* A callback starts: the control point and the history stay well-typed.   *)
LEMMA CallsBackType ==
  ASSUME HistoryTypeOK, NEW cb \in Callback, NEW r \in Reqs \cup {NoReq},
         NEW s \in {"ok", "error"}, CallsBack(cb, r, s), UNCHANGED eof
  PROVE  CtlTypeOK' /\ HistoryTypeOK'
<1>1. CtlTypeOK'
  BY DEF CallsBack, CtlTypeOK
<1>2. status' \in [Reqs -> {"idle", "active", "ok", "error"}]
  BY DEF CallsBack, HistoryTypeOK
<1> QED
  BY <1>1, <1>2 DEF HistoryTypeOK

(* The write attempt, from a well-typed queue.                             *)
LEMMA WriteType ==
  ASSUME IoTypeOK, QueueTypeOK, KernelTypeOK,
         NEW q \in Seq(WReqs), NEW size \in Int, NEW rem \in [WReqs -> Nat],
         NEW p \in Seq(Slot), uv__write(q, size, rem, p),
         UNCHANGED <<read_watcher, conn, rx, unsent, fin>>
  PROVE  IoTypeOK' /\ QueueTypeOK' /\ KernelTypeOK'
<1> USE DEF Slot
<1>1. q # <<>> => Head(q) \in WReqs /\ Tail(q) \in Seq(WReqs)
  OBVIOUS
<1>2. Fed(p, "write") \in Seq(Slot)
  BY FedFacts DEF Watcher
<1>3. ASSUME q # <<>>, uv__write_req_finish(q, p)
      PROVE  /\ write_queue' \in Seq(WReqs) /\ write_completed_queue' \in Seq(WReqs)
             /\ IoTypeOK'
  BY <1>1, <1>2, <1>3 DEF uv__write_req_finish, QueueTypeOK, IoTypeOK
<1>4. CASE q = <<>>
  <2>1. IoTypeOK'
    BY <1>4 DEF uv__write, IoTypeOK
  <2>2. QueueTypeOK'
    BY <1>4 DEF uv__write, QueueTypeOK
  <2>3. KernelTypeOK'
    BY <1>4 DEF uv__write, KernelTypeOK
  <2> QED
    BY <2>1, <2>2, <2>3
<1>5. CASE q # <<>> /\ WriteFails
  <2>1. /\ error' = [error EXCEPT ![Head(q)] = TRUE] /\ soerr' = FALSE
        /\ write_queue_size' = size - uv__write_req_size(rem, Head(q)) /\ left' = rem
        /\ uv__write_req_finish(q, p)
        /\ UNCHANGED room
    BY <1>5 DEF uv__write
  <2>2. error' \in [WReqs -> BOOLEAN]
    BY <1>1, <1>5, <2>1, Zenon DEF QueueTypeOK
  <2>3. write_queue_size' \in Int /\ left' \in [WReqs -> Nat]
    BY <1>1, <1>5, <2>1 DEF uv__write_req_size
  <2>4. KernelTypeOK'
    BY <2>1 DEF KernelTypeOK
  <2> QED
    BY <1>3, <1>5, <2>1, <2>2, <2>3, <2>4 DEF QueueTypeOK
<1>6. CASE q # <<>> /\ ~WriteFails /\ WouldBlock(rem[Head(q)])
  <2>1. IoTypeOK'
    BY <1>6 DEF uv__write, IoTypeOK
  <2>2. QueueTypeOK'
    BY <1>6 DEF uv__write, QueueTypeOK
  <2>3. KernelTypeOK'
    BY <1>6 DEF uv__write, KernelTypeOK
  <2> QED
    BY <2>1, <2>2, <2>3
<1>7. CASE q # <<>> /\ ~WriteFails /\ ~WouldBlock(rem[Head(q)])
  <2>1. PICK n \in 0..room :
          /\ n <= rem[Head(q)] /\ (n = 0 => rem[Head(q)] = 0)
          /\ left' = [rem EXCEPT ![Head(q)] = @ - n]
          /\ write_queue_size' = size - n /\ room' = room - n
          /\ \/ n = rem[Head(q)] /\ uv__write_req_finish(q, p)
             \/ /\ n < rem[Head(q)]
                /\ write_queue' = q /\ write_watcher' = TRUE /\ pendings' = p
                /\ UNCHANGED write_completed_queue
    BY <1>7 DEF uv__write
  <2>2. UNCHANGED <<error, soerr>>
    BY <1>7 DEF uv__write
  <2>3. n \in Nat /\ room - n \in 0..SndBuf /\ size - n \in Int
    BY SizeAssumption DEF KernelTypeOK
  <2>4. rem[Head(q)] - n \in Nat
    BY <1>1, <1>7, <2>1, <2>3
  <2>5. left' \in [WReqs -> Nat]
    BY <2>1, <2>4
  <2>6. IoTypeOK'
    BY <1>3, <1>7, <2>1 DEF IoTypeOK
  <2>7. write_queue' \in Seq(WReqs) /\ write_completed_queue' \in Seq(WReqs)
    BY <1>3, <1>7, <2>1 DEF QueueTypeOK
  <2>8. QueueTypeOK'
    BY <2>1, <2>2, <2>3, <2>5, <2>7 DEF QueueTypeOK
  <2>9. KernelTypeOK'
    BY <2>1, <2>2, <2>3 DEF KernelTypeOK
  <2> QED
    BY <2>6, <2>8, <2>9
<1> QED
  BY <1>4, <1>5, <1>6, <1>7

(* The steps of the loop keep the types.                                   *)
LEMMA LoopType == ASSUME TypeOK, Loop PROVE TypeOK'
<1> USE DEF Slot
<1>0. /\ HandleTypeOK /\ IoTypeOK /\ QueueTypeOK
      /\ CtlTypeOK /\ KernelTypeOK /\ HistoryTypeOK
  BY DEF TypeOK
<1>a. pendings \in Seq(Slot)
  BY <1>0 DEF IoTypeOK
<1>b. ASSUME NEW w, Invokes(w) PROVE Invoked \in Seq(Slot)
  BY <1>a, <1>b, InvokedFacts
<1>c. \A w \in Slot : Cleared(pendings, w) \in Seq(Slot)
  BY <1>a, ClearedFacts
<1>d. \A r \in WReqs : r \in Reqs \cup {NoReq}
  BY DEF Reqs
<1>e. /\ write_queue # <<>> => Head(write_queue) \in WReqs /\ Tail(write_queue) \in Seq(WReqs)
      /\ write_completed_queue # <<>> =>
           /\ Head(write_completed_queue) \in WReqs
           /\ Tail(write_completed_queue) \in Seq(WReqs)
  BY <1>0 DEF QueueTypeOK

<1>1. CASE InvokeDummy
  <2>1. HandleTypeOK' /\ QueueTypeOK' /\ CtlTypeOK' /\ KernelTypeOK' /\ HistoryTypeOK'
    BY <1>0, <1>1, Kept DEF InvokeDummy
  <2>2. IoTypeOK'
    BY <1>0, <1>1, <1>b DEF InvokeDummy, IoTypeOK
  <2> QED
    BY <2>1, <2>2 DEF TypeOK
<1>2. CASE uv__stream_connect
  <2>1. connect_req \in Reqs \cup {NoReq}
    BY <1>0 DEF HandleTypeOK, Reqs
  <2>2. CtlTypeOK' /\ HistoryTypeOK'
    BY <1>0, <1>2, <2>1, CallsBackType DEF uv__stream_connect, Callback
  <2>3. HandleTypeOK'
    BY <1>0, <1>2 DEF uv__stream_connect, HandleTypeOK
  <2>4. Invoked \in Seq(Slot)
    BY <1>2, <1>b DEF uv__stream_connect
  <2>5. IoTypeOK'
    BY <1>0, <1>2, <2>4 DEF uv__stream_connect, IoTypeOK
  <2>6. KernelTypeOK'
    BY <1>0, <1>2 DEF uv__stream_connect, KernelTypeOK
  <2>7. QueueTypeOK'
    BY <1>0, <1>2, Kept DEF uv__stream_connect
  <2> QED
    BY <2>2, <2>3, <2>5, <2>6, <2>7 DEF TypeOK
<1>3. CASE StreamReadable
  <2>1. HandleTypeOK' /\ QueueTypeOK' /\ KernelTypeOK' /\ HistoryTypeOK'
    BY <1>0, <1>3, Kept DEF StreamReadable
  <2>2. IoTypeOK'
    BY <1>0, <1>3, <1>b DEF StreamReadable, IoTypeOK
  <2>3. CtlTypeOK'
    BY <1>0, <1>3 DEF StreamReadable, CtlTypeOK, Internal
  <2> QED
    BY <2>1, <2>2, <2>3 DEF TypeOK
<1>4. CASE StreamWritable
  <2>1. Invoked \in Seq(Slot)
    BY <1>4, <1>b DEF StreamWritable
  <2>2. /\ uv__write(write_queue, write_queue_size, left, Invoked)
        /\ UNCHANGED <<read_watcher, conn, rx, unsent, fin>>
    BY <1>4 DEF StreamWritable
  <2>3. IoTypeOK' /\ QueueTypeOK' /\ KernelTypeOK'
    BY <1>0, <2>1, <2>2, WriteType DEF QueueTypeOK
  <2>4. HandleTypeOK' /\ HistoryTypeOK'
    BY <1>0, <1>4, Kept DEF StreamWritable
  <2>5. CtlTypeOK'
    BY <1>0, <1>4 DEF StreamWritable, CtlTypeOK, Internal
  <2> QED
    BY <2>3, <2>4, <2>5 DEF TypeOK
<1>5. CASE uv__finish_close
  <2>1. QueueTypeOK' /\ KernelTypeOK' /\ HistoryTypeOK'
    BY <1>0, <1>5, Kept DEF uv__finish_close
  <2>2. HandleTypeOK'
    BY <1>0, <1>5 DEF uv__finish_close, HandleTypeOK, Flag
  <2>3. IoTypeOK'
    BY <1>0, <1>5, <1>b DEF uv__finish_close, IoTypeOK
  <2>4. CtlTypeOK'
    BY <1>0, <1>5 DEF uv__finish_close, CtlTypeOK, Internal
  <2> QED
    BY <2>1, <2>2, <2>3, <2>4 DEF TypeOK
<1>6. CASE uv__read
  <2>1. HandleTypeOK' /\ QueueTypeOK'
    BY <1>0, <1>6, Kept DEF uv__read
  <2>2. IoTypeOK'
    BY <1>0, <1>6, <1>c DEF uv__read, StopReading, IoTypeOK, io, Watcher
  <2>3. CtlTypeOK'
    BY <1>0, <1>6 DEF uv__read, ReadsBack, CtlTypeOK, Callback, Internal
  <2>4. KernelTypeOK'
    <3>1. rx' \in Nat
      BY <1>0, <1>6, SizeAssumption DEF uv__read, Nread, KernelTypeOK
    <3>2. soerr' \in BOOLEAN
      BY <1>0, <1>6 DEF uv__read, KernelTypeOK
    <3>3. UNCHANGED <<conn, room, unsent, fin>>
      BY <1>6 DEF uv__read
    <3> QED
      BY <1>0, <3>1, <3>2, <3>3 DEF KernelTypeOK
  <2>5. HistoryTypeOK'
    BY <1>0, <1>6 DEF uv__read, HistoryTypeOK
  <2> QED
    BY <2>1, <2>2, <2>3, <2>4, <2>5 DEF TypeOK
<1>7. CASE uv__write_callbacks
  <2>1. CASE write_completed_queue # <<>>
    <3> DEFINE r == Head(write_completed_queue)
               s == WriteStatus(r)
    <3>1. /\ CallsBack("write_cb", r, s)
          /\ write_completed_queue' = Tail(write_completed_queue)
          /\ UNCHANGED <<handle, io, write_queue, write_queue_size, left, error,
                         kernel, eof>>
      BY <1>7, <2>1 DEF uv__write_callbacks
    <3>2. s \in {"ok", "error"} /\ r \in Reqs \cup {NoReq} /\ "write_cb" \in Callback
      BY <1>d, <1>e, <2>1 DEF Callback, WriteStatus
    <3>3. CtlTypeOK' /\ HistoryTypeOK'
      <4> HIDE DEF r, s
      <4> QED
        BY <1>0, <3>1, <3>2, CallsBackType
    <3>4. QueueTypeOK'
      BY <1>0, <1>e, <2>1, <3>1 DEF QueueTypeOK
    <3> QED
      BY <1>0, <3>1, <3>3, <3>4, Kept DEF TypeOK
  <2>2. CASE write_completed_queue = <<>> /\ write_queue # <<>>
    <3>1. at' = "loop" /\ UNCHANGED <<handle, io, queue, running, kernel, status, eof>>
      BY <1>7, <2>2 DEF uv__write_callbacks, uv_write_queue_head_null
    <3>2. CtlTypeOK'
      BY <1>0, <3>1 DEF CtlTypeOK
    <3> QED
      BY <1>0, <3>1, <3>2, Kept DEF TypeOK
  <2>3. CASE write_completed_queue = <<>> /\ write_queue = <<>>
    <3>1. uv__drain
      BY <1>7, <2>3 DEF uv__write_callbacks, uv_write_queue_head_null
    <3>2. IoTypeOK'
      BY <1>0, <1>c, <3>1 DEF uv__drain, IoTypeOK, Watcher
    <3>3. HandleTypeOK'
      BY <1>0, <3>1 DEF uv__drain, HandleTypeOK, Flag
    <3>4. shutdown_req \in Reqs \cup {NoReq}
      BY <1>0 DEF HandleTypeOK, Reqs
    <3>5. CtlTypeOK' /\ HistoryTypeOK'
      <4>1. CASE at' = "loop" /\ UNCHANGED <<running, status, eof>>
        BY <1>0, <4>1, Kept DEF CtlTypeOK
      <4>2. ASSUME NEW s \in {"ok", "error"}, CallsBack("shutdown_cb", shutdown_req, s)
            PROVE  CtlTypeOK' /\ HistoryTypeOK'
        BY <1>0, <3>1, <3>4, <4>2, CallsBackType DEF uv__drain, Callback
      <4> QED
        BY <3>1, <4>1, <4>2 DEF uv__drain
    <3>6. QueueTypeOK' /\ KernelTypeOK'
      BY <1>0, <3>1, Kept DEF uv__drain
    <3> QED
      BY <3>2, <3>3, <3>5, <3>6 DEF TypeOK
  <2> QED
    BY <2>1, <2>2, <2>3
<1>8. CASE uv__stream_destroy
  <2>1. HandleTypeOK' /\ IoTypeOK' /\ KernelTypeOK'
    BY <1>0, <1>8, Kept DEF uv__stream_destroy
  <2>2. QueueTypeOK'
    BY <1>0, <1>8, <1>e DEF uv__stream_destroy, QueueTypeOK
  <2>3. CtlTypeOK' /\ HistoryTypeOK'
    <3>1. CASE at' = "close_cb" /\ UNCHANGED <<running, status, eof>>
      BY <1>0, <3>1, Kept DEF CtlTypeOK, Callback
    <3>2. ASSUME NEW r \in WReqs, NEW s \in {"ok", "error"}, CallsBack("destroy_cb", r, s)
          PROVE  CtlTypeOK' /\ HistoryTypeOK'
      BY <1>0, <1>8, <1>d, <3>2, CallsBackType DEF uv__stream_destroy, Callback
    <3> QED
      BY <1>8, <1>e, <3>1, <3>2 DEF uv__stream_destroy, WriteStatus
  <2> QED
    BY <2>1, <2>2, <2>3 DEF TypeOK
<1>9. CASE Poll
  <2>1. pendings' \in {<<"read">>, <<"write">>, <<"read", "write">>, <<"write", "read">>}
    BY <1>9 DEF Poll
  <2>2. pendings' \in Seq(Slot)
    <3>1. "read" \in Slot /\ "write" \in Slot
      BY DEF Watcher
    <3>2. /\ <<"read">> \in Seq(Slot) /\ <<"write">> \in Seq(Slot)
          /\ <<"read", "write">> \in Seq(Slot) /\ <<"write", "read">> \in Seq(Slot)
      <4> HIDE DEF Slot
      <4> QED
        BY <3>1
    <3> QED
      BY <2>1, <3>2
  <2>3. IoTypeOK'
    BY <1>0, <1>9, <2>2 DEF Poll, IoTypeOK
  <2> QED
    BY <1>0, <1>9, <2>3, Kept DEF Poll, TypeOK
<1> QED
  BY <1>1, <1>2, <1>3, <1>4, <1>5, <1>6, <1>7, <1>8, <1>9 DEF Loop

(* So do the calls of the program.                                         *)
LEMMA UserType == ASSUME TypeOK, User PROVE TypeOK'
<1> USE DEF Slot
<1>0. /\ HandleTypeOK /\ IoTypeOK /\ QueueTypeOK
      /\ CtlTypeOK /\ KernelTypeOK /\ HistoryTypeOK
  BY DEF TypeOK
<1>a. pendings \in Seq(Slot)
  BY <1>0 DEF IoTypeOK
<1>b. \A p \in Seq(Slot), w \in Slot : Cleared(p, w) \in Seq(Slot)
  BY ClearedFacts
<1>c. \A p \in Seq(Slot), w \in Slot : Fed(p, w) \in Seq(Slot)
  BY FedFacts
<1>1. CASE Return
  <2>1. HandleTypeOK' /\ IoTypeOK' /\ QueueTypeOK' /\ KernelTypeOK' /\ HistoryTypeOK'
    BY <1>0, <1>1, Kept DEF Return
  <2>2. CtlTypeOK'
    BY <1>0, <1>1 DEF Return, CtlTypeOK, Internal
  <2> QED
    BY <2>1, <2>2 DEF TypeOK
<1>2. CASE uv__stream_open
  <2>1. IoTypeOK' /\ QueueTypeOK' /\ CtlTypeOK' /\ HistoryTypeOK'
    BY <1>0, <1>2, Kept DEF uv__stream_open
  <2>2. HandleTypeOK'
    BY <1>0, <1>2 DEF uv__stream_open, HandleTypeOK, Flag
  <2>3. KernelTypeOK'
    BY <1>0, <1>2 DEF uv__stream_open, KernelTypeOK
  <2> QED
    BY <2>1, <2>2, <2>3 DEF TypeOK
<1>3. CASE uv_read_start
  <2>1. QueueTypeOK' /\ CtlTypeOK' /\ KernelTypeOK'
    BY <1>0, <1>3, Kept DEF uv_read_start
  <2>2. HandleTypeOK'
    BY <1>0, <1>3 DEF uv_read_start, HandleTypeOK, Flag
  <2>3. IoTypeOK'
    BY <1>0, <1>3 DEF uv_read_start, IoTypeOK
  <2>4. HistoryTypeOK'
    BY <1>0, <1>3 DEF uv_read_start, HistoryTypeOK
  <2> QED
    BY <2>1, <2>2, <2>3, <2>4 DEF TypeOK
<1>4. CASE uv_read_stop
  <2>1. QueueTypeOK' /\ CtlTypeOK' /\ KernelTypeOK' /\ HistoryTypeOK'
    BY <1>0, <1>4, Kept DEF uv_read_stop
  <2>2. HandleTypeOK'
    BY <1>0, <1>4 DEF uv_read_stop, HandleTypeOK, Flag
  <2>3. IoTypeOK'
    BY <1>0, <1>4, <1>a, <1>b DEF uv_read_stop, IoTypeOK, Watcher
  <2> QED
    BY <2>1, <2>2, <2>3 DEF TypeOK
<1>5. CASE uv_close
  <2>1. QueueTypeOK' /\ CtlTypeOK' /\ HistoryTypeOK'
    BY <1>0, <1>5, Kept DEF uv_close
  <2>2. HandleTypeOK'
    BY <1>0, <1>5 DEF uv_close, HandleTypeOK, Flag
  <2>3. IoTypeOK'
    BY <1>0, <1>5, <1>a, <1>b, <1>c DEF uv_close, IoTypeOK, Watcher
  <2>4. KernelTypeOK'
    BY <1>0, <1>5 DEF uv_close, KernelTypeOK
  <2> QED
    BY <2>1, <2>2, <2>3, <2>4 DEF TypeOK
<1>6. ASSUME NEW c \in CReqs, uv__connect(c) PROVE TypeOK'
  <2>1. PICK r \in ConnectResults :
          /\ conn' = ConnectOutcome(r)
          /\ delayed_error' = (r = "ECONNREFUSED")
          /\ pendings' = IF r = "ECONNREFUSED" THEN Fed(pendings, "write") ELSE pendings
          /\ write_watcher' = (write_watcher \/ r # "EOTHER")
          /\ status' = [status EXCEPT ![c] = IF r = "EOTHER" THEN @ ELSE "active"]
    BY <1>6 DEF uv__connect
  <2>2. pendings' \in Seq(Slot)
    BY <1>a, <1>c, <2>1 DEF Watcher
  <2>3. write_watcher' \in BOOLEAN /\ delayed_error' \in BOOLEAN
    BY <2>1
  <2>4. IoTypeOK'
    BY <1>0, <1>6, <2>2, <2>3 DEF uv__connect, IoTypeOK
  <2>5. HandleTypeOK'
    BY <1>0, <1>6, <2>3 DEF uv__connect, HandleTypeOK, Flag
  <2>6. KernelTypeOK'
    BY <1>0, <1>6, <2>1 DEF uv__connect, KernelTypeOK, ConnectOutcome
  <2>7. c \in Reqs
    BY DEF Reqs
  <2>8. HistoryTypeOK'
    BY <1>0, <1>6, <2>1, <2>7 DEF uv__connect, HistoryTypeOK
  <2>9. QueueTypeOK' /\ CtlTypeOK'
    BY <1>0, <1>6, Kept DEF uv__connect
  <2> QED
    BY <2>4, <2>5, <2>6, <2>8, <2>9 DEF TypeOK
<1>7. ASSUME NEW r \in WReqs, NEW n \in Lens, uv_write(r, n) PROVE TypeOK'
  <2> DEFINE q == Append(write_queue, r)
             size == write_queue_size + n
             rem == [left EXCEPT ![r] = n]
  <2>1. q \in Seq(WReqs) /\ size \in Int /\ rem \in [WReqs -> Nat]
    BY <1>0, SizeAssumption DEF QueueTypeOK
  <2>2. /\ UNCHANGED <<handle, read_watcher, ctl, conn, rx, unsent, fin, eof>>
        /\ status' = [status EXCEPT ![r] = "active"]
        /\ \/ uv__write(q, size, rem, pendings)
           \/ /\ write_queue' = q /\ write_queue_size' = size /\ left' = rem
              /\ write_watcher' = TRUE
              /\ UNCHANGED <<write_completed_queue, error, pendings, soerr, room>>
    BY <1>7 DEF uv_write
  <2> HIDE DEF q, size, rem
  <2>a. UNCHANGED <<read_watcher, conn, rx, unsent, fin>>
    BY <2>2
  <2>3. ASSUME uv__write(q, size, rem, pendings)
        PROVE  IoTypeOK' /\ QueueTypeOK' /\ KernelTypeOK'
    BY <1>0, <1>a, <2>1, <2>a, <2>3, WriteType
  <2>4. ASSUME write_queue' = q, write_queue_size' = size,
               left' = rem, write_watcher' = TRUE,
               UNCHANGED <<write_completed_queue, error, pendings, soerr, room>>
        PROVE  IoTypeOK' /\ QueueTypeOK' /\ KernelTypeOK'
    <3>1. QueueTypeOK'
      BY <1>0, <2>1, <2>4 DEF QueueTypeOK
    <3>2. IoTypeOK'
      BY <1>0, <2>2, <2>4 DEF IoTypeOK
    <3>3. KernelTypeOK'
      BY <1>0, <2>2, <2>4 DEF KernelTypeOK
    <3> QED
      BY <3>1, <3>2, <3>3
  <2>5. IoTypeOK' /\ QueueTypeOK' /\ KernelTypeOK'
    BY <2>2, <2>3, <2>4
  <2>6. r \in Reqs
    BY DEF Reqs
  <2>7. HistoryTypeOK'
    BY <1>0, <2>2, <2>6 DEF HistoryTypeOK
  <2> QED
    BY <1>0, <2>2, <2>5, <2>7, Kept DEF TypeOK
<1>8. ASSUME NEW s \in SReqs, uv_shutdown(s) PROVE TypeOK'
  <2>1. HandleTypeOK'
    BY <1>0, <1>8 DEF uv_shutdown, HandleTypeOK, Flag
  <2>2. IoTypeOK'
    BY <1>0, <1>8 DEF uv_shutdown, IoTypeOK
  <2>3. HistoryTypeOK'
    BY <1>0, <1>8 DEF uv_shutdown, HistoryTypeOK, Reqs
  <2> QED
    BY <1>0, <1>8, <2>1, <2>2, <2>3, Kept DEF uv_shutdown, TypeOK
<1> QED
  BY <1>1, <1>2, <1>3, <1>4, <1>5, <1>6, <1>7, <1>8 DEF User

(* And so do the kernel and the peer.                                      *)
LEMMA EnvironmentType == ASSUME TypeOK, Environment PROVE TypeOK'
<1>1. UNCHANGED <<handle, io, queue, ctl, status, eof>>
  BY DEF Environment, ConnResolve, PeerSends, PeerReads, PeerFinishes, PeerResets
<1>2. KernelTypeOK'
  <2>0. KernelTypeOK
    BY DEF TypeOK
  <2>1. CASE ConnResolve
    BY <2>0, <2>1 DEF ConnResolve, KernelTypeOK
  <2>2. CASE PeerSends
    BY <2>0, <2>2 DEF PeerSends, KernelTypeOK
  <2>3. CASE PeerReads
    BY <2>0, <2>3, SizeAssumption DEF PeerReads, KernelTypeOK
  <2>4. CASE PeerFinishes
    BY <2>0, <2>4 DEF PeerFinishes, KernelTypeOK
  <2>5. CASE PeerResets
    BY <2>0, <2>5 DEF PeerResets, KernelTypeOK
  <2> QED
    BY <2>1, <2>2, <2>3, <2>4, <2>5 DEF Environment
<1> QED
  BY <1>1, <1>2, Kept DEF TypeOK

(* Every variable of a stream keeps its type, and in particular no request *)
(* is ever left with a negative number of bytes to write.                  *)
THEOREM TypeCorrect == Spec => []TypeOK
<1>1. Init => TypeOK
  <2> SUFFICES ASSUME Init PROVE TypeOK
    OBVIOUS
  <2>1. HandleTypeOK
    BY DEF Init, HandleTypeOK
  <2>2. IoTypeOK
    <3>1. pendings \in Seq(Watcher \cup {"none"})
      <4>1. \A S : <<>> \in Seq(S)
        OBVIOUS
      <4> QED
        BY <4>1, Zenon DEF Init
    <3>2. read_watcher \in BOOLEAN /\ write_watcher \in BOOLEAN
      BY Zenon DEF Init
    <3> QED
      BY <3>1, <3>2, Zenon DEF IoTypeOK
  <2>3. QueueTypeOK
    BY DEF Init, QueueTypeOK
  <2>4. CtlTypeOK
    BY DEF Init, CtlTypeOK
  <2>5. KernelTypeOK
    <3>1. SndBuf \in 0..SndBuf /\ PeerBytes \in Nat
      BY SizeAssumption
    <3> QED
      BY <3>1 DEF Init, KernelTypeOK
  <2>6. HistoryTypeOK
    BY DEF Init, HistoryTypeOK
  <2> QED
    BY <2>1, <2>2, <2>3, <2>4, <2>5, <2>6 DEF TypeOK
<1>2. TypeOK /\ [Next]_vars => TypeOK'
  <2>1. TypeOK /\ UNCHANGED vars => TypeOK'
    BY Kept DEF TypeOK, vars
  <2> QED
    BY <2>1, LoopType, UserType, EnvironmentType DEF Next
<1> QED
  BY <1>1, <1>2, PTL DEF Spec

-----------------------------------------------------------------------------
(* What a step does to the pending array, watcher by watcher.              *)

(* A step that leaves the array alone.                                     *)
LEMMA PendingKept ==
  ASSUME UNCHANGED pendings PROVE \A v : IsPending(v)' <=> IsPending(v)
BY DEF IsPending

(* Invoking a watcher takes no other event.                                *)
LEMMA PendingInvoked ==
  ASSUME pendings \in Seq(Slot), NEW w, Invokes(w), pendings' = Invoked
  PROVE  /\ IsPending(w) /\ w \in Slot
         /\ \A v : IsPending(v)' => IsPending(v)
         /\ \A v : v # w /\ IsPending(v) => IsPending(v)'
BY InvokedFacts DEF IsPending

(* Stopping a watcher takes its event and no other.                        *)
LEMMA PendingCleared ==
  ASSUME pendings \in Seq(Slot), NEW w \in Watcher,
         pendings' = Cleared(pendings, w)
  PROVE  /\ ~IsPending(w)'
         /\ \A v : v \notin {w, "none"} => (IsPending(v)' <=> IsPending(v))
<1>1. w \in Slot /\ w # "none"
  BY DEF Slot, Watcher
<1>2. /\ ~ \E i \in DOMAIN Cleared(pendings, w) : Cleared(pendings, w)[i] = w
      /\ \A v : v \notin {w, "none"} =>
           ((\E i \in DOMAIN Cleared(pendings, w) : Cleared(pendings, w)[i] = v)
              <=> \E i \in DOMAIN pendings : pendings[i] = v)
  BY <1>1, ClearedFacts
<1> QED
  BY <1>2, Zenon DEF IsPending

(* Feeding an event makes it pending and no other.                         *)
LEMMA PendingFed ==
  ASSUME pendings \in Seq(Slot), NEW w \in Watcher, pendings' = Fed(pendings, w)
  PROVE  /\ IsPending(w)'
         /\ \A v : v # w => (IsPending(v)' <=> IsPending(v))
<1>1. w \in Slot
  BY DEF Slot
<1>2. /\ \E i \in DOMAIN Fed(pendings, w) : Fed(pendings, w)[i] = w
      /\ \A v : (\E i \in DOMAIN pendings : pendings[i] = v)
                  => \E i \in DOMAIN Fed(pendings, w) : Fed(pendings, w)[i] = v
      /\ \A v : v # w /\ (\E i \in DOMAIN Fed(pendings, w) : Fed(pendings, w)[i] = v)
                  => \E i \in DOMAIN pendings : pendings[i] = v
  BY <1>1, FedFacts
<1> QED
  BY <1>2, Zenon DEF IsPending

(* A step that leaves everything WakeupInv speaks of alone.                *)
LEMMA WakeupKept ==
  ASSUME WakeupInv,
         UNCHANGED <<flags, fd, connect_req, shutdown_req, io, write_queue,
                     write_completed_queue, at, conn, status>>
  PROVE  WakeupInv'
<1>1. \A v : IsPending(v)' <=> IsPending(v)
  BY PendingKept DEF io
<1> QED
  BY <1>1 DEF io, WakeupInv, WriteWakeup, FdMatchesSocket, QuietBeforeSocket,
              ConnectWatched, ShutdownFlags, NextMeansClosing, Closing

(* uv__write: what stays queued is watched, or its event is pending, and   *)
(* what it finishes makes one pending.                                     *)
LEMMA WriteWakes ==
  ASSUME NEW q \in Seq(WReqs), NEW size, NEW rem, NEW p \in Seq(Slot),
         uv__write(q, size, rem, p)
  PROVE  /\ write_watcher => write_watcher'
         /\ write_queue' # <<>> => write_watcher' \/ IsPending("write")'
         /\ \/ UNCHANGED write_completed_queue
            \/ IsPending("write")'
         /\ \A v : v # "write" =>
              (IsPending(v)' <=> \E i \in DOMAIN p : p[i] = v)
         /\ (\E i \in DOMAIN p : p[i] = "write") => IsPending("write")'
<1>1. pendings' = p \/ pendings' = Fed(p, "write")
  BY DEF uv__write, uv__write_req_finish
<1>0. "write" \in Slot
  BY DEF Slot, Watcher
<1> DEFINE f == Fed(p, "write")
<1>1a. /\ \E i \in DOMAIN f : f[i] = "write"
       /\ \A v : (\E i \in DOMAIN p : p[i] = v) => \E i \in DOMAIN f : f[i] = v
       /\ \A v : v # "write" /\ (\E i \in DOMAIN f : f[i] = v)
                   => \E i \in DOMAIN p : p[i] = v
  BY <1>0, FedFacts
<1>2. /\ \E i \in DOMAIN f : f[i] = "write"
      /\ \A v : v # "write" =>
           ((\E i \in DOMAIN f : f[i] = v) <=> \E i \in DOMAIN p : p[i] = v)
  <2> HIDE DEF f
  <2> QED
    BY <1>1a, Zenon
<1>3. pendings' = Fed(p, "write") => IsPending("write")'
  BY <1>2 DEF IsPending
<1>4. /\ \A v : v # "write" => (IsPending(v)' <=> \E i \in DOMAIN p : p[i] = v)
      /\ (\E i \in DOMAIN p : p[i] = "write") => IsPending("write")'
  BY <1>1, <1>2 DEF IsPending
<1>5. /\ write_watcher => write_watcher'
      /\ write_queue' # <<>> => write_watcher' \/ pendings' = Fed(p, "write")
      /\ UNCHANGED write_completed_queue \/ pendings' = Fed(p, "write")
  BY DEF uv__write, uv__write_req_finish
<1> QED
  BY <1>3, <1>4, <1>5

-----------------------------------------------------------------------------
(* The steps of the loop.                                                  *)

(* The handlers preserve WakeupInv.                                        *)
LEMMA WakeupLoop ==
  ASSUME TypeOK, WakeupInv, Loop, ReqsAssumption PROVE WakeupInv'
<1> USE DEF WakeupInv, WriteWakeup, FdMatchesSocket, QuietBeforeSocket,
            ConnectWatched, ShutdownFlags, NextMeansClosing, Closing
<1>a. pendings \in Seq(Slot)
  BY DEF TypeOK, IoTypeOK, Slot
<1>b. write_queue \in Seq(WReqs) /\ write_completed_queue \in Seq(WReqs)
  BY DEF TypeOK, QueueTypeOK
<1>c. ASSUME UNCHANGED pendings PROVE \A v : IsPending(v)' <=> IsPending(v)
  BY <1>c, PendingKept
<1>d. ASSUME NEW r \in WReqs, NEW cb, NEW s, CallsBack(cb, r, s)
      PROVE  shutdown_req # NoReq => status'[shutdown_req] = status[shutdown_req]
  BY <1>d, ReqsAssumption DEF CallsBack, TypeOK, HandleTypeOK, HistoryTypeOK, Reqs
<1>1. CASE InvokeDummy
  <2>1. \A v : v # "none" => (IsPending(v)' <=> IsPending(v))
    BY <1>1, <1>a, PendingInvoked DEF InvokeDummy
  <2> QED
    BY <1>1, <2>1 DEF InvokeDummy, handle, queue, ctl, kernel
<1>3. CASE StreamReadable
  <2>1. \A v : v # "read" => (IsPending(v)' <=> IsPending(v))
    BY <1>3, <1>a, PendingInvoked DEF StreamReadable
  <2>2. IsPending("read")
    BY <1>3, <1>a, PendingInvoked DEF StreamReadable
  <2> QED
    BY <1>3, <2>1, <2>2 DEF StreamReadable, Invokes, handle, queue, kernel
<1>2. CASE uv__stream_connect
  <2>1. IsPending("next")' => IsPending("next")
    BY <1>2, <1>a, PendingInvoked DEF uv__stream_connect
  <2>2. IsPending("read") \/ IsPending("write")
    BY <1>2, <1>a, PendingInvoked DEF uv__stream_connect
  <2>3. connect_req \in CReqs
    BY <1>2 DEF uv__stream_connect, TypeOK, HandleTypeOK
  <2>4. at' = "connect_cb" /\ \E r \in {"ok", "error"} : status' = [status EXCEPT ![connect_req] = r]
    BY <1>2 DEF uv__stream_connect, CallsBack
  <2>5. shutdown_req # NoReq => status'[shutdown_req] = status[shutdown_req]
    BY <2>3, <2>4, ReqsAssumption DEF TypeOK, HandleTypeOK, HistoryTypeOK, Reqs
  <2> QED
    BY <1>2, <2>1, <2>2, <2>4, <2>5 DEF uv__stream_connect, queue
<1>4. CASE StreamWritable
  <2>1. /\ at = "loop" /\ IsPending("write") /\ connect_req = NoReq
        /\ Invoked \in Seq(Slot)
        /\ \A v : (\E i \in DOMAIN Invoked : Invoked[i] = v) => IsPending(v)
    BY <1>4, <1>a, InvokedFacts DEF StreamWritable, Invokes
  <2>2. /\ uv__write(write_queue, write_queue_size, left, Invoked)
        /\ at' = "uv__write_callbacks"
        /\ UNCHANGED <<handle, conn, status>>
    BY <1>4 DEF StreamWritable
  <2>3. /\ write_queue' # <<>> => write_watcher' \/ IsPending("write")'
        /\ write_watcher => write_watcher'
        /\ IsPending("next")' => IsPending("next")
    BY <1>b, <2>1, <2>2, WriteWakes
  <2> QED
    BY <2>1, <2>2, <2>3 DEF handle
<1>5. CASE uv__finish_close
  <2>1. /\ at = "loop" /\ IsPending("next")
        /\ \A v : v # "next" => (IsPending(v)' <=> IsPending(v))
    BY <1>5, <1>a, PendingInvoked DEF uv__finish_close, Invokes
  <2> QED
    BY <1>5, <2>1 DEF uv__finish_close, queue
<1>6. CASE uv__read
  <2>1. /\ \A v : v \notin {"read", "none"} => (IsPending(v)' <=> IsPending(v))
        /\ UNCHANGED write_watcher
        /\ read_watcher' # read_watcher => at = "uv__read"
    BY <1>6, <1>a, PendingCleared, PendingKept DEF uv__read, StopReading, io, Watcher
  <2>2. /\ at = "uv__read" /\ at' \in {"loop", "read_cb", "read_cb_full", "read_error_cb"}
        /\ UNCHANGED <<handle, queue, conn, status>>
    BY <1>6 DEF uv__read, ReadsBack
  <2> QED
    BY <2>1, <2>2 DEF handle, queue
<1>7. CASE uv__write_callbacks
  <2>1. CASE uv__drain /\ write_completed_queue = <<>> /\ write_queue = <<>>
    <3>1. /\ ~IsPending("write")'
          /\ \A v : v \notin {"write", "none"} => (IsPending(v)' <=> IsPending(v))
      BY <1>a, <2>1, PendingCleared DEF uv__drain, Watcher
    <3>2. at = "uv__write_callbacks" /\ at' \in {"loop", "shutdown_cb"}
      BY <1>7, <2>1 DEF uv__write_callbacks, uv__drain, CallsBack
    <3>3. Closing \/ connect_req = NoReq
      BY <3>2
    <3>4. /\ shutdown_req # NoReq => shutdown_req \in Reqs
          /\ status \in [Reqs -> {"idle", "active", "ok", "error"}]
      BY DEF TypeOK, HandleTypeOK, HistoryTypeOK, Reqs
    <3>5. /\ Closing' = Closing /\ "SHUTTING" \in flags' <=> "SHUTTING" \in flags
          /\ UNCHANGED <<fd, connect_req, shutdown_req, conn, write_queue,
                         write_completed_queue>>
      BY <2>1 DEF uv__drain, queue, kernel
    <3>6. \/ UNCHANGED <<status, flags>> /\ ~ShutdownDue
          \/ \E r \in {"ok", "error"} : status' = [status EXCEPT ![shutdown_req] = r]
      BY <2>1 DEF uv__drain, CallsBack
    <3>7. shutdown_req # NoReq /\ ~Closing => status'[shutdown_req] # "active"
      BY <3>4, <3>6 DEF ShutdownDue
    <3> QED
      BY <2>1, <3>1, <3>2, <3>3, <3>4, <3>5, <3>6, <3>7 DEF uv__drain
  <2>2. CASE /\ write_completed_queue # <<>>
             /\ CallsBack("write_cb", Head(write_completed_queue),
                          WriteStatus(Head(write_completed_queue)))
             /\ UNCHANGED <<handle, io, write_queue, kernel>>
    <3>1. shutdown_req # NoReq => status'[shutdown_req] = status[shutdown_req]
      BY <1>b, <1>d, <2>2
    <3>2. at = "uv__write_callbacks" /\ at' = "write_cb"
      BY <1>7, <2>2 DEF uv__write_callbacks, CallsBack
    <3> QED
      BY <1>c, <2>2, <3>1, <3>2 DEF handle, io, kernel
  <2>3. CASE /\ write_completed_queue = <<>> /\ at' = "loop"
             /\ UNCHANGED <<handle, io, queue, kernel, status>>
    <3>1. at = "uv__write_callbacks"
      BY <1>7 DEF uv__write_callbacks
    <3> QED
      BY <1>c, <2>3, <3>1 DEF handle, io, queue, kernel
  <2> QED
    BY <1>7, <2>1, <2>2, <2>3 DEF uv__write_callbacks, uv_write_queue_head_null
<1>8. CASE uv__stream_destroy
  <2>1. /\ at = "uv__stream_destroy" /\ at' \in {"destroy_cb", "close_cb"}
        /\ UNCHANGED <<handle, io, kernel>>
        /\ write_queue' # <<>> => write_queue # <<>>
        /\ write_completed_queue' # <<>> => write_completed_queue # <<>>
    BY <1>8 DEF uv__stream_destroy, CallsBack
  <2>2. shutdown_req # NoReq => status'[shutdown_req] = status[shutdown_req]
    BY <1>8, <1>b, <1>d DEF uv__stream_destroy
  <2> QED
    BY <1>c, <2>1, <2>2 DEF handle, io, kernel
<1>9. CASE Poll
  <2>1. /\ ~IsPending("next")'
        /\ IsPending("read")' => read_watcher
        /\ IsPending("write")' => write_watcher
    BY <1>9 DEF Poll, Ready, IsPending
  <2>2. ~IsPending("read") /\ ~IsPending("write")
    BY <1>9 DEF Poll, IsPending
  <2> QED
    BY <1>9, <2>1, <2>2 DEF Poll, handle, queue, ctl, kernel
<1> QED
  BY <1>1, <1>2, <1>3, <1>4, <1>5, <1>6, <1>7, <1>8, <1>9 DEF Loop

-----------------------------------------------------------------------------
(* The calls of the program.                                               *)

(* The calls of the program preserve WakeupInv.                            *)
LEMMA WakeupUser ==
  ASSUME TypeOK, WakeupInv, User, ReqsAssumption, ChoiceAssumption,
         "EOTHER" \notin ConnectResults
  PROVE  WakeupInv'
<1> USE DEF WakeupInv, WriteWakeup, FdMatchesSocket, QuietBeforeSocket,
            ConnectWatched, ShutdownFlags, NextMeansClosing, Closing
<1>a. pendings \in Seq(Slot)
  BY DEF TypeOK, IoTypeOK, Slot
<1>b. write_queue \in Seq(WReqs) /\ write_completed_queue \in Seq(WReqs)
  BY DEF TypeOK, QueueTypeOK
<1>c. ASSUME UNCHANGED pendings PROVE \A v : IsPending(v)' <=> IsPending(v)
  BY <1>c, PendingKept
<1>d. shutdown_req # NoReq =>
        shutdown_req \in SReqs /\ status[shutdown_req] \in {"idle", "active", "ok", "error"}
  BY DEF TypeOK, HandleTypeOK, HistoryTypeOK, Reqs
<1>e. /\ status \in [Reqs -> {"idle", "active", "ok", "error"}]
      /\ WReqs \subseteq Reqs /\ SReqs \subseteq Reqs /\ CReqs \subseteq Reqs
  BY DEF TypeOK, HistoryTypeOK, Reqs
<1>1. CASE Return
  <2>1. /\ at \in Callback
        /\ at = "write_cb" => at' = "uv__write_callbacks"
        /\ at' \in {"uv__write_callbacks", "uv__stream_destroy", "uv__read", "abort", "loop"}
        /\ at' = "uv__write_callbacks" => at = "write_cb"
        /\ UNCHANGED <<handle, io, queue, kernel, status>>
    BY <1>1 DEF Return
  <2> QED
    BY <1>c, <2>1 DEF handle, io, queue, kernel, Callback
<1>2. CASE uv__stream_open
  BY <1>2, <1>c DEF uv__stream_open, io, queue, ctl, kernel, NoFd, SockFd
<1>3. CASE uv_read_start
  BY <1>3, <1>c DEF uv_read_start, io, queue, ctl, kernel
<1>4. CASE uv_read_stop
  <2>1. /\ ~IsPending("read")'
        /\ \A v : v \notin {"read", "none"} => (IsPending(v)' <=> IsPending(v))
    BY <1>4, <1>a, PendingCleared DEF uv_read_stop, Watcher
  <2> QED
    BY <1>4, <2>1 DEF uv_read_stop, queue, ctl, kernel
<1>5. CASE uv_close
  <2>1. "CLOSING" \in flags' /\ "SHUT" \in flags' <=> "SHUT" \in flags
    BY <1>5 DEF uv_close
  <2>2. "SHUTTING" \in flags' <=> "SHUTTING" \in flags
    BY <1>5 DEF uv_close
  <2> QED
    BY <1>5, <2>1, <2>2 DEF uv_close
<1>6. ASSUME NEW c \in CReqs, uv__connect(c) PROVE WakeupInv'
  <2>1. PICK r \in ConnectResults :
          /\ conn' = ConnectOutcome(r)
          /\ pendings' = IF r = "ECONNREFUSED" THEN Fed(pendings, "write") ELSE pendings
          /\ write_watcher' = (write_watcher \/ r # "EOTHER")
          /\ status' = [status EXCEPT ![c] = IF r = "EOTHER" THEN @ ELSE "active"]
    BY <1>6 DEF uv__connect
  <2>2. r \in {"OK", "EINPROGRESS", "ECONNREFUSED"}
    BY ChoiceAssumption
  <2>3. conn' # "none" /\ write_watcher'
    BY <2>1, <2>2 DEF ConnectOutcome
  <2>4. shutdown_req # NoReq => status'[shutdown_req] = status[shutdown_req]
    BY <1>d, <1>e, <2>1, ReqsAssumption
  <2>5. IsPending("next")' => IsPending("next")
    BY <1>a, <1>c, <2>1, PendingFed DEF Watcher
  <2>6. conn = "none" /\ ~Closing /\ fd' # NoFd /\ UNCHANGED <<at, shutdown_req>>
    BY <1>6 DEF uv__connect, ctl, NoFd, SockFd
  <2>7. /\ "CLOSING" \notin flags' /\ "SHUT" \in flags' <=> "SHUT" \in flags
        /\ "SHUTTING" \in flags' <=> "SHUTTING" \in flags
    BY <1>6 DEF uv__connect
  <2>8. at = "loop"
    BY <2>6
  <2> QED
    BY <2>3, <2>4, <2>5, <2>6, <2>7, <2>8
<1>7. ASSUME NEW r \in WReqs, NEW n \in Lens, uv_write(r, n) PROVE WakeupInv'
  <2> DEFINE q == Append(write_queue, r)
             size == write_queue_size + n
             rem == [left EXCEPT ![r] = n]
  <2>1. /\ fd # NoFd /\ status' = [status EXCEPT ![r] = "active"]
        /\ \/ uv__write(q, size, rem, pendings)
           \/ write_watcher' = TRUE /\ UNCHANGED <<write_completed_queue, pendings>>
        /\ UNCHANGED <<handle, at, conn>>
    BY <1>7 DEF uv_write, ctl
  <2>2. q \in Seq(WReqs)
    BY <1>b
  <2> HIDE DEF q, size, rem
  <2>3. /\ write_watcher => write_watcher'
        /\ write_queue' # <<>> => write_watcher' \/ IsPending("write")'
        /\ IsPending("write") => IsPending("write")'
        /\ UNCHANGED write_completed_queue \/ IsPending("write")'
        /\ IsPending("next")' => IsPending("next")
    <3>1. CASE uv__write(q, size, rem, pendings)
      <4>1. /\ write_watcher => write_watcher'
            /\ write_queue' # <<>> => write_watcher' \/ IsPending("write")'
            /\ UNCHANGED write_completed_queue \/ IsPending("write")'
            /\ IsPending("next")' <=> \E i \in DOMAIN pendings : pendings[i] = "next"
            /\ (\E i \in DOMAIN pendings : pendings[i] = "write") => IsPending("write")'
        BY <1>a, <2>2, <3>1, WriteWakes
      <4> QED
        BY <4>1, Zenon DEF IsPending
    <3>2. CASE write_watcher' = TRUE /\ UNCHANGED <<write_completed_queue, pendings>>
      BY <1>c, <3>2
    <3> QED
      BY <2>1, <3>1, <3>2
  <2>4. shutdown_req # NoReq => status'[shutdown_req] = status[shutdown_req]
    BY <1>d, <1>e, <2>1, ReqsAssumption
  <2> QED
    BY <2>1, <2>3, <2>4 DEF handle
<1>8. ASSUME NEW s \in SReqs, uv_shutdown(s) PROVE WakeupInv'
  <2>1. "SHUT" \notin flags' /\ ("CLOSING" \in flags' <=> "CLOSING" \in flags)
        /\ "SHUTTING" \in flags' /\ fd # NoFd /\ write_watcher' = TRUE
    BY <1>8 DEF uv_shutdown
  <2> QED
    BY <1>8, <1>c, <2>1 DEF uv_shutdown, queue, ctl, kernel
<1> QED
  BY <1>1, <1>2, <1>3, <1>4, <1>5, <1>6, <1>7, <1>8 DEF User

(* The kernel and the peer neither create nor destroy a socket here.       *)
LEMMA WakeupEnvironment == ASSUME WakeupInv, Environment PROVE WakeupInv'
<1>1. /\ UNCHANGED <<handle, io, queue, ctl, status>>
      /\ conn' = "none" <=> conn = "none"
  BY DEF Environment, ConnResolve, PeerSends, PeerReads, PeerFinishes, PeerResets
<1>2. \A v : IsPending(v)' <=> IsPending(v)
  BY <1>1, PendingKept DEF io
<1> QED
  BY <1>1, <1>2 DEF handle, io, queue, ctl, WakeupInv, WriteWakeup,
     FdMatchesSocket, QuietBeforeSocket, ConnectWatched, ShutdownFlags,
     NextMeansClosing, Closing

(* Whatever waits for the write watcher of an open stream finds it active, *)
(* or its event pending, or the code that will look at it running.         *)
THEOREM NoLostWriteWakeup ==
  ASSUME "EOTHER" \notin ConnectResults
  PROVE  Spec => []WriteWakeup
<1>1. Init => WakeupInv
  <2>1. Init => ~IsPending("read") /\ ~IsPending("write") /\ ~IsPending("next")
    BY DEF Init, IsPending
  <2> QED
    BY <2>1 DEF Init, WakeupInv, WriteWakeup, FdMatchesSocket, QuietBeforeSocket,
                ConnectWatched, ShutdownFlags, NextMeansClosing, Closing
<1>2. TypeOK /\ WakeupInv /\ [Next]_vars => WakeupInv'
  <2>1. WakeupInv /\ UNCHANGED vars => WakeupInv'
    BY WakeupKept DEF vars, handle, io, queue, ctl, kernel
  <2> QED
    BY <2>1, WakeupLoop, WakeupUser, WakeupEnvironment, ReqsAssumption,
       ChoiceAssumption DEF Next
<1>3. WakeupInv => WriteWakeup
  BY DEF WakeupInv
<1> QED
  BY <1>1, <1>2, <1>3, TypeCorrect, PTL DEF Spec

-----------------------------------------------------------------------------
(* UvStream implements StreamContract.                                     *)

\* The variables of StreamContract, as functions of those of UvStream.
out == write_completed_queue \o write_queue
wstatus == [r \in WReqs |-> status[r]]
stream == IF ~Closing THEN "open" ELSE IF Closed THEN "closed" ELSE "closing"

NextOnce(p) ==
  \A i, j \in DOMAIN p : p[i] = "next" /\ p[j] = "next" => i = j

-----------------------------------------------------------------------------
(* The two queues as one.                                                  *)

(* Cancelling the head of the second queue takes one element out.          *)
LEMMA CancelTakesOne ==
  ASSUME NEW S, NEW c \in Seq(S), NEW q \in Seq(S), q # <<>>
  PROVE  LET i == Len(c) + 1
         IN  /\ i \in DOMAIN (c \o q) /\ (c \o q)[i] = Head(q)
             /\ RemoveAt(c \o q, i) = c \o Tail(q)
<1> DEFINE i == Len(c) + 1
           s == c \o q
<1>1. /\ Head(q) = q[1] /\ Tail(q) \in Seq(S) /\ Len(Tail(q)) = Len(q) - 1
      /\ \A k \in 1..Len(Tail(q)) : Tail(q)[k] = q[k + 1]
      /\ Len(q) \in Nat \ {0} /\ Len(c) \in Nat
  BY HeadTailProperties, EmptySeq
<1>2. /\ s \in Seq(S) /\ Len(s) = Len(c) + Len(q)
      /\ \A k \in 1..Len(c) + Len(q) :
           s[k] = IF k <= Len(c) THEN c[k] ELSE q[k - Len(c)]
  BY ConcatProperties
<1> HIDE DEF s
<1>3. i \in DOMAIN s /\ s[i] = Head(q)
  BY <1>1, <1>2
<1>4. SubSeq(s, 1, Len(c)) = c
  <2>1. /\ SubSeq(s, 1, Len(c)) \in Seq(S) /\ Len(SubSeq(s, 1, Len(c))) = Len(c)
        /\ \A k \in 1..Len(c) : SubSeq(s, 1, Len(c))[k] = s[k]
    BY <1>1, <1>2
  <2>2. \A k \in 1..Len(c) : SubSeq(s, 1, Len(c))[k] = c[k]
    BY <1>1, <1>2, <2>1
  <2> QED
    BY <2>1, <2>2, SeqEqual
<1>5. SubSeq(s, i + 1, Len(s)) = Tail(q)
  <2>1. /\ SubSeq(s, i + 1, Len(s)) \in Seq(S)
        /\ Len(SubSeq(s, i + 1, Len(s))) = Len(q) - 1
        /\ \A k \in 1..Len(q) - 1 : SubSeq(s, i + 1, Len(s))[k] = s[i + k]
    BY <1>1, <1>2
  <2>2. ASSUME NEW k \in 1..Len(q) - 1
        PROVE  SubSeq(s, i + 1, Len(s))[k] = Tail(q)[k]
    <3>1. /\ i + k \in 1..Len(c) + Len(q) /\ ~(i + k <= Len(c))
          /\ (i + k) - Len(c) = k + 1
      BY <1>1
    <3>2. s[i + k] = q[k + 1]
      BY <1>2, <3>1
    <3> QED
      BY <1>1, <2>1, <3>2
  <2> QED
    BY <1>1, <2>1, <2>2, SeqEqual
<1>6. RemoveAt(s, i) = c \o Tail(q)
  <2>1. i - 1 = Len(c)
    BY <1>1
  <2> QED
    BY <1>4, <1>5, <2>1 DEF RemoveAt
<1> QED
  BY <1>3, <1>6 DEF s

-----------------------------------------------------------------------------
(* uv__next is scheduled at most once.                                     *)

(* Feeding uv__next when it is not pending.                                *)
LEMMA OnceFed ==
  ASSUME NEW p \in Seq(Slot), NEW w \in Slot, NextOnce(p),
         w # "next" \/ ~ \E i \in DOMAIN p : p[i] = "next"
  PROVE  NextOnce(Fed(p, w))
<1>1. CASE \E i \in DOMAIN p : p[i] = w
  BY <1>1 DEF Fed
<1>2. CASE ~ \E i \in DOMAIN p : p[i] = w
  <2>1. /\ Fed(p, w) = Append(p, w) /\ Len(Append(p, w)) = Len(p) + 1
        /\ Append(p, w)[Len(p) + 1] = w
        /\ \A i \in 1..Len(p) : Append(p, w)[i] = p[i]
        /\ DOMAIN Append(p, w) = 1..(Len(p) + 1) /\ DOMAIN p = 1..Len(p)
    BY <1>2 DEF Fed
  <2>2. CASE w = "next"
    BY <1>2, <2>1, <2>2 DEF NextOnce
  <2>3. CASE w # "next"
    BY <2>1, <2>3 DEF NextOnce
  <2> QED
    BY <2>2, <2>3
<1> QED
  BY <1>1, <1>2

(* Stopping another watcher.                                               *)
LEMMA OnceCleared ==
  ASSUME NEW p \in Seq(Slot), NEW w \in Slot, NextOnce(p) PROVE NextOnce(Cleared(p, w))
BY DEF NextOnce, Cleared

(* Once invoked, uv__next is not pending any more.                         *)
LEMMA OnceInvoked ==
  ASSUME pendings \in Seq(Slot), NEW w, Invokes(w), NextOnce(pendings)
  PROVE  NextOnce(Invoked) /\ (w = "next" => ~ \E i \in DOMAIN Invoked : Invoked[i] = "next")
BY InvokedSlots DEF NextOnce, Invokes

(* What CloseInv needs of a step that schedules no uv__next.               *)
LEMMA CloseKept ==
  ASSUME CloseInv, NextOnce(pendings)', IsPending("next")' => IsPending("next"),
         fd' # NoFd => fd # NoFd \/ ~Closing,
         Closing' <=> Closing, "CLOSED" \in flags' <=> "CLOSED" \in flags,
         at' \in {"uv__stream_destroy", "destroy_cb", "close_cb"}
           => at \in {"uv__stream_destroy", "destroy_cb", "close_cb"},
         at \in {"uv__stream_destroy", "destroy_cb"} /\ "CLOSED" \in flags
           => \/ at' \in {"uv__stream_destroy", "destroy_cb"}
              \/ write_queue' = <<>> /\ write_completed_queue' = <<>>,
         Closed => /\ write_queue = <<>> => write_queue' = <<>>
                   /\ write_queue = <<>> /\ write_completed_queue = <<>>
                        => write_completed_queue' = <<>>
  PROVE  CloseInv'
BY DEF CloseInv, Closed, NextOnce

(* What the sequences of the array become, step by step.                   *)
LEMMA PendingOnce ==
  ASSUME pendings \in Seq(Slot), NextOnce(pendings)
  PROVE  /\ UNCHANGED pendings => NextOnce(pendings)'
         /\ \A w : Invokes(w) /\ pendings' = Invoked => NextOnce(pendings)'
         /\ \A w \in Slot : pendings' = Cleared(pendings, w) => NextOnce(pendings)'
         /\ \A w \in Slot \ {"next"} : pendings' = Fed(pendings, w) => NextOnce(pendings)'
<1>1. ASSUME NEW q, pendings' = q, NextOnce(q) PROVE NextOnce(pendings)'
  BY <1>1 DEF NextOnce
<1>2. ASSUME NEW w, Invokes(w) PROVE NextOnce(Invoked)
  BY <1>2, OnceInvoked
<1>3. ASSUME NEW w \in Slot PROVE NextOnce(Cleared(pendings, w))
  BY OnceCleared
<1>4. ASSUME NEW w \in Slot, w # "next" PROVE NextOnce(Fed(pendings, w))
  BY <1>4, OnceFed
<1> QED
  BY <1>1, <1>2, <1>3, <1>4

(* uv__write appends at most the head of its queue to the other one, and   *)
(* schedules no uv__next.                                                  *)
LEMMA WriteMoves ==
  ASSUME NEW q \in Seq(WReqs), NEW size, NEW rem, NEW p \in Seq(Slot),
         uv__write(q, size, rem, p), NextOnce(p), write_completed_queue \in Seq(WReqs)
  PROVE  /\ write_completed_queue' \o write_queue' = write_completed_queue \o q
         /\ NextOnce(pendings)'
         /\ q = <<>> => write_queue' = <<>> /\ UNCHANGED write_completed_queue
<1>1. \/ write_queue' = q /\ UNCHANGED write_completed_queue
      \/ /\ q # <<>> /\ write_queue' = Tail(q)
         /\ write_completed_queue' = Append(write_completed_queue, Head(q))
  BY DEF uv__write, uv__write_req_finish
<1>2. write_completed_queue' \o write_queue' = write_completed_queue \o q
  <2>1. q # <<>> => Append(write_completed_queue, Head(q)) \o Tail(q)
                      = write_completed_queue \o q
    BY FinishKeepsOrder
  <2> QED
    BY <1>1, <2>1, Zenon
<1>3. pendings' = p \/ pendings' = Fed(p, "write")
  BY DEF uv__write, uv__write_req_finish
<1>4. NextOnce(Fed(p, "write"))
  BY OnceFed DEF Slot, Watcher
<1>5. NextOnce(pendings)'
  BY <1>3, <1>4 DEF NextOnce
<1> QED
  BY <1>1, <1>2, <1>5

-----------------------------------------------------------------------------
(* CloseInv is inductive.                                                  *)

(* The handlers preserve CloseInv.                                         *)
LEMMA CloseLoop == ASSUME TypeOK, CloseInv, Loop PROVE CloseInv'
<1>a. /\ pendings \in Seq(Slot) /\ NextOnce(pendings)
      /\ write_queue \in Seq(WReqs) /\ write_completed_queue \in Seq(WReqs)
  BY DEF TypeOK, IoTypeOK, QueueTypeOK, Slot, CloseInv, NextOnce
<1>b. ASSUME NEW w, Invokes(w), pendings' = Invoked
      PROVE  NextOnce(pendings)' /\ (IsPending("next")' => IsPending("next")) /\ at = "loop"
  BY <1>a, <1>b, PendingOnce, PendingInvoked DEF Invokes
<1>c. UNCHANGED pendings => NextOnce(pendings)' /\ (IsPending("next")' <=> IsPending("next"))
  BY <1>a, PendingOnce, PendingKept
<1>d. \A w \in {"read", "write"} : pendings' = Cleared(pendings, w) =>
        NextOnce(pendings)' /\ (IsPending("next")' <=> IsPending("next"))
  <2>1. {"read", "write"} \subseteq Slot /\ {"read", "write"} \subseteq Watcher
    BY DEF Slot, Watcher
  <2> QED
    BY <1>a, <2>1, PendingOnce, PendingCleared
<1>1. CASE InvokeDummy
  BY <1>1, <1>b, CloseKept DEF InvokeDummy, handle, queue, ctl, Closing
<1>2. CASE uv__stream_connect
  BY <1>2, <1>b, CloseKept DEF uv__stream_connect, CallsBack, queue, Closing
<1>3. CASE StreamReadable
  BY <1>3, <1>b, CloseKept DEF StreamReadable, handle, queue, Closing
<1>4. CASE StreamWritable
  <2>1. /\ at = "loop" /\ Invoked \in Seq(Slot) /\ NextOnce(Invoked)
        /\ \A v : (\E i \in DOMAIN Invoked : Invoked[i] = v) => IsPending(v)
    BY <1>4, <1>a, InvokedFacts, OnceInvoked DEF StreamWritable, Invokes
  <2>2. /\ uv__write(write_queue, write_queue_size, left, Invoked)
        /\ at' = "uv__write_callbacks" /\ UNCHANGED handle
    BY <1>4 DEF StreamWritable
  <2>3. /\ NextOnce(pendings)' /\ (IsPending("next")' => IsPending("next"))
        /\ write_queue = <<>> => write_queue' = <<>> /\ UNCHANGED write_completed_queue
    BY <1>a, <2>1, <2>2, WriteMoves, WriteWakes
  <2> QED
    BY <2>1, <2>2, <2>3, CloseKept DEF handle, Closing
<1>5. CASE uv__finish_close
  <2>1. /\ IsPending("next") /\ NextOnce(pendings)' /\ ~IsPending("next")'
    <3>1. Invokes("next") /\ pendings' = Invoked
      BY <1>5 DEF uv__finish_close
    <3>2. IsPending("next")
      BY <1>a, <3>1, PendingInvoked
    <3>3. ~ \E i \in DOMAIN Invoked : Invoked[i] = "next"
      BY <1>a, <3>1, OnceInvoked
    <3> QED
      BY <1>b, <3>1, <3>2, <3>3, Zenon DEF IsPending
  <2>2. /\ "CLOSING" \in flags' /\ "CLOSED" \in flags' /\ UNCHANGED fd
        /\ at' = "uv__stream_destroy"
    BY <1>5, <2>1 DEF uv__finish_close, CloseInv, Closing
  <2>3. fd = NoFd
    BY <2>1 DEF CloseInv
  <2> QED
    BY <2>1, <2>2, <2>3 DEF CloseInv, Closing, Closed, NextOnce
<1>6. CASE uv__read
  <2>1. /\ pendings' = pendings \/ pendings' = Cleared(pendings, "read")
        /\ at = "uv__read" /\ at' \in {"loop", "read_cb", "read_cb_full", "read_error_cb"}
        /\ UNCHANGED <<handle, queue>>
    BY <1>6 DEF uv__read, StopReading, ReadsBack, io
  <2> QED
    BY <1>c, <1>d, <2>1, CloseKept DEF handle, queue, Closing
<1>7. CASE uv__write_callbacks
  <2>1. /\ pendings' = pendings \/ pendings' = Cleared(pendings, "write")
        /\ at = "uv__write_callbacks" /\ at' \in {"loop", "write_cb", "shutdown_cb"}
        /\ flags' = flags \/ flags' = flags \cup {"SHUT"}
        /\ UNCHANGED <<fd, write_queue>>
        /\ \/ UNCHANGED write_completed_queue
           \/ write_completed_queue # <<>>
    BY <1>7 DEF uv__write_callbacks, uv__drain, CallsBack, handle, io, queue
  <2>2. /\ Closing' <=> Closing
        /\ "CLOSED" \in flags' <=> "CLOSED" \in flags
    BY <2>1 DEF Closing
  <2> QED
    BY <1>c, <1>d, <2>1, <2>2, CloseKept
<1>8. CASE uv__stream_destroy
  <2>1. /\ at = "uv__stream_destroy" /\ UNCHANGED <<handle, io>>
        /\ \/ at' = "destroy_cb"
           \/ at' = "close_cb" /\ write_queue' = <<>> /\ write_completed_queue' = <<>>
    BY <1>8 DEF uv__stream_destroy, CallsBack
  <2> QED
    BY <1>c, <2>1, CloseKept DEF handle, io, Closing, Closed
<1>9. CASE Poll
  <2>1. NextOnce(pendings)' /\ ~IsPending("next")'
    BY <1>9 DEF Poll, IsPending, NextOnce
  <2> QED
    BY <1>9, <2>1, CloseKept DEF Poll, handle, queue, ctl, Closing
<1> QED
  BY <1>1, <1>2, <1>3, <1>4, <1>5, <1>6, <1>7, <1>8, <1>9 DEF Loop

(* The calls of the program preserve CloseInv.                             *)
LEMMA CloseUser == ASSUME TypeOK, CloseInv, User PROVE CloseInv'
<1>a. /\ pendings \in Seq(Slot) /\ NextOnce(pendings)
      /\ write_queue \in Seq(WReqs) /\ write_completed_queue \in Seq(WReqs)
  BY DEF TypeOK, IoTypeOK, QueueTypeOK, Slot, CloseInv, NextOnce
<1>c. UNCHANGED pendings => NextOnce(pendings)' /\ (IsPending("next")' <=> IsPending("next"))
  BY <1>a, PendingOnce, PendingKept
<1>s. /\ "read" \in Slot /\ "write" \in Slot /\ "next" \in Slot
      /\ "read" \in Watcher /\ "write" \in Watcher
  BY DEF Slot, Watcher
<1>1. CASE Return
  <2>1. /\ at' \notin {"destroy_cb", "close_cb"}
        /\ at' = "uv__stream_destroy" <=> at = "destroy_cb"
        /\ at # "uv__stream_destroy"
        /\ UNCHANGED <<handle, io, queue>>
    BY <1>1 DEF Return, Callback
  <2> QED
    BY <1>c, <2>1, CloseKept DEF handle, io, queue, Closing
<1>2. CASE uv__stream_open
  <2>1. /\ ~Closing /\ UNCHANGED <<io, queue, ctl>>
        /\ Closing' <=> Closing
        /\ "CLOSED" \in flags' <=> "CLOSED" \in flags
    BY <1>2 DEF uv__stream_open, Closing
  <2> QED
    BY <1>c, <2>1, CloseKept DEF io, queue, ctl
<1>3. CASE uv_read_start
  <2>1. /\ UNCHANGED <<fd, pendings, queue, ctl>>
        /\ Closing' <=> Closing
        /\ "CLOSED" \in flags' <=> "CLOSED" \in flags
    BY <1>3 DEF uv_read_start, Closing
  <2> QED
    BY <1>c, <2>1, CloseKept DEF queue, ctl
<1>4. CASE uv_read_stop
  <2>1. /\ pendings' = Cleared(pendings, "read") /\ UNCHANGED <<fd, queue, ctl>>
        /\ Closing' <=> Closing
        /\ "CLOSED" \in flags' <=> "CLOSED" \in flags
    BY <1>4 DEF uv_read_stop, Closing
  <2>2. NextOnce(pendings)' /\ (IsPending("next")' <=> IsPending("next"))
    BY <1>a, <1>s, <2>1, PendingOnce, PendingCleared
  <2> QED
    BY <2>1, <2>2, CloseKept DEF queue, ctl
<1>5. CASE uv_close
  <2> DEFINE p == Cleared(Cleared(pendings, "read"), "write")
  <2>1. /\ "CLOSING" \in flags' /\ ~Closing /\ fd' = NoFd
        /\ "CLOSED" \in flags' <=> "CLOSED" \in flags
        /\ UNCHANGED <<queue, ctl>> /\ pendings' = Fed(p, "next")
    BY <1>5 DEF uv_close, Closing
  <2>2. "CLOSED" \notin flags /\ ~IsPending("next")
    BY <2>1 DEF CloseInv
  <2>3. p \in Seq(Slot) /\ NextOnce(p) /\ ~ \E i \in DOMAIN p : p[i] = "next"
    <3>1. ASSUME NEW a \in Seq(Slot), NEW w \in {"read", "write"}, NextOnce(a),
                 ~ \E i \in DOMAIN a : a[i] = "next"
          PROVE  /\ Cleared(a, w) \in Seq(Slot) /\ NextOnce(Cleared(a, w))
                 /\ ~ \E i \in DOMAIN Cleared(a, w) : Cleared(a, w)[i] = "next"
      <4>1. w \in Slot /\ "next" \notin {w, "none"}
        BY <1>s
      <4>2. Cleared(a, w) \in Seq(Slot) /\ NextOnce(Cleared(a, w))
        BY <3>1, <4>1, ClearedFacts, OnceCleared
      <4>3. ~ \E i \in DOMAIN Cleared(a, w) : Cleared(a, w)[i] = "next"
        BY <3>1, <4>1 DEF Cleared
      <4> QED
        BY <4>2, <4>3
    <3>2. ~ \E i \in DOMAIN pendings : pendings[i] = "next"
      BY <2>2 DEF IsPending
    <3> QED
      BY <1>a, <3>1, <3>2
  <2> HIDE DEF p
  <2>4. NextOnce(Fed(p, "next"))
    BY <1>s, <2>3, OnceFed
  <2>5. NextOnce(pendings)'
    BY <2>1, <2>4 DEF NextOnce
  <2> QED
    BY <2>1, <2>2, <2>5 DEF CloseInv, Closing, Closed, NextOnce, ctl
<1>6. ASSUME NEW c \in CReqs, uv__connect(c) PROVE CloseInv'
  <2>1. /\ ~Closing /\ UNCHANGED <<queue, ctl>>
        /\ pendings' = pendings \/ pendings' = Fed(pendings, "write")
        /\ flags' = flags \/ flags' = flags \cup {"READABLE", "WRITABLE"}
    BY <1>6 DEF uv__connect, Closing
  <2>2. NextOnce(pendings)' /\ (IsPending("next")' <=> IsPending("next"))
    BY <1>a, <1>c, <1>s, <2>1, PendingOnce, PendingFed
  <2>3. /\ Closing' <=> Closing
        /\ "CLOSED" \in flags' <=> "CLOSED" \in flags
    BY <2>1 DEF Closing
  <2> QED
    BY <2>1, <2>2, <2>3, CloseKept DEF queue, ctl
<1>7. ASSUME NEW r \in WReqs, NEW n \in Lens, uv_write(r, n) PROVE CloseInv'
  <2>1. fd # NoFd /\ UNCHANGED <<handle, ctl>>
    BY <1>7 DEF uv_write
  <2>2. ~Closing /\ "CLOSED" \notin flags
    BY <2>1 DEF CloseInv, Closing
  <2> DEFINE q == Append(write_queue, r)
             size == write_queue_size + n
             rem == [left EXCEPT ![r] = n]
  <2>3. uv__write(q, size, rem, pendings) \/ UNCHANGED pendings
    BY <1>7 DEF uv_write
  <2>4. q \in Seq(WReqs)
    BY <1>a
  <2> HIDE DEF q, size, rem
  <2>5. NextOnce(pendings)' /\ (IsPending("next")' <=> IsPending("next"))
    <3>1. CASE uv__write(q, size, rem, pendings)
      <4>1. /\ NextOnce(pendings)'
            /\ IsPending("next")' <=> \E i \in DOMAIN pendings : pendings[i] = "next"
        BY <1>a, <2>4, <3>1, WriteMoves, WriteWakes
      <4> QED
        BY <4>1, Zenon DEF IsPending
    <3> QED
      BY <1>c, <2>3, <3>1
  <2> QED
    BY <2>1, <2>2, <2>5, CloseKept DEF handle, ctl, Closing, Closed
<1>8. ASSUME NEW s \in SReqs, uv_shutdown(s) PROVE CloseInv'
  <2>1. /\ UNCHANGED <<fd, pendings, queue, ctl>>
        /\ Closing' <=> Closing
        /\ "CLOSED" \in flags' <=> "CLOSED" \in flags
    BY <1>8 DEF uv_shutdown, Closing
  <2> QED
    BY <1>c, <2>1, CloseKept DEF queue, ctl
<1> QED
  BY <1>1, <1>2, <1>3, <1>4, <1>5, <1>6, <1>7, <1>8 DEF User

(* So does every step; the peer touches no handle.                         *)
LEMMA CloseStep == ASSUME TypeOK, CloseInv, [Next]_vars PROVE CloseInv'
<1>1. UNCHANGED <<handle, io, queue, ctl>> => CloseInv'
  BY DEF handle, io, queue, ctl, CloseInv, Closing, Closed, IsPending
<1>2. Environment \/ UNCHANGED vars => UNCHANGED <<handle, io, queue, ctl>>
  BY DEF vars, Environment, ConnResolve, PeerSends, PeerReads, PeerFinishes, PeerResets
<1> QED
  BY <1>1, <1>2, CloseLoop, CloseUser DEF Next

-----------------------------------------------------------------------------
(* The refinement, step by step.                                           *)

(* A step that shows in none of the contract's variables stutters.         *)
LEMMA Stutters == ASSUME UNCHANGED <<out, wstatus, stream>> PROVE UNCHANGED Contract!vars
BY DEF Contract!vars, out, wstatus, stream

(* The status of a request that is not a write does not show.              *)
LEMMA StatusSeen ==
  ASSUME status \in [Reqs -> {"idle", "active", "ok", "error"}], NEW r, NEW s,
         status' = [status EXCEPT ![r] = s]
  PROVE  /\ r \in WReqs => wstatus' = [wstatus EXCEPT ![r] = s]
         /\ r \notin WReqs => UNCHANGED wstatus
<1>1. \A w \in WReqs : w \in Reqs
  BY DEF Reqs
<1> QED
  BY <1>1 DEF wstatus

(* Calling back the head of the completed queue answers the oldest write.  *)
LEMMA RefinesAnswer ==
  ASSUME write_queue \in Seq(WReqs), write_completed_queue \in Seq(WReqs),
         write_completed_queue # <<>>, NEW cb, NEW s \in {"ok", "error"},
         status \in [Reqs -> {"idle", "active", "ok", "error"}],
         CallsBack(cb, Head(write_completed_queue), s),
         write_completed_queue' = Tail(write_completed_queue),
         UNCHANGED <<write_queue, stream>>
  PROVE  Contract!Answer
<1>1. /\ out # <<>> /\ Head(out) = Head(write_completed_queue)
      /\ out' = Tail(out)
  BY AnswerTakesHead DEF out
<1>2. wstatus' = [wstatus EXCEPT ![Head(out)] = s]
  <2>1. Head(write_completed_queue) \in WReqs
    BY HeadTailProperties
  <2> QED
    BY <1>1, <2>1, StatusSeen DEF CallsBack
<1> QED
  BY <1>1, <1>2 DEF Contract!Answer, out, wstatus, stream

(* What the handlers do the contract allows.                               *)
LEMMA RefinesLoop == ASSUME TypeOK, CloseInv, Loop PROVE [Contract!Next]_(Contract!vars)
<1>a. /\ write_queue \in Seq(WReqs) /\ write_completed_queue \in Seq(WReqs)
      /\ status \in [Reqs -> {"idle", "active", "ok", "error"}]
  BY DEF TypeOK, QueueTypeOK, HistoryTypeOK
<1>b. ASSUME UNCHANGED <<flags, write_queue, write_completed_queue>>, UNCHANGED wstatus,
             at \in {"uv__stream_destroy", "destroy_cb"}
               <=> at' \in {"uv__stream_destroy", "destroy_cb"}
      PROVE  UNCHANGED Contract!vars
  BY <1>b, Stutters DEF out, stream, Closing, Closed
<1>c. UNCHANGED status => UNCHANGED wstatus
  BY DEF wstatus
<1>1. CASE InvokeDummy
  BY <1>1, <1>b, <1>c DEF InvokeDummy, handle, queue, ctl
<1>2. CASE uv__stream_connect
  <2>1. UNCHANGED wstatus
    <3>1. connect_req \notin WReqs
      BY <1>2, ReqsAssumption DEF uv__stream_connect, TypeOK, HandleTypeOK
    <3> QED
      BY <1>2, <1>a, <3>1, StatusSeen DEF uv__stream_connect, CallsBack
  <2>2. at = "loop" /\ at' = "connect_cb" /\ UNCHANGED <<flags, queue>>
    BY <1>2 DEF uv__stream_connect, Invokes, CallsBack
  <2> QED
    BY <1>b, <2>1, <2>2 DEF queue
<1>3. CASE StreamReadable
  BY <1>3, <1>b, <1>c DEF StreamReadable, Invokes, handle, queue
<1>4. CASE StreamWritable
  <2>1. /\ at = "loop" /\ Invoked \in Seq(Slot) /\ NextOnce(Invoked)
    <3>1. pendings \in Seq(Slot) /\ NextOnce(pendings) /\ Invokes("write")
      BY <1>4 DEF StreamWritable, TypeOK, IoTypeOK, CloseInv, NextOnce, Slot
    <3> QED
      BY <3>1, InvokedFacts, OnceInvoked DEF Invokes
  <2>2. /\ uv__write(write_queue, write_queue_size, left, Invoked)
        /\ at' = "uv__write_callbacks" /\ UNCHANGED <<handle, status>>
    BY <1>4 DEF StreamWritable
  <2>3. UNCHANGED out
    BY <1>a, <2>1, <2>2, WriteMoves DEF out
  <2>4. UNCHANGED stream
    BY <2>1, <2>2 DEF stream, Closing, Closed, handle
  <2> QED
    BY <1>c, <2>2, <2>3, <2>4, Stutters
<1>5. CASE uv__finish_close
  <2>1. /\ IsPending("next") /\ at' = "uv__stream_destroy"
        /\ flags' = flags \cup {"CLOSED"} /\ UNCHANGED <<queue, status>>
    <3>1. pendings \in Seq(Slot)
      BY DEF TypeOK, IoTypeOK, Slot
    <3> QED
      BY <1>5, <3>1, PendingInvoked DEF uv__finish_close
  <2>2. UNCHANGED stream
    BY <2>1 DEF stream, Closing, Closed, CloseInv
  <2> QED
    BY <1>c, <2>1, <2>2, Stutters DEF out, queue
<1>6. CASE uv__read
  BY <1>6, <1>b, <1>c DEF uv__read, ReadsBack, handle, queue
<1>7. CASE uv__write_callbacks
  <2>1. CASE write_completed_queue # <<>>
    <3> DEFINE s == WriteStatus(Head(write_completed_queue))
    <3>1. /\ CallsBack("write_cb", Head(write_completed_queue), s)
          /\ s \in {"ok", "error"}
          /\ write_completed_queue' = Tail(write_completed_queue)
          /\ UNCHANGED <<handle, write_queue>> /\ at = "uv__write_callbacks"
      BY <1>7, <2>1 DEF uv__write_callbacks, WriteStatus
    <3> HIDE DEF s
    <3>2. UNCHANGED stream
      BY <3>1 DEF CallsBack, handle, stream, Closing, Closed
    <3>3. Contract!Answer
      BY <1>a, <2>1, <3>1, <3>2, RefinesAnswer
    <3> QED
      BY <3>3 DEF Contract!Next
  <2>2. CASE write_completed_queue = <<>> /\ write_queue # <<>>
    BY <1>7, <1>b, <1>c, <2>2 DEF uv__write_callbacks, uv_write_queue_head_null, handle, queue
  <2>3. CASE write_completed_queue = <<>> /\ write_queue = <<>>
    <3>1. uv__drain /\ at = "uv__write_callbacks"
      BY <1>7, <2>3 DEF uv__write_callbacks, uv_write_queue_head_null
    <3>2. UNCHANGED wstatus
      <4>1. shutdown_req \notin WReqs
        BY ReqsAssumption DEF TypeOK, HandleTypeOK, Reqs
      <4> QED
        BY <1>a, <1>c, <3>1, <4>1, StatusSeen DEF uv__drain, CallsBack
    <3>3. /\ at' \in {"loop", "shutdown_cb"} /\ UNCHANGED queue
          /\ flags' = flags \/ flags' = flags \cup {"SHUT"}
      BY <3>1 DEF uv__drain, CallsBack
    <3>4. UNCHANGED stream
      BY <3>1, <3>3 DEF stream, Closing, Closed
    <3> QED
      BY <3>2, <3>3, <3>4, Stutters DEF out, queue
  <2> QED
    BY <2>1, <2>2, <2>3
<1>8. CASE uv__stream_destroy
  <2>1. /\ at = "uv__stream_destroy" /\ "CLOSED" \in flags /\ UNCHANGED <<handle, io>>
        /\ Closing /\ stream = "closing"
    BY <1>8 DEF uv__stream_destroy, CloseInv, Closing, stream, Closed
  <2>2. CASE write_queue # <<>>
    <3>1. /\ CallsBack("destroy_cb", Head(write_queue), "error")
          /\ write_queue' = Tail(write_queue) /\ UNCHANGED write_completed_queue
      BY <1>8, <2>2 DEF uv__stream_destroy
    <3>2. UNCHANGED stream
      BY <2>1, <3>1 DEF CallsBack, handle, stream, Closing, Closed
    <3> DEFINE i == Len(write_completed_queue) + 1
    <3>3. i \in DOMAIN out /\ out[i] = Head(write_queue) /\ out' = RemoveAt(out, i)
      BY <1>a, <2>2, <3>1, CancelTakesOne DEF out
    <3> HIDE DEF i
    <3>4. wstatus' = [wstatus EXCEPT ![out[i]] = "error"]
      <4>1. Head(write_queue) \in WReqs
        BY <1>a, <2>2, HeadTailProperties
      <4> QED
        BY <1>a, <3>1, <3>3, <4>1, StatusSeen DEF CallsBack
    <3>5. Contract!Cancel
      <4>1. out' = Contract!RemoveAt(out, i)
        BY <3>3 DEF RemoveAt, Contract!RemoveAt
      <4>2. /\ stream = "closing" /\ UNCHANGED stream
            /\ \E j \in DOMAIN out :
                 /\ \E s \in {"ok", "error"} : wstatus' = [wstatus EXCEPT ![out[j]] = s]
                 /\ out' = Contract!RemoveAt(out, j)
        BY <2>1, <3>2, <3>3, <3>4, <4>1
      <4> QED
        BY <4>2 DEF Contract!Cancel, out, wstatus, stream
    <3> QED
      BY <3>5 DEF Contract!Next
  <2>3. CASE write_queue = <<>> /\ write_completed_queue # <<>>
    <3> DEFINE s == WriteStatus(Head(write_completed_queue))
    <3>1. /\ CallsBack("destroy_cb", Head(write_completed_queue), s)
          /\ s \in {"ok", "error"}
          /\ write_completed_queue' = Tail(write_completed_queue)
          /\ UNCHANGED write_queue
      BY <1>8, <2>3 DEF uv__stream_destroy, WriteStatus
    <3> HIDE DEF s
    <3>2. UNCHANGED stream
      BY <2>1, <3>1 DEF CallsBack, handle, stream, Closing, Closed
    <3>3. Contract!Answer
      BY <1>a, <2>3, <3>1, <3>2, RefinesAnswer
    <3> QED
      BY <3>3 DEF Contract!Next
  <2>4. CASE write_queue = <<>> /\ write_completed_queue = <<>>
    <3>1. at' = "close_cb" /\ UNCHANGED <<write_queue, write_completed_queue, status>>
      BY <1>8, <2>4 DEF uv__stream_destroy
    <3>2. stream' = "closed"
      BY <2>1, <3>1 DEF stream, Closing, Closed, handle
    <3>3. out = <<>> /\ UNCHANGED out
      <4>1. <<>> \o <<>> = <<>>
        BY <1>a, <2>4, ConcatEmptySeq
      <4> QED
        BY <2>4, <3>1, <4>1, Zenon DEF out
    <3>4. Contract!Finish
      BY <1>c, <2>1, <3>1, <3>2, <3>3 DEF Contract!Finish, out, wstatus, stream
    <3> QED
      BY <3>4 DEF Contract!Next
  <2> QED
    BY <2>2, <2>3, <2>4
<1>9. CASE Poll
  BY <1>9, <1>b, <1>c DEF Poll, handle, queue, ctl
<1> QED
  BY <1>1, <1>2, <1>3, <1>4, <1>5, <1>6, <1>7, <1>8, <1>9 DEF Loop

(* What the program's calls do the contract allows.                        *)
LEMMA RefinesUser == ASSUME TypeOK, CloseInv, User PROVE [Contract!Next]_(Contract!vars)
<1>a. /\ write_queue \in Seq(WReqs) /\ write_completed_queue \in Seq(WReqs)
      /\ status \in [Reqs -> {"idle", "active", "ok", "error"}]
      /\ pendings \in Seq(Slot) /\ NextOnce(pendings)
  BY DEF TypeOK, IoTypeOK, QueueTypeOK, HistoryTypeOK, CloseInv, NextOnce, Slot
<1>b. ASSUME UNCHANGED <<queue, at>>, UNCHANGED wstatus,
             "CLOSING" \in flags' <=> "CLOSING" \in flags,
             "CLOSED" \in flags' <=> "CLOSED" \in flags
      PROVE  UNCHANGED Contract!vars
  BY <1>b, Stutters DEF out, stream, Closing, Closed, queue
<1>c. UNCHANGED status => UNCHANGED wstatus
  BY DEF wstatus
<1>1. CASE Return
  <2>1. /\ UNCHANGED <<handle, queue, status>>
        /\ at \in {"uv__stream_destroy", "destroy_cb"}
             <=> at' \in {"uv__stream_destroy", "destroy_cb"}
    BY <1>1 DEF Return, Callback
  <2>2. UNCHANGED stream
    BY <2>1 DEF handle, stream, Closing, Closed
  <2> QED
    BY <1>c, <2>1, <2>2, Stutters DEF out, queue
<1>2. CASE uv__stream_open
  BY <1>2, <1>b, <1>c DEF uv__stream_open, ctl
<1>3. CASE uv_read_start
  BY <1>3, <1>b, <1>c DEF uv_read_start, ctl
<1>4. CASE uv_read_stop
  BY <1>4, <1>b, <1>c DEF uv_read_stop, ctl
<1>5. CASE uv_close
  <2>1. /\ ~Closing /\ "CLOSING" \in flags' /\ UNCHANGED <<queue, ctl, status>>
        /\ "CLOSED" \in flags' <=> "CLOSED" \in flags
    BY <1>5 DEF uv_close, Closing
  <2>2. stream = "open" /\ stream' = "closing"
    BY <2>1 DEF stream, Closing, Closed, CloseInv
  <2>3. Contract!Close
    BY <1>c, <2>1, <2>2 DEF Contract!Close, out, wstatus, stream, queue
  <2> QED
    BY <2>3 DEF Contract!Next
<1>6. ASSUME NEW c \in CReqs, uv__connect(c) PROVE [Contract!Next]_(Contract!vars)
  <2>1. UNCHANGED wstatus
    <3>1. \E s : status' = [status EXCEPT ![c] = s]
      BY <1>6 DEF uv__connect
    <3> QED
      BY <1>a, <3>1, ReqsAssumption, StatusSeen
  <2>2. /\ flags' = flags \/ flags' = flags \cup {"READABLE", "WRITABLE"}
        /\ UNCHANGED <<queue, ctl>>
    BY <1>6 DEF uv__connect
  <2> QED
    BY <1>b, <2>1, <2>2 DEF ctl
<1>7. ASSUME NEW r \in WReqs, NEW n \in Lens, uv_write(r, n)
      PROVE  [Contract!Next]_(Contract!vars)
  <2> DEFINE q == Append(write_queue, r)
             size == write_queue_size + n
             rem == [left EXCEPT ![r] = n]
  <2>1. /\ fd # NoFd /\ status[r] = "idle" /\ UNCHANGED <<handle, ctl>>
        /\ status' = [status EXCEPT ![r] = "active"]
        /\ \/ uv__write(q, size, rem, pendings)
           \/ write_queue' = q /\ UNCHANGED write_completed_queue
    BY <1>7 DEF uv_write
  <2>2. q \in Seq(WReqs) /\ write_completed_queue \o q = Append(out, r)
    BY <1>a, SubmitAppends DEF out
  <2> HIDE DEF q, size, rem
  <2>3. out' = Append(out, r)
    <3>1. CASE uv__write(q, size, rem, pendings)
      BY <1>a, <2>2, <3>1, WriteMoves DEF out
    <3>2. CASE write_queue' = q /\ UNCHANGED write_completed_queue
      BY <2>2, <3>2 DEF out
    <3> QED
      BY <2>1, <3>1, <3>2
  <2>4. wstatus[r] = "idle" /\ wstatus' = [wstatus EXCEPT ![r] = "active"]
    BY <1>a, <2>1, StatusSeen DEF wstatus
  <2>5. stream = "open" /\ UNCHANGED stream
    BY <2>1 DEF stream, Closing, Closed, CloseInv, handle, ctl
  <2>6. Contract!Submit(r)
    BY <2>3, <2>4, <2>5 DEF Contract!Submit, out, wstatus, stream
  <2> QED
    BY <2>6 DEF Contract!Next
<1>8. ASSUME NEW s \in SReqs, uv_shutdown(s) PROVE [Contract!Next]_(Contract!vars)
  <2>1. UNCHANGED wstatus
    BY <1>8, <1>a, ReqsAssumption, StatusSeen DEF uv_shutdown
  <2> QED
    BY <1>8, <1>b, <2>1 DEF uv_shutdown, ctl
<1> QED
  BY <1>1, <1>2, <1>3, <1>4, <1>5, <1>6, <1>7, <1>8 DEF User

(* Every step is one of the contract, or a stutter.                        *)
LEMMA RefinesStep ==
  ASSUME TypeOK, CloseInv, [Next]_vars PROVE [Contract!Next]_(Contract!vars)
<1>1. Environment \/ UNCHANGED vars => UNCHANGED <<handle, queue, ctl, status>>
  BY DEF vars, Environment, ConnResolve, PeerSends, PeerReads, PeerFinishes, PeerResets
<1>2. UNCHANGED <<handle, queue, ctl, status>> => UNCHANGED Contract!vars
  BY Stutters DEF handle, queue, ctl, out, wstatus, stream, Closing, Closed
<1> QED
  BY <1>1, <1>2, RefinesLoop, RefinesUser DEF Next

(* Every behaviour of a stream is one the contract allows: accepted writes *)
(* are called back once each and in order while the stream is open,        *)
(* uv_close has the rest called back before close_cb, and nothing follows. *)
THEOREM StreamImplementsContract == Spec => ImplementsContract
<1>1. Init => CloseInv
  BY DEF Init, CloseInv, Closing, Closed, IsPending, NoFd
<1>2. Init => Contract!Init
  <2> SUFFICES ASSUME Init PROVE Contract!Init
    OBVIOUS
  <2>1. write_completed_queue \o write_queue = <<>>
    <3>1. <<>> \o <<>> = <<>> /\ write_completed_queue = <<>> /\ write_queue = <<>>
      BY ConcatEmptySeq, EmptySeq DEF Init
    <3> QED
      BY <3>1, Zenon
  <2>2. [r \in WReqs |-> status[r]] = [r \in WReqs |-> "idle"] /\ ~Closing
    BY DEF Init, Reqs, Closing
  <2> QED
    BY <2>1, <2>2 DEF Contract!Init
<1>3. TypeOK /\ CloseInv /\ [Next]_vars => CloseInv'
  BY CloseStep
<1>4. TypeOK /\ CloseInv /\ [Next]_vars => [Contract!Next]_(Contract!vars)
  BY RefinesStep
<1> QED
  BY <1>1, <1>2, <1>3, <1>4, TypeCorrect, PTL DEF Spec, ImplementsContract, Contract!Spec

-----------------------------------------------------------------------------
(* Sums over finite sets, by induction: a subset that breaks the claim     *)
(* and has no smaller one that does cannot be.                             *)

(* Induction over the subsets of a finite set.                             *)
LEMMA SubsetsInduct ==
  ASSUME NEW S, IsFiniteSet(S), NEW G,
         \A T \in SUBSET S : (\A U \in SUBSET T : U # T => U \in G) => T \in G
  PROVE  SUBSET S \subseteq G
<1> DEFINE R == StrictSubsetOrdering(S)
           B == (SUBSET S) \ G
<1>1. IsWellFoundedOn(R, SUBSET S)
  BY FS_StrictSubsetOrderingWellFounded, FS_FiniteSubsetsOfFinite
<1> SUFFICES ASSUME B # {} PROVE FALSE
  OBVIOUS
<1>2. PICK T \in B : \A U \in B : ~(<<U, T>> \in R)
  <2> HIDE DEF R
  <2>1. B \subseteq SUBSET S
    OBVIOUS
  <2> HIDE DEF B
  <2> QED
    BY <1>1, <2>1, WFMin
<1>3. \A U \in SUBSET T : U # T => U \in G
  BY <1>2 DEF StrictSubsetOrdering
<1> QED
  BY <1>2, <1>3

Chosen(s) == CHOOSE x \in s : TRUE

\* What SumFunctionOnSet is at bottom: a function that adds up f over subsets.
Adds(f, S, g) ==
  g = [s \in SUBSET S |-> IF s = {} THEN 0 ELSE f[Chosen(s)] + g[s \ {Chosen(s)}]]
Adder(f, S) == CHOOSE g : Adds(f, S, g)

(* The sum the library computes is that function at the top.               *)
LEMMA SumIsAdder ==
  ASSUME NEW f, NEW S
  PROVE  SumFunctionOnSet(f, S) = Adder(f, S)[S]
BY DEF SumFunctionOnSet, FoldFunctionOnSet, MapThenFoldSet, Adder, Adds, Chosen

(* A set that is not empty has the element CHOOSE picks.                   *)
LEMMA ChosenIn == ASSUME NEW s, s # {} PROVE Chosen(s) \in s
BY DEF Chosen

(* There is one such function at most.                                     *)
LEMMA AdderUnique ==
  ASSUME NEW f, NEW A, NEW B, NEW g, NEW h, Adds(f, A, g), Adds(f, B, h),
         NEW T, T \subseteq A, T \subseteq B, IsFiniteSet(T)
  PROVE  g[T] = h[T]
<1> DEFINE G == {U \in SUBSET T : g[U] = h[U]}
<1>1. ASSUME NEW U \in SUBSET T, \A V \in SUBSET U : V # U => V \in G PROVE U \in G
  <2>1. /\ g[U] = IF U = {} THEN 0 ELSE f[Chosen(U)] + g[U \ {Chosen(U)}]
        /\ h[U] = IF U = {} THEN 0 ELSE f[Chosen(U)] + h[U \ {Chosen(U)}]
    <3>1. U \in SUBSET A /\ U \in SUBSET B
      OBVIOUS
    <3> QED
      BY <3>1 DEF Adds
  <2>2. U # {} => g[U \ {Chosen(U)}] = h[U \ {Chosen(U)}]
    BY <1>1, ChosenIn
  <2> QED
    BY <2>1, <2>2
<1> HIDE DEF G
<1>2. SUBSET T \subseteq G
  BY <1>1, SubsetsInduct
<1> QED
  BY <1>2 DEF G

(* There is one.                                                           *)
LEMMA AdderExists ==
  ASSUME NEW f, NEW S, IsFiniteSet(S)
  PROVE  Adds(f, S, Adder(f, S))
<1> DEFINE G == {T \in SUBSET S : Adds(f, T, Adder(f, T))}
<1>1. ASSUME NEW T \in SUBSET S, \A U \in SUBSET T : U # T => U \in G PROVE T \in G
  <2> DEFINE h == [s \in SUBSET T |->
                     IF s = {} THEN 0 ELSE f[Chosen(s)] + Adder(f, s \ {Chosen(s)})[s \ {Chosen(s)}]]
  <2>1. ASSUME NEW s \in SUBSET T, s # {}, s # T PROVE h[s] = Adder(f, s)[s]
    <3>1. s \in G /\ s \ {Chosen(s)} \in G /\ IsFiniteSet(s \ {Chosen(s)})
      BY <1>1, <2>1, ChosenIn, FS_Subset
    <3>2. Adder(f, s)[s] = f[Chosen(s)] + Adder(f, s)[s \ {Chosen(s)}]
      BY <2>1, <3>1 DEF Adds
    <3>3. Adder(f, s)[s \ {Chosen(s)}] = Adder(f, s \ {Chosen(s)})[s \ {Chosen(s)}]
      BY <3>1, AdderUnique
    <3> QED
      BY <2>1, <3>2, <3>3
  <2>2. {} # T => h[{}] = Adder(f, {})[{}]
    <3>1. {} # T => {} \in G
      BY <1>1
    <3> QED
      BY <3>1 DEF Adds
  <2>3. ASSUME NEW s \in SUBSET T, s # {}
        PROVE  h[s \ {Chosen(s)}] = Adder(f, s \ {Chosen(s)})[s \ {Chosen(s)}]
    <3>1. s \ {Chosen(s)} \in SUBSET T /\ s \ {Chosen(s)} # T
      BY <2>3, ChosenIn
    <3> QED
      BY <2>1, <2>2, <3>1
  <2>4. Adds(f, T, h)
    <3>1. \A s \in SUBSET T : h[s] = IF s = {} THEN 0 ELSE f[Chosen(s)] + h[s \ {Chosen(s)}]
      BY <2>3
    <3>2. h = [s \in SUBSET T |-> h[s]]
      OBVIOUS
    <3> HIDE DEF h
    <3> QED
      BY <3>1, <3>2 DEF Adds
  <2> HIDE DEF h
  <2> QED
    BY <2>4 DEF Adder
<1> HIDE DEF G
<1>2. SUBSET S \subseteq G
  BY <1>1, SubsetsInduct
<1> QED
  BY <1>2 DEF G

(* The sum over a finite set, one element at a time.                       *)
LEMMA SumChoice ==
  ASSUME NEW f, NEW S, IsFiniteSet(S)
  PROVE  SumFunctionOnSet(f, S) =
           IF S = {} THEN 0 ELSE f[Chosen(S)] + SumFunctionOnSet(f, S \ {Chosen(S)})
<1> DEFINE T == S \ {Chosen(S)}
<1>1. IsFiniteSet(T) /\ T \subseteq S
  BY FS_Subset
<1>2. Adds(f, S, Adder(f, S)) /\ Adds(f, T, Adder(f, T))
  BY <1>1, AdderExists
<1>3. Adder(f, S)[S] = IF S = {} THEN 0 ELSE f[Chosen(S)] + Adder(f, S)[T]
  BY <1>2 DEF Adds
<1>4. Adder(f, S)[T] = Adder(f, T)[T]
  BY <1>1, <1>2, AdderUnique
<1> QED
  BY <1>3, <1>4, SumIsAdder

(* Whichever element is taken first, the sum is the same.                  *)
LEMMA SumTakes ==
  ASSUME NEW S, IsFiniteSet(S), NEW f, \A x \in S : f[x] \in Int
  PROVE  /\ SumFunctionOnSet(f, S) \in Int
         /\ \A x \in S : SumFunctionOnSet(f, S) = f[x] + SumFunctionOnSet(f, S \ {x})
<1> DEFINE Total(T) == SumFunctionOnSet(f, T)
           G == {T \in SUBSET S : /\ Total(T) \in Int
                                  /\ \A x \in T : Total(T) = f[x] + Total(T \ {x})}
<1>1. ASSUME NEW T \in SUBSET S PROVE Total(T) = IF T = {} THEN 0 ELSE f[Chosen(T)] + Total(T \ {Chosen(T)})
  BY FS_Subset, SumChoice
<1> HIDE DEF Total
<1>2. ASSUME NEW T \in SUBSET S, \A U \in SUBSET T : U # T => U \in G PROVE T \in G
  <2>1. CASE T = {}
    <3>1. Total(T) = 0
      BY <1>1, <2>1
    <3> QED
      BY <2>1, <3>1
  <2>2. CASE T # {}
    <3> DEFINE a == Chosen(T)
    <3>1. a \in T /\ f[a] \in Int
      BY <2>2, ChosenIn
    <3> HIDE DEF a
    <3>2. T \ {a} \in G /\ Total(T) = f[a] + Total(T \ {a})
      BY <1>1, <1>2, <2>2, <3>1 DEF a
    <3>3. ASSUME NEW x \in T PROVE Total(T) = f[x] + Total(T \ {x})
      <4>1. CASE x = a
        BY <3>2, <4>1
      <4>2. CASE x # a
        <5>1. T \ {x} \in G /\ (T \ {a}) \ {x} \in G
          BY <1>2, <3>1
        <5>2. (T \ {a}) \ {x} = (T \ {x}) \ {a} /\ x \in T \ {a} /\ a \in T \ {x}
          BY <3>1, <4>2
        <5>3. Total(T \ {a}) = f[x] + Total((T \ {a}) \ {x})
          BY <3>2, <5>2
        <5>4. Total(T \ {x}) = f[a] + Total((T \ {a}) \ {x})
          BY <5>1, <5>2
        <5>5. Total((T \ {a}) \ {x}) \in Int /\ f[x] \in Int
          BY <5>1
        <5> HIDE DEF G
        <5> QED
          BY <3>1, <3>2, <5>3, <5>4, <5>5
      <4> QED
        BY <4>1, <4>2
    <3>4. Total(T) \in Int
      BY <3>1, <3>2
    <3> QED
      BY <3>3, <3>4
  <2> QED
    BY <2>1, <2>2
<1> HIDE DEF G
<1>3. SUBSET S \subseteq G
  BY <1>2, SubsetsInduct
<1> QED
  BY <1>3 DEF G, Total

(* The sum depends on nothing but the values summed.                       *)
LEMMA SumSame ==
  ASSUME NEW S, IsFiniteSet(S), NEW f, NEW g, \A x \in S : f[x] = g[x]
  PROVE  SumFunctionOnSet(f, S) = SumFunctionOnSet(g, S)
<1> DEFINE G == {T \in SUBSET S : SumFunctionOnSet(f, T) = SumFunctionOnSet(g, T)}
<1>1. ASSUME NEW T \in SUBSET S, \A U \in SUBSET T : U # T => U \in G PROVE T \in G
  <2>1. /\ SumFunctionOnSet(f, T) =
             IF T = {} THEN 0 ELSE f[Chosen(T)] + SumFunctionOnSet(f, T \ {Chosen(T)})
        /\ SumFunctionOnSet(g, T) =
             IF T = {} THEN 0 ELSE g[Chosen(T)] + SumFunctionOnSet(g, T \ {Chosen(T)})
    BY FS_Subset, SumChoice
  <2>2. T # {} => /\ Chosen(T) \in T
                  /\ SumFunctionOnSet(f, T \ {Chosen(T)}) = SumFunctionOnSet(g, T \ {Chosen(T)})
    BY <1>1, ChosenIn
  <2> QED
    BY <2>1, <2>2
<1> HIDE DEF G
<1>2. SUBSET S \subseteq G
  BY <1>1, SubsetsInduct
<1> QED
  BY <1>2 DEF G

-----------------------------------------------------------------------------
(* Queues whose elements are in them once, and the sums over them.         *)

(* Joining the end of one that does not hold it.                           *)
LEMMA AppendOnce ==
  ASSUME NEW S, NEW s \in Seq(S), NEW e \in S, IsInjective(s), e \notin ToSet(s)
  PROVE  /\ Append(s, e) \in Seq(S) /\ IsInjective(Append(s, e))
         /\ ToSet(Append(s, e)) = ToSet(s) \cup {e}
<1>1. /\ Append(s, e) \in Seq(S)
      /\ DOMAIN s = 1..Len(s) /\ Len(s) \in Nat
      /\ DOMAIN Append(s, e) = 1..(Len(s) + 1)
      /\ \A i \in 1..Len(s) : Append(s, e)[i] = s[i]
      /\ Append(s, e)[Len(s) + 1] = e
  BY AppendProperties, LenProperties
<1>2. ToSet(Append(s, e)) = ToSet(s) \cup {e}
  BY <1>1 DEF ToSet
<1>3. IsInjective(Append(s, e))
  BY <1>1 DEF IsInjective, ToSet
<1> QED
  BY <1>1, <1>2, <1>3

(* Concatenation: nothing is in both.                                      *)
LEMMA ConcatOnce ==
  ASSUME NEW S, NEW s \in Seq(S), NEW t \in Seq(S)
  PROVE  /\ s \o t \in Seq(S) /\ ToSet(s \o t) = ToSet(s) \cup ToSet(t)
         /\ IsInjective(s \o t) <=>
              IsInjective(s) /\ IsInjective(t) /\ ToSet(s) \cap ToSet(t) = {}
<1> DEFINE j == s \o t
<1>1. /\ j \in Seq(S) /\ DOMAIN j = 1..(Len(s) + Len(t))
      /\ DOMAIN s = 1..Len(s) /\ DOMAIN t = 1..Len(t)
      /\ Len(s) \in Nat /\ Len(t) \in Nat
      /\ \A i \in 1..(Len(s) + Len(t)) : j[i] = IF i <= Len(s) THEN s[i] ELSE t[i - Len(s)]
  BY ConcatProperties, LenProperties
<1>2. \A i \in 1..Len(s) : i \in DOMAIN j /\ j[i] = s[i]
  BY <1>1
<1>3. ASSUME NEW i \in 1..Len(t) PROVE Len(s) + i \in DOMAIN j /\ j[Len(s) + i] = t[i]
  <2>1. Len(s) + i \in 1..(Len(s) + Len(t)) /\ ~(Len(s) + i <= Len(s)) /\ (Len(s) + i) - Len(s) = i
    BY <1>1
  <2> QED
    BY <1>1, <2>1
<1>4. ASSUME NEW k \in DOMAIN j
      PROVE  \/ k \in 1..Len(s) /\ j[k] = s[k]
             \/ \E i \in 1..Len(t) : k = Len(s) + i /\ j[k] = t[i]
  <2>1. CASE k <= Len(s)
    BY <1>1, <2>1
  <2>2. CASE ~(k <= Len(s))
    <3>1. k - Len(s) \in 1..Len(t) /\ k = Len(s) + (k - Len(s)) /\ j[k] = t[k - Len(s)]
      BY <1>1, <2>2
    <3> QED
      BY <3>1
  <2> QED
    BY <2>1, <2>2
<1> HIDE DEF j
<1>5. ToSet(j) \subseteq ToSet(s) \cup ToSet(t)
  BY <1>1, <1>4 DEF ToSet
<1>6. ToSet(s) \subseteq ToSet(j)
  BY <1>1, <1>2 DEF ToSet
<1>7. ToSet(t) \subseteq ToSet(j)
  <2>1. \A i \in 1..Len(t) : t[i] \in ToSet(j)
    BY <1>3 DEF ToSet
  <2>2. ToSet(t) = {t[i] : i \in 1..Len(t)}
    BY <1>1 DEF ToSet
  <2> QED
    BY <2>1, <2>2
<1>8. ASSUME IsInjective(j) PROVE IsInjective(s) /\ IsInjective(t) /\ ToSet(s) \cap ToSet(t) = {}
  <2>1. IsInjective(s)
    BY <1>1, <1>2, <1>8 DEF IsInjective
  <2>2. IsInjective(t)
    <3>1. ASSUME NEW a \in 1..Len(t), NEW b \in 1..Len(t), t[a] = t[b] PROVE a = b
      <4>1. Len(s) + a = Len(s) + b
        BY <1>3, <1>8, <3>1 DEF IsInjective
      <4> QED
        BY <1>1, <4>1
    <3> QED
      BY <1>1, <3>1 DEF IsInjective
  <2>3. ASSUME NEW a \in 1..Len(s), NEW b \in 1..Len(t), s[a] = t[b] PROVE FALSE
    <3>1. a = Len(s) + b
      BY <1>2, <1>3, <1>8, <2>3 DEF IsInjective
    <3> QED
      BY <1>1, <3>1
  <2> QED
    BY <1>1, <2>1, <2>2, <2>3 DEF ToSet
<1>9. ASSUME IsInjective(s), IsInjective(t), ToSet(s) \cap ToSet(t) = {} PROVE IsInjective(j)
  <2> SUFFICES ASSUME NEW a \in DOMAIN j, NEW b \in DOMAIN j, j[a] = j[b] PROVE a = b
    BY DEF IsInjective
  <2>1. ASSUME NEW m \in 1..Len(s), NEW n \in 1..Len(t) PROVE s[m] # t[n]
    BY <1>1, <1>9 DEF ToSet
  <2>2. \A m, n \in 1..Len(s) : s[m] = s[n] => m = n
    BY <1>1, <1>9 DEF IsInjective
  <2>3. \A m, n \in 1..Len(t) : t[m] = t[n] => m = n
    BY <1>1, <1>9 DEF IsInjective
  <2>4. CASE a \in 1..Len(s) /\ j[a] = s[a]
    BY <1>4, <2>1, <2>2, <2>4
  <2>5. CASE \E i \in 1..Len(t) : a = Len(s) + i /\ j[a] = t[i]
    <3>1. PICK m \in 1..Len(t) : a = Len(s) + m /\ j[a] = t[m]
      BY <2>5
    <3>2. ~(b \in 1..Len(s) /\ j[b] = s[b])
      BY <2>1, <3>1
    <3>3. PICK n \in 1..Len(t) : b = Len(s) + n /\ j[b] = t[n]
      BY <1>4, <3>2
    <3> QED
      BY <2>3, <3>1, <3>3
  <2> QED
    BY <1>4, <2>4, <2>5
<1> QED
  BY <1>1, <1>5, <1>6, <1>7, <1>8, <1>9 DEF j

(* The first one is taken.                                                 *)
LEMMA TailOnce ==
  ASSUME NEW S, NEW s \in Seq(S), s # <<>>, IsInjective(s)
  PROVE  /\ Head(s) \in S /\ Head(s) \in ToSet(s)
         /\ Tail(s) \in Seq(S) /\ IsInjective(Tail(s))
         /\ ToSet(Tail(s)) = ToSet(s) \ {Head(s)}
<1>1. Head(s) \in S /\ Tail(s) \in Seq(S) /\ <<Head(s)>> \in Seq(S)
  BY HeadTailProperties
<1>2. s = <<Head(s)>> \o Tail(s)
  <2>1. /\ Len(s) \in Nat \ {0} /\ SubSeq(s, 1, Len(s)) = s
        /\ SubSeq(s, 1, Len(s)) = <<s[1]>> \o SubSeq(s, 2, Len(s))
        /\ Tail(s) = SubSeq(s, 2, Len(s)) /\ Head(s) = s[1]
    BY EmptySeq, SubSeqFull, SubSeqRecursiveFirst, TailIsSubSeq
  <2> QED
    BY <2>1
<1>3. ToSet(<<Head(s)>>) = {Head(s)}
  BY DEF ToSet
<1> DEFINE h == <<Head(s)>>
           l == Tail(s)
<1>4. /\ ToSet(h \o l) = ToSet(h) \cup ToSet(l)
      /\ IsInjective(h \o l) => IsInjective(l) /\ ToSet(h) \cap ToSet(l) = {}
  <2>1. h \in Seq(S) /\ l \in Seq(S)
    BY <1>1
  <2> HIDE DEF h, l
  <2> QED
    BY <2>1, ConcatOnce
<1> QED
  BY <1>1, <1>2, <1>3, <1>4

(* A sequence has finitely many elements.                                  *)
LEMMA ToSetFinite == ASSUME NEW S, NEW q \in Seq(S) PROVE IsFiniteSet(ToSet(q)) /\ ToSet(q) \subseteq S
<1>1. DOMAIN q = 1..Len(q) /\ Len(q) \in Nat /\ \A i \in 1..Len(q) : q[i] \in S
  BY LenProperties, ElementOfSeq
<1>2. q \in Seq(ToSet(q)) /\ \A e \in ToSet(q) : \E i \in 1..Len(q) : q[i] = e
  BY <1>1, IsASeq DEF ToSet
<1> QED
  BY <1>1, <1>2 DEF ToSet, IsFiniteSet

(* The sum over an empty queue, and over one without its head.             *)
LEMMA SumQueue ==
  ASSUME NEW f \in [WReqs -> Nat], NEW q \in Seq(WReqs), IsInjective(q)
  PROVE  /\ SumFunctionOnSet(f, ToSet(q)) \in Int
         /\ q = <<>> => SumFunctionOnSet(f, ToSet(q)) = 0
         /\ q # <<>> => SumFunctionOnSet(f, ToSet(q))
                          = f[Head(q)] + SumFunctionOnSet(f, ToSet(Tail(q)))
<1>1. /\ IsFiniteSet(ToSet(q)) /\ ToSet(q) \subseteq WReqs
      /\ \A x \in ToSet(q) : f[x] \in Int
  BY ToSetFinite
<1>2. q = <<>> => ToSet(q) = {}
  BY DEF ToSet
<1>3. SumFunctionOnSet(f, {}) = 0
  BY SumChoice, FS_EmptySet
<1>4. q # <<>> => Head(q) \in ToSet(q) /\ ToSet(Tail(q)) = ToSet(q) \ {Head(q)}
  BY TailOnce
<1>5. /\ SumFunctionOnSet(f, ToSet(q)) \in Int
      /\ \A x \in ToSet(q) :
           SumFunctionOnSet(f, ToSet(q)) = f[x] + SumFunctionOnSet(f, ToSet(q) \ {x})
  BY <1>1, SumTakes
<1> QED
  BY <1>2, <1>3, <1>4, <1>5

(* One value changes, the sum by as much.                                  *)
LEMMA SumChanges ==
  ASSUME NEW f \in [WReqs -> Nat], NEW g \in [WReqs -> Nat],
         NEW q \in Seq(WReqs), IsInjective(q), q # <<>>,
         \A r \in WReqs : r # Head(q) => g[r] = f[r]
  PROVE  SumFunctionOnSet(g, ToSet(q))
           = SumFunctionOnSet(f, ToSet(q)) - f[Head(q)] + g[Head(q)]
<1>1. /\ Tail(q) \in Seq(WReqs) /\ IsInjective(Tail(q)) /\ Head(q) \in WReqs
      /\ Head(q) \notin ToSet(Tail(q))
  BY TailOnce
<1>2. IsFiniteSet(ToSet(Tail(q))) /\ ToSet(Tail(q)) \subseteq WReqs
  BY <1>1, ToSetFinite
<1>3. SumFunctionOnSet(f, ToSet(Tail(q))) = SumFunctionOnSet(g, ToSet(Tail(q)))
  BY <1>1, <1>2, SumSame
<1>4. /\ SumFunctionOnSet(f, ToSet(q)) = f[Head(q)] + SumFunctionOnSet(f, ToSet(Tail(q)))
      /\ SumFunctionOnSet(g, ToSet(q)) = g[Head(q)] + SumFunctionOnSet(g, ToSet(Tail(q)))
      /\ SumFunctionOnSet(f, ToSet(Tail(q))) \in Int
  BY <1>1, SumQueue
<1>5. f[Head(q)] \in Nat /\ g[Head(q)] \in Nat
  BY <1>1
<1> QED
  BY <1>3, <1>4, <1>5

(* A request joins the queue, its bytes the sum.                           *)
LEMMA SumJoins ==
  ASSUME NEW f \in [WReqs -> Nat], NEW q \in Seq(WReqs), IsInjective(q),
         NEW r \in WReqs, r \notin ToSet(q), NEW n \in Nat
  PROVE  SumFunctionOnSet([f EXCEPT ![r] = n], ToSet(Append(q, r)))
           = SumFunctionOnSet(f, ToSet(q)) + n
<1> DEFINE g == [f EXCEPT ![r] = n]
<1>1. g \in [WReqs -> Nat] /\ g[r] = n /\ \A x \in ToSet(q) : f[x] = g[x]
  BY ToSetFinite
<1> HIDE DEF g
<1>2. /\ Append(q, r) \in Seq(WReqs) /\ ToSet(Append(q, r)) = ToSet(q) \cup {r}
  BY AppendOnce
<1>3. IsFiniteSet(ToSet(q)) /\ IsFiniteSet(ToSet(Append(q, r)))
  BY <1>2, ToSetFinite
<1>4. SumFunctionOnSet(f, ToSet(q)) = SumFunctionOnSet(g, ToSet(q))
  BY <1>1, <1>3, SumSame
<1> DEFINE A == ToSet(Append(q, r))
<1>5. /\ r \in A /\ A \ {r} = ToSet(q) /\ IsFiniteSet(A) /\ \A x \in A : g[x] \in Int
  BY <1>1, <1>2, <1>3, ToSetFinite
<1> HIDE DEF A
<1>6. SumFunctionOnSet(g, A) = g[r] + SumFunctionOnSet(g, A \ {r})
  BY <1>5, SumTakes
<1>7. SumFunctionOnSet(f, ToSet(q)) \in Int
  BY SumQueue
<1>8. SumFunctionOnSet(g, A) = SumFunctionOnSet(f, ToSet(q)) + n
  <2>1. SumFunctionOnSet(g, A) = n + SumFunctionOnSet(f, ToSet(q))
    BY <1>1, <1>4, <1>5, <1>6, Zenon
  <2> QED
    BY <1>7, <2>1
<1> QED
  BY <1>8, Zenon DEF A, g

-----------------------------------------------------------------------------
(* AccountInv is inductive.                                                *)

(* uv__write takes at most the head from its queue, finished or failed,    *)
(* and what it subtracts from the size the queued requests lose.           *)
LEMMA WriteAccounts ==
  ASSUME QueueTypeOK, room \in Nat,
         NEW q \in Seq(WReqs), NEW size \in Int, NEW rem \in [WReqs -> Nat],
         NEW p, uv__write(q, size, rem, p),
         IsInjective(q), IsInjective(write_completed_queue),
         ToSet(q) \cap ToSet(write_completed_queue) = {},
         \A r \in ToSet(write_completed_queue) : error[r] \/ rem[r] = 0
  PROVE  /\ QueuesApart' /\ FinishedForAReason'
         /\ Queued' = ToSet(q) \cup ToSet(write_completed_queue)
         /\ size = SumFunctionOnSet(rem, ToSet(q)) =>
              write_queue_size' = SumFunctionOnSet(left', ToSet(write_queue'))
         /\ \A r \in WReqs \ ToSet(q) : left'[r] = rem[r] /\ error'[r] = error[r]
<1> DEFINE h == Head(q)
           c == write_completed_queue
<1>a. /\ c \in Seq(WReqs) /\ error \in [WReqs -> BOOLEAN]
      /\ ToSet(c) \subseteq WReqs /\ ToSet(q) \subseteq WReqs
  BY ToSetFinite DEF QueueTypeOK
<1>b. q # <<>> => /\ h \in WReqs /\ h \in ToSet(q) /\ h \notin ToSet(c)
                  /\ Tail(q) \in Seq(WReqs) /\ IsInjective(Tail(q))
                  /\ ToSet(Tail(q)) = ToSet(q) \ {h}
                  /\ IsInjective(Append(c, h)) /\ ToSet(Append(c, h)) = ToSet(c) \cup {h}
  <2>1. q # <<>> => /\ h \in WReqs /\ h \in ToSet(q)
                    /\ Tail(q) \in Seq(WReqs) /\ IsInjective(Tail(q))
                    /\ ToSet(Tail(q)) = ToSet(q) \ {h}
    BY TailOnce
  <2>2. q # <<>> => h \notin ToSet(c)
    BY <2>1
  <2> HIDE DEF h, c
  <2>3. q # <<>> => IsInjective(Append(c, h)) /\ ToSet(Append(c, h)) = ToSet(c) \cup {h}
    BY <1>a, <2>1, <2>2, AppendOnce DEF c
  <2> QED
    BY <2>1, <2>2, <2>3
<1>c. q # <<>> => /\ rem[h] \in Nat
                  /\ SumFunctionOnSet(rem, ToSet(q)) \in Int
                  /\ SumFunctionOnSet(rem, ToSet(Tail(q))) \in Int
                  /\ SumFunctionOnSet(rem, ToSet(q)) = rem[h] + SumFunctionOnSet(rem, ToSet(Tail(q)))
  BY <1>b, SumQueue
<1> HIDE DEF h
<1>1. ASSUME write_queue' = q, write_completed_queue' = c
      PROVE  QueuesApart' /\ Queued' = ToSet(q) \cup ToSet(c)
  BY <1>1 DEF QueuesApart, Queued
<1>2. ASSUME q # <<>>, uv__write_req_finish(q, p)
      PROVE  /\ QueuesApart' /\ Queued' = ToSet(q) \cup ToSet(c)
             /\ ToSet(write_completed_queue') = ToSet(c) \cup {h}
             /\ write_queue' = Tail(q)
  <2>1. write_queue' = Tail(q) /\ write_completed_queue' = Append(c, h)
    BY <1>2 DEF uv__write_req_finish, h
  <2> HIDE DEF c
  <2> QED
    BY <1>b, <1>2, <2>1 DEF QueuesApart, Queued, c
<1>3. CASE q = <<>>
  <2>1. /\ write_queue' = q /\ write_queue_size' = size /\ left' = rem
        /\ write_completed_queue' = c /\ error' = error
    BY <1>3 DEF uv__write, h
  <2> QED
    BY <1>1, <2>1 DEF FinishedForAReason
<1>4. CASE q # <<>> /\ WriteFails
  <2>1. /\ error' = [error EXCEPT ![h] = TRUE]
        /\ write_queue_size' = size - rem[h] /\ left' = rem
        /\ uv__write_req_finish(q, p)
    BY <1>4 DEF uv__write, uv__write_req_size, h
  <2>2. error'[h] /\ \A r \in WReqs : r # h => error'[r] = error[r]
    BY <1>a, <1>b, <1>4, <2>1, Zenon
  <2>3. FinishedForAReason'
    BY <1>2, <1>4, <1>a, <2>1, <2>2 DEF FinishedForAReason
  <2>4. size = SumFunctionOnSet(rem, ToSet(q)) =>
          write_queue_size' = SumFunctionOnSet(left', ToSet(write_queue'))
    <3>1. left' = rem /\ write_queue' = Tail(q)
      BY <1>2, <1>4, <2>1
    <3>2. size = SumFunctionOnSet(rem, ToSet(q)) =>
            write_queue_size' = SumFunctionOnSet(rem, ToSet(Tail(q)))
      BY <1>4, <1>c, <2>1
    <3> QED
      BY <3>1, <3>2, Zenon
  <2>5. \A r \in WReqs \ ToSet(q) : left'[r] = rem[r] /\ error'[r] = error[r]
    BY <1>b, <1>4, <2>1, <2>2
  <2> QED
    BY <1>2, <1>4, <2>1, <2>3, <2>4, <2>5
<1>5. CASE q # <<>> /\ ~WriteFails /\ WouldBlock(rem[h])
  <2>1. /\ write_queue' = q /\ write_queue_size' = size /\ left' = rem
        /\ write_completed_queue' = c /\ error' = error
    BY <1>5 DEF uv__write, h
  <2> QED
    BY <1>1, <2>1 DEF FinishedForAReason
<1>6. CASE q # <<>> /\ ~WriteFails /\ ~WouldBlock(rem[h])
  <2>1. PICK n \in 0..room :
          /\ n <= rem[h]
          /\ left' = [rem EXCEPT ![h] = @ - n]
          /\ write_queue_size' = size - n
          /\ \/ n = rem[h] /\ uv__write_req_finish(q, p)
             \/ write_queue' = q /\ write_completed_queue' = c
    BY <1>6 DEF uv__write, h
  <2>2. error' = error
    BY <1>6 DEF uv__write, h
  <2>3. n \in Nat /\ rem[h] - n \in Nat
    BY <1>c, <1>6, <2>1
  <2>4. /\ left' \in [WReqs -> Nat] /\ left'[h] = rem[h] - n
        /\ \A r \in WReqs : r # h => left'[r] = rem[r]
    BY <1>b, <1>6, <2>1, <2>3
  <2>5. \A r \in WReqs \ ToSet(q) : left'[r] = rem[r] /\ error'[r] = error[r]
    BY <1>b, <1>6, <2>2, <2>4
  <2>6. SumFunctionOnSet(left', ToSet(q)) = SumFunctionOnSet(rem, ToSet(q)) - n
    <3>1. SumFunctionOnSet(left', ToSet(q))
            = SumFunctionOnSet(rem, ToSet(q)) - rem[h] + left'[h]
      BY <1>6, <2>4, SumChanges DEF h
    <3> QED
      BY <1>c, <1>6, <2>3, <2>4, <3>1
  <2>7. CASE n = rem[h] /\ uv__write_req_finish(q, p)
    <3>1. FinishedForAReason'
      BY <1>a, <1>b, <1>2, <1>6, <2>2, <2>3, <2>4, <2>7 DEF FinishedForAReason
    <3>2. SumFunctionOnSet(left', ToSet(q))
            = left'[h] + SumFunctionOnSet(left', ToSet(Tail(q)))
      BY <1>6, <2>4, SumQueue DEF h
    <3>3. SumFunctionOnSet(left', ToSet(Tail(q))) \in Int
      BY <1>b, <1>6, <2>4, SumQueue
    <3>4. size = SumFunctionOnSet(rem, ToSet(q)) =>
            write_queue_size' = SumFunctionOnSet(left', ToSet(write_queue'))
      <4>1. write_queue' = Tail(q)
        BY <1>2, <1>6, <2>7
      <4>2. left'[h] = 0 /\ write_queue_size' = size - n
        BY <2>1, <2>3, <2>4, <2>7
      <4>3. SumFunctionOnSet(left', ToSet(q)) = SumFunctionOnSet(left', ToSet(Tail(q)))
        BY <3>2, <3>3, <4>2
      <4>4. size = SumFunctionOnSet(rem, ToSet(q)) =>
              write_queue_size' = SumFunctionOnSet(left', ToSet(Tail(q)))
        BY <2>6, <4>2, <4>3
      <4> QED
        BY <4>1, <4>4, Zenon
    <3> QED
      BY <1>2, <1>6, <2>5, <2>7, <3>1, <3>4
  <2>8. CASE write_queue' = q /\ write_completed_queue' = c
    <3>1. FinishedForAReason'
      BY <1>a, <1>b, <1>6, <2>2, <2>4, <2>8 DEF FinishedForAReason
    <3>2. size = SumFunctionOnSet(rem, ToSet(q)) =>
            write_queue_size' = SumFunctionOnSet(left', ToSet(write_queue'))
      BY <2>1, <2>6, <2>8
    <3> QED
      BY <1>1, <2>5, <2>8, <3>1, <3>2
  <2> QED
    BY <2>1, <2>7, <2>8
<1> QED
  BY <1>3, <1>4, <1>5, <1>6

(* A step that leaves the queues and what the program knows of its writes  *)
(* alone.                                                                  *)
LEMMA AccountKept ==
  ASSUME AccountInv, UNCHANGED queue, \A r \in WReqs : status'[r] = status[r],
         "CLOSED" \in flags => "CLOSED" \in flags'
  PROVE  AccountInv'
<1>1. UNCHANGED <<write_queue, write_completed_queue, write_queue_size, left, error>>
  BY DEF queue
<1>2. QueuesApart'
  BY <1>1 DEF AccountInv, QueuesApart
<1>3. QueuedIsActive'
  BY <1>1 DEF AccountInv, QueuedIsActive, Queued
<1>4. FinishedForAReason'
  BY <1>1 DEF AccountInv, FinishedForAReason
<1>5. BytesAccounted'
  BY <1>1 DEF AccountInv, BytesAccounted
<1> QED
  BY <1>2, <1>3, <1>4, <1>5 DEF AccountInv

(* The status of one request changes, no other.                            *)
LEMMA StatusSet ==
  ASSUME HistoryTypeOK, NEW r, NEW s, status' = [status EXCEPT ![r] = s]
  PROVE  /\ r \in Reqs => status'[r] = s
         /\ \A x \in Reqs : x # r => status'[x] = status[x]
         /\ r \notin WReqs => \A x \in WReqs : status'[x] = status[x]
BY DEF HistoryTypeOK, Reqs

(* Calling back the head of the completed queue, with what it deserves.    *)
LEMMA AnswerAccounts ==
  ASSUME QueueTypeOK, HistoryTypeOK, AccountInv, write_completed_queue # <<>>, NEW cb,
         CallsBack(cb, Head(write_completed_queue), WriteStatus(Head(write_completed_queue))),
         write_completed_queue' = Tail(write_completed_queue),
         UNCHANGED <<write_queue, write_queue_size, left, error, flags>>
  PROVE  AccountInv'
<1> DEFINE h == Head(write_completed_queue)
<1>1. /\ h \in ToSet(write_completed_queue) /\ h \in WReqs /\ h \in Reqs
      /\ IsInjective(write_completed_queue')
      /\ ToSet(write_completed_queue') = ToSet(write_completed_queue) \ {h}
  BY TailOnce DEF QueueTypeOK, AccountInv, QueuesApart, Reqs
<1>2. status' = [status EXCEPT ![h] = WriteStatus(h)]
  BY DEF CallsBack
<1> HIDE DEF h
<1>3. /\ status'[h] = WriteStatus(h)
      /\ \A x \in WReqs : x # h => status'[x] = status[x]
  BY <1>1, <1>2, StatusSet DEF Reqs
<1>4. QueuesApart'
  BY <1>1 DEF AccountInv, QueuesApart
<1>5. QueuedIsActive'
  <2>1. h \notin ToSet(write_queue)
    BY <1>1 DEF AccountInv, QueuesApart
  <2>2. Queued' = Queued \ {h}
    BY <1>1, <2>1 DEF Queued
  <2>3. status'[h] # "active"
    BY <1>3 DEF WriteStatus
  <2> QED
    BY <1>3, <2>2, <2>3 DEF AccountInv, QueuedIsActive
<1>6. FinishedForAReason'
  BY <1>1 DEF AccountInv, FinishedForAReason
<1>7. BytesAccounted'
  <2>1. status'[h] = "ok" => left[h] = 0 /\ ~error[h]
    BY <1>1, <1>3 DEF AccountInv, FinishedForAReason, WriteStatus
  <2> QED
    BY <1>3, <2>1 DEF AccountInv, BytesAccounted
<1> QED
  BY <1>4, <1>5, <1>6, <1>7 DEF AccountInv

(* Destroying a request never written: it failed.                          *)
LEMMA CancelAccounts ==
  ASSUME QueueTypeOK, HistoryTypeOK, AccountInv, write_queue # <<>>, NEW cb,
         CallsBack(cb, Head(write_queue), "error"), write_queue' = Tail(write_queue),
         "CLOSED" \in flags,
         UNCHANGED <<write_completed_queue, write_queue_size, left, error, flags>>
  PROVE  AccountInv'
<1> DEFINE h == Head(write_queue)
<1>1. /\ h \in ToSet(write_queue) /\ h \in WReqs /\ h \in Reqs
      /\ IsInjective(write_queue')
      /\ ToSet(write_queue') = ToSet(write_queue) \ {h}
  BY TailOnce DEF QueueTypeOK, AccountInv, QueuesApart, Reqs
<1>2. status' = [status EXCEPT ![h] = "error"]
  BY DEF CallsBack
<1> HIDE DEF h
<1>3. /\ status'[h] = "error"
      /\ \A x \in WReqs : x # h => status'[x] = status[x]
  BY <1>1, <1>2, StatusSet DEF Reqs
<1>4. QueuesApart'
  BY <1>1 DEF AccountInv, QueuesApart
<1>5. QueuedIsActive'
  <2>1. h \notin ToSet(write_completed_queue)
    BY <1>1 DEF AccountInv, QueuesApart
  <2>2. Queued' = Queued \ {h}
    BY <1>1, <2>1 DEF Queued
  <2> QED
    BY <1>3, <2>2 DEF AccountInv, QueuedIsActive
<1>6. FinishedForAReason'
  BY DEF AccountInv, FinishedForAReason
<1>7. BytesAccounted'
  BY <1>3 DEF AccountInv, BytesAccounted
<1> QED
  BY <1>4, <1>5, <1>6, <1>7 DEF AccountInv

(* The handlers preserve AccountInv.                                       *)
LEMMA AccountLoop == ASSUME TypeOK, CloseInv, AccountInv, Loop PROVE AccountInv'
<1>a. /\ HandleTypeOK /\ QueueTypeOK /\ HistoryTypeOK /\ room \in Nat
      /\ connect_req \notin WReqs /\ shutdown_req \notin WReqs
  BY SizeAssumption, ReqsAssumption DEF TypeOK, KernelTypeOK, HandleTypeOK, Reqs
<1>b. UNCHANGED status => \A r \in WReqs : status'[r] = status[r]
  OBVIOUS
<1>1. CASE InvokeDummy
  BY <1>1, <1>b, AccountKept DEF InvokeDummy, handle
<1>2. CASE uv__stream_connect
  <2>1. \A r \in WReqs : status'[r] = status[r]
    BY <1>a, <1>2, StatusSet DEF uv__stream_connect, CallsBack
  <2> QED
    BY <1>2, <2>1, AccountKept DEF uv__stream_connect
<1>3. CASE StreamReadable
  BY <1>3, <1>b, AccountKept DEF StreamReadable, handle
<1>4. CASE StreamWritable
  <2>1. /\ uv__write(write_queue, write_queue_size, left, Invoked)
        /\ UNCHANGED <<flags, status>>
    BY <1>4 DEF StreamWritable, handle
  <2>2. /\ write_queue \in Seq(WReqs) /\ write_queue_size \in Int
        /\ left \in [WReqs -> Nat]
        /\ IsInjective(write_queue) /\ IsInjective(write_completed_queue)
        /\ ToSet(write_queue) \cap ToSet(write_completed_queue) = {}
        /\ \A r \in ToSet(write_completed_queue) : error[r] \/ left[r] = 0
    BY <1>a DEF QueueTypeOK, AccountInv, QueuesApart, FinishedForAReason
  <2>3. /\ QueuesApart' /\ FinishedForAReason'
        /\ Queued' = ToSet(write_queue) \cup ToSet(write_completed_queue)
        /\ write_queue_size = SumFunctionOnSet(left, ToSet(write_queue)) =>
             write_queue_size' = SumFunctionOnSet(left', ToSet(write_queue'))
        /\ \A r \in WReqs \ ToSet(write_queue) : left'[r] = left[r] /\ error'[r] = error[r]
    BY <1>a, <2>1, <2>2, WriteAccounts
  <2>4. QueuedIsActive'
    BY <2>1, <2>3 DEF AccountInv, QueuedIsActive, Queued
  <2>5. \A r \in WReqs : status[r] = "ok" => r \notin ToSet(write_queue)
    BY DEF AccountInv, QueuedIsActive, Queued
  <2>6. BytesAccounted'
    BY <2>1, <2>3, <2>5 DEF AccountInv, BytesAccounted
  <2> QED
    BY <2>3, <2>4, <2>6 DEF AccountInv
<1>5. CASE uv__finish_close
  BY <1>5, <1>b, AccountKept DEF uv__finish_close
<1>6. CASE uv__read
  BY <1>6, <1>b, AccountKept DEF uv__read, handle
<1>7. CASE uv__write_callbacks
  <2>1. CASE write_completed_queue # <<>>
    BY <1>7, <1>a, <2>1, AnswerAccounts DEF uv__write_callbacks, handle
  <2>2. CASE write_completed_queue = <<>> /\ write_queue # <<>>
    BY <1>7, <1>b, <2>2, AccountKept DEF uv__write_callbacks, uv_write_queue_head_null, handle
  <2>3. CASE write_completed_queue = <<>> /\ write_queue = <<>>
    <3>1. uv__drain
      BY <1>7, <2>3 DEF uv__write_callbacks, uv_write_queue_head_null
    <3>2. \A r \in WReqs : status'[r] = status[r]
      BY <1>a, <1>b, <3>1, StatusSet DEF uv__drain, CallsBack
    <3>3. UNCHANGED queue /\ ("CLOSED" \in flags => "CLOSED" \in flags')
      BY <3>1 DEF uv__drain
    <3> QED
      BY <3>2, <3>3, AccountKept
  <2> QED
    BY <2>1, <2>2, <2>3
<1>8. CASE uv__stream_destroy
  <2>1. "CLOSED" \in flags /\ UNCHANGED <<flags, write_queue_size, left, error>>
    BY <1>8 DEF uv__stream_destroy, CloseInv, handle
  <2>2. CASE write_queue # <<>>
    BY <1>8, <1>a, <2>1, <2>2, CancelAccounts DEF uv__stream_destroy
  <2>3. CASE write_queue = <<>> /\ write_completed_queue # <<>>
    BY <1>8, <1>a, <2>1, <2>3, AnswerAccounts DEF uv__stream_destroy
  <2>4. CASE write_queue = <<>> /\ write_completed_queue = <<>>
    BY <1>8, <1>b, <2>1, <2>4, AccountKept DEF uv__stream_destroy, queue
  <2> QED
    BY <2>2, <2>3, <2>4
<1>9. CASE Poll
  BY <1>9, <1>b, AccountKept DEF Poll, handle
<1> QED
  BY <1>1, <1>2, <1>3, <1>4, <1>5, <1>6, <1>7, <1>8, <1>9 DEF Loop

(* So do the program's calls.                                              *)
LEMMA AccountUser == ASSUME TypeOK, CloseInv, AccountInv, User PROVE AccountInv'
<1>a. QueueTypeOK /\ HistoryTypeOK /\ room \in Nat
  BY SizeAssumption DEF TypeOK, KernelTypeOK
<1>b. UNCHANGED status => \A r \in WReqs : status'[r] = status[r]
  OBVIOUS
<1>1. CASE Return
  BY <1>1, <1>b, AccountKept DEF Return, handle
<1>2. CASE uv__stream_open
  BY <1>2, <1>b, AccountKept DEF uv__stream_open
<1>3. CASE uv_read_start
  BY <1>3, <1>b, AccountKept DEF uv_read_start
<1>4. CASE uv_read_stop
  BY <1>4, <1>b, AccountKept DEF uv_read_stop
<1>5. CASE uv_close
  BY <1>5, <1>b, AccountKept DEF uv_close
<1>6. ASSUME NEW c \in CReqs, uv__connect(c) PROVE AccountInv'
  <2>1. \E s : status' = [status EXCEPT ![c] = s]
    BY <1>6 DEF uv__connect
  <2>2. \A r \in WReqs : status'[r] = status[r]
    BY <1>a, <2>1, StatusSet, ReqsAssumption
  <2>3. UNCHANGED queue /\ ("CLOSED" \in flags => "CLOSED" \in flags')
    BY <1>6 DEF uv__connect
  <2> QED
    BY <2>2, <2>3, AccountKept
<1>7. ASSUME NEW r \in WReqs, NEW n \in Lens, uv_write(r, n) PROVE AccountInv'
  <2> DEFINE q == Append(write_queue, r)
             size == write_queue_size + n
             rem == [left EXCEPT ![r] = n]
             c == write_completed_queue
  <2>1. /\ status[r] = "idle" /\ status' = [status EXCEPT ![r] = "active"]
        /\ UNCHANGED flags
        /\ \/ uv__write(q, size, rem, pendings)
           \/ /\ write_queue' = q /\ write_queue_size' = size /\ left' = rem
              /\ write_completed_queue' = c /\ error' = error
    BY <1>7 DEF uv_write, handle
  <2>2. n \in Nat /\ size \in Int /\ rem \in [WReqs -> Nat]
    BY <1>a, SizeAssumption DEF QueueTypeOK
  <2>3. r \notin ToSet(write_queue) /\ r \notin ToSet(c)
    BY <2>1 DEF AccountInv, QueuedIsActive, Queued
  <2>4. /\ q \in Seq(WReqs) /\ IsInjective(q) /\ ToSet(q) = ToSet(write_queue) \cup {r}
    BY <1>a, <2>3, AppendOnce DEF QueueTypeOK, AccountInv, QueuesApart
  <2>5. write_queue_size = SumFunctionOnSet(left, ToSet(write_queue)) =>
          size = SumFunctionOnSet(rem, ToSet(q))
    <3>1. /\ write_queue \in Seq(WReqs) /\ IsInjective(write_queue)
          /\ left \in [WReqs -> Nat]
      BY <1>a DEF QueueTypeOK, AccountInv, QueuesApart
    <3>2. SumFunctionOnSet(rem, ToSet(q)) = SumFunctionOnSet(left, ToSet(write_queue)) + n
      <4>1. n \in Nat /\ r \notin ToSet(write_queue)
        BY <2>2, <2>3
      <4> QED
        BY <3>1, <4>1, SumJoins
    <3> HIDE DEF rem, q
    <3> QED
      BY <3>2
  <2>6. \A x \in WReqs : x # r => rem[x] = left[x]
    BY <1>a DEF QueueTypeOK
  <2>7. \A x \in ToSet(c) : error[x] \/ rem[x] = 0
    <3>1. ToSet(c) \subseteq WReqs
      BY <1>a, ToSetFinite DEF QueueTypeOK
    <3> QED
      BY <2>3, <2>6, <3>1 DEF AccountInv, FinishedForAReason
  <2>8. IsInjective(c) /\ ToSet(q) \cap ToSet(c) = {}
    BY <2>3, <2>4 DEF AccountInv, QueuesApart
  <2>9. /\ status'[r] = "active" /\ \A x \in WReqs : x # r => status'[x] = status[x]
    BY <1>a, <2>1, StatusSet DEF Reqs
  <2> HIDE DEF q, size, rem, c
  <2>10. /\ QueuesApart' /\ FinishedForAReason'
         /\ Queued' = ToSet(q) \cup ToSet(c)
         /\ size = SumFunctionOnSet(rem, ToSet(q)) =>
              write_queue_size' = SumFunctionOnSet(left', ToSet(write_queue'))
         /\ \A x \in WReqs \ ToSet(q) : left'[x] = rem[x] /\ error'[x] = error[x]
    <3>1. CASE uv__write(q, size, rem, pendings)
      BY <1>a, <2>2, <2>4, <2>7, <2>8, <3>1, WriteAccounts DEF c
    <3>2. CASE /\ write_queue' = q /\ write_queue_size' = size /\ left' = rem
               /\ write_completed_queue' = c /\ error' = error
      BY <2>4, <2>7, <2>8, <3>2 DEF QueuesApart, FinishedForAReason, Queued
    <3> QED
      BY <2>1, <3>1, <3>2
  <2>11. QueuedIsActive'
    BY <2>4, <2>9, <2>10 DEF AccountInv, QueuedIsActive, Queued, c
  <2>12. BytesAccounted'
    <3>1. \A x \in WReqs : status'[x] = "ok" => /\ x # r /\ status[x] = "ok"
                                                /\ x \notin ToSet(q)
      BY <2>4, <2>9 DEF AccountInv, QueuedIsActive, Queued
    <3>2. \A x \in WReqs : status'[x] = "ok" => left'[x] = 0 /\ ~error'[x]
      BY <2>6, <2>10, <3>1 DEF AccountInv, BytesAccounted
    <3>3. "CLOSED" \notin flags' =>
            write_queue_size' = SumFunctionOnSet(left', ToSet(write_queue'))
      BY <2>1, <2>5, <2>10 DEF AccountInv, BytesAccounted
    <3> QED
      BY <3>2, <3>3 DEF BytesAccounted
  <2> QED
    BY <2>10, <2>11, <2>12 DEF AccountInv
<1>8. ASSUME NEW s \in SReqs, uv_shutdown(s) PROVE AccountInv'
  <2>1. \A r \in WReqs : status'[r] = status[r]
    BY <1>8, <1>a, StatusSet, ReqsAssumption DEF uv_shutdown
  <2>2. UNCHANGED queue /\ ("CLOSED" \in flags => "CLOSED" \in flags')
    BY <1>8 DEF uv_shutdown
  <2> QED
    BY <2>1, <2>2, AccountKept
<1> QED
  BY <1>1, <1>2, <1>3, <1>4, <1>5, <1>6, <1>7, <1>8 DEF User

(* So does every step.                                                     *)
LEMMA AccountStep ==
  ASSUME TypeOK, CloseInv, AccountInv, [Next]_vars PROVE AccountInv'
<1>1. Environment \/ UNCHANGED vars => UNCHANGED <<handle, queue, status>>
  BY DEF vars, Environment, ConnResolve, PeerSends, PeerReads, PeerFinishes, PeerResets
<1>2. UNCHANGED <<handle, queue, status>> => AccountInv'
  BY AccountKept DEF handle
<1> QED
  BY <1>1, <1>2, AccountLoop, AccountUser DEF Next

(* The queues start empty.                                                 *)
LEMMA AccountInit == ASSUME Init PROVE AccountInv
<1>1. /\ write_queue = <<>> /\ write_completed_queue = <<>> /\ write_queue_size = 0
      /\ left = [r \in WReqs |-> 0] /\ \A r \in WReqs : status[r] = "idle"
  BY DEF Init, Reqs
<1>2. ToSet(write_queue) = {} /\ ToSet(write_completed_queue) = {}
  BY <1>1 DEF ToSet
<1>3. IsInjective(write_queue) /\ IsInjective(write_completed_queue)
  BY <1>1 DEF IsInjective
<1>4. SumFunctionOnSet(left, {}) = 0
  BY SumChoice, FS_EmptySet
<1>5. QueuesApart /\ QueuedIsActive /\ FinishedForAReason
  BY <1>1, <1>2, <1>3 DEF QueuesApart, QueuedIsActive, FinishedForAReason, Queued
<1>6. BytesAccounted
  BY <1>1, <1>2, <1>4 DEF BytesAccounted
<1> QED
  BY <1>5, <1>6 DEF AccountInv

(* CloseInv and AccountInv are invariants, whatever the program does.      *)
LEMMA AccountHolds == Spec => [](CloseInv /\ AccountInv)
<1>1. Init => CloseInv
  BY DEF Init, CloseInv, Closing, Closed, IsPending, NoFd
<1>2. Init => AccountInv
  BY AccountInit
<1>3. TypeOK /\ CloseInv /\ [Next]_vars => CloseInv'
  BY CloseStep
<1>4. TypeOK /\ CloseInv /\ AccountInv /\ [Next]_vars => AccountInv'
  BY AccountStep
<1> QED
  BY <1>1, <1>2, <1>3, <1>4, TypeCorrect, PTL DEF Spec

(* No byte is lost count of: write_queue_size is what the queued requests  *)
(* still have to write, for any number of requests of any length, and a    *)
(* write reported successful was handed to the kernel to its last byte.    *)
THEOREM BytesAreAccounted == Spec => []BytesAccounted
<1>1. AccountInv => BytesAccounted
  BY DEF AccountInv
<1> QED
  BY <1>1, AccountHolds, PTL

-----------------------------------------------------------------------------
(* AssertInv is inductive for a program that closes the stream where it    *)
(* has to.                                                                 *)

\* The step makes neither watcher pending.
NothingNew == \A w \in {"read", "write"} : IsPending(w)' => IsPending(w)

(* A step that makes nothing pending, opens and watches nothing.           *)
LEMMA AssertKept ==
  ASSUME AssertInv, NothingNew, UNCHANGED fd, Closing' <=> Closing,
         "CLOSED" \in flags' <=> "CLOSED" \in flags,
         read_cb' => read_cb, read_watcher' => read_watcher,
         write_watcher' => write_watcher,
         \/ at' = at
         \/ /\ at # "loop" /\ at' # "abort"
            /\ "CLOSED" \in flags =>
                 at' \in {"loop", "uv__stream_destroy", "destroy_cb", "close_cb"}
  PROVE  AssertInv'
BY DEF AssertInv, QuietBeforeSocket, NothingNew

(* A step that leaves the stream open.                                     *)
LEMMA AssertOpen ==
  ASSUME fd' # NoFd, ~Closing', "CLOSED" \notin flags', at' # "abort"
  PROVE  AssertInv'
BY DEF AssertInv, QuietBeforeSocket

(* Whatever calls uv__stream_io finds the stream open.                     *)
LEMMA EventMeansOpen ==
  ASSUME AssertInv, CloseInv
  PROVE  /\ IsPending("read") \/ IsPending("write") \/ read_watcher \/ write_watcher
              => fd # NoFd /\ ~Closing /\ "CLOSED" \notin flags
         /\ read_cb \/ fd # NoFd => fd # NoFd /\ ~Closing /\ "CLOSED" \notin flags
BY DEF AssertInv, CloseInv, QuietBeforeSocket

(* The handlers preserve AssertInv.                                        *)
LEMMA AssertLoop == ASSUME TypeOK, CloseInv, AssertInv, Loop PROVE AssertInv'
<1>a. pendings \in Seq(Slot)
  BY DEF TypeOK, IoTypeOK, Slot
<1>b. ASSUME NEW w, Invokes(w), pendings' = Invoked PROVE NothingNew /\ IsPending(w)
  BY <1>a, <1>b, PendingInvoked DEF NothingNew
<1>c. UNCHANGED pendings => NothingNew
  BY PendingKept DEF NothingNew
<1>d. ASSUME NEW w \in {"read", "write"}, pendings' = Cleared(pendings, w) PROVE NothingNew
  <2>1. w \in Watcher /\ "none" \notin {"read", "write"}
    BY DEF Watcher
  <2> QED
    BY <1>a, <1>d, <2>1, PendingCleared DEF NothingNew
<1>e. ASSUME NEW w, Invokes(w) PROVE IsPending(w)
  BY <1>a, <1>e, InvokedFacts
<1>1. CASE InvokeDummy
  BY <1>1, <1>b, AssertKept DEF InvokeDummy, handle, ctl, Closing
<1>2. CASE uv__stream_connect
  <2>1. fd # NoFd /\ ~Closing /\ "CLOSED" \notin flags
    BY <1>2, <1>e, EventMeansOpen DEF uv__stream_connect
  <2>2. UNCHANGED <<fd, flags>> /\ at' = "connect_cb"
    BY <1>2 DEF uv__stream_connect, CallsBack
  <2> QED
    BY <2>1, <2>2, AssertOpen DEF Closing
<1>3. CASE StreamReadable
  <2>1. fd # NoFd /\ ~Closing /\ "CLOSED" \notin flags
    BY <1>3, <1>e, EventMeansOpen DEF StreamReadable
  <2>2. UNCHANGED <<fd, flags>> /\ at' = "uv__read"
    BY <1>3 DEF StreamReadable, handle
  <2> QED
    BY <2>1, <2>2, AssertOpen DEF Closing
<1>4. CASE StreamWritable
  <2>1. fd # NoFd /\ ~Closing /\ "CLOSED" \notin flags
    BY <1>4, <1>e, EventMeansOpen DEF StreamWritable
  <2>2. UNCHANGED <<fd, flags>> /\ at' = "uv__write_callbacks"
    BY <1>4 DEF StreamWritable, handle
  <2> QED
    BY <2>1, <2>2, AssertOpen DEF Closing
<1>5. CASE uv__finish_close
  <2>1. NothingNew /\ Closing
    <3>1. Invokes("next") /\ pendings' = Invoked
      BY <1>5 DEF uv__finish_close
    <3> QED
      BY <3>1, <1>b DEF CloseInv
  <2>2. /\ flags' = flags \cup {"CLOSED"} /\ at' = "uv__stream_destroy"
        /\ UNCHANGED <<fd, read_cb, read_watcher, write_watcher>>
    BY <1>5 DEF uv__finish_close
  <2> QED
    BY <2>1, <2>2 DEF AssertInv, QuietBeforeSocket, NothingNew, Closing
<1>6. CASE uv__read
  <2>1. UNCHANGED <<fd, flags, read_cb>>
    BY <1>6 DEF uv__read, handle
  <2>2. CASE ~(read_cb /\ "READING" \in flags)
    <3>1. /\ at = "uv__read" /\ at' = "loop"
          /\ UNCHANGED <<read_watcher, write_watcher, pendings>>
      BY <1>6, <2>2 DEF uv__read, io
    <3> QED
      BY <1>c, <2>1, <3>1, AssertKept DEF Closing
  <2>3. CASE read_cb /\ "READING" \in flags
    <3>1. fd # NoFd /\ ~Closing /\ "CLOSED" \notin flags
      BY <2>3, EventMeansOpen
    <3>2. at' # "abort"
      BY <1>6, <2>3 DEF uv__read, ReadsBack
    <3> QED
      BY <2>1, <3>1, <3>2, AssertOpen DEF Closing
  <2> QED
    BY <2>2, <2>3
<1>7. CASE uv__write_callbacks
  <2>1. /\ pendings' = pendings \/ pendings' = Cleared(pendings, "write")
        /\ at = "uv__write_callbacks" /\ at' \in {"loop", "write_cb", "shutdown_cb"}
        /\ flags' = flags \/ flags' = flags \cup {"SHUT"}
        /\ UNCHANGED <<fd, read_cb, read_watcher>>
        /\ write_watcher' => write_watcher
    BY <1>7 DEF uv__write_callbacks, uv__drain, CallsBack, handle, io
  <2>2. "CLOSED" \notin flags
    BY <2>1 DEF AssertInv
  <2>3. /\ Closing' <=> Closing
        /\ "CLOSED" \in flags' <=> "CLOSED" \in flags
    BY <2>1 DEF Closing
  <2> QED
    BY <1>c, <1>d, <2>1, <2>2, <2>3, AssertKept
<1>8. CASE uv__stream_destroy
  <2>1. /\ at = "uv__stream_destroy" /\ at' \in {"destroy_cb", "close_cb"}
        /\ UNCHANGED <<fd, flags, read_cb, read_watcher, write_watcher, pendings>>
    BY <1>8 DEF uv__stream_destroy, CallsBack, handle, io
  <2> QED
    BY <1>c, <2>1, AssertKept DEF Closing
<1>9. CASE Poll
  <2>1. read_watcher \/ write_watcher
    BY <1>9 DEF Poll, Ready
  <2>2. UNCHANGED <<fd, flags, at>> /\ at = "loop"
    BY <1>9 DEF Poll, handle, ctl
  <2> QED
    BY <2>1, <2>2, EventMeansOpen, AssertOpen DEF Closing
<1> QED
  BY <1>1, <1>2, <1>3, <1>4, <1>5, <1>6, <1>7, <1>8, <1>9 DEF Loop

(* uv_close takes the events of both watchers.                             *)
LEMMA CloseClears ==
  ASSUME pendings \in Seq(Slot), uv_close
  PROVE  ~IsPending("read")' /\ ~IsPending("write")'
<1>s. {"read", "write", "next"} \subseteq Slot
  BY DEF Slot, Watcher
<1> DEFINE p == Cleared(pendings, "read")
           q == Cleared(p, "write")
<1>1. pendings' = Fed(q, "next")
  BY DEF uv_close
<1>2. p \in Seq(Slot) /\ ~ \E i \in DOMAIN p : p[i] = "read"
  BY <1>s, ClearedFacts
<1> HIDE DEF p
<1>3. /\ q \in Seq(Slot)
      /\ ~ \E i \in DOMAIN q : q[i] = "read"
      /\ ~ \E i \in DOMAIN q : q[i] = "write"
  <2>1. \A v : v \notin {"write", "none"} =>
          ((\E i \in DOMAIN Cleared(p, "write") : Cleared(p, "write")[i] = v)
             <=> \E i \in DOMAIN p : p[i] = v)
    BY <1>s, <1>2, ClearedFacts
  <2>2. q \in Seq(Slot) /\ ~ \E i \in DOMAIN q : q[i] = "write"
    BY <1>s, <1>2, ClearedFacts
  <2> QED
    BY <1>2, <2>1, <2>2
<1> HIDE DEF q
<1> DEFINE f == Fed(q, "next")
<1>4. \A v : v # "next" /\ (\E i \in DOMAIN f : f[i] = v) => \E i \in DOMAIN q : q[i] = v
  BY <1>s, <1>3, FedFacts
<1> HIDE DEF f
<1>5. ~ (\E i \in DOMAIN f : f[i] = "read") /\ ~ (\E i \in DOMAIN f : f[i] = "write")
  BY <1>3, <1>4
<1> QED
  BY <1>1, <1>5 DEF IsPending, f

(* So do the program's calls, if it closes after a read error.             *)
LEMMA AssertUser ==
  ASSUME CloseOnError, TypeOK, CloseInv, AssertInv, User PROVE AssertInv'
<1>a. pendings \in Seq(Slot)
  BY DEF TypeOK, IoTypeOK, Slot
<1>c. UNCHANGED pendings => NothingNew
  BY PendingKept DEF NothingNew
<1>s. {"read", "write", "next"} \subseteq Watcher /\ {"read", "write", "next"} \subseteq Slot
  BY DEF Watcher, Slot
<1>1. CASE Return
  <2>1. UNCHANGED <<fd, flags, read_cb, read_watcher, write_watcher, pendings>>
    BY <1>1 DEF Return, handle, io
  <2>2. at # "loop" /\ at' # "abort"
    <3>1. at = "read_error_cb" => ~read_watcher
      BY <1>1 DEF Return, MustClose, AssertInv, Closing
    <3> QED
      BY <1>1, <3>1 DEF Return, Callback
  <2>3. "CLOSED" \in flags => at' \in {"loop", "uv__stream_destroy"}
    BY <1>1 DEF Return, AssertInv, Callback
  <2> QED
    BY <1>c, <2>1, <2>2, <2>3, AssertKept DEF Closing
<1>2. CASE uv__stream_open
  <2>1. /\ fd' # NoFd /\ at' = at /\ at # "abort"
        /\ "CLOSING" \notin flags' /\ "CLOSED" \notin flags'
    BY <1>2 DEF uv__stream_open, ctl, CloseInv, Closing, NoFd, SockFd, UserMayCall, Callback
  <2> QED
    BY <2>1, AssertOpen DEF Closing
<1>3. CASE uv_read_start
  <2>1. fd # NoFd /\ UNCHANGED <<fd, at>> /\ flags' = flags \cup {"READING"}
    BY <1>3 DEF uv_read_start, ctl
  <2>2. ~Closing /\ "CLOSED" \notin flags /\ at # "abort"
    BY <2>1, EventMeansOpen DEF AssertInv
  <2> QED
    BY <2>1, <2>2, AssertOpen DEF Closing
<1>4. CASE uv_read_stop
  <2>1. /\ pendings' = Cleared(pendings, "read") /\ ~read_watcher' /\ ~read_cb'
        /\ UNCHANGED <<fd, at, write_watcher>> /\ flags' = flags \ {"READING"}
    BY <1>4 DEF uv_read_stop, ctl
  <2>2. NothingNew
    BY <1>a, <1>s, <2>1, PendingCleared DEF NothingNew
  <2> QED
    BY <2>1, <2>2, AssertKept DEF Closing
<1>5. CASE uv_close
  <2>1. /\ ~Closing /\ ~read_cb' /\ ~read_watcher' /\ ~write_watcher'
        /\ fd' = NoFd /\ at' = at
        /\ flags' = (flags \ {"READING"}) \cup {"CLOSING"}
    BY <1>5 DEF uv_close, ctl, Closing
  <2>6. ~IsPending("read")' /\ ~IsPending("write")'
    BY <1>5, <1>a, CloseClears
  <2>7. "CLOSED" \notin flags'
    BY <2>1 DEF CloseInv, Closing
  <2> QED
    BY <2>1, <2>6, <2>7 DEF AssertInv, QuietBeforeSocket, Closing
<1>6. ASSUME NEW c \in CReqs, uv__connect(c) PROVE AssertInv'
  <2>1. /\ fd' # NoFd /\ at' = at /\ "CLOSING" \notin flags
        /\ flags' = flags \/ flags' = flags \cup {"READABLE", "WRITABLE"}
    BY <1>6 DEF uv__connect, ctl, NoFd, SockFd
  <2>2. "CLOSED" \notin flags /\ at # "abort"
    BY <2>1 DEF CloseInv, Closing, AssertInv
  <2> QED
    BY <2>1, <2>2, AssertOpen DEF Closing
<1>7. ASSUME fd # NoFd, UNCHANGED <<fd, at>>,
             flags' = flags \/ flags' = flags \cup {"SHUTTING"}
      PROVE  AssertInv'
  <2>1. ~Closing /\ "CLOSED" \notin flags /\ at # "abort"
    BY <1>7, EventMeansOpen DEF AssertInv
  <2> QED
    BY <1>7, <2>1, AssertOpen DEF Closing
<1>8. ASSUME NEW r \in WReqs, NEW n \in Lens, uv_write(r, n) PROVE AssertInv'
  <2>1. fd # NoFd /\ UNCHANGED <<fd, at, flags>>
    BY <1>8 DEF uv_write, handle, ctl
  <2> QED
    BY <1>7, <2>1
<1>9. ASSUME NEW s \in SReqs, uv_shutdown(s) PROVE AssertInv'
  <2>1. fd # NoFd /\ UNCHANGED <<fd, at>> /\ flags' = flags \cup {"SHUTTING"}
    BY <1>9 DEF uv_shutdown, ctl
  <2> QED
    BY <1>7, <2>1
<1> QED
  BY <1>1, <1>2, <1>3, <1>4, <1>5, <1>6, <1>8, <1>9 DEF User

(* So does every step.                                                     *)
LEMMA AssertStep ==
  ASSUME CloseOnError, TypeOK, CloseInv, AssertInv, [Next]_vars PROVE AssertInv'
<1>1. UNCHANGED <<handle, io, ctl>> => AssertInv'
  BY PendingKept, AssertKept DEF handle, io, ctl, NothingNew, Closing
<1>2. Environment \/ UNCHANGED vars => UNCHANGED <<handle, io, ctl>>
  BY DEF vars, Environment, ConnResolve, PeerSends, PeerReads, PeerFinishes, PeerResets
<1> QED
  BY <1>1, <1>2, AssertLoop, AssertUser DEF Next

(* The three invariants together give the assertions of the C code.        *)
LEMMA InvsAssert ==
  ASSUME TypeOK, CloseInv, AccountInv, AssertInv PROVE AssertsHold
<1>1. Invokes("read") \/ Invokes("write") => ~Closing /\ fd # NoFd
  <2>1. pendings \in Seq(Slot)
    BY DEF TypeOK, IoTypeOK, Slot
  <2> QED
    BY <2>1, InvokedFacts, EventMeansOpen
<1>2. at = "uv__write_callbacks" /\ Queued = {} => write_queue_size = 0
  <2>1. at = "uv__write_callbacks" => "CLOSED" \notin flags
    BY DEF AssertInv
  <2>2. Queued = {} => ToSet(write_queue) = {}
    BY DEF Queued
  <2>3. SumFunctionOnSet(left, {}) = 0
    BY SumChoice, FS_EmptySet
  <2> QED
    BY <2>1, <2>2, <2>3 DEF AccountInv, BytesAccounted
<1>3. at = "uv__stream_destroy" => ~read_watcher /\ ~write_watcher /\ fd = NoFd
  BY DEF CloseInv, AssertInv
<1>4. at # "abort" /\ (at = "uv__read" /\ read_cb => fd # NoFd)
  BY DEF AssertInv
<1> QED
  BY <1>1, <1>2, <1>3, <1>4 DEF AssertsHold

(* No assertion of stream.c or of uv__finish_close fails, whatever the     *)
(* requests, their lengths, the answers of connect(2) and what the peer    *)
(* does, for a program that closes the stream when read_cb or shutdown_cb  *)
(* reports an error, as the comment at stream.c:570 asks of it.            *)
THEOREM AssertionsHold == ASSUME CloseOnError PROVE Spec => []AssertsHold
<1>1. Init => AssertInv
  BY DEF Init, AssertInv, QuietBeforeSocket, Closing, IsPending
<1>2. TypeOK /\ CloseInv /\ AssertInv /\ [Next]_vars => AssertInv'
  BY CloseOnError, AssertStep
<1>3. TypeOK /\ CloseInv /\ AccountInv /\ AssertInv => AssertsHold
  BY InvsAssert
<1> QED
  BY <1>1, <1>2, <1>3, TypeCorrect, AccountHolds, PTL DEF Spec

-----------------------------------------------------------------------------
(* ShutdownInv is inductive, and gives ShutdownWaits.                      *)

(* A step that answers no shutdown and accepts nothing.                    *)
LEMMA ShutdownKept ==
  ASSUME ShutdownInv, ShutdownDue' => ShutdownDue, UNCHANGED shutdown_req,
         connect_req' # NoReq =>
           connect_req' = connect_req /\ status'[connect_req] = status[connect_req],
         shutdown_req # NoReq => status'[shutdown_req] = status[shutdown_req],
         at' \notin Callback => running' = NoReq,
         at = "shutdown_cb" /\ running # NoReq /\ status[running] = "error" /\ ShutdownDue'
           => at' = at /\ running' = running /\ status'[running] = status[running]
  PROVE  ShutdownInv'
BY DEF ShutdownInv

(* The answer of a write changes the status of no other request.           *)
LEMMA OthersKept ==
  ASSUME HandleTypeOK, CtlTypeOK, HistoryTypeOK, NEW r \in Reqs, NEW s,
         status' = [status EXCEPT ![r] = s]
  PROVE  /\ connect_req # NoReq /\ r \notin CReqs => status'[connect_req] = status[connect_req]
         /\ shutdown_req # NoReq /\ r \notin SReqs => status'[shutdown_req] = status[shutdown_req]
         /\ running # NoReq /\ status[r] = "idle" /\ status[running] = "error" =>
              status'[running] = status[running]
<1>1. \A x \in Reqs : x # r => status'[x] = status[x]
  BY StatusSet
<1>2. /\ connect_req # NoReq => connect_req \in Reqs /\ connect_req \in CReqs
      /\ shutdown_req # NoReq => shutdown_req \in Reqs /\ shutdown_req \in SReqs
      /\ running # NoReq => running \in Reqs
  BY DEF HandleTypeOK, CtlTypeOK, Reqs
<1> QED
  BY <1>1, <1>2

(* The handlers preserve ShutdownInv.                                      *)
LEMMA ShutdownLoop == ASSUME TypeOK, ShutdownInv, Loop PROVE ShutdownInv'
<1>a. /\ HandleTypeOK /\ QueueTypeOK /\ CtlTypeOK /\ HistoryTypeOK
      /\ \A r \in WReqs : r \in Reqs /\ r \notin CReqs /\ r \notin SReqs
      /\ connect_req # NoReq => connect_req \in Reqs /\ connect_req \notin SReqs
  BY ReqsAssumption DEF TypeOK, HandleTypeOK, Reqs
<1>b. UNCHANGED flags => (ShutdownDue' <=> ShutdownDue)
  BY DEF ShutdownDue
<1>1. CASE InvokeDummy
  BY <1>1, <1>b, ShutdownKept DEF InvokeDummy, handle, ctl, ShutdownInv
<1>2. CASE uv__stream_connect
  <2>1. /\ connect_req \in Reqs /\ connect_req \notin SReqs
        /\ \E s : status' = [status EXCEPT ![connect_req] = s]
        /\ connect_req' = NoReq /\ at = "loop" /\ at' = "connect_cb"
        /\ UNCHANGED <<flags, shutdown_req>>
    BY <1>a, <1>2 DEF uv__stream_connect, CallsBack, Invokes
  <2>2. shutdown_req # NoReq => status'[shutdown_req] = status[shutdown_req]
    BY <1>a, <2>1, OthersKept
  <2> QED
    BY <1>b, <2>1, <2>2, ShutdownKept DEF Callback
<1>3. CASE StreamReadable
  BY <1>3, <1>b, ShutdownKept DEF StreamReadable, handle, Invokes, ShutdownInv, Callback
<1>4. CASE StreamWritable
  BY <1>4, <1>b, ShutdownKept DEF StreamWritable, handle, Invokes, ShutdownInv, Callback
<1>5. CASE uv__finish_close
  <2>1. /\ flags' = flags \cup {"CLOSED"} /\ at = "loop" /\ at' = "uv__stream_destroy"
        /\ UNCHANGED <<connect_req, shutdown_req, running, status>>
    BY <1>5 DEF uv__finish_close, Invokes
  <2> QED
    BY <2>1, ShutdownKept DEF ShutdownInv, ShutdownDue, Callback
<1>6. CASE uv__read
  <2>1. at = "uv__read" /\ UNCHANGED <<handle, status>> /\ (at' \notin Callback => UNCHANGED running)
    BY <1>6 DEF uv__read, ReadsBack, Callback
  <2> QED
    BY <1>b, <2>1, ShutdownKept DEF handle, ShutdownInv, Callback
<1>7. CASE uv__write_callbacks
  <2>1. CASE write_completed_queue # <<>>
    <3> DEFINE h == Head(write_completed_queue)
    <3>1. /\ h \in WReqs /\ \E s : status' = [status EXCEPT ![h] = s]
          /\ UNCHANGED handle /\ at = "uv__write_callbacks" /\ at' = "write_cb"
      <4>1. h \in WReqs
        BY <1>a, <2>1 DEF QueueTypeOK
      <4>2. /\ status' = [status EXCEPT ![h] = WriteStatus(h)]
            /\ UNCHANGED handle /\ at = "uv__write_callbacks" /\ at' = "write_cb"
        BY <1>7, <2>1 DEF uv__write_callbacks, CallsBack
      <4> QED
        BY <4>1, <4>2
    <3> HIDE DEF h
    <3>2. /\ connect_req # NoReq => status'[connect_req] = status[connect_req]
          /\ shutdown_req # NoReq => status'[shutdown_req] = status[shutdown_req]
      BY <1>a, <3>1, OthersKept
    <3> QED
      BY <1>b, <3>1, <3>2, ShutdownKept DEF handle, Callback
  <2>2. CASE write_completed_queue = <<>> /\ write_queue # <<>>
    <3>1. at = "uv__write_callbacks" /\ UNCHANGED <<handle, running, status>>
      BY <1>7, <2>2 DEF uv__write_callbacks, uv_write_queue_head_null
    <3> QED
      BY <1>b, <3>1, ShutdownKept DEF handle, ShutdownInv, Callback
  <2>3. CASE write_completed_queue = <<>> /\ write_queue = <<>>
    <3>1. /\ uv__drain /\ at = "uv__write_callbacks"
          /\ UNCHANGED <<connect_req, shutdown_req>>
      BY <1>7, <2>3 DEF uv__write_callbacks, uv_write_queue_head_null, uv__drain
    <3>2. CASE ~ShutdownDue
      <4>1. UNCHANGED <<flags, running, status>>
        BY <3>1, <3>2 DEF uv__drain
      <4> QED
        BY <1>b, <3>1, <4>1, ShutdownKept DEF ShutdownInv, Callback
    <3>3. CASE ShutdownDue
      <4>1. /\ shutdown_req \in SReqs /\ shutdown_req \in Reqs /\ shutdown_req \notin CReqs
        BY <1>a, <3>1, <3>3, ReqsAssumption DEF ShutdownInv, HandleTypeOK, Reqs
      <4>2. /\ at' = "shutdown_cb" /\ running' = shutdown_req
            /\ \/ "SHUT" \in flags' /\ status' = [status EXCEPT ![shutdown_req] = "ok"]
               \/ status' = [status EXCEPT ![shutdown_req] = "error"]
        BY <3>1, <3>3 DEF uv__drain, CallsBack
      <4>3. connect_req # NoReq => status'[connect_req] = status[connect_req]
        BY <1>a, <4>1, <4>2, OthersKept
      <4>4. "SHUT" \in flags' \/ status'[shutdown_req] = "error"
        BY <1>a, <4>1, <4>2, StatusSet
      <4>5. shutdown_req # NoReq
        BY <4>1, ReqsAssumption
      <4> QED
        BY <3>1, <4>2, <4>3, <4>4, <4>5 DEF ShutdownInv, ShutdownDue, Callback
    <3> QED
      BY <3>2, <3>3
  <2> QED
    BY <2>1, <2>2, <2>3
<1>8. CASE uv__stream_destroy
  <2>1. /\ at = "uv__stream_destroy" /\ at' \in Callback /\ UNCHANGED handle
        /\ \/ UNCHANGED status
           \/ \E r \in WReqs : \E s : status' = [status EXCEPT ![r] = s]
    <3>1. /\ write_queue # <<>> => Head(write_queue) \in WReqs
          /\ write_completed_queue # <<>> => Head(write_completed_queue) \in WReqs
      BY <1>a DEF QueueTypeOK
    <3> QED
      BY <1>8, <3>1 DEF uv__stream_destroy, CallsBack, Callback
  <2>2. /\ connect_req # NoReq => status'[connect_req] = status[connect_req]
        /\ shutdown_req # NoReq => status'[shutdown_req] = status[shutdown_req]
    BY <1>a, <2>1, OthersKept
  <2> QED
    BY <1>b, <2>1, <2>2, ShutdownKept DEF handle
<1>9. CASE Poll
  BY <1>9, <1>b, ShutdownKept DEF Poll, handle, ctl, ShutdownInv
<1> QED
  BY <1>1, <1>2, <1>3, <1>4, <1>5, <1>6, <1>7, <1>8, <1>9 DEF Loop

(* So do the program's calls, if it closes after a failed shutdown and     *)
(* connect(2) only gives the answers uv__connect expects.                  *)
LEMMA ShutdownUser ==
  ASSUME CloseOnError, "EOTHER" \notin ConnectResults, TypeOK, ShutdownInv, User
  PROVE  ShutdownInv'
<1>a. /\ HandleTypeOK /\ CtlTypeOK /\ HistoryTypeOK
  BY DEF TypeOK
<1>b. UNCHANGED flags => (ShutdownDue' <=> ShutdownDue)
  BY DEF ShutdownDue
<1>c. ASSUME UNCHANGED <<connect_req, shutdown_req, ctl, status>>, ShutdownDue' => ShutdownDue
      PROVE  ShutdownInv'
  BY <1>c, ShutdownKept DEF ctl, ShutdownInv
<1>1. CASE Return
  <2>1. UNCHANGED <<handle, status>> /\ running' = NoReq
    BY <1>1 DEF Return
  <2>2. at = "shutdown_cb" /\ status[running] = "error" => ~ShutdownDue'
    BY <1>1, <2>1 DEF Return, MustClose, ShutdownDue, handle
  <2> QED
    BY <1>b, <2>1, <2>2, ShutdownKept DEF handle
<1>2. CASE uv__stream_open
  BY <1>2, <1>c DEF uv__stream_open, ShutdownDue
<1>3. CASE uv_read_start
  BY <1>3, <1>c DEF uv_read_start, ShutdownDue
<1>4. CASE uv_read_stop
  BY <1>4, <1>c DEF uv_read_stop, ShutdownDue
<1>5. CASE uv_close
  BY <1>5, <1>c DEF uv_close, ShutdownDue
<1>6. ASSUME NEW c \in CReqs, uv__connect(c) PROVE ShutdownInv'
  <2>1. PICK r \in ConnectResults :
          status' = [status EXCEPT ![c] = IF r = "EOTHER" THEN @ ELSE "active"]
    BY <1>6 DEF uv__connect
  <2>2. /\ connect_req' = c /\ UNCHANGED <<shutdown_req, ctl>> /\ status[c] = "idle"
        /\ flags' = flags \/ flags' = flags \cup {"READABLE", "WRITABLE"}
    BY <1>6 DEF uv__connect
  <2>3. c \in Reqs /\ c \notin SReqs /\ status' = [status EXCEPT ![c] = "active"]
    BY <2>1, ReqsAssumption DEF Reqs
  <2>4. /\ shutdown_req # NoReq => status'[shutdown_req] = status[shutdown_req]
        /\ running # NoReq /\ status[running] = "error" => status'[running] = status[running]
    BY <1>a, <2>2, <2>3, OthersKept
  <2>5. status'[c] = "active"
    BY <1>a, <2>3, StatusSet
  <2> QED
    BY <2>2, <2>4, <2>5 DEF ShutdownInv, ShutdownDue, ctl
<1>7. ASSUME NEW r \in WReqs, NEW n \in Lens, uv_write(r, n) PROVE ShutdownInv'
  <2>1. /\ UNCHANGED <<handle, ctl>> /\ status[r] = "idle"
        /\ status' = [status EXCEPT ![r] = "active"]
    BY <1>7 DEF uv_write
  <2>2. r \in Reqs /\ r \notin SReqs /\ r \notin CReqs
    BY ReqsAssumption DEF Reqs
  <2>3. /\ connect_req # NoReq => status'[connect_req] = status[connect_req]
        /\ shutdown_req # NoReq => status'[shutdown_req] = status[shutdown_req]
        /\ running # NoReq /\ status[running] = "error" => status'[running] = status[running]
    BY <1>a, <2>1, <2>2, OthersKept
  <2> QED
    BY <1>b, <2>1, <2>3, ShutdownKept DEF ShutdownInv, handle, ctl
<1>8. ASSUME NEW s \in SReqs, uv_shutdown(s) PROVE ShutdownInv'
  <2>1. /\ UNCHANGED <<connect_req, ctl>> /\ status[s] = "idle" /\ shutdown_req' = s
        /\ status' = [status EXCEPT ![s] = "active"]
    BY <1>8 DEF uv_shutdown
  <2>2. s \in Reqs /\ s \notin CReqs /\ s # NoReq
    BY ReqsAssumption DEF Reqs
  <2>3. connect_req # NoReq => status'[connect_req] = status[connect_req]
    BY <1>a, <2>1, <2>2, OthersKept
  <2>4. status'[s] = "active"
    BY <1>a, <2>1, <2>2, StatusSet
  <2> QED
    BY <2>1, <2>2, <2>3, <2>4 DEF ShutdownInv, ctl
<1> QED
  BY <1>1, <1>2, <1>3, <1>4, <1>5, <1>6, <1>7, <1>8 DEF User

(* So does every step.                                                     *)
LEMMA ShutdownStep ==
  ASSUME CloseOnError, "EOTHER" \notin ConnectResults, TypeOK, ShutdownInv, [Next]_vars
  PROVE  ShutdownInv'
<1>1. UNCHANGED <<handle, ctl, status>> => ShutdownInv'
  BY ShutdownKept DEF handle, ctl, ShutdownDue, ShutdownInv
<1>2. Environment \/ UNCHANGED vars => UNCHANGED <<handle, ctl, status>>
  BY DEF vars, Environment, ConnResolve, PeerSends, PeerReads, PeerFinishes, PeerResets
<1> QED
  BY <1>1, <1>2, ShutdownLoop, ShutdownUser DEF Next

(* The step that answers a shutdown or a connect.                          *)
LEMMA ShutdownAnswers ==
  ASSUME TypeOK, AccountInv, ShutdownInv, [Next]_vars,
         NEW r \in Reqs \ WReqs, Answers(r)
  PROVE  /\ status[r] = "active"
         /\ at' = "shutdown_cb" => \A w \in WReqs : status[w] # "active"
<1>a. at' \in Callback /\ at' # at /\ running' = r /\ r # NoReq
  BY ReqsAssumption DEF Answers
<1>b. \A h \in WReqs : running' # h
  BY <1>a
<1>1. CASE uv__stream_connect
  <2>1. at' = "connect_cb" /\ running' = connect_req /\ connect_req # NoReq
    BY <1>1 DEF uv__stream_connect, CallsBack
  <2> QED
    BY <1>a, <2>1 DEF ShutdownInv
<1>2. CASE uv__write_callbacks
  <2>1. write_completed_queue = <<>>
    <3>1. write_completed_queue # <<>> => Head(write_completed_queue) \in WReqs
      BY DEF TypeOK, QueueTypeOK
    <3> QED
      BY <1>2, <1>b, <3>1 DEF uv__write_callbacks, CallsBack
  <2>2. uv__drain /\ write_queue = <<>> /\ at = "uv__write_callbacks"
    BY <1>2, <1>a, <2>1 DEF uv__write_callbacks, uv_write_queue_head_null, Callback
  <2>3. ShutdownDue /\ running' = shutdown_req
    BY <1>a, <2>2 DEF uv__drain, CallsBack, Callback
  <2>4. status[r] = "active"
    BY <1>a, <2>2, <2>3 DEF ShutdownInv
  <2>5. Queued = {}
    BY <2>1, <2>2 DEF Queued, ToSet
  <2> QED
    BY <2>4, <2>5 DEF AccountInv, QueuedIsActive
<1>3. CASE uv__stream_destroy
  <2>1. /\ write_queue # <<>> => Head(write_queue) \in WReqs
        /\ write_completed_queue # <<>> => Head(write_completed_queue) \in WReqs
    BY DEF TypeOK, QueueTypeOK
  <2>2. running' = running /\ at \notin Callback
    BY <1>3, <1>b, <2>1 DEF uv__stream_destroy, CallsBack, Callback
  <2> QED
    BY <1>a, <2>2 DEF ShutdownInv
<1>4. CASE uv__read
  <2>1. running' = NoReq \/ at' = "loop"
    BY <1>4 DEF uv__read, ReadsBack
  <2> QED
    BY <1>a, <2>1 DEF Callback
<1>5. CASE InvokeDummy \/ Poll \/ UNCHANGED vars \/ Environment
  <2>1. at' = at
    BY <1>5 DEF InvokeDummy, Poll, vars, ctl, Environment, ConnResolve, PeerSends,
                PeerReads, PeerFinishes, PeerResets
  <2> QED
    BY <1>a, <2>1
<1>6. CASE StreamReadable \/ StreamWritable \/ uv__finish_close
  BY <1>6, <1>a DEF StreamReadable, StreamWritable, uv__finish_close, Callback
<1>7. CASE User
  <2>1. Return => running' = NoReq
    BY DEF Return
  <2>2. User => Return \/ UNCHANGED ctl
    BY DEF User, uv__stream_open, uv_read_start, uv_read_stop, uv_close, uv__connect,
           uv_write, uv_shutdown
  <2> QED
    BY <1>7, <1>a, <2>1, <2>2 DEF ctl
<1> QED
  BY <1>1, <1>2, <1>3, <1>4, <1>5, <1>6, <1>7 DEF Next, Loop

(* shutdown_cb and connect_cb run once each, for a request the code        *)
(* accepted, and a shutdown waits for every write accepted before it, for  *)
(* any number of requests; for a program that closes the stream when       *)
(* shutdown_cb reports an error, and where connect(2) only gives the       *)
(* answers uv__connect expects.                                            *)
THEOREM ShutdownWaitsForWrites ==
  ASSUME CloseOnError, "EOTHER" \notin ConnectResults PROVE Spec => ShutdownWaits
<1>1. Init => ShutdownInv
  BY DEF Init, ShutdownInv, ShutdownDue
<1>2. TypeOK /\ ShutdownInv /\ [Next]_vars => ShutdownInv'
  BY CloseOnError, "EOTHER" \notin ConnectResults, ShutdownStep
<1>3. TypeOK /\ AccountInv /\ ShutdownInv /\ [Next]_vars =>
        [\A r \in Reqs \ WReqs : Answers(r) =>
           /\ status[r] = "active"
           /\ at' = "shutdown_cb" => \A w \in WReqs : status[w] # "active"]_vars
  BY ShutdownAnswers
<1> QED
  BY <1>1, <1>2, <1>3, TypeCorrect, AccountHolds, PTL DEF Spec, ShutdownWaits

-----------------------------------------------------------------------------
(* The end of the data, and of the stream.                                 *)

(* A step that connects nothing, starts no reading and makes no event of   *)
(* the read watcher pending.                                               *)
LEMMA EofKept ==
  ASSUME EofInv, ReadWakeup', Wired => Wired', rx' > 0 => rx > 0 \/ Wired',
         connect_req' \in {connect_req, NoReq},
         at' = at \/ at' \notin {"uv__read", "read_cb_full"},
         eof' => /\ eof
                 /\ IsPending("read")' => IsPending("read")
                 /\ read_watcher' => read_watcher
  PROVE  EofInv'
BY DEF EofInv

(* The handlers preserve EofInv.                                           *)
LEMMA EofLoop == ASSUME TypeOK, EofInv, Loop PROVE EofInv'
<1>a. pendings \in Seq(Slot) /\ "read" \in Slot
  BY DEF TypeOK, IoTypeOK, Slot, Watcher
<1>b. ASSUME NEW w, Invokes(w), pendings' = Invoked
      PROVE  IsPending(w) /\ (IsPending("read")' => IsPending("read"))
  BY <1>a, <1>b, PendingInvoked
<1>c. UNCHANGED pendings => (IsPending("read")' => IsPending("read"))
  BY PendingKept
<1>w. UNCHANGED conn => (Wired => Wired')
  BY DEF Wired
<1>1. CASE InvokeDummy
  <2>1. /\ UNCHANGED <<read_cb, eof, read_watcher, conn, rx, connect_req, at>>
        /\ Invokes("none") /\ pendings' = Invoked
    BY <1>1 DEF InvokeDummy, handle, ctl, kernel
  <2> QED
    BY <1>b, <1>w, <2>1, EofKept DEF EofInv, ReadWakeup
<1>2. CASE uv__stream_connect
  <2>1. /\ UNCHANGED <<read_cb, eof, conn, rx>> /\ connect_req # NoReq /\ connect_req' = NoReq
        /\ read_watcher => read_watcher'
        /\ at' = "connect_cb"
    BY <1>2 DEF uv__stream_connect, CallsBack
  <2> QED
    BY <1>w, <2>1, EofKept DEF EofInv, ReadWakeup
<1>3. CASE StreamReadable
  <2>1. /\ UNCHANGED <<read_cb, eof, read_watcher, conn, rx, connect_req>>
        /\ Invokes("read") /\ pendings' = Invoked /\ connect_req = NoReq /\ at' = "uv__read"
    BY <1>3 DEF StreamReadable, handle, kernel
  <2>2. IsPending("read")
    BY <1>b, <2>1
  <2> QED
    BY <2>1, <2>2 DEF EofInv, ReadWakeup, Wired
<1>4. CASE StreamWritable
  <2>1. /\ UNCHANGED <<read_cb, eof, read_watcher, conn, rx, connect_req>>
        /\ Invokes("write") /\ uv__write(write_queue, write_queue_size, left, Invoked)
        /\ at' = "uv__write_callbacks"
    BY <1>4 DEF StreamWritable, handle
  <2>2. IsPending("read")' => IsPending("read")
    <3>1. /\ Invoked \in Seq(Slot)
          /\ \A v : (\E i \in DOMAIN Invoked : Invoked[i] = v) => IsPending(v)
      BY <1>a, <2>1, InvokedFacts
    <3>2. write_queue \in Seq(WReqs)
      BY DEF TypeOK, QueueTypeOK
    <3>3. IsPending("read")' => \E i \in DOMAIN Invoked : Invoked[i] = "read"
      BY <2>1, <3>1, <3>2, WriteWakes
    <3> QED
      BY <3>1, <3>3
  <2> QED
    BY <1>w, <2>1, <2>2, EofKept DEF EofInv, ReadWakeup
<1>5. CASE uv__finish_close
  <2>1. /\ UNCHANGED <<read_cb, eof, read_watcher, conn, rx, connect_req>>
        /\ Invokes("next") /\ pendings' = Invoked /\ at' = "uv__stream_destroy"
    BY <1>5 DEF uv__finish_close, kernel
  <2> QED
    BY <1>b, <1>w, <2>1, EofKept DEF EofInv, ReadWakeup
<1>6. CASE uv__read
  <2>1. at = "uv__read" /\ UNCHANGED <<read_cb, conn, connect_req>> /\ ~eof /\ connect_req = NoReq
    BY <1>6 DEF uv__read, handle, EofInv
  <2>2. rx \in Nat /\ BufLen \in Nat /\ rx' \in {rx, rx - Nread}
    BY <1>6, SizeAssumption DEF uv__read, TypeOK, KernelTypeOK
  <2>3. rx' > 0 => rx > 0
    BY <2>2 DEF Nread
  <2>4. CASE eof'
    <3>1. /\ ~read_watcher' /\ pendings' = Cleared(pendings, "read")
          /\ at' = "read_cb" /\ conn \in {"reset", "established"}
      BY <1>6, <2>1, <2>4 DEF uv__read, StopReading, ReadsBack
    <3>2. ~IsPending("read")'
      BY <1>a, <3>1, PendingCleared DEF Watcher
    <3> QED
      BY <2>1, <2>3, <2>4, <3>1, <3>2 DEF EofInv, ReadWakeup, Wired
  <2>5. CASE ~eof'
    <3>1. read_watcher => read_watcher'
      BY <1>6, <2>5 DEF uv__read, io
    <3>2. ReadWakeup'
      BY <2>1, <3>1 DEF EofInv, ReadWakeup
    <3>3. CASE at' = "read_cb_full"
      <4>1. rx > 0
        BY <1>6, <3>3 DEF uv__read, ReadsBack
      <4> QED
        BY <2>1, <2>3, <2>5, <3>2, <3>3, <4>1 DEF EofInv, Wired
    <3>4. CASE at' # "read_cb_full"
      <4>1. at' # "uv__read"
        BY <1>6, <3>4 DEF uv__read, ReadsBack
      <4> QED
        BY <1>w, <2>1, <2>3, <2>5, <3>2, <3>4, <4>1, EofKept
    <3> QED
      BY <3>3, <3>4
  <2> QED
    BY <2>4, <2>5
<1>7. CASE uv__write_callbacks
  <2>1. /\ pendings' = pendings \/ pendings' = Cleared(pendings, "write")
        /\ at' \in {"loop", "write_cb", "shutdown_cb"}
        /\ UNCHANGED <<read_cb, eof, read_watcher, conn, rx, connect_req>>
    BY <1>7 DEF uv__write_callbacks, uv__drain, CallsBack, handle, io, kernel
  <2>2. IsPending("read")' => IsPending("read")
    BY <1>a, <1>c, <2>1, PendingCleared DEF Watcher
  <2> QED
    BY <1>w, <2>1, <2>2, EofKept DEF EofInv, ReadWakeup
<1>8. CASE uv__stream_destroy
  <2>1. /\ UNCHANGED <<read_cb, eof, read_watcher, conn, rx, connect_req, pendings>>
        /\ at' \in {"destroy_cb", "close_cb"}
    BY <1>8 DEF uv__stream_destroy, CallsBack, handle, io, kernel
  <2> QED
    BY <1>c, <1>w, <2>1, EofKept DEF EofInv, ReadWakeup
<1>9. CASE Poll
  <2>1. /\ UNCHANGED <<read_cb, eof, read_watcher, conn, rx, connect_req, at>>
        /\ ~read_watcher => pendings' = <<"write">>
    BY <1>9 DEF Poll, Ready, handle, ctl, kernel
  <2>2. ~read_watcher => ~IsPending("read")'
    BY <2>1 DEF IsPending
  <2> QED
    BY <1>w, <2>1, <2>2, EofKept DEF EofInv, ReadWakeup
<1> QED
  BY <1>1, <1>2, <1>3, <1>4, <1>5, <1>6, <1>7, <1>8, <1>9 DEF Loop

(* So do the program's calls.                                              *)
LEMMA EofUser == ASSUME TypeOK, EofInv, User PROVE EofInv'
<1>a. pendings \in Seq(Slot) /\ "read" \in Watcher
  BY DEF TypeOK, IoTypeOK, Slot, Watcher
<1>c. UNCHANGED pendings => (IsPending("read")' => IsPending("read"))
  BY PendingKept
<1>w. UNCHANGED conn => (Wired => Wired')
  BY DEF Wired
<1>1. CASE Return
  <2>1. /\ UNCHANGED <<read_cb, eof, read_watcher, conn, rx, connect_req, pendings>>
        /\ at' = "uv__read" => at = "read_cb_full"
        /\ at' # "read_cb_full"
    BY <1>1 DEF Return, handle, io, kernel
  <2>2. IsPending("read")' <=> IsPending("read")
    BY <2>1, PendingKept
  <2> QED
    BY <2>1, <2>2 DEF EofInv, ReadWakeup, Wired
<1>2. CASE uv__stream_open
  <2>1. /\ UNCHANGED <<read_cb, eof, read_watcher, rx, connect_req, at, pendings>>
        /\ conn' = "established"
    BY <1>2 DEF uv__stream_open, ctl, io
  <2> QED
    BY <1>c, <2>1, EofKept DEF EofInv, ReadWakeup, Wired
<1>3. CASE uv_read_start
  <2>1. UNCHANGED <<conn, rx, connect_req, at>> /\ read_watcher' /\ ~eof'
    BY <1>3 DEF uv_read_start, ctl, kernel
  <2> QED
    BY <1>w, <2>1, EofKept DEF ReadWakeup
<1>4. CASE uv_read_stop
  <2>1. /\ UNCHANGED <<eof, conn, rx, connect_req, at>> /\ ~read_watcher' /\ ~read_cb'
        /\ pendings' = Cleared(pendings, "read")
    BY <1>4 DEF uv_read_stop, ctl, kernel
  <2>2. ~IsPending("read")'
    BY <1>a, <2>1, PendingCleared
  <2> QED
    BY <1>w, <2>1, <2>2, EofKept DEF ReadWakeup
<1>5. CASE uv_close
  <2>1. /\ UNCHANGED <<eof, rx, connect_req, at>> /\ ~read_watcher' /\ ~read_cb'
        /\ conn' = "closed"
    BY <1>5 DEF uv_close, ctl
  <2>2. ~IsPending("read")'
    BY <1>5, <1>a, CloseClears
  <2> QED
    BY <2>1, <2>2, EofKept DEF ReadWakeup, Wired
<1>6. ASSUME NEW c \in CReqs, uv__connect(c) PROVE EofInv'
  <2>1. /\ UNCHANGED <<read_cb, eof, read_watcher, rx, at>> /\ conn = "none"
        /\ at # "uv__read"
    BY <1>6 DEF uv__connect, UserMayCall, Callback, ctl
  <2> QED
    BY <2>1 DEF EofInv, ReadWakeup, Wired
<1>7. ASSUME NEW r \in WReqs, NEW n \in Lens, uv_write(r, n) PROVE EofInv'
  <2>1. UNCHANGED <<read_cb, eof, read_watcher, conn, rx, connect_req, at>>
    BY <1>7 DEF uv_write, handle, ctl
  <2>2. IsPending("read")' => IsPending("read")
    <3>1. Append(write_queue, r) \in Seq(WReqs)
      BY DEF TypeOK, QueueTypeOK
    <3>2. CASE uv__write(Append(write_queue, r), write_queue_size + n,
                         [left EXCEPT ![r] = n], pendings)
      <4>1. IsPending("read")' <=> \E i \in DOMAIN pendings : pendings[i] = "read"
        BY <1>a, <3>1, <3>2, WriteWakes
      <4> QED
        BY <4>1 DEF IsPending
    <3>3. CASE UNCHANGED pendings
      BY <1>c, <3>3
    <3> QED
      BY <1>7, <3>2, <3>3 DEF uv_write
  <2> QED
    BY <1>w, <2>1, <2>2, EofKept DEF EofInv, ReadWakeup
<1>8. ASSUME NEW s \in SReqs, uv_shutdown(s) PROVE EofInv'
  <2>1. UNCHANGED <<read_cb, eof, read_watcher, conn, rx, connect_req, at, pendings>>
    BY <1>8 DEF uv_shutdown, ctl, kernel
  <2> QED
    BY <1>c, <1>w, <2>1, EofKept DEF EofInv, ReadWakeup
<1> QED
  BY <1>1, <1>2, <1>3, <1>4, <1>5, <1>6, <1>7, <1>8 DEF User

(* So does every step; the peer sends to a connected socket only.          *)
LEMMA EofStep == ASSUME TypeOK, EofInv, [Next]_vars PROVE EofInv'
<1>1. ASSUME UNCHANGED <<handle, io, ctl, eof>>, Wired => Wired', rx' = rx \/ Wired'
      PROVE  EofInv'
  <2>1. IsPending("read")' <=> IsPending("read")
    BY <1>1, PendingKept DEF io
  <2>2. UNCHANGED <<read_cb, read_watcher, connect_req, at, eof>>
    BY <1>1 DEF handle, io, ctl
  <2> QED
    BY <1>1, <2>1, <2>2, EofKept DEF EofInv, ReadWakeup
<1>2. CASE UNCHANGED vars
  BY <1>1, <1>2 DEF vars, kernel, Wired
<1>3. CASE Environment
  <2>1. UNCHANGED <<handle, io, ctl, eof>>
    BY <1>3 DEF Environment, ConnResolve, PeerSends, PeerReads, PeerFinishes, PeerResets
  <2>2. (Wired => Wired') /\ (rx' = rx \/ Wired')
    BY <1>3 DEF Environment, ConnResolve, PeerSends, PeerReads, PeerFinishes, PeerResets, Wired
  <2> QED
    BY <1>1, <2>1, <2>2
<1> QED
  BY <1>2, <1>3, EofLoop, EofUser DEF Next

(* EofInv holds, whatever connect(2) answers and whether or not the        *)
(* program closes after an error.                                          *)
LEMMA EofHolds == Spec => []EofInv
<1>1. Init => EofInv
  BY SizeAssumption DEF Init, EofInv, ReadWakeup, IsPending
<1>2. TypeOK /\ EofInv /\ [Next]_vars => EofInv'
  BY EofStep
<1> QED
  BY <1>1, <1>2, TypeCorrect, PTL DEF Spec

(* No lost wakeup on the read side: after uv_read_start the read watcher   *)
(* is active until the program stops reading, closes, or was told of the   *)
(* end of the data.                                                        *)
THEOREM NoLostReadWakeup == Spec => []ReadWakeup
<1>1. EofInv => ReadWakeup
  BY DEF EofInv
<1> QED
  BY <1>1, EofHolds, PTL

(* A callback that starts in uv__read starts there and nowhere else.       *)
LEMMA ReadStarts ==
  ASSUME [Next]_vars, Starts, at' \in {"read_cb", "read_cb_full", "read_error_cb"}
  PROVE  at = "uv__read"
<1>1. Loop => at = "uv__read"
  BY DEF Loop, InvokeDummy, uv__stream_connect, StreamReadable, StreamWritable, uv__finish_close,
         uv__read, uv__write_callbacks, uv__drain, uv__stream_destroy, Poll, CallsBack, ctl, Starts
<1>2. User => at' = at \/ at' \in {"uv__write_callbacks", "uv__stream_destroy", "uv__read",
                                   "abort", "loop"}
  BY DEF User, Return, uv__stream_open, uv_read_start, uv_read_stop, uv_close, uv__connect,
         uv_write, uv_shutdown, ctl
<1>3. Environment \/ UNCHANGED vars => at' = at
  BY DEF vars, ctl, Environment, ConnResolve, PeerSends, PeerReads, PeerFinishes, PeerResets
<1> QED
  BY <1>1, <1>2, <1>3 DEF Next, Starts

(* After the end of the data no read callback starts until the program     *)
(* calls uv_read_start again, for any program and any peer.                *)
THEOREM EofIsFinal == Spec => NothingAfterEof
<1>1. EofInv /\ [Next]_vars =>
        [eof /\ Starts => at' \notin {"read_cb", "read_cb_full", "read_error_cb"}]_vars
  BY ReadStarts DEF EofInv
<1> QED
  BY <1>1, EofHolds, PTL DEF Spec, NothingAfterEof

(* What starts on a stream that uv_close was called on.                    *)
LEMMA CloseStarts ==
  ASSUME TypeOK, CloseInv, AssertInv, [Next]_vars, Closing, Starts
  PROVE  at' \in {"write_cb", "destroy_cb", "close_cb"} /\ ~Closed
<1>a. pendings \in Seq(Slot)
  BY DEF TypeOK, IoTypeOK, Slot
<1>b. /\ ~Invokes("read") /\ ~Invokes("write")
      /\ Invokes("next") => "CLOSED" \notin flags
  BY <1>a, InvokedFacts DEF AssertInv, CloseInv
<1>c. ~read_cb /\ ("CLOSED" \in flags => at \in {"loop", "uv__stream_destroy", "destroy_cb", "close_cb"})
  BY DEF AssertInv
<1>1. Environment \/ UNCHANGED vars => at' = at
  BY DEF vars, ctl, Environment, ConnResolve, PeerSends, PeerReads, PeerFinishes, PeerResets
<1>2. User => at' = at \/ at' \in {"uv__write_callbacks", "uv__stream_destroy", "uv__read",
                                   "abort", "loop"}
  BY DEF User, Return, uv__stream_open, uv_read_start, uv_read_stop, uv_close, uv__connect,
         uv_write, uv_shutdown, ctl
<1>3. \/ uv__write_callbacks \/ uv__stream_destroy
  <2>1. ~(InvokeDummy \/ Poll)
    BY DEF InvokeDummy, Poll, ctl, Starts
  <2>2. ~(uv__stream_connect \/ StreamReadable \/ StreamWritable)
    BY <1>b DEF uv__stream_connect, StreamReadable, StreamWritable
  <2>3. ~uv__finish_close
    BY DEF uv__finish_close, Starts, Callback
  <2>4. ~uv__read
    BY <1>c DEF uv__read, Starts, Callback
  <2>5. at' \notin {"uv__write_callbacks", "uv__stream_destroy", "uv__read", "abort", "loop"}
    BY DEF Starts, Callback
  <2> QED
    BY <1>1, <1>2, <2>1, <2>2, <2>3, <2>4, <2>5 DEF Next, Loop, Starts
<1>4. CASE uv__write_callbacks
  <2>1. at = "uv__write_callbacks" /\ at' \in {"write_cb", "loop"}
    BY <1>4 DEF uv__write_callbacks, uv__drain, CallsBack, ShutdownDue, Closing
  <2>2. at' = "write_cb" /\ "CLOSED" \notin flags
    BY <1>c, <2>1 DEF Starts, Callback
  <2> QED
    BY <2>2 DEF Closed
<1>5. CASE uv__stream_destroy
  <2>1. at = "uv__stream_destroy" /\ at' \in {"destroy_cb", "close_cb"}
    BY <1>5 DEF uv__stream_destroy, CallsBack
  <2> QED
    BY <2>1 DEF Closed
<1> QED
  BY <1>3, <1>4, <1>5

(* After uv_close only writes are still called back, and close_cb; after   *)
(* close_cb nothing is.  For a program that closes the stream when it is   *)
(* told to.                                                                *)
THEOREM CloseIsFinal == ASSUME CloseOnError PROVE Spec => QuietAfterClose
<1>1. Init => AssertInv
  BY DEF Init, AssertInv, QuietBeforeSocket, Closing, IsPending
<1>2. TypeOK /\ CloseInv /\ AssertInv /\ [Next]_vars => AssertInv'
  BY CloseOnError, AssertStep
<1>3. TypeOK /\ CloseInv /\ AssertInv /\ [Next]_vars =>
        [Closing /\ Starts => at' \in {"write_cb", "destroy_cb", "close_cb"} /\ ~Closed]_vars
  BY CloseStarts
<1> QED
  BY <1>1, <1>2, <1>3, TypeCorrect, AccountHolds, PTL DEF Spec, QuietAfterClose
=============================================================================
