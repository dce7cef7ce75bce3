----------------------------- MODULE UvUdp_proof -----------------------------
(***************************************************************************)
(* Proofs about UvUdp, for every set of requests and every receive buffer: *)
(* its watchers are exact, recv_cb does not come after a stop, and it      *)
(* implements DatagramContract.                                            *)
(***************************************************************************)
EXTENDS UvUdpProps, SequenceTheorems, TLAPS

-----------------------------------------------------------------------------
(* The queue of finished requests before the queue of those still to do.   *)

(* Finishing the head of the second queue leaves their concatenation.      *)
LEMMA FinishKeepsOrder ==
  ASSUME NEW S, NEW c \in Seq(S), NEW q \in Seq(S), q # <<>>
  PROVE  Append(c, Head(q)) \o Tail(q) = c \o q
<1>1. /\ Head(q) \in S /\ Tail(q) \in Seq(S) /\ Len(Tail(q)) = Len(q) - 1
      /\ \A i \in 1..Len(Tail(q)) : Tail(q)[i] = q[i + 1]
      /\ Len(q) \in Nat \ {0} /\ Head(q) = q[1]
  BY HeadTailProperties, EmptySeq
<1>2. /\ Append(c, Head(q)) \in Seq(S) /\ Len(Append(c, Head(q))) = Len(c) + 1
      /\ \A i \in 1..Len(c) : Append(c, Head(q))[i] = c[i]
      /\ Append(c, Head(q))[Len(c) + 1] = Head(q)
      /\ Len(c) \in Nat
  BY <1>1
<1> DEFINE l == Append(c, Head(q)) \o Tail(q)
           r == c \o q
<1>3. /\ l \in Seq(S) /\ Len(l) = Len(c) + Len(q)
      /\ r \in Seq(S) /\ Len(r) = Len(c) + Len(q)
  BY <1>1, <1>2, ConcatProperties
<1>4. ASSUME NEW i \in 1..Len(l) PROVE l[i] = r[i]
  <2>1. /\ l[i] = IF i <= Len(c) + 1 THEN Append(c, Head(q))[i]
                                     ELSE Tail(q)[i - (Len(c) + 1)]
        /\ r[i] = IF i <= Len(c) THEN c[i] ELSE q[i - Len(c)]
    BY <1>1, <1>2, <1>3, ConcatProperties
  <2> QED
    BY <1>1, <1>2, <1>3, <2>1
<1> HIDE DEF l, r
<1>5. l = r
  BY <1>3, <1>4, SeqEqual
<1> QED
  BY <1>5 DEF l, r

(* Submitting appends to the concatenation.                                *)
LEMMA SubmitAppends ==
  ASSUME NEW S, NEW c \in Seq(S), NEW q \in Seq(S), NEW r \in S
  PROVE  c \o Append(q, r) = Append(c \o q, r)
<1>1. Append(q, r) = q \o <<r>> /\ Append(c \o q, r) = (c \o q) \o <<r>> /\ <<r>> \in Seq(S)
  BY ConcatProperties, AppendIsConcat
<1> QED
  BY <1>1, ConcatAssociative

(* Calling back the head of the first queue takes the head of the whole.   *)
LEMMA AnswerTakesHead ==
  ASSUME NEW S, NEW c \in Seq(S), NEW q \in Seq(S), c # <<>>
  PROVE  /\ c \o q # <<>> /\ Head(c \o q) = Head(c)
         /\ Tail(c \o q) = Tail(c) \o q
<1>1. /\ Head(c) = c[1] /\ Tail(c) \in Seq(S) /\ Len(Tail(c)) = Len(c) - 1
      /\ \A i \in 1..Len(Tail(c)) : Tail(c)[i] = c[i + 1]
      /\ Len(c) \in Nat \ {0} /\ Len(q) \in Nat
  BY HeadTailProperties, EmptySeq
<1>2. /\ c \o q \in Seq(S) /\ Len(c \o q) = Len(c) + Len(q)
      /\ \A i \in 1..Len(c) + Len(q) :
           (c \o q)[i] = IF i <= Len(c) THEN c[i] ELSE q[i - Len(c)]
  BY ConcatProperties
<1>3. c \o q # <<>> /\ Head(c \o q) = Head(c)
  BY <1>1, <1>2, EmptySeq
<1>4. /\ Tail(c \o q) \in Seq(S) /\ Len(Tail(c \o q)) = Len(c \o q) - 1
      /\ \A i \in 1..Len(Tail(c \o q)) : Tail(c \o q)[i] = (c \o q)[i + 1]
  BY <1>2, <1>3, HeadTailProperties
<1>5. /\ Tail(c) \o q \in Seq(S) /\ Len(Tail(c) \o q) = Len(c) + Len(q) - 1
      /\ \A i \in 1..Len(c) + Len(q) - 1 :
           (Tail(c) \o q)[i] = IF i <= Len(c) - 1 THEN Tail(c)[i] ELSE q[i - (Len(c) - 1)]
  BY <1>1, ConcatProperties
<1>6. ASSUME NEW i \in 1..Len(Tail(c \o q)) PROVE Tail(c \o q)[i] = (Tail(c) \o q)[i]
  BY <1>1, <1>2, <1>4, <1>5
<1>7. Tail(c \o q) = Tail(c) \o q
  BY <1>2, <1>4, <1>5, <1>6, SeqEqual
<1> QED
  BY <1>3, <1>7

-----------------------------------------------------------------------------
(* Types.                                                                  *)

(* What a step leaves alone keeps its type.                                *)
LEMMA TypeKept ==
  ASSUME TypeOK
  PROVE  /\ UNCHANGED handle => HandleTypeOK'
         /\ UNCHANGED io => IoTypeOK'
         /\ UNCHANGED queues => QueuesTypeOK'
         /\ UNCHANGED ctl => CtlTypeOK'
         /\ UNCHANGED kernel => KernelTypeOK'
<1> USE DEF TypeOK
<1>1. UNCHANGED handle => HandleTypeOK'
  BY Zenon DEF handle, HandleTypeOK
<1>2. UNCHANGED io => IoTypeOK'
  BY Zenon DEF io, IoTypeOK
<1>3. UNCHANGED queues => QueuesTypeOK'
  BY Zenon DEF queues, QueuesTypeOK
<1>4. UNCHANGED ctl => CtlTypeOK'
  BY Zenon DEF ctl, CtlTypeOK
<1>5. UNCHANGED kernel => KernelTypeOK'
  BY Zenon DEF kernel, KernelTypeOK
<1> QED
  BY <1>1, <1>2, <1>3, <1>4, <1>5, Zenon

(* Taking a request off a queue.                                           *)
LEMMA HeadOff ==
  ASSUME NEW q \in Seq(Reqs), q # <<>>
  PROVE  Head(q) \in Reqs /\ Tail(q) \in Seq(Reqs)
BY HeadTailProperties

(* The calls on the watchers keep their types.                             *)
LEMMA WatcherType ==
  ASSUME TypeOK,
         StartReading \/ StartWriting \/ StopReading \/ StopWriting \/ UNCHANGED io
  PROVE  IoTypeOK'
<1>1. read_watcher \in BOOLEAN /\ write_watcher \in BOOLEAN
  BY Zenon DEF TypeOK, IoTypeOK
<1>2. pending \subseteq {"read", "write", "next"}
  BY DEF TypeOK, IoTypeOK
<1>3. read_watcher' \in BOOLEAN /\ write_watcher' \in BOOLEAN
  BY <1>1, Zenon DEF StartReading, StartWriting, StopReading, StopWriting, io
<1>4. pending' \subseteq pending
  BY DEF StartReading, StartWriting, StopReading, StopWriting, io
<1> QED
  BY <1>2, <1>3, <1>4, Zenon DEF IoTypeOK

(* A callback starts.                                                      *)
LEMMA CallbackType ==
  ASSUME TypeOK, NEW r \in Reqs, NEW s \in {"ok", "error"},
         NEW cb \in {"send_cb", "destroy_cb"}, CallsBack(r, s, cb)
  PROVE  CtlTypeOK'
BY DEF CallsBack, ctl, TypeOK, CtlTypeOK, Callback

(* Types are preserved.                                                    *)
LEMMA UdpType == ASSUME TypeOK, [Next]_vars, UdpAssumption PROVE TypeOK'
<1>a. /\ write_queue \in Seq(Reqs) /\ write_completed_queue \in Seq(Reqs)
      /\ sent \in [Reqs -> BOOLEAN]
      /\ pending \subseteq {"read", "write", "next"}
      /\ at \in {"loop"} \cup Callback \cup Internal
      /\ running \in Reqs \cup {NoReq} /\ status \in {"none", "ok", "error"}
      /\ inbox \in 0..RcvBuf
  BY DEF TypeOK, QueuesTypeOK, IoTypeOK, CtlTypeOK, KernelTypeOK
<1>b. /\ bound \in BOOLEAN /\ recv_cb \in BOOLEAN /\ closing \in BOOLEAN
      /\ closed \in BOOLEAN /\ read_watcher \in BOOLEAN /\ write_watcher \in BOOLEAN
      /\ soerr \in BOOLEAN /\ blocked \in BOOLEAN
  BY Zenon DEF TypeOK, HandleTypeOK, IoTypeOK, KernelTypeOK
<1>1. CASE UNCHANGED vars
  BY <1>1, TypeKept DEF vars, TypeOK
<1>2. CASE Poll
  <2>1. IoTypeOK'
    <3>1. pending' \subseteq {"read", "write", "next"}
      BY <1>2 DEF Poll, Ready
    <3> QED
      BY <1>2, <1>b, <3>1, Zenon DEF Poll, IoTypeOK
  <2> QED
    BY <1>2, <2>1, TypeKept DEF Poll, TypeOK
<1>3. ASSUME NEW w, NEW c \in Internal, Invoke(w, c)
      PROVE  IoTypeOK' /\ QueuesTypeOK' /\ CtlTypeOK' /\ KernelTypeOK'
  <2>1. IoTypeOK'
    <3>1. pending' \subseteq {"read", "write", "next"}
      BY <1>3, <1>a DEF Invoke
    <3> QED
      BY <1>3, <1>b, <3>1, Zenon DEF Invoke, IoTypeOK
  <2>2. CtlTypeOK'
    BY <1>3, <1>a DEF Invoke, CtlTypeOK
  <2> QED
    BY <1>3, <2>1, <2>2, TypeKept DEF Invoke
<1>4. CASE UdpReadable \/ UdpWritable
  BY <1>3, <1>4, TypeKept DEF UdpReadable, UdpWritable, TypeOK, Internal
<1>5. CASE uv__finish_close
  <2>1. HandleTypeOK'
    BY <1>5, <1>b, Zenon DEF uv__finish_close, HandleTypeOK
  <2> QED
    BY <1>3, <1>5, <2>1 DEF uv__finish_close, TypeOK, Internal
<1>6. CASE uv__udp_recvmsg
  <2>1. CtlTypeOK'
    BY <1>6, <1>a DEF uv__udp_recvmsg, CtlTypeOK, Callback, RecvCallback
  <2>2. inbox' \in 0..RcvBuf
    BY <1>6, <1>a, UdpAssumption DEF uv__udp_recvmsg
  <2>3. soerr' \in BOOLEAN /\ blocked' \in BOOLEAN
    BY <1>6, <1>b, Zenon DEF uv__udp_recvmsg
  <2> QED
    BY <1>6, <2>1, <2>2, <2>3, TypeKept, Zenon DEF uv__udp_recvmsg, TypeOK, KernelTypeOK
<1>7. CASE RecvReturns \/ Return
  <2>1. CtlTypeOK'
    BY <1>7, <1>a DEF RecvReturns, Return, CtlTypeOK, Internal
  <2> QED
    BY <1>7, <2>1, TypeKept DEF RecvReturns, Return, TypeOK
<1>8. CASE uv__udp_run_pending
  <2>1. CtlTypeOK'
    BY <1>8, <1>a DEF uv__udp_run_pending, CtlTypeOK, Internal
  <2>2. QueuesTypeOK'
    <3>1. CASE write_queue # <<>>
      <4>1. Head(write_queue) \in Reqs /\ Tail(write_queue) \in Seq(Reqs)
        BY <1>a, <3>1, HeadOff
      <4>2. Append(write_completed_queue, Head(write_queue)) \in Seq(Reqs)
        BY <1>a, <4>1, AppendProperties
      <4>3. sent' \in [Reqs -> BOOLEAN]
        BY <1>8, <1>a, <3>1 DEF uv__udp_run_pending, queues
      <4>4. write_queue' \in Seq(Reqs) /\ write_completed_queue' \in Seq(Reqs)
        BY <1>8, <1>a, <4>1, <4>2, Zenon DEF uv__udp_run_pending, Completed, queues
      <4> QED
        BY <4>3, <4>4 DEF QueuesTypeOK
    <3>2. CASE write_queue = <<>>
      BY <1>8, <3>2, TypeKept DEF uv__udp_run_pending
    <3> QED
      BY <3>1, <3>2
  <2>3. soerr' \in BOOLEAN /\ blocked' \in BOOLEAN
    BY <1>8, <1>b, Zenon DEF uv__udp_run_pending
  <2>4. KernelTypeOK'
    BY <1>8, <1>a, <2>3, Zenon DEF uv__udp_run_pending, KernelTypeOK
  <2> QED
    BY <1>8, <2>1, <2>2, <2>4, TypeKept DEF uv__udp_run_pending, TypeOK
<1>9. CASE uv__udp_run_completed
  <2>1. CASE write_completed_queue # <<>>
    <3>1. LET r == Head(write_completed_queue)
          IN  r \in Reqs /\ CallsBack(r, IF sent[r] THEN "ok" ELSE "error", "send_cb")
      BY <1>9, <1>a, <2>1, HeadOff DEF uv__udp_run_completed
    <3>2. CtlTypeOK'
      BY <3>1, CallbackType
    <3>3. QueuesTypeOK' /\ UNCHANGED io
      BY <1>9, <1>a, <2>1, HeadOff DEF uv__udp_run_completed, QueuesTypeOK
    <3> QED
      BY <1>9, <3>2, <3>3, TypeKept DEF uv__udp_run_completed, TypeOK
  <2>2. CASE write_completed_queue = <<>>
    <3>1. CtlTypeOK'
      BY <1>9, <1>a, <2>2 DEF uv__udp_run_completed, CtlTypeOK, Internal
    <3>2. IoTypeOK'
      BY <1>9, <2>2, WatcherType DEF uv__udp_run_completed, SendmsgEnds, WatchOn
    <3> QED
      BY <1>9, <2>2, <3>1, <3>2, TypeKept DEF uv__udp_run_completed, TypeOK
  <2> QED
    BY <2>1, <2>2
<1>10. CASE uv__udp_destroy
  <2>1. CtlTypeOK' /\ QueuesTypeOK'
    <3>1. CASE write_queue # <<>>
      <4>1. Head(write_queue) \in Reqs /\ CallsBack(Head(write_queue), "error", "destroy_cb")
        BY <1>10, <1>a, <3>1, HeadOff DEF uv__udp_destroy
      <4>2. CtlTypeOK'
        BY <4>1, CallbackType
      <4> QED
        BY <1>10, <1>a, <3>1, <4>2, HeadOff DEF uv__udp_destroy, QueuesTypeOK
    <3>2. CASE write_queue = <<>>
      BY <1>10, <1>a, <3>2 DEF uv__udp_destroy, CtlTypeOK, Callback, QueuesTypeOK
    <3> QED
      BY <3>1, <3>2
  <2>2. HandleTypeOK'
    BY <1>10, <1>b, Zenon DEF uv__udp_destroy, HandleTypeOK
  <2> QED
    BY <1>10, <2>1, <2>2, TypeKept DEF uv__udp_destroy, TypeOK
<1>11. CASE uv__bind \/ uv_udp_recv_start \/ uv_udp_recv_stop
  <2>1. HandleTypeOK'
    BY <1>11, <1>b, Zenon DEF uv__bind, uv_udp_recv_start, uv_udp_recv_stop, HandleTypeOK
  <2>2. IoTypeOK'
    BY <1>11, WatcherType DEF uv__bind, uv_udp_recv_start, uv_udp_recv_stop
  <2> QED
    BY <1>11, <2>1, <2>2, TypeKept DEF uv__bind, uv_udp_recv_start, uv_udp_recv_stop, TypeOK
<1>12. CASE uv_close
  <2>1. HandleTypeOK'
    BY <1>12, <1>b, Zenon DEF uv_close, HandleTypeOK
  <2>2. IoTypeOK'
    BY <1>12, Zenon DEF uv_close, IoTypeOK
  <2>3. KernelTypeOK'
    <3>1. 0 \in 0..RcvBuf
      BY UdpAssumption
    <3> QED
      BY <1>12, <3>1, Zenon DEF uv_close, KernelTypeOK
  <2> QED
    BY <1>12, <2>1, <2>2, <2>3, TypeKept DEF uv_close, TypeOK
<1>13. ASSUME NEW r \in Reqs, uv__udp_send(r) PROVE TypeOK'
  <2>1. HandleTypeOK'
    BY <1>13, <1>b, Zenon DEF uv__udp_send, HandleTypeOK
  <2>2. IoTypeOK'
    BY <1>13, WatcherType DEF uv__udp_send
  <2>3. QueuesTypeOK'
    BY <1>13, <1>a, AppendProperties DEF uv__udp_send, QueuesTypeOK
  <2> QED
    BY <1>13, <2>1, <2>2, <2>3, TypeKept DEF uv__udp_send, TypeOK
<1>14. CASE Arrives \/ Refused \/ Drains
  <2>1. inbox' \in 0..RcvBuf
    BY <1>14, <1>a, UdpAssumption DEF Arrives, Refused, Drains
  <2>2. soerr' \in BOOLEAN /\ blocked' \in BOOLEAN
    BY <1>14, <1>b, Zenon DEF Arrives, Refused, Drains
  <2> QED
    BY <1>14, <2>1, <2>2, TypeKept, Zenon DEF Arrives, Refused, Drains, TypeOK, KernelTypeOK
<1> QED
  BY <1>1, <1>2, <1>4, <1>5, <1>6, <1>7, <1>8, <1>9, <1>10, <1>11, <1>12, <1>13, <1>14
     DEF Next, Loop, User, Kernel

-----------------------------------------------------------------------------
(* Watchers and control.                                                   *)

(* WatchersMatch and CloseInv are preserved together.                      *)
LEMMA WatchStep ==
  ASSUME TypeOK, WatchersMatch, CloseInv, [Next]_vars
  PROVE  WatchersMatch' /\ CloseInv'
<1> USE DEF WatchersMatch, CloseInv, Sending, RecvCallback
<1>1. CASE UNCHANGED vars
  BY <1>1 DEF vars, handle, io, queues, ctl
<1>2. CASE Poll
  BY <1>2 DEF Poll, Ready, handle, queues, ctl
<1>3. CASE UdpReadable
  BY <1>3 DEF UdpReadable, Invoke, handle, queues
<1>4. CASE UdpWritable
  BY <1>4 DEF UdpWritable, Invoke, handle, queues
<1>5. CASE uv__finish_close
  BY <1>5 DEF uv__finish_close, Invoke, queues
<1>6. CASE uv__udp_recvmsg
  BY <1>6 DEF uv__udp_recvmsg, handle, io, queues
<1>7. CASE RecvReturns
  BY <1>7 DEF RecvReturns, ReceivesAgain, handle, io, queues
<1>8. CASE Return
  BY <1>8 DEF Return, handle, io, queues
<1>9. CASE uv__udp_run_pending
  BY <1>9 DEF uv__udp_run_pending, handle, io, queues
<1>10. CASE uv__udp_run_completed
  <2>1. CASE write_completed_queue # <<>>
    BY <1>10, <2>1 DEF uv__udp_run_completed, CallsBack, handle, io, ctl
  <2>2. CASE write_completed_queue = <<>> /\ closed
    BY <1>10, <2>2 DEF uv__udp_run_completed, handle, io, queues
  <2>3. CASE write_completed_queue = <<>> /\ ~closed
    BY <1>10, <2>3 DEF uv__udp_run_completed, SendmsgEnds, StopWriting, WatchOn, handle, io, queues
  <2> QED
    BY <2>1, <2>2, <2>3
<1>11. CASE uv__udp_destroy
  BY <1>11 DEF uv__udp_destroy, CallsBack, io, ctl
<1>12. CASE uv__bind
  BY <1>12 DEF uv__bind, UserMayCall, io, queues, ctl
<1>13. CASE uv_udp_recv_start
  BY <1>13 DEF uv_udp_recv_start, UserMayCall, StartReading, queues, ctl
<1>14. CASE uv_udp_recv_stop
  BY <1>14 DEF uv_udp_recv_stop, UserMayCall, StopReading, queues, ctl, Callback
<1>15. CASE uv_close
  BY <1>15 DEF uv_close, UserMayCall, queues, ctl, Callback
<1>16. ASSUME NEW r \in Reqs, uv__udp_send(r) PROVE WatchersMatch' /\ CloseInv'
  <2>1. write_queue' # <<>>
    <3>1. write_queue \in Seq(Reqs)
      BY DEF TypeOK, QueuesTypeOK
    <3> QED
      BY <1>16, <3>1, AppendProperties DEF uv__udp_send
  <2> QED
    BY <1>16, <2>1 DEF uv__udp_send, UserMayCall, StartWriting, ctl
<1>17. CASE Kernel
  BY <1>17 DEF Kernel, Arrives, Refused, Drains, handle, io, queues, ctl
<1> QED
  BY <1>1, <1>2, <1>3, <1>4, <1>5, <1>6, <1>7, <1>8, <1>9, <1>10, <1>11, <1>12, <1>13,
     <1>14, <1>15, <1>16, <1>17 DEF Next, Loop, User

-----------------------------------------------------------------------------
(* Requests are queued once.                                               *)

NoneTwice(s) == \A i, j \in DOMAIN s : s[i] = s[j] => i = j

(* What is taken off a queue leaves no request twice.                      *)
LEMMA TailOnce ==
  ASSUME NEW s \in Seq(Reqs), s # <<>>, NoneTwice(s)
  PROVE  NoneTwice(Tail(s)) /\ Head(s) \notin ToSet(Tail(s))
<1>1. /\ Head(s) = s[1] /\ Tail(s) \in Seq(Reqs) /\ Len(Tail(s)) = Len(s) - 1
      /\ \A i \in 1..Len(Tail(s)) : Tail(s)[i] = s[i + 1]
      /\ Len(s) \in Nat \ {0} /\ DOMAIN s = 1..Len(s)
      /\ DOMAIN Tail(s) = 1..(Len(s) - 1)
  BY HeadTailProperties, EmptySeq
<1>2. ASSUME NEW i \in DOMAIN Tail(s), NEW j \in DOMAIN Tail(s), Tail(s)[i] = Tail(s)[j]
      PROVE  i = j
  BY <1>1, <1>2 DEF NoneTwice
<1>3. ASSUME NEW i \in DOMAIN Tail(s) PROVE Tail(s)[i] # Head(s)
  BY <1>1 DEF NoneTwice
<1> QED
  BY <1>2, <1>3 DEF NoneTwice, ToSet

(* A request that is not queued may be queued.                             *)
LEMMA AppendOnce ==
  ASSUME NEW s \in Seq(Reqs), NEW r \in Reqs, r \notin ToSet(s), NoneTwice(s)
  PROVE  NoneTwice(Append(s, r))
<1>1. /\ Append(s, r) \in Seq(Reqs) /\ Len(Append(s, r)) = Len(s) + 1
      /\ \A i \in 1..Len(s) : Append(s, r)[i] = s[i]
      /\ Append(s, r)[Len(s) + 1] = r
      /\ DOMAIN s = 1..Len(s) /\ DOMAIN Append(s, r) = 1..(Len(s) + 1) /\ Len(s) \in Nat
  BY AppendProperties
<1>2. \A i \in 1..Len(s) : s[i] # r
  BY <1>1 DEF ToSet
<1> QED
  BY <1>1, <1>2 DEF NoneTwice

(* What is in the two queues is in their concatenation.                    *)
LEMMA QueuedTogether ==
  ASSUME NEW c \in Seq(Reqs), NEW q \in Seq(Reqs)
  PROVE  /\ c \o q \in Seq(Reqs)
         /\ ToSet(c \o q) = ToSet(c) \cup ToSet(q)
         /\ NoneTwice(c \o q) => NoneTwice(c)
<1>1. /\ c \o q \in Seq(Reqs) /\ Len(c \o q) = Len(c) + Len(q)
      /\ \A i \in 1..Len(c) + Len(q) :
           (c \o q)[i] = IF i <= Len(c) THEN c[i] ELSE q[i - Len(c)]
      /\ Len(c) \in Nat /\ Len(q) \in Nat
      /\ DOMAIN c = 1..Len(c) /\ DOMAIN q = 1..Len(q)
      /\ DOMAIN (c \o q) = 1..(Len(c) + Len(q))
  BY ConcatProperties
<1>2. ToSet(c \o q) \subseteq ToSet(c) \cup ToSet(q)
  <2>1. ASSUME NEW i \in 1..(Len(c) + Len(q))
        PROVE  (c \o q)[i] \in ToSet(c) \cup ToSet(q)
    <3>1. CASE i <= Len(c)
      BY <1>1, <3>1 DEF ToSet
    <3>2. CASE ~(i <= Len(c))
      <4>1. i - Len(c) \in DOMAIN q
        BY <1>1, <3>2
      <4> QED
        BY <1>1, <3>2, <4>1 DEF ToSet
    <3> QED
      BY <3>1, <3>2
  <2> QED
    BY <1>1, <2>1 DEF ToSet
<1>3. ToSet(c) \subseteq ToSet(c \o q)
  <2>1. ASSUME NEW i \in 1..Len(c) PROVE i \in DOMAIN (c \o q) /\ (c \o q)[i] = c[i]
    BY <1>1
  <2> QED
    BY <1>1, <2>1 DEF ToSet
<1>4. ToSet(q) \subseteq ToSet(c \o q)
  <2>1. ASSUME NEW i \in 1..Len(q)
        PROVE  Len(c) + i \in DOMAIN (c \o q) /\ (c \o q)[Len(c) + i] = q[i]
    <3>1. Len(c) + i \in 1..Len(c) + Len(q) /\ ~(Len(c) + i <= Len(c)) /\ (Len(c) + i) - Len(c) = i
      BY <1>1
    <3> QED
      BY <1>1, <3>1
  <2>2. ASSUME NEW i \in 1..Len(q) PROVE q[i] \in ToSet(c \o q)
    BY <2>1 DEF ToSet
  <2>3. ToSet(q) = {q[i] : i \in 1..Len(q)}
    BY <1>1 DEF ToSet
  <2> QED
    BY <2>2, <2>3
<1>5. NoneTwice(c \o q) => NoneTwice(c)
  <2>1. \A i \in DOMAIN c : i \in DOMAIN (c \o q) /\ (c \o q)[i] = c[i]
    BY <1>1
  <2> QED
    BY <2>1 DEF NoneTwice
<1> QED
  BY <1>1, <1>2, <1>3, <1>4, <1>5

(* AnswerInv is preserved.                                                 *)
LEMMA AnswerStep ==
  ASSUME TypeOK, CloseInv, AnswerInv, [Next]_vars
  PROVE  AnswerInv'
<1>a. /\ write_queue \in Seq(Reqs) /\ write_completed_queue \in Seq(Reqs)
      /\ Outstanding \in Seq(Reqs) /\ NoneTwice(Outstanding)
      /\ ToSet(Outstanding) = Queued
  BY QueuedTogether DEF TypeOK, QueuesTypeOK, AnswerInv, NoneTwice, Outstanding, Queued
<1>b. ASSUME UNCHANGED <<write_queue, write_completed_queue>>
      PROVE  UNCHANGED Outstanding
  BY <1>b DEF Outstanding
<1>c. ASSUME NEW s, Outstanding' = s, NoneTwice(s),
             at' \notin {"send_cb", "destroy_cb"} => running' = NoReq
      PROVE  AnswerInv'
  BY <1>c DEF AnswerInv, NoneTwice
<1>1. CASE UNCHANGED <<write_queue, write_completed_queue, running>>
           /\ (at \in {"send_cb", "destroy_cb"} => UNCHANGED at)
  BY <1>a, <1>b, <1>c, <1>1 DEF AnswerInv
<1>2. CASE UNCHANGED vars
  BY <1>1, <1>2 DEF vars, queues, ctl
<1>3. CASE Poll \/ UdpReadable \/ UdpWritable \/ uv__finish_close
  BY <1>1, <1>3 DEF Poll, UdpReadable, UdpWritable, uv__finish_close, Invoke, queues, ctl
<1>4. CASE uv__udp_recvmsg \/ RecvReturns
  BY <1>1, <1>4 DEF uv__udp_recvmsg, RecvReturns, RecvCallback, queues
<1>5. CASE Return
  BY <1>a, <1>b, <1>c, <1>5 DEF Return, queues
<1>6. CASE uv__udp_run_pending
  <2>1. at = "uv__udp_run_pending" /\ running = NoReq
    BY <1>6 DEF uv__udp_run_pending, AnswerInv
  <2>2. at' \notin {"send_cb", "destroy_cb"} /\ UNCHANGED running
    BY <1>6, <2>1 DEF uv__udp_run_pending
  <2>3. UNCHANGED Outstanding
    <3>1. CASE UNCHANGED queues
      BY <3>1 DEF queues, Outstanding
    <3>2. CASE /\ write_queue # <<>> /\ write_queue' = Tail(write_queue)
               /\ write_completed_queue' = Append(write_completed_queue, Head(write_queue))
      BY <1>a, <3>2, FinishKeepsOrder DEF Outstanding
    <3> QED
      BY <1>6, <3>1, <3>2 DEF uv__udp_run_pending, Completed
  <2> QED
    BY <1>a, <1>c, <2>1, <2>2, <2>3
<1>7. CASE uv__udp_run_completed
  <2>1. CASE write_completed_queue # <<>>
    <3>1. Outstanding' = Tail(Outstanding) /\ NoneTwice(Tail(Outstanding))
      BY <1>7, <1>a, <2>1, AnswerTakesHead, TailOnce DEF uv__udp_run_completed, Outstanding
    <3>2. at' \notin {"send_cb", "destroy_cb"} => running' = NoReq
      BY <1>7, <2>1 DEF uv__udp_run_completed, CallsBack, ctl, AnswerInv
    <3> QED
      BY <1>c, <3>1, <3>2
  <2>2. CASE write_completed_queue = <<>>
    BY <1>1, <1>7, <2>2 DEF uv__udp_run_completed, queues
  <2> QED
    BY <2>1, <2>2
<1>8. CASE uv__udp_destroy
  <2>1. write_completed_queue = <<>> /\ UNCHANGED write_completed_queue
    BY <1>8 DEF uv__udp_destroy, CloseInv
  <2>2. Outstanding = write_queue /\ Outstanding' = write_queue'
    <3>1. write_queue' \in Seq(Reqs)
      BY <1>8, <1>a, HeadTailProperties DEF uv__udp_destroy
    <3> QED
      BY <1>a, <2>1, <3>1, ConcatEmptySeq DEF Outstanding
  <2>3. CASE write_queue # <<>>
    <3>1. write_queue' = Tail(write_queue) /\ NoneTwice(Tail(write_queue))
      BY <1>8, <1>a, <2>2, <2>3, TailOnce DEF uv__udp_destroy
    <3>2. at' \notin {"send_cb", "destroy_cb"} => running' = NoReq
      BY <1>8, <2>3 DEF uv__udp_destroy, CallsBack, ctl, AnswerInv
    <3> QED
      BY <1>c, <2>2, <3>1, <3>2
  <2>4. CASE write_queue = <<>>
    BY <1>1, <1>8, <2>4 DEF uv__udp_destroy
  <2> QED
    BY <2>3, <2>4
<1>9. CASE uv__bind \/ uv_udp_recv_start \/ uv_udp_recv_stop \/ uv_close \/ Kernel
  BY <1>1, <1>9 DEF uv__bind, uv_udp_recv_start, uv_udp_recv_stop, uv_close, Kernel,
     Arrives, Refused, Drains, queues, ctl
<1>10. ASSUME NEW r \in Reqs, uv__udp_send(r) PROVE AnswerInv'
  <2>1. Outstanding' = Append(Outstanding, r)
    BY <1>10, <1>a, SubmitAppends DEF uv__udp_send, Outstanding
  <2>2. NoneTwice(Append(Outstanding, r))
    BY <1>10, <1>a, AppendOnce DEF uv__udp_send
  <2>3. UNCHANGED ctl
    BY <1>10 DEF uv__udp_send
  <2> QED
    BY <1>c, <2>1, <2>2, <2>3 DEF ctl, AnswerInv
<1> QED
  BY <1>2, <1>3, <1>4, <1>5, <1>6, <1>7, <1>8, <1>9, <1>10 DEF Next, Loop, User

(* Initially there is nothing to watch and nothing queued.                 *)
LEMMA UdpInit == ASSUME Init, UdpAssumption PROVE TypeOK /\ UdpInv
<1>1. <<>> \in Seq(Reqs) /\ Outstanding = <<>>
  BY EmptySeq, ConcatEmptySeq DEF Init, Outstanding
<1>2. HandleTypeOK
  BY Zenon DEF Init, HandleTypeOK
<1>3. IoTypeOK
  <2>1. pending \subseteq {"read", "write", "next"}
    BY DEF Init
  <2> QED
    BY <2>1, Zenon DEF Init, IoTypeOK
<1>4. QueuesTypeOK /\ CtlTypeOK
  BY <1>1 DEF Init, QueuesTypeOK, CtlTypeOK
<1>5. KernelTypeOK
  <2>1. 0 \in 0..RcvBuf
    BY UdpAssumption
  <2> QED
    BY <2>1, Zenon DEF Init, KernelTypeOK
<1>6. WatchersMatch /\ CloseInv
  BY DEF Init, WatchersMatch, CloseInv, Sending, RecvCallback
<1>7. AnswerInv
  BY <1>1 DEF Init, AnswerInv
<1> QED
  BY <1>2, <1>3, <1>4, <1>5, <1>6, <1>7 DEF TypeOK, UdpInv

(* UdpInv is inductive.                                                    *)
LEMMA UdpStep ==
  ASSUME TypeOK, UdpInv, [Next]_vars, UdpAssumption
  PROVE  TypeOK' /\ UdpInv'
BY UdpType, WatchStep, AnswerStep DEF UdpInv

(* The invariant of every behaviour.                                       *)
LEMMA UdpInvariant == Spec => [](TypeOK /\ UdpInv)
<1>1. Init => TypeOK /\ UdpInv
  BY UdpInit, UdpAssumption
<1>2. TypeOK /\ UdpInv /\ [Next]_vars => (TypeOK /\ UdpInv)'
  BY UdpStep, UdpAssumption
<1> QED
  BY <1>1, <1>2, PTL DEF Spec

(* The watchers of a socket are active for what there is to do, no less    *)
(* and no more, and the assertions of udp.c hold.                          *)
THEOREM WatchersAreExact == Spec => []WatchersExact
<1>1. TypeOK /\ UdpInv => WatchersExact
  BY DEF UdpInv, WatchersExact
<1> QED
  BY <1>1, UdpInvariant, PTL

(* uv_udp_recv_stop and uv_close stop recv_cb at once, also from within it. *)
THEOREM ReceivingStops == Spec => RecvStops
<1>1. ASSUME TypeOK, UdpInv, [Next]_vars, at' \in RecvCallback, at \notin RecvCallback
      PROVE  recv_cb /\ bound
  <2> USE DEF RecvCallback
  <2>1. CASE UNCHANGED vars
    BY <1>1, <2>1 DEF vars, ctl
  <2>2. CASE Poll \/ UdpReadable \/ UdpWritable \/ uv__finish_close
    BY <1>1, <2>2 DEF Poll, UdpReadable, UdpWritable, uv__finish_close, Invoke, ctl
  <2>3. CASE uv__udp_recvmsg
    BY <1>1, <2>3 DEF uv__udp_recvmsg, UdpInv, CloseInv
  <2>4. CASE uv__udp_run_pending \/ uv__udp_run_completed \/ uv__udp_destroy
    BY <1>1, <2>4 DEF uv__udp_run_pending, uv__udp_run_completed, uv__udp_destroy,
       CallsBack, ctl
  <2>5. CASE RecvReturns \/ Return
    BY <1>1, <2>5 DEF RecvReturns, Return
  <2>6. CASE uv__bind \/ uv_udp_recv_start \/ uv_udp_recv_stop \/ uv_close \/ Kernel
    BY <1>1, <2>6 DEF uv__bind, uv_udp_recv_start, uv_udp_recv_stop, uv_close, Kernel,
       Arrives, Refused, Drains, ctl
  <2>7. CASE \E r \in Reqs : uv__udp_send(r)
    BY <1>1, <2>7 DEF uv__udp_send, ctl
  <2> QED
    BY <1>1, <2>1, <2>2, <2>3, <2>4, <2>5, <2>6, <2>7 DEF Next, Loop, User
<1>2. TypeOK /\ UdpInv /\ [Next]_vars =>
        [at' \in RecvCallback /\ at \notin RecvCallback => recv_cb /\ bound]_vars
  BY <1>1
<1> QED
  BY <1>2, UdpInvariant, PTL DEF Spec, RecvStops

-----------------------------------------------------------------------------
(* The contract.                                                           *)

\* The variables of DatagramContract, as functions of those of UvUdp.
Shown(r) == IF r \notin ToSet(write_completed_queue) THEN "none"
            ELSE IF sent[r] THEN "ok" ELSE "error"
result == [r \in Reqs |-> Shown(r)]
answer == IF running = NoReq THEN <<>> ELSE <<running, status>>
socket == IF ~closing THEN "open"
          ELSE IF closed /\ at \in {"close_cb", "loop"} THEN "closed" ELSE "closing"

(* A step that shows nothing is a stutter of the contract.                 *)
LEMMA UdpStutters ==
  ASSUME UNCHANGED <<Outstanding, result, answer, socket>>
  PROVE  UNCHANGED Contract!vars
BY DEF Contract!vars, result, answer, socket, Shown

(* What a step leaves alone shows nothing.                                 *)
LEMMA ShowsNothing ==
  /\ UNCHANGED queues => UNCHANGED Outstanding /\ UNCHANGED result
  /\ UNCHANGED <<running, status>> => UNCHANGED answer
  /\ UNCHANGED <<closing, closed, at>> => UNCHANGED socket
BY DEF queues, Outstanding, result, Shown, answer, socket

(* Taking the head of a queue without repetitions takes it out of its set. *)
LEMMA TailSet ==
  ASSUME NEW s \in Seq(Reqs), s # <<>>, NoneTwice(s)
  PROVE  ToSet(s) = ToSet(Tail(s)) \cup {Head(s)} /\ Head(s) \notin ToSet(Tail(s))
<1>1. /\ Head(s) = s[1] /\ Len(Tail(s)) = Len(s) - 1 /\ Len(s) \in Nat \ {0}
      /\ \A i \in 1..Len(Tail(s)) : Tail(s)[i] = s[i + 1]
      /\ DOMAIN s = 1..Len(s) /\ DOMAIN Tail(s) = 1..(Len(s) - 1)
  BY HeadTailProperties, EmptySeq
<1>2. ASSUME NEW i \in 1..Len(s) PROVE s[i] \in ToSet(Tail(s)) \cup {Head(s)}
  <2>1. CASE i # 1
    <3>1. i - 1 \in 1..(Len(s) - 1) /\ Tail(s)[i - 1] = s[i]
      BY <1>1, <2>1
    <3> QED
      BY <1>1, <3>1 DEF ToSet
  <2> QED
    BY <1>1, <2>1
<1>3. ASSUME NEW i \in 1..(Len(s) - 1) PROVE Tail(s)[i] \in ToSet(s)
  <2>1. i + 1 \in 1..Len(s) /\ Tail(s)[i] = s[i + 1]
    BY <1>1
  <2> QED
    BY <1>1, <2>1 DEF ToSet
<1>4. Head(s) \in ToSet(s)
  <2>1. 1 \in DOMAIN s
    BY <1>1
  <2> QED
    BY <1>1, <2>1 DEF ToSet
<1>5. ToSet(s) \subseteq ToSet(Tail(s)) \cup {Head(s)}
  BY <1>1, <1>2 DEF ToSet
<1>6. ToSet(Tail(s)) \subseteq ToSet(s)
  BY <1>1, <1>3 DEF ToSet
<1> QED
  BY <1>4, <1>5, <1>6, TailOnce

(* sendmsg(2) is tried for the oldest request it was not tried for.        *)
LEMMA RefinesTry ==
  ASSUME TypeOK, AnswerInv, ~closing, UNCHANGED closing,
         uv__udp_run_pending, write_queue # <<>>, ~(blocked /\ ~soerr)
  PROVE  Contract!Try
<1> DEFINE c == write_completed_queue
           q == write_queue
           i == Len(c) + 1
<1>1. /\ c \in Seq(Reqs) /\ q \in Seq(Reqs) /\ sent \in [Reqs -> BOOLEAN]
      /\ NoneTwice(Outstanding)
  BY DEF TypeOK, QueuesTypeOK, AnswerInv, NoneTwice
<1>2. PICK size \in BOOLEAN : sent' = [sent EXCEPT ![Head(q)] = size]
  BY DEF uv__udp_run_pending
<1>3. /\ q' = Tail(q) /\ c' = Append(c, Head(q))
      /\ UNCHANGED <<running, status>>
  BY DEF uv__udp_run_pending, Completed
<1>4. /\ Head(q) \in Reqs /\ Head(q) = q[1] /\ Len(q) \in Nat \ {0} /\ Len(c) \in Nat
      /\ DOMAIN c = 1..Len(c)
  BY <1>1, HeadTailProperties, EmptySeq
<1>5. /\ DOMAIN Outstanding = 1..(Len(c) + Len(q))
      /\ \A j \in 1..(Len(c) + Len(q)) :
           Outstanding[j] = IF j <= Len(c) THEN c[j] ELSE q[j - Len(c)]
  <2>1. /\ Outstanding \in Seq(Reqs) /\ Len(Outstanding) = Len(c) + Len(q)
        /\ \A j \in 1..Len(c) + Len(q) :
             Outstanding[j] = IF j <= Len(c) THEN c[j] ELSE q[j - Len(c)]
    BY <1>1, ConcatProperties DEF Outstanding
  <2> QED
    BY <1>4, <2>1
<1>6. UNCHANGED Outstanding
  BY <1>1, <1>3, FinishKeepsOrder DEF Outstanding
<1>7. i \in DOMAIN Outstanding /\ Outstanding[i] = Head(q)
  <2>1. i \in 1..(Len(c) + Len(q)) /\ ~(i <= Len(c)) /\ i - Len(c) = 1
    BY <1>4
  <2> QED
    BY <1>4, <1>5, <2>1
<1>8. Head(q) \notin ToSet(c)
  <2>1. ASSUME NEW j \in 1..Len(c), c[j] = Head(q) PROVE FALSE
    <3>1. j \in DOMAIN Outstanding /\ Outstanding[j] = Head(q) /\ j # i
      BY <1>4, <1>5, <2>1
    <3> QED
      BY <1>1, <1>7, <3>1 DEF NoneTwice
  <2> QED
    BY <1>4, <2>1 DEF ToSet
<1>9. i \in Contract!Untried
  BY <1>4, <1>7, <1>8 DEF Contract!Untried, Shown
<1>10. ASSUME NEW j \in Contract!Untried PROVE i <= j
  <2>1. j \in 1..(Len(c) + Len(q))
    BY <1>5 DEF Contract!Untried
  <2>2. CASE j <= Len(c)
    <3>1. Outstanding[j] \in ToSet(c) /\ Outstanding[j] \in Reqs
      <4>1. j \in 1..Len(c) /\ Outstanding[j] = c[j]
        BY <1>4, <1>5, <2>1, <2>2
      <4>2. c[j] \in Reqs
        BY <1>1, <4>1, ElementOfSeq
      <4> QED
        BY <1>4, <4>1, <4>2 DEF ToSet
    <3> QED
      BY <3>1 DEF Contract!Untried
  <2> QED
    BY <1>4, <2>1, <2>2
<1> DEFINE s == IF size THEN "ok" ELSE "error"
<1>11. result' = [result EXCEPT ![Head(q)] = s]
  <2>1. ToSet(c') = ToSet(c) \cup {Head(q)}
    <3>1. c' \in Seq(Reqs) /\ Len(c') = Len(c) + 1 /\ c'[Len(c) + 1] = Head(q)
          /\ \A j \in 1..Len(c) : c'[j] = c[j]
      BY <1>1, <1>3, <1>4, AppendProperties
    <3>2. DOMAIN c' = 1..(Len(c) + 1)
      BY <1>4, <3>1
    <3>3. ASSUME NEW j \in 1..(Len(c) + 1) PROVE c'[j] \in ToSet(c) \cup {Head(q)}
      <4>1. j \in 1..Len(c) \/ j = Len(c) + 1
        BY <1>4
      <4> QED
        BY <1>4, <3>1, <4>1 DEF ToSet
    <3>4. Len(c) + 1 \in DOMAIN c' /\ \A j \in 1..Len(c) : j \in DOMAIN c'
      BY <1>4, <3>2
    <3>5. ToSet(c') \subseteq ToSet(c) \cup {Head(q)}
      BY <3>2, <3>3 DEF ToSet
    <3>6. ToSet(c) \cup {Head(q)} \subseteq ToSet(c')
      BY <1>4, <3>1, <3>4 DEF ToSet
    <3> QED
      BY <3>5, <3>6
  <2>2. ASSUME NEW r \in Reqs PROVE Shown(r)' = IF r = Head(q) THEN s ELSE Shown(r)
    BY <1>1, <1>2, <1>4, <2>1 DEF Shown
  <2> QED
    BY <1>4, <2>2, Zenon DEF result
<1>12. UNCHANGED answer /\ socket = "open" /\ UNCHANGED socket
  BY <1>3 DEF answer, socket
<1> HIDE DEF i, s
<1>13. s \in {"ok", "error"}
  BY DEF s
<1> QED
  BY <1>6, <1>7, <1>9, <1>10, <1>11, <1>12, <1>13
     DEF Contract!Try, result, answer, socket, Shown

(* The callback of the oldest request starts, or it has none.              *)
LEMMA RefinesAnswer ==
  ASSUME TypeOK, AnswerInv, UdpAssumption, Outstanding # <<>>,
         Outstanding' = Tail(Outstanding), running = NoReq,
         NEW r, r = Head(Outstanding), NEW s \in {"ok", "error"}, NEW cb,
         result[r] # "none" \/ socket = "closing",
         s = IF result[r] = "none" THEN "error" ELSE result[r],
         CallsBack(r, s, cb), UNCHANGED socket,
         result' = [result EXCEPT ![r] = "none"]
  PROVE  Contract!Answer
<1>1. r \in Reqs /\ r # NoReq
  <2>1. Outstanding \in Seq(Reqs)
    BY QueuedTogether DEF TypeOK, QueuesTypeOK, Outstanding
  <2> QED
    BY <2>1, HeadTailProperties, UdpAssumption
<1>2. answer = <<>> /\ answer' = IF r \in Mute THEN <<>> ELSE <<r, s>>
  BY <1>1 DEF CallsBack, answer, ctl
<1>3. Contract!Answer <=>
        /\ answer = <<>> /\ Outstanding # <<>>
        /\ result[r] # "none" \/ socket = "closing"
        /\ answer' = IF r \in Mute THEN <<>>
                     ELSE <<r, IF result[r] = "none" THEN "error" ELSE result[r]>>
        /\ result' = [result EXCEPT ![r] = "none"]
        /\ Outstanding' = Tail(Outstanding)
        /\ UNCHANGED socket
  BY DEF Contract!Answer, answer, result, socket, Shown
<1> QED
  BY <1>2, <1>3

(* What the handlers do the contract allows.                               *)
LEMMA RefinesLoop ==
  ASSUME TypeOK, UdpInv, UdpAssumption, Loop
  PROVE  [Contract!Next]_(Contract!vars)
<1>a. /\ write_queue \in Seq(Reqs) /\ write_completed_queue \in Seq(Reqs)
      /\ Outstanding \in Seq(Reqs) /\ NoneTwice(Outstanding)
      /\ NoneTwice(write_completed_queue)
      /\ WatchersMatch /\ CloseInv /\ AnswerInv
  BY QueuedTogether DEF TypeOK, QueuesTypeOK, UdpInv, AnswerInv, NoneTwice, Outstanding
<1>1. CASE Poll
  BY <1>1, UdpStutters, ShowsNothing DEF Poll, handle, ctl
<1>2. CASE UdpReadable \/ UdpWritable
  <2>1. "read" \in pending \/ "write" \in pending
    BY <1>2 DEF UdpReadable, UdpWritable, Invoke
  <2>2. ~closing /\ UNCHANGED closing
    BY <1>2, <1>a, <2>1 DEF UdpReadable, UdpWritable, handle, WatchersMatch, CloseInv
  <2>3. UNCHANGED socket /\ UNCHANGED queues /\ UNCHANGED <<running, status>>
    BY <1>2, <2>2 DEF UdpReadable, UdpWritable, Invoke, socket
  <2> QED
    BY <2>3, UdpStutters, ShowsNothing
<1>3. CASE uv__finish_close
  <2>1. closing /\ UNCHANGED closing /\ ~closed /\ at' = "uv__udp_run_completed"
    BY <1>3, <1>a DEF uv__finish_close, Invoke, WatchersMatch
  <2>2. UNCHANGED socket /\ UNCHANGED queues /\ UNCHANGED <<running, status>>
    BY <1>3, <2>1 DEF uv__finish_close, Invoke, socket
  <2> QED
    BY <2>2, UdpStutters, ShowsNothing
<1>4. CASE uv__udp_recvmsg
  <2>1. ~closing /\ UNCHANGED closing
    BY <1>4, <1>a DEF uv__udp_recvmsg, handle, CloseInv
  <2>2. UNCHANGED socket /\ UNCHANGED queues /\ UNCHANGED <<running, status>>
    BY <1>4, <2>1 DEF uv__udp_recvmsg, socket
  <2> QED
    BY <2>2, UdpStutters, ShowsNothing
<1>5. CASE uv__udp_run_pending
  <2>1. ~closing /\ UNCHANGED closing
    BY <1>5, <1>a DEF uv__udp_run_pending, handle, CloseInv
  <2>2. CASE write_queue # <<>> /\ ~(blocked /\ ~soerr)
    BY <1>5, <1>a, <2>1, <2>2, RefinesTry DEF Contract!Next
  <2>3. CASE ~(write_queue # <<>> /\ ~(blocked /\ ~soerr))
    <3>1. UNCHANGED socket /\ UNCHANGED queues /\ UNCHANGED <<running, status>>
      BY <1>5, <2>1, <2>3 DEF uv__udp_run_pending, socket
    <3> QED
      BY <3>1, UdpStutters, ShowsNothing
  <2> QED
    BY <2>2, <2>3
<1>6. CASE uv__udp_run_completed
  <2>1. at = "uv__udp_run_completed" /\ running = NoReq /\ UNCHANGED handle
    BY <1>6, <1>a DEF uv__udp_run_completed, AnswerInv
  <2>2. CASE write_completed_queue # <<>>
    <3> DEFINE r == Head(write_completed_queue)
               s == IF sent[r] THEN "ok" ELSE "error"
    <3>1. /\ CallsBack(r, s, "send_cb") /\ UNCHANGED <<write_queue, sent>>
          /\ write_completed_queue' = Tail(write_completed_queue)
      BY <1>6, <2>2 DEF uv__udp_run_completed
    <3>2. /\ r \in Reqs /\ r \notin ToSet(Tail(write_completed_queue))
          /\ ToSet(write_completed_queue) = ToSet(Tail(write_completed_queue)) \cup {r}
      BY <1>a, <2>2, HeadTailProperties, TailSet
    <3>3. /\ Outstanding # <<>> /\ Head(Outstanding) = r
          /\ Outstanding' = Tail(Outstanding)
      BY <1>a, <2>2, <3>1, AnswerTakesHead DEF Outstanding
    <3>4. result[r] = s /\ s # "none"
      BY <3>2 DEF result, Shown
    <3>5. result' = [result EXCEPT ![r] = "none"]
      <4>1. ASSUME NEW x \in Reqs PROVE Shown(x)' = IF x = r THEN "none" ELSE Shown(x)
        BY <3>1, <3>2 DEF Shown
      <4> QED
        BY <3>2, <4>1, Zenon DEF result
    <3>6. UNCHANGED socket
      BY <2>1, <3>1 DEF CallsBack, ctl, socket, handle
    <3>7. s \in {"ok", "error"}
      OBVIOUS
    <3> HIDE DEF r, s
    <3>8. Contract!Answer
      BY <1>a, <2>1, <3>1, <3>3, <3>4, <3>5, <3>6, <3>7, RefinesAnswer
    <3> QED
      BY <3>8 DEF Contract!Next
  <2>3. CASE write_completed_queue = <<>>
    <3>1. UNCHANGED queues /\ UNCHANGED <<running, status>>
      BY <1>6, <2>3 DEF uv__udp_run_completed
    <3>2. UNCHANGED socket
      BY <1>6, <1>a, <2>1, <2>3 DEF uv__udp_run_completed, socket, handle, CloseInv
    <3> QED
      BY <3>1, <3>2, UdpStutters, ShowsNothing
  <2> QED
    BY <2>2, <2>3
<1>7. CASE uv__udp_destroy
  <2>1. /\ at = "uv__udp_destroy" /\ closed /\ closing /\ running = NoReq
        /\ write_completed_queue = <<>> /\ UNCHANGED <<write_completed_queue, sent>>
        /\ UNCHANGED <<closing, closed>>
    BY <1>7, <1>a DEF uv__udp_destroy, CloseInv, AnswerInv
  <2>2. ToSet(write_completed_queue) = {}
    BY <2>1 DEF ToSet
  <2>3. UNCHANGED result
    BY <2>1 DEF result, Shown
  <2>4. Outstanding = write_queue
    BY <1>a, <2>1, ConcatEmptySeq DEF Outstanding
  <2>5. Outstanding' = write_queue'
    <3>1. write_queue' \in Seq(Reqs)
      BY <1>7, <1>a, HeadTailProperties DEF uv__udp_destroy
    <3> QED
      BY <2>1, <3>1, ConcatEmptySeq DEF Outstanding
  <2>6. CASE write_queue # <<>>
    <3> DEFINE r == Head(write_queue)
    <3>1. CallsBack(r, "error", "destroy_cb") /\ write_queue' = Tail(write_queue)
      BY <1>7, <2>6 DEF uv__udp_destroy
    <3>2. r \in Reqs
      BY <1>a, <2>6, HeadTailProperties
    <3>3. result[r] = "none" /\ result' = [result EXCEPT ![r] = "none"]
      <4>1. result[r] = "none"
        BY <2>2, <3>2 DEF result, Shown
      <4>2. result = [result EXCEPT ![r] = "none"]
        BY <3>2, <4>1 DEF result
      <4> QED
        BY <2>3, <4>1, <4>2, Zenon
    <3>4. socket = "closing" /\ UNCHANGED socket
      BY <2>1, <3>1 DEF CallsBack, ctl, socket
    <3> HIDE DEF r
    <3>5. Contract!Answer
      <4>1. r = Head(Outstanding) /\ Outstanding' = Tail(Outstanding) /\ Outstanding # <<>>
        BY <2>4, <2>5, <2>6, <3>1 DEF r
      <4> QED
        BY <1>a, <2>1, <3>1, <3>3, <3>4, <4>1, RefinesAnswer
    <3> QED
      BY <3>5 DEF Contract!Next
  <2>7. CASE write_queue = <<>>
    <3>1. at' = "close_cb" /\ UNCHANGED <<write_queue, running, status>>
      BY <1>7, <2>7 DEF uv__udp_destroy
    <3>2. socket = "closing" /\ socket' = "closed"
      BY <2>1, <3>1 DEF socket
    <3>3. answer = <<>> /\ UNCHANGED answer /\ Outstanding = <<>> /\ UNCHANGED Outstanding
      BY <2>1, <2>4, <2>5, <2>7, <3>1 DEF answer
    <3>4. Contract!Finish
      BY <2>3, <3>2, <3>3 DEF Contract!Finish, result, answer, socket, Shown
    <3> QED
      BY <3>4 DEF Contract!Next
  <2> QED
    BY <2>6, <2>7
<1> QED
  BY <1>1, <1>2, <1>3, <1>4, <1>5, <1>6, <1>7 DEF Loop

(* What the program's calls do the contract allows.                        *)
LEMMA RefinesUser ==
  ASSUME TypeOK, UdpInv, UdpAssumption, User
  PROVE  [Contract!Next]_(Contract!vars)
<1>a. /\ write_queue \in Seq(Reqs) /\ write_completed_queue \in Seq(Reqs)
      /\ CloseInv /\ AnswerInv
  BY DEF TypeOK, QueuesTypeOK, UdpInv
<1>1. CASE RecvReturns
  <2>1. at' \notin {"close_cb"} /\ at \notin {"close_cb", "loop"} /\ ~closed
        /\ UNCHANGED <<closing, closed>>
    BY <1>1, <1>a DEF RecvReturns, RecvCallback, CloseInv, handle
  <2>2. UNCHANGED socket
    BY <2>1 DEF socket
  <2> QED
    BY <1>1, <2>2, UdpStutters, ShowsNothing DEF RecvReturns
<1>2. CASE Return
  <2>1. UNCHANGED <<closing, closed>> /\ answer' = <<>>
    BY <1>2 DEF Return, handle, answer
  <2>2. at \in {"close_cb", "loop"} <=> at' \in {"close_cb", "loop"}
    BY <1>2 DEF Return
  <2>3. UNCHANGED socket
    BY <2>1, <2>2 DEF socket
  <2>4. UNCHANGED Outstanding /\ UNCHANGED result
    BY <1>2, ShowsNothing DEF Return
  <2>5. Contract!Return
    BY <2>1, <2>3, <2>4 DEF Contract!Return, answer, result, socket, Shown
  <2> QED
    BY <2>5 DEF Contract!Next
<1>3. CASE uv__bind \/ uv_udp_recv_start \/ uv_udp_recv_stop
  BY <1>3, UdpStutters, ShowsNothing
     DEF uv__bind, uv_udp_recv_start, uv_udp_recv_stop, ctl
<1>4. CASE uv_close
  <2>1. ~closing /\ closing' /\ UNCHANGED closed /\ ~closed
    BY <1>4, <1>a DEF uv_close, UserMayCall, CloseInv
  <2>2. socket = "open" /\ socket' = "closing"
    BY <2>1 DEF socket
  <2>3. UNCHANGED Outstanding /\ UNCHANGED result /\ UNCHANGED answer
    BY <1>4, ShowsNothing DEF uv_close, ctl
  <2>4. Contract!Close
    BY <2>2, <2>3 DEF Contract!Close, answer, result, socket, Shown
  <2> QED
    BY <2>4 DEF Contract!Next
<1>5. ASSUME NEW r \in Reqs, uv__udp_send(r) PROVE [Contract!Next]_(Contract!vars)
  <2>1. /\ Outstanding' = Append(Outstanding, r)
        /\ r \notin ToSet(Outstanding)
    BY <1>5, <1>a, SubmitAppends, QueuedTogether DEF uv__udp_send, Outstanding, Queued
  <2>2. ~closing /\ UNCHANGED <<closing, closed, at>> /\ UNCHANGED answer
    BY <1>5, ShowsNothing DEF uv__udp_send, UserMayCall, ctl
  <2>3. UNCHANGED result
    BY <1>5 DEF uv__udp_send, result, Shown
  <2>4. socket = "open" /\ UNCHANGED socket
    BY <2>2 DEF socket
  <2>5. Contract!ToSet(Outstanding) = ToSet(Outstanding)
    BY DEF Contract!ToSet, ToSet
  <2>6. Contract!Submit(r)
    BY <2>1, <2>2, <2>3, <2>4, <2>5 DEF Contract!Submit, answer, result, socket, Shown
  <2> QED
    BY <2>6 DEF Contract!Next
<1> QED
  BY <1>1, <1>2, <1>3, <1>4, <1>5 DEF User

(* Every behaviour of a socket is one the contract allows: requests are    *)
(* handed over and called back in the order of their submission, once      *)
(* each; uv_close fails the rest, and nothing comes after close_cb.        *)
THEOREM UdpImplementsContract == Spec => ImplementsContract
<1>1. Init => Contract!Init
  <2> SUFFICES ASSUME Init PROVE Contract!Init
    OBVIOUS
  <2>1. Outstanding = <<>>
    BY EmptySeq, ConcatEmptySeq DEF Init, Outstanding
  <2>2. result = [r \in Reqs |-> "none"]
    BY DEF Init, result, Shown, ToSet
  <2>3. answer = <<>> /\ socket = "open"
    BY DEF Init, answer, socket
  <2> QED
    BY <2>1, <2>2, <2>3 DEF Contract!Init, result, answer, socket, Shown
<1>2. TypeOK /\ UdpInv /\ [Next]_vars => [Contract!Next]_(Contract!vars)
  <2>1. Kernel \/ UNCHANGED vars => UNCHANGED <<handle, queues, ctl>>
    BY DEF vars, Kernel, Arrives, Refused, Drains
  <2>2. UNCHANGED <<handle, queues, ctl>> => UNCHANGED Contract!vars
    BY UdpStutters, ShowsNothing DEF handle, ctl
  <2> QED
    BY <2>1, <2>2, RefinesLoop, RefinesUser, UdpAssumption DEF Next
<1> QED
  BY <1>1, <1>2, UdpInvariant, PTL DEF Spec, ImplementsContract, Contract!Spec
=============================================================================
