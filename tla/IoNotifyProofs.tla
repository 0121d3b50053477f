--------------------------- MODULE IoNotifyProofs ---------------------------
(***************************************************************************)
(* Proofs about the wakeup protocol of an IO thread, for every queue       *)
(* length, read buffer and socketpair capacity.                            *)
(***************************************************************************)
EXTENDS IoNotify, TLAPS

(* The handler always asks for at least one byte, and for no more than one *)
(* byte per element it took unless it took none.                           *)
LEMMA WantBounds ==
    ASSUME NEW n \in Nat
    PROVE  /\ Want(n) \in Nat \ {0}
           /\ n > 0 => Want(n) <= n
           /\ n = 0 => Want(n) = 1
           /\ n > 0 /\ n <= ReadMax => Want(n) = n
  BY IoNotifyAssumption DEF Want

(* What the handler takes from the socketpair is there: the byte count     *)
(* stays a natural number when it reads.                                   *)
LEMMA ReadTypes ==
    ASSUME TypeOK, ReadBytes
    PROVE  TypeOK'
<1>1. Want(count) \in Nat
  BY WantBounds DEF TypeOK
<1>2. bytes' \in Nat
  BY <1>1 DEF TypeOK, ReadBytes
<1> QED
  BY <1>2 DEF TypeOK, ReadBytes

(* Every step of the dispatcher and of the IO thread keeps the variables   *)
(* in their types; in particular the byte count never goes negative.       *)
THEOREM TypeCorrect == Spec => []TypeOK
<1>init. Init => TypeOK
  BY DEF Init, TypeOK
<1>dispatcher. ASSUME TypeOK, Notify \/ \E n \in Batches : Put(n)
               PROVE  TypeOK'
  BY <1>dispatcher, IoNotifyAssumption DEF TypeOK, Notify, Put
<1>handler. ASSUME TypeOK, Take \/ ReadBytes
            PROVE  TypeOK'
  BY <1>handler, ReadTypes DEF TypeOK, Take
<1>stutter. TypeOK /\ UNCHANGED vars => TypeOK'
  BY DEF TypeOK, vars
<1>step. TypeOK /\ [Next]_vars => TypeOK'
  BY <1>dispatcher, <1>handler, <1>stutter DEF Next
<1> QED
  BY <1>init, <1>step, PTL DEF Spec

(* The dispatcher, and a step that changes nothing, leave the bytes that   *)
(* the running handler will take as they are.                              *)
LEMMA DispatcherCover ==
    ASSUME TypeOK, Notify \/ UNCHANGED vars \/ \E n \in Batches : Put(n)
    PROVE  Cover \in Nat /\ Cover' = Cover
  BY WantBounds DEF TypeOK, Notify, Put, vars, Cover

(* Taking the queue commits the handler to the bytes it will ask for, and  *)
(* reading them ends that.                                                 *)
LEMMA HandlerCover ==
    ASSUME TypeOK
    PROVE  /\ Take => Cover = 0 /\ Cover' = Want(queue)
           /\ ReadBytes => Cover = Want(count) /\ Cover' = 0
           /\ Want(queue) \in Nat
           /\ Want(count) \in Nat
  BY WantBounds DEF TypeOK, Take, ReadBytes, Cover

(* On the socket channel, where each byte announces one element, the bytes *)
(* written or owed always cover the queued elements and the bytes the      *)
(* running handler may take.                                               *)
THEOREM BytesCover ==
    ASSUME Batches = {1}
    PROVE  Spec => []BytesCoverQueue
<1>init. Init => BytesCoverQueue
  BY DEF Init, BytesCoverQueue, Cover
<1>step. ASSUME TypeOK, BytesCoverQueue, [Next]_vars
         PROVE  BytesCoverQueue'
  <2> USE <1>step DEF TypeOK, BytesCoverQueue
  <2>put. CASE Put(1)
    BY <2>put, DispatcherCover DEF Put
  <2>notify. CASE Notify
    BY <2>notify, DispatcherCover DEF Notify
  <2>take. CASE Take
    <3>1. bytes + owed >= Want(queue)
      BY <2>take, HandlerCover, WantBounds DEF Take
    <3> QED
      BY <2>take, <3>1, HandlerCover DEF Take
  <2>read. CASE ReadBytes
    BY <2>read, HandlerCover DEF ReadBytes
  <2>stutter. CASE UNCHANGED vars
    BY <2>stutter, DispatcherCover DEF vars
  <2> QED
    BY <2>put, <2>notify, <2>take, <2>read, <2>stutter DEF Next
<1> QED
  BY <1>init, <1>step, TypeCorrect, PTL DEF Spec

(* On the socket channel an accepted socket is never left in the queue     *)
(* with the IO thread asleep and no wakeup on its way.                     *)
THEOREM SocketNeverStranded ==
    ASSUME Batches = {1}
    PROVE  Spec => []NoLostWakeup
<1>1. TypeOK /\ BytesCoverQueue => NoLostWakeup
  BY DEF TypeOK, BytesCoverQueue, NoLostWakeup, Cover
<1>2. QED
  BY <1>1, TypeCorrect, BytesCover, PTL

(* What the IO thread takes fits the bound on the queue. *)
LEMMA QueueBounded == Spec => [](queue <= MaxQueue /\ count <= MaxQueue)
<1> DEFINE Bounded == queue <= MaxQueue /\ count <= MaxQueue
<1>1. Init => Bounded
  BY IoNotifyAssumption DEF Init
<1>2. TypeOK /\ Bounded /\ [Next]_vars => Bounded'
  BY IoNotifyAssumption DEF TypeOK, Next, Put, Notify, Take, ReadBytes, vars
<1>3. QED
  BY <1>1, <1>2, TypeCorrect, PTL DEF Spec

(* On the socket channel, if the queue never outgrows the read buffer, at  *)
(* most one byte is unaccounted for: wakeups do not pile up.               *)
THEOREM NoByteBuildup ==
    ASSUME Batches = {1}, MaxQueue <= ReadMax
    PROVE  Spec => []AtMostOneSpareByte
<1> DEFINE Bounded == queue <= MaxQueue /\ count <= MaxQueue
<1>init. Init => AtMostOneSpareByte
  BY DEF Init, AtMostOneSpareByte, Cover
<1>step. ASSUME TypeOK, Bounded, AtMostOneSpareByte, [Next]_vars
         PROVE  AtMostOneSpareByte'
  <2> USE <1>step DEF TypeOK, AtMostOneSpareByte
  <2>put. CASE Put(1)
    BY <2>put, DispatcherCover DEF Put
  <2>notify. CASE Notify
    BY <2>notify, DispatcherCover DEF Notify
  <2>take. CASE Take
    <3>1. queue <= ReadMax
      BY IoNotifyAssumption
    <3>2. queue <= Want(queue)
      BY <3>1, WantBounds
    <3> QED
      BY <2>take, <3>2, HandlerCover DEF Take
  <2>read. CASE ReadBytes
    BY <2>read, HandlerCover DEF ReadBytes
  <2>stutter. CASE UNCHANGED vars
    BY <2>stutter, DispatcherCover DEF vars
  <2> QED
    BY <2>put, <2>notify, <2>take, <2>read, <2>stutter DEF Next
<1> QED
  BY <1>init, <1>step, TypeCorrect, QueueBounded, PTL DEF Spec
=============================================================================
