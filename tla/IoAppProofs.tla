----------------------------- MODULE IoAppProofs -----------------------------
(***************************************************************************)
(* Pushing and sending on top of the connection objects, for any number of *)
(* connections, objects and messages: IoApp implements ConnLifecycle, and  *)
(* nothing of a connection is left for the next one that gets its object.  *)
(***************************************************************************)
EXTENDS IoAppLifecycle, IoAppStreamProofs, ConnLifecycleProofs

(* Every step of IoApp is one of ConnLifecycle or leaves its variables     *)
(* alone; the push callback is a pause of the event loop.                  *)
THEOREM LifecycleImplemented == Spec => ImplementsLifecycle
<1>1. Init => Conn!ConnInit
  BY DEF Init, ConnInit, Conn!ConnInit
<1>2. ASSUME [Next]_vars
      PROVE  [Conn!ConnNext]_(Conn!connVars)
  <2> USE DEF Conn!ConnNext
  <2>1. ASSUME NEW c \in Conns, Dispatch(c)
        PROVE  Conn!ConnNext
    BY <2>1, Zenon DEF Dispatch, Accept, Conn!Accept
  <2>2. CASE NewStart
    BY <2>2 DEF NewStart, StartNew, Conn!StartNew
  <2>3. ASSUME NEW o \in Objs, NewConnection(o)
        PROVE  Conn!ConnNext
    <3>1. Conn!CacheGet(o)
      BY <2>3, Zenon DEF NewConnection, InitConn, CacheGet, Ripe, Conn!CacheGet, Conn!Ripe
    <3> QED
      BY <2>3, <3>1, Zenon DEF NewConnection, InitConn, Conn!InitConn
  <2>4. CASE NewEnd
    BY <2>4, Zenon DEF NewEnd, EndNew, Conn!EndNew
  <2>5. CASE Iterate
    BY <2>5 DEF Iterate, NextIteration, Conn!NextIteration
  <2>6. ASSUME NEW o \in Objs, CloseConn(o)
        PROVE  Conn!ConnNext
    BY <2>6, Zenon DEF CloseConn, Destroy, Conn!CloseConn, Conn!Destroy
  <2>7. ASSUME NEW o \in Objs, RecvFails(o)
        PROVE  Conn!ConnNext
    BY <2>7, Zenon DEF RecvFails, ReadFails, Destroy, Conn!ReadFails, Conn!Destroy
  <2>8. ASSUME UNCHANGED connVars
        PROVE  UNCHANGED Conn!connVars
    BY <2>8, Zenon DEF connVars, Conn!connVars
  <2>9. CASE StartPush \/ EndPush
    BY <2>9, Zenon DEF StartPush, EndPush, Conn!connVars
  <2>10. ASSUME NEW o \in Objs, WriteSocket(o)
         PROVE  CloseConn(o) \/ UNCHANGED connVars
    BY <2>10, Zenon DEF WriteSocket
  <2>11. ASSUME \/ \E m \in Msgs : DispatchPush(m)
                \/ PushMessage
                \/ \E o \in Objs : ReceiveFrame(o)
                \/ UNCHANGED vars
         PROVE  UNCHANGED connVars
    BY <2>11, Zenon DEF DispatchPush, PushMessage, ReceiveFrame, vars
  <2> QED
    BY <1>2, <2>1, <2>2, <2>3, <2>4, <2>5, <2>6, <2>7, <2>8, <2>9, <2>10, <2>11, Zenon
    DEF Next, Shut
<1> QED
  BY <1>1, <1>2, PTL DEF Spec, ImplementsLifecycle

-----------------------------------------------------------------------------
(* The connection objects are sound in IoApp too. *)
LEMMA ConnPartKept ==
    ASSUME Leftover = FALSE, ConnPart, [Next]_vars
    PROVE  ConnPart'
<1> USE DEF ConnPart
<1>1. ASSUME NEW c \in Conns, Dispatch(c)
      PROVE  ConnPart'
  BY <1>1, AcceptKeeps, Zenon DEF Dispatch, Accept
<1>2. CASE NewStart
  BY <1>2, StartNewKeeps, Zenon DEF NewStart, StartNew
<1>3. ASSUME NEW o \in Objs, NewConnection(o)
      PROVE  ConnPart'
  BY <1>3, InitConnKeeps, Zenon DEF NewConnection, InitConn
<1>4. CASE NewEnd
  BY <1>4, EndNewKeeps, Zenon DEF NewEnd, EndNew
<1>5. CASE Iterate
  BY <1>5, NextIterationKeeps, Zenon DEF Iterate, NextIteration
<1>6. ASSUME NEW o \in Objs, CloseConn(o)
      PROVE  ConnPart'
  BY <1>6, DestroyKeeps, Zenon DEF CloseConn, Destroy
<1>7. ASSUME NEW o \in Objs, RecvFails(o)
      PROVE  ConnPart'
  BY <1>7, ReadFailsOnce, DestroyKeeps, Zenon DEF RecvFails, Destroy
<1>8. CASE UNCHANGED connVars
  BY <1>8, StutterKeeps, Zenon DEF connVars
<1>9. CASE StartPush \/ EndPush
  <2>1. /\ UNCHANGED <<sockQ, issued, list, register, connCount, cache, recycle,
                       loopCount, id, destroyed, newRan, closedNow>>
        /\ pc' \in {"loop", "push"} /\ list = <<>>
    BY <1>9, Zenon DEF StartPush, EndPush, ConnInv, Waiting
  <2>2. ConnTypeOK' /\ OneOwner' /\ OpenIsRegistered'
    BY <2>1, Zenon DEF ConnInv, ConnTypeOK, OneOwner, OpenIsRegistered, Online
  <2>3. Waiting'
    BY <2>1, Zenon DEF ConnInv, Waiting
  <2>4. ClosedNotRipe'
    BY <2>1, Zenon DEF ConnInv, ClosedNotRipe, Ripe
  <2> QED
    BY <2>1, <2>2, <2>3, <2>4 DEF ConnInv
<1>10. ASSUME NEW o \in Objs, WriteSocket(o)
       PROVE  CloseConn(o) \/ UNCHANGED connVars
  BY <1>10, Zenon DEF WriteSocket
<1>11. ASSUME \/ \E m \in Msgs : DispatchPush(m)
              \/ PushMessage
              \/ \E o \in Objs : ReceiveFrame(o)
              \/ UNCHANGED vars
       PROVE  UNCHANGED connVars
  BY <1>11, Zenon DEF DispatchPush, PushMessage, ReceiveFrame, vars
<1> QED
  BY <1>1, <1>2, <1>3, <1>4, <1>5, <1>6, <1>7, <1>8, <1>9, <1>10, <1>11, Zenon
  DEF Next, Shut

(* An object the cache returns serves no connection. *)
LEMMA TakenIsClosed ==
    ASSUME ConnInv, NEW o \in Objs, InitConn(o)
    PROVE  destroyed[o]
<1>1. \/ id[o] = NoConn
      \/ \E j \in DOMAIN cache : o = cache[j]
      \/ \E j \in DOMAIN recycle : o = recycle[j].obj
  BY CacheGetEffect, Zenon DEF InitConn, GetEffect
<1>2. ~destroyed[o] => id[o] # NoConn
  BY ConnAssumption, Zenon DEF ConnInv, Waiting, ConnTypeOK
<1> QED
  BY <1>1, <1>2 DEF ConnInv, OneOwner

-----------------------------------------------------------------------------
(* The invariant of RecycledClean holds at the start. *)
LEMMA InitiallyClean == Init => CleanInv
<1> SUFFICES ASSUME Init
             PROVE  CleanInv
  OBVIOUS
<1>1. ConnPart
  BY InitiallySound DEF Init, ConnPart, ConnInit
<1>2. PushTypes
  BY DEF Init, PushTypes
<1>3. \A o \in Objs, m \in Msgs : ~HeldBy(o, m)
  BY InEmpty, IoAppAssumption DEF Init, HeldBy
<1>4. HeldForOwner /\ SentToOwner /\ Queued
  BY <1>3, InEmpty DEF Init, HeldForOwner, SentToOwner, Queued
<1>5. StateEarned /\ FreshState
  BY Zenon DEF Init, StateEarned, FreshState
<1> QED
  BY <1>1, <1>2, <1>4, <1>5, Zenon DEF CleanInv

(* Every step keeps it. *)
LEMMA StaysClean ==
    ASSUME Leftover = FALSE, CleanInv, [Next]_vars
    PROVE  CleanInv'
<1>1. ConnPart'
  BY ConnPartKept, Zenon DEF CleanInv
<1>2. ASSUME UNCHANGED <<id, destroyed>>, UNCHANGED pushVars
      PROVE  CleanInv'
  BY <1>1, <1>2, Zenon
  DEF CleanInv, pushVars, PushTypes, HeldForOwner, HeldBy, SentToOwner, Queued,
      StateEarned, Switched, FreshState
<1>3. ASSUME \/ \E c \in Conns : Dispatch(c)
             \/ NewStart \/ NewEnd \/ Iterate \/ EndPush \/ UNCHANGED vars
      PROVE  UNCHANGED <<id, destroyed>> /\ UNCHANGED pushVars
  BY <1>3 DEF Dispatch, Accept, NewStart, StartNew, NewEnd, EndNew, Iterate,
              NextIteration, EndPush, vars, connVars
<1>4. ASSUME NEW o \in Objs, NewConnection(o)
      PROVE  CleanInv'
  <2>1. destroyed[o]
    BY <1>4, TakenIsClosed, Zenon DEF CleanInv, ConnPart, NewConnection
  <2> QED
    BY <1>1, <1>4, <2>1, NewKeepsClean, Zenon
<1>5. CASE PushMessage
  BY <1>1, <1>5, PushKeepsClean, Zenon
<1>6. CASE StartPush \/ \E m \in Msgs : DispatchPush(m)
  BY <1>1, <1>6, QueueKeepsClean, Zenon
<1>7. ASSUME NEW o \in Objs, ReceiveFrame(o)
      PROVE  CleanInv'
  BY <1>1, <1>7, FrameKeepsClean, Zenon
<1>8. ASSUME NEW o \in Objs, Shut(o) \/ RecvFails(o)
      PROVE  CleanInv'
  <2>1. Destroy(o, 1) /\ GiveUp(o)
    BY <1>8, ReadFailsOnce, Zenon DEF Shut, CloseConn, RecvFails
  <2> QED
    BY <1>1, <2>1, CloseKeepsClean, Zenon
<1>9. ASSUME NEW o \in Objs, WriteSocket(o)
      PROVE  CleanInv'
  <2>1. CASE CloseConn(o) /\ GiveUp(o)
    BY <1>1, <2>1, CloseKeepsClean, Zenon DEF CloseConn
  <2>2. ASSUME NEW n \in 0..(FrameLen - wpos[o]), Send(o, n),
               UNCHANGED <<connVars, dispatched, msgQ, batch, state, frames, collected>>
        PROVE  CleanInv'
    <3>1. UNCHANGED <<id, destroyed, dispatched, msgQ, batch, state, frames>>
      BY <2>2, Zenon DEF connVars
    <3>2. ~destroyed[o] /\ HasData(o)
      BY <1>9, Zenon DEF WriteSocket
    <3> QED
      BY <1>1, <2>2, <3>1, <3>2, SendKeepsClean
  <2> QED
    BY <1>9, <2>1, <2>2, Zenon DEF WriteSocket
<1> QED
  BY <1>2, <1>3, <1>4, <1>5, <1>6, <1>7, <1>8, <1>9 DEF Next

(* Nothing of a connection, messages or session state, is left for the     *)
(* next one that gets its object, and what is sent on a connection was for *)
(* it: for any number of connections, objects and messages, as long as no  *)
(* read fails behind a partial frame.                                      *)
THEOREM RecycledObjectsClean ==
    ASSUME Leftover = FALSE
    PROVE  Spec => []RecycledClean
<1>clean. CleanInv => RecycledClean
  BY Zenon DEF CleanInv, RecycledClean, NoCrossDelivery, HeldForOwner, HeldBy, SentToOwner
<1> QED
  BY InitiallyClean, StaysClean, <1>clean, PTL DEF Spec

-----------------------------------------------------------------------------
(* The invariant of the streams is kept by every step. *)
LEMMA StreamsKept ==
    ASSUME Leftover = FALSE, StreamInv, [Next]_vars
    PROVE  StreamInv'
<1>1. CleanInv'
  BY StaysClean, Zenon DEF StreamInv
<1>2. ASSUME NEW o \in Objs, NewConnection(o)
      PROVE  StreamInv'
  <2>1. destroyed[o]
    BY <1>2, TakenIsClosed, Zenon DEF StreamInv, CleanInv, ConnPart, NewConnection
  <2> QED
    BY <1>1, <1>2, <2>1, NewKeepsStream
<1>3. CASE PushMessage
  BY <1>1, <1>3, PushKeepsStream
<1>4. ASSUME NEW o \in Objs, Shut(o) \/ RecvFails(o)
      PROVE  StreamInv'
  <2>1. ~destroyed[o] /\ Destroy(o, 1) /\ GiveUp(o)
    BY <1>4, ReadFailsOnce, Zenon DEF Shut, CloseConn, RecvFails, ReadFails
  <2> QED
    BY <1>1, <2>1, CloseKeepsStream, Zenon
<1>5. ASSUME NEW o \in Objs, WriteSocket(o)
      PROVE  StreamInv'
  <2>1. ~destroyed[o] /\ HasData(o)
    BY <1>5, Zenon DEF WriteSocket
  <2>2. CASE CloseConn(o) /\ GiveUp(o)
    BY <1>1, <2>1, <2>2, CloseKeepsStream, Zenon DEF CloseConn
  <2>3. ASSUME NEW n \in 0..(FrameLen - wpos[o]), Send(o, n),
               UNCHANGED <<connVars, dispatched, msgQ, batch, state, frames, collected>>
        PROVE  StreamInv'
    BY <1>1, <2>1, <2>3, SendKeepsStream, Zenon
  <2> QED
    BY <1>5, <2>2, <2>3 DEF WriteSocket
<1>6. CASE OtherStep
  BY <1>1, <1>6, OtherKeepsStream, Zenon
<1> QED
  BY <1>2, <1>3, <1>4, <1>5, <1>6 DEF Next, OtherStep

(* The invariant holds in every state. *)
LEMMA StreamsHeld ==
    ASSUME Leftover = FALSE
    PROVE  Spec => []StreamInv
  BY InitiallyClean, InitialStreams, StreamsKept, PTL DEF Spec

(* What a client reads is whole frames, each once and in the order in      *)
(* which the router dispatched the messages, however often send() takes a  *)
(* part, and the write event is registered exactly while its object holds  *)
(* more; for any number of connections, objects and messages and any frame *)
(* length.                                                                 *)
THEOREM StreamsStayIntact ==
    ASSUME Leftover = FALSE
    PROVE  Spec => []StreamIntact
<1>1. StreamInv => StreamIntact
  <2> SUFFICES ASSUME StreamInv
               PROVE  StreamIntact
    OBVIOUS
  <2>1. TypeOK
    BY Zenon DEF StreamInv, StreamTypes, CleanInv, PushTypes, ConnPart, ConnInv, TypeOK
  <2>2. SendOrder
    <3> SUFFICES ASSUME NEW c \in Conns, NEW i \in DOMAIN wire[c], NEW j \in DOMAIN wire[c],
                        NEW p \in DOMAIN dispatched, NEW q \in DOMAIN dispatched,
                        i < j, wire[c][i][1] = dispatched[p], wire[c][j][1] = dispatched[q]
                 PROVE  p < q \/ (p = q /\ wire[c][i][3] < FrameLen)
      BY DEF SendOrder
    <3>1. dispatched \in Seq(Msgs) /\ p \in Nat /\ q \in Nat
      BY DEF StreamInv, CleanInv, PushTypes
    <3>2. CASE dispatched[p] = dispatched[q] /\ wire[c][i][3] < FrameLen
      BY <3>1, <3>2 DEF StreamInv, OrderInv, DispatchedOnce
    <3>3. CASE Before(dispatched, dispatched[p], dispatched[q])
      <4>1. PICK a, b \in DOMAIN dispatched :
               a < b /\ dispatched[a] = dispatched[p] /\ dispatched[b] = dispatched[q]
        BY <3>3, Zenon DEF Before
      <4>2. a = p /\ b = q
        BY <4>1 DEF StreamInv, OrderInv, DispatchedOnce
      <4> QED
        BY <3>1, <4>1, <4>2
    <3> QED
      BY <3>2, <3>3, Zenon DEF StreamInv, WireOrder
  <2> QED
    BY <2>1, <2>2, Zenon DEF StreamInv, StreamIntact
<1> QED
  BY StreamsHeld, <1>1, PTL

(* A message that was sent completely is never given to the collector,     *)
(* which would route it a second time, and no message is given to it       *)
(* twice, although an object takes its messages from one list and closing  *)
(* puts the current one back.  One that was sent in part may be given to   *)
(* it.                                                                     *)
THEOREM CollectedAreUnsent ==
    ASSUME Leftover = FALSE
    PROVE  Spec => []NotSentAndCollected
<1>1. StreamInv => NotSentAndCollected
  <2> SUFFICES ASSUME StreamInv
               PROVE  NotSentAndCollected
    OBVIOUS
  <2>1. \A i \in DOMAIN collected : collected[i] \in Msgs /\ In(collected[i], collected)
    BY DEF StreamInv, StreamTypes, In
  <2> QED
    BY <2>1, Zenon DEF StreamInv, CollectedOnce, NotSentAndCollected
<1> QED
  BY StreamsHeld, <1>1, PTL
=============================================================================
