-------------------------- MODULE IoAppStreamProofs --------------------------
(***************************************************************************)
(* The inductive invariants of the push protocol, the lemmas about them,   *)
(* and that every step keeps them, one lemma per step, for any number of   *)
(* connections, objects and messages: nothing of a connection is left for  *)
(* the next one that gets its object; what is put on the wire is whole     *)
(* frames in the order of dispatching, and what is sent is not collected.  *)
(***************************************************************************)
EXTENDS IoApp, TLAPS

(* The invariant of RecycledClean.  An object that holds a message serves  *)
(* the connection the message is for; since a closed object holds none, an *)
(* object taken from the cache is clean.                                   *)
Pieces == Msgs \X Int \X Int

PushTypes ==
    /\ dispatched \in Seq(Msgs)
    /\ msgQ \in Seq(Msgs)
    /\ batch \in Seq(Msgs)
    /\ plist \in [Objs -> Seq(Msgs)]
    /\ cur \in [Objs -> Msgs \cup {NoMsg}]
    /\ wpos \in [Objs -> Int]
    /\ state \in [Objs -> {0, 1}]
    /\ wire \in [Conns -> Seq(Pieces)]

HeldBy(o, m) == cur[o] = m \/ In(m, plist[o])

HeldForOwner ==
    \A o \in Objs, m \in Msgs : HeldBy(o, m) => To[m] = id[o] /\ ~destroyed[o]

SentToOwner == \A c \in Conns : \A i \in DOMAIN wire[c] : To[wire[c][i][1]] = c

(* A message has switched the state of connection c, or is about to. *)
Switched(c) == \E m \in Switching : In(m, dispatched) /\ To[m] = c

StateEarned == \A o \in Objs : ~destroyed[o] /\ state[o] # 0 => Switched(id[o])

Queued == \A m \in Msgs : In(m, msgQ) \/ In(m, batch) => In(m, dispatched)

ConnPart == ConnInv /\ (pc = "push" => list = <<>>)

CleanInv ==
    /\ ConnPart
    /\ PushTypes
    /\ HeldForOwner
    /\ SentToOwner
    /\ Queued
    /\ StateEarned
    /\ FreshState

(* The invariant of StreamIntact and NotSentAndCollected.  A message goes  *)
(* from the queue to the batch, to a push list and to the wire, or to the  *)
(* collector, and never back.  Before(d, x, y): d holds x before y.        *)
Before(d, x, y) == \E p, q \in DOMAIN d : p < q /\ d[p] = x /\ d[q] = y
Sorted(d, s) == \A i, j \in DOMAIN s : i < j => Before(d, s[i], s[j])

Waits(m) == In(m, msgQ) \/ In(m, batch)
OnWire(c, m) == \E i \in DOMAIN wire[c] : wire[c][i][1] = m
Past(m) ==
    (\E o \in Objs : HeldBy(o, m)) \/ (\E c \in Conns : OnWire(c, m)) \/ In(m, collected)

DispatchedOnce ==
    \A i, j \in DOMAIN dispatched : dispatched[i] = dispatched[j] => i = j

(* The queues are in the order of dispatching, one behind the other. *)
QueueOrder ==
    /\ Sorted(dispatched, msgQ) /\ Sorted(dispatched, batch)
    /\ \A x, y \in Msgs : In(x, batch) /\ In(y, msgQ) => Before(dispatched, x, y)
    /\ \A x, y \in Msgs : Past(x) /\ Waits(y) => Before(dispatched, x, y)

PastDispatched == \A m \in Msgs : Past(m) => In(m, dispatched)

(* So is what an object holds. *)
HeldOrder ==
    \A o \in Objs :
        /\ Sorted(dispatched, plist[o])
        /\ \A m \in Msgs : cur[o] # NoMsg /\ In(m, plist[o]) => Before(dispatched, cur[o], m)

OrderInv == DispatchedOnce /\ QueueOrder /\ PastDispatched /\ HeldOrder

StreamTypes ==
    /\ wpos \in [Objs -> 0..(FrameLen - 1)]
    /\ armed \in [Objs -> BOOLEAN]
    /\ frames \subseteq Conns \X {0, 1}
    /\ wire \in [Conns -> Seq(Msgs \X (0..FrameLen) \X (0..FrameLen))]
    /\ collected \in Seq(Msgs)

WireOrder ==
    \A c \in Conns : \A i, j \in DOMAIN wire[c] :
        i < j => \/ wire[c][i][1] = wire[c][j][1] /\ wire[c][i][3] < FrameLen
                 \/ Before(dispatched, wire[c][i][1], wire[c][j][1])

(* The write position of an object goes on where the stream of its         *)
(* connection ends.                                                        *)
GoesOn(o) ==
    LET w == wire[id[o]] IN
    /\ w = <<>> => wpos[o] = 0
    /\ w # <<>> =>
          \/ w[Len(w)][3] = FrameLen /\ wpos[o] = 0
          \/ /\ w[Len(w)][3] < FrameLen
             /\ cur[o] = w[Len(w)][1] /\ wpos[o] = w[Len(w)][3]

(* What an object holds comes behind what was sent; only a part of the     *)
(* current message may have been sent.                                     *)
HeldBehindSent(o) ==
    \A m \in Msgs : HeldBy(o, m) =>
        \A i \in DOMAIN wire[id[o]] :
            \/ Before(dispatched, wire[id[o]][i][1], m)
            \/ wire[id[o]][i][1] = m /\ cur[o] = m /\ wire[id[o]][i][3] < FrameLen

Continues ==
    /\ \A o \in Objs : ~destroyed[o] => GoesOn(o) /\ HeldBehindSent(o)
    /\ \A o \in Objs : destroyed[o] => wpos[o] = 0

(* Nothing was sent on a connection that has no object yet. *)
UnusedWire ==
    \A c \in Conns : wire[c] # <<>> => c \in issued /\ ~In(c, sockQ) /\ ~In(c, list)

CollectedOnce ==
    /\ \A i, j \in DOMAIN collected : collected[i] = collected[j] => i = j
    /\ \A m \in Msgs : In(m, collected) =>
          /\ \A o \in Objs : ~HeldBy(o, m)
          /\ \A c \in Conns : m \notin Sent(c)

StreamInv ==
    /\ CleanInv
    /\ OrderInv
    /\ StreamTypes
    /\ ArmedIffData
    /\ WholeFrames
    /\ WireOrder
    /\ Continues
    /\ UnusedWire
    /\ CollectedOnce

(* A part of a frame as writeSocket leaves it on the wire. *)
LEMMA PieceIs ==
    ASSUME NEW k \in Msgs, NEW a \in Int, NEW b \in Int
    PROVE  <<k, a, b>> \in Pieces /\ <<k, a, b>>[1] = k
  BY DEF Pieces

-----------------------------------------------------------------------------
(* What is in a sequence after Append. *)
LEMMA InAppend ==
    ASSUME NEW S, NEW s \in Seq(S), NEW x \in S, NEW m
    PROVE  In(m, Append(s, x)) <=> In(m, s) \/ m = x
<1>1. DOMAIN s = 1..Len(s) /\ Len(s) \in Nat /\ DOMAIN Append(s, x) = 1..(Len(s) + 1)
  OBVIOUS
<1>2. /\ DOMAIN Append(s, x) = DOMAIN s \cup {Len(s) + 1}
      /\ \A i \in DOMAIN s : Append(s, x)[i] = s[i]
      /\ Append(s, x)[Len(s) + 1] = x
  BY <1>1
<1> QED
  BY <1>2 DEF In

(* The head of a sequence is in it, and so is all that is in its tail. *)
LEMMA InTail ==
    ASSUME NEW S, NEW s \in Seq(S), s # <<>>
    PROVE  /\ Head(s) \in S /\ In(Head(s), s) /\ Tail(s) \in Seq(S)
           /\ \A m : In(m, Tail(s)) => In(m, s)
<1>1. Head(s) \in S /\ Tail(s) \in Seq(S) /\ 1 \in DOMAIN s /\ Head(s) = s[1]
  OBVIOUS
<1>2. \A i \in DOMAIN Tail(s) : i + 1 \in DOMAIN s /\ Tail(s)[i] = s[i + 1]
  OBVIOUS
<1> QED
  BY <1>1, <1>2 DEF In

(* Nothing is in the empty sequence. *)
LEMMA InEmpty == \A m : ~In(m, <<>>)
  BY DEF In

(* The effect of the steps on what an object holds.  Sending takes from    *)
(* it, and what is sent is held.                                           *)
LEMMA SendTakes ==
    ASSUME PushTypes, NEW o \in Objs, HasData(o), NEW n \in Int, Send(o, n)
    PROVE  /\ Current(o) \in Msgs /\ HeldBy(o, Current(o))
           /\ plist' \in [Objs -> Seq(Msgs)]
           /\ cur' \in [Objs -> Msgs \cup {NoMsg}]
           /\ \A p \in Objs, m \in Msgs : HeldBy(p, m)' => HeldBy(p, m)
<1> USE DEF PushTypes
<1>1. /\ Current(o) \in Msgs /\ HeldBy(o, Current(o))
      /\ Behind(o) \in Seq(Msgs)
      /\ \A m : In(m, Behind(o)) => In(m, plist[o])
  <2>1. CASE cur[o] # NoMsg
    BY <2>1 DEF Current, Behind, HeldBy
  <2>2. CASE cur[o] = NoMsg
    <3>1. plist[o] \in Seq(Msgs) /\ plist[o] # <<>>
      BY <2>2 DEF HasData
    <3> QED
      BY <2>2, <3>1, InTail DEF Current, Behind, HeldBy
  <2> QED
    BY <2>1, <2>2
<1>2. PICK x \in Msgs \cup {NoMsg}, s \in Seq(Msgs) :
          /\ cur' = [cur EXCEPT ![o] = x]
          /\ plist' = [plist EXCEPT ![o] = s]
          /\ x \in Msgs => HeldBy(o, x)
          /\ \A m : In(m, s) => In(m, plist[o])
  <2>1. CASE /\ cur' = [cur EXCEPT ![o] = Current(o)]
             /\ plist' = [plist EXCEPT ![o] = Behind(o)]
    BY <1>1, <2>1, Zenon
  <2>2. CASE /\ Behind(o) # <<>>
             /\ cur' = [cur EXCEPT ![o] = Head(Behind(o))]
             /\ plist' = [plist EXCEPT ![o] = Tail(Behind(o))]
    <3>1. /\ Head(Behind(o)) \in Msgs /\ In(Head(Behind(o)), Behind(o))
          /\ Tail(Behind(o)) \in Seq(Msgs)
          /\ \A m : In(m, Tail(Behind(o))) => In(m, Behind(o))
      BY <1>1, <2>2, InTail
    <3>2. HeldBy(o, Head(Behind(o)))
      BY <1>1, <3>1 DEF HeldBy
    <3> QED
      BY <1>1, <2>2, <3>1, <3>2, Zenon
  <2>3. CASE /\ cur' = [cur EXCEPT ![o] = NoMsg]
             /\ plist' = [plist EXCEPT ![o] = <<>>]
    <3>1. <<>> \in Seq(Msgs) /\ NoMsg \notin Msgs
      BY IoAppAssumption
    <3> QED
      BY <2>3, <3>1, InEmpty, Zenon
  <2> QED
    BY <2>1, <2>2, <2>3 DEF Send
<1>3. ASSUME NEW p \in Objs, NEW m \in Msgs, HeldBy(p, m)'
      PROVE  HeldBy(p, m)
  <2>1. CASE p = o
    BY <1>2, <1>3, <2>1 DEF HeldBy
  <2>2. CASE p # o
    BY <1>2, <1>3, <2>2 DEF HeldBy
  <2> QED
    BY <2>1, <2>2
<1> QED
  BY <1>1, <1>2, <1>3

(* Closing leaves the object with nothing. *)
LEMMA GiveUpEmpties ==
    ASSUME PushTypes, NEW o \in Objs, GiveUp(o)
    PROVE  /\ PushTypes'
           /\ \A m \in Msgs : ~HeldBy(o, m)'
           /\ \A p \in Objs, m \in Msgs : HeldBy(p, m)' => HeldBy(p, m)
           /\ UNCHANGED <<dispatched, msgQ, batch, state, frames, wire>>
<1> USE DEF PushTypes
<1>1. /\ cur' = [cur EXCEPT ![o] = NoMsg] /\ plist' = [plist EXCEPT ![o] = <<>>]
      /\ wpos' = [wpos EXCEPT ![o] = 0]
      /\ UNCHANGED <<dispatched, msgQ, batch, state, frames, wire>>
  BY DEF GiveUp
<1>2. PushTypes'
  BY <1>1
<1>3. ASSUME NEW m \in Msgs
      PROVE  ~HeldBy(o, m)'
  BY <1>1, InEmpty, IoAppAssumption DEF HeldBy
<1>4. ASSUME NEW p \in Objs, NEW m \in Msgs, HeldBy(p, m)'
      PROVE  HeldBy(p, m)
  <2>1. p # o
    BY <1>3, <1>4
  <2> QED
    BY <1>1, <1>4, <2>1 DEF HeldBy
<1> QED
  BY <1>1, <1>2, <1>3, <1>4

(* The order of dispatching is not disturbed by what is dispatched later,  *)
(* which comes behind all that was.                                        *)
LEMMA BeforeAppend ==
    ASSUME NEW d \in Seq(Msgs), NEW m \in Msgs
    PROVE  /\ \A x, y : Before(d, x, y) => Before(Append(d, m), x, y)
           /\ \A x : In(x, d) => Before(Append(d, m), x, m)
<1> DEFINE e == Append(d, m)
<1>1. /\ DOMAIN e = 1..(Len(d) + 1) /\ DOMAIN d = 1..Len(d) /\ Len(d) \in Nat
      /\ \A i \in 1..Len(d) : e[i] = d[i]
      /\ e[Len(d) + 1] = m
  OBVIOUS
<1> HIDE DEF e
<1>2. \A i \in DOMAIN d : i \in DOMAIN e /\ e[i] = d[i] /\ i < Len(d) + 1
  BY <1>1
<1>3. ASSUME NEW x, In(x, d)
      PROVE  Before(e, x, m)
  <2>1. PICK i \in DOMAIN d : d[i] = x
    BY <1>3 DEF In
  <2> QED
    BY <1>1, <1>2, <2>1 DEF Before
<1>4. \A x, y : Before(d, x, y) => Before(e, x, y)
  BY <1>2 DEF Before
<1> QED
  BY <1>3, <1>4 DEF e

(* A message is not before itself. *)
LEMMA BeforeStrict ==
    ASSUME dispatched \in Seq(Msgs), DispatchedOnce
    PROVE  \A x, y : Before(dispatched, x, y) => x # y
<1> SUFFICES ASSUME NEW x, Before(dispatched, x, x)
             PROVE  FALSE
  OBVIOUS
<1>1. PICK p, q \in DOMAIN dispatched : p < q /\ dispatched[p] = x /\ dispatched[q] = x
  BY DEF Before
<1>2. p = q
  BY <1>1 DEF DispatchedOnce
<1>3. p \in Nat
  OBVIOUS
<1> QED
  BY <1>1, <1>2, <1>3

(* Taking the first of a sorted sequence, and putting one behind it. *)
LEMMA SortedTail ==
    ASSUME NEW d, NEW s \in Seq(Msgs), s # <<>>, Sorted(d, s)
    PROVE  /\ Sorted(d, Tail(s))
           /\ \A m : In(m, Tail(s)) => Before(d, Head(s), m)
<1>1. /\ \A i \in DOMAIN Tail(s) : i + 1 \in DOMAIN s /\ Tail(s)[i] = s[i + 1] /\ 1 < i + 1
      /\ 1 \in DOMAIN s /\ Head(s) = s[1]
  OBVIOUS
<1>2. \A i, j \in DOMAIN Tail(s) : i < j => i + 1 < j + 1
  OBVIOUS
<1> QED
  BY <1>1, <1>2 DEF Sorted, In

(* A message behind all the others is put at the end of an ordered list. *)
LEMMA SortedAppend ==
    ASSUME NEW d, NEW s \in Seq(Msgs), NEW x \in Msgs, Sorted(d, s),
           \A m \in Msgs : In(m, s) => Before(d, m, x)
    PROVE  Sorted(d, Append(s, x))
<1> DEFINE e == Append(s, x)
<1>1. /\ DOMAIN e = 1..(Len(s) + 1) /\ DOMAIN s = 1..Len(s) /\ Len(s) \in Nat
      /\ \A i \in 1..Len(s) : e[i] = s[i]
      /\ e[Len(s) + 1] = x
  OBVIOUS
<1>2. \A i \in DOMAIN s : s[i] \in Msgs
  OBVIOUS
<1> HIDE DEF e
<1> SUFFICES ASSUME NEW i \in DOMAIN e, NEW j \in DOMAIN e, i < j
             PROVE  Before(d, e[i], e[j])
  BY DEF Sorted, e
<1>3. i \in DOMAIN s
  BY <1>1
<1>4. CASE j \in DOMAIN s
  BY <1>1, <1>3, <1>4 DEF Sorted
<1>5. CASE j = Len(s) + 1
  BY <1>1, <1>2, <1>3, <1>5 DEF In
<1> QED
  BY <1>1, <1>4, <1>5

(* A step that takes nothing from the queues and hands out nothing. *)
LEMMA PastKeepsOrder ==
    ASSUME OrderInv, UNCHANGED <<dispatched, msgQ, batch>>, HeldOrder',
           \A m \in Msgs : Past(m)' => Past(m)
    PROVE  OrderInv'
<1>1. DispatchedOnce' /\ PastDispatched'
  BY DEF OrderInv, DispatchedOnce, PastDispatched
<1>2. QueueOrder'
  BY DEF OrderInv, QueueOrder, Waits
<1> QED
  BY <1>1, <1>2 DEF OrderInv

(* The router dispatches a message, and push takes the queue. *)
LEMMA QueueKeepsOrder ==
    ASSUME CleanInv, OrderInv, StartPush \/ \E m \in Msgs : DispatchPush(m)
    PROVE  OrderInv'
<1> USE DEF CleanInv, PushTypes
<1>1. UNCHANGED <<plist, cur, wire, collected>>
  BY DEF StartPush, DispatchPush
<1>2. \A m \in Msgs : Past(m)' <=> Past(m)
  BY <1>1 DEF Past, HeldBy, OnWire
<1>3. CASE StartPush
  <2>1. batch' = msgQ /\ msgQ' = <<>> /\ dispatched' = dispatched
    BY <1>3 DEF StartPush
  <2>2. DispatchedOnce' /\ PastDispatched' /\ HeldOrder'
    BY <1>1, <1>2, <2>1 DEF OrderInv, DispatchedOnce, PastDispatched, HeldOrder
  <2>3. QueueOrder'
    <3>1. Sorted(dispatched', msgQ') /\ Sorted(dispatched', batch')
      BY <2>1 DEF OrderInv, QueueOrder, Sorted
    <3>2. \A m \in Msgs : ~In(m, msgQ') /\ (In(m, batch') => Waits(m))
      BY <2>1, InEmpty DEF Waits
    <3> QED
      BY <1>2, <2>1, <3>1, <3>2 DEF OrderInv, QueueOrder, Waits
  <2> QED
    BY <2>2, <2>3 DEF OrderInv
<1>4. ASSUME NEW m \in Msgs, DispatchPush(m)
      PROVE  OrderInv'
  <2>1. /\ dispatched' = Append(dispatched, m) /\ msgQ' = Append(msgQ, m)
        /\ batch' = batch /\ ~In(m, dispatched)
    BY <1>4 DEF DispatchPush
  <2>2. /\ \A x, y : Before(dispatched, x, y) => Before(dispatched', x, y)
        /\ \A x : In(x, dispatched) => Before(dispatched', x, m)
    BY <2>1, BeforeAppend
  <2>3. /\ \A x : In(x, dispatched') <=> In(x, dispatched) \/ x = m
        /\ \A x : In(x, msgQ') <=> In(x, msgQ) \/ x = m
    BY <2>1, InAppend
  <2>4. \A s : Sorted(dispatched, s) => Sorted(dispatched', s)
    BY <2>2 DEF Sorted
  <2>5. DispatchedOnce'
    <3>1. \A i \in DOMAIN dispatched' :
             \/ i \in DOMAIN dispatched /\ dispatched'[i] = dispatched[i]
             \/ i = Len(dispatched) + 1 /\ dispatched'[i] = m
      BY <2>1
    <3> QED
      BY <2>1, <3>1 DEF OrderInv, DispatchedOnce, In
  <2>6. PastDispatched' /\ HeldOrder'
    BY <1>1, <1>2, <2>2, <2>3, <2>4 DEF OrderInv, PastDispatched, HeldOrder
  <2>7. QueueOrder'
    <3>1. \A x \in Msgs : Waits(x) \/ Past(x) => Before(dispatched', x, m)
      BY <2>2 DEF Waits, Queued, OrderInv, PastDispatched
    <3>2. Sorted(dispatched', msgQ')
      BY <2>1, <2>4, <3>1, SortedAppend DEF OrderInv, QueueOrder, Waits
    <3>3. Sorted(dispatched', batch')
      BY <2>1, <2>4 DEF OrderInv, QueueOrder
    <3>4. \A x, y \in Msgs : In(x, batch') /\ In(y, msgQ') => Before(dispatched', x, y)
      BY <2>1, <2>2, <2>3, <3>1 DEF OrderInv, QueueOrder, Waits
    <3>5. \A x, y \in Msgs : Past(x)' /\ Waits(y)' => Before(dispatched', x, y)
      BY <1>2, <2>1, <2>2, <2>3, <3>1, Zenon DEF OrderInv, QueueOrder, Waits
    <3> QED
      BY <3>2, <3>3, <3>4, <3>5 DEF QueueOrder
  <2> QED
    BY <2>5, <2>6, <2>7 DEF OrderInv
<1> QED
  BY <1>3, <1>4

(* push hands out one message, which comes behind all that were. *)
LEMMA PushKeepsOrder ==
    ASSUME CleanInv, OrderInv, collected \in Seq(Msgs), PushMessage
    PROVE  OrderInv'
<1> USE DEF CleanInv, PushTypes
<1> DEFINE m == Head(batch)
           o == register[To[m]]
<1>1. /\ m \in Msgs /\ In(m, batch) /\ batch' = Tail(batch) /\ batch' \in Seq(Msgs)
      /\ \A x : In(x, batch') => In(x, batch)
  BY InTail, Zenon DEF PushMessage
<1>2. /\ UNCHANGED <<dispatched, msgQ, cur, wire>>
      /\ \/ /\ o # NoObj /\ collected' = collected
            /\ plist' = [plist EXCEPT ![o] = Append(plist[o], m)]
         \/ plist' = plist /\ collected' = Append(collected, m)
  BY Zenon DEF PushMessage, PushPut
<1>3. To[m] \in Conns
  BY <1>1, IoAppAssumption
<1>4. o # NoObj => o \in Objs
  BY <1>3 DEF ConnPart, ConnInv, ConnTypeOK
<1>5. Sorted(dispatched, batch') /\ \A x : In(x, batch') => Before(dispatched, m, x)
  BY <1>1, SortedTail, Zenon DEF OrderInv, QueueOrder, PushMessage
<1> HIDE DEF m, o
<1>6. \A x \in Msgs : Past(x)' => Past(x) \/ x = m
  <2>1. CASE plist' = plist /\ collected' = Append(collected, m)
    BY <1>1, <1>2, <2>1, InAppend, Zenon DEF Past, HeldBy, OnWire
  <2>2. CASE /\ o # NoObj /\ collected' = collected
             /\ plist' = [plist EXCEPT ![o] = Append(plist[o], m)]
    <3>1. \A x : In(x, Append(plist[o], m)) <=> In(x, plist[o]) \/ x = m
      BY <1>1, <1>4, <2>2, InAppend
    <3>2. \A p \in Objs, x \in Msgs : HeldBy(p, x)' => HeldBy(p, x) \/ x = m
      BY <1>2, <1>4, <2>2, <3>1 DEF HeldBy
    <3> QED
      BY <1>2, <2>2, <3>2, Zenon DEF Past, OnWire
  <2> QED
    BY <1>2, <2>1, <2>2
<1>7. \A x \in Msgs : Past(x) => Before(dispatched, x, m)
  BY <1>1 DEF OrderInv, QueueOrder, Waits
<1>8. PastDispatched' /\ DispatchedOnce'
  BY <1>1, <1>2, <1>6 DEF OrderInv, PastDispatched, DispatchedOnce, Queued
<1>9. QueueOrder'
  <2>1. \A x \in Msgs : Waits(x)' => Waits(x) /\ Before(dispatched, m, x)
    BY <1>1, <1>2, <1>5 DEF Waits, OrderInv, QueueOrder
  <2>2. \A x, y \in Msgs : Past(x)' /\ Waits(y)' => Before(dispatched', x, y)
    BY <1>2, <1>6, <2>1 DEF OrderInv, QueueOrder
  <2>3. \A x, y \in Msgs : In(x, batch') /\ In(y, msgQ') => Before(dispatched', x, y)
    BY <1>1, <1>2 DEF OrderInv, QueueOrder
  <2> QED
    BY <1>2, <1>5, <2>2, <2>3 DEF OrderInv, QueueOrder
<1>10. HeldOrder'
  <2>1. CASE plist' = plist
    BY <1>2, <2>1 DEF OrderInv, HeldOrder
  <2>2. CASE o # NoObj /\ plist' = [plist EXCEPT ![o] = Append(plist[o], m)]
    <3>1. o \in Objs /\ plist[o] \in Seq(Msgs)
      BY <1>4, <2>2
    <3>2. \A x \in Msgs : HeldBy(o, x) => Before(dispatched, x, m)
      BY <1>7, <3>1 DEF Past
    <3>3. Sorted(dispatched, Append(plist[o], m))
      BY <1>1, <3>1, <3>2, SortedAppend DEF HeldBy, OrderInv, HeldOrder
    <3>4. \A x : In(x, Append(plist[o], m)) <=> In(x, plist[o]) \/ x = m
      BY <1>1, <3>1, InAppend
    <3>5. cur[o] # NoMsg => Before(dispatched, cur[o], m)
      BY <3>1, <3>2 DEF HeldBy
    <3> QED
      BY <1>2, <2>2, <3>1, <3>3, <3>4, <3>5 DEF OrderInv, HeldOrder
  <2> QED
    BY <1>2, <2>1, <2>2
<1> QED
  BY <1>8, <1>9, <1>10 DEF OrderInv

(* What waits behind the current message was dispatched after it. *)
LEMMA BehindCurrent ==
    ASSUME PushTypes, OrderInv, NEW o \in Objs, HasData(o)
    PROVE  /\ Behind(o) \in Seq(Msgs) /\ Sorted(dispatched, Behind(o))
           /\ \A x \in Msgs : In(x, Behind(o)) => Before(dispatched, Current(o), x)
<1>1. plist[o] \in Seq(Msgs) /\ Sorted(dispatched, plist[o])
  BY DEF PushTypes, OrderInv, HeldOrder
<1>2. CASE cur[o] # NoMsg
  BY <1>1, <1>2, Zenon DEF Behind, Current, OrderInv, HeldOrder
<1>3. CASE cur[o] = NoMsg
  <2>1. plist[o] # <<>>
    BY <1>3 DEF HasData
  <2> QED
    BY <1>1, <1>3, <2>1, SortedTail, InTail, Zenon DEF Behind, Current
<1> QED
  BY <1>2, <1>3

(* Sending: the object goes on with the same message, or with later ones. *)
LEMMA SendShifts ==
    ASSUME PushTypes, OrderInv, NEW o \in Objs, HasData(o), NEW n \in Int, Send(o, n),
           Current(o) \in Msgs, dispatched' = dispatched
    PROVE  /\ HeldOrder'
           /\ \A x \in Msgs : HeldBy(o, x)' =>
                 \/ x = Current(o) /\ cur'[o] = x /\ wpos[o] + n < FrameLen
                 \/ Before(dispatched, Current(o), x)
           /\ HasData(o)' <=> wpos[o] + n < FrameLen \/ Behind(o) # <<>>
           /\ wpos[o] + n < FrameLen \/ wpos[o] + n = FrameLen
           /\ wpos[o] + n < FrameLen => cur'[o] = Current(o)
           /\ \A p \in Objs : p # o => cur'[p] = cur[p] /\ plist'[p] = plist[p]
<1> USE DEF PushTypes
<1> DEFINE d == dispatched
           b == Behind(o)
           k == Current(o)
           HeldNow == /\ Sorted(d, plist'[o])
                      /\ \A x \in Msgs : cur'[o] # NoMsg /\ In(x, plist'[o]) => Before(d, cur'[o], x)
                      /\ \A x \in Msgs : HeldBy(o, x)' =>
                            \/ x = k /\ cur'[o] = x /\ wpos[o] + n < FrameLen
                            \/ Before(d, k, x)
<1>1. /\ b \in Seq(Msgs) /\ Sorted(d, b)
      /\ \A x \in Msgs : In(x, b) => Before(d, k, x)
  BY BehindCurrent, Zenon
<1>2. NoMsg \notin Msgs
  BY IoAppAssumption
<1>3. CASE /\ wpos[o] + n < FrameLen
           /\ cur' = [cur EXCEPT ![o] = k]
           /\ plist' = [plist EXCEPT ![o] = b]
  <2>1. cur'[o] = k /\ plist'[o] = b
    BY <1>3
  <2>2. HeldNow
    BY <1>1, <1>3, <2>1, Zenon DEF HeldBy
  <2>3. HasData(o)'
    BY <1>2, <2>1 DEF HasData
  <2> HIDE DEF HeldNow
  <2>4. \A p \in Objs : p # o => cur'[p] = cur[p] /\ plist'[p] = plist[p]
    BY <1>3
  <2> QED
    BY <1>3, <2>1, <2>2, <2>3, <2>4, Zenon DEF HeldNow, OrderInv, HeldOrder
<1>4. CASE /\ wpos[o] + n = FrameLen /\ b # <<>>
           /\ cur' = [cur EXCEPT ![o] = Head(b)]
           /\ plist' = [plist EXCEPT ![o] = Tail(b)]
  <2>1. cur'[o] = Head(b) /\ plist'[o] = Tail(b)
    BY <1>4
  <2>2. /\ Head(b) \in Msgs /\ In(Head(b), b) /\ \A x : In(x, Tail(b)) => In(x, b)
        /\ Sorted(d, Tail(b)) /\ \A x : In(x, Tail(b)) => Before(d, Head(b), x)
    BY <1>1, <1>4, InTail, SortedTail, Zenon
  <2>3. HeldNow
    BY <1>1, <2>1, <2>2, Zenon DEF HeldBy
  <2>4. HasData(o)'
    BY <1>2, <2>1, <2>2, Zenon DEF HasData
  <2> HIDE DEF HeldNow
  <2>5. \A p \in Objs : p # o => cur'[p] = cur[p] /\ plist'[p] = plist[p]
    BY <1>4
  <2>6. ~(wpos[o] + n < FrameLen)
    BY <1>4, IoAppAssumption
  <2> QED
    BY <1>4, <2>1, <2>3, <2>4, <2>5, <2>6, Zenon DEF HeldNow, OrderInv, HeldOrder
<1>5. CASE /\ wpos[o] + n = FrameLen /\ b = <<>>
           /\ cur' = [cur EXCEPT ![o] = NoMsg]
           /\ plist' = [plist EXCEPT ![o] = <<>>]
  <2>1. cur'[o] = NoMsg /\ plist'[o] = <<>>
    BY <1>5
  <2>2. \A x \in Msgs : ~HeldBy(o, x)'
    BY <1>2, <2>1, InEmpty DEF HeldBy
  <2>3. HeldNow
    BY <2>1, <2>2 DEF Sorted
  <2>4. ~HasData(o)'
    BY <2>1, Zenon DEF HasData
  <2> HIDE DEF HeldNow
  <2>5. \A p \in Objs : p # o => cur'[p] = cur[p] /\ plist'[p] = plist[p]
    BY <1>5
  <2>6. ~(wpos[o] + n < FrameLen)
    BY <1>5, IoAppAssumption
  <2> QED
    BY <1>5, <2>1, <2>3, <2>4, <2>5, <2>6, Zenon DEF HeldNow, OrderInv, HeldOrder
<1> QED
  BY <1>3, <1>4, <1>5, Zenon DEF Send

-----------------------------------------------------------------------------
(* An open object serves a connection of its own. *)
LEMMA OpenServesOne ==
    ASSUME ConnInv
    PROVE  /\ \A o \in Objs : ~destroyed[o] =>
                 /\ id[o] \in Conns /\ id[o] \in issued
                 /\ ~In(id[o], sockQ) /\ ~In(id[o], list)
           /\ \A o, p \in Objs : ~destroyed[o] /\ ~destroyed[p] /\ id[o] = id[p] => o = p
<1>1. \A o \in Objs : ~destroyed[o] =>
         /\ id[o] \in Conns /\ id[o] \in issued /\ ~In(id[o], sockQ) /\ ~In(id[o], list)
  BY DEF ConnInv, Waiting, ConnTypeOK, In
<1>2. \A o \in Objs : ~destroyed[o] => register[id[o]] = o
  BY DEF ConnInv, OpenIsRegistered
<1> QED
  BY <1>1, <1>2

(* The types the invariant contains. *)
LEMMA StreamInvTypes ==
    ASSUME StreamInv
    PROVE  /\ PushTypes /\ OrderInv /\ StreamTypes /\ ConnInv
           /\ dispatched \in Seq(Msgs) /\ collected \in Seq(Msgs)
  BY DEF StreamInv, CleanInv, PushTypes, ConnPart, StreamTypes

(* The write position is 0 again when a frame is complete. *)
LEMMA AdvanceIs ==
    ASSUME NEW p \in 0..(FrameLen - 1), NEW n \in 0..(FrameLen - p)
    PROVE  Advance(p, n) = IF p + n = FrameLen THEN 0 ELSE p + n
<1>1. FrameLen \in Nat \ {0} /\ p + n \in 0..FrameLen
  BY IoAppAssumption
<1>2. ASSUME NEW t \in 0..FrameLen
      PROVE  t % FrameLen = IF t = FrameLen THEN 0 ELSE t
  BY <1>1
<1> QED
  BY <1>1, <1>2 DEF Advance

-----------------------------------------------------------------------------
(* Streams: w grown by a piece x is v; the pieces of w make whole frames,  *)
(* in the order of dispatching; and <<k, p>> is where w goes on.           *)
Units == Msgs \X (0..FrameLen) \X (0..FrameLen)

Grown(w, v, x) ==
    /\ v # <<>> /\ Len(v) = Len(w) + 1 /\ v[Len(v)] = x
    /\ \A i \in DOMAIN v : i = Len(v) \/ (i \in DOMAIN w /\ v[i] = w[i] /\ i < Len(v))

Whole(w) ==
    \A i \in DOMAIN w :
        /\ i = 1 => w[i][2] = 0
        /\ i > 1 /\ w[i - 1][3] = FrameLen => w[i][2] = 0
        /\ i > 1 /\ w[i - 1][3] < FrameLen => w[i][1] = w[i - 1][1] /\ w[i][2] = w[i - 1][3]

InOrder(d, w) ==
    \A i, j \in DOMAIN w :
        i < j => (w[i][1] = w[j][1] /\ w[i][3] < FrameLen) \/ Before(d, w[i][1], w[j][1])

EndsAt(w, k, p) ==
    /\ w = <<>> \/ w[Len(w)][3] = FrameLen => p = 0
    /\ w # <<>> /\ w[Len(w)][3] < FrameLen => k = w[Len(w)][1] /\ p = w[Len(w)][3]

(* The units of the stream are those it had, and a piece of k up to t. *)
OldOrPiece(w, v, k, t) ==
    \A i \in DOMAIN v : (i \in DOMAIN w /\ v[i] = w[i]) \/ (v[i][1] = k /\ v[i][3] = t)

(* Sums are integers. *)
LEMMA IntSum == \A x, y \in Int : x + y \in Int
  OBVIOUS

(* So are remainders. *)
LEMMA ModInt == \A f \in Nat \ {0} : \A x \in Int : x % f \in Int
  OBVIOUS

(* Append grows a sequence. *)
LEMMA AppendGrows ==
    ASSUME NEW S, NEW w \in Seq(S), NEW x \in S
    PROVE  Append(w, x) \in Seq(S) /\ Grown(w, Append(w, x), x)
<1>1. /\ Append(w, x) \in Seq(S) /\ Append(w, x) # <<>> /\ Len(w) \in Nat
      /\ Len(Append(w, x)) = Len(w) + 1 /\ Append(w, x)[Len(w) + 1] = x
      /\ DOMAIN w = 1..Len(w) /\ DOMAIN Append(w, x) = 1..(Len(w) + 1)
      /\ \A i \in 1..Len(w) : Append(w, x)[i] = w[i]
  OBVIOUS
<1> DEFINE v == Append(w, x)
<1> HIDE DEF v
<1> QED
  BY <1>1 DEF Grown, v

(* A stream grown by a piece that goes on where it ended has whole frames. *)
LEMMA GrownWhole ==
    ASSUME NEW w \in Seq(Units), NEW v \in Seq(Units), NEW k, NEW p, NEW t,
           Grown(w, v, <<k, p, t>>), Whole(w), EndsAt(w, k, p)
    PROVE  Whole(v)
<1> SUFFICES ASSUME NEW i \in DOMAIN v
             PROVE  /\ i = 1 => v[i][2] = 0
                    /\ i > 1 /\ v[i - 1][3] = FrameLen => v[i][2] = 0
                    /\ i > 1 /\ v[i - 1][3] < FrameLen =>
                          v[i][1] = v[i - 1][1] /\ v[i][2] = v[i - 1][3]
  BY Zenon DEF Whole
<1>1. CASE i \in DOMAIN w /\ v[i] = w[i] /\ i < Len(v)
  <2>1. i > 1 => i - 1 \in DOMAIN v /\ i - 1 # Len(v)
    BY <1>1
  <2>2. i > 1 => v[i - 1] = w[i - 1]
    BY <2>1 DEF Grown
  <2>3. /\ i = 1 => w[i][2] = 0
        /\ i > 1 /\ w[i - 1][3] = FrameLen => w[i][2] = 0
        /\ i > 1 /\ w[i - 1][3] < FrameLen =>
              w[i][1] = w[i - 1][1] /\ w[i][2] = w[i - 1][3]
    BY <1>1, Zenon DEF Whole
  <2> QED
    BY <1>1, <2>2, <2>3, Zenon
<1>2. CASE i = Len(v)
  <2>1. v[i][1] = k /\ v[i][2] = p
    BY <1>2 DEF Grown
  <2>2. i = 1 => w = <<>>
    BY <1>2 DEF Grown
  <2>3. i > 1 => w # <<>> /\ i - 1 = Len(w) /\ i - 1 \in DOMAIN v /\ i - 1 # Len(v)
    BY <1>2 DEF Grown
  <2>4. i > 1 => v[i - 1] = w[Len(w)]
    BY <2>3 DEF Grown
  <2> QED
    BY <2>1, <2>2, <2>3, <2>4, Zenon DEF EndsAt
<1> QED
  BY <1>1, <1>2, Zenon DEF Grown

(* A stream grown by a message behind all of it is in order. *)
LEMMA GrownInOrder ==
    ASSUME NEW w \in Seq(Units), NEW v \in Seq(Units), NEW d, NEW k, NEW p, NEW t,
           Grown(w, v, <<k, p, t>>), InOrder(d, w),
           \A i \in DOMAIN w : (w[i][1] = k /\ w[i][3] < FrameLen) \/ Before(d, w[i][1], k)
    PROVE  InOrder(d, v)
<1> SUFFICES ASSUME NEW i \in DOMAIN v, NEW j \in DOMAIN v, i < j
             PROVE  (v[i][1] = v[j][1] /\ v[i][3] < FrameLen) \/ Before(d, v[i][1], v[j][1])
  BY Zenon DEF InOrder
<1>1. i # Len(v)
  OBVIOUS
<1>2. i \in DOMAIN w /\ v[i] = w[i]
  BY <1>1 DEF Grown
<1>3. CASE j \in DOMAIN w /\ v[j] = w[j]
  BY <1>2, <1>3 DEF InOrder
<1>4. CASE j = Len(v)
  <2>1. v[j][1] = k
    BY <1>4 DEF Grown
  <2> QED
    BY <1>2, <2>1
<1> QED
  BY <1>3, <1>4, Zenon DEF Grown

(* An object that is left alone goes on as before. *)
LEMMA GoesOnAsBefore ==
    ASSUME NEW p \in Objs, GoesOn(p), HeldBehindSent(p),
           id'[p] = id[p], cur'[p] = cur[p], plist'[p] = plist[p], wpos'[p] = wpos[p],
           wire'[id[p]] = wire[id[p]],
           \A x, y : Before(dispatched, x, y) => Before(dispatched', x, y)
    PROVE  GoesOn(p)' /\ HeldBehindSent(p)'
<1>1. GoesOn(p)'
  BY Zenon DEF GoesOn
<1>2. HeldBehindSent(p)'
  BY Zenon DEF HeldBehindSent, HeldBy
<1> QED
  BY <1>1, <1>2, Zenon

(* A message that nobody holds and that was not sent is collected. *)
LEMMA CollectsOne ==
    ASSUME CollectedOnce, collected \in Seq(Msgs), NEW m \in Msgs,
           collected' = Append(collected, m), ~In(m, collected), wire' = wire,
           \A p \in Objs : ~HeldBy(p, m)', \A c \in Conns : m \notin Sent(c),
           \A p \in Objs, x \in Msgs : HeldBy(p, x)' => HeldBy(p, x)
    PROVE  CollectedOnce'
<1>1. \A i \in DOMAIN collected' :
         \/ i \in DOMAIN collected /\ collected'[i] = collected[i]
         \/ i = Len(collected) + 1 /\ collected'[i] = m
  OBVIOUS
<1>a. \A i, j \in DOMAIN collected : collected[i] = collected[j] => i = j
  BY Zenon DEF CollectedOnce
<1>b. \A i \in DOMAIN collected : collected[i] # m
  BY Zenon DEF In
<1>2. \A i, j \in DOMAIN collected' : collected'[i] = collected'[j] => i = j
  <2> SUFFICES ASSUME NEW i \in DOMAIN collected', NEW j \in DOMAIN collected',
                      collected'[i] = collected'[j]
               PROVE  i = j
    BY Zenon
  <2>1. CASE collected'[i] = m
    BY <1>1, <1>b, <2>1, Zenon
  <2>2. CASE collected'[i] # m
    BY <1>1, <1>a, <2>2, Zenon
  <2> QED
    BY <2>1, <2>2, Zenon
<1>3. \A x : In(x, collected') <=> In(x, collected) \/ x = m
  BY InAppend
<1>4. \A x \in Msgs, c \in Conns : x \in Sent(c)' <=> x \in Sent(c)
  BY Zenon DEF Sent
<1> QED
  BY <1>2, <1>3, <1>4 DEF CollectedOnce

-----------------------------------------------------------------------------
(* Where nothing is sent the streams stay what they are. *)
LEMMA WireSame ==
    ASSUME WholeFrames, WireOrder, wire' = wire,
           \A x, y : Before(dispatched, x, y) => Before(dispatched', x, y)
    PROVE  WholeFrames' /\ WireOrder'
<1>1. WholeFrames'
  BY Zenon DEF WholeFrames
<1>2. WireOrder'
  BY Zenon DEF WireOrder
<1> QED
  BY <1>1, <1>2

(* Where nothing is sent and no connection is accepted or initialised, the *)
(* streams of the waiting connections stay empty.                          *)
LEMMA UnusedSame ==
    ASSUME UnusedWire, wire' = wire, issued' = issued, sockQ' = sockQ,
           \A c : In(c, list') => In(c, list)
    PROVE  UnusedWire'
  BY DEF UnusedWire

(* Where nothing is sent, collected or handed out, the collected messages  *)
(* stay apart from the others.                                             *)
LEMMA CollectedSame ==
    ASSUME CollectedOnce, wire' = wire, collected' = collected,
           \A p \in Objs, x \in Msgs : HeldBy(p, x)' => HeldBy(p, x) \/ ~In(x, collected)
    PROVE  CollectedOnce'
<1>1. \A c \in Conns : Sent(c)' = Sent(c)
  BY DEF Sent
<1> QED
  BY <1>1 DEF CollectedOnce

(* Nor does a message become one that was handed out. *)
LEMMA PastSame ==
    ASSUME wire' = wire, \A x \in Msgs : In(x, collected') => Past(x),
           \A p \in Objs, x \in Msgs : HeldBy(p, x)' => HeldBy(p, x)
    PROVE  \A m \in Msgs : Past(m)' => Past(m)
<1>1. \A c \in Conns, m \in Msgs : OnWire(c, m)' <=> OnWire(c, m)
  BY Zenon DEF OnWire
<1> QED
  BY <1>1 DEF Past

(* An object whose push list is empty, and others left alone, hold their   *)
(* messages in order.                                                      *)
LEMMA HeldOrderSame ==
    ASSUME HeldOrder, dispatched' = dispatched,
           \A p \in Objs : \/ plist'[p] = <<>>
                           \/ plist'[p] = plist[p] /\ (cur'[p] = cur[p] \/ cur'[p] = NoMsg)
    PROVE  HeldOrder'
<1>1. \A x : ~In(x, <<>>)
  BY InEmpty
<1> QED
  BY <1>1 DEF HeldOrder, Sorted

-----------------------------------------------------------------------------
(* A connection that is closed by a callback. *)
LEMMA CloseKeepsClean ==
    ASSUME CleanInv, ConnPart', NEW o \in Objs, Destroy(o, 1), GiveUp(o)
    PROVE  CleanInv'
<1>0. /\ ConnPart /\ PushTypes /\ HeldForOwner /\ SentToOwner
      /\ StateEarned /\ Queued /\ FreshState
  BY Zenon DEF CleanInv
<1>1. /\ PushTypes'
      /\ \A m \in Msgs : ~HeldBy(o, m)'
      /\ \A p \in Objs, m \in Msgs : HeldBy(p, m)' => HeldBy(p, m)
      /\ UNCHANGED <<dispatched, msgQ, batch, state, frames, wire>>
  BY <1>0, GiveUpEmpties
<1>2. /\ id' = id /\ destroyed'[o]
      /\ \A p \in Objs : p # o => destroyed'[p] = destroyed[p]
  BY <1>0, Zenon DEF Destroy, ConnPart, ConnInv, ConnTypeOK
<1>3. HeldForOwner'
  BY <1>0, <1>1, <1>2, Zenon DEF HeldForOwner
<1>4. SentToOwner' /\ Queued' /\ FreshState'
  BY <1>0, <1>1, Zenon DEF SentToOwner, Queued, FreshState
<1>5. StateEarned'
  BY <1>0, <1>1, <1>2, Zenon DEF StateEarned, Switched
<1> QED
  BY <1>0, <1>1, <1>3, <1>4, <1>5, Zenon DEF CleanInv

(* newConnection: the object it takes holds nothing and starts in state 0. *)
LEMMA NewKeepsClean ==
    ASSUME CleanInv, ConnPart', NEW o \in Objs, destroyed[o], NewConnection(o)
    PROVE  CleanInv'
<1>0. /\ ConnPart /\ PushTypes /\ HeldForOwner /\ SentToOwner
      /\ StateEarned /\ Queued /\ FreshState
  BY Zenon DEF CleanInv
<1>2. /\ cur' = [cur EXCEPT ![o] = NoMsg] /\ state' = [state EXCEPT ![o] = 0]
      /\ UNCHANGED <<dispatched, msgQ, batch, plist, wpos, frames, wire>>
  BY <1>0 DEF NewConnection
<1>3. \A p \in Objs : p # o => id'[p] = id[p] /\ destroyed'[p] = destroyed[p]
  BY <1>0, Zenon DEF NewConnection, InitConn, ConnPart, ConnInv, ConnTypeOK
<1>4. PushTypes'
  BY <1>0, <1>2 DEF PushTypes
<1>5. HeldForOwner'
  <2> SUFFICES ASSUME NEW p \in Objs, NEW m \in Msgs, HeldBy(p, m)'
               PROVE  To[m] = id'[p] /\ ~destroyed'[p]
    BY <1>0, Zenon DEF HeldForOwner
  <2>1. HeldBy(p, m)
    BY <1>0, <1>2, IoAppAssumption, Zenon DEF HeldBy, PushTypes
  <2>2. p # o
    BY <1>0, <2>1, Zenon DEF HeldForOwner
  <2> QED
    BY <1>0, <1>3, <2>1, <2>2, Zenon DEF HeldForOwner
<1>6. SentToOwner' /\ Queued' /\ FreshState'
  BY <1>0, <1>2, Zenon DEF SentToOwner, Queued, FreshState
<1>7. StateEarned'
  BY <1>0, <1>2, <1>3, Zenon DEF StateEarned, Switched, PushTypes
<1> QED
  BY <1>0, <1>4, <1>5, <1>6, <1>7, Zenon DEF CleanInv

(* writeSocket sending on an open connection. *)
LEMMA SendKeepsClean ==
    ASSUME CleanInv, ConnPart', NEW o \in Objs, ~destroyed[o], HasData(o),
           NEW n \in 0..(FrameLen - wpos[o]), Send(o, n),
           UNCHANGED <<id, destroyed, dispatched, msgQ, batch, state, frames>>
    PROVE  CleanInv'
<1>0. /\ ConnPart /\ PushTypes /\ HeldForOwner /\ SentToOwner
      /\ StateEarned /\ Queued /\ FreshState
  BY Zenon DEF CleanInv
<1>1. wpos[o] \in Int /\ FrameLen \in Nat \ {0} /\ n \in Int
  BY <1>0, IoAppAssumption DEF PushTypes
<1>2. /\ Current(o) \in Msgs /\ HeldBy(o, Current(o))
      /\ plist' \in [Objs -> Seq(Msgs)] /\ cur' \in [Objs -> Msgs \cup {NoMsg}]
      /\ \A p \in Objs, m \in Msgs : HeldBy(p, m)' => HeldBy(p, m)
  BY <1>0, <1>1, SendTakes
<1>3. To[Current(o)] = id[o] /\ id[o] \in Conns
  <2>1. To[Current(o)] = id[o]
    BY <1>0, <1>2, Zenon DEF HeldForOwner
  <2> QED
    BY <1>0, <1>2, <2>1, IoAppAssumption, Zenon
<1>4. wpos' \in [Objs -> Int]
  <2>1. wpos' = [wpos EXCEPT ![o] = (wpos[o] + n) % FrameLen]
    BY <1>0 DEF Send, Advance
  <2>2. (wpos[o] + n) % FrameLen \in Int
    <3>1. \A x, y \in Int : x + y \in Int
      BY IntSum, Zenon
    <3>2. \A x \in Int : x % FrameLen \in Int
      BY ModInt, IoAppAssumption, Zenon
    <3> QED
      BY <1>1, <3>1, <3>2, Zenon
  <2> QED
    BY <1>0, <2>1, <2>2 DEF PushTypes
<1>5. wire' \in [Conns -> Seq(Pieces)] /\ SentToOwner'
  <2> DEFINE x == <<Current(o), wpos[o], wpos[o] + n>>
             c == id[o]
  <2>1. CASE wire' = wire
    BY <1>0, <2>1, Zenon DEF PushTypes, SentToOwner
  <2>2. CASE wire' = [wire EXCEPT ![c] = Append(wire[c], x)]
    <3>1. x \in Pieces /\ x[1] = Current(o)
      <4>1. wpos[o] \in Int /\ wpos[o] + n \in Int
        BY <1>0, <1>1, IntSum, Zenon
      <4> QED
        BY <1>2, <4>1, PieceIs, Zenon
    <3>2. wire[c] \in Seq(Pieces) /\ c \in Conns
      BY <1>0, <1>3, Zenon DEF PushTypes
    <3> HIDE DEF x, c
    <3>3. /\ Append(wire[c], x) \in Seq(Pieces)
          /\ \A i \in DOMAIN Append(wire[c], x) :
                \/ i \in DOMAIN wire[c] /\ Append(wire[c], x)[i] = wire[c][i]
                \/ Append(wire[c], x)[i] = x
      <4>1. Append(wire[c], x) \in Seq(Pieces) /\ Grown(wire[c], Append(wire[c], x), x)
        BY <3>1, <3>2, AppendGrows
      <4> QED
        BY <4>1, Zenon DEF Grown
    <3>4. wire' \in [Conns -> Seq(Pieces)]
      BY <1>0, <2>2, <3>2, <3>3, Zenon DEF PushTypes
    <3>5. wire'[c] = Append(wire[c], x) /\ \A d \in Conns : d # c => wire'[d] = wire[d]
      BY <1>0, <2>2, <3>2, Zenon DEF PushTypes
    <3>6. To[x[1]] = c
      BY <1>0, <1>3, <3>1, Zenon DEF c
    <3>7. SentToOwner'
      <4> SUFFICES ASSUME NEW d \in Conns, NEW i \in DOMAIN wire'[d]
                   PROVE  To[wire'[d][i][1]] = d
        BY <1>0, Zenon DEF SentToOwner
      <4>1. CASE d = c
        <5>1. \/ i \in DOMAIN wire[c] /\ wire'[d][i] = wire[c][i]
              \/ wire'[d][i] = x
          BY <1>0, <3>3, <3>5, <4>1, Zenon
        <5>2. i \in DOMAIN wire[c] => To[wire[c][i][1]] = c
          BY <1>0, <3>2, Zenon DEF SentToOwner
        <5> QED
          BY <1>0, <3>6, <4>1, <5>1, <5>2, Zenon
      <4>2. CASE d # c
        BY <1>0, <3>5, <4>2, Zenon DEF SentToOwner
      <4> QED
        BY <1>0, <4>1, <4>2, Zenon
    <3> QED
      BY <1>0, <3>4, <3>7, Zenon
  <2> QED
    BY <1>0, <2>1, <2>2, Zenon DEF Send
<1>6. PushTypes'
  BY <1>0, <1>2, <1>4, <1>5, Zenon DEF PushTypes
<1>7. HeldForOwner'
  BY <1>0, <1>2, Zenon DEF HeldForOwner
<1>8. Queued' /\ FreshState' /\ StateEarned'
  BY <1>0, Zenon DEF Queued, FreshState, StateEarned, Switched
<1> QED
  BY <1>0, <1>5, <1>6, <1>7, <1>8, Zenon DEF CleanInv

(* push handing out one message: the register names an object that is open *)
(* and serves the message's connection.                                    *)
LEMMA PushKeepsClean ==
    ASSUME CleanInv, ConnPart', PushMessage
    PROVE  CleanInv'
<1>0. /\ ConnPart /\ PushTypes /\ HeldForOwner /\ SentToOwner
      /\ StateEarned /\ Queued /\ FreshState
  BY Zenon DEF CleanInv
<1> DEFINE m == Head(batch)
           o == register[To[m]]
<1>1. /\ m \in Msgs /\ In(m, batch) /\ batch' \in Seq(Msgs)
      /\ \A x : In(x, batch') => In(x, batch)
  BY <1>0, InTail, Zenon DEF PushTypes, PushMessage
<1>2. /\ UNCHANGED <<id, destroyed, dispatched, msgQ, cur, wpos, frames, wire>>
      /\ \/ /\ o # NoObj
            /\ state' = IF m \in Switching THEN [state EXCEPT ![o] = 1] ELSE state
            /\ plist' = [plist EXCEPT ![o] = Append(plist[o], m)]
         \/ UNCHANGED <<state, plist>>
  BY <1>0, Zenon DEF PushMessage, PushPut, connVars
<1>3. To[m] \in Conns /\ In(m, dispatched)
  BY <1>0, <1>1, IoAppAssumption DEF Queued
<1>4. o # NoObj => o \in Objs /\ id[o] = To[m] /\ ~destroyed[o]
  <2>1. register \in [Conns -> Objs \cup {NoObj}] /\ OneOwner
    BY <1>0, Zenon DEF ConnPart, ConnInv, ConnTypeOK
  <2>2. o # NoObj => o \in Objs /\ To[m] \in Online
    <3>1. o \in Objs \cup {NoObj}
      BY <1>3, <2>1, Zenon
    <3> QED
      BY <1>3, <3>1, Zenon DEF Online
  <2> QED
    BY <2>1, <2>2, Zenon DEF OneOwner
<1> HIDE DEF m, o
<1>5. SentToOwner' /\ FreshState'
  BY <1>0, <1>2, Zenon DEF SentToOwner, FreshState
<1>6. Queued'
  BY <1>0, <1>1, <1>2, Zenon DEF Queued
<1>7. CASE UNCHANGED <<state, plist>>
  <2>1. PushTypes'
    BY <1>0, <1>1, <1>2, <1>7, Zenon DEF PushTypes
  <2>2. HeldForOwner' /\ StateEarned'
    BY <1>0, <1>2, <1>7, Zenon DEF HeldForOwner, HeldBy, StateEarned, Switched
  <2> QED
    BY <1>0, <1>5, <1>6, <2>1, <2>2, Zenon DEF CleanInv
<1>8. CASE /\ o # NoObj
           /\ state' = IF m \in Switching THEN [state EXCEPT ![o] = 1] ELSE state
           /\ plist' = [plist EXCEPT ![o] = Append(plist[o], m)]
  <2>1. o \in Objs /\ id[o] = To[m] /\ ~destroyed[o]
    BY <1>0, <1>4, <1>8
  <2>2. plist' \in [Objs -> Seq(Msgs)] /\ state' \in [Objs -> {0, 1}]
    BY <1>0, <1>1, <1>8, <2>1 DEF PushTypes
  <2>3. PushTypes'
    BY <1>0, <1>1, <1>2, <2>2, Zenon DEF PushTypes
  <2>4. HeldForOwner'
    <3> SUFFICES ASSUME NEW p \in Objs, NEW x \in Msgs, HeldBy(p, x)'
                 PROVE  To[x] = id[p] /\ ~destroyed[p]
      BY <1>0, <1>2, Zenon DEF HeldForOwner
    <3>1. CASE p = o /\ x = m
      BY <1>0, <2>1, <3>1, Zenon
    <3>2. CASE p = o /\ x # m
      <4>1. In(x, plist'[o]) => In(x, plist[o])
        BY <1>0, <1>1, <1>8, <2>1, <3>2, InAppend DEF PushTypes
      <4> QED
        BY <1>0, <1>2, <3>2, <4>1, Zenon DEF HeldBy, HeldForOwner
    <3>3. CASE p # o
      BY <1>0, <1>2, <1>8, <2>1, <3>3, Zenon DEF HeldBy, HeldForOwner, PushTypes
    <3> QED
      BY <1>0, <3>1, <3>2, <3>3, Zenon
  <2>5. StateEarned'
    <3> SUFFICES ASSUME NEW p \in Objs, ~destroyed[p], state'[p] # 0
                 PROVE  Switched(id[p])
      BY <1>0, <1>2, Zenon DEF StateEarned, Switched
    <3>1. CASE p = o /\ m \in Switching
      BY <1>0, <1>3, <2>1, <3>1, Zenon DEF Switched
    <3>2. CASE ~(p = o /\ m \in Switching)
      BY <1>0, <1>8, <2>1, <3>2, Zenon DEF StateEarned, PushTypes
    <3> QED
      BY <1>0, <3>1, <3>2, Zenon
  <2> QED
    BY <1>0, <1>5, <1>6, <2>3, <2>4, <2>5, Zenon DEF CleanInv
<1> QED
  BY <1>0, <1>2, <1>7, <1>8

(* The router putting a message in the queue, and push taking it. *)
LEMMA QueueKeepsClean ==
    ASSUME CleanInv, ConnPart', StartPush \/ \E m \in Msgs : DispatchPush(m)
    PROVE  CleanInv'
<1>0. /\ ConnPart /\ PushTypes /\ HeldForOwner /\ SentToOwner
      /\ StateEarned /\ Queued /\ FreshState
  BY Zenon DEF CleanInv
<1>1. UNCHANGED <<id, destroyed, plist, cur, wpos, state, frames, wire>>
  BY <1>0, Zenon DEF StartPush, DispatchPush, connVars
<1>2. HeldForOwner' /\ SentToOwner'
  BY <1>0, <1>1, Zenon DEF HeldForOwner, HeldBy, SentToOwner
<1>3. CASE StartPush
  <2>1. batch' = msgQ /\ msgQ' = <<>> /\ dispatched' = dispatched
    BY <1>0, <1>3 DEF StartPush
  <2>2. PushTypes' /\ Queued'
    BY <1>0, <1>1, <2>1, InEmpty DEF PushTypes, Queued
  <2>3. StateEarned' /\ FreshState'
    BY <1>0, <1>1, <2>1, Zenon DEF StateEarned, Switched, FreshState
  <2> QED
    BY <1>0, <1>2, <2>2, <2>3, Zenon DEF CleanInv
<1>4. ASSUME NEW m \in Msgs, DispatchPush(m)
      PROVE  CleanInv'
  <2>1. /\ dispatched' = Append(dispatched, m) /\ msgQ' = Append(msgQ, m)
        /\ batch' = batch
    BY <1>0, <1>4, Zenon DEF DispatchPush
  <2>2. PushTypes'
    BY <1>0, <1>1, <2>1 DEF PushTypes
  <2>3. /\ \A x : In(x, dispatched') <=> In(x, dispatched) \/ x = m
        /\ \A x : In(x, msgQ') <=> In(x, msgQ) \/ x = m
    BY <1>0, <2>1, InAppend DEF PushTypes
  <2>4. Queued'
    BY <1>0, <2>1, <2>3 DEF Queued
  <2>5. StateEarned' /\ FreshState'
    BY <1>0, <1>1, <2>3, Zenon DEF StateEarned, Switched, FreshState
  <2> QED
    BY <1>0, <1>2, <2>2, <2>4, <2>5, Zenon DEF CleanInv
<1> QED
  BY <1>0, <1>3, <1>4

(* A frame is handed up with the state its connection has earned. *)
LEMMA FrameKeepsClean ==
    ASSUME CleanInv, ConnPart', NEW o \in Objs, ReceiveFrame(o)
    PROVE  CleanInv'
<1>0. /\ ConnPart /\ PushTypes /\ HeldForOwner /\ SentToOwner
      /\ StateEarned /\ Queued /\ FreshState
  BY Zenon DEF CleanInv
<1>1. /\ UNCHANGED <<id, destroyed, dispatched, msgQ, batch, plist, cur, wpos, state, wire>>
      /\ frames' = frames \cup {<<id[o], state[o]>>} /\ ~destroyed[o]
  BY <1>0, Zenon DEF ReceiveFrame, connVars
<1>2. PushTypes' /\ HeldForOwner' /\ SentToOwner' /\ Queued' /\ StateEarned'
  BY <1>0, <1>1, Zenon DEF PushTypes, HeldForOwner, HeldBy, SentToOwner, Queued, StateEarned, Switched
<1>3. FreshState'
  <2>1. \A c : Switched(c)' <=> Switched(c)
    BY <1>0, <1>1, Zenon DEF Switched
  <2>2. state[o] # 0 => Switched(id[o])
    BY <1>0, <1>1, Zenon DEF StateEarned
  <2> SUFFICES ASSUME NEW f \in frames', f[2] # 0
               PROVE  Switched(f[1])
    BY <1>0, <2>1, Zenon DEF FreshState, Switched
  <2>3. CASE f \in frames
    BY <1>0, <2>3 DEF FreshState, Switched
  <2>4. CASE f = <<id[o], state[o]>>
    BY <1>0, <2>2, <2>4, Zenon
  <2> QED
    BY <1>0, <1>1, <2>3, <2>4, Zenon
<1> QED
  BY <1>0, <1>2, <1>3, Zenon DEF CleanInv

-----------------------------------------------------------------------------

(* writeSocket sends n units of message k on stream w, which becomes v:    *)
(* the message is the oldest the object holds, and t of its units are sent *)
(* afterwards.                                                             *)
SendKeeps ==
    UNCHANGED <<id, destroyed, issued, sockQ, list, dispatched, msgQ, batch, frames, collected>>

SendNumbers(o, n, t) ==
    /\ wpos[o] \in 0..(FrameLen - 1) /\ FrameLen \in Nat \ {0} /\ n \in Nat
    /\ t = wpos[o] + n /\ t \in 0..FrameLen
    /\ wpos'[o] = (IF t = FrameLen THEN 0 ELSE t) /\ wpos' \in [Objs -> 0..(FrameLen - 1)]
    /\ \A p \in Objs : p # o => wpos'[p] = wpos[p]

SendStream(o, n, k, w, v, t) ==
    /\ id[o] \in Conns /\ w = wire[id[o]] /\ v = wire'[id[o]]
    /\ w \in Seq(Units) /\ v \in Seq(Units) /\ wire' \in [Conns -> Seq(Units)]
    /\ \A d \in Conns : d # id[o] => wire'[d] = wire[d]
    /\ \/ n = 0 /\ v = w
       \/ n > 0 /\ Grown(w, v, <<k, wpos[o], t>>)
    /\ OldOrPiece(w, v, k, t)

SendHeld(o, k, t) ==
    /\ k = Current(o) /\ k \in Msgs /\ HeldBy(o, k)
    /\ \A p \in Objs, m \in Msgs : HeldBy(p, m)' => HeldBy(p, m)
    /\ \A x \in Msgs : HeldBy(o, x)' =>
          \/ x = k /\ cur'[o] = x /\ t < FrameLen
          \/ Before(dispatched, k, x)
    /\ HasData(o)' <=> t < FrameLen \/ Behind(o) # <<>>
    /\ t < FrameLen => cur'[o] = k
    /\ \A p \in Objs : p # o => cur'[p] = cur[p] /\ plist'[p] = plist[p]

SendEffect(o, n, k, w, v, t) ==
    /\ SendKeeps
    /\ SendNumbers(o, n, t)
    /\ SendStream(o, n, k, w, v, t)
    /\ SendHeld(o, k, t)

(* What a send adds to the stream. *)
LEMMA SendWrites ==
    ASSUME StreamTypes, NEW o \in Objs, id[o] \in Conns, NEW n, Send(o, n), NEW t,
           Current(o) \in Msgs, SendNumbers(o, n, t)
    PROVE  SendStream(o, n, Current(o), wire[id[o]], wire'[id[o]], t)
<1> DEFINE c == id[o]
           w == wire[c]
           x == <<Current(o), wpos[o], t>>
<1>1. c \in Conns /\ w \in Seq(Units) /\ wire \in [Conns -> Seq(Units)]
  BY DEF StreamTypes, Units
<1>2. n \in Nat /\ wpos[o] \in 0..FrameLen /\ t \in 0..FrameLen /\ t = wpos[o] + n
  BY DEF SendNumbers
<1>3. x \in Units
  BY <1>2 DEF Units
<1>x. x[1] = Current(o) /\ x[3] = t
  OBVIOUS
<1>4. n = 0 => wire' = wire
  BY DEF Send
<1>5. n # 0 => wire' = [wire EXCEPT ![c] = Append(w, x)]
  BY <1>2 DEF Send
<1> HIDE DEF c, w, x
<1>6. CASE n = 0
  <2>1. wire' = wire /\ wire'[c] = w
    BY <1>4, <1>6 DEF w
  <2>2. wire' \in [Conns -> Seq(Units)] /\ \A d \in Conns : wire'[d] = wire[d]
    BY <1>1, <2>1
  <2>3. OldOrPiece(w, wire'[c], Current(o), t)
    BY <2>1, Zenon DEF OldOrPiece
  <2> QED
    BY <1>1, <1>6, <2>1, <2>2, <2>3, Zenon DEF SendStream, c, w
<1>7. CASE n # 0
  <2>1. Append(w, x) \in Seq(Units) /\ Grown(w, Append(w, x), x)
    BY <1>1, <1>3, AppendGrows
  <2>2. wire'[c] = Append(w, x) /\ \A d \in Conns : d # c => wire'[d] = wire[d]
    BY <1>1, <1>5, <1>7
  <2>3. wire' \in [Conns -> Seq(Units)]
    BY <1>1, <1>5, <1>7, <2>1, Zenon
  <2>4. n > 0
    BY <1>2, <1>7
  <2>5. OldOrPiece(w, wire'[c], Current(o), t)
    BY <1>x, <2>1, <2>2, Zenon DEF Grown, OldOrPiece
  <2> QED
    BY <1>1, <2>1, <2>2, <2>3, <2>4, <2>5, Zenon DEF SendStream, c, w, x
<1> QED
  BY <1>6, <1>7

(* The write position after a send. *)
LEMMA SendCounts ==
    ASSUME StreamTypes, NEW o \in Objs, NEW n \in 0..(FrameLen - wpos[o]), Send(o, n)
    PROVE  SendNumbers(o, n, wpos[o] + n)
<1>1. wpos[o] \in 0..(FrameLen - 1) /\ FrameLen \in Nat \ {0}
  BY IoAppAssumption DEF StreamTypes
<1>2. n \in Nat /\ wpos[o] + n \in 0..FrameLen
  BY <1>1
<1> DEFINE q == IF wpos[o] + n = FrameLen THEN 0 ELSE wpos[o] + n
<1>3. q \in 0..(FrameLen - 1)
  BY <1>1, <1>2
<1>4. wpos' = [wpos EXCEPT ![o] = q]
  BY <1>1, AdvanceIs, Zenon DEF Send
<1> HIDE DEF q
<1>5. /\ wpos'[o] = q /\ wpos' \in [Objs -> 0..(FrameLen - 1)]
      /\ \A p \in Objs : p # o => wpos'[p] = wpos[p]
  BY <1>3, <1>4 DEF StreamTypes
<1> QED
  BY <1>1, <1>2, <1>5 DEF SendNumbers, q

(* A send has that effect. *)
LEMMA SendHas ==
    ASSUME StreamInv, NEW o \in Objs, ~destroyed[o], HasData(o),
           NEW n \in 0..(FrameLen - wpos[o]), Send(o, n),
           UNCHANGED <<connVars, dispatched, msgQ, batch, state, frames, collected>>
    PROVE  /\ HeldOrder'
           /\ SendEffect(o, n, Current(o), wire[id[o]], wire'[id[o]], wpos[o] + n)
<1>1. PushTypes /\ OrderInv /\ StreamTypes /\ ConnInv
  BY StreamInvTypes
<1>2. SendKeeps
  BY DEF SendKeeps, connVars
<1>3. SendNumbers(o, n, wpos[o] + n)
  BY <1>1, SendCounts
<1>4. n \in Int /\ id[o] \in Conns
  BY <1>1, <1>3, OpenServesOne DEF SendNumbers
<1>5. /\ Current(o) \in Msgs /\ HeldBy(o, Current(o))
      /\ \A p \in Objs, m \in Msgs : HeldBy(p, m)' => HeldBy(p, m)
  BY <1>1, <1>4, SendTakes
<1>6. HeldOrder' /\ SendHeld(o, Current(o), wpos[o] + n)
  BY <1>1, <1>4, <1>5, SendShifts DEF SendHeld
<1>7. SendStream(o, n, Current(o), wire[id[o]], wire'[id[o]], wpos[o] + n)
  BY <1>1, <1>3, <1>4, <1>5, SendWrites
<1> QED
  BY <1>2, <1>3, <1>6, <1>7 DEF SendEffect

(* The stream went on at the current message. *)
LEMMA SendGoesOn ==
    ASSUME NEW o \in Objs, NEW n, NEW k, NEW w, NEW v, NEW t, GoesOn(o),
           SendEffect(o, n, k, w, v, t)
    PROVE  EndsAt(w, k, wpos[o])
<1>1. w = wire[id[o]] /\ k = Current(o) /\ w \in Seq(Units)
  BY Zenon DEF SendEffect, SendStream, SendHeld
<1>2. w # <<>> => w[Len(w)] \in Units
  BY <1>1
<1>3. w # <<>> => w[Len(w)][1] \in Msgs /\ w[Len(w)][3] \in 0..FrameLen
  BY <1>2 DEF Units
<1>4. FrameLen \in Nat \ {0} /\ NoMsg \notin Msgs
  BY IoAppAssumption
<1>5. cur[o] # NoMsg => k = cur[o]
  BY <1>1 DEF Current
<1>6. /\ w = <<>> => wpos[o] = 0
      /\ w # <<>> => \/ w[Len(w)][3] = FrameLen /\ wpos[o] = 0
                     \/ /\ w[Len(w)][3] < FrameLen
                        /\ cur[o] = w[Len(w)][1] /\ wpos[o] = w[Len(w)][3]
  BY <1>1, Zenon DEF GoesOn
<1>7. w # <<>> => (w[Len(w)][3] = FrameLen => ~(w[Len(w)][3] < FrameLen))
  BY <1>3, <1>4
<1>8. w # <<>> /\ cur[o] = w[Len(w)][1] => k = w[Len(w)][1]
  BY <1>3, <1>4, <1>5, Zenon
<1> QED
  BY <1>6, <1>7, <1>8, Zenon DEF EndsAt

(* What is sent makes whole frames in the order of dispatching. *)
LEMMA SendKeepsWire ==
    ASSUME StreamInv, NEW o \in Objs, ~destroyed[o],
           NEW n, NEW k, NEW w, NEW v, NEW t, SendEffect(o, n, k, w, v, t)
    PROVE  WholeFrames' /\ WireOrder'
<1>1. /\ id[o] \in Conns /\ w = wire[id[o]] /\ v = wire'[id[o]]
      /\ w \in Seq(Units) /\ v \in Seq(Units)
      /\ \A d \in Conns : d # id[o] => wire'[d] = wire[d]
      /\ dispatched' = dispatched /\ k \in Msgs /\ HeldBy(o, k)
  BY Zenon DEF SendEffect, SendStream, SendKeeps, SendHeld
<1>2. v = w \/ Grown(w, v, <<k, wpos[o], t>>)
  BY Zenon DEF SendEffect, SendStream
<1>3. (\A d \in Conns : Whole(wire[d])) /\ (\A d \in Conns : InOrder(dispatched, wire[d]))
  BY Zenon DEF StreamInv, WholeFrames, WireOrder, Whole, InOrder
<1>4. GoesOn(o) /\ HeldBehindSent(o)
  BY Zenon DEF StreamInv, Continues
<1>5. Whole(v)
  BY <1>1, <1>2, <1>3, <1>4, SendGoesOn, GrownWhole, Zenon
<1>6. \A i \in DOMAIN w :
         (w[i][1] = k /\ w[i][3] < FrameLen) \/ Before(dispatched, w[i][1], k)
  BY <1>1, <1>4, Zenon DEF HeldBehindSent
<1>7. InOrder(dispatched, v)
  BY <1>1, <1>2, <1>3, <1>6, GrownInOrder
<1>8. \A d \in Conns : Whole(wire'[d]) /\ InOrder(dispatched', wire'[d])
  BY <1>1, <1>3, <1>5, <1>7
<1> QED
  BY <1>8 DEF WholeFrames, WireOrder, Whole, InOrder

(* The write event stays while there is more to send. *)
LEMMA SendArms ==
    ASSUME StreamInv, NEW o \in Objs, HasData(o), NEW n, Send(o, n),
           NEW k, NEW w, NEW v, NEW t, SendEffect(o, n, k, w, v, t)
    PROVE  armed' \in [Objs -> BOOLEAN] /\ ArmedIffData'
<1>1. /\ HasData(o)' <=> t < FrameLen \/ Behind(o) # <<>>
      /\ \A p \in Objs : p # o => cur'[p] = cur[p] /\ plist'[p] = plist[p]
  BY Zenon DEF SendEffect, SendHeld
<1>2. t = wpos[o] + n /\ t \in 0..FrameLen /\ FrameLen \in Nat
  BY Zenon DEF SendEffect, SendNumbers
<1>a. \/ wpos[o] + n < FrameLen /\ armed' = armed
      \/ wpos[o] + n = FrameLen /\ Behind(o) # <<>> /\ armed' = armed
      \/ /\ wpos[o] + n = FrameLen /\ Behind(o) = <<>>
         /\ armed' = [armed EXCEPT ![o] = FALSE]
  BY Zenon DEF Send
<1>b. t = FrameLen => ~(t < FrameLen)
  BY <1>2
<1>3. /\ t < FrameLen \/ Behind(o) # <<>> => armed' = armed
      /\ ~(t < FrameLen \/ Behind(o) # <<>>) => armed' = [armed EXCEPT ![o] = FALSE]
  BY <1>2, <1>a, <1>b, Zenon
<1>4. \A p \in Objs : p # o => (HasData(p)' <=> HasData(p))
  BY <1>1 DEF HasData
<1>5. armed \in [Objs -> BOOLEAN] /\ \A p \in Objs : armed[p] <=> HasData(p)
  BY DEF StreamTypes, StreamInv, ArmedIffData
<1>7. CASE t < FrameLen \/ Behind(o) # <<>>
  BY <1>1, <1>3, <1>4, <1>5, <1>7 DEF ArmedIffData
<1>8. CASE ~(t < FrameLen \/ Behind(o) # <<>>)
  BY <1>1, <1>3, <1>4, <1>5, <1>8, Zenon DEF ArmedIffData
<1> QED
  BY <1>7, <1>8

(* The object goes on at the end of the stream. *)
LEMMA SentGoesOn ==
    ASSUME NEW o \in Objs, NEW n, NEW k, NEW w, NEW v, NEW t, GoesOn(o),
           SendEffect(o, n, k, w, v, t)
    PROVE  GoesOn(o)'
<1>1. v = wire'[id[o]] /\ id'[o] = id[o] /\ w \in Seq(Units)
  BY Zenon DEF SendEffect, SendStream, SendKeeps
<1>2. /\ wpos[o] \in 0..(FrameLen - 1) /\ FrameLen \in Nat \ {0} /\ n \in Nat
      /\ t = wpos[o] + n /\ t \in 0..FrameLen
      /\ wpos'[o] = IF t = FrameLen THEN 0 ELSE t
  BY Zenon DEF SendEffect, SendNumbers
<1>3. t < FrameLen => cur'[o] = k
  BY Zenon DEF SendEffect, SendHeld
<1>4. EndsAt(w, k, wpos[o])
  BY SendGoesOn
<1>5. CASE n = 0 /\ v = w
  <2>a. t = wpos[o]
    BY <1>2, <1>5
  <2>b. t < FrameLen /\ t # FrameLen
    <3>1. wpos[o] \in 0..(FrameLen - 1) /\ FrameLen \in Nat \ {0}
      BY <1>2, Zenon
    <3> QED
      BY <3>1, <2>a
  <2>1. t < FrameLen /\ wpos'[o] = wpos[o] /\ cur'[o] = k
    BY <1>2, <1>3, <2>a, <2>b, Zenon
  <2>2. w # <<>> => w[Len(w)] \in Units
    BY <1>1
  <2>3. w # <<>> => w[Len(w)][3] \in 0..FrameLen
    BY <2>2 DEF Units
  <2>4. w # <<>> => w[Len(w)][3] = FrameLen \/ w[Len(w)][3] < FrameLen
    BY <1>2, <2>3
  <2> QED
    BY <1>1, <1>4, <1>5, <2>1, <2>4 DEF GoesOn, EndsAt
<1>6. CASE v # <<>> /\ v[Len(v)] = <<k, wpos[o], t>>
  <2>1. v[Len(v)][1] = k /\ v[Len(v)][3] = t
    BY <1>6
  <2>2. t = FrameLen \/ t < FrameLen
    BY <1>2
  <2>3. (t = FrameLen /\ wpos'[o] = 0) \/ (t < FrameLen /\ cur'[o] = k /\ wpos'[o] = t)
    <3>1. t < FrameLen => t # FrameLen
      BY <1>2
    <3> QED
      BY <1>2, <1>3, <2>2, <3>1, Zenon
  <2> QED
    BY <1>1, <1>6, <2>1, <2>3, Zenon DEF GoesOn
<1> QED
  BY <1>5, <1>6, Zenon DEF SendEffect, SendStream, Grown

(* What the object still holds comes behind what was sent. *)
LEMMA SentBehind ==
    ASSUME OrderInv, dispatched \in Seq(Msgs), NEW o \in Objs, HeldBehindSent(o),
           NEW n, NEW k, NEW w, NEW v, NEW t, SendEffect(o, n, k, w, v, t)
    PROVE  HeldBehindSent(o)'
<1>1. /\ w = wire[id[o]] /\ v = wire'[id[o]] /\ id'[o] = id[o] /\ dispatched' = dispatched
      /\ k = Current(o) /\ HeldBy(o, k) /\ k \in Msgs
  BY Zenon DEF SendEffect, SendStream, SendKeeps, SendHeld
<1> SUFFICES ASSUME NEW m \in Msgs, HeldBy(o, m)', NEW i \in DOMAIN v
             PROVE  \/ Before(dispatched, v[i][1], m)
                    \/ v[i][1] = m /\ cur'[o] = m /\ v[i][3] < FrameLen
  BY <1>1, Zenon DEF HeldBehindSent
<1>2. \A x \in Msgs : HeldBy(o, x) => \A j \in DOMAIN w :
         \/ Before(dispatched, w[j][1], x)
         \/ w[j][1] = x /\ cur[o] = x /\ w[j][3] < FrameLen
  BY <1>1, Zenon DEF HeldBehindSent
<1>3. HeldBy(o, m) /\ ((m = k /\ cur'[o] = m /\ t < FrameLen) \/ Before(dispatched, k, m))
  BY Zenon DEF SendEffect, SendHeld
<1>4. cur[o] = m => k = m
  BY <1>1, IoAppAssumption DEF Current
<1>5. \A x, y : Before(dispatched, x, y) => x # y
  BY BeforeStrict DEF OrderInv
<1>6. CASE i \in DOMAIN w /\ v[i] = w[i]
  <2>1. \/ Before(dispatched, v[i][1], m)
        \/ v[i][1] = m /\ cur[o] = m /\ v[i][3] < FrameLen
    BY <1>2, <1>3, <1>6, Zenon
  <2>2. cur[o] = m => cur'[o] = m
    BY <1>3, <1>4, <1>5, Zenon
  <2> QED
    BY <2>1, <2>2, Zenon
<1>7. CASE v[i][1] = k /\ v[i][3] = t
  BY <1>3, <1>7, Zenon
<1>9. (i \in DOMAIN w /\ v[i] = w[i]) \/ (v[i][1] = k /\ v[i][3] = t)
  BY Zenon DEF SendEffect, SendStream, OldOrPiece
<1> QED
  BY <1>6, <1>7, <1>9, Zenon

(* Every object goes on where its stream ends. *)
LEMMA SendContinues ==
    ASSUME StreamInv, NEW o \in Objs, ~destroyed[o],
           NEW n, NEW k, NEW w, NEW v, NEW t, SendEffect(o, n, k, w, v, t)
    PROVE  Continues'
<1>1. Continues /\ ConnInv /\ OrderInv /\ dispatched \in Seq(Msgs)
  BY StreamInvTypes DEF StreamInv
<1>2. /\ UNCHANGED <<id, destroyed, dispatched>>
      /\ \A d \in Conns : d # id[o] => wire'[d] = wire[d]
      /\ \A p \in Objs : p # o => /\ cur'[p] = cur[p] /\ plist'[p] = plist[p]
                                  /\ wpos'[p] = wpos[p]
  BY Zenon DEF SendEffect, SendStream, SendKeeps, SendHeld, SendNumbers
<1>3. GoesOn(o)' /\ HeldBehindSent(o)'
  BY <1>1, SentGoesOn, SentBehind DEF Continues
<1>4. ASSUME NEW p \in Objs, p # o, ~destroyed[p]
      PROVE  GoesOn(p)' /\ HeldBehindSent(p)'
  <2>1. GoesOn(p) /\ HeldBehindSent(p)
    BY <1>1, <1>4 DEF Continues
  <2>2. id[p] # id[o] /\ id[p] \in Conns
    BY <1>1, <1>4, OpenServesOne
  <2> QED
    BY <1>2, <1>4, <2>1, <2>2, GoesOnAsBefore, Zenon
<1> QED
  BY <1>1, <1>2, <1>3, <1>4 DEF Continues

(* What was collected is not sent. *)
LEMMA SendCollects ==
    ASSUME StreamInv, NEW o \in Objs,
           NEW n, NEW k, NEW w, NEW v, NEW t, SendEffect(o, n, k, w, v, t)
    PROVE  CollectedOnce'
<1>1. /\ w = wire[id[o]] /\ v = wire'[id[o]] /\ collected' = collected
      /\ \A d \in Conns : d # id[o] => wire'[d] = wire[d]
      /\ k \in Msgs /\ HeldBy(o, k)
      /\ \A p \in Objs, m \in Msgs : HeldBy(p, m)' => HeldBy(p, m)
  BY Zenon DEF SendEffect, SendStream, SendKeeps, SendHeld
<1>2. ~In(k, collected)
  BY <1>1, Zenon DEF StreamInv, CollectedOnce
<1>3. ASSUME NEW m \in Msgs, In(m, collected), NEW d \in Conns, m \in Sent(d)'
      PROVE  m \in Sent(d)
  <2>1. PICK i \in DOMAIN wire'[d] : wire'[d][i][3] = FrameLen /\ wire'[d][i][1] = m
    BY <1>3 DEF Sent
  <2>2. m # k
    BY <1>2, <1>3
  <2>3. i \in DOMAIN v => (i \in DOMAIN w /\ v[i] = w[i]) \/ v[i][1] = k
    BY Zenon DEF SendEffect, SendStream, OldOrPiece
  <2>4. i \in DOMAIN wire[d] /\ wire'[d][i] = wire[d][i]
    <3>1. CASE d # id[o]
      BY <1>1, <2>1, <3>1, Zenon
    <3>2. CASE d = id[o]
      <4>1. i \in DOMAIN v /\ v[i][1] # k
        BY <1>1, <2>1, <2>2, <3>2, Zenon
      <4>2. i \in DOMAIN w /\ v[i] = w[i]
        BY <2>3, <4>1, Zenon
      <4> QED
        BY <1>1, <3>2, <4>2, Zenon
    <3> QED
      BY <3>1, <3>2, Zenon
  <2> QED
    BY <2>1, <2>4, Zenon DEF Sent
<1> QED
  BY <1>1, <1>3, Zenon DEF StreamInv, CollectedOnce

(* writeSocket sends on: the stream goes on where it ended, and the        *)
(* message sent is the oldest the object holds.                            *)
LEMMA SendKeepsStream ==
    ASSUME StreamInv, CleanInv', NEW o \in Objs, ~destroyed[o], HasData(o),
           NEW n \in 0..(FrameLen - wpos[o]), Send(o, n),
           UNCHANGED <<connVars, dispatched, msgQ, batch, state, frames, collected>>
    PROVE  StreamInv'
<1>1. PICK k, w, v, t : SendEffect(o, n, k, w, v, t) /\ HeldOrder'
  BY SendHas, Zenon
<1>2. OrderInv'
  <2>1. /\ k \in Msgs /\ HeldBy(o, k) /\ UNCHANGED <<dispatched, msgQ, batch, collected>>
        /\ \A p \in Objs, m \in Msgs : HeldBy(p, m)' => HeldBy(p, m)
    BY <1>1, Zenon DEF SendEffect, SendKeeps, SendHeld
  <2>2. \A d \in Conns : \A i \in DOMAIN wire'[d] :
           (i \in DOMAIN wire[d] /\ wire'[d][i] = wire[d][i]) \/ wire'[d][i][1] = k
    <3>1. /\ w = wire[id[o]] /\ v = wire'[id[o]] /\ OldOrPiece(w, v, k, t)
          /\ \A d \in Conns : d # id[o] => wire'[d] = wire[d]
      BY <1>1, Zenon DEF SendEffect, SendStream
    <3>3. \A i \in DOMAIN v : (i \in DOMAIN w /\ v[i] = w[i]) \/ v[i][1] = k
      BY <3>1, Zenon DEF OldOrPiece
    <3> QED
      BY <3>1, <3>3, Zenon
  <2>3. \A d \in Conns, m \in Msgs : OnWire(d, m)' => OnWire(d, m) \/ m = k
    BY <2>2, Zenon DEF OnWire
  <2>4. \A m \in Msgs : Past(m)' => Past(m)
    BY <2>1, <2>3, Zenon DEF Past
  <2> QED
    BY <1>1, <2>1, <2>4, PastKeepsOrder, Zenon DEF StreamInv
<1>3. armed' \in [Objs -> BOOLEAN] /\ ArmedIffData'
  BY <1>1, SendArms, Zenon
<1>4. StreamTypes'
  <2>1. /\ wpos' \in [Objs -> 0..(FrameLen - 1)] /\ wire' \in [Conns -> Seq(Units)]
        /\ UNCHANGED <<frames, collected>>
    BY <1>1, Zenon DEF SendEffect, SendNumbers, SendStream, SendKeeps
  <2> QED
    BY <1>3, <2>1 DEF StreamInv, StreamTypes, Units
<1>5. WholeFrames' /\ WireOrder' /\ Continues' /\ CollectedOnce'
  BY <1>1, SendKeepsWire, SendContinues, SendCollects, Zenon
<1>6. UnusedWire'
  <2>1. id[o] \in issued /\ ~In(id[o], sockQ) /\ ~In(id[o], list)
    BY StreamInvTypes, OpenServesOne, Zenon
  <2>2. UNCHANGED <<issued, sockQ, list>> /\ \A d \in Conns : d # id[o] => wire'[d] = wire[d]
    BY <1>1, Zenon DEF SendEffect, SendKeeps, SendStream
  <2> QED
    BY <2>1, <2>2, Zenon DEF StreamInv, UnusedWire
<1> QED
  BY <1>2, <1>3, <1>4, <1>5, <1>6 DEF StreamInv

-----------------------------------------------------------------------------
(* A connection is closed: its object holds nothing any more, and what it  *)
(* held is given to the collector.                                         *)
CloseEffect(o) ==
    /\ UNCHANGED <<id, issued, sockQ, list, dispatched, msgQ, batch, frames, wire>>
    /\ destroyed'[o] /\ \A p \in Objs : p # o => destroyed'[p] = destroyed[p]
    /\ cur'[o] = NoMsg /\ plist'[o] = <<>> /\ wpos'[o] = 0 /\ armed'[o] = FALSE
    /\ \A p \in Objs : p # o => /\ cur'[p] = cur[p] /\ plist'[p] = plist[p]
                                /\ wpos'[p] = wpos[p] /\ armed'[p] = armed[p]
    /\ wpos' \in [Objs -> 0..(FrameLen - 1)] /\ armed' \in [Objs -> BOOLEAN]
    /\ \A m \in Msgs : ~HeldBy(o, m)'
    /\ \A p \in Objs, m \in Msgs : HeldBy(p, m)' => HeldBy(p, m)

(* Closing has that effect. *)
LEMMA CloseHas ==
    ASSUME StreamInv, NEW o \in Objs, Destroy(o, 1), GiveUp(o)
    PROVE  CloseEffect(o)
<1>1. PushTypes /\ StreamTypes /\ ConnInv
  BY StreamInvTypes
<1>2. UNCHANGED <<id, issued, sockQ, list, dispatched, msgQ, batch, frames, wire>>
  BY DEF Destroy, GiveUp
<1>3. destroyed'[o] /\ \A p \in Objs : p # o => destroyed'[p] = destroyed[p]
  BY <1>1 DEF Destroy, ConnInv, ConnTypeOK
<1>4. /\ cur' = [cur EXCEPT ![o] = NoMsg] /\ plist' = [plist EXCEPT ![o] = <<>>]
      /\ wpos' = [wpos EXCEPT ![o] = 0] /\ armed' = [armed EXCEPT ![o] = FALSE]
  BY DEF GiveUp
<1>5. /\ cur'[o] = NoMsg /\ plist'[o] = <<>> /\ wpos'[o] = 0 /\ armed'[o] = FALSE
      /\ \A p \in Objs : p # o => /\ cur'[p] = cur[p] /\ plist'[p] = plist[p]
                                  /\ wpos'[p] = wpos[p] /\ armed'[p] = armed[p]
  BY <1>1, <1>4 DEF PushTypes, StreamTypes
<1>6. 0 \in 0..(FrameLen - 1)
  BY IoAppAssumption
<1>7. wpos' \in [Objs -> 0..(FrameLen - 1)] /\ armed' \in [Objs -> BOOLEAN]
  BY <1>1, <1>4, <1>6 DEF StreamTypes
<1>8. /\ \A m \in Msgs : ~HeldBy(o, m)'
      /\ \A p \in Objs, m \in Msgs : HeldBy(p, m)' => HeldBy(p, m)
  BY <1>1, GiveUpEmpties
<1> QED
  BY <1>2, <1>3, <1>5, <1>7, <1>8, Zenon DEF CloseEffect

(* What an object sends next is one of the messages it holds. *)
LEMMA CurrentIsHeld ==
    ASSUME PushTypes, NEW o \in Objs, HasData(o)
    PROVE  Current(o) \in Msgs /\ HeldBy(o, Current(o))
<1>1. CASE cur[o] # NoMsg
  BY <1>1 DEF Current, HeldBy, PushTypes
<1>2. CASE cur[o] = NoMsg /\ plist[o] # <<>>
  BY <1>2, InTail DEF Current, HeldBy, PushTypes
<1> QED
  BY <1>1, <1>2 DEF HasData

(* A message an object holds is held by no other and was not sent          *)
(* completely.                                                             *)
LEMMA HeldIsUnsent ==
    ASSUME StreamInv, NEW o \in Objs, ~destroyed[o], NEW k \in Msgs, HeldBy(o, k)
    PROVE  /\ \A p \in Objs : HeldBy(p, k) => p = o
           /\ \A c \in Conns : k \notin Sent(c)
<1>1. ConnInv /\ OrderInv /\ dispatched \in Seq(Msgs)
  BY StreamInvTypes
<1>2. /\ \A p \in Objs : HeldBy(p, k) => To[k] = id[p] /\ ~destroyed[p]
      /\ \A c \in Conns : \A i \in DOMAIN wire[c] : To[wire[c][i][1]] = c
  BY DEF StreamInv, CleanInv, HeldForOwner, SentToOwner
<1>3. \A p \in Objs : HeldBy(p, k) => p = o
  BY <1>1, <1>2, OpenServesOne
<1>4. ASSUME NEW c \in Conns, k \in Sent(c)
      PROVE  FALSE
  <2>1. PICK i \in DOMAIN wire[c] : wire[c][i][3] = FrameLen /\ wire[c][i][1] = k
    BY <1>4, Zenon DEF Sent
  <2>2. c = id[o] /\ HeldBehindSent(o)
    BY <1>2, <2>1, Zenon DEF StreamInv, Continues
  <2>3. Before(dispatched, k, k) \/ wire[c][i][3] < FrameLen
    BY <2>1, <2>2, Zenon DEF HeldBehindSent
  <2>4. ~Before(dispatched, k, k)
    BY <1>1, BeforeStrict DEF OrderInv
  <2>5. ~(FrameLen < FrameLen)
    BY IoAppAssumption
  <2> QED
    BY <2>1, <2>3, <2>4, <2>5, Zenon
<1> QED
  BY <1>3, <1>4

(* What closing gives to the collector was not collected and not sent. *)
LEMMA CloseCollects ==
    ASSUME StreamInv, NEW o \in Objs, ~destroyed[o], GiveUp(o), CloseEffect(o)
    PROVE  /\ collected' \in Seq(Msgs) /\ CollectedOnce'
           /\ \A m \in Msgs : Past(m)' => Past(m)
<1>1. PushTypes /\ collected \in Seq(Msgs) /\ CollectedOnce
  BY StreamInvTypes DEF StreamInv
<1>2. /\ wire' = wire /\ \A m \in Msgs : ~HeldBy(o, m)'
      /\ \A p \in Objs, m \in Msgs : HeldBy(p, m)' => HeldBy(p, m)
  BY Zenon DEF CloseEffect
<1>4. CASE ~HasData(o)
  <2>1. collected' = collected
    BY <1>4 DEF GiveUp
  <2>2. CollectedOnce'
    BY <1>1, <1>2, <2>1, CollectedSame
  <2>3. \A m \in Msgs : Past(m)' => Past(m)
    BY <1>2, <2>1, PastSame DEF Past
  <2> QED
    BY <1>1, <2>1, <2>2, <2>3
<1>5. CASE HasData(o)
  <2>1. PICK k \in Msgs : HeldBy(o, k) /\ collected' = Append(collected, k)
    BY <1>1, <1>5, CurrentIsHeld DEF GiveUp
  <2>2. ~In(k, collected)
    BY <1>1, <2>1 DEF CollectedOnce
  <2>3. (\A p \in Objs : ~HeldBy(p, k)') /\ (\A c \in Conns : k \notin Sent(c))
    BY <1>2, <2>1, HeldIsUnsent
  <2>4. CollectedOnce'
    BY <1>1, <1>2, <2>1, <2>2, <2>3, CollectsOne
  <2>5. \A m : In(m, collected') => In(m, collected) \/ m = k
    BY <1>1, <2>1, InAppend
  <2>6. Past(k)
    BY <2>1 DEF Past
  <2>7. \A m \in Msgs : Past(m)' => Past(m)
    BY <1>2, <2>5, <2>6, PastSame DEF Past
  <2>8. collected' \in Seq(Msgs)
    BY <1>1, <2>1
  <2> QED
    BY <2>4, <2>7, <2>8
<1> QED
  BY <1>4, <1>5

(* Closing keeps the streams. *)
LEMMA CloseKeepsStream ==
    ASSUME StreamInv, CleanInv', NEW o \in Objs, ~destroyed[o], Destroy(o, 1), GiveUp(o)
    PROVE  StreamInv'
<1>1. CloseEffect(o)
  BY CloseHas
<1>2. /\ UNCHANGED <<id, issued, sockQ, list, dispatched, msgQ, batch, frames, wire>>
      /\ cur'[o] = NoMsg /\ plist'[o] = <<>> /\ wpos'[o] = 0 /\ armed'[o] = FALSE
      /\ destroyed'[o] /\ \A p \in Objs : p # o => destroyed'[p] = destroyed[p]
      /\ \A p \in Objs : p # o => /\ cur'[p] = cur[p] /\ plist'[p] = plist[p]
                                  /\ wpos'[p] = wpos[p] /\ armed'[p] = armed[p]
  BY <1>1, Zenon DEF CloseEffect
<1>3. /\ collected' \in Seq(Msgs) /\ CollectedOnce'
      /\ \A m \in Msgs : Past(m)' => Past(m)
  BY <1>1, CloseCollects
<1>4. OrderInv'
  <2>1. HeldOrder'
    BY <1>2, HeldOrderSame, Zenon DEF StreamInv, OrderInv
  <2> QED
    BY <1>2, <1>3, <2>1, PastKeepsOrder, Zenon DEF StreamInv
<1>5. StreamTypes'
  <2>1. /\ wpos' \in [Objs -> 0..(FrameLen - 1)] /\ armed' \in [Objs -> BOOLEAN]
        /\ UNCHANGED <<wire, frames>>
    BY <1>1, Zenon DEF CloseEffect
  <2> QED
    BY <1>3, <2>1, Zenon DEF StreamInv, StreamTypes
<1>6. ArmedIffData'
  BY <1>2, Zenon DEF StreamInv, ArmedIffData, HasData
<1>7. WholeFrames' /\ WireOrder' /\ UnusedWire'
  BY <1>2, WireSame, UnusedSame, Zenon DEF StreamInv
<1>8. Continues'
  <2>1. \A p \in Objs : p # o /\ ~destroyed[p] => GoesOn(p)' /\ HeldBehindSent(p)'
    BY <1>2, GoesOnAsBefore, Zenon DEF StreamInv, Continues
  <2>2. \A p \in Objs : destroyed'[p] => wpos'[p] = 0
    BY <1>2, Zenon DEF StreamInv, Continues
  <2> QED
    BY <1>2, <2>1, <2>2, Zenon DEF Continues
<1> QED
  BY <1>3, <1>4, <1>5, <1>6, <1>7, <1>8 DEF StreamInv

-----------------------------------------------------------------------------
(* The streams go on when nothing is sent and no object takes a message. *)
LEMMA StillContinues ==
    ASSUME Continues, UNCHANGED <<id, destroyed, cur, plist, wpos, wire>>,
           \A x, y : Before(dispatched, x, y) => Before(dispatched', x, y)
    PROVE  Continues'
<1>1. \A p \in Objs : ~destroyed[p] => GoesOn(p)' /\ HeldBehindSent(p)'
  BY GoesOnAsBefore, Zenon DEF Continues
<1> QED
  BY <1>1, Zenon DEF Continues

(* The message pushMessage takes comes behind all that were handed out or  *)
(* sent, and is none of these.                                             *)
LEMMA PushedIsNew ==
    ASSUME StreamInv, PushMessage
    PROVE  /\ Head(batch) \in Msgs
           /\ \A x \in Msgs : Past(x) => Before(dispatched, x, Head(batch)) /\ x # Head(batch)
           /\ ~In(Head(batch), collected)
           /\ \A p \in Objs : ~HeldBy(p, Head(batch))
           /\ \A c \in Conns : Head(batch) \notin Sent(c)
<1>1. PushTypes /\ OrderInv /\ dispatched \in Seq(Msgs)
  BY StreamInvTypes
<1>2. PICK m \in Msgs : m = Head(batch) /\ Waits(m)
  BY <1>1, InTail, Zenon DEF PushTypes, PushMessage, Waits
<1>3. \A x \in Msgs : Past(x) => Before(dispatched, x, m) /\ x # m
  BY <1>1, <1>2, BeforeStrict DEF OrderInv, QueueOrder
<1>4. \A c \in Conns : m \in Sent(c) => OnWire(c, m)
  BY DEF Sent, OnWire
<1>5. ~In(m, collected) /\ (\A p \in Objs : ~HeldBy(p, m)) /\ (\A c \in Conns : m \notin Sent(c))
  BY <1>3, <1>4 DEF Past
<1> QED
  BY <1>2, <1>3, <1>5

(* pushMessage finds no connection and gives the message to the collector. *)
LEMMA PushMissed ==
    ASSUME StreamInv, PushMessage, collected' = Append(collected, Head(batch)),
           UNCHANGED <<armed, plist>>
    PROVE  StreamTypes' /\ ArmedIffData' /\ Continues' /\ CollectedOnce'
<1>1. UNCHANGED <<id, destroyed, dispatched, cur, wpos, frames, wire>>
  BY Zenon DEF PushMessage, connVars
<1>2. StreamTypes /\ collected \in Seq(Msgs)
  BY StreamInvTypes
<1>3. PICK m \in Msgs : /\ m = Head(batch) /\ ~In(m, collected)
                        /\ \A p \in Objs : ~HeldBy(p, m)
                        /\ \A c \in Conns : m \notin Sent(c)
  BY PushedIsNew
<1>4. \A p \in Objs, x \in Msgs : HeldBy(p, x)' <=> HeldBy(p, x)
  BY <1>1 DEF HeldBy
<1>5. StreamTypes'
  BY <1>1, <1>2, <1>3 DEF StreamTypes
<1>6. ArmedIffData'
  BY <1>1 DEF StreamInv, ArmedIffData, HasData
<1>7. Continues'
  BY <1>1, StillContinues DEF StreamInv
<1>8. CollectedOnce'
  BY <1>1, <1>2, <1>3, <1>4, CollectsOne DEF StreamInv
<1> QED
  BY <1>5, <1>6, <1>7, <1>8

(* pushMessage puts message m behind what object o holds. *)
PushEffect(o, m) ==
    /\ UNCHANGED <<id, destroyed, dispatched, cur, wpos, frames, wire, collected>>
    /\ o \in Objs /\ m \in Msgs
    /\ \A x \in Msgs : Past(x) => Before(dispatched, x, m) /\ x # m
    /\ armed' \in [Objs -> BOOLEAN] /\ armed'[o] = TRUE /\ plist'[o] # <<>>
    /\ \A p \in Objs : p # o => plist'[p] = plist[p] /\ armed'[p] = armed[p]
    /\ \A p \in Objs, x \in Msgs : HeldBy(p, x)' => HeldBy(p, x) \/ (p = o /\ x = m)

(* Putting a message on a push list has that effect. *)
LEMMA PushHas ==
    ASSUME StreamInv, PushMessage, NEW m, m = Head(batch),
           NEW o, o = register[To[m]], o # NoObj, collected' = collected,
           armed' = [armed EXCEPT ![o] = TRUE],
           plist' = [plist EXCEPT ![o] = Append(plist[o], m)]
    PROVE  PushEffect(o, m)
<1>1. PushTypes /\ StreamTypes /\ ConnInv
  BY StreamInvTypes, Zenon
<1>2. UNCHANGED <<id, destroyed, dispatched, cur, wpos, frames, wire, collected>>
  BY Zenon DEF PushMessage, connVars
<1>3. m \in Msgs /\ \A x \in Msgs : Past(x) => Before(dispatched, x, m) /\ x # m
  BY PushedIsNew, Zenon
<1>4. o \in Objs
  <2>1. To[m] \in Conns
    BY <1>3, IoAppAssumption, Zenon
  <2> QED
    BY <1>1, <2>1, Zenon DEF ConnInv, ConnTypeOK
<1>5. plist[o] \in Seq(Msgs) /\ plist'[o] = Append(plist[o], m) /\ armed'[o] = TRUE
  BY <1>1, <1>4, Zenon DEF PushTypes, StreamTypes
<1>6. /\ armed' \in [Objs -> BOOLEAN]
      /\ \A p \in Objs : p # o => plist'[p] = plist[p] /\ armed'[p] = armed[p]
  BY <1>1, <1>4, Zenon DEF PushTypes, StreamTypes
<1>7. /\ plist'[o] # <<>>
      /\ \A x : In(x, plist'[o]) <=> In(x, plist[o]) \/ x = m
  <2>1. PICK s \in Seq(Msgs) : s = plist[o]
    BY <1>5, Zenon
  <2>2. m \in Msgs
    BY <1>3, Zenon
  <2>3. \A x : In(x, Append(s, m)) <=> In(x, s) \/ x = m
    BY <2>2, InAppend, Zenon
  <2>4. Append(s, m) # <<>>
    BY <2>2, AppendGrows DEF Grown
  <2> QED
    BY <1>5, <2>1, <2>3, <2>4, Zenon
<1>8. \A p \in Objs, x \in Msgs : HeldBy(p, x)' => HeldBy(p, x) \/ (p = o /\ x = m)
  BY <1>2, <1>6, <1>7, Zenon DEF HeldBy
<1> QED
  BY <1>2, <1>3, <1>4, <1>5, <1>6, <1>7, <1>8, Zenon DEF PushEffect

(* The message pushed comes behind all that was sent to its client. *)
LEMMA PushContinues ==
    ASSUME StreamInv, NEW o, NEW m, PushEffect(o, m)
    PROVE  Continues'
<1>1. UNCHANGED <<id, destroyed, dispatched, cur, wpos, wire>>
  BY Zenon DEF PushEffect
<1>2. PushTypes /\ ConnInv
  BY StreamInvTypes
<1>3. ASSUME NEW p \in Objs, ~destroyed[p]
      PROVE  GoesOn(p)' /\ HeldBehindSent(p)'
  <2>1. GoesOn(p) /\ HeldBehindSent(p) /\ id[p] \in Conns
    BY <1>2, <1>3, OpenServesOne, Zenon DEF StreamInv, Continues
  <2>2. GoesOn(p)'
    BY <1>1, <2>1, Zenon DEF GoesOn
  <2>3. ASSUME NEW x \in Msgs, HeldBy(p, x)', NEW i \in DOMAIN wire[id[p]]
        PROVE  \/ Before(dispatched, wire[id[p]][i][1], x)
               \/ wire[id[p]][i][1] = x /\ cur[p] = x /\ wire[id[p]][i][3] < FrameLen
    <3>1. CASE HeldBy(p, x)
      BY <2>1, <2>3, <3>1, Zenon DEF HeldBehindSent
    <3>2. CASE x = m
      <4>1. wire[id[p]][i] \in Pieces
        BY <1>2, <2>1 DEF PushTypes
      <4>2. wire[id[p]][i][1] \in Msgs /\ Past(wire[id[p]][i][1])
        BY <2>1, <4>1, Zenon DEF Pieces, OnWire, Past
      <4> QED
        BY <3>2, <4>2, Zenon DEF PushEffect
    <3> QED
      BY <2>3, <3>1, <3>2, Zenon DEF PushEffect
  <2> QED
    BY <1>1, <2>2, <2>3, Zenon DEF HeldBehindSent
<1> QED
  BY <1>1, <1>3, Zenon DEF StreamInv, Continues

(* A message given to an object keeps the streams intact. *)
LEMMA PushHanded ==
    ASSUME StreamInv, NEW o, NEW m, PushEffect(o, m)
    PROVE  StreamTypes' /\ ArmedIffData' /\ Continues' /\ CollectedOnce'
<1>1. UNCHANGED <<cur, wpos, frames, wire, collected>>
  BY Zenon DEF PushEffect
<1>2. StreamTypes'
  BY <1>1, Zenon DEF StreamInv, StreamTypes, PushEffect
<1>3. ArmedIffData'
  BY <1>1, Zenon DEF StreamInv, ArmedIffData, HasData, PushEffect
<1>4. CollectedOnce'
  <2>1. m \in Msgs /\ ~Past(m)
    BY Zenon DEF PushEffect
  <2>2. \A p \in Objs, x \in Msgs : HeldBy(p, x)' => HeldBy(p, x) \/ x = m
    BY Zenon DEF PushEffect
  <2>3. ~In(m, collected)
    BY <2>1 DEF Past
  <2> QED
    BY <1>1, <2>2, <2>3, CollectedSame, Zenon DEF StreamInv
<1> QED
  BY <1>2, <1>3, <1>4, PushContinues

(* A message pushed, to an object or past a closed connection, keeps the   *)
(* streams intact.                                                         *)
LEMMA PushKeepsStream ==
    ASSUME StreamInv, CleanInv', PushMessage
    PROVE  StreamInv'
<1>1. OrderInv'
  BY StreamInvTypes, PushKeepsOrder DEF StreamInv
<1>2. WholeFrames' /\ WireOrder' /\ UnusedWire'
  <2>1. UNCHANGED <<wire, dispatched, issued, sockQ, list>>
    BY Zenon DEF PushMessage, connVars
  <2> QED
    BY <2>1, WireSame, UnusedSame, Zenon DEF StreamInv
<1>3. StreamTypes' /\ ArmedIffData' /\ Continues' /\ CollectedOnce'
  BY PushMissed, PushHas, PushHanded, Zenon DEF PushMessage, PushPut
<1> QED
  BY <1>1, <1>2, <1>3 DEF StreamInv

-----------------------------------------------------------------------------
(* newConnection: nothing was sent on the connection, and its object holds *)
(* nothing.                                                                *)
NewEffect(o, c) ==
    /\ UNCHANGED <<issued, sockQ, dispatched, msgQ, batch, plist, wpos, frames, wire, collected>>
    /\ c \in Conns /\ In(c, list) /\ \A d : In(d, list') => In(d, list)
    /\ cur'[o] = NoMsg /\ armed'[o] = FALSE /\ id'[o] = c /\ ~destroyed'[o]
    /\ armed' \in [Objs -> BOOLEAN] /\ plist[o] = <<>>
    /\ \A p \in Objs : p # o => /\ cur'[p] = cur[p] /\ armed'[p] = armed[p]
                                /\ id'[p] = id[p] /\ destroyed'[p] = destroyed[p]
    /\ \A p \in Objs, m \in Msgs : HeldBy(p, m)' => HeldBy(p, m) /\ p # o

(* newConnection has that effect. *)
LEMMA NewHas ==
    ASSUME StreamInv, NEW o \in Objs, destroyed[o], NewConnection(o)
    PROVE  NewEffect(o, Head(list))
<1>1. PushTypes /\ StreamTypes /\ ConnInv
  BY StreamInvTypes, Zenon
<1>2. UNCHANGED <<issued, sockQ, dispatched, msgQ, batch, plist, wpos, frames, wire, collected>>
  BY DEF NewConnection, InitConn
<1>3. /\ cur' = [cur EXCEPT ![o] = NoMsg] /\ armed' = [armed EXCEPT ![o] = FALSE]
      /\ id' = [id EXCEPT ![o] = Head(list)] /\ destroyed' = [destroyed EXCEPT ![o] = FALSE]
  BY DEF NewConnection, InitConn
<1>4. list \in Seq(Conns) /\ list # <<>> /\ list' = Tail(list)
  BY <1>1 DEF NewConnection, InitConn, ConnInv, ConnTypeOK
<1>5. Head(list) \in Conns /\ In(Head(list), list) /\ \A d : In(d, list') => In(d, list)
  BY <1>4, InTail
<1>6. /\ cur'[o] = NoMsg /\ armed'[o] = FALSE /\ id'[o] = Head(list) /\ ~destroyed'[o]
      /\ \A p \in Objs : p # o => /\ cur'[p] = cur[p] /\ armed'[p] = armed[p]
                                  /\ id'[p] = id[p] /\ destroyed'[p] = destroyed[p]
  BY <1>1, <1>3, Zenon DEF ConnInv, ConnTypeOK, PushTypes, StreamTypes
<1>7. armed' \in [Objs -> BOOLEAN]
  BY <1>1, <1>3 DEF StreamTypes
<1>8. \A m \in Msgs : ~HeldBy(o, m)
  BY Zenon DEF StreamInv, CleanInv, HeldForOwner
<1>9. plist[o] = <<>>
  <2>1. plist[o] \in Seq(Msgs)
    BY <1>1 DEF PushTypes
  <2>2. plist[o] # <<>> => Head(plist[o]) \in Msgs /\ In(Head(plist[o]), plist[o])
    BY <2>1, InTail
  <2> QED
    BY <1>8, <2>2 DEF HeldBy
<1>10. \A p \in Objs, m \in Msgs : HeldBy(p, m)' => HeldBy(p, m) /\ p # o
  BY <1>2, <1>6, <1>8, IoAppAssumption, Zenon DEF HeldBy
<1> QED
  BY <1>2, <1>5, <1>6, <1>7, <1>9, <1>10, Zenon DEF NewEffect

(* A new connection starts its stream at a whole frame. *)
LEMMA NewContinues ==
    ASSUME StreamInv, NEW o \in Objs, destroyed[o], NEW c, NewEffect(o, c)
    PROVE  Continues'
<1>1. /\ UNCHANGED <<dispatched, plist, wpos, wire>> /\ id'[o] = c /\ ~destroyed'[o]
      /\ \A p \in Objs : p # o => /\ cur'[p] = cur[p] /\ id'[p] = id[p]
                                  /\ destroyed'[p] = destroyed[p]
      /\ \A m \in Msgs : ~HeldBy(o, m)'
  BY Zenon DEF NewEffect
<1>2. wire[c] = <<>> /\ wpos[o] = 0
  BY Zenon DEF StreamInv, UnusedWire, Continues, NewEffect
<1>3. GoesOn(o)'
  BY <1>1, <1>2, Zenon DEF GoesOn
<1>4. HeldBehindSent(o)'
  BY <1>1, Zenon DEF HeldBehindSent
<1>5. \A p \in Objs : p # o /\ ~destroyed[p] => GoesOn(p)' /\ HeldBehindSent(p)'
  BY <1>1, GoesOnAsBefore, Zenon DEF StreamInv, Continues
<1>6. \A p \in Objs : destroyed'[p] => wpos'[p] = 0
  BY <1>1, Zenon DEF StreamInv, Continues
<1> QED
  BY <1>1, <1>3, <1>4, <1>5, <1>6, Zenon DEF Continues

(* An object taken for a new connection keeps the streams intact. *)
LEMMA NewKeepsStream ==
    ASSUME StreamInv, CleanInv', NEW o \in Objs, destroyed[o], NewConnection(o)
    PROVE  StreamInv'
<1>1. PICK c : NewEffect(o, c)
  BY NewHas, Zenon
<1>2. /\ UNCHANGED <<issued, sockQ, dispatched, msgQ, batch, plist, wpos, frames, wire, collected>>
      /\ \A p \in Objs, m \in Msgs : HeldBy(p, m)' => HeldBy(p, m)
      /\ cur'[o] = NoMsg /\ armed'[o] = FALSE /\ plist[o] = <<>>
      /\ \A p \in Objs : p # o => cur'[p] = cur[p] /\ armed'[p] = armed[p]
  BY <1>1, Zenon DEF NewEffect
<1>3. OrderInv'
  <2>1. \A m \in Msgs : Past(m)' => Past(m)
    BY <1>2, PastSame, Zenon DEF Past
  <2>2. HeldOrder'
    BY <1>2, HeldOrderSame, Zenon DEF StreamInv, OrderInv
  <2> QED
    BY <1>2, <2>1, <2>2, PastKeepsOrder, Zenon DEF StreamInv
<1>4. StreamTypes'
  BY <1>1, <1>2, Zenon DEF StreamInv, StreamTypes, NewEffect
<1>5. ArmedIffData'
  BY <1>2, Zenon DEF StreamInv, ArmedIffData, HasData
<1>6. WholeFrames' /\ WireOrder'
  BY <1>2, WireSame, Zenon DEF StreamInv
<1>7. UnusedWire'
  <2>1. \A d : In(d, list') => In(d, list)
    BY <1>1, Zenon DEF NewEffect
  <2> QED
    BY <1>2, <2>1, UnusedSame, Zenon DEF StreamInv
<1>8. CollectedOnce'
  BY <1>2, CollectedSame, Zenon DEF StreamInv
<1> QED
  BY <1>1, <1>3, <1>4, <1>5, <1>6, <1>7, <1>8, NewContinues DEF StreamInv

-----------------------------------------------------------------------------
(* The other steps send nothing and hand out nothing. *)
OtherStep ==
    \/ \E c \in Conns : Dispatch(c)
    \/ NewStart \/ NewEnd \/ Iterate \/ EndPush \/ UNCHANGED vars
    \/ StartPush \/ \E m \in Msgs : DispatchPush(m)
    \/ \E o \in Objs : ReceiveFrame(o)

(* Such a step leaves what the objects hold and what was sent alone. *)
LEMMA OtherStepKeeps ==
    ASSUME OtherStep
    PROVE  UNCHANGED <<id, destroyed, plist, cur, wpos, armed, wire, collected>>
  BY Zenon DEF OtherStep, Dispatch, Accept, NewStart, StartNew, NewEnd, EndNew, Iterate,
         NextIteration, EndPush, StartPush, DispatchPush, ReceiveFrame, vars, connVars, pushVars

(* The queue of the message channel stays in the order of dispatching. *)
LEMMA OtherKeepsOrder ==
    ASSUME StreamInv, OtherStep
    PROVE  /\ OrderInv'
           /\ \A x, y : Before(dispatched, x, y) => Before(dispatched', x, y)
<1>1. OrderInv /\ CleanInv /\ dispatched \in Seq(Msgs)
  BY StreamInvTypes DEF StreamInv
<1>2. CASE StartPush
  BY <1>1, <1>2, QueueKeepsOrder, Zenon DEF StartPush
<1>3. ASSUME NEW m \in Msgs, DispatchPush(m)
      PROVE  OrderInv' /\ \A x, y : Before(dispatched, x, y) => Before(dispatched', x, y)
  BY <1>1, <1>3, QueueKeepsOrder, BeforeAppend, Zenon DEF DispatchPush
<1>4. CASE UNCHANGED <<dispatched, msgQ, batch>>
  <2>1. UNCHANGED <<plist, cur, wire, collected>>
    BY OtherStepKeeps
  <2>2. HeldOrder' /\ \A m \in Msgs : Past(m)' => Past(m)
    <3>1. \A p \in Objs, x \in Msgs : HeldBy(p, x)' => HeldBy(p, x)
      BY <2>1, Zenon DEF HeldBy
    <3>2. \A m \in Msgs : Past(m)' => Past(m)
      BY <2>1, <3>1, PastSame, Zenon DEF Past
    <3> QED
      BY <1>1, <1>4, <2>1, <3>2, HeldOrderSame, Zenon DEF OrderInv
  <2> QED
    BY <1>1, <1>4, <2>2, PastKeepsOrder, Zenon
<1> QED
  BY <1>2, <1>3, <1>4, Zenon DEF OtherStep, Dispatch, NewStart, NewEnd, Iterate, EndPush,
                          ReceiveFrame, vars, pushVars

(* Nothing is sent to a connection that has not been given an object. *)
LEMMA OtherKeepsUnused ==
    ASSUME StreamInv, OtherStep
    PROVE  UnusedWire'
<1>1. wire' = wire /\ UnusedWire /\ ConnInv
  BY OtherStepKeeps, StreamInvTypes, Zenon DEF StreamInv
<1>2. ASSUME NEW c \in Conns, Dispatch(c)
      PROVE  UnusedWire'
  <2>1. sockQ' = Append(sockQ, c) /\ issued' = issued \cup {c} /\ list' = list /\ c \notin issued
    BY <1>2 DEF Dispatch, Accept
  <2>2. \A d : In(d, sockQ') <=> In(d, sockQ) \/ d = c
    BY <1>1, <2>1, InAppend DEF ConnInv, ConnTypeOK
  <2> QED
    BY <1>1, <2>1, <2>2, Zenon DEF UnusedWire
<1>3. CASE NewStart
  <2>1. sockQ' = <<>> /\ list' = sockQ /\ issued' = issued
    BY <1>3 DEF NewStart, StartNew
  <2> QED
    BY <1>1, <2>1, InEmpty, Zenon DEF UnusedWire
<1>4. CASE UNCHANGED <<issued, sockQ, list>>
  BY <1>1, <1>4, Zenon DEF UnusedWire
<1> QED
  BY <1>2, <1>3, <1>4, Zenon DEF OtherStep, NewEnd, EndNew, Iterate, NextIteration, EndPush,
                          StartPush, DispatchPush, ReceiveFrame, vars, connVars

(* A frame received is recorded with its connection and state. *)
LEMMA OtherKeepsFrames ==
    ASSUME StreamInv, OtherStep
    PROVE  frames' \subseteq Conns \X {0, 1}
<1>1. PushTypes /\ StreamTypes /\ ConnInv
  BY StreamInvTypes
<1>2. ASSUME NEW o \in Objs, ReceiveFrame(o)
      PROVE  frames' \subseteq Conns \X {0, 1}
  <2>1. id[o] \in Conns /\ state[o] \in {0, 1}
    BY <1>1, <1>2, OpenServesOne, Zenon DEF ReceiveFrame, PushTypes
  <2>2. frames' = frames \cup {<<id[o], state[o]>>} /\ frames \subseteq Conns \X {0, 1}
    BY <1>1, <1>2, Zenon DEF ReceiveFrame, StreamTypes
  <2> QED
    BY <2>1, <2>2
<1>3. CASE frames' = frames
  BY <1>1, <1>3 DEF StreamTypes
<1> QED
  BY <1>2, <1>3, Zenon DEF OtherStep, Dispatch, NewStart, NewEnd, Iterate, EndPush, StartPush,
                    DispatchPush, vars, pushVars

(* Such a step keeps the streams intact. *)
LEMMA OtherKeepsStream ==
    ASSUME StreamInv, CleanInv', OtherStep
    PROVE  StreamInv'
<1>1. UNCHANGED <<id, destroyed, plist, cur, wpos, armed, wire, collected>>
  BY OtherStepKeeps, Zenon
<1>2. OrderInv' /\ \A x, y : Before(dispatched, x, y) => Before(dispatched', x, y)
  BY OtherKeepsOrder
<1>3. StreamTypes'
  BY <1>1, OtherKeepsFrames DEF StreamInv, StreamTypes
<1>4. ArmedIffData'
  BY <1>1, Zenon DEF StreamInv, ArmedIffData, HasData
<1>5. WholeFrames' /\ WireOrder'
  BY <1>1, <1>2, WireSame, Zenon DEF StreamInv
<1>6. Continues'
  BY <1>1, <1>2, StillContinues, Zenon DEF StreamInv
<1>7. CollectedOnce'
  <2>1. \A p \in Objs, x \in Msgs : HeldBy(p, x)' => HeldBy(p, x)
    BY <1>1, Zenon DEF HeldBy
  <2> QED
    BY <1>1, <2>1, CollectedSame, Zenon DEF StreamInv
<1> QED
  BY <1>2, <1>3, <1>4, <1>5, <1>6, <1>7, OtherKeepsUnused DEF StreamInv

-----------------------------------------------------------------------------
(* The streams are sound at the start. *)
LEMMA InitialStreams ==
    ASSUME Init, CleanInv
    PROVE  StreamInv
<1>a. /\ \A o \in Objs : plist[o] = <<>> /\ cur[o] = NoMsg
      /\ \A c \in Conns : wire[c] = <<>>
      /\ collected = <<>> /\ msgQ = <<>> /\ batch = <<>>
  BY Zenon DEF Init
<1>e. \A c \in Conns : \A i : i \notin DOMAIN wire[c]
  BY <1>a
<1>m. \A m \in Msgs : m # NoMsg
  BY IoAppAssumption, Zenon
<1>1. \A m \in Msgs : ~Past(m) /\ ~Waits(m)
  BY <1>a, <1>e, <1>m, InEmpty, Zenon DEF Past, HeldBy, OnWire, Waits
<1>2. OrderInv
  BY <1>1, InEmpty
  DEF Init, OrderInv, DispatchedOnce, QueueOrder, Sorted, PastDispatched, HeldOrder
<1>3. StreamTypes
  <2>1. 0 \in 0..(FrameLen - 1) /\ <<>> \in Seq(Units) /\ <<>> \in Seq(Msgs)
    BY IoAppAssumption
  <2> QED
    BY <2>1 DEF Init, StreamTypes, Units
<1>4. ArmedIffData
  BY DEF Init, ArmedIffData, HasData
<1>5. WholeFrames /\ WireOrder
  BY <1>e, Zenon DEF WholeFrames, WireOrder
<1>6. Continues
  BY DEF Init, ConnInit, Continues
<1>7. UnusedWire
  BY DEF Init, UnusedWire
<1>8. CollectedOnce
  BY InEmpty DEF Init, CollectedOnce
<1> QED
  BY <1>2, <1>3, <1>4, <1>5, <1>6, <1>7, <1>8 DEF StreamInv
=============================================================================
