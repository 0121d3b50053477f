------------------------ MODULE ConnLifecycleProofs -------------------------
(***************************************************************************)
(* The life of connection objects, for any number of connections and       *)
(* objects: with clients that leave no frame header in the buffer of a     *)
(* failing socket (Leftover = FALSE), objects are never shared, the        *)
(* connection count is exact and no object is reused too early.            *)
(***************************************************************************)
EXTENDS ConnLifecycle, TLAPS, FiniteSetTheorems

(* The pool of free objects holds each at most once. *)
PoolOK(c, r) ==
    /\ \A i \in DOMAIN c, j \in DOMAIN r : c[i] # r[j].obj
    /\ \A i, j \in DOMAIN c : c[i] = c[j] => i = j
    /\ \A i, j \in DOMAIN r : r[i].obj = r[j].obj => i = j

Nodes == [obj : Objs, loop : Nat]

(* What a call of ConnectionCache::get that returns o does to the pool: o  *)
(* was free and is gone, the others are still there, and only what is ripe *)
(* has moved.                                                              *)
GetEffect(o) ==
    /\ cache' \in Seq(Objs)
    /\ recycle' \in Seq(Nodes)
    /\ PoolOK(cache', recycle')
    /\ \/ id[o] = NoConn
       \/ \E j \in DOMAIN cache : o = cache[j]
       \/ \E j \in DOMAIN recycle : o = recycle[j].obj /\ Ripe(recycle[j])
    /\ \A i \in DOMAIN cache' :
          /\ cache'[i] # o
          /\ \/ \E j \in DOMAIN cache : cache'[i] = cache[j]
             \/ \E j \in DOMAIN recycle :
                   cache'[i] = recycle[j].obj /\ Ripe(recycle[j])
    /\ \A i \in DOMAIN recycle' :
          /\ recycle'[i].obj # o
          /\ \E j \in DOMAIN recycle : recycle'[i] = recycle[j]

-----------------------------------------------------------------------------
(* The nodes of a recycle list hold objects. *)
LEMMA NodeObjects ==
    ASSUME NEW r \in Seq(Nodes)
    PROVE  \A i \in DOMAIN r : r[i] \in Nodes /\ r[i].obj \in Objs
<1>1. \A i \in DOMAIN r : r[i] \in Nodes
  OBVIOUS
<1>2. QED
  BY <1>1 DEF Nodes

(* Taking the first element of the cache. *)
LEMMA PoolTail ==
    ASSUME NEW c \in Seq(Objs), NEW r \in Seq(Nodes), c # <<>>, PoolOK(c, r)
    PROVE  /\ Tail(c) \in Seq(Objs)
           /\ PoolOK(Tail(c), r)
           /\ 1 \in DOMAIN c /\ Head(c) = c[1]
           /\ \A i \in DOMAIN Tail(c) :
                 Tail(c)[i] # Head(c) /\ \E j \in DOMAIN c : Tail(c)[i] = c[j]
           /\ \A i \in DOMAIN r : r[i].obj # Head(c)
<1>1. /\ Tail(c) \in Seq(Objs)
      /\ DOMAIN Tail(c) = 1..(Len(c) - 1)
      /\ \A i \in 1..(Len(c) - 1) : Tail(c)[i] = c[i + 1]
      /\ Head(c) = c[1]
      /\ Len(c) \in Nat /\ Len(c) > 0
      /\ DOMAIN c = 1..Len(c)
  OBVIOUS
<1>2. 1 \in DOMAIN c /\ \A i \in DOMAIN Tail(c) : i + 1 \in DOMAIN c /\ i + 1 # 1
  BY <1>1
<1>3. \A i \in DOMAIN Tail(c) : Tail(c)[i] # Head(c) /\ Tail(c)[i] = c[i + 1]
  BY <1>1, <1>2 DEF PoolOK
<1>4. \A i, j \in DOMAIN Tail(c) : Tail(c)[i] = Tail(c)[j] => i = j
  <2> SUFFICES ASSUME NEW i \in DOMAIN Tail(c), NEW j \in DOMAIN Tail(c),
                      Tail(c)[i] = Tail(c)[j]
               PROVE  i = j
    OBVIOUS
  <2>1. i + 1 = j + 1
    BY <1>2, <1>3 DEF PoolOK
  <2>2. i \in Nat /\ j \in Nat
    BY <1>1
  <2>3. QED
    BY <2>1, <2>2
<1>5. PoolOK(Tail(c), r)
  BY <1>2, <1>3, <1>4 DEF PoolOK
<1>6. \A i \in DOMAIN r : r[i].obj # Head(c)
  BY <1>1, <1>2 DEF PoolOK
<1>7. QED
  BY <1>1, <1>2, <1>3, <1>5, <1>6

Moved(r, k) == [i \in 1..(k - 1) |-> r[i + 1].obj]
Kept(r, k) == SubSeq(r, k + 1, Len(r))

RipenEffect(r, k, c, q) ==
    /\ c \in Seq(Objs)
    /\ q \in Seq(Nodes)
    /\ PoolOK(c, q)
    /\ 1 \in DOMAIN r /\ 1 \in 1..k
    /\ \A i \in DOMAIN c :
          /\ c[i] # r[1].obj
          /\ \E j \in 1..k : j \in DOMAIN r /\ c[i] = r[j].obj
    /\ \A i \in DOMAIN q :
          /\ q[i].obj # r[1].obj
          /\ \E j \in DOMAIN r : q[i] = r[j]

(* Moving the first k nodes of the recycle list to an empty cache and      *)
(* taking the first of them.                                               *)
LEMMA PoolRipen ==
    ASSUME NEW r \in Seq(Nodes), NEW k \in 1..Len(r), PoolOK(<<>>, r)
    PROVE  RipenEffect(r, k, Moved(r, k), Kept(r, k))
<1> DEFINE n == Len(r)
           c == Moved(r, k)
           q == Kept(r, k)
<1>1. n \in Nat /\ k \in Nat /\ k >= 1 /\ k <= n /\ DOMAIN r = 1..n
  OBVIOUS
<1>2. /\ 1 \in DOMAIN r /\ 1 \in 1..k
      /\ \A i \in 1..(k - 1) : i + 1 \in DOMAIN r /\ i + 1 \in 1..k /\ i + 1 # 1
      /\ \A i \in 1..(n - k) : i + k \in DOMAIN r /\ i + k \notin 1..k /\ i + k # 1
  BY <1>1
<1>3. \A i \in DOMAIN r : r[i] \in Nodes /\ r[i].obj \in Objs
  BY NodeObjects
<1>4. c \in Seq(Objs) /\ DOMAIN c = 1..(k - 1) /\ \A i \in DOMAIN c : c[i] = r[i + 1].obj
  <2>1. \A i \in 1..(k - 1) : r[i + 1].obj \in Objs
    BY <1>2, <1>3
  <2>2. k - 1 \in Nat
    BY <1>1
  <2>3. QED
    BY <2>1, <2>2 DEF Moved
<1>5. q \in Seq(Nodes) /\ DOMAIN q = 1..(n - k) /\ \A i \in DOMAIN q : q[i] = r[i + k]
  <2>1. \A i \in (k + 1)..n : r[i] \in Nodes
    BY <1>1
  <2>2. /\ q \in Seq(Nodes)
        /\ Len(q) = n - k
        /\ \A i \in 1..(n - k) : q[i] = r[i + k]
    <3>1. q = [i \in 1..(n - k) |-> r[k + i]]
      <4>1. n - (k + 1) + 1 = n - k /\ \A i \in 1..(n - k) : (k + 1) + i - 1 = k + i
        BY <1>1
      <4>2. q = [i \in 1..(n - (k + 1) + 1) |-> r[(k + 1) + i - 1]]
        BY <1>1 DEF Kept
      <4> HIDE DEF q, n
      <4>3. QED
        BY <4>1, <4>2
    <3> HIDE DEF n, q
    <3>2. n - k \in Nat /\ \A i \in 1..(n - k) : k + i = i + k /\ k + i \in (k + 1)..n
      BY <1>1
    <3>3. QED
      BY <2>1, <3>1, <3>2
  <2>3. QED
    BY <2>2
<1> HIDE DEF n, c, q
<1>6. \A i, j \in DOMAIN r : r[i].obj = r[j].obj => i = j
  BY DEF PoolOK
<1>7. PoolOK(c, q)
  <2>1. ASSUME NEW i \in DOMAIN c, NEW j \in DOMAIN q
        PROVE  c[i] # q[j].obj
    <3>1. i + 1 \in DOMAIN r /\ j + k \in DOMAIN r /\ i + 1 # j + k
      BY <1>1, <1>2, <1>4, <1>5
    <3>2. QED
      BY <3>1, <1>4, <1>5, <1>6
  <2>2. ASSUME NEW i \in DOMAIN c, NEW j \in DOMAIN c, c[i] = c[j]
        PROVE  i = j
    <3>1. i + 1 \in DOMAIN r /\ j + 1 \in DOMAIN r /\ i \in Nat /\ j \in Nat
      BY <1>2, <1>4
    <3>2. i + 1 = j + 1
      BY <2>2, <3>1, <1>4, <1>6, Zenon
    <3>3. QED
      BY <3>1, <3>2
  <2>3. ASSUME NEW i \in DOMAIN q, NEW j \in DOMAIN q, q[i].obj = q[j].obj
        PROVE  i = j
    <3>1. i + k \in DOMAIN r /\ j + k \in DOMAIN r /\ i \in Nat /\ j \in Nat
      BY <1>2, <1>5
    <3>2. i + k = j + k
      BY <2>3, <3>1, <1>5, <1>6
    <3>3. QED
      BY <3>1, <3>2, <1>1
  <2>4. QED
    BY <2>1, <2>2, <2>3 DEF PoolOK
<1>8. \A i \in DOMAIN c :
        c[i] # r[1].obj /\ \E j \in 1..k : j \in DOMAIN r /\ c[i] = r[j].obj
  BY <1>2, <1>4, <1>6
<1>9. \A i \in DOMAIN q :
        q[i].obj # r[1].obj /\ \E j \in DOMAIN r : q[i] = r[j]
  BY <1>2, <1>5, <1>6
<1>10. QED
  BY <1>2, <1>4, <1>5, <1>7, <1>8, <1>9 DEF c, q, RipenEffect

(* ConnectionCache::get returns a free object and keeps the pool in order. *)
LEMMA CacheGetEffect ==
    ASSUME ConnInv, NEW o \in Objs, CacheGet(o)
    PROVE  GetEffect(o)
<1>1. /\ cache \in Seq(Objs)
      /\ recycle \in Seq(Nodes)
      /\ PoolOK(cache, recycle)
  BY DEF ConnInv, ConnTypeOK, OneOwner, PoolOK, Nodes
<1>2. CASE /\ cache # <<>>
           /\ o = Head(cache)
           /\ cache' = Tail(cache)
           /\ UNCHANGED recycle
  BY <1>1, <1>2, PoolTail DEF GetEffect
<1>3. ASSUME cache = <<>>,
             NEW k \in 1..Len(recycle),
             \A i \in 1..k : Ripe(recycle[i]),
             o = recycle[1].obj,
             cache' = [i \in 1..(k - 1) |-> recycle[i + 1].obj],
             recycle' = SubSeq(recycle, k + 1, Len(recycle))
      PROVE  GetEffect(o)
  <2>1. cache' = Moved(recycle, k) /\ recycle' = Kept(recycle, k)
    BY <1>3 DEF Moved, Kept
  <2>2. PoolOK(<<>>, recycle)
    BY <1>1, <1>3
  <2>3. RipenEffect(recycle, k, Moved(recycle, k), Kept(recycle, k))
    BY <1>1, <1>3, <2>2, PoolRipen
  <2>4. RipenEffect(recycle, k, cache', recycle')
    BY <2>1, <2>3
  <2>5. QED
    BY <1>3, <2>4 DEF GetEffect, RipenEffect
<1>4. CASE /\ cache = <<>>
           /\ id[o] = NoConn
           /\ UNCHANGED <<cache, recycle>>
  <2>1. \A i \in DOMAIN recycle : recycle[i].obj # o
    BY <1>4 DEF ConnInv, OneOwner
  <2>2. QED
    BY <1>1, <1>4, <2>1 DEF GetEffect
<1>5. QED
  BY <1>2, <1>3, <1>4 DEF CacheGet

-----------------------------------------------------------------------------
(* What appending one element does. *)
LEMMA AppendOne ==
    ASSUME NEW S, NEW s \in Seq(S), NEW e \in S
    PROVE  /\ Append(s, e) \in Seq(S)
           /\ DOMAIN Append(s, e) = DOMAIN s \cup {Len(s) + 1}
           /\ Len(s) + 1 \notin DOMAIN s
           /\ \A i \in DOMAIN s : Append(s, e)[i] = s[i]
           /\ Append(s, e)[Len(s) + 1] = e
<1>1. Len(s) \in Nat /\ DOMAIN s = 1..Len(s)
  OBVIOUS
<1>2. DOMAIN Append(s, e) = 1..(Len(s) + 1)
  OBVIOUS
<1>3. QED
  BY <1>1, <1>2

(* The list that holds one recycled node is that node appended. *)
LEMMA RecycleOne ==
    ASSUME NEW r \in Seq(Nodes), NEW e \in Nodes
    PROVE  r \o [i \in 1..1 |-> e] = Append(r, e)
<1>1. [i \in 1..1 |-> e] = <<e>>
  OBVIOUS
<1>2. QED
  BY <1>1

(* Dispatching a socket with a new id keeps the invariant. *)
LEMMA AcceptKeeps ==
    ASSUME ConnInv, NEW c \in Conns, Accept(c)
    PROVE  ConnInv'
<1>1. ConnTypeOK'
  BY DEF ConnInv, ConnTypeOK, Accept
<1>2. OneOwner' /\ OpenIsRegistered' /\ ClosedNotRipe'
  BY DEF ConnInv, Accept, OneOwner, OpenIsRegistered, ClosedNotRipe, Online, Ripe
<1>3. Waiting'
  <2>1. /\ DOMAIN sockQ' = DOMAIN sockQ \cup {Len(sockQ) + 1}
        /\ \A i \in DOMAIN sockQ : sockQ'[i] = sockQ[i]
        /\ sockQ'[Len(sockQ) + 1] = c
    BY AppendOne DEF ConnInv, ConnTypeOK, Accept
  <2>2. /\ c \notin issued /\ issued' = issued \cup {c}
        /\ UNCHANGED <<list, pc, id, destroyed>>
    BY DEF Accept
  <2>3. QED
    BY <2>1, <2>2 DEF ConnInv, Waiting
<1>4. QED
  BY <1>1, <1>2, <1>3 DEF ConnInv

(* newConnection taking the queued sockets keeps the invariant. *)
LEMMA StartNewKeeps ==
    ASSUME ConnInv, StartNew
    PROVE  ConnInv'
<1>1. ConnTypeOK'
  BY DEF ConnInv, ConnTypeOK, StartNew
<1>2. OneOwner' /\ OpenIsRegistered'
  BY DEF ConnInv, StartNew, OneOwner, OpenIsRegistered, Online
<1>3. ClosedNotRipe'
  BY DEF ConnInv, StartNew, ClosedNotRipe, Ripe
<1>4. Waiting'
  BY DEF ConnInv, Waiting, StartNew
<1>5. QED
  BY <1>1, <1>2, <1>3, <1>4 DEF ConnInv

(* Giving a socket an object and registering it keeps the invariant. *)
LEMMA InitConnKeeps ==
    ASSUME ConnInv, NEW o \in Objs, InitConn(o)
    PROVE  ConnInv'
<1> DEFINE c == Head(list)
<1>1. GetEffect(o)
  BY CacheGetEffect DEF InitConn
<1>2. /\ c \in Conns
      /\ list' \in Seq(Conns)
      /\ 1 \in DOMAIN list /\ c = list[1]
      /\ \A i \in DOMAIN list' : i + 1 \in DOMAIN list /\ i + 1 # 1 /\ i \in Nat
      /\ \A i \in DOMAIN list' : list'[i] = list[i + 1]
  BY DEF ConnInv, ConnTypeOK, InitConn
<1> HIDE DEF c
<1>3. /\ pc = "new"
      /\ connCount' = connCount + 1
      /\ id' = [id EXCEPT ![o] = c]
      /\ destroyed' = [destroyed EXCEPT ![o] = FALSE]
      /\ register' = [register EXCEPT ![c] = o]
      /\ UNCHANGED <<sockQ, issued, pc, loopCount, newRan, closedNow>>
  BY DEF InitConn, c
<1>4. ConnTypeOK'
  BY <1>1, <1>2, <1>3 DEF ConnInv, ConnTypeOK, GetEffect, Nodes
<1>5. /\ id'[o] = c /\ ~destroyed'[o] /\ register'[c] = o
      /\ \A p \in Objs : p # o => id'[p] = id[p] /\ destroyed'[p] = destroyed[p]
      /\ \A d \in Conns : d # c => register'[d] = register[d]
  BY <1>2, <1>3 DEF ConnInv, ConnTypeOK
(* The object was not registered, and neither was the connection. *)
<1>6. \A d \in Conns : register[d] # o
  <2>1. id[o] = NoConn \/ destroyed[o]
    BY <1>1 DEF GetEffect, ConnInv, OneOwner
  <2>2. QED
    BY <2>1, ConnAssumption DEF ConnInv, OneOwner, Online
<1>7. \A p \in Objs : ~destroyed[p] => id[p] # c
  BY <1>2 DEF ConnInv, Waiting
<1>8. OneOwner'
  <2>1. \A d \in Online' : id'[register'[d]] = d /\ ~destroyed'[register'[d]]
    <3> SUFFICES ASSUME NEW d \in Conns, register'[d] # NoObj
                 PROVE  id'[register'[d]] = d /\ ~destroyed'[register'[d]]
      BY DEF Online
    <3>1. CASE d = c
      BY <3>1, <1>5
    <3>2. CASE d # c
      <4>1. register'[d] = register[d] /\ register[d] \in Objs /\ register[d] # o
        BY <3>2, <1>5, <1>6 DEF ConnInv, ConnTypeOK
      <4>2. QED
        BY <4>1, <1>5 DEF ConnInv, OneOwner, Online
    <3>3. QED
      BY <3>1, <3>2
  <2>2. \A i \in DOMAIN cache' :
          destroyed'[cache'[i]] /\ id'[cache'[i]] # NoConn
    <3> SUFFICES ASSUME NEW i \in DOMAIN cache'
                 PROVE  destroyed'[cache'[i]] /\ id'[cache'[i]] # NoConn
      OBVIOUS
    <3>1. /\ cache'[i] # o
          /\ destroyed[cache'[i]] /\ id[cache'[i]] # NoConn
      BY <1>1 DEF GetEffect, ConnInv, OneOwner
    <3>2. cache'[i] \in Objs
      <4>1. cache' \in Seq(Objs)
        BY <1>1 DEF GetEffect
      <4>2. QED
        BY <4>1 DEF Nodes
    <3>3. QED
      BY <3>1, <3>2, <1>5
  <2>3. \A i \in DOMAIN recycle' :
          destroyed'[recycle'[i].obj] /\ id'[recycle'[i].obj] # NoConn
    <3> SUFFICES ASSUME NEW i \in DOMAIN recycle'
                 PROVE  destroyed'[recycle'[i].obj] /\ id'[recycle'[i].obj] # NoConn
      OBVIOUS
    <3>1. /\ recycle'[i].obj # o
          /\ destroyed[recycle'[i].obj] /\ id[recycle'[i].obj] # NoConn
      BY <1>1 DEF GetEffect, ConnInv, OneOwner
    <3>2. recycle'[i].obj \in Objs
      BY <1>1, NodeObjects DEF GetEffect
    <3>3. QED
      BY <3>1, <3>2, <1>5
  <2>4. PoolOK(cache', recycle')
    BY <1>1 DEF GetEffect
  <2>5. QED
    BY <2>1, <2>2, <2>3, <2>4 DEF OneOwner, PoolOK
<1>9. OpenIsRegistered'
  <2> SUFFICES ASSUME NEW p \in Objs, ~destroyed'[p]
               PROVE  register'[id'[p]] = p
    BY DEF OpenIsRegistered
  <2>1. CASE p = o
    BY <2>1, <1>5
  <2>2. CASE p # o
    <3>1. ~destroyed[p] /\ id'[p] = id[p] /\ id[p] # c /\ id[p] \in Conns
      BY <2>2, <1>5, <1>7 DEF ConnInv, Waiting, ConnTypeOK
    <3>2. QED
      BY <3>1, <1>5 DEF ConnInv, OpenIsRegistered
  <2>3. QED
    BY <2>1, <2>2
<1>10. Waiting'
  <2>1. \A i, j \in DOMAIN list' : list'[i] = list'[j] => i = j
    <3> SUFFICES ASSUME NEW i \in DOMAIN list', NEW j \in DOMAIN list',
                        list'[i] = list'[j]
                 PROVE  i = j
      OBVIOUS
    <3>1. i + 1 = j + 1
      BY <1>2 DEF ConnInv, Waiting
    <3>2. QED
      BY <3>1, <1>2
  <2>2. \A i \in DOMAIN list' : list'[i] # c /\ list'[i] \in issued
    BY <1>2 DEF ConnInv, Waiting
  <2>3. c \in issued /\ \A i \in DOMAIN sockQ : sockQ[i] # c
    BY <1>2 DEF ConnInv, Waiting
  <2>4. \A p \in Objs : ~destroyed'[p] =>
          /\ id'[p] \in issued
          /\ \A i \in DOMAIN sockQ : sockQ[i] # id'[p]
          /\ \A i \in DOMAIN list' : list'[i] # id'[p]
    <3> SUFFICES ASSUME NEW p \in Objs, ~destroyed'[p]
                 PROVE  /\ id'[p] \in issued
                        /\ \A i \in DOMAIN sockQ : sockQ[i] # id'[p]
                        /\ \A i \in DOMAIN list' : list'[i] # id'[p]
      OBVIOUS
    <3>1. CASE p = o
      BY <3>1, <1>5, <2>2, <2>3
    <3>2. CASE p # o
      <4>1. ~destroyed[p] /\ id'[p] = id[p]
        BY <3>2, <1>5
      <4>2. QED
        BY <4>1, <1>2 DEF ConnInv, Waiting
    <3>3. QED
      BY <3>1, <3>2
  <2>5. \A i \in DOMAIN sockQ, j \in DOMAIN list' : sockQ[i] # list'[j]
    BY <1>2 DEF ConnInv, Waiting
  <2>6. QED
    BY <1>3, <2>1, <2>2, <2>4, <2>5, Zenon DEF ConnInv, Waiting
<1>11. ClosedNotRipe'
  <2>1. \A p \in closedNow : id'[p] # NoConn
    BY <1>2, <1>5, ConnAssumption, Zenon DEF ConnInv, ClosedNotRipe, ConnTypeOK
  <2>a. /\ \A i \in DOMAIN cache : cache[i] \notin closedNow
        /\ \A i \in DOMAIN recycle : recycle[i].obj \in closedNow => ~Ripe(recycle[i])
    BY <1>3, Zenon DEF ConnInv, ClosedNotRipe
  <2>b. \A i \in DOMAIN cache' :
          \/ \E j \in DOMAIN cache : cache'[i] = cache[j]
          \/ \E j \in DOMAIN recycle : cache'[i] = recycle[j].obj /\ Ripe(recycle[j])
    BY <1>1, Zenon DEF GetEffect
  <2>2. \A i \in DOMAIN cache' : cache'[i] \notin closedNow
    BY <2>a, <2>b, Zenon
  <2>3. \A i \in DOMAIN recycle' :
          recycle'[i].obj \in closedNow => ~Ripe(recycle'[i])
    BY <1>1, <1>3 DEF GetEffect, ConnInv, ClosedNotRipe
  <2>4. QED
    BY <1>3, <2>1, <2>2, <2>3 DEF ClosedNotRipe, Ripe, ConnInv
<1>12. QED
  BY <1>4, <1>8, <1>9, <1>10, <1>11 DEF ConnInv

(* newConnection returning to the event loop keeps the invariant. *)
LEMMA EndNewKeeps ==
    ASSUME ConnInv, EndNew
    PROVE  ConnInv'
<1>1. ConnTypeOK'
  BY DEF ConnInv, ConnTypeOK, EndNew
<1>2. OneOwner' /\ OpenIsRegistered' /\ Waiting'
  BY DEF ConnInv, EndNew, OneOwner, OpenIsRegistered, Waiting, Online
<1>3. ClosedNotRipe'
  BY DEF ConnInv, EndNew, ClosedNotRipe
<1>4. QED
  BY <1>1, <1>2, <1>3 DEF ConnInv

(* One run of destroy on an open object. *)
LEMMA DestroyKeeps ==
    ASSUME ConnInv, NEW o \in Objs, pc = "loop", ~destroyed[o], Destroy(o, 1)
    PROVE  ConnInv'
<1> DEFINE e == [obj |-> o, loop |-> loopCount]
<1>1. /\ e \in Nodes /\ e.obj = o /\ ~Ripe(e)
      /\ recycle \in Seq(Nodes)
  BY DEF ConnInv, ConnTypeOK, Nodes, Ripe
<1>2. recycle' = Append(recycle, e)
  BY <1>1, RecycleOne DEF Destroy
<1> HIDE DEF e
<1>3. /\ recycle' \in Seq(Nodes)
      /\ DOMAIN recycle' = DOMAIN recycle \cup {Len(recycle) + 1}
      /\ Len(recycle) + 1 \notin DOMAIN recycle
      /\ \A i \in DOMAIN recycle : recycle'[i] = recycle[i]
      /\ recycle'[Len(recycle) + 1] = e
  BY <1>1, <1>2, AppendOne
<1>4. /\ id[o] \in Conns
      /\ register[id[o]] = o
  BY DEF ConnInv, ConnTypeOK, Waiting, OpenIsRegistered
<1>5. /\ connCount' = connCount - 1
      /\ register' = [register EXCEPT ![id[o]] = NoObj]
      /\ destroyed' = [destroyed EXCEPT ![o] = TRUE]
      /\ closedNow' = closedNow \cup {o}
      /\ UNCHANGED <<sockQ, issued, pc, list, cache, loopCount, id, newRan>>
  BY DEF Destroy
<1>6. /\ destroyed'[o]
      /\ \A p \in Objs : p # o => destroyed'[p] = destroyed[p]
      /\ register'[id[o]] = NoObj
      /\ \A d \in Conns : d # id[o] => register'[d] = register[d]
  BY <1>4, <1>5 DEF ConnInv, ConnTypeOK
<1>7. ConnTypeOK'
  <2>1. recycle' \in Seq([obj : Objs, loop : Nat])
    BY <1>3 DEF Nodes
  <2>2. connCount' \in Int /\ closedNow' \in SUBSET Objs
    BY <1>5 DEF ConnInv, ConnTypeOK
  <2>3. /\ register' \in [Conns -> Objs \cup {NoObj}]
        /\ destroyed' \in [Objs -> BOOLEAN]
    BY <1>5 DEF ConnInv, ConnTypeOK
  <2>4. QED
    BY <1>5, <2>1, <2>2, <2>3 DEF ConnInv, ConnTypeOK
<1>8. OneOwner'
  <2>1. \A d \in Online' : id'[register'[d]] = d /\ ~destroyed'[register'[d]]
    <3> SUFFICES ASSUME NEW d \in Conns, register'[d] # NoObj
                 PROVE  id[register'[d]] = d /\ ~destroyed'[register'[d]]
      BY <1>5, Zenon DEF Online
    <3>1. d # id[o] /\ register'[d] = register[d] /\ register[d] \in Objs
      BY <1>6 DEF ConnInv, ConnTypeOK
    <3>2. id[register[d]] = d /\ ~destroyed[register[d]]
      BY <3>1 DEF ConnInv, OneOwner, Online
    <3>3. QED
      BY <3>1, <3>2, <1>6, Zenon
  <2>2. /\ \A i \in DOMAIN cache : cache[i] # o
        /\ \A i \in DOMAIN recycle : recycle[i].obj # o
    BY DEF ConnInv, OneOwner
  <2>3. PoolOK(cache', recycle')
    BY <1>1, <1>3, <1>5, <2>2 DEF PoolOK, ConnInv, OneOwner
  <2>4. \A i \in DOMAIN cache' : destroyed'[cache'[i]] /\ id'[cache'[i]] # NoConn
    <3>1. \A i \in DOMAIN cache : cache[i] \in Objs
      BY DEF ConnInv, ConnTypeOK
    <3>2. QED
      BY <1>5, <1>6, <3>1 DEF ConnInv, OneOwner
  <2>5. \A i \in DOMAIN recycle' :
          destroyed'[recycle'[i].obj] /\ id'[recycle'[i].obj] # NoConn
    <3>1. \A i \in DOMAIN recycle : recycle[i].obj \in Objs
      BY <1>1, NodeObjects, Zenon
    <3>2. id[o] # NoConn
      BY <1>4, ConnAssumption
    <3>3. \A i \in DOMAIN recycle :
            destroyed'[recycle[i].obj] /\ id[recycle[i].obj] # NoConn
      BY <1>6, <3>1 DEF ConnInv, OneOwner
    <3>4. QED
      BY <1>1, <1>3, <1>5, <1>6, <3>2, <3>3
  <2>6. QED
    BY <2>1, <2>3, <2>4, <2>5 DEF OneOwner, PoolOK
<1>9. OpenIsRegistered'
  <2> SUFFICES ASSUME NEW p \in Objs, ~destroyed'[p]
               PROVE  register'[id[p]] = p
    BY <1>5 DEF OpenIsRegistered
  <2>1. p # o /\ ~destroyed[p]
    BY <1>6
  <2>2. register[id[p]] = p /\ id[p] \in Conns
    BY <2>1 DEF ConnInv, OpenIsRegistered, Waiting, ConnTypeOK
  <2>3. QED
    BY <2>1, <2>2, <1>4, <1>6, Zenon
<1>10. Waiting'
  BY <1>5, <1>6, Zenon DEF ConnInv, Waiting
<1>11. ClosedNotRipe'
  <2>1. \A p \in closedNow' : id'[p] # NoConn
    BY <1>4, <1>5, ConnAssumption, Zenon DEF ConnInv, ClosedNotRipe
  <2>2. ASSUME ~newRan
        PROVE  /\ \A i \in DOMAIN cache : cache[i] \notin closedNow'
               /\ \A i \in DOMAIN recycle' :
                     recycle'[i].obj \in closedNow' => ~Ripe(recycle'[i])
    <3>1. \A i \in DOMAIN cache : cache[i] # o
      BY DEF ConnInv, OneOwner
    <3>2. \A i \in DOMAIN recycle : recycle[i].obj # o
      BY DEF ConnInv, OneOwner
    <3>3. QED
      BY <2>2, <3>1, <3>2, <1>1, <1>3, <1>5, Zenon DEF ConnInv, ClosedNotRipe
  <2>3. QED
    BY <2>1, <2>2, <1>5 DEF ConnInv, ClosedNotRipe, Ripe
<1>12. QED
  BY <1>7, <1>8, <1>9, <1>10, <1>11 DEF ConnInv

(* A new pass of the event loop keeps the invariant. *)
LEMMA NextIterationKeeps ==
    ASSUME ConnInv, NextIteration
    PROVE  ConnInv'
<1>1. ConnTypeOK'
  BY DEF ConnInv, ConnTypeOK, NextIteration
<1>2. OneOwner' /\ OpenIsRegistered' /\ Waiting'
  BY Zenon DEF ConnInv, NextIteration, OneOwner, OpenIsRegistered, Waiting, Online
<1>3. ClosedNotRipe'
  BY Zenon DEF ConnInv, NextIteration, ClosedNotRipe
<1>4. QED
  BY <1>1, <1>2, <1>3 DEF ConnInv

(* A step that changes nothing keeps the invariant. *)
LEMMA StutterKeeps ==
    ASSUME ConnInv, UNCHANGED connVars
    PROVE  ConnInv'
<1>1. UNCHANGED <<sockQ, issued, pc, list, register, connCount, cache, recycle, loopCount, id,
                  destroyed, newRan, closedNow>>
  BY Zenon DEF connVars
<1>2. ConnTypeOK'
  BY <1>1, Zenon DEF ConnInv, ConnTypeOK
<1>3. OneOwner' /\ OpenIsRegistered'
  BY <1>1, Zenon DEF ConnInv, OneOwner, OpenIsRegistered, Online
<1>4. Waiting'
  BY <1>1, Zenon DEF ConnInv, Waiting
<1>5. ClosedNotRipe'
  BY <1>1, Zenon DEF ConnInv, ClosedNotRipe, Ripe
<1> QED
  BY <1>2, <1>3, <1>4, <1>5, Zenon DEF ConnInv

(* With no frame header left behind, a failed recv resets once. *)
LEMMA ReadFailsOnce ==
    ASSUME Leftover = FALSE, NEW o \in Objs, ReadFails(o)
    PROVE  pc = "loop" /\ ~destroyed[o] /\ Destroy(o, 1)
  BY DEF ReadFails

(* An IO thread starts with no objects. *)
LEMMA InitiallySound == ConnInit => ConnInv
<1> SUFFICES ASSUME ConnInit
             PROVE  ConnInv
  OBVIOUS
<1>1. ConnTypeOK
  <2>1. /\ sockQ \in Seq(Conns) /\ list \in Seq(Conns) /\ cache \in Seq(Objs)
        /\ recycle \in Seq([obj : Objs, loop : Nat])
    BY DEF ConnInit
  <2>2. /\ register \in [Conns -> Objs \cup {NoObj}]
        /\ id \in [Objs -> Conns \cup {NoConn}]
        /\ destroyed \in [Objs -> BOOLEAN]
    BY DEF ConnInit
  <2>3. issued \in SUBSET Conns /\ closedNow \in SUBSET Objs
    BY DEF ConnInit
  <2>4. pc \in {"loop", "new", "push"} /\ newRan \in BOOLEAN
    BY DEF ConnInit
  <2>5. connCount \in Int /\ loopCount \in Nat
    BY DEF ConnInit
  <2>6. QED
    BY <2>1, <2>2, <2>3, <2>4, <2>5 DEF ConnTypeOK
<1>2. OneOwner /\ OpenIsRegistered
  BY DEF ConnInit, OneOwner, OpenIsRegistered, Online
<1>3. Waiting /\ ClosedNotRipe
  BY DEF ConnInit, Waiting, ClosedNotRipe
<1>4. QED
  BY <1>1, <1>2, <1>3 DEF ConnInv

(* The inductive invariant. *)
THEOREM Inductive ==
    ASSUME Leftover = FALSE
    PROVE  ConnSpec => []ConnInv
<1>1. ConnInit => ConnInv
  BY InitiallySound
<1>2. ConnInv /\ [ConnNext]_connVars => ConnInv'
  <2> SUFFICES ASSUME ConnInv, [ConnNext]_connVars
               PROVE  ConnInv'
    OBVIOUS
  <2>1. ASSUME NEW c \in Conns, Accept(c)
        PROVE  ConnInv'
    BY <2>1, AcceptKeeps
  <2>2. CASE StartNew
    BY <2>2, StartNewKeeps
  <2>3. ASSUME NEW o \in Objs, InitConn(o)
        PROVE  ConnInv'
    BY <2>3, InitConnKeeps
  <2>4. CASE EndNew
    BY <2>4, EndNewKeeps
  <2>5. ASSUME NEW o \in Objs, CloseConn(o)
        PROVE  ConnInv'
    BY <2>5, DestroyKeeps DEF CloseConn
  <2>6. ASSUME NEW o \in Objs, ReadFails(o)
        PROVE  ConnInv'
    BY <2>6, ReadFailsOnce, DestroyKeeps
  <2>7. CASE NextIteration
    BY <2>7, NextIterationKeeps
  <2>8. CASE UNCHANGED connVars
    BY <2>8, StutterKeeps
  <2>9. QED
    BY <2>1, <2>2, <2>3, <2>4, <2>5, <2>6, <2>7, <2>8 DEF ConnNext
<1>3. QED
  BY <1>1, <1>2, PTL DEF ConnSpec

(* Connection objects stay in their types, and the connection count is an  *)
(* integer.                                                                *)
THEOREM ConnTypeCorrect ==
    ASSUME Leftover = FALSE
    PROVE  ConnSpec => []ConnTypeOK
<1>1. ConnInv => ConnTypeOK
  BY DEF ConnInv
<1>2. QED
  BY <1>1, Inductive, PTL

(* No connection object is ever shared by two connections or free while a  *)
(* connection uses it.                                                     *)
THEOREM ObjectsNotShared ==
    ASSUME Leftover = FALSE
    PROVE  ConnSpec => []OneOwner
<1>1. ConnInv => OneOwner
  BY DEF ConnInv
<1>2. QED
  BY <1>1, Inductive, PTL

(* Every open connection is found under its id. *)
THEOREM OpenConnectionsFound ==
    ASSUME Leftover = FALSE
    PROVE  ConnSpec => []OpenIsRegistered
<1>1. ConnInv => OpenIsRegistered
  BY DEF ConnInv
<1>2. QED
  BY <1>1, Inductive, PTL

(* _conn_count is the number of registered connections. *)
THEOREM ConnCountExact ==
    ASSUME Leftover = FALSE
    PROVE  ConnSpec => []CountExact
<1>1. ConnInit => CountExact
  <2> SUFFICES ASSUME ConnInit
               PROVE  CountExact
    OBVIOUS
  <2>1. Online = {}
    BY DEF ConnInit, Online
  <2>2. QED
    BY <2>1, FS_EmptySet DEF ConnInit, CountExact
<1>2. ConnInv /\ CountExact /\ [ConnNext]_connVars => CountExact'
  <2> SUFFICES ASSUME ConnInv, CountExact, [ConnNext]_connVars
               PROVE  CountExact'
    OBVIOUS
  <2>1. IsFiniteSet(Online) /\ Cardinality(Online) \in Nat
    <3>1. IsFiniteSet(Online)
      BY ConnAssumption, FS_Subset DEF Online
    <3>2. QED
      BY <3>1, FS_CardinalityType
  <2>2. ASSUME NEW o \in Objs, InitConn(o)
        PROVE  CountExact'
    <3>1. Head(list) \in Conns /\ 1 \in DOMAIN list /\ Head(list) = list[1]
      BY <2>2 DEF InitConn, ConnInv, ConnTypeOK
    <3>2. Head(list) \notin Online
      <4> SUFFICES ASSUME Head(list) \in Online
                   PROVE  FALSE
        OBVIOUS
      <4>1. register[Head(list)] \in Objs
        BY <3>1 DEF Online, ConnInv, ConnTypeOK
      <4>2. id[register[Head(list)]] = Head(list) /\ ~destroyed[register[Head(list)]]
        BY DEF ConnInv, OneOwner
      <4>3. QED
        BY <3>1, <4>1, <4>2 DEF ConnInv, Waiting
    <3>3. Online' = Online \cup {Head(list)}
      <4>1. /\ register' = [register EXCEPT ![Head(list)] = o]
            /\ register \in [Conns -> Objs \cup {NoObj}]
        BY <2>2 DEF InitConn, ConnInv, ConnTypeOK
      <4>2. QED
        BY <4>1, <3>1, ConnAssumption DEF Online
    <3>4. Cardinality(Online') = Cardinality(Online) + 1
      BY <2>1, <3>2, <3>3, FS_AddElement
    <3>5. QED
      BY <2>2, <3>4 DEF CountExact, InitConn
  <2>3. ASSUME NEW o \in Objs, pc = "loop", ~destroyed[o], Destroy(o, 1)
        PROVE  CountExact'
    <3>1. id[o] \in Conns /\ register[id[o]] = o
      BY <2>3 DEF ConnInv, ConnTypeOK, Waiting, OpenIsRegistered
    <3>2. id[o] \in Online
      BY <3>1, ConnAssumption DEF Online
    <3>3. Online' = Online \ {id[o]}
      <4>1. /\ register' = [register EXCEPT ![id[o]] = NoObj]
            /\ register \in [Conns -> Objs \cup {NoObj}]
        BY <2>3 DEF Destroy, ConnInv, ConnTypeOK
      <4>2. QED
        BY <4>1, <3>1, ConnAssumption DEF Online
    <3>4. Cardinality(Online') = Cardinality(Online) - 1
      BY <2>1, <3>2, <3>3, FS_RemoveElement
    <3>5. QED
      BY <2>3, <3>4 DEF CountExact, Destroy
  <2>4. ASSUME UNCHANGED <<register, connCount>>
        PROVE  CountExact'
    BY <2>4 DEF CountExact, Online
  <2>5. ASSUME NEW c \in Conns, Accept(c)
        PROVE  CountExact'
    BY <2>4, <2>5 DEF Accept
  <2>6. CASE StartNew
    BY <2>4, <2>6 DEF StartNew
  <2>7. CASE EndNew
    BY <2>4, <2>7 DEF EndNew
  <2>8. CASE NextIteration
    BY <2>4, <2>8 DEF NextIteration
  <2>9. CASE UNCHANGED connVars
    BY <2>4, <2>9 DEF connVars
  <2>10. ASSUME NEW o \in Objs, CloseConn(o) \/ ReadFails(o)
         PROVE  CountExact'
    BY <2>3, <2>10, ReadFailsOnce DEF CloseConn
  <2>11. QED
    BY <2>2, <2>5, <2>6, <2>7, <2>8, <2>9, <2>10 DEF ConnNext
<1>3. QED
  BY <1>1, <1>2, Inductive, PTL DEF ConnSpec

(* An object closed in an iteration of the event loop is not reused in it. *)
THEOREM NoEarlyReuse ==
    ASSUME Leftover = FALSE
    PROVE  ConnSpec => NoReuseInIteration
<1> DEFINE Reuse == \A o \in Objs : id'[o] # id[o] => o \notin closedNow
<1>1. ConnInv /\ [ConnNext]_connVars => [Reuse]_connVars
  <2> SUFFICES ASSUME ConnInv, ConnNext
               PROVE  Reuse
    OBVIOUS
  <2>1. ASSUME NEW o \in Objs, InitConn(o)
        PROVE  Reuse
    <3>1. GetEffect(o) /\ pc = "new"
      BY <2>1, CacheGetEffect DEF InitConn
    <3>2. o \notin closedNow
      <4>1. /\ \A p \in closedNow : id[p] # NoConn
            /\ \A i \in DOMAIN cache : cache[i] \notin closedNow
            /\ \A i \in DOMAIN recycle : recycle[i].obj \in closedNow => ~Ripe(recycle[i])
        BY <3>1, Zenon DEF ConnInv, ClosedNotRipe
      <4>2. \/ id[o] = NoConn
            \/ \E j \in DOMAIN cache : o = cache[j]
            \/ \E j \in DOMAIN recycle : o = recycle[j].obj /\ Ripe(recycle[j])
        BY <3>1, Zenon DEF GetEffect
      <4>3. QED
        BY <4>1, <4>2, Zenon
    <3>3. \A p \in Objs : p # o => id'[p] = id[p]
      BY <2>1 DEF InitConn, ConnInv, ConnTypeOK
    <3>4. QED
      BY <3>2, <3>3
  <2>2. ASSUME UNCHANGED id
        PROVE  Reuse
    BY <2>2
  <2>3. QED
    BY <2>1, <2>2 DEF ConnNext, Accept, StartNew, EndNew, CloseConn,
       ReadFails, Destroy, NextIteration
<1>2. QED
  BY <1>1, Inductive, PTL DEF ConnSpec, NoReuseInIteration
=============================================================================
