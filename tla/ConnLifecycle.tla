--------------------------- MODULE ConnLifecycle ----------------------------
(***************************************************************************)
(* The connection objects of one IO thread (IoApp::Impl): how a dispatched *)
(* socket gets an object, how the object is registered under the           *)
(* connection's id, and how it is recycled when the connection closes.     *)
(*                                                                         *)
(* All actions but Accept are steps of the IO thread, inside callbacks of  *)
(* its libevent loop.  One pass over the active events is an iteration;    *)
(* the new-socket callback runs at most once in an iteration.              *)
(***************************************************************************)
EXTENDS Integers, Sequences, FiniteSets

CONSTANTS
    Conns,      \* connection ids, each dispatched at most once
    Objs,       \* addresses of IoAppConnection objects
    NoConn,     \* the id of memory never used for an object
    NoObj,      \* "not in the register"
    Leftover,   \* TRUE: clients may leave the header of another frame behind
                \* a complete frame in the read buffer when the socket fails
    MaxLoop     \* bound: no wakeup with an empty queue once here

ASSUME ConnAssumption ==
    /\ NoConn \notin Conns
    /\ NoObj \notin Objs
    /\ IsFiniteSet(Conns)
    /\ Leftover \in BOOLEAN
    /\ MaxLoop \in Nat

VARIABLES
    sockQ,      \* _sock_queue: ids of the dispatched sockets
    issued,     \* ids the acceptor has given out
    pc,         \* which callback runs: "loop" (none), "new" or "push"
    list,       \* newConnection: what it still has to initialize
    register,   \* _online_register
    connCount,  \* _conn_count
    cache,      \* _cache._cache: objects ready for reuse
    recycle,    \* _cache._recycle: closed objects with their loop count
    loopCount,  \* _cache._loop_count
    id,         \* _id of every object
    destroyed,  \* _destroy of every object
    newRan,     \* newConnection has run in this iteration
    closedNow   \* objects closed in this iteration

connVars == <<sockQ, issued, pc, list, register, connCount, cache, recycle,
              loopCount, id, destroyed, newRan, closedNow>>

ConnTypeOK ==
    /\ sockQ \in Seq(Conns)
    /\ issued \in SUBSET Conns
    /\ pc \in {"loop", "new", "push"}
    /\ list \in Seq(Conns)
    /\ register \in [Conns -> Objs \cup {NoObj}]
    /\ connCount \in Int
    /\ cache \in Seq(Objs)
    /\ recycle \in Seq([obj : Objs, loop : Nat])
    /\ loopCount \in Nat
    /\ id \in [Objs -> Conns \cup {NoConn}]
    /\ destroyed \in [Objs -> BOOLEAN]
    /\ newRan \in BOOLEAN
    /\ closedNow \in SUBSET Objs

ConnInit ==
    /\ sockQ = <<>>
    /\ issued = {}
    /\ pc = "loop"
    /\ list = <<>>
    /\ register = [c \in Conns |-> NoObj]
    /\ connCount = 0
    /\ cache = <<>>
    /\ recycle = <<>>
    /\ loopCount = 0
    /\ id = [o \in Objs |-> NoConn]
    /\ destroyed = [o \in Objs |-> TRUE]
    /\ newRan = FALSE
    /\ closedNow = {}

-----------------------------------------------------------------------------
(* The acceptor gives the next id to a socket and dispatches it here. *)
Accept(c) ==
    /\ c \notin issued
    /\ issued' = issued \cup {c}
    /\ sockQ' = Append(sockQ, c)
    /\ UNCHANGED <<pc, list, register, connCount, cache, recycle, loopCount,
                   id, destroyed, newRan, closedNow>>

(* A slip: newConnection serves the first socket and forgets the others. *)
StartNewFirst ==
    /\ pc = "loop"
    /\ ~newRan
    /\ sockQ # <<>> \/ loopCount < MaxLoop
    /\ list' = IF sockQ = <<>> THEN <<>> ELSE <<Head(sockQ)>>
    /\ sockQ' = <<>>
    /\ pc' = "new"
    /\ newRan' = TRUE
    /\ UNCHANGED <<issued, register, connCount, cache, recycle, loopCount,
                   id, destroyed, closedNow>>

(* newConnection takes the whole queue, which may be empty: a byte may be  *)
(* left over from an earlier wakeup.                                       *)
StartNew ==
    /\ pc = "loop"
    /\ ~newRan
    /\ sockQ # <<>> \/ loopCount < MaxLoop
    /\ list' = sockQ
    /\ sockQ' = <<>>
    /\ pc' = "new"
    /\ newRan' = TRUE
    /\ UNCHANGED <<issued, register, connCount, cache, recycle, loopCount,
                   id, destroyed, closedNow>>

(* A slip: a recycled object may be used again at once. *)
RipeAtOnce(node) == loopCount >= node.loop

(* A recycled object may be used again after a later newConnection. *)
Ripe(node) == loopCount > node.loop

(* ConnectionCache::get, for the object o it returns: the first of the     *)
(* cache; or, with the cache empty, all ripe nodes at the head of the      *)
(* recycle list are moved to the cache and the first of them is taken; or  *)
(* a new object.                                                           *)
CacheGet(o) ==
    \/ /\ cache # <<>>
       /\ o = Head(cache)
       /\ cache' = Tail(cache)
       /\ UNCHANGED recycle
    \/ /\ cache = <<>>
       /\ \E k \in 1..Len(recycle) :
             /\ \A i \in 1..k : Ripe(recycle[i])
             /\ k < Len(recycle) => ~Ripe(recycle[k + 1])
             /\ o = recycle[1].obj
             /\ cache' = [i \in 1..(k - 1) |-> recycle[i + 1].obj]
             /\ recycle' = SubSeq(recycle, k + 1, Len(recycle))
    \/ /\ cache = <<>>
       /\ recycle # <<>> => ~Ripe(recycle[1])
       /\ id[o] = NoConn
       /\ UNCHANGED <<cache, recycle>>

(* One round of the loop in newConnection: the socket gets an object,      *)
(* which is initialized, counted and registered.                           *)
InitConn(o) ==
    /\ pc = "new"
    /\ list # <<>>
    /\ CacheGet(o)
    /\ connCount' = connCount + 1
    /\ id' = [id EXCEPT ![o] = Head(list)]
    /\ destroyed' = [destroyed EXCEPT ![o] = FALSE]
    /\ register' = [register EXCEPT ![Head(list)] = o]
    /\ list' = Tail(list)
    /\ UNCHANGED <<sockQ, issued, pc, loopCount, newRan, closedNow>>

(* The end of newConnection. *)
EndNew ==
    /\ pc = "new"
    /\ list = <<>>
    /\ loopCount' = loopCount + 1
    /\ pc' = "loop"
    /\ UNCHANGED <<sockQ, issued, list, register, connCount, cache, recycle,
                   id, destroyed, newRan, closedNow>>

(* A slip: the entry stays in the register. *)
DestroyKeepsEntry(o, n) ==
    /\ connCount' = connCount - n
    /\ recycle' = recycle \o [i \in 1..n |-> [obj |-> o, loop |-> loopCount]]
    /\ destroyed' = [destroyed EXCEPT ![o] = TRUE]
    /\ closedNow' = closedNow \cup {o}
    /\ UNCHANGED <<sockQ, issued, pc, list, register, cache, loopCount, id,
                   newRan>>

(* IoApp::Impl::destroy run n times on object o, the last calls of         *)
(* closeSocket and resetSocket.                                            *)
Destroy(o, n) ==
    /\ connCount' = connCount - n
    /\ register' = [register EXCEPT ![id[o]] = NoObj]
    /\ recycle' = recycle \o [i \in 1..n |-> [obj |-> o, loop |-> loopCount]]
    /\ destroyed' = [destroyed EXCEPT ![o] = TRUE]
    /\ closedNow' = closedNow \cup {o}
    /\ UNCHANGED <<sockQ, issued, pc, list, cache, loopCount, id, newRan>>

(* A callback of an open connection closes or resets it: end of stream,    *)
(* a timeout, a frame it refuses, a failed write, a message that says so.  *)
CloseConn(o) ==
    /\ pc = "loop"
    /\ ~destroyed[o]
    /\ Destroy(o, 1)

(* readSocket after a failed recv in SOCKET_RECV_FRAMING: with the header  *)
(* of another frame in the buffer the code falls through to a second       *)
(* resetSocket (frame too large, or a recv on the closed descriptor).      *)
ReadFails(o) ==
    /\ pc = "loop"
    /\ ~destroyed[o]
    /\ \E header \in {FALSE, Leftover} : Destroy(o, IF header THEN 2 ELSE 1)

(* libevent collects the active events anew. *)
NextIteration ==
    /\ pc = "loop"
    /\ newRan \/ closedNow # {}
    /\ newRan' = FALSE
    /\ closedNow' = {}
    /\ UNCHANGED <<sockQ, issued, pc, list, register, connCount, cache,
                   recycle, loopCount, id, destroyed>>

ConnNext ==
    \/ \E c \in Conns : Accept(c)
    \/ StartNew
    \/ \E o \in Objs : InitConn(o)
    \/ EndNew
    \/ \E o \in Objs : CloseConn(o)
    \/ \E o \in Objs : ReadFails(o)
    \/ NextIteration

(* The IO thread keeps running its loop, and the notification protocol     *)
(* (IoNotify) wakes it while sockets are queued.                           *)
ConnFairness ==
    /\ WF_connVars(StartNew)
    /\ WF_connVars(\E o \in Objs : InitConn(o))
    /\ WF_connVars(EndNew)
    /\ WF_connVars(NextIteration)

ConnSpec == ConnInit /\ [][ConnNext]_connVars /\ ConnFairness

-----------------------------------------------------------------------------
Online == {c \in Conns : register[c] # NoObj}

(* OneOwner: an object is in one place at a time.  A registered object is  *)
(* open and carries the id it is registered under; a free object occurs    *)
(* once in the cache or the recycle list and nowhere else.  Otherwise two  *)
(* connections would share a socket buffer and a push list.                *)
OneOwner ==
    /\ \A c \in Online : id[register[c]] = c /\ ~destroyed[register[c]]
    /\ \A i \in DOMAIN cache, j \in DOMAIN recycle : cache[i] # recycle[j].obj
    /\ \A i, j \in DOMAIN cache : cache[i] = cache[j] => i = j
    /\ \A i, j \in DOMAIN recycle : recycle[i].obj = recycle[j].obj => i = j
    /\ \A i \in DOMAIN cache : destroyed[cache[i]] /\ id[cache[i]] # NoConn
    /\ \A i \in DOMAIN recycle :
          destroyed[recycle[i].obj] /\ id[recycle[i].obj] # NoConn

(* OpenIsRegistered: an open object is found under its id, so a message    *)
(* for the connection reaches it and its id is never reused.               *)
OpenIsRegistered == \A o \in Objs : ~destroyed[o] => register[id[o]] = o

(* CountExact: _conn_count, which the acceptor reads to choose an IO       *)
(* thread and to enforce io_max, is the number of registered connections.  *)
CountExact == connCount = Cardinality(Online)

(* NoReuseInIteration: an object closed in an iteration of the event loop  *)
(* is not given to another connection in that iteration, while events of   *)
(* the old connection may still be active: what the loop count of the      *)
(* recycle list is for.                                                    *)
NoReuseInIteration ==
    [][\A o \in Objs : id'[o] # id[o] => o \notin closedNow]_connVars

(* EverySocketServed: a dispatched socket eventually gets an object and is *)
(* registered, whatever closes meanwhile.                                  *)
EverySocketServed ==
    \A c \in Conns :
        (\E i \in DOMAIN sockQ : sockQ[i] = c) ~> register[c] # NoObj

-----------------------------------------------------------------------------
(* The inductive invariant of these properties. *)

(* The sockets on their way to an object are distinct and not served yet. *)
Waiting ==
    /\ \A i \in DOMAIN sockQ : sockQ[i] \in issued
    /\ \A i \in DOMAIN list : list[i] \in issued
    /\ \A i, j \in DOMAIN sockQ : sockQ[i] = sockQ[j] => i = j
    /\ \A i, j \in DOMAIN list : list[i] = list[j] => i = j
    /\ \A i \in DOMAIN sockQ, j \in DOMAIN list : sockQ[i] # list[j]
    /\ \A o \in Objs : ~destroyed[o] =>
          /\ id[o] \in issued
          /\ \A i \in DOMAIN sockQ : sockQ[i] # id[o]
          /\ \A i \in DOMAIN list : list[i] # id[o]
    /\ pc = "loop" => list = <<>>

(* Until newConnection has run in an iteration, what the iteration closed  *)
(* is not ripe.                                                            *)
ClosedNotRipe ==
    /\ pc = "new" => newRan
    /\ \A o \in closedNow : id[o] # NoConn
    /\ pc = "new" \/ ~newRan =>
          /\ \A i \in DOMAIN cache : cache[i] \notin closedNow
          /\ \A i \in DOMAIN recycle :
                recycle[i].obj \in closedNow => ~Ripe(recycle[i])

ConnInv ==
    /\ ConnTypeOK
    /\ OneOwner
    /\ OpenIsRegistered
    /\ Waiting
    /\ ClosedNotRipe
=============================================================================
