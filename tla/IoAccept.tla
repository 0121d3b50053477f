------------------------------ MODULE IoAccept -------------------------------
(***************************************************************************)
(* The acceptor thread and the choice of an IO thread for a new socket:    *)
(* the accept callback, IoAppAcceptService::run and                        *)
(* IoAppCluster::dispatchConnection, with the IO threads reduced to their  *)
(* socket queues and connection counts.                                    *)
(*                                                                         *)
(* dispatchConnection reads the counts of the threads one after another    *)
(* while the threads change them.  An IO thread empties its queue first    *)
(* and then counts the sockets it took one by one: until then a scan sees  *)
(* nothing of them.                                                        *)
(***************************************************************************)
EXTENDS Integers, FiniteSetsExt, Sequences, SequencesExt

CONSTANTS
    ClusterSize,    \* _cluster_size
    SocketMax,      \* _socket_max
    Clients         \* bound: connections made in the run

VARIABLES
    backlog,        \* connections waiting in the listen queue
    made,           \* connections made so far
    id,             \* _id, the last connection id
    pc,             \* the acceptor: "loop" or "scan"
    i, socket_count, min, to,   \* the locals of dispatchConnection
    sock_queue,     \* _sock_queue of every IO thread: connection ids
    taken,          \* the list newConnection took from it and goes through
    conn_count,     \* _conn_count of every IO thread
    online,         \* the connections of every IO thread
    dropped,        \* ids refused, their sockets closed
    late            \* history: the most sockets not yet counted when a scan began

acceptor == <<pc, i, socket_count, min, to>>
vars == <<backlog, made, id, acceptor, sock_queue, taken, conn_count, online, dropped, late>>

Io == 0..ClusterSize - 1
Ids == 1..Clients
Queued(t) == Range(sock_queue[t])
Uncounted(t) == Queued(t) \cup Range(taken[t])
AllUncounted == UNION {Uncounted(t) : t \in Io}
AllOnline == UNION {online[t] : t \in Io}

TypeOK ==
    /\ backlog \in 0..Clients /\ made \in 0..Clients /\ id \in 0..Clients
    /\ pc \in {"loop", "scan"}
    /\ i \in 0..ClusterSize /\ to \in Io
    /\ socket_count \in Nat /\ min \in 0..SocketMax
    /\ sock_queue \in [Io -> Seq(Ids)] /\ taken \in [Io -> Seq(Ids)]
    /\ online \in [Io -> SUBSET Ids]
    /\ conn_count = [t \in Io |-> Cardinality(online[t])]
    /\ dropped \in SUBSET Ids /\ late \in 0..Clients

Init ==
    /\ backlog = 0 /\ made = 0 /\ id = 0
    /\ pc = "loop" /\ i = 0 /\ socket_count = 0 /\ min = 0 /\ to = 0
    /\ sock_queue = [t \in Io |-> <<>>] /\ taken = [t \in Io |-> <<>>]
    /\ conn_count = [t \in Io |-> 0]
    /\ online = [t \in Io |-> {}]
    /\ dropped = {} /\ late = 0

(* A client connects: the kernel queues the connection. *)
Connect ==
    /\ made < Clients
    /\ made' = made + 1 /\ backlog' = backlog + 1
    /\ UNCHANGED <<id, acceptor, sock_queue, taken, conn_count, online, dropped, late>>

(* The accept callback: accept() may fail and leave the connection where   *)
(* it is (no descriptor is free) or drop it, and making the socket         *)
(* non-blocking may fail, which closes it.                                 *)
AcceptFails ==
    /\ pc = "loop" /\ backlog > 0
    /\ backlog' \in {backlog, backlog - 1}
    /\ UNCHANGED <<made, id, acceptor, sock_queue, taken, conn_count, online, dropped, late>>

Accept ==
    /\ pc = "loop" /\ backlog > 0
    /\ backlog' = backlog - 1
    /\ id' = id + 1
    /\ pc' = "scan" /\ i' = 0
    /\ socket_count' = 0 /\ min' = SocketMax /\ to' = 0
    /\ late' = Max({late, Cardinality(AllUncounted)})
    /\ UNCHANGED <<made, sock_queue, taken, conn_count, online, dropped>>

ScanKeepsMin ==
    /\ pc = "scan" /\ i < ClusterSize
    /\ socket_count' = socket_count + conn_count[i]
    /\ to' = IF conn_count[i] < min THEN i ELSE to
    /\ i' = i + 1
    /\ UNCHANGED <<backlog, made, id, pc, min, sock_queue, taken, conn_count,
                   online, dropped, late>>

ScanForgets ==
    /\ pc = "scan" /\ i < ClusterSize
    /\ socket_count' = conn_count[i]
    /\ min' = IF conn_count[i] < min THEN conn_count[i] ELSE min
    /\ to' = IF conn_count[i] < min THEN i ELSE to
    /\ i' = i + 1
    /\ UNCHANGED <<backlog, made, id, pc, sock_queue, taken, conn_count,
                   online, dropped, late>>

ScanSkips ==
    /\ pc = "scan" /\ i < ClusterSize
    /\ conn_count[i] < min
    /\ socket_count' = socket_count + conn_count[i]
    /\ min' = conn_count[i] /\ to' = i
    /\ i' = i + 1
    /\ UNCHANGED <<backlog, made, id, pc, sock_queue, taken, conn_count,
                   online, dropped, late>>

(* One pass of the loop over the IO threads. *)
Scan ==
    /\ pc = "scan" /\ i < ClusterSize
    /\ socket_count' = socket_count + conn_count[i]
    /\ min' = IF conn_count[i] < min THEN conn_count[i] ELSE min
    /\ to' = IF conn_count[i] < min THEN i ELSE to
    /\ i' = i + 1
    /\ UNCHANGED <<backlog, made, id, pc, sock_queue, taken, conn_count,
                   online, dropped, late>>

DispatchFallsThrough ==
    /\ pc = "scan" /\ i = ClusterSize /\ pc' = "loop"
    /\ IF socket_count < SocketMax
       THEN /\ sock_queue' = [sock_queue EXCEPT ![to] = Append(@, id)]
            /\ dropped' = dropped \cup {id}
       ELSE dropped' = dropped \cup {id} /\ UNCHANGED sock_queue
    /\ UNCHANGED <<backlog, made, id, i, socket_count, min, to, taken,
                   conn_count, online, late>>

(* The end of dispatchConnection: queue the socket and wake its thread, or *)
(* close it.                                                               *)
Dispatch ==
    /\ pc = "scan" /\ i = ClusterSize /\ pc' = "loop"
    /\ IF socket_count < SocketMax
       THEN /\ sock_queue' = [sock_queue EXCEPT ![to] = Append(@, id)]
            /\ UNCHANGED dropped
       ELSE dropped' = dropped \cup {id} /\ UNCHANGED sock_queue
    /\ UNCHANGED <<backlog, made, id, i, socket_count, min, to, taken,
                   conn_count, online, late>>

(* newConnection of an IO thread: the whole queue is taken, *)
TakeSockets(t) ==
    /\ taken[t] = <<>> /\ sock_queue[t] # <<>>
    /\ taken' = [taken EXCEPT ![t] = sock_queue[t]]
    /\ sock_queue' = [sock_queue EXCEPT ![t] = <<>>]
    /\ UNCHANGED <<backlog, made, id, acceptor, conn_count, online, dropped, late>>

(* and one socket after the other is counted and becomes a connection. *)
newConnection(t) ==
    /\ taken[t] # <<>>
    /\ conn_count' = [conn_count EXCEPT ![t] = @ + 1]
    /\ online' = [online EXCEPT ![t] = @ \cup {Head(taken[t])}]
    /\ taken' = [taken EXCEPT ![t] = Tail(@)]
    /\ UNCHANGED <<backlog, made, id, acceptor, sock_queue, dropped, late>>

(* The destroy callback of a closed connection, called by the same thread. *)
destroy(t) ==
    /\ taken[t] = <<>>
    /\ \E c \in online[t] : online' = [online EXCEPT ![t] = @ \ {c}]
    /\ conn_count' = [conn_count EXCEPT ![t] = @ - 1]
    /\ UNCHANGED <<backlog, made, id, acceptor, sock_queue, taken, dropped, late>>

dispatchConnection == Scan \/ Dispatch
IoStep(t) == TakeSockets(t) \/ newConnection(t)

Next ==
    \/ Connect \/ Accept \/ AcceptFails \/ dispatchConnection
    \/ \E t \in Io : IoStep(t) \/ destroy(t)

(* The threads do not stop within a call, and an IO thread waits in a      *)
(* level-triggered event loop.  That accept() succeeds is not assumed.     *)
Spec ==
    /\ Init /\ [][Next]_vars
    /\ WF_vars(dispatchConnection)
    /\ \A t \in Io : WF_vars(IoStep(t))

(***************************************************************************)
(* Properties.                                                             *)
(***************************************************************************)

(* An accepted socket has one owner: it waits at one IO thread, is a       *)
(* connection of one, or is refused.                                       *)
OneThread ==
    /\ \A t, u \in Io :
          /\ online[t] \cap Uncounted(u) = {}
          /\ t # u => online[t] \cap online[u] = {} /\ Uncounted(t) \cap Uncounted(u) = {}
    /\ dropped \cap (AllOnline \cup AllUncounted) = {}

(* io_max is exceeded only by sockets a scan could not see: the server     *)
(* never holds more than io_max sockets and those that waited uncounted    *)
(* when a scan began, although the counts are read one by one while        *)
(* sockets are counted in and connections close.                           *)
MaxHeld == Cardinality(AllOnline \cup AllUncounted) <= SocketMax + late

(* Connections spread evenly: as long as none has closed, the loads of two *)
(* threads differ by one connection and the sockets a scan did not see.    *)
Load(t) == Cardinality(online[t] \cup Uncounted(t))
NoneClosed == AllOnline \cup AllUncounted \cup dropped = 1..(IF pc = "scan" THEN id - 1 ELSE id)
Balanced == NoneClosed => \A t, u \in Io : Load(t) - Load(u) <= 1 + late

(* Every socket that was accepted is given to a thread or refused, and no  *)
(* thread leaves one in its queue.                                         *)
AllPlaced == []<>(pc = "loop" /\ AllUncounted = {})
=============================================================================
