--------------------------- MODULE ZkRegistration ---------------------------
(***************************************************************************)
(* The registration of this server in zookeeper: ServerCluster::join       *)
(* (thrift/pilot/server_cluster.h), RegServiceWatcherAction                *)
(* (watcher_action.h) and the handle of ZookeeperClient                    *)
(* (zookeeper_client.cc).  Zookeeper is external: sessions that come and   *)
(* go, an ephemeral node that lives as long as its session, one-time       *)
(* watches, and events handed to one thread of the client in order.        *)
(* The process may crash and come back before its old session is gone.     *)
(***************************************************************************)
EXTENDS Integers, Sequences

CONSTANTS
    MaxSession, \* bound: sessions of this server, over restarts and expiries
    MaxLoss,    \* bound: losses of the connection
    MaxEdit     \* bound: changes of the node by an administrator

ASSUME RegistrationAssumption ==
    MaxSession \in Nat \ {0} /\ MaxLoss \in Nat /\ MaxEdit \in Nat

VARIABLES
    session,    \* of the handle zh_: "connecting", "up", "down", "expired"
    sid,        \* its number
    alive,      \* external: sessions zookeeper keeps
    node,       \* external: session of the node, 0 if there is none
    same,       \* external: its value is service_value_
    parents,    \* external: the nodes above it exist
    watch,      \* external: a watch of this session is on the node
    events,     \* watcher calls to come
    pc,         \* the thread that runs them
    raced,      \* history: another process got in between two calls of this one,
                \* and no join has been started since
    losses, edits

vars == <<session, sid, alive, node, same, parents, watch, events, pc, raced, losses, edits>>
zk == <<alive, node, same, parents>>
bounds == <<losses, edits>>

Init ==
    /\ session = "connecting" /\ sid = 1 /\ alive = {}
    /\ node = 0 /\ same = TRUE /\ parents \in BOOLEAN
    /\ watch = FALSE /\ events = <<>> /\ pc = "idle"
    /\ raced = FALSE /\ losses = 0 /\ edits = 0

Fire(e) == IF watch THEN events' = Append(events, e) /\ watch' = FALSE
                    ELSE UNCHANGED <<events, watch>>

-----------------------------------------------------------------------------
(***************************************************************************)
(* The sessions                                                            *)
(***************************************************************************)
Connect ==
    /\ session \in {"connecting", "down"}
    /\ session' = "up" /\ alive' = alive \cup {sid}
    /\ events' = Append(events, "connected")
    /\ UNCHANGED <<sid, node, same, parents, watch, pc, raced, bounds>>

Lose ==
    /\ session = "up" /\ losses < MaxLoss
    /\ session' = "down" /\ losses' = losses + 1
    /\ UNCHANGED <<sid, zk, watch, events, pc, raced, edits>>

\* Zookeeper ends a session that is out of touch, and its ephemeral node.
Expire(k) ==
    /\ k \in alive /\ (k # sid \/ session = "down")
    /\ k = sid => sid < MaxSession
    /\ alive' = alive \ {k}
    /\ session' = IF k = sid THEN "expired" ELSE session
    /\ IF node = k THEN node' = 0 /\ Fire("deleted") ELSE UNCHANGED <<node, events, watch>>
    /\ UNCHANGED <<sid, same, parents, pc, raced, bounds>>

\* on_session_expired: reopen closes the handle, its watches and events are gone,
\* and makes another.
Reopen ==
    /\ session = "expired" /\ pc = "idle"
    /\ session' = "connecting" /\ sid' = sid + 1
    /\ watch' = FALSE /\ events' = <<>>
    /\ UNCHANGED <<zk, pc, raced, bounds>>

\* The process ends and is started again; run opens a new handle.
Restart ==
    /\ sid < MaxSession
    /\ session' = "connecting" /\ sid' = sid + 1
    /\ watch' = FALSE /\ events' = <<>> /\ pc' = "idle"
    /\ UNCHANGED <<zk, raced, bounds>>

\* An administrator changes the value of the node, or removes it.
Edit ==
    /\ node # 0 /\ edits < MaxEdit /\ edits' = edits + 1
    /\ \/ same' = ~same /\ node' = node /\ raced' = raced /\ Fire("changed")
       \/ same' = same /\ node' = 0 /\ raced' = (raced \/ ~watch) /\ Fire("deleted")
    /\ UNCHANGED <<session, sid, alive, parents, pc, losses>>

\* Another server of the same service creates the nodes above.
OtherJoins ==
    /\ ~parents /\ parents' = TRUE
    /\ raced' = (raced \/ pc = "mkparents")
    /\ UNCHANGED <<session, sid, alive, node, same, watch, events, pc, bounds>>

\* The session stays up and nothing is left to do.
Ping == session = "up" /\ pc = "idle" /\ events = <<>> /\ UNCHANGED vars

-----------------------------------------------------------------------------
(***************************************************************************)
(* The watcher                                                             *)
(***************************************************************************)
Still == UNCHANGED <<session, sid, alive, bounds>>

\* Mutant of Handle: the node is not looked at after its creation.
HandleNoRearm ==
    /\ pc = "idle" /\ events # <<>> /\ session # "expired"
    /\ events' = Tail(events)
    /\ pc' = IF Head(events) = "created" THEN "idle" ELSE "parents"
    /\ raced' = (raced /\ pc' # "parents")
    /\ UNCHANGED <<node, same, parents, watch>> /\ Still

\* Mutant of Handle: the deletion of the node is not answered.
HandleNoRejoin ==
    /\ pc = "idle" /\ events # <<>> /\ session # "expired"
    /\ events' = Tail(events)
    /\ pc' = CASE Head(events) = "created" -> "rearm"
               [] Head(events) = "deleted" -> "idle"
               [] OTHER                    -> "parents"
    /\ raced' = (raced /\ pc' # "parents")
    /\ UNCHANGED <<node, same, parents, watch>> /\ Still

\* on_connected, on_node_deleted and on_node_value_changed of the own node join;
\* on_node_created sets the watch again.
Handle ==
    /\ pc = "idle" /\ events # <<>> /\ session # "expired"
    /\ events' = Tail(events)
    /\ pc' = IF Head(events) = "created" THEN "rearm" ELSE "parents"
    /\ raced' = (raced /\ pc' # "parents")
    /\ UNCHANGED <<node, same, parents, watch>> /\ Still

\* Every call fails while the session is not up.
Rearm ==
    /\ pc = "rearm" /\ pc' = "idle"
    /\ watch' = (watch \/ session = "up")
    /\ UNCHANGED <<node, same, parents, events, raced>> /\ Still

\* join: a node above the own one is created when node_exists fails or does not
\* find it; a creation that fails ends join with -1, which no caller looks at.
JoinParents ==
    \/ /\ pc = "parents"
       /\ pc' = IF session = "up" /\ parents THEN "exists" ELSE "mkparents"
       /\ UNCHANGED parents
       /\ UNCHANGED <<node, same, watch, events, raced>> /\ Still
    \/ /\ pc = "mkparents"
       /\ pc' = IF session = "up" /\ ~parents THEN "exists" ELSE "idle"
       /\ parents' = (parents \/ session = "up")
       /\ UNCHANGED <<node, same, watch, events, raced>> /\ Still

JoinExists ==
    /\ pc = "exists"
    /\ pc' = IF session = "up" /\ node # 0 THEN "value" ELSE "create"
    /\ watch' = (watch \/ session = "up")
    /\ UNCHANGED <<node, same, parents, events, raced>> /\ Still

\* get_nodevalue: a node that is gone by now is an error, one with another value is
\* to be created.
JoinValue ==
    /\ pc = "value"
    /\ pc' = IF session = "up" /\ node # 0 /\ ~same THEN "create" ELSE "idle"
    /\ watch' = (watch \/ (session = "up" /\ node # 0))
    /\ UNCHANGED <<node, same, parents, events, raced>> /\ Still

\* node_create fails when the node exists.
JoinCreate ==
    /\ pc = "create" /\ pc' = "idle"
    /\ IF session = "up" /\ node = 0
       THEN node' = sid /\ same' = TRUE /\ Fire("created")
       ELSE UNCHANGED <<node, same, events, watch>>
    /\ UNCHANGED <<parents, raced>> /\ Still

JoinStep == JoinParents \/ JoinExists \/ JoinValue \/ JoinCreate

Watcher == Handle \/ Rearm \/ JoinStep \/ Reopen

Next ==
    \/ Watcher \/ Connect \/ Lose \/ Restart \/ Edit \/ OtherJoins \/ Ping
    \/ \E k \in alive : Expire(k)

\* The client library reconnects and its thread runs; sessions of processes that are
\* gone end at last.
Fairness ==
    /\ WF_vars(Watcher) /\ WF_vars(Connect)
    /\ WF_vars(\E k \in alive : k # sid /\ Expire(k))

Spec == Init /\ [][Next]_vars /\ Fairness

-----------------------------------------------------------------------------
\* Shape of the state.
TypeOK ==
    /\ session \in {"connecting", "up", "down", "expired"}
    /\ sid \in 1..MaxSession /\ alive \subseteq 1..MaxSession /\ node \in alive \cup {0}
    /\ same \in BOOLEAN /\ parents \in BOOLEAN /\ watch \in BOOLEAN
    /\ events \in Seq({"connected", "created", "deleted", "changed"})
    /\ pc \in {"idle", "rearm", "parents", "mkparents", "exists", "value", "create"}
    /\ raced \in BOOLEAN /\ losses \in 0..MaxLoss /\ edits \in 0..MaxEdit

\* With the session up and nothing left to handle, the server is registered and will
\* hear of it when the node goes, be it the node of an earlier session: neither a
\* lost connection nor an expiry nor a restart in the middle of join leaves it out.
\* Only another process that got between two calls of join can (see raced).
RegisteredAndWatched ==
    /\ TypeOK
    /\ session = "up" /\ events = <<>> /\ pc = "idle" => raced \/ (node # 0 /\ watch)
=============================================================================
