---------------------------- MODULE PooledClient ----------------------------
(***************************************************************************)
(* The RPC client of the broker: the list of replicas with a pool each,    *)
(* the callers that take a client from it and bring it back                *)
(* (thrift/pilot/pooled_client.inl, the macros of thrift_proxy.h), the     *)
(* update tasks (update_task_manager.cc) and the thread that carries them  *)
(* out against zookeeper (svc, process_update_task).                       *)
(*                                                                         *)
(* Zookeeper, the replicas and their connections are external: what the    *)
(* code learns of them is a return code, a value or a watcher event.       *)
(***************************************************************************)
EXTENDS ConnPool, FiniteSets

CONSTANTS
    Server,         \* replicas of the message server
    Caller,         \* threads that call MessageProxy::dispatch
    Modes,          \* "retry", "once", "id": the INVOKE_AND_RETURN macros used
    TaskPool,       \* UPDATE_TASK_POOL_SIZE
    PathAtStart,    \* whether the path of the service exists when the client starts
    CanFail,        \* replicas that go away and come back
    Wrap,           \* a multiple of every length of the list, for the 2^32 of the counter
    MaxChanges,     \* bound: changes of nodes in zookeeper
    MaxLosses       \* bound: losses of the zookeeper session

VARIABLES
    vec,        \* conn_pool_vec_
    map,        \* replica_map_: replica -> index in vec, 0 if absent
    cur,        \* cur_replica_index_
    caller,     \* caller -> where it is
    up,         \* external: replicas that accept connections
    node,       \* external: replica -> its node: "none", "off" (status 0), "on"
    path,       \* external: the path of the service exists
    session,    \* external: "new", "up", "down"
    watch,      \* external: the watches set
    events,     \* external: watcher calls to come, in order
    tasks,      \* update_task_list_, head first
    free,       \* number of nodes in update_wait_list_
    svc,        \* the update thread
    dropped,    \* history: a task found no node, and the list was not read since
    skipped,    \* history: replicas that were not listed for want of a connection
    changes, losses

rpcVars == <<vec, map, cur, caller>>
zkVars == <<node, path, session, watch, events, changes, losses>>
taskVars == <<tasks, free, svc, dropped, skipped>>
vars == <<rpcVars, zkVars, taskVars, up>>

NoClient == [to |-> "none", st |-> "closed"]
NoTask == [type |-> "NONE", arg |-> "none"]
Idle == [pc |-> "idle", mode |-> "retry", id |-> "none", left |-> 0, n |-> 0,
         at |-> 0, cl |-> NoClient, out |-> "OK", done |-> FALSE]

Replicas == {vec[i].rep : i \in DOMAIN vec}

Init ==
    /\ vec = <<>> /\ map = [s \in Server |-> 0] /\ cur = 0
    /\ caller = [c \in Caller |-> Idle]
    /\ up = Server
    /\ node = [s \in Server |-> IF PathAtStart THEN "on" ELSE "none"]
    /\ path = PathAtStart
    /\ session = "new" /\ watch = {} /\ events = <<>>
    \* open puts the first REFRESH_ALL before the thread runs.
    /\ tasks = <<[type |-> "REFRESH_ALL", arg |-> "none"]>> /\ free = TaskPool - 1
    /\ svc = [pc |-> "get", task |-> NoTask, todo |-> {}, got |-> {}]
    /\ dropped = FALSE /\ skipped = {}
    /\ changes = 0 /\ losses = 0

-----------------------------------------------------------------------------
(***************************************************************************)
(* Callers                                                                 *)
(***************************************************************************)
Set(c, r) == caller' = [caller EXCEPT ![c] = r]

\* The reader lock is held while the replicas are tried, and for the whole of a
\* release by id.
Reading(c) ==
    \/ caller[c].pc \in {"pick", "renew", "blame", "take", "giveback"}
    \/ caller[c].mode = "id" /\ caller[c].pc \in {"put", "putback"}

\* A call begins: three attempts, or one.
Invoke(c, m, s) ==
    /\ caller[c].pc = "idle"
    /\ Set(c, [Idle EXCEPT !.pc = "enter", !.mode = m,
                           !.id = IF m = "id" THEN s ELSE "none",
                           !.left = IF m = "retry" THEN 3 ELSE 1])
    /\ UNCHANGED <<vec, map, cur, up, zkVars, taskVars>>

\* What follows an attempt: the call has returned, it throws, or it is retried.
NextAttempt(r) ==
    IF r.done \/ r.left = 0 THEN Idle
    ELSE [Idle EXCEPT !.pc = "enter", !.mode = r.mode, !.id = r.id, !.left = r.left]

\* The loop of acquire_thrift_client goes on, or ends with NULL.
NextReplica(r) == IF r.n = 0 THEN NextAttempt(r) ELSE [r EXCEPT !.pc = "pick", !.cl = NoClient]

\* acquire_thrift_client(replica_id): the index in replica_map_ may be stale; one
\* past the end reads what was there before the last erase.
ById(s) ==
    IF map[s] = 0 THEN {0}
    ELSE IF map[s] > Len(vec) THEN {0} \cup {i \in DOMAIN vec : vec[i].rep = s}
    ELSE IF vec[map[s]].rep = s THEN {map[s]} ELSE {0}

\* Mutant of Enter: an attempt does not count.
EnterUncounted(c) ==
    LET r == caller[c] IN
    /\ caller[c].pc = "enter"
    /\ IF r.mode = "id"
       THEN \E i \in ById(r.id) :
              Set(c, IF i = 0 THEN NextAttempt(r) ELSE [r EXCEPT !.pc = "pick", !.at = i])
       ELSE Set(c, NextReplica([r EXCEPT !.n = Len(vec)]))
    /\ UNCHANGED <<vec, map, cur, up, zkVars, taskVars>>

\* The reader lock is taken; retry-- > 0.
Enter(c) ==
    LET r == [caller[c] EXCEPT !.left = @ - 1] IN
    /\ caller[c].pc = "enter"
    /\ IF r.mode = "id"
       THEN \E i \in ById(r.id) :
              Set(c, IF i = 0 THEN NextAttempt(r) ELSE [r EXCEPT !.pc = "pick", !.at = i])
       ELSE Set(c, NextReplica([r EXCEPT !.n = Len(vec)]))
    /\ UNCHANGED <<vec, map, cur, up, zkVars, taskVars>>

\* One turn: the next replica in rotation, and its health.
Pick(c) ==
    LET r == caller[c]
        at == IF r.mode = "id" THEN r.at ELSE (cur % Len(vec)) + 1
        q == [r EXCEPT !.at = at, !.n = IF r.mode = "id" THEN 0 ELSE @ - 1]
    IN
    /\ r.pc = "pick"
    /\ cur' = IF r.mode = "id" THEN cur ELSE (cur + 1) % Wrap
    /\ Set(c, CASE IsHealthy(vec[at]) = "HEALTHY"    -> [q EXCEPT !.pc = "take"]
                [] IsHealthy(vec[at]) = "HAVE_A_TRY" -> [q EXCEPT !.pc = "renew"]
                [] OTHER                             -> NextReplica(q))
    /\ UNCHANGED <<vec, map, up, zkVars, taskVars>>

\* After refresh by id the health is looked at again, and only HEALTHY will do.
AfterRenew(r, p) ==
    IF r.mode = "id" /\ IsHealthy(p) # "HEALTHY" THEN NextReplica(r) ELSE [r EXCEPT !.pc = "take"]

\* refresh of a pool that may be tried again.
Renew(c) ==
    LET r == caller[c] IN
    /\ r.pc = "renew"
    /\ \E n \in Opens(vec[r.at].rep \in up) : \E p \in {Refresh(vec[r.at], n)} :
         /\ vec' = [vec EXCEPT ![r.at] = p]
         /\ Set(c, IF n = 0 THEN [r EXCEPT !.pc = "blame"] ELSE AfterRenew(r, p))
    /\ UNCHANGED <<map, cur, up, zkVars, taskVars>>

\* refresh has failed: report_error.
Blame(c) ==
    LET r == caller[c]
        p == ReportError(vec[r.at])
    IN
    /\ r.pc = "blame"
    /\ vec' = [vec EXCEPT ![r.at] = p]
    /\ Set(c, AfterRenew(r, p))
    /\ UNCHANGED <<map, cur, up, zkVars, taskVars>>

\* acquire_client and open_service.  With a client that does not open the code
\* tries once more and puts it back.
Take(c) ==
    LET r == caller[c]
        p == vec[r.at]
        cl == OpenService(AcquireClient(p), p.rep \in up)
    IN
    /\ r.pc = "take"
    /\ IF p.conns = <<>>
       THEN Set(c, NextReplica(r)) /\ UNCHANGED vec
       ELSE /\ vec' = [vec EXCEPT ![r.at] = WithoutClient(p)]
            /\ Set(c, [r EXCEPT !.pc = IF IsOpen(cl) THEN "call" ELSE "giveback", !.cl = cl])
    /\ UNCHANGED <<map, cur, up, zkVars, taskVars>>

GiveBack(c) ==
    LET r == caller[c] IN
    /\ r.pc = "giveback"
    /\ vec' = [vec EXCEPT ![r.at] = ReleaseClient(@, OpenService(r.cl, r.cl.to \in up))]
    /\ Set(c, NextReplica(r))
    /\ UNCHANGED <<map, cur, up, zkVars, taskVars>>

\* How a call on client cl ends: what the helper is told, and whether the call
\* is over.  A replica that answers may also be slow (TIMED_OUT) or throw a
\* TApplicationException, which leaves the connection as it is.
Outcomes(cl) ==
    IF cl.to \in up /\ cl.st = "open"
    THEN {<<"OK", TRUE>>, <<"OK", FALSE>>, <<"RECONNECT", FALSE>>}
    ELSE {<<"DROP", FALSE>>, <<"RECONNECT", FALSE>>}

Call(c) ==
    /\ caller[c].pc = "call"
    /\ \E o \in Outcomes(caller[c].cl) :
         Set(c, [caller[c] EXCEPT !.pc = "find", !.out = o[1], !.done = o[2], !.at = 0])
    /\ UNCHANGED <<vec, map, cur, up, zkVars, taskVars>>

\* release_thrift_client looks for the pool under the reader lock.  Not found, the
\* client is deleted.
Find(c) ==
    LET r == caller[c]
        is == IF r.mode = "id" THEN ById(r.id) ELSE {i \in DOMAIN vec : vec[i].rep = r.cl.to}
    IN
    /\ r.pc = "find"
    /\ \E i \in (IF is = {} THEN {0} ELSE is) :
         Set(c, IF i = 0 THEN NextAttempt(r) ELSE [r EXCEPT !.pc = "put", !.at = i])
    /\ UNCHANGED <<vec, map, cur, up, zkVars, taskVars>>

\* conn_pool_vec_[i] after the lock has been given up.  Past the end it is a pool
\* that is still listed, or one that was destroyed: its use may leave nothing (0), or
\* the thread may never come back from it (Gone).
Gone == -1
Slots(i) == IF i \in DOMAIN vec THEN {i} ELSE {Gone, 0} \cup DOMAIN vec

\* Mutant of Put: a dropped connection is not counted as an error.
PutSilently(c) ==
    LET r == caller[c] IN
    /\ r.pc = "put"
    /\ \E i \in Slots(r.at) :
         vec' = IF i \notin DOMAIN vec \/ r.out # "OK" THEN vec
                ELSE [vec EXCEPT ![i] = ClearError(@)]
    /\ Set(c, [r EXCEPT !.pc = "putback",
                        !.cl = IF r.out = "RECONNECT"
                               THEN OpenService(CloseService(r.cl), r.cl.to \in up) ELSE r.cl])
    /\ UNCHANGED <<map, cur, up, zkVars, taskVars>>

\* First half of the release: clear_error, report_error, or close and open.  By id
\* every error is a reconnect.
Put(c) ==
    LET r == caller[c]
        drop == r.out = "DROP" /\ r.mode # "id"
    IN
    /\ r.pc = "put"
    /\ \E i \in IF r.out = "OK" \/ drop THEN Slots(r.at) ELSE {0} :
         /\ vec' = IF i \notin DOMAIN vec THEN vec
                   ELSE [vec EXCEPT ![i] = IF drop THEN ReportError(@) ELSE ClearError(@)]
         /\ Set(c, [r EXCEPT !.pc = IF i = Gone THEN "lost" ELSE "putback",
                             !.cl = IF r.out = "OK" \/ drop THEN @
                                    ELSE OpenService(CloseService(@), @.to \in up)])
    /\ UNCHANGED <<map, cur, up, zkVars, taskVars>>

\* Second half: release_client, or delete.
PutBack(c) ==
    LET r == caller[c]
        drop == r.out = "DROP" /\ r.mode # "id"
    IN
    /\ r.pc = "putback"
    /\ \E i \in IF drop THEN {0} ELSE Slots(r.at) :
         /\ vec' = IF i \notin DOMAIN vec THEN vec ELSE [vec EXCEPT ![i] = ReleaseClient(@, r.cl)]
         /\ Set(c, IF i = Gone THEN [r EXCEPT !.pc = "lost"] ELSE NextAttempt(r))
    /\ UNCHANGED <<map, cur, up, zkVars, taskVars>>

CallerStep(c) ==
    Enter(c) \/ Pick(c) \/ Renew(c) \/ Blame(c) \/ Take(c) \/ GiveBack(c)
        \/ Call(c) \/ Find(c) \/ Put(c) \/ PutBack(c)

-----------------------------------------------------------------------------
(***************************************************************************)
(* Update tasks                                                            *)
(***************************************************************************)
Task(type, arg) == [type |-> type, arg |-> arg]

\* put_update_task takes a node from the list of free ones; there being none, the
\* task is dropped.  The task is added at the head.
PutTask(t) ==
    IF free > 0 THEN tasks' = <<t>> \o tasks /\ free' = free - 1 /\ UNCHANGED dropped
                ELSE dropped' = TRUE /\ UNCHANGED <<tasks, free>>

Done == [svc EXCEPT !.pc = "get", !.task = NoTask, !.todo = {}, !.got = {}]

\* get_update_task: get_from_head takes the newest task; its node goes back to
\* the free ones afterwards.
SvcGet ==
    /\ svc.pc = "get" /\ tasks # <<>>
    /\ svc' = [svc EXCEPT !.pc = "free", !.task = Head(tasks)]
    /\ tasks' = Tail(tasks)
    /\ UNCHANGED <<free, dropped, skipped, rpcVars, zkVars, up>>

\* Mutant of SvcFree: the node is not given back.
SvcKeep ==
    /\ svc.pc = "free"
    /\ svc' = [svc EXCEPT !.pc = "process"]
    /\ UNCHANGED <<tasks, free, dropped, skipped, rpcVars, zkVars, up>>

SvcFree ==
    /\ svc.pc = "free"
    /\ free' = free + 1
    /\ svc' = [svc EXCEPT !.pc = "process"]
    /\ UNCHANGED <<tasks, dropped, skipped, rpcVars, zkVars, up>>

\* process_update_task up to its first call of zookeeper.  NODE_CREATED falls
\* through to CHILD_CHANGED and is then about another path than path_;
\* NODE_DELETED returns at once.
Process ==
    /\ svc.pc = "process"
    /\ \/ /\ svc.task.type = "REFRESH_ALL"
          /\ svc' = [svc EXCEPT !.pc = "exists"]
          /\ UNCHANGED <<tasks, free, dropped>>
       \/ /\ svc.task.type = "NODE_VALUE_CHANGED"
          /\ svc' = [svc EXCEPT !.pc = "one"]
          /\ UNCHANGED <<tasks, free, dropped>>
       \/ /\ svc.task.type \in {"NODE_CREATED", "CHILD_CHANGED"}
          /\ IF svc.task.arg = "path" THEN PutTask(Task("REFRESH_ALL", "none"))
                                      ELSE UNCHANGED <<tasks, free, dropped>>
          /\ svc' = Done
       \/ /\ svc.task.type = "NODE_DELETED"
          /\ svc' = Done
          /\ UNCHANGED <<tasks, free, dropped>>
    /\ UNCHANGED <<skipped, rpcVars, zkVars, up>>

\* A call of zookeeper fails unless the session is up.  A call that reaches it
\* sets a watch, on a missing node too when it is node_exists.
Watching(w) == watch' = watch \cup {w} /\ UNCHANGED <<node, path, session, events, changes, losses>>

\* get_all_replicas, first call: the path of the service exists.
SvcExists ==
    /\ svc.pc = "exists"
    /\ svc' = IF session = "up" /\ path THEN [svc EXCEPT !.pc = "children"] ELSE Done
    /\ IF session = "up" THEN Watching("path") ELSE UNCHANGED zkVars
    /\ UNCHANGED <<tasks, free, dropped, skipped, rpcVars, up>>

SvcChildren ==
    /\ svc.pc = "children"
    /\ IF session = "up"
       THEN /\ svc' = [svc EXCEPT !.pc = "values", !.todo = {s \in Server : node[s] # "none"}]
            /\ Watching("children")
       ELSE svc' = Done /\ UNCHANGED zkVars
    /\ dropped' = (dropped /\ session # "up")
    /\ UNCHANGED <<tasks, free, skipped, rpcVars, up>>

\* The value of one child; a child that is gone by now ends the whole refresh.
SvcValue(s) ==
    /\ svc.pc = "values" /\ s \in svc.todo
    /\ IF session = "up" /\ node[s] # "none"
       THEN /\ svc' = [svc EXCEPT !.todo = @ \ {s},
                                 !.got = IF node[s] = "on" THEN @ \cup {s} ELSE @]
            /\ Watching(s)
       ELSE svc' = Done /\ UNCHANGED zkVars
    /\ UNCHANGED <<tasks, free, dropped, skipped, rpcVars, up>>

\* The writer lock waits for every reader.
Writable == \A c \in Caller : ~Reading(c)

Orders(ss) == {q \in [1..Cardinality(ss) -> ss] : \A s \in ss : \E i \in DOMAIN q : q[i] = s}

\* Mutant of Relist: the index is taken after the replica has been added.
RelistLate(keep, q) ==
    LET kept == SelectSeq(vec, LAMBDA p : p.rep \in keep) IN
    /\ \E n \in [DOMAIN q -> Opens(TRUE)] :
         vec' = kept \o [i \in DOMAIN q |-> NewPool(q[i], n[i])]
    /\ map' = [s \in Server |->
                 IF \E i \in DOMAIN q : q[i] = s
                 THEN Len(kept) + 1 + CHOOSE i \in DOMAIN q : q[i] = s
                 ELSE IF s \in Replicas \ keep THEN 0 ELSE map[s]]
    /\ UNCHANGED <<cur, caller>>

\* The list without the replicas outside keep and with pools for the new ones in the
\* order q.  Only the entries of erased and of new replicas change in the map:
\* the index of a replica behind an erased one is not corrected.
Relist(keep, q) ==
    LET kept == SelectSeq(vec, LAMBDA p : p.rep \in keep) IN
    /\ \E n \in [DOMAIN q -> Opens(TRUE)] :
         vec' = kept \o [i \in DOMAIN q |-> NewPool(q[i], n[i])]
    /\ map' = [s \in Server |->
                 IF \E i \in DOMAIN q : q[i] = s
                 THEN Len(kept) + CHOOSE i \in DOMAIN q : q[i] = s
                 ELSE IF s \in Replicas \ keep THEN 0 ELSE map[s]]
    /\ UNCHANGED <<cur, caller>>

\* Mutant of SvcApply: replicas are added without a look at those that are listed.
SvcApplyTwice ==
    /\ svc.pc = "values" /\ svc.todo = {} /\ Writable
    /\ \E q \in Orders(svc.got \cap up) : Relist(svc.got, q)
    /\ svc' = Done /\ skipped' = (svc.got \ Replicas) \ up
    /\ UNCHANGED <<tasks, free, dropped, zkVars, up>>

\* REFRESH_ALL: replicas that are not registered any more are erased, new ones
\* are added if they can be connected to.
SvcApply ==
    /\ svc.pc = "values" /\ svc.todo = {} /\ Writable
    /\ \E q \in Orders((svc.got \ Replicas) \cap up) : Relist(svc.got, q)
    /\ svc' = Done /\ skipped' = (svc.got \ Replicas) \ up
    /\ UNCHANGED <<tasks, free, dropped, zkVars, up>>

\* get_one_replica: the node exists, then its value.
SvcOne ==
    /\ svc.pc = "one"
    /\ svc' = IF session = "up" /\ node[svc.task.arg] # "none"
              THEN [svc EXCEPT !.pc = "oneValue"] ELSE Done
    /\ IF session = "up" THEN Watching(svc.task.arg) ELSE UNCHANGED zkVars
    /\ UNCHANGED <<tasks, free, dropped, skipped, rpcVars, up>>

SvcOneValue ==
    LET s == svc.task.arg IN
    /\ svc.pc = "oneValue"
    /\ IF session = "up" /\ node[s] # "none"
       THEN /\ svc' = [svc EXCEPT !.pc = "applyOne", !.got = IF node[s] = "on" THEN {s} ELSE {}]
            /\ Watching(s)
       ELSE svc' = Done /\ UNCHANGED zkVars
    /\ UNCHANGED <<tasks, free, dropped, skipped, rpcVars, up>>

\* NODE_VALUE_CHANGED: the replica is erased and, its status being 1, listed anew at
\* the end.
SvcApplyOne ==
    /\ svc.pc = "applyOne" /\ Writable
    /\ \E q \in Orders(svc.got \cap up) : Relist(Replicas \ {svc.task.arg}, q)
    /\ svc' = Done /\ skipped' = (skipped \ {svc.task.arg}) \cup (svc.got \ up)
    /\ UNCHANGED <<tasks, free, dropped, zkVars, up>>

SvcStep ==
    SvcGet \/ SvcFree \/ Process \/ SvcExists \/ SvcChildren
        \/ (\E s \in Server : SvcValue(s)) \/ SvcApply \/ SvcOne \/ SvcOneValue \/ SvcApplyOne

-----------------------------------------------------------------------------
(***************************************************************************)
(* Zookeeper and the watcher                                               *)
(***************************************************************************)
Fired(es) == LET armed == SelectSeq(es, LAMBDA e : e.watch \in watch)
             IN  /\ events' = events \o armed
                 /\ watch' = watch \ {e.watch : e \in {es[i] : i \in DOMAIN es}}

Event(type, arg, w) == [type |-> type, arg |-> arg, watch |-> w]

\* The first server of the service creates its path (join of another process).
CreatePath ==
    /\ ~path /\ path' = TRUE
    /\ Fired(<<Event("created", "path", "path")>>)
    /\ UNCHANGED <<node, session, changes, losses, rpcVars, taskVars, up>>

Register(s) ==
    /\ path /\ node[s] = "none" /\ changes < MaxChanges
    /\ node' = [node EXCEPT ![s] = "on"] /\ changes' = changes + 1
    /\ Fired(<<Event("created", s, s), Event("child", "path", "children")>>)
    /\ UNCHANGED <<path, session, losses, rpcVars, taskVars, up>>

Unregister(s) ==
    /\ node[s] # "none" /\ changes < MaxChanges
    /\ node' = [node EXCEPT ![s] = "none"] /\ changes' = changes + 1
    /\ Fired(<<Event("deleted", s, s), Event("child", "path", "children")>>)
    /\ UNCHANGED <<path, session, losses, rpcVars, taskVars, up>>

SetStatus(s) ==
    /\ node[s] # "none" /\ changes < MaxChanges
    /\ node' = [node EXCEPT ![s] = IF @ = "on" THEN "off" ELSE "on"] /\ changes' = changes + 1
    /\ Fired(<<Event("changed", s, s)>>)
    /\ UNCHANGED <<path, session, losses, rpcVars, taskVars, up>>

\* The session comes up, again after a loss; watches survive a loss.
Connect ==
    /\ session # "up" /\ session' = "up"
    /\ events' = Append(events, Event("connected", "none", "session"))
    /\ UNCHANGED <<node, path, watch, changes, losses, rpcVars, taskVars, up>>

Disconnect ==
    /\ session = "up" /\ losses < MaxLosses
    /\ session' = "down" /\ losses' = losses + 1
    /\ UNCHANGED <<node, path, watch, events, changes, rpcVars, taskVars, up>>

\* on_session_expired reopens the handle: its watches and events are gone.
Expire ==
    /\ session = "down" /\ session' = "new"
    /\ watch' = {} /\ events' = <<>>
    /\ UNCHANGED <<node, path, changes, losses, rpcVars, taskVars, up>>

\* active_watcher and ServiceWatcherAction.  The key of an event of a node is the
\* parent of its path; the tasks of this client have the key path_, so the creation
\* of path_ itself finds no one.
TaskOf(e) ==
    CASE e.type = "connected" -> Task("REFRESH_ALL", "none")
      [] e.type = "created"   -> Task("NODE_CREATED", e.arg)
      [] e.type = "deleted"   -> Task("NODE_DELETED", e.arg)
      [] e.type = "changed"   -> Task("NODE_VALUE_CHANGED", e.arg)
      [] e.type = "child"     -> Task("CHILD_CHANGED", e.arg)

\* Mutant of Deliver: a change of the children is not passed on.
DeliverNoChild ==
    LET e == Head(events) IN
    /\ events # <<>> /\ session = "up"
    /\ IF e.type = "child" \/ (e.type = "created" /\ e.arg = "path")
       THEN UNCHANGED <<tasks, free, dropped>> ELSE PutTask(TaskOf(e))
    /\ events' = Tail(events)
    /\ UNCHANGED <<node, path, session, watch, changes, losses, svc, skipped, rpcVars, up>>

Deliver ==
    LET e == Head(events) IN
    /\ events # <<>> /\ session = "up"
    /\ IF e.type = "created" /\ e.arg = "path"
       THEN UNCHANGED <<tasks, free, dropped>> ELSE PutTask(TaskOf(e))
    /\ events' = Tail(events)
    /\ UNCHANGED <<node, path, session, watch, changes, losses, svc, skipped, rpcVars, up>>

\* A replica goes away: its connections break, on this side unnoticed.
Break(c, s) == IF c.to = s /\ c.st = "open" THEN [c EXCEPT !.st = "broken"] ELSE c

Fail(s) ==
    /\ s \in up \cap CanFail /\ up' = up \ {s}
    /\ vec' = [i \in DOMAIN vec |->
                 [vec[i] EXCEPT !.conns = [k \in DOMAIN @ |-> Break(@[k], s)]]]
    /\ caller' = [c \in Caller |-> [caller[c] EXCEPT !.cl = Break(@, s)]]
    /\ UNCHANGED <<map, cur, zkVars, taskVars>>

Recover(s) ==
    /\ s \notin up /\ up' = up \cup {s}
    /\ UNCHANGED <<rpcVars, zkVars, taskVars>>

\* A second of every back-off passes.
Tick ==
    /\ \E i \in DOMAIN vec : vec[i].wait > 0
    /\ vec' = [i \in DOMAIN vec |-> [vec[i] EXCEPT !.wait = IF @ > 0 THEN @ - 1 ELSE 0]]
    /\ UNCHANGED <<map, cur, caller, up, zkVars, taskVars>>

Next ==
    \/ \E c \in Caller : CallerStep(c) \/ \E m \in Modes, s \in Server : Invoke(c, m, s)
    \/ SvcStep \/ Deliver
    \/ CreatePath \/ Connect \/ Disconnect \/ Expire \/ Tick
    \/ \E s \in Server : Register(s) \/ Unregister(s) \/ SetStatus(s) \/ Fail(s) \/ Recover(s)

\* Threads of the client do not stop, time passes, zookeeper's session comes up
\* and its events are delivered.  Nothing is assumed of replicas or registrations.
Fairness ==
    /\ \A c \in Caller : WF_vars(CallerStep(c))
    /\ WF_vars(SvcStep) /\ WF_vars(Deliver) /\ WF_vars(Connect) /\ WF_vars(Tick)

Spec == Init /\ [][Next]_vars /\ Fairness

-----------------------------------------------------------------------------
(***************************************************************************)
(* Properties                                                              *)
(***************************************************************************)
ClientType == [to : Server, st : {"open", "broken", "closed"}] \cup {NoClient}

\* Shape of the state.
TypeOK ==
    /\ \A i \in DOMAIN vec : /\ vec[i].rep \in Server /\ vec[i].err \in Nat /\ vec[i].wait \in Nat
                            /\ vec[i].conns \in Seq(ClientType) /\ Len(vec[i].conns) <= ConnNum + 1
    /\ map \in [Server -> Nat] /\ cur \in Nat /\ up \subseteq Server
    /\ caller \in [Caller -> [pc : {"idle", "enter", "pick", "renew", "blame", "take", "giveback",
                                     "call", "find", "put", "putback", "lost"},
                              mode : Modes \cup {"retry"}, id : Server \cup {"none"}, left : 0..3,
                              n : Nat, at : Nat, cl : ClientType,
                              out : {"OK", "DROP", "RECONNECT"}, done : BOOLEAN]]
    /\ free \in 0..TaskPool /\ Len(tasks) <= TaskPool
    /\ svc.todo \subseteq Server /\ svc.got \subseteq Server
    /\ dropped \in BOOLEAN /\ skipped \subseteq Server

\* The nodes of the tasks are neither lost nor doubled: each is free, in the list, or
\* on the way back from get_update_task.
NodesConserved == free + Len(tasks) + (IF svc.pc = "free" THEN 1 ELSE 0) = TaskPool

\* The caller has a client for pool p that it will put back or report as an error,
\* or has emptied it and will report that.
Answerable(c, i) ==
    LET r == caller[c] IN
    \/ r.cl.to = vec[i].rep /\ r.pc \in {"giveback", "call", "find", "put"}
    \/ r.cl.to = vec[i].rep /\ r.pc = "putback" /\ (r.out # "DROP" \/ r.mode = "id")
    \/ r.at = i /\ r.pc = "blame"

\* A pool without connections is refreshed only after an error; so one that counts as
\* healthy and is empty must be waiting for a caller, else no call would ever
\* use the replica again.  This is about a list that does not change: where replicas
\* are erased, report_error may reach the pool of another replica.
HealthyPoolUsable ==
    \A i \in DOMAIN vec : vec[i].err = 0 /\ vec[i].conns = <<>> => \E c \in Caller : Answerable(c, i)

\* No replica is listed twice, and replica_map_ has an entry for exactly the
\* replicas that are listed.
VecSound ==
    /\ \A i, j \in DOMAIN vec : vec[i].rep = vec[j].rep => i = j
    /\ {s \in Server : map[s] # 0} = Replicas

\* As long as no replica is erased, the index in replica_map_ is that of the replica.
MapExact == \A s \in Server : map[s] # 0 => map[s] \in DOMAIN vec /\ vec[map[s]].rep = s

\* Nothing is left to be done about what zookeeper has reported.
Settled == session = "up" /\ events = <<>> /\ tasks = <<>> /\ svc.pc = "get"

\* Once the events are handled the list holds the registered replicas with status 1
\* (watcher_action.h: "refresh connection pool once any node is chaned"), but for
\* those that could not be connected to when they were to be listed; and unless a task
\* was dropped since the list was last read from zookeeper.
ListSettles ==
    Settled /\ ~dropped => /\ Replicas \cup skipped = {s \in Server : node[s] = "on"}
                           /\ Replicas \cap skipped = {}

\* A call returns or throws: the attempts and the tries among the replicas end.
CallReturns == \A c \in Caller : caller[c].pc # "idle" ~> caller[c].pc = "idle"

\* The same where replicas are erased: the call ends, or its thread is lost in a pool
\* that was destroyed between its look-up and its use.
CallReturnsOrLost ==
    \A c \in Caller : caller[c].pc # "idle" ~> caller[c].pc \in {"idle", "lost"}

Dead(s) == \E i \in DOMAIN vec : vec[i].rep = s /\ IsHealthy(vec[i]) = "DEAD"

\* A replica that is registered and can be reached for good is not given up for
\* good while calls are made
\* (thrift_proxy.h: "zookeeper will notify reconnect when the service is ok").
PoolRecovers ==
    \A s \in Server :
        /\ <>[](s \in up /\ node[s] = "on")
        /\ \A c \in Caller : []<>(caller[c].pc = "enter")
        => []<>(~Dead(s))
=============================================================================
