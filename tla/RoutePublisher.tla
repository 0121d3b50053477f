--------------------------- MODULE RoutePublisher ---------------------------
(***************************************************************************)
(* RouteInfoPublisher::publishRouteInfo over RedisOperator                 *)
(* (message/route_info_publisher.cpp, framework/lib/redis_operator.cpp):   *)
(* an auth worker stores uid -> instance in redis and then publishes it.   *)
(* Every worker thread has a RedisOperator of its own, which connects      *)
(* when it has no connection and, when a command comes back without a      *)
(* reply, connects again and repeats the command once.  Connecting and the *)
(* command that follows are two steps: the connection may be lost between  *)
(* them.  Redis is external: it is up or down, drops connections, refuses  *)
(* a connection or a command, and a command whose reply is lost may have   *)
(* been carried out.                                                       *)
(***************************************************************************)
EXTENDS Integers, Sequences, FiniteSets

CONSTANTS
    Thread,     \* auth workers, of one or more servers
    Instance,   \* g_broker_instance of the server of a worker
    NoInstance, \* no route stored
    MaxLogins,  \* bound: publications
    MaxFaults   \* bound: times redis goes down, drops connections or refuses something

ASSUME PublisherAssumption == MaxLogins \in Nat /\ MaxFaults \in Nat

VARIABLES
    redis,      \* external: "up" or "down"
    store,      \* external: the value of the key uid
    heard,      \* external: what the subscribers of the channel were sent
    m_redis,    \* of each thread: "null", "ok", "broken"
    call,       \* of each thread: <<command, step>> or NotPublishing; the steps of a
                \* command: 1 first attempt, 2 connecting again, 3 second attempt
    result,     \* of each thread: what its last publishRouteInfo returned
    calm,       \* history, of each thread: in the call redis was up and refused nothing
    kicks,      \* history, of each thread: connections found or lost broken in the call
    told,       \* history, of each thread: PUBLISH commands of the call carried out
    alone,      \* history: no two publications have overlapped
    logins, faults

publishHistory == <<calm, kicks, alone>>
publishVars == <<redis, store, heard, m_redis, call, result, publishHistory, told, logins, faults>>

NotPublishing == <<"idle", 0>>

PublishInit ==
    /\ redis = "up" /\ store = NoInstance /\ heard = <<>>
    /\ m_redis = [t \in Thread |-> "null"] /\ call = [t \in Thread |-> NotPublishing]
    /\ result = [t \in Thread |-> TRUE]
    /\ calm = [t \in Thread |-> TRUE] /\ kicks = [t \in Thread |-> 0]
    /\ told = [t \in Thread |-> 1] /\ alone = TRUE
    /\ logins = 0 /\ faults = 0

-----------------------------------------------------------------------------
(***************************************************************************)
(* RedisOperator                                                           *)
(***************************************************************************)
Fault == faults < MaxFaults /\ faults' = faults + 1

Refused(t) == calm' = [calm EXCEPT ![t] = FALSE] /\ UNCHANGED <<kicks, alone>>

Finish(t, ok) ==
    /\ call' = [call EXCEPT ![t] = NotPublishing]
    /\ result' = [result EXCEPT ![t] = ok]

Go(t, cmd, at) == call' = [call EXCEPT ![t] = <<cmd, at>>] /\ UNCHANGED result

Connecting(t) == call[t][2] = 2 \/ (call[t][2] = 1 /\ m_redis[t] = "null")

Connected(t, cmd, at) ==
    /\ redis = "up" /\ m_redis' = [m_redis EXCEPT ![t] = "ok"]
    /\ Go(t, cmd, IF at = 2 THEN 3 ELSE 1)
    /\ UNCHANGED <<store, heard, told, publishHistory, faults>>

Unconnected(t) ==
    /\ (redis = "down" /\ UNCHANGED faults) \/ Fault
    /\ m_redis' = [m_redis EXCEPT ![t] = "null"]
    /\ Finish(t, FALSE) /\ Refused(t)
    /\ UNCHANGED <<store, heard, told>>

\* Connect, with GetRedisConnection and SetRedisDB: all or nothing, a connection
\* that fails half way is freed, and Set or Pub returns false.
RedisConnect(t) ==
    /\ call[t] # NotPublishing /\ Connecting(t)
    /\ Connected(t, call[t][1], call[t][2]) \/ Unconnected(t)
    /\ UNCHANGED <<redis, logins>>

Carry(t, cmd) ==
    IF cmd = "set" THEN store' = Instance[t] /\ UNCHANGED <<heard, told>>
    ELSE /\ heard' = Append(heard, Instance[t]) /\ told' = [told EXCEPT ![t] = @ + 1]
         /\ UNCHANGED store

\* What Pub returns for a reply: it frees the one of its second attempt before it
\* reads the type, so that is any of the two.  (It never frees the one of the first.)
PubReturns(at, ok) == IF at = 3 THEN BOOLEAN ELSE {ok}

\* The command is carried out and answered; publishRouteInfo goes on from Set to Pub.
Answered(t, cmd, at) ==
    /\ m_redis[t] = "ok" /\ redis = "up"
    /\ Carry(t, cmd)
    /\ IF cmd = "set" THEN Go(t, "pub", 1)
                      ELSE \E ok \in PubReturns(at, TRUE) : Finish(t, ok)
    /\ UNCHANGED <<m_redis, publishHistory, faults>>

\* The reply is an error, and nothing was done.
Denied(t, cmd, at) ==
    /\ m_redis[t] = "ok" /\ redis = "up" /\ Fault
    /\ \E ok \in IF cmd = "set" THEN {FALSE} ELSE PubReturns(at, FALSE) : Finish(t, ok)
    /\ Refused(t)
    /\ UNCHANGED <<store, heard, told, m_redis>>

\* Mutant of Unanswered: no second attempt.
UnansweredOnce(t, cmd, at) ==
    /\ m_redis[t] = "broken" \/ redis = "down"
    /\ Carry(t, cmd) \/ UNCHANGED <<store, heard, told>>
    /\ m_redis' = [m_redis EXCEPT ![t] = "broken"]
    /\ Finish(t, FALSE)
    /\ UNCHANGED <<publishHistory, faults>>

\* Mutant of Unanswered: attempts without end.
UnansweredForever(t, cmd, at) ==
    /\ m_redis[t] = "broken" \/ redis = "down"
    /\ UNCHANGED <<store, heard, told, m_redis>>
    /\ Go(t, cmd, 3)
    /\ UNCHANGED <<publishHistory, faults>>

\* The connection is broken: no reply, whether or not the command was carried out.
Unanswered(t, cmd, at) ==
    /\ m_redis[t] = "broken" \/ redis = "down"
    /\ Carry(t, cmd) \/ UNCHANGED <<store, heard, told>>
    /\ m_redis' = [m_redis EXCEPT ![t] = "broken"]
    /\ IF at = 1 THEN Go(t, cmd, 2) ELSE Finish(t, FALSE)
    /\ UNCHANGED <<publishHistory, faults>>

\* The redisCommand of Set or Pub, on the connection there is.
Command(t) ==
    /\ call[t] # NotPublishing /\ ~Connecting(t)
    /\ LET cmd == call[t][1]
           at == call[t][2]
       IN  Answered(t, cmd, at) \/ Denied(t, cmd, at) \/ Unanswered(t, cmd, at)
    /\ UNCHANGED <<redis, logins>>

-----------------------------------------------------------------------------
\* Mutant of Publish: the route is published before it is stored.
PublishFirst(t) ==
    /\ call[t] = NotPublishing /\ logins < MaxLogins /\ logins' = logins + 1
    /\ call' = [call EXCEPT ![t] = <<"pub", 1>>]
    /\ calm' = [calm EXCEPT ![t] = redis = "up"] /\ told' = [told EXCEPT ![t] = 0]
    /\ kicks' = [kicks EXCEPT ![t] = IF m_redis[t] = "broken" THEN 1 ELSE 0]
    /\ alone' = (alone /\ \A u \in Thread : call[u] = NotPublishing)
    /\ UNCHANGED <<redis, store, heard, m_redis, result, faults>>

\* publishRouteInfo begins, after the reply to the user was handed to the router.
Publish(t) ==
    /\ call[t] = NotPublishing /\ logins < MaxLogins /\ logins' = logins + 1
    /\ call' = [call EXCEPT ![t] = <<"set", 1>>]
    /\ calm' = [calm EXCEPT ![t] = redis = "up"] /\ told' = [told EXCEPT ![t] = 0]
    /\ kicks' = [kicks EXCEPT ![t] = IF m_redis[t] = "broken" THEN 1 ELSE 0]
    /\ alone' = (alone /\ \A u \in Thread : call[u] = NotPublishing)
    /\ UNCHANGED <<redis, store, heard, m_redis, result, faults>>

\* Redis drops connections it has, idle ones among them.
Kick ==
    /\ Fault
    /\ \E d \in SUBSET {t \in Thread : m_redis[t] = "ok"} :
         /\ d # {}
         /\ m_redis' = [t \in Thread |-> IF t \in d THEN "broken" ELSE m_redis[t]]
         /\ kicks' = [t \in Thread |-> IF t \in d /\ call[t] # NotPublishing THEN kicks[t] + 1
                                                                           ELSE kicks[t]]
    /\ UNCHANGED <<redis, store, heard, call, result, calm, told, alone, logins>>

Fail ==
    /\ redis = "up" /\ Fault
    /\ redis' = "down" /\ calm' = [t \in Thread |-> FALSE]
    /\ UNCHANGED <<store, heard, m_redis, call, result, kicks, told, alone, logins>>

Recover ==
    /\ redis = "down" /\ redis' = "up"
    /\ m_redis' = [t \in Thread |-> IF m_redis[t] = "ok" THEN "broken" ELSE m_redis[t]]
    /\ UNCHANGED <<store, heard, call, result, publishHistory, told, logins, faults>>

PublishStep(t) == RedisConnect(t) \/ Command(t)
PublishNext == Kick \/ Fail \/ Recover \/ \E t \in Thread : Publish(t) \/ PublishStep(t)

PublishSpec ==
    /\ PublishInit /\ [][PublishNext]_publishVars
    /\ \A t \in Thread : WF_publishVars(PublishStep(t))

-----------------------------------------------------------------------------
\* Shape of the state.  A publication sends PUBLISH twice at most.
PublishTypeOK ==
    /\ redis \in {"up", "down"} /\ store \in {Instance[t] : t \in Thread} \cup {NoInstance}
    /\ heard \in Seq({Instance[t] : t \in Thread})
    /\ m_redis \in [Thread -> {"null", "ok", "broken"}]
    /\ \A t \in Thread : call[t] = NotPublishing \/ call[t] \in {"set", "pub"} \X (1..3)
    /\ result \in [Thread -> BOOLEAN] /\ told \in [Thread -> 0..2]
    /\ calm \in [Thread -> BOOLEAN] /\ kicks \in [Thread -> Nat] /\ alone \in BOOLEAN
    /\ logins \in 0..MaxLogins /\ faults \in 0..MaxFaults

\* The "re-connection when error/kicked" of redis_operator.cpp: a publication during
\* which redis is up and refuses nothing is published although the thread's connection
\* was broken when it began or is lost in the meantime, once, at whatever step: before
\* or after Connect, before or after SET or PUBLISH was carried out.
KickedSucceeds ==
    /\ PublishTypeOK
    /\ \A t \in Thread : call[t] = NotPublishing /\ calm[t] /\ kicks[t] <= 1 => told[t] > 0

\* What the subscribers hear last is what they find stored, as long as publications
\* do not overlap and the last one of every thread has reached them.
HeardIsStored ==
    alone /\ heard # <<>> /\ (\A t \in Thread : call[t] = NotPublishing /\ told[t] > 0)
      => store = heard[Len(heard)]

=============================================================================
