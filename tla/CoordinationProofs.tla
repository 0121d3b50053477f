------------------------- MODULE CoordinationProofs -------------------------
(*****************************************************************************)
(* What the server tells the others, and that it stays known to them: the    *)
(* publication of a login in redis, for any number of auth workers,          *)
(* publications and faults, and the registration in zookeeper, for any       *)
(* number of sessions, losses and edits.  The two share nothing.             *)
(*****************************************************************************)
EXTENDS RoutePublisher, ZkRegistration, TLAPS

Routes == {Instance[t] : t \in Thread}

(* The types of the variables. *)
PublisherTypes ==
    /\ redis \in {"up", "down"}
    /\ store \in Routes \cup {NoInstance}
    /\ heard \in Seq(Routes)
    /\ m_redis \in [Thread -> {"null", "ok", "broken"}]
    /\ call \in [Thread -> {NotPublishing} \cup ({"set", "pub"} \X (1..3))]
    /\ result \in [Thread -> BOOLEAN]
    /\ told \in [Thread -> Nat]
    /\ calm \in [Thread -> BOOLEAN] /\ kicks \in [Thread -> Nat]
    /\ alone \in BOOLEAN
    /\ logins \in 0..MaxLogins /\ faults \in 0..MaxFaults

(* PUBLISH is sent once in each attempt, of which there are two. *)
AtMostTwice(t) ==
    /\ told[t] <= 2
    /\ call[t] # NotPublishing => told[t] <= 1
    /\ call[t][1] = "set" \/ call[t][2] = 1 => told[t] = 0

(* KickedSucceeds is about the end of a call.  Before it, a calm call that *)
(* has a broken connection or is past its first attempt at a command has   *)
(* lost a connection, and one whose second connection is broken has lost   *)
(* two.                                                                    *)
LostSoFar(t) ==
    calm[t] =>
       /\ redis = "up"
       /\ call[t] # NotPublishing /\ m_redis[t] = "broken" => kicks[t] >= 1
       /\ call[t][2] \in {2, 3} => kicks[t] >= 1
       /\ call[t][2] = 3 /\ m_redis[t] = "broken" => kicks[t] >= 2
       /\ call[t] = NotPublishing /\ kicks[t] <= 1 => told[t] > 0

(* HeardIsStored is about the time when all calls have ended.  Before it,  *)
(* the one call that runs has stored its route when it comes to Pub, and   *)
(* what was heard last is its route once it has told anyone.               *)
OneRunning == \A t, u \in Thread : call[t] # NotPublishing /\ call[u] # NotPublishing => t = u
Stored(t) == call[t][1] = "pub" => store = Instance[t]
ToldLast(t) ==
    call[t][1] = "pub" /\ told[t] > 0 => heard # <<>> /\ heard[Len(heard)] = Instance[t]
Sequential ==
    alone => OneRunning /\ (\A t \in Thread : Stored(t) /\ ToldLast(t)) /\ HeardIsStored

-----------------------------------------------------------------------------
(* One step of a call at the command cmd. *)
StepOf(t, cmd, at) ==
    /\ call[t] = <<cmd, at>> /\ UNCHANGED <<redis, logins>>
    /\ \/ at # 3 /\ Connected(t, cmd, at)
       \/ Unconnected(t)
       \/ at # 2 /\ Answered(t, cmd, at)
       \/ Denied(t, cmd, at)
       \/ at # 2 /\ Unanswered(t, cmd, at)

(* A call does nothing else. *)
LEMMA StepsOfCall ==
    ASSUME PublisherTypes, NEW t \in Thread, PublishStep(t)
    PROVE  \E cmd \in {"set", "pub"}, at \in 1..3 : StepOf(t, cmd, at)
<1> DEFINE cmd == call[t][1]
           at == call[t][2]
<1>1. call[t] # NotPublishing
  BY Zenon DEF PublishStep, RedisConnect, Command
<1>2. call[t] = <<cmd, at>> /\ cmd \in {"set", "pub"} /\ at \in 1..3
  BY <1>1 DEF PublisherTypes
<1>3. StepOf(t, cmd, at)
  <2>1. CASE RedisConnect(t)
    <3>1. at # 3
      BY <2>1 DEF RedisConnect, Connecting
    <3> QED
      BY <1>2, <2>1, <3>1, Zenon DEF RedisConnect, StepOf
  <2>2. CASE Command(t)
    <3>1. at # 2
      BY <2>2, Zenon DEF Command, Connecting
    <3> QED
      BY <1>2, <2>2, <3>1, Zenon DEF Command, StepOf
  <2> QED
    BY <2>1, <2>2 DEF PublishStep
<1> HIDE DEF cmd, at
<1> QED
  BY <1>2, <1>3, Zenon

(* A step of a call leaves the other threads alone. *)
LEMMA OthersKept ==
    ASSUME PublisherTypes, NEW t \in Thread, NEW cmd \in {"set", "pub"}, NEW at \in 1..3,
           StepOf(t, cmd, at)
    PROVE  /\ UNCHANGED <<redis, logins, kicks, alone>>
           /\ \A u \in Thread : u # t => /\ call'[u] = call[u] /\ told'[u] = told[u]
                                         /\ calm'[u] = calm[u] /\ m_redis'[u] = m_redis[u]
<1>1. UNCHANGED <<redis, logins, kicks, alone>>
  BY Zenon DEF StepOf, Connected, Unconnected, Answered, Denied, Unanswered, Refused, publishHistory
<1>2. ASSUME NEW u \in Thread, u # t
      PROVE  call'[u] = call[u]
  BY <1>2, Zenon DEF PublisherTypes, StepOf, Connected, Unconnected, Answered, Denied, Unanswered,
                     Go, Finish
<1>3. ASSUME NEW u \in Thread, u # t
      PROVE  told'[u] = told[u]
  <2>1. told' = told \/ told' = [told EXCEPT ![t] = told[t] + 1]
    BY Zenon DEF StepOf, Connected, Unconnected, Answered, Denied, Unanswered, Carry
  <2> QED
    BY <1>3, <2>1, Zenon DEF PublisherTypes
<1>4. ASSUME NEW u \in Thread, u # t
      PROVE  calm'[u] = calm[u] /\ m_redis'[u] = m_redis[u]
  BY <1>4, Zenon DEF PublisherTypes, StepOf, Connected, Unconnected, Answered, Denied, Unanswered,
                     Refused, publishHistory
<1> QED
  BY <1>1, <1>2, <1>3, <1>4

(* What a command that is carried out or not changes. *)
LEMMA Carried ==
    ASSUME PublisherTypes, NEW t \in Thread, NEW cmd \in {"set", "pub"},
           Carry(t, cmd) \/ UNCHANGED <<store, heard, told>>
    PROVE  /\ heard' \in Seq(Routes) /\ told' \in [Thread -> Nat]
           /\ store' \in Routes \cup {NoInstance}
           /\ told'[t] = told[t] \/ (cmd = "pub" /\ told'[t] = told[t] + 1)
           /\ cmd = "pub" => store' = store
           /\ cmd = "set" => told' = told
           /\ told'[t] # told[t] => heard' = Append(heard, Instance[t])
           /\ told'[t] = told[t] => heard' = heard
<1> USE DEF PublisherTypes
<1>0. Instance[t] \in Routes /\ told[t] \in Nat
  BY DEF Routes
<1>1. CASE UNCHANGED <<store, heard, told>>
  BY <1>1
<1>2. CASE Carry(t, cmd) /\ cmd = "set"
  <2>1. heard' = heard /\ told' = told /\ store' = Instance[t]
    BY <1>2 DEF Carry
  <2> QED
    BY <1>0, <1>2, <2>1
<1>3. CASE Carry(t, cmd) /\ cmd = "pub"
  <2>1. /\ heard' = Append(heard, Instance[t]) /\ told' = [told EXCEPT ![t] = told[t] + 1]
        /\ store' = store
    BY <1>3 DEF Carry
  <2>2. heard' \in Seq(Routes)
    BY <1>0, <2>1
  <2>3. told' \in [Thread -> Nat] /\ told'[t] = told[t] + 1
    BY <1>0, <2>1
  <2> QED
    BY <1>0, <1>3, <2>1, <2>2, <2>3
<1> QED
  BY <1>1, <1>2, <1>3

(* The variables keep their types. *)
LEMMA PublisherTypesKept ==
    ASSUME PublisherTypes, [PublishNext]_publishVars
    PROVE  PublisherTypes'
<1> USE DEF PublisherTypes
<1>1. ASSUME NEW t \in Thread, PublishStep(t)
      PROVE  PublisherTypes'
  <2>1. PICK cmd \in {"set", "pub"}, at \in 1..3 : StepOf(t, cmd, at)
    BY <1>1, StepsOfCall, Zenon
  <2>2. ASSUME NEW n \in 1..3, NEW c \in {"set", "pub"}
        PROVE  <<c, n>> \in {"set", "pub"} \X (1..3)
    OBVIOUS
  <2>3. call' \in [Thread -> {NotPublishing} \cup ({"set", "pub"} \X (1..3))]
    <3>1. \/ \E c \in {"set", "pub"}, n \in 1..3 : call' = [call EXCEPT ![t] = <<c, n>>]
          \/ call' = [call EXCEPT ![t] = NotPublishing]
      <4>1. 1 \in 1..3 /\ 2 \in 1..3 /\ 3 \in 1..3
        OBVIOUS
      <4> QED
        BY <2>1, <4>1, Zenon
        DEF StepOf, Connected, Unconnected, Answered, Denied, Unanswered, Go, Finish
    <3>2. CASE call' = [call EXCEPT ![t] = NotPublishing]
      BY <3>2, Zenon
    <3>3. ASSUME NEW c \in {"set", "pub"}, NEW n \in 1..3, call' = [call EXCEPT ![t] = <<c, n>>]
          PROVE  call' \in [Thread -> {NotPublishing} \cup ({"set", "pub"} \X (1..3))]
      BY <2>2, <3>3
    <3> QED
      BY <3>1, <3>2, <3>3, Zenon
  <2>4. result' \in [Thread -> BOOLEAN]
    BY <2>1, Zenon DEF StepOf, Connected, Unconnected, Answered, Denied, Unanswered, Go, Finish,
                       PubReturns
  <2>5. /\ heard' \in Seq(Routes) /\ told' \in [Thread -> Nat]
        /\ store' \in Routes \cup {NoInstance}
    <3>1. Carry(t, cmd) \/ UNCHANGED <<store, heard, told>>
      BY <2>1, Zenon DEF StepOf, Connected, Unconnected, Answered, Denied, Unanswered
    <3> QED
      BY <3>1, Carried
  <2>6. m_redis' \in [Thread -> {"null", "ok", "broken"}] /\ calm' \in [Thread -> BOOLEAN]
    BY <2>1, Zenon DEF StepOf, Connected, Unconnected, Answered, Denied, Unanswered, Refused,
                       publishHistory
  <2>7. faults' \in 0..MaxFaults
    <3>1. faults' = faults \/ Fault
      BY <2>1, Zenon DEF StepOf, Connected, Unconnected, Answered, Denied, Unanswered
    <3> QED
      BY <3>1, PublisherAssumption DEF Fault
  <2>8. UNCHANGED <<redis, logins, kicks, alone>>
    BY <2>1, OthersKept
  <2> QED
    BY <2>3, <2>4, <2>5, <2>6, <2>7, <2>8
<1>2. ASSUME NEW t \in Thread, Publish(t)
      PROVE  PublisherTypes'
  <2>1. call' \in [Thread -> {NotPublishing} \cup ({"set", "pub"} \X (1..3))]
    <3>1. <<"set", 1>> \in {"set", "pub"} \X (1..3)
      OBVIOUS
    <3> QED
      BY <1>2, <3>1, Zenon DEF Publish
  <2>2. calm' \in [Thread -> BOOLEAN]
    <3>1. calm' = [calm EXCEPT ![t] = redis = "up"] /\ (redis = "up") \in BOOLEAN
      BY <1>2 DEF Publish
    <3> QED
      BY <3>1
  <2>3. told' \in [Thread -> Nat] /\ kicks' \in [Thread -> Nat]
    <3>1. /\ told' = [told EXCEPT ![t] = 0]
          /\ kicks' = [kicks EXCEPT ![t] = IF m_redis[t] = "broken" THEN 1 ELSE 0]
      BY <1>2, Zenon DEF Publish
    <3> QED
      BY <3>1
  <2>4. alone' \in BOOLEAN
    BY <1>2, Zenon DEF Publish
  <2>5. logins' \in 0..MaxLogins
    BY <1>2, PublisherAssumption DEF Publish
  <2>6. UNCHANGED <<redis, store, heard, m_redis, result, faults>>
    BY <1>2, Zenon DEF Publish
  <2> QED
    BY <2>1, <2>2, <2>3, <2>4, <2>5, <2>6
<1>3. CASE Kick \/ Fail \/ Recover
  <2>1. faults' = faults \/ Fault
    BY <1>3, Zenon DEF Kick, Fail, Recover
  <2>2. faults' \in 0..MaxFaults
    BY <2>1, PublisherAssumption DEF Fault
  <2>3. kicks' \in [Thread -> Nat]
    <3>1. CASE Kick
      <4>1. PICK d : kicks' = [u \in Thread |-> IF u \in d /\ call[u] # NotPublishing
                                                THEN kicks[u] + 1 ELSE kicks[u]]
        BY <3>1, Zenon DEF Kick
      <4> QED
        BY <4>1
    <3>2. CASE kicks' = kicks
      BY <3>2
    <3> QED
      BY <1>3, <3>1, <3>2, Zenon DEF Fail, Recover, publishHistory
  <2>4. UNCHANGED <<store, heard, call, result, told, alone, logins>>
    BY <1>3, Zenon DEF Kick, Fail, Recover, publishHistory
  <2>5. m_redis' \in [Thread -> {"null", "ok", "broken"}]
    <3>1. CASE Kick
      BY <3>1 DEF Kick
    <3>2. CASE Fail
      BY <3>2 DEF Fail
    <3>3. CASE Recover
      BY <3>3 DEF Recover
    <3> QED
      BY <1>3, <3>1, <3>2, <3>3
  <2>7. calm' \in [Thread -> BOOLEAN]
    <3>1. calm' = calm \/ calm' = [t \in Thread |-> FALSE]
      BY <1>3, Zenon DEF Kick, Fail, Recover, publishHistory
    <3>2. [t \in Thread |-> FALSE] \in [Thread -> BOOLEAN]
      BY Zenon
    <3> QED
      BY <3>1, <3>2, Zenon
  <2>6. redis' \in {"up", "down"}
    BY <1>3, Zenon DEF Kick, Fail, Recover
  <2> QED
    BY <2>2, <2>3, <2>4, <2>5, <2>6, <2>7
<1>4. CASE UNCHANGED publishVars
  BY <1>4 DEF publishVars, publishHistory
<1> QED
  BY <1>1, <1>2, <1>3, <1>4, Zenon DEF PublishNext

(* The thread that makes a step: what it has told and lost. *)
LEMMA StepKeepsCount ==
    ASSUME PublisherTypes, NEW t \in Thread, NEW cmd \in {"set", "pub"}, NEW at \in 1..3,
           StepOf(t, cmd, at), AtMostTwice(t), LostSoFar(t)
    PROVE  AtMostTwice(t)' /\ LostSoFar(t)'
<1>0. /\ call[t] = <<cmd, at>> /\ call[t] # NotPublishing /\ call[t][1] = cmd /\ call[t][2] = at
      /\ redis' = redis /\ kicks' = kicks
      /\ told[t] \in Nat /\ kicks[t] \in Nat
  <2>1. call[t] = <<cmd, at>> /\ redis' = redis /\ kicks' = kicks
    BY OthersKept DEF StepOf
  <2> QED
    BY <2>1 DEF PublisherTypes, NotPublishing
<1>1. told[t] <= 1 /\ (cmd = "set" \/ at = 1 => told[t] = 0)
  BY <1>0 DEF AtMostTwice
<1>2. NotPublishing[1] = "idle" /\ NotPublishing[2] = 0
  BY DEF NotPublishing
<1>3. CASE at # 3 /\ Connected(t, cmd, at)
  <2>1. /\ redis = "up" /\ m_redis'[t] = "ok" /\ calm' = calm /\ told' = told
        /\ call'[t] = <<cmd, IF at = 2 THEN 3 ELSE 1>>
    BY <1>3, Zenon DEF Connected, Go, PublisherTypes, publishHistory
  <2>2. \/ at = 2 /\ call'[t] = <<cmd, 3>>
        \/ at = 1 /\ call'[t] = <<cmd, 1>>
    BY <1>3, <2>1
  <2> QED
    BY <1>0, <1>1, <1>2, <2>1, <2>2 DEF AtMostTwice, LostSoFar, NotPublishing
<1>4. CASE Unconnected(t)
  <2>1. ~calm'[t] /\ told' = told /\ call'[t] = NotPublishing
    BY <1>4, Zenon DEF Unconnected, Finish, Refused, PublisherTypes
  <2> QED
    BY <1>0, <1>1, <1>2, <2>1 DEF AtMostTwice, LostSoFar
<1>5. CASE Answered(t, cmd, at)
  <2>1. /\ m_redis'[t] = "ok" /\ redis = "up" /\ calm' = calm
        /\ cmd = "set" => call'[t] = <<"pub", 1>>
        /\ cmd = "pub" => call'[t] = NotPublishing
    BY <1>5, Zenon DEF Answered, Go, Finish, PublisherTypes, publishHistory
  <2>2. CASE cmd = "set"
    <3>1. told' = told
      BY <1>5, <2>2 DEF Answered, Carry
    <3> QED
      BY <1>0, <1>1, <1>2, <2>1, <2>2, <3>1 DEF AtMostTwice, LostSoFar, NotPublishing
  <2>3. CASE cmd = "pub"
    <3>1. told'[t] = told[t] + 1
      BY <1>5, <2>3 DEF Answered, Carry, PublisherTypes
    <3> QED
      BY <1>0, <1>1, <1>2, <2>1, <2>3, <3>1 DEF AtMostTwice, LostSoFar
  <2> QED
    BY <2>2, <2>3
<1>6. CASE Denied(t, cmd, at)
  <2>1. ~calm'[t] /\ told' = told /\ call'[t] = NotPublishing
    BY <1>6, Zenon DEF Denied, Finish, Refused, PublisherTypes
  <2> QED
    BY <1>0, <1>1, <1>2, <2>1 DEF AtMostTwice, LostSoFar
<1>7. CASE Unanswered(t, cmd, at) /\ at # 2
  <2>1. /\ m_redis'[t] = "broken" /\ calm' = calm
        /\ m_redis[t] = "broken" \/ redis = "down"
        /\ at = 1 => call'[t] = <<cmd, 2>>
        /\ at = 3 => call'[t] = NotPublishing
    <3>1. (at = 1) # (at = 3)
      BY <1>7
    <3>2. 1 # 3
      OBVIOUS
    <3> QED
      BY <1>7, <3>2, Zenon DEF Unanswered, Go, Finish, PublisherTypes, publishHistory
  <2>2. told'[t] = told[t] \/ (cmd = "pub" /\ told'[t] = told[t] + 1)
    <3>1. Carry(t, cmd) \/ UNCHANGED <<store, heard, told>>
      BY <1>7, Zenon DEF Unanswered
    <3> QED
      BY <3>1, Carried
  <2>3. calm[t] => redis = "up" /\ kicks[t] >= 1 /\ (at = 3 => kicks[t] >= 2)
    BY <1>0, <2>1 DEF LostSoFar
  <2>4. AtMostTwice(t)'
    BY <1>0, <1>1, <1>2, <1>7, <2>1, <2>2 DEF AtMostTwice, NotPublishing
  <2>5. LostSoFar(t)'
    BY <1>0, <1>2, <1>7, <2>1, <2>3 DEF LostSoFar, NotPublishing
  <2> QED
    BY <2>4, <2>5
<1> QED
  BY <1>3, <1>4, <1>5, <1>6, <1>7, Zenon DEF StepOf

(* What the steps of the others, and of redis, do to a thread that makes none. *)
LEMMA RestKeepsCount ==
    ASSUME PublisherTypes, NEW u \in Thread, AtMostTwice(u), LostSoFar(u),
           UNCHANGED <<call[u], told[u]>>,
           \/ UNCHANGED <<redis, calm[u], kicks[u], m_redis[u]>>
           \/ Kick
           \/ ~calm'[u]
    PROVE  AtMostTwice(u)' /\ LostSoFar(u)'
<1>0. kicks[u] \in Nat /\ told[u] \in Nat
  BY DEF PublisherTypes
<1>1. AtMostTwice(u)'
  BY DEF AtMostTwice
<1>2. CASE UNCHANGED <<redis, calm[u], kicks[u], m_redis[u]>>
  BY <1>1, <1>2 DEF LostSoFar
<1>3. CASE Kick
  <2>1. PICK d \in SUBSET {t \in Thread : m_redis[t] = "ok"} :
          /\ m_redis' = [t \in Thread |-> IF t \in d THEN "broken" ELSE m_redis[t]]
          /\ kicks' = [t \in Thread |-> IF t \in d /\ call[t] # NotPublishing THEN kicks[t] + 1
                                                                            ELSE kicks[t]]
    BY <1>3, Zenon DEF Kick
  <2>2. UNCHANGED <<redis, calm[u]>>
    BY <1>3 DEF Kick
  <2>3. \/ m_redis'[u] = m_redis[u] /\ kicks'[u] = kicks[u]
        \/ call[u] # NotPublishing /\ kicks'[u] = kicks[u] + 1
        \/ call[u] = NotPublishing /\ kicks'[u] = kicks[u]
    <3>1. u \in d => m_redis[u] = "ok"
      BY <2>1
    <3> QED
      BY <2>1
  <2>4. NotPublishing[2] = 0
    BY DEF NotPublishing
  <2>5. m_redis[u] # "broken" \/ m_redis'[u] = m_redis[u]
    BY <2>1
  <2>6. m_redis'[u] = m_redis[u] \/ call[u] = NotPublishing \/ kicks'[u] = kicks[u] + 1
    BY <2>3
  <2> QED
    BY <1>0, <1>1, <2>2, <2>3, <2>4, <2>5, <2>6 DEF LostSoFar
<1>4. CASE ~calm'[u]
  BY <1>1, <1>4 DEF LostSoFar
<1> QED
  BY <1>2, <1>3, <1>4

(* Each step keeps both of all threads. *)
LEMMA CountKept ==
    ASSUME PublisherTypes, [PublishNext]_publishVars,
           \A u \in Thread : AtMostTwice(u) /\ LostSoFar(u)
    PROVE  \A u \in Thread : AtMostTwice(u)' /\ LostSoFar(u)'
<1> TAKE u \in Thread
<1>0. AtMostTwice(u) /\ LostSoFar(u)
  BY Zenon
<1>1. ASSUME NEW t \in Thread, PublishStep(t)
      PROVE  AtMostTwice(u)' /\ LostSoFar(u)'
  <2>1. PICK cmd \in {"set", "pub"}, at \in 1..3 : StepOf(t, cmd, at)
    BY <1>1, StepsOfCall, Zenon
  <2>2. CASE u = t
    BY <1>0, <2>1, <2>2, StepKeepsCount
  <2>3. CASE u # t
    <3>1. UNCHANGED <<redis, kicks, call[u], told[u], calm[u], m_redis[u]>>
      BY <2>1, <2>3, OthersKept
    <3> QED
      BY <1>0, <3>1, RestKeepsCount
  <2> QED
    BY <2>2, <2>3
<1>2. ASSUME NEW t \in Thread, Publish(t)
      PROVE  AtMostTwice(u)' /\ LostSoFar(u)'
  <2>1. /\ call' = [call EXCEPT ![t] = <<"set", 1>>] /\ told' = [told EXCEPT ![t] = 0]
        /\ calm' = [calm EXCEPT ![t] = redis = "up"]
        /\ kicks' = [kicks EXCEPT ![t] = IF m_redis[t] = "broken" THEN 1 ELSE 0]
        /\ UNCHANGED <<redis, m_redis>>
    BY <1>2, Zenon DEF Publish
  <2>2. CASE u = t
    <3>1. /\ call'[u] = <<"set", 1>> /\ told'[u] = 0 /\ calm'[u] = (redis = "up")
          /\ kicks'[u] = (IF m_redis[u] = "broken" THEN 1 ELSE 0)
      BY <2>1, <2>2 DEF PublisherTypes
    <3>2. call'[u] # NotPublishing /\ call'[u][2] = 1
      BY <3>1 DEF NotPublishing
    <3>3. AtMostTwice(u)'
      BY <3>1, <3>2 DEF AtMostTwice
    <3>4. m_redis'[u] = "broken" => kicks'[u] >= 1
      BY <2>1, <3>1
    <3>5. calm'[u] => redis' = "up"
      BY <2>1, <3>1, Zenon
    <3>6. call'[u][2] \notin {2, 3}
      BY <3>2
    <3>7. LostSoFar(u)'
      BY <3>2, <3>4, <3>5, <3>6, Zenon DEF LostSoFar
    <3> QED
      BY <3>3, <3>7
  <2>3. CASE u # t
    <3>1. UNCHANGED <<redis, kicks[u], call[u], told[u], calm[u], m_redis[u]>>
      BY <2>1, <2>3 DEF PublisherTypes
    <3> QED
      BY <1>0, <3>1, RestKeepsCount
  <2> QED
    BY <2>2, <2>3
<1>3. CASE Kick
  BY <1>0, <1>3, RestKeepsCount DEF Kick
<1>4. CASE Fail
  <2>1. ~calm'[u] /\ UNCHANGED <<call[u], told[u]>>
    BY <1>4 DEF Fail
  <2> QED
    BY <1>0, <2>1, RestKeepsCount
<1>5. CASE Recover
  <2>1. ~calm[u]
    BY <1>0, <1>5 DEF Recover, LostSoFar
  <2>2. ~calm'[u] /\ UNCHANGED <<call[u], told[u]>>
    BY <1>5, <2>1 DEF Recover, publishHistory
  <2> QED
    BY <1>0, <2>2, RestKeepsCount
<1>6. CASE UNCHANGED publishVars
  <2>1. UNCHANGED <<redis, kicks, call, told, calm, m_redis>>
    BY <1>6 DEF publishVars, publishHistory
  <2> QED
    BY <1>0, <2>1, RestKeepsCount
<1> QED
  BY <1>1, <1>2, <1>3, <1>4, <1>5, <1>6, Zenon DEF PublishNext

(* It starts with no call. *)
LEMMA PublisherStarts ==
    ASSUME PublishInit
    PROVE  PublisherTypes /\ \A u \in Thread : AtMostTwice(u) /\ LostSoFar(u)
<1>1. PublisherTypes
  BY PublisherAssumption DEF PublishInit, PublisherTypes
<1>2. ASSUME NEW u \in Thread
      PROVE  AtMostTwice(u) /\ LostSoFar(u)
  BY DEF PublishInit, AtMostTwice, LostSoFar, NotPublishing
<1> QED
  BY <1>1, <1>2

(* The shape of the state, and KickedSucceeds of RoutePublisher: a           *)
(* publication during which redis is up and refuses nothing reaches redis    *)
(* although the connection of the thread was broken when it began or is lost *)
(* once at whatever step of Set and Pub, for any number of threads, logins   *)
(* and faults (redis_operator.cpp, "re-connection when error/kicked").       *)
THEOREM KickedWorkersPublish ==
    PublishSpec => [](PublishTypeOK /\ KickedSucceeds)
<1> DEFINE Inv == PublisherTypes /\ \A u \in Thread : AtMostTwice(u) /\ LostSoFar(u)
<1>1. PublishInit => Inv
  BY PublisherStarts
<1>2. Inv /\ [PublishNext]_publishVars => Inv'
  BY PublisherTypesKept, CountKept
<1>3. Inv => PublishTypeOK /\ KickedSucceeds
  <2> SUFFICES ASSUME Inv PROVE PublishTypeOK /\ KickedSucceeds
    OBVIOUS
  <2>1. told \in [Thread -> 0..2]
    <3>1. \A u \in Thread : told[u] \in 0..2
      BY DEF AtMostTwice, PublisherTypes
    <3> QED
      BY <3>1 DEF PublisherTypes
  <2>2. PublishTypeOK
    BY <2>1 DEF PublishTypeOK, PublisherTypes, Routes
  <2>3. \A u \in Thread : call[u] = NotPublishing /\ calm[u] /\ kicks[u] <= 1 => told[u] > 0
    BY DEF LostSoFar
  <2> QED
    BY <2>2, <2>3 DEF KickedSucceeds
<1> HIDE DEF Inv
<1> QED
  BY <1>1, <1>2, <1>3, PTL DEF PublishSpec

-----------------------------------------------------------------------------
(* A step of the one call that runs. *)
LEMMA StepKeepsOrder ==
    ASSUME PublisherTypes, NEW t \in Thread, NEW cmd \in {"set", "pub"}, NEW at \in 1..3,
           StepOf(t, cmd, at), AtMostTwice(t), Stored(t), ToldLast(t)
    PROVE  /\ Stored(t)' /\ ToldLast(t)'
           /\ call'[t] = NotPublishing /\ told'[t] > 0 => store' = heard'[Len(heard')]
<1>0. /\ call[t] = <<cmd, at>> /\ call[t][1] = cmd /\ call[t][2] = at
      /\ told[t] \in Nat /\ Instance[t] \in Routes
  <2>1. call[t] = <<cmd, at>>
    BY DEF StepOf
  <2> QED
    BY <2>1 DEF PublisherTypes, Routes
<1>1. Carry(t, cmd) \/ UNCHANGED <<store, heard, told>>
  BY Zenon DEF StepOf, Connected, Unconnected, Answered, Denied, Unanswered
<1>2. NotPublishing[1] = "idle"
  BY DEF NotPublishing
<1>3. CASE cmd = "set"
  <2>1. told'[t] = 0
    BY <1>0, <1>1, <1>3, Carried DEF AtMostTwice
  <2>2. \/ call'[t][1] = "set"
        \/ call'[t][1] = "pub" /\ store' = Instance[t]
        \/ call'[t] = NotPublishing
    <3>1. CASE Answered(t, cmd, at)
      BY <1>3, <3>1 DEF Answered, Go, Carry, PublisherTypes
    <3>2. CASE Connected(t, cmd, at) \/ Unanswered(t, cmd, at)
      <4>1. \/ \E n : call' = [call EXCEPT ![t] = <<cmd, n>>]
            \/ call' = [call EXCEPT ![t] = NotPublishing]
        BY <3>2, Zenon DEF Connected, Unanswered, Go, Finish
      <4> QED
        BY <1>3, <4>1 DEF PublisherTypes
    <3>3. CASE Unconnected(t) \/ Denied(t, cmd, at)
      BY <3>3, Zenon DEF Unconnected, Denied, Finish, PublisherTypes
    <3> QED
      BY <3>1, <3>2, <3>3, Zenon DEF StepOf
  <2> QED
    BY <1>2, <2>1, <2>2 DEF Stored, ToldLast
<1>4. CASE cmd = "pub"
  <2>1. store' = Instance[t]
    BY <1>0, <1>1, <1>4, Carried DEF Stored
  <2>2. told'[t] > 0 => heard' # <<>> /\ heard'[Len(heard')] = Instance[t]
    <3>1. CASE told'[t] = told[t]
      <4>1. heard' = heard
        BY <1>1, <3>1, Carried
      <4> QED
        BY <1>0, <1>4, <3>1, <4>1 DEF ToldLast
    <3>2. CASE told'[t] # told[t]
      <4>1. heard' = Append(heard, Instance[t])
        BY <1>1, <3>2, Carried
      <4> QED
        BY <1>0, <4>1 DEF PublisherTypes
    <3> QED
      BY <3>1, <3>2
  <2> QED
    BY <2>1, <2>2 DEF Stored, ToldLast
<1> QED
  BY <1>3, <1>4

(* Calls that do not overlap keep the order of SET and PUBLISH. *)
LEMMA SequentialKept ==
    ASSUME PublisherTypes, \A u \in Thread : AtMostTwice(u), Sequential,
           [PublishNext]_publishVars
    PROVE  Sequential'
<1> SUFFICES ASSUME alone'
             PROVE  Sequential'
  BY DEF Sequential
<1>0. NotPublishing[1] = "idle"
  BY DEF NotPublishing
<1>1. ASSUME NEW t \in Thread, PublishStep(t)
      PROVE  Sequential'
  <2>1. PICK cmd \in {"set", "pub"}, at \in 1..3 : StepOf(t, cmd, at)
    BY <1>1, StepsOfCall, Zenon
  <2>2. alone /\ call[t] # NotPublishing
    <3>1. call[t] = <<cmd, at>>
      BY <2>1 DEF StepOf
    <3>2. alone' = alone
      BY <2>1, OthersKept, Zenon
    <3>3. call[t] # NotPublishing
      BY <3>1 DEF NotPublishing
    <3> QED
      BY <3>2, <3>3, Zenon
  <2>3. \A u \in Thread : u # t => call'[u] = NotPublishing
    <3>1. \A u \in Thread : u # t => call'[u] = call[u]
      BY <2>1, OthersKept, Zenon
    <3>2. \A u \in Thread : u # t => call[u] = NotPublishing
      BY <2>2, Zenon DEF Sequential, OneRunning
    <3> QED
      BY <3>1, <3>2, Zenon
  <2>4. AtMostTwice(t) /\ Stored(t) /\ ToldLast(t)
    BY <2>2, Zenon DEF Sequential
  <2>5. /\ Stored(t)' /\ ToldLast(t)'
        /\ call'[t] = NotPublishing /\ told'[t] > 0 => store' = heard'[Len(heard')]
    BY <2>1, <2>4, StepKeepsOrder
  <2>6. \A u \in Thread : Stored(u)' /\ ToldLast(u)'
    <3>1. ASSUME NEW u \in Thread, u # t
          PROVE  Stored(u)' /\ ToldLast(u)'
      BY <1>0, <2>3, <3>1 DEF Stored, ToldLast
    <3> QED
      BY <2>5, <3>1
  <2>7. OneRunning'
    BY <2>3, Zenon DEF OneRunning
  <2>8. HeardIsStored'
    BY <2>5, Zenon DEF HeardIsStored
  <2> QED
    BY <2>6, <2>7, <2>8 DEF Sequential
<1>2. ASSUME NEW t \in Thread, Publish(t)
      PROVE  Sequential'
  <2>1. \A u \in Thread : u # t => call'[u] = NotPublishing
    BY <1>2, Zenon DEF Publish, PublisherTypes
  <2>2. call'[t] = <<"set", 1>>
    BY <1>2, Zenon DEF Publish, PublisherTypes
  <2>3. \A u \in Thread : call'[u][1] # "pub"
    BY <1>0, <2>1, <2>2
  <2>4. OneRunning'
    BY <2>1, Zenon DEF OneRunning
  <2>5. call'[t] # NotPublishing
    BY <2>2 DEF NotPublishing
  <2> QED
    BY <2>3, <2>4, <2>5, Zenon DEF Sequential, Stored, ToldLast, HeardIsStored
<1>3. CASE Kick \/ Fail \/ Recover \/ UNCHANGED publishVars
  <2>1. UNCHANGED <<store, heard, call, told, alone>>
    BY <1>3, Zenon DEF Kick, Fail, Recover, publishVars, publishHistory
  <2> QED
    BY <2>1 DEF Sequential, OneRunning, Stored, ToldLast, HeardIsStored
<1> QED
  BY <1>1, <1>2, <1>3, Zenon DEF PublishNext

(* HeardIsStored of RoutePublisher: while publications do not overlap and the *)
(* last one of every worker has reached the subscribers, they find stored     *)
(* what they heard last, for any number of threads, logins and faults         *)
(* (auth_worker.cpp publishRouteInfo: Set before Pub).                        *)
THEOREM LastHeardIsStored == PublishSpec => []HeardIsStored
<1> DEFINE Inv == /\ PublisherTypes
                  /\ \A u \in Thread : AtMostTwice(u) /\ LostSoFar(u)
                  /\ Sequential
<1>1. PublishInit => Inv
  <2> SUFFICES ASSUME PublishInit PROVE Inv
    OBVIOUS
  <2>1. PublisherTypes /\ \A u \in Thread : AtMostTwice(u) /\ LostSoFar(u)
    BY PublisherStarts
  <2>2. Sequential
    BY DEF PublishInit, Sequential, OneRunning, Stored, ToldLast, HeardIsStored, NotPublishing
  <2> QED
    BY <2>1, <2>2
<1>2. Inv /\ [PublishNext]_publishVars => Inv'
  BY PublisherTypesKept, CountKept, SequentialKept
<1>3. ASSUME Inv PROVE HeardIsStored
  BY <1>3 DEF Sequential, HeardIsStored
<1> HIDE DEF Inv
<1> QED
  BY <1>1, <1>2, <1>3, PTL DEF PublishSpec

-----------------------------------------------------------------------------
Event == {"connected", "created", "deleted", "changed"}

(* An event is to come upon which the watcher joins. *)
JoinDue(es) == \E i \in DOMAIN es : es[i] # "created"

(* The types of the variables that the watcher uses. *)
WatcherTypes ==
    /\ sid \in Nat \ {0}
    /\ events \in Seq(Event)
    /\ watch \in BOOLEAN /\ raced \in BOOLEAN
    /\ session \in {"connecting", "up", "down", "expired"}
    /\ pc \in {"idle", "rearm", "parents", "mkparents", "exists", "value", "create"}

(* The sessions: one that is up is kept by zookeeper, which keeps no node  *)
(* of another; another handle is made only after one that expired.         *)
SessionsKept ==
    /\ sid \in 1..MaxSession /\ alive \subseteq 1..MaxSession
    /\ session = "expired" => sid < MaxSession
    /\ session = "up" => sid \in alive
    /\ node \in alive \cup {0}
    /\ same \in BOOLEAN /\ parents \in BOOLEAN
    /\ losses \in 0..MaxLoss /\ edits \in 0..MaxEdit

(* RegisteredAndWatched is about the watcher at rest.  At each step of join *)
(* before that, something is known of the node and of the watch, unless an *)
(* event makes the watcher join once more.  The node is not watched only   *)
(* between its creation and the handling of that event; then it is of the  *)
(* session that is up, and does not go by itself.                          *)
Settling ==
    session = "up" /\ ~raced /\ ~JoinDue(events) =>
        /\ pc = "idle" => node # 0 /\ (watch \/ (events # <<>> /\ node = sid))
        /\ pc = "rearm" => node # 0 /\ (watch \/ node = sid)
        /\ pc = "mkparents" => ~parents
        /\ pc = "value" => node # 0 /\ watch
        /\ pc = "create" => watch

-----------------------------------------------------------------------------
(* An event appended is due if it is not that of the creation. *)
LEMMA DueAfterAppend ==
    ASSUME NEW es \in Seq(Event), NEW e \in Event
    PROVE  /\ Append(es, e) \in Seq(Event) /\ Append(es, e) # <<>>
           /\ ~JoinDue(Append(es, e)) => ~JoinDue(es) /\ e = "created"
<1>1. /\ Append(es, e) \in Seq(Event) /\ Len(es) \in Nat
      /\ Len(Append(es, e)) = Len(es) + 1 /\ Append(es, e)[Len(es) + 1] = e
      /\ DOMAIN es = 1..Len(es) /\ DOMAIN Append(es, e) = 1..(Len(es) + 1)
  OBVIOUS
<1>2. \A i \in DOMAIN es : i \in DOMAIN Append(es, e) /\ Append(es, e)[i] = es[i]
  BY <1>1
<1>3. Len(es) + 1 \in DOMAIN Append(es, e)
  BY <1>1
<1>4. Append(es, e) # <<>>
  BY <1>1
<1> QED
  BY <1>1, <1>2, <1>3, <1>4 DEF JoinDue

(* What is due after the first event was due with it. *)
LEMMA DueBeforeTail ==
    ASSUME NEW es \in Seq(Event), es # <<>>
    PROVE  /\ Tail(es) \in Seq(Event)
           /\ Head(es) = "created" /\ ~JoinDue(Tail(es)) => ~JoinDue(es)
<1>1. Tail(es) \in Seq(Event) /\ Len(es) \in Nat \ {0} /\ Len(Tail(es)) = Len(es) - 1
  OBVIOUS
<1>2. ASSUME Head(es) = "created", ~JoinDue(Tail(es)), NEW i \in DOMAIN es
      PROVE  es[i] = "created"
  <2>1. CASE i = 1
    BY <1>2, <2>1
  <2>2. CASE i # 1
    <3>1. i - 1 \in DOMAIN Tail(es) /\ Tail(es)[i - 1] = es[i]
      BY <1>1, <2>2
    <3> QED
      BY <1>2, <3>1 DEF JoinDue
  <2> QED
    BY <2>1, <2>2
<1> QED
  BY <1>1, <1>2 DEF JoinDue

(* A watch that fires with anything but a creation leaves a join due. *)
LEMMA FireMakesDue ==
    ASSUME WatcherTypes, NEW e \in Event, Fire(e)
    PROVE  /\ events' \in Seq(Event) /\ watch' \in BOOLEAN
           /\ watch => events' # <<>> /\ ~watch'
           /\ watch /\ ~JoinDue(events') => ~JoinDue(events) /\ e = "created"
           /\ ~watch => events' = events /\ watch' = watch
<1>1. CASE watch
  <2>1. events' = Append(events, e) /\ watch' = FALSE
    BY <1>1 DEF Fire
  <2> QED
    BY <1>1, <2>1, DueAfterAppend, Zenon DEF WatcherTypes
<1>2. CASE ~watch
  BY <1>2 DEF WatcherTypes, Fire
<1> QED
  BY <1>1, <1>2

(* The variables keep their types. *)
LEMMA WatcherTypesKept ==
    ASSUME WatcherTypes, [Next]_vars
    PROVE  WatcherTypes'
<1>1. CASE Handle
  BY <1>1, DueBeforeTail DEF WatcherTypes, Handle, Still, bounds
<1>2. CASE Rearm \/ JoinParents \/ JoinExists \/ JoinValue
  BY <1>2, Zenon DEF WatcherTypes, Rearm, JoinParents, JoinExists, JoinValue, Still, bounds
<1>3. CASE JoinCreate
  <2>1. events' \in Seq(Event) /\ watch' \in BOOLEAN
    BY <1>3, FireMakesDue DEF WatcherTypes, JoinCreate, Event
  <2> QED
    BY <1>3, <2>1 DEF WatcherTypes, JoinCreate, Still, bounds
<1>4. CASE Connect
  BY <1>4, DueAfterAppend DEF WatcherTypes, Connect, bounds, Event
<1>5. CASE Reopen \/ Restart
  <2>1. sid' = sid + 1 /\ events' = <<>> /\ watch' = FALSE /\ UNCHANGED raced
    BY <1>5 DEF Reopen, Restart
  <2>2. sid' \in Nat \ {0} /\ events' \in Seq(Event)
    BY <2>1 DEF WatcherTypes
  <2>3. session' = "connecting" /\ pc' = "idle"
    BY <1>5 DEF Reopen, Restart
  <2> QED
    BY <2>1, <2>2, <2>3, Zenon DEF WatcherTypes
<1>6. CASE Lose
  BY <1>6 DEF WatcherTypes, Lose
<1>7. CASE OtherJoins
  <2>1. raced' \in BOOLEAN
    BY <1>7 DEF OtherJoins
  <2> QED
    BY <1>7, <2>1 DEF WatcherTypes, OtherJoins
<1>8. CASE Ping \/ UNCHANGED vars
  BY <1>8 DEF WatcherTypes, Ping, vars
<1>9. CASE Edit
  <2>1. events' \in Seq(Event) /\ watch' \in BOOLEAN
    BY <1>9, FireMakesDue DEF WatcherTypes, Edit, Event
  <2> QED
    BY <1>9, <2>1, Zenon DEF WatcherTypes, Edit
<1>10. ASSUME NEW k \in alive, Expire(k)
      PROVE  WatcherTypes'
  <2>1. events' \in Seq(Event) /\ watch' \in BOOLEAN
    BY <1>10, FireMakesDue DEF WatcherTypes, Expire, Event
  <2> QED
    BY <1>10, <2>1 DEF WatcherTypes, Expire, bounds
<1> QED
  BY <1>1, <1>2, <1>3, <1>4, <1>5, <1>6, <1>7, <1>8, <1>9, <1>10 DEF Next, Watcher, JoinStep

(* A node is of a session that zookeeper keeps. *)
LEMMA SessionsStay ==
    ASSUME WatcherTypes, SessionsKept, [Next]_vars
    PROVE  SessionsKept'
<1>0. /\ sid \in 1..MaxSession /\ alive \subseteq 1..MaxSession
      /\ session = "expired" => sid < MaxSession
      /\ session = "up" => sid \in alive
      /\ node \in alive \cup {0} /\ same \in BOOLEAN /\ parents \in BOOLEAN
      /\ losses \in 0..MaxLoss /\ edits \in 0..MaxEdit
      /\ MaxSession \in Nat \ {0} /\ MaxLoss \in Nat /\ MaxEdit \in Nat
  BY RegistrationAssumption DEF SessionsKept
<1>1. CASE Handle \/ Rearm \/ JoinExists \/ JoinValue \/ Ping \/ UNCHANGED vars
  <2>1. UNCHANGED <<session, sid, alive, node, same, parents, losses, edits>>
    BY <1>1, Zenon DEF Handle, Rearm, JoinExists, JoinValue, Ping, vars, Still, bounds
  <2> QED
    BY <2>1, Zenon DEF SessionsKept
<1>2. CASE JoinParents \/ OtherJoins
  <2>1. UNCHANGED <<session, sid, alive, node, same, losses, edits>>
    BY <1>2, Zenon DEF JoinParents, OtherJoins, Still, bounds
  <2>2. parents' \in {parents, TRUE, parents \/ session = "up"}
    BY <1>2, Zenon DEF JoinParents, OtherJoins
  <2>3. parents' \in BOOLEAN
    BY <1>0, <2>2, Zenon
  <2> QED
    BY <2>1, <2>3, Zenon DEF SessionsKept
<1>3. CASE JoinCreate
  <2>1. UNCHANGED <<session, sid, alive, parents, losses, edits>>
    BY <1>3, Zenon DEF JoinCreate, Still, bounds
  <2>2. \/ session = "up" /\ node' = sid /\ same' = TRUE
        \/ node' = node /\ same' = same
    BY <1>3, Zenon DEF JoinCreate
  <2>3. node' \in alive \cup {0} /\ same' \in BOOLEAN
    BY <1>0, <2>2, Zenon
  <2> QED
    BY <2>1, <2>3, Zenon DEF SessionsKept
<1>4. CASE Connect
  BY <1>0, <1>4 DEF SessionsKept, Connect, bounds
<1>5. CASE Lose
  BY <1>0, <1>5 DEF SessionsKept, Lose, zk
<1>6. CASE Reopen \/ Restart
  <2>1. sid < MaxSession
    BY <1>0, <1>6, Zenon DEF Reopen, Restart
  <2>2. /\ session' = "connecting" /\ sid' = sid + 1
        /\ UNCHANGED <<alive, node, same, parents, losses, edits>>
    BY <1>6, Zenon DEF Reopen, Restart, zk, bounds
  <2> QED
    BY <1>0, <2>1, <2>2 DEF SessionsKept
<1>7. CASE Edit
  <2>1. /\ UNCHANGED <<session, sid, alive, parents, losses>>
        /\ edits < MaxEdit /\ edits' = edits + 1
        /\ node' \in {node, 0} /\ same' \in {same, ~same}
    BY <1>7, Zenon DEF Edit
  <2>2. edits' \in 0..MaxEdit
    BY <1>0, <2>1
  <2>3. node' \in alive \cup {0} /\ same' \in BOOLEAN
    BY <1>0, <2>1, Zenon
  <2> QED
    BY <2>1, <2>2, <2>3, Zenon DEF SessionsKept
<1>8. ASSUME NEW k \in alive, Expire(k)
      PROVE  SessionsKept'
  <2>1. /\ UNCHANGED <<sid, same, parents, losses, edits>> /\ alive' = alive \ {k}
        /\ session' = IF k = sid THEN "expired" ELSE session
        /\ k # sid \/ session = "down"
        /\ k = sid => sid < MaxSession
        /\ IF node = k THEN node' = 0 ELSE node' = node
    BY <1>8, Zenon DEF Expire, bounds
  <2>2. /\ session' = "expired" => sid < MaxSession
        /\ session' = "up" => sid \in alive'
    BY <1>0, <2>1
  <2>3. node' \in alive' \cup {0} /\ alive' \subseteq 1..MaxSession
    BY <1>0, <2>1
  <2> QED
    BY <2>1, <2>2, <2>3, Zenon DEF SessionsKept
<1> QED
  BY <1>1, <1>2, <1>3, <1>4, <1>5, <1>6, <1>7, <1>8, Zenon DEF Next, Watcher, JoinStep

-----------------------------------------------------------------------------
(* With the session up and every event handled, the server is registered   *)
(* and watches its node, through any losses, expiries, restarts and edits, *)
(* unless another process got between two calls of join.                   *)
THEOREM StaysRegistered == Spec => []RegisteredAndWatched
<1>init. Init => WatcherTypes /\ Settling
  <2> SUFFICES ASSUME Init
               PROVE  WatcherTypes /\ Settling
    OBVIOUS
  <2>1. sid \in Nat \ {0} /\ events \in Seq(Event)
    BY DEF Init
  <2>2. watch \in BOOLEAN /\ raced \in BOOLEAN
    BY Zenon DEF Init
  <2> QED
    BY <2>1, <2>2 DEF Init, WatcherTypes, Settling
<1>step. ASSUME WatcherTypes, Settling, [Next]_vars
         PROVE  Settling'
  <2> USE <1>step
  <2>handle. CASE Handle
    BY <2>handle, DueBeforeTail DEF WatcherTypes, Settling, Handle, Still, bounds
  <2>rearm. CASE Rearm
    BY <2>rearm, Zenon DEF WatcherTypes, Settling, Rearm, Still, bounds
  <2>parents. CASE JoinParents
    BY <2>parents DEF WatcherTypes, Settling, JoinParents, Still, bounds
  <2>exists. CASE JoinExists
    BY <2>exists, Zenon DEF WatcherTypes, Settling, JoinExists, Still, bounds
  <2>value. CASE JoinValue
    BY <2>value, Zenon DEF WatcherTypes, Settling, JoinValue, Still, bounds
  <2>create. CASE JoinCreate
    <3>1. UNCHANGED <<session, sid, raced>> /\ pc' = "idle" /\ pc = "create"
      BY <2>create DEF JoinCreate, Still, bounds
    <3>2. CASE session = "up" /\ node = 0
      <4>1. node' = sid /\ Fire("created") /\ "created" \in Event
        BY <2>create, <3>2 DEF JoinCreate, Event
      <4> QED
        BY <3>1, <4>1, FireMakesDue DEF WatcherTypes, Settling
    <3>3. CASE ~(session = "up" /\ node = 0)
      BY <2>create, <3>1, <3>3 DEF Settling, JoinCreate
    <3> QED
      BY <3>2, <3>3
  <2>connect. CASE Connect
    <3>1. events' = Append(events, "connected") /\ "connected" \in Event
      BY <2>connect DEF Connect, Event
    <3> QED
      BY <3>1, DueAfterAppend DEF WatcherTypes, Settling
  <2>session. CASE Reopen \/ Restart \/ Lose
    BY <2>session DEF Settling, Reopen, Restart, Lose
  <2>otherJoins. CASE OtherJoins
    BY <2>otherJoins, Zenon DEF WatcherTypes, Settling, OtherJoins, bounds
  <2>edit. CASE Edit
    <3>1. UNCHANGED <<session, sid, parents, pc>>
      BY <2>edit DEF Edit
    <3>2. CASE node' = node /\ raced' = raced /\ Fire("changed")
      <4>1. "changed" \in Event /\ "changed" # "created"
        BY DEF Event
      <4> QED
        BY <3>1, <3>2, <4>1, FireMakesDue DEF WatcherTypes, Settling
    <3>3. CASE node' = 0 /\ raced' = (raced \/ ~watch) /\ Fire("deleted")
      <4>1. "deleted" \in Event /\ "deleted" # "created"
        BY DEF Event
      <4> QED
        BY <3>1, <3>3, <4>1, FireMakesDue, Zenon DEF WatcherTypes, Settling
    <3> QED
      BY <2>edit, <3>2, <3>3 DEF Edit
  <2>expire. ASSUME NEW k \in alive, Expire(k)
             PROVE  Settling'
    <3>1. UNCHANGED <<sid, parents, pc, raced>>
      BY <2>expire DEF Expire
    <3>2. SUFFICES ASSUME session' = "up"
                   PROVE  Settling'
      BY DEF Settling
    <3>3. k # sid /\ session = "up"
      BY <2>expire, <3>2 DEF Expire, WatcherTypes
    <3>4. CASE node = k
      <4>1. node' = 0 /\ Fire("deleted") /\ "deleted" \in Event /\ "deleted" # "created"
        BY <2>expire, <3>4 DEF Expire, Event
      <4> QED
        BY <3>1, <3>3, <3>4, <4>1, FireMakesDue DEF WatcherTypes, Settling
    <3>5. CASE node # k
      BY <2>expire, <3>1, <3>3, <3>5 DEF Expire, Settling
    <3> QED
      BY <3>4, <3>5
  <2>same. CASE Ping \/ UNCHANGED vars
    BY <2>same DEF Settling, Ping, vars
  <2> QED
    BY <2>handle, <2>rearm, <2>parents, <2>exists, <2>value, <2>create, <2>connect,
       <2>session, <2>otherJoins, <2>edit, <2>expire, <2>same
    DEF Next, Watcher, JoinStep
<1>kept. Init => SessionsKept
  BY RegistrationAssumption DEF Init, SessionsKept
<1>rest. WatcherTypes /\ SessionsKept /\ Settling => RegisteredAndWatched
  <2> SUFFICES ASSUME WatcherTypes, SessionsKept, Settling
               PROVE  RegisteredAndWatched
    OBVIOUS
  <2>1. TypeOK
    BY Zenon DEF TypeOK, WatcherTypes, SessionsKept, Event
  <2> QED
    BY <2>1 DEF WatcherTypes, Settling, RegisteredAndWatched, JoinDue
<1> QED
  BY <1>init, <1>step, <1>kept, <1>rest, WatcherTypesKept, SessionsStay, PTL DEF Spec
=============================================================================
