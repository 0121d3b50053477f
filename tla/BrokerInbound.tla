---------------------------- MODULE BrokerInbound ----------------------------
(***************************************************************************)
(* Messages that come from the message server: MessageHandler::dispatch    *)
(* (thrift/broker/message_broker.cpp) answers a request once it is queued, *)
(* the broker's workers parse it, make one message for each target user    *)
(* (ImMessageParser::createLocalMsgPack), and route those whose user is in *)
(* the local table (ImUserMessageRouter::routeList); the rest is dropped,  *)
(* as main sets no collector for the broker.                               *)
(***************************************************************************)
EXTENDS Integers, Sequences, FiniteSets, SequencesExt, FiniteSetsExt

CONSTANTS
    Request,    \* requests: [id, empty, pack, msg, user, targets]
    Worker,     \* the broker's workers
    TargetMax,  \* TARGET_MAX: entries of createLocalMsgPack's array of targets
    Users, Mobile   \* users, and those who come and go

VARIABLES
    answered,   \* <<request id, code of the response>>
    queue,      \* _queue of BrokerWorkerCluster
    worker,     \* of a worker: <<>> or <<request, list, here, away>>
    online,     \* users in the local table
    routed,     \* <<request, user>> handed to the local router, in order
    dropped,    \* <<request, user>> released because the user is not here
    live        \* IMessages that are allocated and not yet with the router

vars == <<answered, queue, worker, online, routed, dropped, live>>

Init ==
    /\ answered = {} /\ queue = <<>> /\ worker = [w \in Worker |-> <<>>]
    /\ online \in SUBSET Users /\ routed = <<>> /\ dropped = <<>> /\ live = 0

\* dispatch of the handler: an answer of OK says no more than that the message is
\* queued.
dispatch(r) ==
    /\ \A a \in answered : a[1] # r.id
    /\ IF r.empty
       THEN answered' = answered \cup {<<r.id, "ERROR">>} /\ UNCHANGED <<queue, live>>
       ELSE /\ answered' = answered \cup {<<r.id, "OK">>}
            /\ queue' = Append(queue, r) /\ live' = live + 1
    /\ UNCHANGED <<worker, online, routed, dropped>>

Get(w) ==
    /\ worker[w] = <<>> /\ queue # <<>>
    /\ LET r == Head(queue) IN
         worker' = [worker EXCEPT ![w] = <<r, <<>>, <<>>, <<>>, "parse">>]
    /\ queue' = Tail(queue)
    /\ UNCHANGED <<answered, online, routed, dropped, live>>

\* Mutant of createLocalMsgPack: the array is one entry short.
createLocalMsgPackShort(r) ==
    {list \in [DOMAIN r.targets -> Users] :
       \A i \in DOMAIN list : i < TargetMax => list[i] = r.targets[i]}

\* One message for each target, the request's own for the first; no target, no
\* message.  The targets are copied into an array of TargetMax entries first, whose
\* end is not looked at: what was written behind it may be anything when it is read.
createLocalMsgPack(r) ==
    {list \in [DOMAIN r.targets -> Users] :
       \A i \in DOMAIN list : i <= TargetMax => list[i] = r.targets[i]}

\* process and processMsgPack, up to routeList.  A pack that is not a message, names
\* no sender or has no target is released.
process(w) ==
    /\ worker[w] # <<>> /\ worker[w][5] = "parse"
    /\ \E r \in {worker[w][1]} : \E list \in createLocalMsgPack(r) :
          IF r.pack /\ r.msg /\ r.user /\ list # <<>>
          THEN /\ worker' = [worker EXCEPT ![w] = <<r, list, <<>>, <<>>, "route">>]
               /\ live' = live + Len(list) - 1
          ELSE worker' = [worker EXCEPT ![w] = <<>>] /\ live' = live - 1
    /\ UNCHANGED <<answered, queue, online, routed, dropped>>

\* Mutant of routeList: the walk ends behind the first user who is not here.
routeUntilMissing(w) ==
    /\ worker[w] # <<>> /\ worker[w][5] = "route" /\ worker[w][2] # <<>>
    /\ LET u == Head(worker[w][2])
       IN worker' = [worker EXCEPT ![w] = IF u \in online
                        THEN [@ EXCEPT ![2] = Tail(@), ![3] = Append(@, u)]
                        ELSE [@ EXCEPT ![2] = <<>>, ![4] = Append(@, u)]]
    /\ UNCHANGED <<answered, queue, online, routed, dropped, live>>

\* routeList splits the list in two, one look into the table after the other.
routeList(w) ==
    /\ worker[w] # <<>> /\ worker[w][5] = "route" /\ worker[w][2] # <<>>
    /\ LET u == Head(worker[w][2])
       IN worker' = [worker EXCEPT ![w] = IF u \in online
                        THEN [@ EXCEPT ![2] = Tail(@), ![3] = Append(@, u)]
                        ELSE [@ EXCEPT ![2] = Tail(@), ![4] = Append(@, u)]]
    /\ UNCHANGED <<answered, queue, online, routed, dropped, live>>

Tag(r, s) == [i \in DOMAIN s |-> <<r.id, s[i]>>]

\* Mutant of Release: what is not routed is not released.
ReleaseNone(w) ==
    /\ worker[w] # <<>> /\ worker[w][5] = "route" /\ worker[w][2] = <<>>
    /\ worker' = [worker EXCEPT ![w] = <<>>]
    /\ routed' = routed \o Tag(worker[w][1], worker[w][3])
    /\ dropped' = dropped \o Tag(worker[w][1], worker[w][4])
    /\ live' = live - Len(worker[w][3])
    /\ UNCHANGED <<answered, queue, online>>

\* The one part goes to the router and the other is released.
Release(w) ==
    /\ worker[w] # <<>> /\ worker[w][5] = "route" /\ worker[w][2] = <<>>
    /\ worker' = [worker EXCEPT ![w] = <<>>]
    /\ routed' = routed \o Tag(worker[w][1], worker[w][3])
    /\ dropped' = dropped \o Tag(worker[w][1], worker[w][4])
    /\ live' = live - Len(worker[w][3]) - Len(worker[w][4])
    /\ UNCHANGED <<answered, queue, online>>

\* Mutant of Work: a worker that has met no message takes up no more.
WorkUntilJunk(w) ==
    \/ (\A i \in DOMAIN queue : queue[i].pack) /\ Get(w)
    \/ process(w) \/ routeList(w) \/ Release(w)

\* run of BrokerMessageWorkerCore.
Work(w) == Get(w) \/ process(w) \/ routeList(w) \/ Release(w)

\* Users come and go (see UserRouting).
Move(u) ==
    /\ online' = (online \ {u}) \cup ({u} \ online)
    /\ UNCHANGED <<answered, queue, worker, routed, dropped, live>>

Next ==
    \/ \E r \in Request : dispatch(r)
    \/ \E w \in Worker : Work(w)
    \/ \E u \in Mobile : Move(u)

Spec == Init /\ [][Next]_vars /\ \A w \in Worker : WF_vars(Work(w))

-----------------------------------------------------------------------------
Legal(r) == ~r.empty /\ r.pack /\ r.msg /\ r.user
InHand == {w \in Worker : worker[w] # <<>>}
Held(w) == IF worker[w][5] = "parse" THEN 1
           ELSE Len(worker[w][2]) + Len(worker[w][3]) + Len(worker[w][4])
Ended(r) == /\ <<r.id, "OK">> \in answered
            /\ ~Contains(queue, r) /\ \A w \in InHand : worker[w][1] # r
Of(r, s) == SelectSeq(s, LAMBDA x : x[1] = r.id)

\* Shape of the state.
TypeOK ==
    /\ ToSet(queue) \subseteq Request /\ online \subseteq Users /\ live \in Nat
    /\ answered \subseteq {r.id : r \in Request} \X {"OK", "ERROR"}

\* Every allocated message is in the queue, in the hands of a worker or gone: none
\* leaks and none is released twice, on any path of process.
NoneLeaks == live = Len(queue) + MapThenSumSet(Held, InHand)

\* A legal request ends as one message for each of its targets, routed or dropped:
\* no target is left out or served twice, even while users come and go and where the
\* targets fill the array of createLocalMsgPack.
EachTargetOnce ==
    \A r \in Request : Legal(r) /\ Ended(r) =>
       LET here == Of(r, routed)  away == Of(r, dropped)
       IN /\ Len(here) + Len(away) = Len(r.targets)
          /\ \A u \in Users : Cardinality({i \in DOMAIN here : here[i][2] = u})
                              + Cardinality({i \in DOMAIN away : away[i][2] = u})
                              = Cardinality({i \in DOMAIN r.targets : r.targets[i] = u})

\* A request that was answered OK is handled in the end.
OkIsHandled ==
    \A r \in Request : (<<r.id, "OK">> \in answered) ~> Ended(r)
=============================================================================
