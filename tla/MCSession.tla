----------------------------- MODULE MCSession ------------------------------
(***************************************************************************)
(* Small instances of what happens to the frames of a session.  The rigid  *)
(* variable scene says which module a behaviour is about; the variables of *)
(* the others keep their first values.                                     *)
(*   alone     ImSession, one client that does not wait for answers        *)
(*   waits     ImSession, one client that logs in and waits, two workers   *)
(*             of each kind                                                *)
(*   pair      ImSession, two connections of one user, the second waits    *)
(*   parser    ImMessageParser, frames of every type                       *)
(*   publish   RoutePublisher, auth workers of two servers                 *)
(*   broker    BrokerInbound, two workers of the broker                    *)
(***************************************************************************)
EXTENDS ProtoMessage, ImSession, RoutePublisher, TLC

CONSTANTS a1, a2, p1, p2, w1, w2

VARIABLES
    scene,
    answered, queue, bWorker, online, routed, dropped, live,
    frame, pc, pack, back, out

(***************************************************************************)
(* Frames of a client: legal ones, one without token, one without targets, *)
(* an old and a just not old one, and one that is no pack.                 *)
(***************************************************************************)
F(t) == [pack |-> TRUE, type |-> t, age |-> 0, part |-> TRUE, token |-> t = "AUTH",
         targets |-> IF t = "MSG" THEN 1 ELSE 0]
Every == {F("AUTH"), F("MSG"), F("TOUCH"),
          [F("AUTH") EXCEPT !.token = FALSE], [F("MSG") EXCEPT !.targets = 0],
          [F("MSG") EXCEPT !.age = 31], [F("AUTH") EXCEPT !.pack = FALSE],
          [F("TOUCH") EXCEPT !.age = 30]}

Basic == {F("AUTH"), F("MSG"), F("TOUCH")}

MCConn == {1, 2}
MCUser == [c \in MCConn |-> 1]
MCPolite == {2}
MCAuthWorker == {a1, a2}
MCAppWorker == {p1, p2}

\* Who sends how many frames of which kinds, and who works, in the scenes of ImSession.
Sends == [alone |-> <<3, 0>>, waits |-> <<0, 3>>, pair |-> <<2, 2>>]
Kinds == [alone |-> Every, waits |-> Every, pair |-> Basic]
Works == [alone |-> {a1, p1}, waits |-> {a1, a2, p1, p2}, pair |-> {a1, p1, p2}]
InSession == scene \in {"alone", "waits", "pair"}

SessionNext ==
    \/ \E c \in Conn : Sends[scene][c] > 0 /\ (Leave(c) \/ Refuse(c) \/ Server(c))
    \/ \E c \in Conn : sent[c] < Sends[scene][c] /\ \E f \in Kinds[scene] : Send(c, f)
    \/ Push
    \/ \E w \in Works[scene] : Work(w)
    \/ Collector

\* A request without a message, one for three targets of which one comes twice,
\* one for one target, one that is no pack.
R(i, p, t) == [id |-> i, empty |-> i = 0, pack |-> p # "junk", msg |-> p # "touch",
               user |-> p # "nouser", targets |-> t]
Requests == {R(0, "msg", <<>>), R(1, "msg", <<1, 2, 1>>), R(2, "msg", <<2>>), R(3, "junk", <<1>>)}

Broker == INSTANCE BrokerInbound WITH
    Request <- Requests, Worker <- {w1, w2}, TargetMax <- 3, Users <- {1, 2}, Mobile <- {2},
    worker <- bWorker

(***************************************************************************)
(* Frames as tokens: packs of every type with contents of every kind, the  *)
(* parts of a message twice, packed, in any combination, unknown fields,   *)
(* one that is cut off, and the longest lists of targets a frame has and   *)
(* has no room for.                                                        *)
(***************************************************************************)
D(n, s) == Nested(n, WireSize(s), s)
V(n, v) == Token(n, "varint", v)
B(n, v) == Token(n, "delimited", v)
Opt(t) == {<<>>, <<t>>}
Messages ==
  { u \o <<V(2, 9)>> \o t \o k \o x :
      u \in Opt(V(1, 5)), k \in {<<V(4, 1)>>, <<V(4, 2)>>, <<V(4, 7)>>},
      t \in {<<>>, <<V(3, 5)>>, <<V(3, 5), V(3, 300)>>,
             <<[B(3, 2) EXCEPT !.ints = <<6, 7>>], V(3, 8)>>},
      x \in {<<>>, <<B(5, 3), V(12, 1)>>, <<V(1, -1), Token(6, "fixed32", 2)>>} }
Contents ==
  { <<>>, <<D(1, <<V(1, 5)>>)>>, <<D(1, <<>>)>>, <<D(1, <<V(1, 5)>>), V(9, 9)>>,
    <<D(5, <<V(1, 5), B(2, 40)>>)>>, <<D(5, <<V(1, 5)>>), D(5, <<B(2, 0)>>)>>,
    <<D(5, <<V(1, -1), B(2, 4)>>)>>, <<D(5, <<V(1, 6), B(2, 4)>>), D(2, <<V(1, 8)>>)>>,
    <<D(4, <<V(2, 1)>>)>>,
    <<D(3, <<V(1, 5), V(2, 9), V(3, 7)>>), D(3, <<V(3, 8), V(4, 1)>>)>> }
  \union { <<D(3, m)>> : m \in Messages }
Packs ==
  { <<V(1, t), D(2, c)>> \o x : t \in {0, 1, 3, 4, 5, 6, 9}, c \in Contents,
                                x \in {<<>>, <<V(3, 20), V(7, 1)>>} }
  \union { <<V(1, 1), [D(2, <<D(1, <<V(1, 5)>>)>>) EXCEPT !.full = FALSE]>> }
  \union { <<V(1, 3), D(2, <<D(3, <<V(1, 5), V(2, 9), V(4, 2),
              [B(3, n) EXCEPT !.ints = [i \in 1..n |-> i % 100]]>>)>>)>> : n \in {999, 1000} }

\* FRAME_MAX_SIZE and TARGET_MAX are both 1024 in the code.
Parser == INSTANCE ImMessageParser WITH
    Frames <- Packs, FrameMax <- 1024, TargetMax <- 1024, MsgId <- 8, Now <- 25

MCInstance == (a1 :> 1 @@ a2 :> 2)

brokerVars == <<answered, queue, bWorker, online, routed, dropped, live>>
parserVars == <<frame, pc, pack, back, out>>
others     == <<parserVars, publishVars>>
mcVars     == <<scene, vars, brokerVars, others>>

MCInit ==
    /\ scene \in {"alone", "waits", "pair", "parser", "publish", "broker"}
    /\ Init
    /\ IF scene = "parser" THEN Parser!Init
       ELSE frame = <<>> /\ pc = "none" /\ pack = <<>> /\ back = <<>> /\ out = <<>>
    /\ PublishInit
    /\ Broker!Init /\ (scene # "broker" => online = {})

MCNext ==
    \/ InSession /\ SessionNext /\ UNCHANGED <<scene, brokerVars, others>>
    \/ scene = "broker" /\ Broker!Next /\ UNCHANGED <<scene, vars, others>>
    \/ scene = "parser" /\ Parser!Next /\ UNCHANGED <<scene, vars, brokerVars, publishVars>>
    \/ scene = "publish" /\ PublishNext /\ UNCHANGED <<scene, vars, brokerVars, parserVars>>

InAlone(A) == scene = "alone" /\ A /\ UNCHANGED <<scene, brokerVars, others>>
InBroker(A) == scene = "broker" /\ A /\ UNCHANGED <<scene, vars, others>>
InPublish(A) == scene = "publish" /\ A /\ UNCHANGED <<scene, vars, brokerVars, parserVars>>

\* The event loop and the workers go on; clients and redis need not.
MCFairness ==
    /\ WF_mcVars(InAlone(Push)) /\ WF_mcVars(InAlone(Server(1)))
    /\ WF_mcVars(InAlone(Work(a1))) /\ WF_mcVars(InAlone(Work(p1)))
    /\ \A w \in {w1, w2} : WF_mcVars(InBroker(Broker!Work(w)))
    /\ \A t \in {a1, a2} : WF_mcVars(InPublish(PublishStep(t)))

MCSpec == MCInit /\ [][MCNext]_mcVars /\ MCFairness

\* A request of the message server becomes one message for each of its targets, and
\* the messages are neither leaked nor released twice.
EachTargetOnce ==
    scene = "broker" => Broker!TypeOK /\ Broker!EachTargetOnce /\ Broker!NoneLeaks

\* An answer holds nothing of the request in whose object it was made; every target
\* reads the sender's message, with itself as the only target; and head, length and
\* data of every frame the server makes agree and fit its buffer.
PacksAsMeant ==
    scene = "parser" =>
       Parser!AnswerIsFresh /\ Parser!TargetsReadMessage /\ Parser!FramesFit

\* What a worker has taken on comes to an end: a frame read from a connection that
\* stays is answered, a connection whose frame is refused closes, a request answered OK
\* is handled, and a publication ends (the threads differ in nothing but the instance).
WorkEnds ==
    /\ \A n \in 1..3 : (scene = "alone" /\ Pending(1, n))
                          ~> (Answers(1, n) = 1 \/ sock[1] = "closed")
    /\ (scene = "alone" /\ \E i \in DOMAIN routeQ : routeQ[i].kind = "close")
          ~> sock[1] = "closed"
    /\ Broker!OkIsHandled
    /\ call[a1] # NotPublishing ~> call[a1] = NotPublishing
=============================================================================
