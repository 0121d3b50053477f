------------------------------ MODULE ImSession ------------------------------
(***************************************************************************)
(* The life of a session, from the frames of a connection to the answers:  *)
(* IoAppConnection::whenReceivedFrame stamps a frame with the state of its *)
(* connection, ImMessageDispatcher queues it for the auth or the app       *)
(* workers, ImMessageAuthProcessor and ImMessageProcessor check and answer *)
(* it, and the IO thread switches the state, writes the answer, or closes  *)
(* the connection.  Answers that cannot be written go to the collector,    *)
(* which may erase the entry of their user.  The router between workers    *)
(* and IO thread is a FIFO (see UserRouting), so are the two queues: each  *)
(* cluster uses one priority only (see MsMessagePriorityQueue).            *)
(***************************************************************************)
EXTENDS Integers, Sequences, FiniteSets

CONSTANTS
    Conn,           \* ids of connections: positive, in the order of accepting
    User,           \* the user of a connection
    Polite,         \* connections whose client waits for the answer to its AUTH
    Frame,          \* records of what the checks of the processors tell apart: whether it
                    \* is a pack with type and content, the type, the age of its time stamp
                    \* (negative: ahead), whether the part for its type is there, whether a
                    \* token is, and the number of targets
    AuthWorker, AppWorker,
    Gap,            \* TIMESTAMP_GAP
    MaxFrames       \* bound: frames a client sends

NoConn == 0

ASSUME SessionAssumption ==
    /\ Conn \subseteq Nat \ {NoConn} /\ Polite \subseteq Conn
    /\ AuthWorker \cap AppWorker = {}
    /\ Frame \subseteq [pack : BOOLEAN, type : {"TOUCH", "MSG", "AUTH", "OTHER"}, age : Int,
                       part : BOOLEAN, token : BOOLEAN, targets : Nat]
    /\ Gap \in Nat /\ MaxFrames \in Nat

INIT_STATE == 0
AUTH_STATE == 1
MSG_STATE == 2

VARIABLES
    sock,       \* of a connection: "open", "closed"; all are accepted before the frames
    state,      \* _state of IoAppConnection
    sent,       \* external: frames its client has sent
    rx,         \* external: of these, the ones not read yet
    authQ, appQ,\* queues of the clusters
    worker,     \* of a worker: <<step, message>>
    table,      \* the local register table: user to connection
    routeQ,     \* answers on the way to the IO thread
    plist,      \* push list of a connection
    inbox,      \* external: answers its client has got
    collQ,      \* the collector's queue, by the connections its answers were for
    coll,       \* what the collector has taken and not handled yet
    entered,    \* history: the connection last entered in the table for a user
    outcome     \* what became of a message: set of <<conn, number, how>>

vars == <<sock, state, sent, rx, authQ, appQ, worker, table, routeQ, plist, inbox,
          collQ, coll, entered, outcome>>
client == <<sent, rx>>
tables == <<table, entered>>
pending == <<collQ, coll>>

Worker == AuthWorker \cup AppWorker
Idle == <<"idle">>

Init ==
    /\ sock = [c \in Conn |-> "open"] /\ state = [c \in Conn |-> INIT_STATE]
    /\ sent = [c \in Conn |-> 0] /\ rx = [c \in Conn |-> <<>>]
    /\ authQ = <<>> /\ appQ = <<>> /\ worker = [w \in Worker |-> Idle]
    /\ table = [u \in {User[c] : c \in Conn} |-> NoConn]
    /\ entered = table /\ collQ = {} /\ coll = {}
    /\ routeQ = <<>> /\ plist = [c \in Conn |-> <<>>] /\ inbox = [c \in Conn |-> <<>>]
    /\ outcome = {}

-----------------------------------------------------------------------------
(***************************************************************************)
(* Clients (external)                                                      *)
(***************************************************************************)
Got(c, kind) == \E i \in DOMAIN inbox[c] : inbox[c][i].kind = kind

Legal(f) == f.pack /\ f.part /\ f.age <= Gap /\ (f.type = "MSG" => f.targets > 0)
Login(f) == Legal(f) /\ f.type = "AUTH" /\ f.token

\* A polite client logs in first and sends legal frames once it is answered.
MaySend(c, f) ==
    c \in Polite => IF sent[c] = 0 THEN Login(f)
                    ELSE Got(c, "auth") /\ Legal(f) /\ f.type # "OTHER"

Send(c, f) ==
    /\ sock[c] = "open" /\ sent[c] < MaxFrames /\ MaySend(c, f)
    /\ sent' = [sent EXCEPT ![c] = @ + 1]
    /\ rx' = [rx EXCEPT ![c] = Append(@, f)]
    /\ UNCHANGED <<sock, state, authQ, appQ, worker, tables, routeQ, plist, inbox, pending,
                   outcome>>

\* whenClosed gives the answer in hand, or the first of the push list, to the
\* collector.  Answers that close name no user: the collector only releases them.
Collected(r, c) == IF r.kind = "close" THEN {} ELSE {c}

Shut(c) ==
    /\ sock' = [sock EXCEPT ![c] = "closed"]
    /\ rx' = [rx EXCEPT ![c] = <<>>]
    /\ plist' = [plist EXCEPT ![c] = <<>>]
    /\ collQ' = collQ \cup (IF plist[c] = <<>> THEN {} ELSE Collected(Head(plist[c]), c))
    /\ UNCHANGED coll

\* The client closes the connection, or the read timeout runs out.
Leave(c) ==
    /\ sock[c] = "open" /\ Shut(c)
    /\ UNCHANGED <<state, sent, authQ, appQ, worker, tables, routeQ, inbox, outcome>>

-----------------------------------------------------------------------------
(***************************************************************************)
(* The IO thread                                                           *)
(***************************************************************************)
\* ImMessageDispatcher::process: the queue by the state, and the state it leaves.
Dispatch(m) ==
    IF m.state \in {INIT_STATE, AUTH_STATE}
    THEN authQ' = Append(authQ, [m EXCEPT !.state = AUTH_STATE]) /\ UNCHANGED appQ
    ELSE appQ' = Append(appQ, m) /\ UNCHANGED authQ

\* whenReceivedFrame refuses a frame that has no magic or is beyond the limits of
\* IoSampling, upon which the connection is reset.
Refuse(c) == rx[c] # <<>> /\ Leave(c)

\* whenReceivedFrame; the number tells the frames of a connection apart.
Read(c) ==
    /\ sock[c] = "open" /\ rx[c] # <<>>
    /\ rx' = [rx EXCEPT ![c] = Tail(@)]
    /\ Dispatch([conn |-> c, n |-> sent[c] - Len(rx[c]) + 1, state |-> state[c],
                 frame |-> Head(rx[c])])
    /\ UNCHANGED <<sock, state, sent, worker, tables, routeQ, plist, inbox, pending,
                   outcome>>

\* Mutant of Push: the state is not switched.
PushNoSwitch ==
    /\ routeQ # <<>> /\ routeQ' = Tail(routeQ)
    /\ LET r == Head(routeQ)
       IN IF sock[r.conn] = "open"
          THEN plist' = [plist EXCEPT ![r.conn] = Append(@, r)]
          ELSE UNCHANGED plist
    /\ UNCHANGED pending
    /\ UNCHANGED <<sock, state, client, authQ, appQ, worker, tables, inbox, outcome>>

\* pushMessage: the state is switched before the answer can be written; the answer for
\* a connection that is gone is collected.
Push ==
    /\ routeQ # <<>> /\ routeQ' = Tail(routeQ)
    /\ LET r == Head(routeQ)
       IN IF sock[r.conn] = "open"
          THEN /\ state' = [state EXCEPT ![r.conn] = IF r.kind = "auth" THEN r.state ELSE @]
               /\ plist' = [plist EXCEPT ![r.conn] = Append(@, r)]
               /\ UNCHANGED collQ
          ELSE collQ' = collQ \cup Collected(r, r.conn) /\ UNCHANGED <<state, plist>>
    /\ UNCHANGED coll
    /\ UNCHANGED <<sock, client, authQ, appQ, worker, tables, inbox, outcome>>

\* Mutant of Write: the answer with _close_conn is sent like any other.
WriteKeepsOpen(c) ==
    /\ sock[c] = "open" /\ plist[c] # <<>>
    /\ plist' = [plist EXCEPT ![c] = Tail(@)]
    /\ inbox' = [inbox EXCEPT ![c] = Append(@, Head(plist[c]))]
    /\ UNCHANGED <<sock, state, client, authQ, appQ, worker, tables, routeQ, pending,
                   outcome>>

\* writeSocket, for one answer; one with _close_conn resets the connection instead.
Write(c) ==
    /\ sock[c] = "open" /\ plist[c] # <<>>
    /\ IF Head(plist[c]).kind = "close" THEN Shut(c) /\ UNCHANGED <<inbox, sent>>
       ELSE /\ plist' = [plist EXCEPT ![c] = Tail(@)]
            /\ inbox' = [inbox EXCEPT ![c] = Append(@, Head(plist[c]))]
            /\ UNCHANGED <<sock, client, pending>>
    /\ UNCHANGED <<state, authQ, appQ, worker, tables, routeQ, outcome>>

-----------------------------------------------------------------------------
(***************************************************************************)
(* The workers                                                             *)
(***************************************************************************)
\* run of the worker cores: get, then process.
Get(w) ==
    /\ worker[w] = Idle
    /\ \/ /\ w \in AuthWorker /\ authQ # <<>>
          /\ worker' = [worker EXCEPT ![w] = <<"process", Head(authQ)>>]
          /\ authQ' = Tail(authQ) /\ UNCHANGED appQ
       \/ /\ w \in AppWorker /\ appQ # <<>>
          /\ worker' = [worker EXCEPT ![w] = <<"process", Head(appQ)>>]
          /\ appQ' = Tail(appQ) /\ UNCHANGED authQ
    /\ UNCHANGED <<sock, state, client, tables, routeQ, plist, inbox, pending, outcome>>

M(w) == worker[w][2]
At(w, step) == worker[w][1] = step
To(w, step) == worker' = [worker EXCEPT ![w] = <<step, M(w)>>]
Back(w) == worker' = [worker EXCEPT ![w] = Idle]
Answer(m, kind, s) == [conn |-> m.conn, n |-> m.n, kind |-> kind, state |-> s]

checkTimeStamp(f) == f.age <= Gap

\* auth and the checks of ImMessageAuthProcessor::processAuthPack.
auth(f) == f.part /\ f.token
AuthAccepts(m) ==
    /\ m.frame.pack /\ m.frame.type = "AUTH"
    /\ checkTimeStamp(m.frame) /\ m.state = AUTH_STATE /\ auth(m.frame)

\* The checks of ImMessageProcessor's process*Pack.
AppAccepts(m) ==
    /\ m.frame.pack /\ m.frame.type \in {"MSG", "TOUCH", "AUTH"}
    /\ checkTimeStamp(m.frame) /\ m.state = MSG_STATE /\ m.frame.part
    /\ m.frame.type = "MSG" => m.frame.targets > 0

processErrorPack(w) ==
    /\ routeQ' = Append(routeQ, Answer(M(w), "close", 0)) /\ Back(w)
    /\ UNCHANGED <<tables, outcome>>

update(w) ==
    /\ table' = [table EXCEPT ![User[M(w).conn]] = M(w).conn]
    /\ entered' = [entered EXCEPT ![User[M(w).conn]] = M(w).conn]
routeBack(w, kind, s) == routeQ' = Append(routeQ, Answer(M(w), kind, s))

\* Mutant of AuthStep: the answer is routed before the table is updated.
AuthStepLate(w) ==
    /\ w \in AuthWorker
    /\ \/ At(w, "process") /\ AuthAccepts(M(w)) /\ routeBack(w, "auth", MSG_STATE)
          /\ To(w, "reply") /\ UNCHANGED <<tables, outcome>>
       \/ At(w, "process") /\ ~AuthAccepts(M(w)) /\ processErrorPack(w)
       \/ At(w, "reply") /\ update(w) /\ To(w, "publish") /\ UNCHANGED <<routeQ, outcome>>
       \/ At(w, "publish") /\ Back(w) /\ UNCHANGED <<tables, routeQ, outcome>>
    /\ UNCHANGED <<sock, state, client, authQ, appQ, plist, inbox, pending>>

\* ImMessageAuthProcessor: the table, the answer that switches the state, and then the
\* publication of the route (RoutePublisher), whose failure is only logged.
AuthStep(w) ==
    /\ w \in AuthWorker
    /\ \/ At(w, "process") /\ AuthAccepts(M(w)) /\ update(w)
          /\ To(w, "reply") /\ UNCHANGED <<routeQ, outcome>>
       \/ At(w, "process") /\ ~AuthAccepts(M(w)) /\ processErrorPack(w)
       \/ At(w, "reply") /\ routeBack(w, "auth", MSG_STATE) /\ To(w, "publish")
          /\ UNCHANGED <<tables, outcome>>
       \/ At(w, "publish") /\ Back(w) /\ UNCHANGED <<tables, routeQ, outcome>>
    /\ UNCHANGED <<sock, state, client, authQ, appQ, plist, inbox, pending>>

\* TOUCH and a second AUTH: an answer, the table only for TOUCH.
TouchStep(w) ==
    \/ At(w, "process") /\ AppAccepts(M(w)) /\ M(w).frame.type = "TOUCH"
       /\ update(w) /\ To(w, "reply") /\ UNCHANGED <<routeQ, outcome>>
    \/ At(w, "reply") /\ routeBack(w, "touch", 0) /\ Back(w) /\ UNCHANGED <<tables, outcome>>
    \/ At(w, "process") /\ AppAccepts(M(w)) /\ M(w).frame.type = "AUTH"
       /\ routeBack(w, "again", 0) /\ Back(w) /\ UNCHANGED <<tables, outcome>>

\* Mutant of MsgStep: the acknowledgement waits for the message server.
MsgStepAckLast(w) ==
    \/ At(w, "process") /\ AppAccepts(M(w)) /\ M(w).frame.type = "MSG"
       /\ outcome' = outcome \cup {<<M(w).conn, M(w).n, "ok">>} /\ To(w, "dispatch")
       /\ UNCHANGED <<tables, routeQ>>
    \/ At(w, "dispatch") /\ routeBack(w, "ack", 0) /\ Back(w) /\ UNCHANGED <<tables, outcome>>

\* MSG: acknowledged first, then handed to the broker (PooledClient).  "ok": the
\* message server took it; "refused": it answered with another code; "lost": an
\* exception, upon which the message is dropped, as main sets no collector.
MsgStep(w) ==
    \/ At(w, "process") /\ AppAccepts(M(w)) /\ M(w).frame.type = "MSG"
       /\ routeBack(w, "ack", 0) /\ To(w, "dispatch") /\ UNCHANGED <<tables, outcome>>
    \/ At(w, "dispatch") /\ Back(w) /\ UNCHANGED <<tables, routeQ>>
       /\ \E how \in {"ok", "refused", "lost"} :
            outcome' = outcome \cup {<<M(w).conn, M(w).n, how>>}

\* Mutant of AppStep: an illegal frame is dropped without an answer.
AppStepSilent(w) ==
    /\ w \in AppWorker
    /\ \/ TouchStep(w) \/ MsgStep(w)
       \/ At(w, "process") /\ ~AppAccepts(M(w)) /\ Back(w) /\ UNCHANGED <<tables, routeQ, outcome>>
    /\ UNCHANGED <<sock, state, client, authQ, appQ, plist, inbox, pending>>

\* Mutant of AppStep: after an exception of the broker the frame is answered again.
AppStepKicks(w) ==
    /\ w \in AppWorker
    /\ \/ TouchStep(w)
       \/ At(w, "process") /\ MsgStep(w)
       \/ At(w, "dispatch") /\ processErrorPack(w)
       \/ At(w, "process") /\ ~AppAccepts(M(w)) /\ processErrorPack(w)
    /\ UNCHANGED <<sock, state, client, authQ, appQ, plist, inbox, pending>>

AppStep(w) ==
    /\ w \in AppWorker
    /\ \/ TouchStep(w) \/ MsgStep(w)
       \/ At(w, "process") /\ ~AppAccepts(M(w)) /\ processErrorPack(w)
    /\ UNCHANGED <<sock, state, client, authQ, appQ, plist, inbox, pending>>

-----------------------------------------------------------------------------
(***************************************************************************)
(* The collector                                                           *)
(***************************************************************************)
\* run takes its whole queue and sorts it by user.
TakePending ==
    /\ coll = {} /\ collQ # {}
    /\ coll' = collQ /\ collQ' = {}
    /\ UNCHANGED <<sock, state, client, authQ, appQ, worker, tables, routeQ, plist, inbox, outcome>>

\* Mutant of Collect: the entry is erased whatever connection it names.
CollectAny(u) ==
    LET g == {c \in coll : User[c] = u}
    IN  /\ g # {} /\ coll' = coll \ g
        /\ table' = [table EXCEPT ![u] = NoConn]
        /\ UNCHANGED <<sock, state, client, authQ, appQ, worker, entered, routeQ, plist, inbox,
                       collQ, outcome>>

\* failureRoute for the answers of a user, with the latest of their connections:
\* getOrUnset erases the entry unless it names a later one.  Then they are routed to
\* that and their memory is freed; what they are after that is left to UserRouting.
Collect(u) ==
    LET g == {c \in coll : User[c] = u}
    IN  /\ g # {} /\ coll' = coll \ g
        /\ table' = [table EXCEPT ![u] = IF \E c \in g : c >= @ THEN NoConn ELSE @]
        /\ UNCHANGED <<sock, state, client, authQ, appQ, worker, entered, routeQ, plist, inbox,
                       collQ, outcome>>

Collector == TakePending \/ \E u \in DOMAIN table : Collect(u)

Server(c) == Read(c) \/ Write(c)
Work(w) == Get(w) \/ AuthStep(w) \/ AppStep(w)

Next ==
    \/ \E c \in Conn : Leave(c) \/ Refuse(c) \/ Server(c) \/ \E f \in Frame : Send(c, f)
    \/ Push
    \/ \E w \in Worker : Work(w)
    \/ Collector

\* The event loop and the workers go on; clients need not.
Fairness ==
    /\ WF_vars(Push) /\ \A c \in Conn : WF_vars(Server(c))
    /\ \A w \in Worker : WF_vars(Work(w))

Spec == Init /\ [][Next]_vars /\ Fairness

-----------------------------------------------------------------------------
InFlight ==
    {worker[w][2] : w \in {v \in Worker : worker[v] # Idle /\ worker[v][1] = "process"}}
    \cup {authQ[i] : i \in DOMAIN authQ} \cup {appQ[i] : i \in DOMAIN appQ}

Answers(c, n) == Cardinality({i \in DOMAIN routeQ : routeQ[i].conn = c /\ routeQ[i].n = n})
                 + Cardinality({i \in DOMAIN plist[c] : plist[c][i].n = n})
                 + Cardinality({i \in DOMAIN inbox[c] : inbox[c][i].n = n})

\* Shape of the state; a closed connection has nothing to read or to write.
TypeOK ==
    /\ \A c \in Conn : sock[c] = "closed" => rx[c] = <<>> /\ plist[c] = <<>>
    /\ sock \in [Conn -> {"open", "closed"}] /\ state \in [Conn -> INIT_STATE..MSG_STATE]
    /\ sent \in [Conn -> 0..MaxFrames] /\ \A c \in Conn : rx[c] \in Seq(Frame)
    /\ \A w \in Worker : worker[w] = Idle \/ worker[w][1] \in {"process", "reply", "publish", "dispatch"}
    /\ \A u \in DOMAIN table : {table[u], entered[u]} \subseteq Conn \cup {NoConn}
    /\ coll \cup collQ \subseteq {c \in Conn : sock[c] = "closed"}
    /\ \A i \in DOMAIN routeQ : routeQ[i].kind \in {"auth", "touch", "again", "ack", "close"}

\* A client that logs in, waits for the answer and then sends legal frames is never
\* answered with a close: the IO thread switches the state before the answer is on the
\* wire, and the state a frame was stamped with is not stale when a worker checks it.
\* (The limits and the read timeout may still end its connection.)
PoliteNeverKicked ==
    \A c \in Polite : sock[c] = "open" =>
       /\ \A i \in DOMAIN routeQ : routeQ[i].conn = c => routeQ[i].kind # "close"
       /\ \A i \in DOMAIN plist[c] : plist[c][i].kind # "close"

\* A message is acknowledged before the message server may have it, so that no client
\* sends one again that is on its way.
AckedBeforeHandled ==
    \A o \in outcome : sock[o[1]] = "open" =>
       \/ \E i \in DOMAIN routeQ :
             routeQ[i].conn = o[1] /\ routeQ[i].n = o[2] /\ routeQ[i].kind = "ack"
       \/ \E i \in DOMAIN plist[o[1]] : plist[o[1]][i].n = o[2] /\ plist[o[1]][i].kind = "ack"
       \/ \E i \in DOMAIN inbox[o[1]] : inbox[o[1]][i].n = o[2] /\ inbox[o[1]][i].kind = "ack"

\* No frame is answered twice, whatever fails on its way, and a message that the message
\* server may have is answered.
OneAnswer ==
    /\ \A c \in Conn, n \in 1..MaxFrames : Answers(c, n) <= 1
    /\ AckedBeforeHandled

\* A client that has the answer to its login or touch was entered in the table before;
\* and as long as the connection entered last is open, messages for its user find it:
\* the collector erases no entry on behalf of an earlier connection.  (It does on behalf
\* of a later one, which the entry had replaced when the older one was touched.)
AnsweredIsRouted ==
    /\ TypeOK
    /\ \A c \in Conn : Got(c, "auth") \/ Got(c, "touch") => entered[User[c]] # NoConn
    /\ \A u \in DOMAIN table : LET e == entered[u] IN
          e # NoConn /\ sock[e] = "open" =>
             table[u] = e \/ \E d \in Conn : d > e /\ User[d] = u /\ sock[d] = "closed"

Pending(c, n) == \E m \in InFlight : m.conn = c /\ m.n = n

=============================================================================
