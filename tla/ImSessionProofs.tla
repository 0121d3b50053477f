--------------------------- MODULE ImSessionProofs --------------------------
(***************************************************************************)
(* What the server promises the clients of its sessions, for any number of *)
(* connections, frames and workers.                                        *)
(***************************************************************************)
EXTENDS ImSession, FiniteSetTheorems, TLAPS

In(x, s) == \E i \in DOMAIN s : s[i] = x

Users == {User[c] : c \in Conn}
Message == [conn : Conn, n : Nat, state : {INIT_STATE, AUTH_STATE, MSG_STATE}, frame : Frame]
Kind == {"auth", "touch", "again", "ack", "close"}
Reply == [conn : Conn, n : Nat, kind : Kind, state : {INIT_STATE, MSG_STATE}]
Steps == {"process", "reply", "publish", "dispatch"}

(* The types of the variables; no answer names a state but that of a       *)
(* session that has logged in.                                             *)
SessionTypes ==
    /\ sock \in [Conn -> {"open", "closed"}]
    /\ state \in [Conn -> {INIT_STATE, MSG_STATE}]
    /\ sent \in [Conn -> 0..MaxFrames]
    /\ rx \in [Conn -> Seq(Frame)]
    /\ authQ \in Seq(Message) /\ appQ \in Seq(Message)
    /\ worker \in [Worker -> {Idle} \cup (Steps \X Message)]
    /\ table \in [Users -> Conn \cup {NoConn}] /\ entered \in [Users -> Conn \cup {NoConn}]
    /\ routeQ \in Seq(Reply)
    /\ plist \in [Conn -> Seq(Reply)] /\ inbox \in [Conn -> Seq(Reply)]
    /\ \A c \in Conn : Len(rx[c]) <= sent[c]
    /\ \A c \in Conn : sock[c] = "closed" => rx[c] = <<>> /\ plist[c] = <<>>

-----------------------------------------------------------------------------
(* An element appended to a list. *)
LEMMA AppendIn ==
    ASSUME NEW S, NEW s \in Seq(S), NEW x \in S
    PROVE  /\ Append(s, x) \in Seq(S) /\ Append(s, x) # <<>>
           /\ \A y : In(y, Append(s, x)) <=> In(y, s) \/ y = x
<1>1. /\ Append(s, x) \in Seq(S) /\ Len(s) \in Nat /\ Append(s, x) # <<>>
      /\ DOMAIN s = 1..Len(s) /\ DOMAIN Append(s, x) = 1..(Len(s) + 1)
      /\ Append(s, x)[Len(s) + 1] = x
      /\ \A i \in 1..Len(s) : Append(s, x)[i] = s[i]
  OBVIOUS
<1>2. \A i \in 1..(Len(s) + 1) : i \in 1..Len(s) \/ i = Len(s) + 1
  BY <1>1
<1>3. /\ \A i \in 1..Len(s) : i \in 1..(Len(s) + 1)
      /\ Len(s) + 1 \in 1..(Len(s) + 1)
  BY <1>1
<1> QED
  BY <1>1, <1>2, <1>3, Zenon DEF In

(* The first element of a list, and the others. *)
LEMMA TailIn ==
    ASSUME NEW S, NEW s \in Seq(S), s # <<>>
    PROVE  /\ Head(s) \in S /\ Tail(s) \in Seq(S)
           /\ Len(s) \in Nat \ {0} /\ Len(Tail(s)) = Len(s) - 1
           /\ \A y : In(y, s) <=> y = Head(s) \/ In(y, Tail(s))
<1>1. /\ Head(s) \in S /\ Tail(s) \in Seq(S) /\ Head(s) = s[1]
      /\ Len(s) \in Nat \ {0} /\ Len(Tail(s)) = Len(s) - 1
      /\ DOMAIN s = 1..Len(s) /\ DOMAIN Tail(s) = 1..(Len(s) - 1)
      /\ \A i \in 1..(Len(s) - 1) : Tail(s)[i] = s[i + 1]
  OBVIOUS
<1>2. /\ \A i \in 1..Len(s) : i = 1 \/ (i - 1 \in 1..(Len(s) - 1) /\ (i - 1) + 1 = i)
      /\ \A i \in 1..(Len(s) - 1) : i + 1 \in 1..Len(s)
      /\ 1 \in 1..Len(s)
  BY <1>1
<1>3. ASSUME NEW y, NEW i \in 1..Len(s), s[i] = y
      PROVE  y = Head(s) \/ In(y, Tail(s))
  <2>1. CASE i = 1
    BY <1>1, <1>3, <2>1
  <2>2. CASE i # 1
    <3>1. PICK j \in 1..(Len(s) - 1) : j + 1 = i
      BY <1>2, <2>2
    <3>2. Tail(s)[j] = y
      BY <1>1, <1>3, <3>1
    <3> QED
      BY <1>1, <3>1, <3>2, Zenon DEF In
  <2> QED
    BY <2>1, <2>2
<1>4. ASSUME NEW y, In(y, Tail(s))
      PROVE  In(y, s)
  <2>1. PICK i \in 1..(Len(s) - 1) : Tail(s)[i] = y
    BY <1>1, <1>4, Zenon DEF In
  <2>2. s[i + 1] = y /\ i + 1 \in DOMAIN s
    BY <1>1, <1>2, <2>1
  <2> QED
    BY <2>2, Zenon DEF In
<1>5. In(Head(s), s)
  BY <1>1, <1>2, Zenon DEF In
<1>6. \A y : In(y, s) => y = Head(s) \/ In(y, Tail(s))
  BY <1>1, <1>3, Zenon DEF In
<1> QED
  BY <1>1, <1>4, <1>5, <1>6, Zenon

(* The elements of a list are of its kind; an empty list has none. *)
LEMMA ElementOf ==
    ASSUME NEW S, NEW s \in Seq(S), NEW y, In(y, s)
    PROVE  y \in S
  BY DEF In

(* An empty list has no elements. *)
LEMMA NoneIn ==
    ASSUME NEW y
    PROVE  ~In(y, <<>>)
  BY DEF In

-----------------------------------------------------------------------------
(* What a worker holds at a step of its work. *)
LEMMA Holds ==
    ASSUME SessionTypes, NEW w \in Worker, NEW step \in Steps, At(w, step)
    PROVE  /\ M(w) \in Message /\ worker[w] = <<step, M(w)>> /\ worker[w] # Idle
           /\ M(w).conn \in Conn /\ M(w).n \in Nat /\ M(w).frame \in Frame
           /\ User[M(w).conn] \in Users
<1>1. worker[w] \in {Idle} \cup (Steps \X Message)
  BY DEF SessionTypes
<1>2. worker[w] # Idle
  BY DEF At, Idle, Steps
<1>3. worker[w] \in Steps \X Message
  BY <1>1, <1>2, Zenon
<1>4. M(w) \in Message /\ worker[w] = <<step, M(w)>>
  BY <1>3 DEF M, At
<1>5. M(w).conn \in Conn /\ M(w).n \in Nat /\ M(w).frame \in Frame
  BY <1>4 DEF Message
<1> QED
  BY <1>2, <1>4, <1>5, Zenon DEF Users

(* An answer is a reply. *)
LEMMA AnswerIs ==
    ASSUME NEW m \in Message, NEW k \in Kind, NEW s \in {INIT_STATE, MSG_STATE}
    PROVE  /\ Answer(m, k, s) \in Reply
           /\ Answer(m, k, s).conn = m.conn /\ Answer(m, k, s).n = m.n
           /\ Answer(m, k, s).kind = k /\ Answer(m, k, s).state = s
  BY DEF Answer, Reply, Message

(* What a worker puts in the queue of the router, and what it holds then. *)
Answered(w, k, s) ==
    /\ routeQ' \in Seq(Reply)
    /\ \A r : In(r, routeQ') <=> In(r, routeQ) \/ r = Answer(M(w), k, s)

(* routeBack appends one answer to the router's queue. *)
LEMMA RoutedBack ==
    ASSUME SessionTypes, NEW w \in Worker, M(w) \in Message,
           NEW k \in Kind, NEW s \in {INIT_STATE, MSG_STATE},
           routeQ' = Append(routeQ, Answer(M(w), k, s))
    PROVE  Answered(w, k, s)
<1>1. routeQ \in Seq(Reply) /\ Answer(M(w), k, s) \in Reply
  BY AnswerIs DEF SessionTypes
<1> QED
  BY <1>1, AppendIn, Zenon DEF Answered

-----------------------------------------------------------------------------
(* The steps of the workers, in one form: from a step to the next ("idle": *)
(* the worker is done), with an answer or none; the table is updated on    *)
(* the way to "reply", and what became of a message is noted after         *)
(* "dispatch".                                                             *)
Deeds == {<<"process", "reply", "none">>, <<"reply", "publish", "auth">>,
          <<"publish", "idle", "none">>, <<"reply", "idle", "touch">>,
          <<"process", "idle", "again">>, <<"process", "dispatch", "ack">>,
          <<"dispatch", "idle", "none">>, <<"process", "idle", "close">>}

Refused(w) == IF w \in AuthWorker THEN ~AuthAccepts(M(w)) ELSE ~AppAccepts(M(w))

StateFor(k) == IF k = "auth" THEN MSG_STATE ELSE INIT_STATE

Does(w, d) ==
    /\ At(w, d[1])
    /\ worker' = [worker EXCEPT ![w] = IF d[2] = "idle" THEN Idle ELSE <<d[2], M(w)>>]
    /\ IF d[3] = "none" THEN UNCHANGED routeQ
       ELSE routeQ' = Append(routeQ, Answer(M(w), d[3], StateFor(d[3])))
    /\ IF d[2] = "reply" THEN update(w) ELSE UNCHANGED <<table, entered>>
    /\ d[3] = "close" => Refused(w)
    /\ IF d[1] = "dispatch"
       THEN \E how \in {"ok", "refused", "lost"} :
               outcome' = outcome \cup {<<M(w).conn, M(w).n, how>>}
       ELSE UNCHANGED outcome
    /\ UNCHANGED <<sock, state, sent, rx, authQ, appQ, plist, inbox, collQ, coll>>

(* A worker does nothing else. *)
LEMMA WorkerDeed ==
    ASSUME NEW w \in Worker, AuthStep(w) \/ AppStep(w)
    PROVE  \E d \in Deeds : Does(w, d)
<1>rest. UNCHANGED <<sock, state, sent, rx, authQ, appQ, plist, inbox, collQ, coll>>
  BY Zenon DEF AuthStep, AppStep, client, pending
<1>close. ASSUME At(w, "process"), Refused(w), processErrorPack(w)
          PROVE  \E d \in Deeds : Does(w, d)
  <2>1. Does(w, <<"process", "idle", "close">>)
    BY <1>rest, <1>close DEF Does, tables, processErrorPack, Back, StateFor, INIT_STATE
  <2> QED
    BY <2>1 DEF Deeds
<1>enter. ASSUME At(w, "process"), update(w), To(w, "reply"), UNCHANGED <<routeQ, outcome>>
          PROVE  \E d \in Deeds : Does(w, d)
  <2>1. Does(w, <<"process", "reply", "none">>)
    BY <1>rest, <1>enter DEF Does, To
  <2> QED
    BY <2>1 DEF Deeds
<1>auth. ASSUME w \in AuthWorker, AuthStep(w)
         PROVE  \E d \in Deeds : Does(w, d)
  <2>1. CASE At(w, "process") /\ AuthAccepts(M(w)) /\ update(w) /\ To(w, "reply")
             /\ UNCHANGED <<routeQ, outcome>>
    BY <1>enter, <2>1, Zenon
  <2>2. CASE At(w, "process") /\ ~AuthAccepts(M(w)) /\ processErrorPack(w)
    BY <1>auth, <1>close, <2>2, Zenon DEF Refused
  <2>3. CASE At(w, "reply") /\ routeBack(w, "auth", MSG_STATE) /\ To(w, "publish")
             /\ UNCHANGED <<tables, outcome>>
    <3>1. Does(w, <<"reply", "publish", "auth">>)
      BY <1>rest, <2>3 DEF Does, tables, routeBack, To, StateFor
    <3> QED
      BY <3>1 DEF Deeds
  <2>4. CASE At(w, "publish") /\ Back(w) /\ UNCHANGED <<tables, routeQ, outcome>>
    <3>1. Does(w, <<"publish", "idle", "none">>)
      BY <1>rest, <2>4 DEF Does, tables, Back
    <3> QED
      BY <3>1 DEF Deeds
  <2> QED
    BY <1>auth, <2>1, <2>2, <2>3, <2>4, Zenon DEF AuthStep
<1>touch. ASSUME w \in AppWorker, TouchStep(w)
          PROVE  \E d \in Deeds : Does(w, d)
  <2>1. CASE At(w, "process") /\ AppAccepts(M(w)) /\ M(w).frame.type = "TOUCH"
             /\ update(w) /\ To(w, "reply") /\ UNCHANGED <<routeQ, outcome>>
    BY <1>enter, <2>1, Zenon
  <2>2. CASE At(w, "reply") /\ routeBack(w, "touch", 0) /\ Back(w) /\ UNCHANGED <<tables, outcome>>
    <3>1. Does(w, <<"reply", "idle", "touch">>)
      BY <1>rest, <2>2 DEF Does, tables, routeBack, Back, StateFor, INIT_STATE
    <3> QED
      BY <3>1 DEF Deeds
  <2>3. CASE At(w, "process") /\ AppAccepts(M(w)) /\ M(w).frame.type = "AUTH"
             /\ routeBack(w, "again", 0) /\ Back(w) /\ UNCHANGED <<tables, outcome>>
    <3>1. Does(w, <<"process", "idle", "again">>)
      BY <1>rest, <2>3 DEF Does, tables, routeBack, Back, StateFor, INIT_STATE
    <3> QED
      BY <3>1 DEF Deeds
  <2> QED
    BY <1>touch, <2>1, <2>2, <2>3, Zenon DEF TouchStep
<1>msg. ASSUME w \in AppWorker, MsgStep(w)
        PROVE  \E d \in Deeds : Does(w, d)
  <2>1. CASE At(w, "process") /\ AppAccepts(M(w)) /\ M(w).frame.type = "MSG"
             /\ routeBack(w, "ack", 0) /\ To(w, "dispatch") /\ UNCHANGED <<tables, outcome>>
    <3>1. Does(w, <<"process", "dispatch", "ack">>)
      BY <1>rest, <2>1 DEF Does, tables, routeBack, To, StateFor, INIT_STATE
    <3> QED
      BY <3>1 DEF Deeds
  <2>2. CASE /\ At(w, "dispatch") /\ Back(w) /\ UNCHANGED <<tables, routeQ>>
             /\ \E how \in {"ok", "refused", "lost"} :
                   outcome' = outcome \cup {<<M(w).conn, M(w).n, how>>}
    <3>1. Does(w, <<"dispatch", "idle", "none">>)
      BY <1>rest, <2>2 DEF Does, tables, Back
    <3> QED
      BY <3>1 DEF Deeds
  <2> QED
    BY <1>msg, <2>1, <2>2, Zenon DEF MsgStep
<1> QED
  <2>1. CASE w \in AuthWorker /\ AuthStep(w)
    BY <1>auth, <2>1
  <2>2. CASE w \in AppWorker /\ AppStep(w)
    <3>1. w \notin AuthWorker
      BY <2>2, SessionAssumption
    <3>2. \/ TouchStep(w) \/ MsgStep(w)
          \/ At(w, "process") /\ ~AppAccepts(M(w)) /\ processErrorPack(w)
      BY <2>2, Zenon DEF AppStep
    <3> QED
      BY <1>touch, <1>msg, <1>close, <2>2, <3>1, <3>2, Zenon DEF Refused
  <2> QED
    BY <2>1, <2>2, Zenon DEF AuthStep, AppStep

(* What a deed leaves: the worker holds its message still or is done, one  *)
(* answer more is on its way or none, and the table is as before but for   *)
(* an entry.                                                               *)
LEMMA DeedDone ==
    ASSUME SessionTypes, NEW w \in Worker, NEW d \in Deeds, Does(w, d)
    PROVE  /\ M(w) \in Message /\ worker[w] = <<d[1], M(w)>>
           /\ worker'[w] = IF d[2] = "idle" THEN Idle ELSE <<d[2], M(w)>>
           /\ \A v \in Worker : v # w => worker'[v] = worker[v]
           /\ worker' \in [Worker -> {Idle} \cup (Steps \X Message)]
           /\ d[3] = "none" => UNCHANGED routeQ
           /\ d[3] # "none" => d[3] \in Kind /\ Answered(w, d[3], StateFor(d[3]))
           /\ table' \in [Users -> Conn \cup {NoConn}]
           /\ entered' \in [Users -> Conn \cup {NoConn}]
           /\ \/ UNCHANGED <<table, entered>> /\ d[2] # "reply"
              \/ /\ table'[User[M(w).conn]] = M(w).conn /\ entered'[User[M(w).conn]] = M(w).conn
                 /\ \A u \in Users : u # User[M(w).conn]
                                      => table'[u] = table[u] /\ entered'[u] = entered[u]
           /\ \A u \in Users : entered[u] # NoConn => entered'[u] # NoConn
           /\ d[2] = "reply" => entered'[User[M(w).conn]] # NoConn
<1>1. d[1] \in Steps /\ (d[2] = "idle" \/ d[2] \in Steps) /\ (d[3] = "none" \/ d[3] \in Kind)
  BY DEF Deeds, Steps, Kind
<1>2. /\ M(w) \in Message /\ worker[w] = <<d[1], M(w)>>
      /\ M(w).conn \in Conn /\ User[M(w).conn] \in Users
  BY <1>1, Holds, Zenon DEF Does
<1>3. (IF d[2] = "idle" THEN Idle ELSE <<d[2], M(w)>>) \in {Idle} \cup (Steps \X Message)
  BY <1>1, <1>2
<1>4. /\ worker \in [Worker -> {Idle} \cup (Steps \X Message)]
      /\ table \in [Users -> Conn \cup {NoConn}] /\ entered \in [Users -> Conn \cup {NoConn}]
  BY Zenon DEF SessionTypes
<1>5. worker' = [worker EXCEPT ![w] = IF d[2] = "idle" THEN Idle ELSE <<d[2], M(w)>>]
  BY Zenon DEF Does
<1>6. /\ worker'[w] = IF d[2] = "idle" THEN Idle ELSE <<d[2], M(w)>>
      /\ \A v \in Worker : v # w => worker'[v] = worker[v]
      /\ worker' \in [Worker -> {Idle} \cup (Steps \X Message)]
  BY <1>3, <1>4, <1>5, Zenon
<1>7. d[3] # "none" => Answered(w, d[3], StateFor(d[3]))
  <2>1. StateFor(d[3]) \in {INIT_STATE, MSG_STATE}
    BY Zenon DEF StateFor
  <2>2. d[3] # "none" => routeQ' = Append(routeQ, Answer(M(w), d[3], StateFor(d[3])))
    BY Zenon DEF Does
  <2> QED
    BY <1>1, <1>2, <2>1, <2>2, RoutedBack, Zenon
<1>8. CASE d[2] = "reply"
  <2>1. /\ table' = [table EXCEPT ![User[M(w).conn]] = M(w).conn]
        /\ entered' = [entered EXCEPT ![User[M(w).conn]] = M(w).conn]
    BY <1>8, Zenon DEF Does, update
  <2>2. M(w).conn # NoConn
    BY <1>2, SessionAssumption, Zenon
  <2>3. /\ table' \in [Users -> Conn \cup {NoConn}]
        /\ table'[User[M(w).conn]] = M(w).conn
        /\ \A u \in Users : u # User[M(w).conn] => table'[u] = table[u]
    BY <1>2, <1>4, <2>1
  <2>4. /\ entered' \in [Users -> Conn \cup {NoConn}]
        /\ entered'[User[M(w).conn]] = M(w).conn
        /\ \A u \in Users : u # User[M(w).conn] => entered'[u] = entered[u]
    BY <1>2, <1>4, <2>1
  <2>5. \A u \in Users : entered[u] # NoConn => entered'[u] # NoConn
    BY <2>2, <2>4, Zenon
  <2> QED
    BY <1>1, <1>2, <1>6, <1>7, <2>2, <2>3, <2>4, <2>5, Zenon DEF Does
<1>9. CASE d[2] # "reply"
  <2>1. table' = table /\ entered' = entered
    BY <1>9, Zenon DEF Does
  <2> QED
    BY <1>1, <1>2, <1>4, <1>6, <1>7, <1>9, <2>1, Zenon DEF Does
<1> QED
  BY <1>8, <1>9, Zenon

-----------------------------------------------------------------------------
(* The types of the parts of the state that the clients and the IO thread  *)
(* change.                                                                 *)
LEMMA SendTypes ==
    ASSUME SessionTypes, NEW c \in Conn, NEW f \in Frame, Send(c, f)
    PROVE  SessionTypes'
<1>1. /\ sock \in [Conn -> {"open", "closed"}] /\ sent \in [Conn -> 0..MaxFrames]
      /\ rx \in [Conn -> Seq(Frame)] /\ \A d \in Conn : Len(rx[d]) <= sent[d]
  BY Zenon DEF SessionTypes
<1>2. /\ sock[c] = "open" /\ sent[c] < MaxFrames
      /\ sock' = sock /\ sent' = [sent EXCEPT ![c] = sent[c] + 1]
      /\ rx' = [rx EXCEPT ![c] = Append(rx[c], f)]
  BY Zenon DEF Send
<1>3. /\ Append(rx[c], f) \in Seq(Frame) /\ Len(Append(rx[c], f)) = Len(rx[c]) + 1
      /\ Len(rx[c]) \in Nat
  BY <1>1
<1>4. sent[c] \in Nat /\ sent[c] + 1 \in 0..MaxFrames /\ Len(Append(rx[c], f)) <= sent[c] + 1
  BY <1>1, <1>2, <1>3, SessionAssumption
<1>5. /\ sock' \in [Conn -> {"open", "closed"}] /\ sent' \in [Conn -> 0..MaxFrames]
      /\ rx' \in [Conn -> Seq(Frame)]
  BY <1>1, <1>2, <1>3, <1>4, Zenon
<1>6. \A d \in Conn : Len(rx'[d]) <= sent'[d]
  BY <1>1, <1>2, <1>4, Zenon
<1>7. \A d \in Conn : sock'[d] = "closed" => rx'[d] = <<>> /\ plist'[d] = <<>>
  <2>1. \A d \in Conn : d # c => sock'[d] = sock[d] /\ rx'[d] = rx[d]
    BY <1>1, <1>2, Zenon
  <2>2. sock'[c] = "open"
    BY <1>1, <1>2, Zenon
  <2> QED
    BY <2>1, <2>2 DEF SessionTypes, Send
<1> QED
  BY <1>5, <1>6, <1>7, Zenon DEF SessionTypes, Send, tables

(* A connection that is shut has nothing to read or to write. *)
LEMMA ShutTypes ==
    ASSUME SessionTypes, NEW c \in Conn, Shut(c),
           UNCHANGED <<state, sent, authQ, appQ, worker, table, entered, routeQ, inbox>>
    PROVE  SessionTypes'
<1>1. /\ sock \in [Conn -> {"open", "closed"}] /\ sent \in [Conn -> 0..MaxFrames]
      /\ rx \in [Conn -> Seq(Frame)] /\ plist \in [Conn -> Seq(Reply)]
      /\ \A d \in Conn : Len(rx[d]) <= sent[d]
      /\ \A d \in Conn : sock[d] = "closed" => rx[d] = <<>> /\ plist[d] = <<>>
  BY Zenon DEF SessionTypes
<1>2. /\ sock' = [sock EXCEPT ![c] = "closed"] /\ rx' = [rx EXCEPT ![c] = <<>>]
      /\ plist' = [plist EXCEPT ![c] = <<>>] /\ sent' = sent
  BY Zenon DEF Shut
<1>3. /\ sock' \in [Conn -> {"open", "closed"}] /\ rx' \in [Conn -> Seq(Frame)]
      /\ plist' \in [Conn -> Seq(Reply)]
  BY <1>1, <1>2
<1>4. /\ \A d \in Conn : d # c => sock'[d] = sock[d] /\ rx'[d] = rx[d] /\ plist'[d] = plist[d]
      /\ rx'[c] = <<>> /\ plist'[c] = <<>>
  BY <1>1, <1>2, Zenon
<1>5. Len(rx'[c]) <= sent'[c]
  BY <1>1, <1>2, <1>4
<1>6. \A d \in Conn : Len(rx'[d]) <= sent'[d]
  BY <1>1, <1>2, <1>4, <1>5, Zenon
<1>7. \A d \in Conn : sock'[d] = "closed" => rx'[d] = <<>> /\ plist'[d] = <<>>
  BY <1>1, <1>4, Zenon
<1> QED
  BY <1>1, <1>3, <1>6, <1>7, Zenon DEF SessionTypes

(* A frame that is read becomes a message for the auth workers, or, when   *)
(* the session has logged in, for the app workers.                         *)
LEMMA ReadDone ==
    ASSUME SessionTypes, NEW c \in Conn, Read(c)
    PROVE  \E m \in Message :
              /\ m.conn = c /\ m.n = sent[c] - Len(rx[c]) + 1 /\ m.frame = Head(rx[c])
              /\ \/ /\ state[c] # MSG_STATE /\ m.state = AUTH_STATE
                    /\ authQ' = Append(authQ, m) /\ appQ' = appQ
                 \/ /\ state[c] = MSG_STATE /\ m.state = MSG_STATE
                    /\ appQ' = Append(appQ, m) /\ authQ' = authQ
<1> DEFINE k == sent[c] - Len(rx[c]) + 1
           m0 == [conn |-> c, n |-> k, state |-> state[c], frame |-> Head(rx[c])]
           m1 == [conn |-> c, n |-> k, state |-> AUTH_STATE, frame |-> Head(rx[c])]
<1>1. /\ rx[c] \in Seq(Frame) /\ rx[c] # <<>> /\ Len(rx[c]) <= sent[c] /\ sent[c] \in Nat
      /\ state[c] \in {INIT_STATE, MSG_STATE}
  BY SessionAssumption DEF SessionTypes, Read
<1>2. Head(rx[c]) \in Frame /\ Len(rx[c]) \in Nat
  BY <1>1
<1>3. k \in Nat
  BY <1>1, <1>2
<1>4. Dispatch(m0)
  BY Zenon DEF Read
<1>5. m0 \in Message /\ m1 \in Message /\ [m0 EXCEPT !.state = AUTH_STATE] = m1
  BY <1>1, <1>2, <1>3 DEF Message
<1>6. /\ m0.conn = c /\ m0.n = k /\ m0.frame = Head(rx[c]) /\ m0.state = state[c]
      /\ m1.conn = c /\ m1.n = k /\ m1.frame = Head(rx[c]) /\ m1.state = AUTH_STATE
  OBVIOUS
<1> HIDE DEF m0, m1
<1>7. CASE state[c] = MSG_STATE
  <2>1. m0.state \notin {INIT_STATE, AUTH_STATE}
    BY <1>6, <1>7 DEF INIT_STATE, AUTH_STATE, MSG_STATE
  <2>2. appQ' = Append(appQ, m0) /\ authQ' = authQ
    BY <1>4, <2>1, Zenon DEF Dispatch
  <2> QED
    BY <1>5, <1>6, <1>7, <2>2, Zenon
<1>8. CASE state[c] # MSG_STATE
  <2>1. m0.state \in {INIT_STATE, AUTH_STATE}
    BY <1>1, <1>6, <1>8, Zenon
  <2>2. authQ' = Append(authQ, m1) /\ appQ' = appQ
    BY <1>4, <1>5, <2>1, Zenon DEF Dispatch
  <2> QED
    BY <1>5, <1>6, <1>8, <2>2, Zenon
<1> QED
  BY <1>7, <1>8, Zenon

(* The types after a frame is read. *)
LEMMA ReadTypes ==
    ASSUME SessionTypes, NEW c \in Conn, Read(c)
    PROVE  SessionTypes'
<1>1. /\ rx \in [Conn -> Seq(Frame)] /\ rx[c] # <<>> /\ rx' = [rx EXCEPT ![c] = Tail(rx[c])]
      /\ sent \in [Conn -> 0..MaxFrames] /\ sent' = sent
      /\ authQ \in Seq(Message) /\ appQ \in Seq(Message)
      /\ \A d \in Conn : Len(rx[d]) <= sent[d]
      /\ sock[c] = "open" /\ sock' = sock /\ plist' = plist
  BY Zenon DEF SessionTypes, Read
<1>2. /\ rx[c] \in Seq(Frame) /\ Tail(rx[c]) \in Seq(Frame)
      /\ Len(rx[c]) \in Nat \ {0} /\ Len(Tail(rx[c])) = Len(rx[c]) - 1
  BY <1>1, TailIn
<1>3. /\ rx' \in [Conn -> Seq(Frame)] /\ rx'[c] = Tail(rx[c])
      /\ \A d \in Conn : d # c => rx'[d] = rx[d]
  BY <1>1, <1>2, Zenon
<1>4. Len(Tail(rx[c])) <= sent[c]
  BY <1>1, <1>2
<1>5. \A d \in Conn : Len(rx'[d]) <= sent'[d]
  BY <1>1, <1>3, <1>4, Zenon
<1>6. authQ' \in Seq(Message) /\ appQ' \in Seq(Message)
  <2>1. PICK m \in Message : \/ authQ' = Append(authQ, m) /\ appQ' = appQ
                             \/ appQ' = Append(appQ, m) /\ authQ' = authQ
    BY ReadDone, Zenon
  <2>2. Append(authQ, m) \in Seq(Message) /\ Append(appQ, m) \in Seq(Message)
    BY <1>1
  <2> QED
    BY <1>1, <2>1, <2>2, Zenon
<1>7. \A d \in Conn : sock'[d] = "closed" => rx'[d] = <<>> /\ plist'[d] = <<>>
  <2>1. sock[c] # "closed"
    BY <1>1
  <2> QED
    BY <1>1, <1>3, <2>1, Zenon DEF SessionTypes
<1> QED
  BY <1>3, <1>5, <1>6, <1>7, Zenon DEF SessionTypes, Read, tables

(* The answer at the head of the router's queue is put in the push list of *)
(* its connection, if that is open, and switches the state of the session  *)
(* if it is that to a login.                                               *)
LEMMA PushDone ==
    ASSUME SessionTypes, Push
    PROVE  LET r == Head(routeQ)
           IN /\ r \in Reply /\ r.conn \in Conn /\ r.kind \in Kind
              /\ In(r, routeQ) /\ routeQ' \in Seq(Reply)
              /\ \A x : In(x, routeQ) <=> x = r \/ In(x, routeQ')
              /\ UNCHANGED <<sock, sent, rx, authQ, appQ, worker, table, entered, inbox, outcome>>
              /\ state' \in [Conn -> {INIT_STATE, MSG_STATE}]
              /\ plist' \in [Conn -> Seq(Reply)]
              /\ \A c \in Conn : c # r.conn \/ r.kind # "auth" => state'[c] = state[c]
              /\ \A c \in Conn : c # r.conn => plist'[c] = plist[c]
              /\ \/ /\ sock[r.conn] = "open"
                    /\ plist'[r.conn] = Append(plist[r.conn], r)
                    /\ \A x : In(x, plist'[r.conn]) <=> In(x, plist[r.conn]) \/ x = r
                    /\ r.kind = "auth" => state'[r.conn] = r.state
                 \/ sock[r.conn] # "open" /\ UNCHANGED <<state, plist>>
<1> DEFINE r == Head(routeQ)
<1>1. /\ routeQ \in Seq(Reply) /\ routeQ # <<>> /\ routeQ' = Tail(routeQ)
      /\ plist \in [Conn -> Seq(Reply)] /\ state \in [Conn -> {INIT_STATE, MSG_STATE}]
      /\ UNCHANGED <<sock, sent, rx, authQ, appQ, worker, table, entered, inbox, outcome>>
  BY Zenon DEF SessionTypes, Push, client, tables
<1>2. /\ r \in Reply /\ routeQ' \in Seq(Reply)
      /\ \A x : In(x, routeQ) <=> x = r \/ In(x, routeQ')
  BY <1>1, TailIn, Zenon
<1>3. r.conn \in Conn /\ r.kind \in Kind /\ r.state \in {INIT_STATE, MSG_STATE}
  BY <1>2 DEF Reply
<1>4. \/ /\ sock[r.conn] = "open"
         /\ state' = [state EXCEPT ![r.conn] = IF r.kind = "auth" THEN r.state ELSE state[r.conn]]
         /\ plist' = [plist EXCEPT ![r.conn] = Append(plist[r.conn], r)]
      \/ sock[r.conn] # "open" /\ UNCHANGED <<state, plist>>
  BY Zenon DEF Push
<1>5. /\ plist[r.conn] \in Seq(Reply) /\ Append(plist[r.conn], r) \in Seq(Reply)
      /\ \A x : In(x, Append(plist[r.conn], r)) <=> In(x, plist[r.conn]) \/ x = r
  <2>1. plist[r.conn] \in Seq(Reply)
    BY <1>1, <1>3, Zenon
  <2> HIDE DEF r
  <2> QED
    BY <1>2, <2>1, AppendIn
<1> HIDE DEF r
<1>6. CASE sock[r.conn] # "open" /\ UNCHANGED <<state, plist>>
  BY <1>1, <1>2, <1>3, <1>6, Zenon DEF r
<1>7. CASE /\ sock[r.conn] = "open"
           /\ state' = [state EXCEPT ![r.conn] = IF r.kind = "auth" THEN r.state ELSE state[r.conn]]
           /\ plist' = [plist EXCEPT ![r.conn] = Append(plist[r.conn], r)]
  <2>1. /\ plist' \in [Conn -> Seq(Reply)] /\ plist'[r.conn] = Append(plist[r.conn], r)
        /\ \A c \in Conn : c # r.conn => plist'[c] = plist[c]
    BY <1>1, <1>3, <1>5, <1>7, Zenon
  <2>2. (IF r.kind = "auth" THEN r.state ELSE state[r.conn]) \in {INIT_STATE, MSG_STATE}
    BY <1>1, <1>3, Zenon
  <2>3. /\ state' \in [Conn -> {INIT_STATE, MSG_STATE}]
        /\ \A c \in Conn : c # r.conn \/ r.kind # "auth" => state'[c] = state[c]
        /\ r.kind = "auth" => state'[r.conn] = r.state
    BY <1>1, <1>3, <1>7, <2>2, Zenon
  <2> QED
    BY <1>1, <1>2, <1>3, <1>5, <1>7, <2>1, <2>3, Zenon DEF r
<1> QED
  BY <1>4, <1>6, <1>7, Zenon

(* writeSocket hands the first answer of the push list to the client, or   *)
(* shuts the connection when the answer says so.                           *)
LEMMA WriteDone ==
    ASSUME SessionTypes, NEW c \in Conn, Write(c)
    PROVE  LET r == Head(plist[c])
           IN /\ r \in Reply /\ In(r, plist[c])
              /\ UNCHANGED <<state, sent, authQ, appQ, worker, table, entered, routeQ, outcome>>
              /\ \/ r.kind = "close" /\ Shut(c) /\ UNCHANGED inbox
                 \/ /\ r.kind # "close" /\ UNCHANGED <<sock, rx>>
                    /\ plist' = [plist EXCEPT ![c] = Tail(plist[c])]
                    /\ inbox' = [inbox EXCEPT ![c] = Append(inbox[c], r)]
                    /\ plist' \in [Conn -> Seq(Reply)] /\ inbox' \in [Conn -> Seq(Reply)]
                    /\ \A d \in Conn : d # c => plist'[d] = plist[d] /\ inbox'[d] = inbox[d]
                    /\ \A x : In(x, plist[c]) <=> x = r \/ In(x, plist'[c])
                    /\ \A x : In(x, inbox'[c]) <=> In(x, inbox[c]) \/ x = r
<1> DEFINE r == Head(plist[c])
<1>1. /\ plist \in [Conn -> Seq(Reply)] /\ inbox \in [Conn -> Seq(Reply)]
      /\ plist[c] \in Seq(Reply) /\ inbox[c] \in Seq(Reply)
      /\ plist[c] # <<>>
      /\ UNCHANGED <<state, sent, authQ, appQ, worker, table, entered, routeQ, outcome>>
  BY Zenon DEF SessionTypes, Write, client, tables
<1>2. /\ r \in Reply /\ Tail(plist[c]) \in Seq(Reply)
      /\ \A x : In(x, plist[c]) <=> x = r \/ In(x, Tail(plist[c]))
  BY <1>1, TailIn, Zenon
<1>3. \/ r.kind = "close" /\ Shut(c) /\ UNCHANGED inbox
      \/ /\ r.kind # "close" /\ UNCHANGED <<sock, rx>>
         /\ plist' = [plist EXCEPT ![c] = Tail(plist[c])]
         /\ inbox' = [inbox EXCEPT ![c] = Append(inbox[c], r)]
  BY Zenon DEF Write, client
<1> HIDE DEF r
<1>4. /\ Append(inbox[c], r) \in Seq(Reply)
      /\ \A x : In(x, Append(inbox[c], r)) <=> In(x, inbox[c]) \/ x = r
  BY <1>1, <1>2, AppendIn
<1>5. CASE r.kind = "close" /\ Shut(c) /\ UNCHANGED inbox
  BY <1>1, <1>2, <1>5, Zenon DEF r
<1>6. CASE /\ r.kind # "close" /\ UNCHANGED <<sock, rx>>
           /\ plist' = [plist EXCEPT ![c] = Tail(plist[c])]
           /\ inbox' = [inbox EXCEPT ![c] = Append(inbox[c], r)]
  <2>1. /\ plist' \in [Conn -> Seq(Reply)] /\ inbox' \in [Conn -> Seq(Reply)]
        /\ plist'[c] = Tail(plist[c]) /\ inbox'[c] = Append(inbox[c], r)
        /\ \A d \in Conn : d # c => plist'[d] = plist[d] /\ inbox'[d] = inbox[d]
    BY <1>1, <1>2, <1>4, <1>6, Zenon
  <2> QED
    BY <1>1, <1>2, <1>4, <1>6, <2>1, Zenon DEF r
<1> QED
  BY <1>3, <1>5, <1>6, Zenon

(* A worker takes the first message of its queue. *)
LEMMA GetDone ==
    ASSUME SessionTypes, NEW w \in Worker, Get(w)
    PROVE  \E m \in Message :
              /\ worker' \in [Worker -> {Idle} \cup (Steps \X Message)]
              /\ worker[w] = Idle /\ worker'[w] = <<"process", m>>
              /\ \A v \in Worker : v # w => worker'[v] = worker[v]
              /\ UNCHANGED <<sock, state, sent, rx, table, entered, routeQ, plist, inbox, outcome>>
              /\ \/ /\ w \in AuthWorker /\ authQ # <<>> /\ m = Head(authQ)
                    /\ authQ' = Tail(authQ) /\ appQ' = appQ
                    /\ authQ' \in Seq(Message)
                    /\ \A x : In(x, authQ) <=> x = m \/ In(x, authQ')
                 \/ /\ w \in AppWorker /\ appQ # <<>> /\ m = Head(appQ)
                    /\ appQ' = Tail(appQ) /\ authQ' = authQ
                    /\ appQ' \in Seq(Message)
                    /\ \A x : In(x, appQ) <=> x = m \/ In(x, appQ')
<1>1. /\ worker \in [Worker -> {Idle} \cup (Steps \X Message)]
      /\ authQ \in Seq(Message) /\ appQ \in Seq(Message)
      /\ worker[w] = Idle
      /\ UNCHANGED <<sock, state, sent, rx, table, entered, routeQ, plist, inbox, outcome>>
  BY Zenon DEF SessionTypes, Get, client, tables
<1>2. ASSUME NEW m \in Message, worker' = [worker EXCEPT ![w] = <<"process", m>>]
      PROVE  /\ worker' \in [Worker -> {Idle} \cup (Steps \X Message)]
             /\ worker'[w] = <<"process", m>>
             /\ \A v \in Worker : v # w => worker'[v] = worker[v]
  <2>1. <<"process", m>> \in {Idle} \cup (Steps \X Message)
    BY DEF Steps
  <2> QED
    BY <1>1, <1>2, <2>1, Zenon
<1>3. CASE /\ w \in AuthWorker /\ authQ # <<>>
           /\ worker' = [worker EXCEPT ![w] = <<"process", Head(authQ)>>]
           /\ authQ' = Tail(authQ) /\ UNCHANGED appQ
  <2>1. /\ Head(authQ) \in Message /\ authQ' \in Seq(Message)
        /\ \A x : In(x, authQ) <=> x = Head(authQ) \/ In(x, authQ')
    BY <1>1, <1>3, TailIn, Zenon
  <2> QED
    BY <1>1, <1>2, <1>3, <2>1, Zenon
<1>4. CASE /\ w \in AppWorker /\ appQ # <<>>
           /\ worker' = [worker EXCEPT ![w] = <<"process", Head(appQ)>>]
           /\ appQ' = Tail(appQ) /\ UNCHANGED authQ
  <2>1. /\ Head(appQ) \in Message /\ appQ' \in Seq(Message)
        /\ \A x : In(x, appQ) <=> x = Head(appQ) \/ In(x, appQ')
    BY <1>1, <1>4, TailIn, Zenon
  <2> QED
    BY <1>1, <1>2, <1>4, <2>1, Zenon
<1> QED
  BY <1>3, <1>4, Zenon DEF Get

(* The collector takes its queue, or erases the entry of a user for one of *)
(* the connections it has taken.                                           *)
LEMMA CollectorDone ==
    ASSUME SessionTypes, Collector
    PROVE  /\ UNCHANGED <<sock, state, sent, rx, authQ, appQ, worker, entered, routeQ, plist,
                          inbox, outcome>>
           /\ collQ' \subseteq collQ /\ coll' \subseteq coll \cup collQ
           /\ table' \in [Users -> Conn \cup {NoConn}]
           /\ \A u \in Users : \/ table'[u] = table[u]
                               \/ /\ table'[u] = NoConn
                                  /\ \E c \in coll : User[c] = u /\ c >= table[u]
<1>1. CASE TakePending
  BY <1>1, Zenon DEF TakePending, SessionTypes, tables, client
<1>2. ASSUME NEW u \in DOMAIN table, Collect(u)
      PROVE  /\ UNCHANGED <<sock, state, sent, rx, authQ, appQ, worker, entered, routeQ, plist,
                            inbox, outcome>>
             /\ collQ' \subseteq collQ /\ coll' \subseteq coll \cup collQ
             /\ table' \in [Users -> Conn \cup {NoConn}]
             /\ \A v \in Users : \/ table'[v] = table[v]
                                 \/ /\ table'[v] = NoConn
                                    /\ \E c \in coll : User[c] = v /\ c >= table[v]
  <2>1. /\ UNCHANGED <<sock, state, sent, rx, authQ, appQ, worker, entered, routeQ, plist,
                       inbox, outcome>>
        /\ collQ' = collQ /\ coll' \subseteq coll
    BY <1>2, Zenon DEF Collect, client
  <2>2. \/ table' = [table EXCEPT ![u] = NoConn] /\ \E c \in coll : User[c] = u /\ c >= table[u]
        \/ table' = [table EXCEPT ![u] = table[u]]
    BY <1>2, Zenon DEF Collect
  <2>3. u \in Users /\ table \in [Users -> Conn \cup {NoConn}]
    BY Zenon DEF SessionTypes
  <2>4. table' \in [Users -> Conn \cup {NoConn}]
    BY <2>2, <2>3, Zenon
  <2>5. \A v \in Users : v # u => table'[v] = table[v]
    BY <2>2, <2>3, Zenon
  <2>6. \/ table'[u] = NoConn /\ \E c \in coll : User[c] = u /\ c >= table[u]
        \/ table'[u] = table[u]
    BY <2>2, <2>3, Zenon
  <2> QED
    BY <2>1, <2>4, <2>5, <2>6, Zenon
<1> QED
  BY <1>1, <1>2, Zenon DEF Collector

(* Every step keeps the types. *)
LEMMA TypesKept ==
    ASSUME SessionTypes, [Next]_vars
    PROVE  SessionTypes'
<1>1. ASSUME NEW c \in Conn, Leave(c)
      PROVE  SessionTypes'
  BY <1>1, ShutTypes, Zenon DEF Leave, tables
<1>2. ASSUME NEW c \in Conn, Write(c)
      PROVE  SessionTypes'
  <2>1. CASE Shut(c) /\ UNCHANGED inbox
    BY <1>2, <2>1, WriteDone, ShutTypes, Zenon
  <2>2. CASE ~(Shut(c) /\ UNCHANGED inbox)
    <3>1. /\ plist' \in [Conn -> Seq(Reply)] /\ inbox' \in [Conn -> Seq(Reply)]
          /\ UNCHANGED <<state, sent, authQ, appQ, worker, table, entered, routeQ, sock, rx>>
          /\ \A d \in Conn : d # c => plist'[d] = plist[d]
      BY <1>2, <2>2, WriteDone, Zenon
    <3>2. \A d \in Conn : sock[d] = "closed" => d # c
      BY <1>2 DEF Write
    <3>3. \A d \in Conn : sock'[d] = "closed" => rx'[d] = <<>> /\ plist'[d] = <<>>
      BY <3>1, <3>2, Zenon DEF SessionTypes
    <3> QED
      BY <3>1, <3>3, Zenon DEF SessionTypes
  <2> QED
    BY <2>1, <2>2
<1>3. ASSUME Push
      PROVE  SessionTypes'
  <2>1. /\ routeQ' \in Seq(Reply) /\ state' \in [Conn -> {INIT_STATE, MSG_STATE}]
        /\ plist' \in [Conn -> Seq(Reply)]
        /\ UNCHANGED <<sock, sent, rx, authQ, appQ, worker, table, entered, inbox>>
    BY <1>3, PushDone, Zenon
  <2>2. \A d \in Conn : sock'[d] = "closed" => rx'[d] = <<>> /\ plist'[d] = <<>>
    <3> SUFFICES ASSUME NEW d \in Conn, sock[d] = "closed"
                 PROVE  rx'[d] = <<>> /\ plist'[d] = <<>>
      BY <2>1, Zenon
    <3>1. sock[d] # "open"
      OBVIOUS
    <3>2. plist'[d] = plist[d]
      BY <1>3, <3>1, PushDone, Zenon
    <3> QED
      BY <2>1, <3>2, Zenon DEF SessionTypes
  <2> QED
    BY <2>1, <2>2, Zenon DEF SessionTypes
<1>4. ASSUME NEW w \in Worker, Get(w)
      PROVE  SessionTypes'
  BY <1>4, GetDone, Zenon DEF SessionTypes
<1>5. ASSUME NEW w \in Worker, AuthStep(w) \/ AppStep(w)
      PROVE  SessionTypes'
  <2>1. PICK d \in Deeds : Does(w, d)
    BY <1>5, WorkerDeed, Zenon
  <2>2. /\ worker' \in [Worker -> {Idle} \cup (Steps \X Message)]
        /\ table' \in [Users -> Conn \cup {NoConn}] /\ entered' \in [Users -> Conn \cup {NoConn}]
        /\ d[3] = "none" => UNCHANGED routeQ
        /\ d[3] # "none" => Answered(w, d[3], StateFor(d[3]))
    BY <2>1, DeedDone, Zenon
  <2>3. routeQ' \in Seq(Reply)
    BY <2>2, Zenon DEF Answered, SessionTypes
  <2> QED
    BY <2>1, <2>2, <2>3, Zenon DEF SessionTypes, Does
<1>6. CASE UNCHANGED vars
  BY <1>6, Zenon DEF SessionTypes, vars
<1>7. CASE Collector
  BY <1>7, CollectorDone, Zenon DEF SessionTypes
<1> QED
  BY <1>1, <1>2, <1>3, <1>4, <1>5, <1>6, <1>7, SendTypes, ReadTypes, Zenon
  DEF Next, Server, Work, Refuse

-----------------------------------------------------------------------------
(* AnsweredIsRouted is about the answers that clients have got.  Before    *)
(* that they are with a worker, on their way to the IO thread, or in a     *)
(* push list; the table has an entry since before they were made.          *)
Vouching == {"auth", "touch"}

Vouched ==
    /\ \A w \in Worker : At(w, "reply") => entered[User[M(w).conn]] # NoConn
    /\ \A r : In(r, routeQ) /\ r.kind \in Vouching => entered[User[r.conn]] # NoConn
    /\ \A c \in Conn : \A r : (In(r, plist[c]) \/ In(r, inbox[c])) /\ r.kind \in Vouching
                            => entered[User[c]] # NoConn

(* Answers are handed on, and what was entered is changed but not removed. *)
LEMMA VouchedKept ==
    ASSUME SessionTypes, Vouched, [Next]_vars
    PROVE  Vouched'
<1>users. /\ \A c \in Conn : User[c] \in Users
          /\ \A r : In(r, routeQ) => r.conn \in Conn
  <2>1. \A r : In(r, routeQ) => r \in Reply
    BY ElementOf, Zenon DEF SessionTypes
  <2>2. \A r \in Reply : r.conn \in Conn
    BY DEF Reply
  <2> QED
    BY <2>1, <2>2, Zenon DEF Users
<1>same. ASSUME UNCHANGED <<worker, entered, routeQ, inbox>>,
                \A c \in Conn : \A r : In(r, plist'[c]) => In(r, plist[c])
         PROVE  Vouched'
  BY <1>same, Zenon DEF Vouched, At, M
<1>shut. ASSUME NEW c \in Conn, Shut(c)
         PROVE  \A d \in Conn : \A r : In(r, plist'[d]) => In(r, plist[d])
  <2>1. plist'[c] = <<>> /\ \A d \in Conn : d # c => plist'[d] = plist[d]
    BY <1>shut, Zenon DEF Shut, SessionTypes
  <2> QED
    BY <2>1, NoneIn, Zenon
<1>send. ASSUME NEW c \in Conn, NEW f \in Frame, Send(c, f)
         PROVE  Vouched'
  BY <1>same, <1>send, Zenon DEF Send, tables
<1>leave. ASSUME NEW c \in Conn, Leave(c)
          PROVE  Vouched'
  BY <1>same, <1>shut, <1>leave, Zenon DEF Leave, tables
<1>read. ASSUME NEW c \in Conn, Read(c)
         PROVE  Vouched'
  BY <1>same, <1>read, Zenon DEF Read, tables
<1>write. ASSUME NEW c \in Conn, Write(c)
          PROVE  Vouched'
  <2>1. CASE Shut(c) /\ UNCHANGED inbox
    BY <1>write, <1>same, <1>shut, <2>1, WriteDone, Zenon
  <2>2. CASE ~(Shut(c) /\ UNCHANGED inbox)
    <3>1. /\ UNCHANGED <<worker, entered, routeQ>>
          /\ \A d \in Conn : d # c => plist'[d] = plist[d] /\ inbox'[d] = inbox[d]
          /\ \A x : In(x, plist'[c]) => In(x, plist[c])
          /\ \A x : In(x, inbox'[c]) => In(x, inbox[c]) \/ In(x, plist[c])
      BY <1>write, <2>2, WriteDone, Zenon
    <3> QED
      BY <3>1, Zenon DEF Vouched, At, M
  <2> QED
    BY <2>1, <2>2
<1>push. ASSUME Push
         PROVE  Vouched'
  <2>1. PICK r : /\ In(r, routeQ) /\ r.conn \in Conn
                 /\ \A x : In(x, routeQ') => In(x, routeQ)
                 /\ UNCHANGED <<worker, entered, inbox>>
                 /\ \A d \in Conn : d # r.conn => plist'[d] = plist[d]
                 /\ \A x : In(x, plist'[r.conn]) => In(x, plist[r.conn]) \/ x = r
    BY <1>push, PushDone, Zenon
  <2>2. ASSUME NEW d \in Conn, NEW x, In(x, plist'[d]), x.kind \in Vouching
        PROVE  entered[User[d]] # NoConn
    <3>1. CASE In(x, plist[d])
      BY <2>2, <3>1, Zenon DEF Vouched
    <3>2. CASE d = r.conn /\ x = r
      BY <2>1, <2>2, <3>2, Zenon DEF Vouched
    <3> QED
      BY <2>1, <2>2, <3>1, <3>2, Zenon
  <2> QED
    BY <2>1, <2>2, Zenon DEF Vouched, At, M
<1>get. ASSUME NEW w \in Worker, Get(w)
        PROVE  Vouched'
  <2>1. PICK m : /\ worker'[w] = <<"process", m>>
                 /\ \A v \in Worker : v # w => worker'[v] = worker[v]
                 /\ UNCHANGED <<entered, routeQ, plist, inbox>>
    BY <1>get, GetDone, Zenon
  <2>2. worker'[w][1] # "reply"
    BY <2>1
  <2>3. \A v \in Worker : At(v, "reply")' => At(v, "reply") /\ M(v)' = M(v)
    BY <2>1, <2>2, Zenon DEF At, M
  <2> QED
    BY <2>1, <2>3, Zenon DEF Vouched
<1>work. ASSUME NEW w \in Worker, AuthStep(w) \/ AppStep(w)
         PROVE  Vouched'
  <2>1. PICK d \in Deeds : Does(w, d)
    BY <1>work, WorkerDeed, Zenon
  <2>2. /\ M(w) \in Message /\ worker[w] = <<d[1], M(w)>>
        /\ worker'[w] = IF d[2] = "idle" THEN Idle ELSE <<d[2], M(w)>>
        /\ \A v \in Worker : v # w => worker'[v] = worker[v]
        /\ d[3] = "none" => UNCHANGED routeQ
        /\ d[3] # "none" => d[3] \in Kind /\ Answered(w, d[3], StateFor(d[3]))
        /\ \A u \in Users : entered[u] # NoConn => entered'[u] # NoConn
        /\ d[2] = "reply" => entered'[User[M(w).conn]] # NoConn
        /\ UNCHANGED <<plist, inbox>>
    BY <2>1, DeedDone, Zenon DEF Does
  <2>3. M(w).conn \in Conn
    BY <2>2 DEF Message
  <2>4. d[3] \in Vouching => d[1] = "reply"
    BY DEF Deeds, Vouching
  <2>5. \A v \in Worker : At(v, "reply")' => entered'[User[M(v)'.conn]] # NoConn
    <3> SUFFICES ASSUME NEW v \in Worker, At(v, "reply")'
                 PROVE  entered'[User[M(v)'.conn]] # NoConn
      OBVIOUS
    <3>1. CASE v = w
      <4>1. d[2] # "idle"
        BY <2>2, <3>1 DEF At, Idle
      <4>2. d[2] = "reply" /\ M(v)' = M(w)
        BY <2>2, <3>1, <4>1 DEF At, M
      <4> QED
        BY <2>2, <4>2, Zenon
    <3>2. CASE v # w
      <4>1. At(v, "reply") /\ M(v)' = M(v)
        BY <2>2, <3>2, Zenon DEF At, M
      <4>2. M(v).conn \in Conn
        BY <4>1, Holds DEF Steps
      <4> QED
        BY <1>users, <2>2, <4>1, <4>2, Zenon DEF Vouched
    <3> QED
      BY <3>1, <3>2
  <2>6. \A r : In(r, routeQ') /\ r.kind \in Vouching => entered'[User[r.conn]] # NoConn
    <3> SUFFICES ASSUME NEW r, In(r, routeQ'), r.kind \in Vouching
                 PROVE  entered'[User[r.conn]] # NoConn
      OBVIOUS
    <3>1. CASE In(r, routeQ)
      BY <1>users, <2>2, <3>1, Zenon DEF Vouched
    <3>2. CASE ~In(r, routeQ)
      <4>1. d[3] # "none" /\ d[3] \in Kind /\ r = Answer(M(w), d[3], StateFor(d[3]))
        BY <2>2, <3>2, Zenon DEF Answered
      <4>2. r.conn = M(w).conn /\ r.kind = d[3]
        BY <2>2, <4>1, AnswerIs, Zenon DEF StateFor
      <4>3. At(w, "reply")
        BY <2>2, <2>4, <4>2 DEF At
      <4> QED
        BY <1>users, <2>2, <2>3, <4>2, <4>3, Zenon DEF Vouched
    <3> QED
      BY <3>1, <3>2
  <2>7. \A c \in Conn : \A r : (In(r, plist[c]) \/ In(r, inbox[c])) /\ r.kind \in Vouching
                              => entered'[User[c]] # NoConn
    BY <1>users, <2>2, Zenon DEF Vouched
  <2> QED
    BY <2>2, <2>5, <2>6, <2>7, Zenon DEF Vouched
<1>stutter. CASE UNCHANGED vars
  BY <1>same, <1>stutter, Zenon DEF vars
<1>collect. CASE Collector
  BY <1>same, <1>collect, CollectorDone, Zenon
<1> QED
  BY <1>send, <1>leave, <1>read, <1>write, <1>push, <1>get, <1>work, <1>stutter, <1>collect,
     Zenon
  DEF Next, Server, Work, Refuse

(* Nothing is under way at the start. *)
LEMMA InitialTypes ==
    ASSUME Init
    PROVE  /\ SessionTypes
           /\ \A x : ~In(x, authQ) /\ ~In(x, appQ) /\ ~In(x, routeQ)
           /\ \A c \in Conn : rx[c] = <<>> /\ plist[c] = <<>> /\ inbox[c] = <<>>
           /\ \A w \in Worker : worker[w] = Idle
<1>1. /\ sock \in [Conn -> {"open", "closed"}] /\ state \in [Conn -> {INIT_STATE, MSG_STATE}]
      /\ sent \in [Conn -> 0..MaxFrames] /\ rx \in [Conn -> Seq(Frame)]
      /\ plist \in [Conn -> Seq(Reply)] /\ inbox \in [Conn -> Seq(Reply)]
      /\ authQ \in Seq(Message) /\ appQ \in Seq(Message) /\ routeQ \in Seq(Reply)
  BY SessionAssumption DEF Init
<1>2. /\ worker \in [Worker -> {Idle} \cup (Steps \X Message)]
      /\ table \in [Users -> Conn \cup {NoConn}] /\ entered \in [Users -> Conn \cup {NoConn}]
      /\ \A w \in Worker : worker[w] = Idle
  BY Zenon DEF Init, Users
<1>3. \A c \in Conn : /\ rx[c] = <<>> /\ plist[c] = <<>> /\ inbox[c] = <<>>
                      /\ sock[c] # "closed" /\ Len(rx[c]) <= sent[c]
  BY DEF Init
<1>4. \A x : ~In(x, authQ) /\ ~In(x, appQ) /\ ~In(x, routeQ)
  BY NoneIn, Zenon DEF Init
<1> QED
  BY <1>1, <1>2, <1>3, <1>4, Zenon DEF SessionTypes

(* The table is about the connection entered last, if about any: it has no *)
(* entry although that is open only when a later connection was closed.    *)
(* What the collector has belongs to closed connections.                   *)
Overtaken(u, e) == \E d \in Conn : d > e /\ User[d] = u /\ sock[d] = "closed"

EntrySound(u) ==
    /\ table[u] = entered[u] \/ table[u] = NoConn
    /\ \/ entered[u] = NoConn \/ sock[entered[u]] = "closed"
       \/ table[u] = entered[u] \/ Overtaken(u, entered[u])

TableSound ==
    /\ coll \subseteq Conn /\ collQ \subseteq Conn
    /\ \A c \in coll \cup collQ : sock[c] = "closed"
    /\ \A u \in Users : EntrySound(u)

(* A connection that was overtaken stays so. *)
LEMMA OvertakenStays ==
    ASSUME \A c \in Conn : sock[c] = "closed" => sock'[c] = "closed",
           NEW u \in Users, SessionTypes, EntrySound(u),
           UNCHANGED <<table[u], entered[u]>>
    PROVE  EntrySound(u)'
<1>1. entered[u] = NoConn \/ entered[u] \in Conn
  BY Zenon DEF SessionTypes
<1>2. Overtaken(u, entered[u]) => Overtaken(u, entered[u])'
  BY Zenon DEF Overtaken
<1>3. \/ entered[u] = NoConn \/ sock'[entered[u]] = "closed"
      \/ table[u] = entered[u] \/ Overtaken(u, entered[u])'
  BY <1>1, <1>2, Zenon DEF EntrySound
<1> QED
  BY <1>3, Zenon DEF EntrySound

(* Connections are closed, and given to the collector, and nothing else. *)
LEMMA ShutOvertakes ==
    ASSUME \A c \in Conn : sock[c] = "closed" => sock'[c] = "closed",
           UNCHANGED <<table, entered>>, TableSound,
           coll' \subseteq Conn, collQ' \subseteq Conn,
           \A c \in coll' \cup collQ' : sock'[c] = "closed",
           SessionTypes
    PROVE  TableSound'
<1>1. ASSUME NEW u \in Users
      PROVE  EntrySound(u)'
  <2>1. EntrySound(u)
    BY Zenon DEF TableSound
  <2> QED
    BY <2>1, OvertakenStays, Zenon
<1> QED
  BY <1>1, Zenon DEF TableSound

(* Every step keeps it: connections are only closed, workers enter the     *)
(* connection they answer, and the collector erases an entry for the sake  *)
(* of a connection that is closed and not earlier.                         *)
LEMMA TableSoundKept ==
    ASSUME SessionTypes, SessionTypes', TableSound, [Next]_vars
    PROVE  TableSound'
<1>1. ASSUME UNCHANGED <<sock, table, entered, coll, collQ>>
      PROVE  TableSound'
  <2>1. coll' \subseteq Conn /\ collQ' \subseteq Conn
    BY <1>1, Zenon DEF TableSound
  <2>2. \A c \in coll' \cup collQ' : sock'[c] = "closed"
    BY <1>1, Zenon DEF TableSound
  <2> QED
    BY <1>1, <2>1, <2>2, ShutOvertakes, Zenon
<1>2. ASSUME NEW c \in Conn, Shut(c), UNCHANGED <<table, entered>>
      PROVE  TableSound'
  <2>1. /\ sock'[c] = "closed" /\ \A d \in Conn : d # c => sock'[d] = sock[d]
        /\ coll' = coll /\ collQ' \subseteq collQ \cup {c}
    BY <1>2, Zenon DEF Shut, Collected, SessionTypes
  <2>2. coll' \subseteq Conn /\ collQ' \subseteq Conn
    BY <2>1, Zenon DEF TableSound
  <2>3. \A d \in Conn : sock[d] = "closed" => sock'[d] = "closed"
    BY <2>1, Zenon
  <2>4. \A d \in coll' \cup collQ' : d = c \/ (d \in Conn /\ sock[d] = "closed")
    BY <2>1, Zenon DEF TableSound
  <2>5. \A d \in coll' \cup collQ' : sock'[d] = "closed"
    BY <2>1, <2>3, <2>4, Zenon
  <2> QED
    BY <1>2, <2>2, <2>3, <2>5, ShutOvertakes, Zenon
<1>3. ASSUME NEW c \in Conn, Write(c)
      PROVE  TableSound'
  <2>1. UNCHANGED <<table, entered>> /\ (Shut(c) \/ UNCHANGED <<sock, coll, collQ>>)
    BY <1>3, Zenon DEF Write, tables, pending
  <2> QED
    BY <1>1, <1>2, <2>1, Zenon
<1>4. ASSUME NEW c \in Conn, Leave(c)
      PROVE  TableSound'
  BY <1>2, <1>4, Zenon DEF Leave, tables
<1>5. ASSUME NEW c \in Conn, Read(c) \/ \E f \in Frame : Send(c, f)
      PROVE  TableSound'
  BY <1>1, <1>5, Zenon DEF Read, Send, tables, pending
<1>6. CASE Push
  <2>1. PICK r : r = Head(routeQ)
    OBVIOUS
  <2>2. /\ r.conn \in Conn /\ UNCHANGED <<sock, table, entered>>
    BY <1>6, <2>1, PushDone, Zenon
  <2>3. coll' = coll /\ (collQ' = collQ \/ (sock[r.conn] # "open" /\ collQ' \subseteq collQ \cup {r.conn}))
    BY <1>6, <2>1, Zenon DEF Push, Collected
  <2>4. sock[r.conn] # "open" => sock[r.conn] = "closed"
    BY <2>2 DEF SessionTypes
  <2>5. coll' \subseteq Conn /\ collQ' \subseteq Conn
    BY <2>2, <2>3, Zenon DEF TableSound
  <2>6. \A d \in coll' \cup collQ' : sock'[d] = "closed"
    BY <2>2, <2>3, <2>4, Zenon DEF TableSound
  <2> QED
    BY <2>2, <2>5, <2>6, ShutOvertakes, Zenon
<1>7. ASSUME NEW w \in Worker, Get(w)
      PROVE  TableSound'
  BY <1>1, <1>7, Zenon DEF Get, tables, pending
<1>8. ASSUME NEW w \in Worker, AuthStep(w) \/ AppStep(w)
      PROVE  TableSound'
  <2>1. PICK d \in Deeds : Does(w, d)
    BY <1>8, WorkerDeed, Zenon
  <2>2. /\ \/ UNCHANGED <<table, entered>>
           \/ /\ table'[User[M(w).conn]] = M(w).conn /\ entered'[User[M(w).conn]] = M(w).conn
              /\ \A u \in Users : u # User[M(w).conn]
                                   => table'[u] = table[u] /\ entered'[u] = entered[u]
        /\ UNCHANGED <<sock, coll, collQ>>
    BY <2>1, DeedDone, Zenon DEF Does
  <2>3. CASE UNCHANGED <<table, entered>>
    BY <1>1, <2>2, <2>3, Zenon
  <2>4. CASE /\ table'[User[M(w).conn]] = M(w).conn /\ entered'[User[M(w).conn]] = M(w).conn
             /\ \A u \in Users : u # User[M(w).conn]
                                  => table'[u] = table[u] /\ entered'[u] = entered[u]
    <3>1. ASSUME NEW u \in Users
          PROVE  EntrySound(u)'
      <4>1. CASE u = User[M(w).conn]
        BY <2>4, <4>1, Zenon DEF EntrySound
      <4>2. CASE u # User[M(w).conn]
        <5>1. EntrySound(u) /\ table'[u] = table[u] /\ entered'[u] = entered[u]
          BY <2>4, <4>2, Zenon DEF TableSound
        <5>2. \A c \in Conn : sock[c] = "closed" => sock'[c] = "closed"
          BY <2>2, Zenon
        <5> QED
          BY <5>1, <5>2, OvertakenStays
      <4> QED
        BY <4>1, <4>2
    <3> QED
      BY <2>2, <3>1, Zenon DEF TableSound
  <2> QED
    BY <2>2, <2>3, <2>4, Zenon
<1>9. CASE Collector
  <2>1. /\ UNCHANGED <<sock, entered>> /\ collQ' \subseteq collQ /\ coll' \subseteq coll \cup collQ
        /\ \A u \in Users : \/ table'[u] = table[u]
                            \/ /\ table'[u] = NoConn
                               /\ \E c \in coll : User[c] = u /\ c >= table[u]
    BY <1>9, CollectorDone, Zenon
  <2>2. ASSUME NEW u \in Users
        PROVE  EntrySound(u)'
    <3>1. EntrySound(u) /\ entered'[u] = entered[u] /\ sock' = sock
      BY <2>1, Zenon DEF TableSound
    <3>2. CASE table'[u] = table[u]
      BY <3>1, <3>2, OvertakenStays
    <3>3. ASSUME table'[u] = NoConn, NEW c \in coll, User[c] = u, c >= table[u]
          PROVE  EntrySound(u)'
      <4>1. sock[c] = "closed" /\ c \in Conn
        BY Zenon DEF TableSound
      <4>2. \/ entered[u] = NoConn \/ sock[entered[u]] = "closed"
            \/ Overtaken(u, entered[u])
        <5>1. CASE table[u] # entered[u]
          BY <3>1, <5>1, Zenon DEF EntrySound
        <5>2. CASE table[u] = entered[u] /\ entered[u] # NoConn /\ sock[entered[u]] # "closed"
          <6>1. entered[u] # c /\ entered[u] \in Conn
            BY <4>1, <5>2, Zenon DEF SessionTypes
          <6>2. c > entered[u]
            <7>1. c \in Nat /\ entered[u] \in Nat
              BY <4>1, <6>1, SessionAssumption, Zenon
            <7>2. c >= entered[u]
              BY <3>3, <5>2, Zenon
            <7> QED
              BY <6>1, <7>1, <7>2
          <6> QED
            BY <3>3, <4>1, <6>2, Zenon DEF Overtaken
        <5> QED
          BY <5>1, <5>2, Zenon
      <4>3. Overtaken(u, entered[u]) => Overtaken(u, entered[u])'
        BY <3>1, Zenon DEF Overtaken
      <4> QED
        BY <3>1, <3>3, <4>2, <4>3, Zenon DEF EntrySound
    <3> QED
      BY <2>1, <3>2, <3>3, Zenon
  <2>3. coll' \subseteq Conn /\ collQ' \subseteq Conn
    BY <2>1, Zenon DEF TableSound
  <2>4. \A d \in coll' \cup collQ' : sock'[d] = "closed"
    BY <2>1, Zenon DEF TableSound
  <2> QED
    BY <2>2, <2>3, <2>4, Zenon DEF TableSound
<1>10. CASE UNCHANGED vars
  BY <1>1, <1>10, Zenon DEF vars
<1> QED
  BY <1>3, <1>4, <1>5, <1>6, <1>7, <1>8, <1>9, <1>10, Zenon DEF Next, Server, Work, Refuse

(* The user of a client that has the answer to its login was entered in    *)
(* the table, in every state of every session; and as long as the          *)
(* connection entered last is open, the table has it, unless a connection  *)
(* of the user that was accepted later is closed: workers enter the        *)
(* connection before they answer, and the collector erases no entry for    *)
(* an earlier connection (table_local.h getOrUnset).                       *)
THEOREM AnsweredUsersRouted == Spec => []AnsweredIsRouted
<1>init. Init => SessionTypes /\ Vouched /\ TableSound
  <2> SUFFICES ASSUME Init
               PROVE  SessionTypes /\ Vouched /\ TableSound
    OBVIOUS
  <2>1. \A w \in Worker : ~At(w, "reply")
    BY InitialTypes DEF At, Idle
  <2>2. TableSound
    BY Zenon DEF Init, TableSound, EntrySound, Users
  <2> QED
    BY <2>1, <2>2, InitialTypes, NoneIn, Zenon DEF Vouched
<1>step. SessionTypes /\ Vouched /\ TableSound /\ [Next]_vars
            => (SessionTypes /\ Vouched /\ TableSound)'
  BY TypesKept, VouchedKept, TableSoundKept
<1>routed. SessionTypes /\ Vouched /\ TableSound => AnsweredIsRouted
  <2> SUFFICES ASSUME SessionTypes, Vouched, TableSound
               PROVE  AnsweredIsRouted
    OBVIOUS
  <2>1. \A c \in Conn : Got(c, "auth") \/ Got(c, "touch") => entered[User[c]] # NoConn
    <3> SUFFICES ASSUME NEW c \in Conn, Got(c, "auth") \/ Got(c, "touch")
                 PROVE  entered[User[c]] # NoConn
      OBVIOUS
    <3>1. PICK i \in DOMAIN inbox[c] : inbox[c][i].kind \in Vouching
      BY DEF Got, Vouching
    <3>2. In(inbox[c][i], inbox[c])
      BY Zenon DEF In
    <3> QED
      BY <3>1, <3>2, Zenon DEF Vouched
  <2>2. \A i \in DOMAIN routeQ : routeQ[i].kind \in {"auth", "touch", "again", "ack", "close"}
    <3> SUFFICES ASSUME NEW i \in DOMAIN routeQ
                 PROVE  routeQ[i].kind \in {"auth", "touch", "again", "ack", "close"}
      OBVIOUS
    <3>1. routeQ[i] \in Reply
      BY DEF SessionTypes
    <3> QED
      BY <3>1 DEF Reply, Kind
  <2>3. \A w \in Worker : \/ worker[w] = Idle
                          \/ worker[w][1] \in {"process", "reply", "publish", "dispatch"}
    BY DEF SessionTypes, Steps
  <2>4. state \in [Conn -> INIT_STATE..MSG_STATE]
    BY DEF SessionTypes, INIT_STATE, MSG_STATE
  <2>5. \A u \in DOMAIN table : {table[u], entered[u]} \subseteq Conn \cup {NoConn}
    BY Zenon DEF SessionTypes
  <2>6. coll \cup collQ \subseteq {c \in Conn : sock[c] = "closed"}
    BY Zenon DEF TableSound
  <2>7. \A c \in Conn : sock[c] = "closed" => rx[c] = <<>> /\ plist[c] = <<>>
    BY Zenon DEF SessionTypes
  <2>8. TypeOK
    BY <2>2, <2>3, <2>4, <2>5, <2>6, <2>7, Zenon DEF TypeOK, SessionTypes
  <2>9. ASSUME NEW u \in DOMAIN table, entered[u] # NoConn, sock[entered[u]] = "open"
        PROVE  \/ table[u] = entered[u]
               \/ \E d \in Conn : d > entered[u] /\ User[d] = u /\ sock[d] = "closed"
    <3>1. sock[entered[u]] # "closed" /\ u \in Users
      BY <2>9 DEF SessionTypes
    <3> QED
      BY <2>9, <3>1, Zenon DEF TableSound, EntrySound, Overtaken
  <2> QED
    BY <2>1, <2>8, <2>9, Zenon DEF AnsweredIsRouted
<1> QED
  BY <1>init, <1>step, <1>routed, PTL DEF Spec

-----------------------------------------------------------------------------
(* A login that is answered has switched the session.                      *)
Switched ==
    /\ \A r : In(r, routeQ) /\ r.kind = "auth" => r.state = MSG_STATE
    /\ \A c \in Conn : \A r : (In(r, plist[c]) \/ In(r, inbox[c])) /\ r.kind = "auth"
                                => state[c] = MSG_STATE

(* What a polite client sends is its login, or legal once it is logged in. *)
Mannered(c, f) ==
    /\ f \in Frame /\ Legal(f) /\ f.type # "OTHER"
    /\ Login(f) \/ \E r : In(r, inbox[c]) /\ r.kind = "auth"

(* PoliteNeverKicked is about the end of the way of a frame.  On the way   *)
(* the frame is stamped with a state in which its worker will accept it.   *)
PoliteWay ==
    /\ \A c \in Polite : \A f : In(f, rx[c]) => Mannered(c, f)
    /\ \A m : In(m, authQ) /\ m.conn \in Polite => AuthAccepts(m)
    /\ \A m : In(m, appQ) /\ m.conn \in Polite => AppAccepts(m)
    /\ \A w \in Worker : At(w, "process") /\ M(w).conn \in Polite => ~Refused(w)
    /\ \A r : In(r, routeQ) /\ r.conn \in Polite => r.kind # "close"
    /\ \A c \in Polite : \A r : In(r, plist[c]) => r.kind # "close"

(* The IO thread switches the session when it takes the answer over. *)
LEMMA SwitchedKept ==
    ASSUME SessionTypes, Switched, [Next]_vars
    PROVE  Switched'
<1>same. ASSUME UNCHANGED <<state, routeQ, inbox>>,
                \A c \in Conn : \A r : In(r, plist'[c]) => In(r, plist[c])
         PROVE  Switched'
  BY <1>same, Zenon DEF Switched
<1>shut. ASSUME NEW c \in Conn, Shut(c)
         PROVE  \A d \in Conn : \A r : In(r, plist'[d]) => In(r, plist[d])
  <2>1. plist'[c] = <<>> /\ \A d \in Conn : d # c => plist'[d] = plist[d]
    BY <1>shut, Zenon DEF Shut, SessionTypes
  <2> QED
    BY <2>1, NoneIn, Zenon
<1>write. ASSUME NEW c \in Conn, Write(c)
          PROVE  Switched'
  <2>1. CASE Shut(c) /\ UNCHANGED inbox
    BY <1>write, <1>same, <1>shut, <2>1, WriteDone, Zenon
  <2>2. CASE ~(Shut(c) /\ UNCHANGED inbox)
    <3>1. /\ UNCHANGED <<state, routeQ>>
          /\ \A d \in Conn : d # c => plist'[d] = plist[d] /\ inbox'[d] = inbox[d]
          /\ \A x : In(x, plist'[c]) => In(x, plist[c])
          /\ \A x : In(x, inbox'[c]) => In(x, inbox[c]) \/ In(x, plist[c])
      BY <1>write, <2>2, WriteDone, Zenon
    <3> QED
      BY <3>1, Zenon DEF Switched
  <2> QED
    BY <2>1, <2>2
<1>push. ASSUME Push
         PROVE  Switched'
  <2>1. PICK r : /\ In(r, routeQ) /\ r.conn \in Conn
                 /\ \A x : In(x, routeQ') => In(x, routeQ)
                 /\ UNCHANGED inbox
                 /\ \A d \in Conn : d # r.conn => plist'[d] = plist[d]
                 /\ \A d \in Conn : d # r.conn \/ r.kind # "auth" => state'[d] = state[d]
                 /\ \/ /\ r.kind = "auth" => state'[r.conn] = r.state
                       /\ \A x : In(x, plist'[r.conn]) => In(x, plist[r.conn]) \/ x = r
                    \/ UNCHANGED <<state, plist>>
    BY <1>push, PushDone, Zenon
  <2>2. r.kind = "auth" => r.state = MSG_STATE
    BY <2>1, Zenon DEF Switched
  <2>3. \A d \in Conn : state[d] = MSG_STATE => state'[d] = MSG_STATE
    BY <2>1, <2>2, Zenon
  <2>4. \A d \in Conn : \A x : In(x, plist'[d]) /\ x.kind = "auth" => state'[d] = MSG_STATE
    BY <2>1, <2>2, <2>3, Zenon DEF Switched
  <2> QED
    BY <2>1, <2>3, <2>4, Zenon DEF Switched
<1>work. ASSUME NEW w \in Worker, AuthStep(w) \/ AppStep(w)
         PROVE  Switched'
  <2>1. PICK d \in Deeds : Does(w, d)
    BY <1>work, WorkerDeed, Zenon
  <2>2. /\ M(w) \in Message
        /\ d[3] = "none" => UNCHANGED routeQ
        /\ d[3] # "none" => d[3] \in Kind /\ Answered(w, d[3], StateFor(d[3]))
        /\ UNCHANGED <<state, plist, inbox>>
    BY <2>1, DeedDone, Zenon DEF Does
  <2>3. \A r : In(r, routeQ') /\ r.kind = "auth" => r.state = MSG_STATE
    <3> SUFFICES ASSUME NEW r, In(r, routeQ'), r.kind = "auth"
                 PROVE  r.state = MSG_STATE
      OBVIOUS
    <3>1. CASE In(r, routeQ)
      BY <3>1, Zenon DEF Switched
    <3>2. CASE ~In(r, routeQ)
      <4>1. d[3] # "none" /\ d[3] \in Kind /\ r = Answer(M(w), d[3], StateFor(d[3]))
        BY <2>2, <3>2, Zenon DEF Answered
      <4>2. r.kind = d[3] /\ r.state = StateFor(d[3])
        BY <2>2, <4>1, AnswerIs, Zenon DEF StateFor
      <4> QED
        BY <4>2, Zenon DEF StateFor
    <3> QED
      BY <3>1, <3>2
  <2> QED
    BY <2>2, <2>3, Zenon DEF Switched
<1>get. ASSUME NEW w \in Worker, Get(w)
        PROVE  Switched'
  BY <1>same, <1>get, GetDone, Zenon
<1>collect. CASE Collector
  BY <1>same, <1>collect, CollectorDone, Zenon
<1> QED
  BY <1>same, <1>shut, <1>write, <1>push, <1>work, <1>get, <1>collect, Zenon
  DEF Next, Server, Work, Refuse, vars, Send, Leave, Read

(* The frames of a polite client keep to their way. *)
LEMMA PoliteKept ==
    ASSUME SessionTypes, Switched, PoliteWay, [Next]_vars
    PROVE  PoliteWay'
<1>polite. \A c \in Polite : c \in Conn
  BY SessionAssumption
<1>mannered. ASSUME NEW c \in Conn, NEW f, Mannered(c, f),
                    \A r : In(r, inbox[c]) => In(r, inbox'[c])
             PROVE  Mannered(c, f)'
  BY <1>mannered, Zenon DEF Mannered, Legal, Login
<1>queues. ASSUME UNCHANGED <<authQ, appQ, worker, routeQ, inbox>>,
                  \A c \in Conn : \A r : In(r, plist'[c]) => In(r, plist[c]),
                  \A c \in Polite : \A f : In(f, rx'[c]) => Mannered(c, f)
           PROVE  PoliteWay'
  <2>1. \A c \in Polite : \A f : In(f, rx'[c]) => Mannered(c, f)'
    BY <1>polite, <1>queues, <1>mannered, Zenon
  <2>2. \A w \in Worker : At(w, "process")' /\ M(w)'.conn \in Polite => ~Refused(w)'
    BY <1>queues, Zenon DEF PoliteWay, At, M, Refused
  <2>3. /\ \A m : In(m, authQ') /\ m.conn \in Polite => AuthAccepts(m)
        /\ \A m : In(m, appQ') /\ m.conn \in Polite => AppAccepts(m)
        /\ \A r : In(r, routeQ') /\ r.conn \in Polite => r.kind # "close"
        /\ \A c \in Polite : \A r : In(r, plist'[c]) => r.kind # "close"
    BY <1>polite, <1>queues, Zenon DEF PoliteWay
  <2> QED
    BY <2>1, <2>2, <2>3, Zenon DEF PoliteWay
<1>shut. ASSUME NEW c \in Conn, Shut(c)
         PROVE  /\ \A d \in Conn : \A r : In(r, plist'[d]) => In(r, plist[d])
                /\ \A d \in Conn : \A f : In(f, rx'[d]) => In(f, rx[d])
  <2>1. /\ plist'[c] = <<>> /\ \A d \in Conn : d # c => plist'[d] = plist[d]
        /\ rx'[c] = <<>> /\ \A d \in Conn : d # c => rx'[d] = rx[d]
    BY <1>shut, Zenon DEF Shut, SessionTypes
  <2> QED
    BY <2>1, NoneIn, Zenon
<1>send. ASSUME NEW c \in Conn, NEW f \in Frame, Send(c, f)
         PROVE  PoliteWay'
  <2>1. /\ rx \in [Conn -> Seq(Frame)] /\ rx' = [rx EXCEPT ![c] = Append(rx[c], f)]
        /\ UNCHANGED <<authQ, appQ, worker, routeQ, inbox, plist>> /\ MaySend(c, f)
    BY <1>send, Zenon DEF SessionTypes, Send
  <2>2. rx'[c] = Append(rx[c], f) /\ \A d \in Conn : d # c => rx'[d] = rx[d]
    BY <2>1, Zenon
  <2>3. \A g : In(g, rx'[c]) => In(g, rx[c]) \/ g = f
    BY <2>1, <2>2, AppendIn
  <2>4. c \in Polite => Mannered(c, f)
    <3>1. Login(f) => Legal(f) /\ f.type # "OTHER"
      BY DEF Login
    <3>2. Got(c, "auth") => \E r : In(r, inbox[c]) /\ r.kind = "auth"
      BY Zenon DEF Got, In
    <3> QED
      BY <2>1, <3>1, <3>2, Zenon DEF MaySend, Mannered
  <2>5. \A d \in Polite : \A g : In(g, rx'[d]) => Mannered(d, g)
    BY <1>polite, <2>2, <2>3, <2>4, Zenon DEF PoliteWay
  <2> QED
    BY <1>queues, <2>1, <2>5, Zenon
<1>leave. ASSUME NEW c \in Conn, Leave(c)
          PROVE  PoliteWay'
  <2>1. \A d \in Polite : \A f : In(f, rx'[d]) => Mannered(d, f)
    BY <1>polite, <1>shut, <1>leave, Zenon DEF Leave, PoliteWay
  <2> QED
    BY <1>queues, <1>shut, <1>leave, <2>1, Zenon DEF Leave
<1>read. ASSUME NEW c \in Conn, Read(c)
         PROVE  PoliteWay'
  <2>1. PICK m \in Message :
              /\ m.conn = c /\ m.frame = Head(rx[c])
              /\ \/ /\ state[c] # MSG_STATE /\ m.state = AUTH_STATE
                    /\ authQ' = Append(authQ, m) /\ appQ' = appQ
                 \/ /\ state[c] = MSG_STATE /\ m.state = MSG_STATE
                    /\ appQ' = Append(appQ, m) /\ authQ' = authQ
    BY <1>read, ReadDone, Zenon
  <2>2. /\ rx \in [Conn -> Seq(Frame)] /\ rx[c] \in Seq(Frame) /\ rx[c] # <<>>
        /\ rx' = [rx EXCEPT ![c] = Tail(rx[c])]
        /\ authQ \in Seq(Message) /\ appQ \in Seq(Message)
        /\ UNCHANGED <<worker, routeQ, plist, inbox>>
    BY <1>read, Zenon DEF SessionTypes, Read
  <2>3. \A f : In(f, rx[c]) <=> f = Head(rx[c]) \/ In(f, Tail(rx[c]))
    BY <2>2, TailIn
  <2>4. \A d \in Conn : \A f : In(f, rx'[d]) => In(f, rx[d])
    BY <2>2, <2>3, Zenon
  <2>5. c \in Polite => Mannered(c, m.frame)
    BY <2>1, <2>3, Zenon DEF PoliteWay
  <2>6. ASSUME c \in Polite, m.state = AUTH_STATE, state[c] # MSG_STATE
        PROVE  AuthAccepts(m)
    <3>1. Login(m.frame)
      BY <2>5, <2>6, Zenon DEF Mannered, Switched
    <3> QED
      BY <2>6, <3>1, Zenon DEF Login, Legal, AuthAccepts, auth, checkTimeStamp
  <2>7. ASSUME c \in Polite, m.state = MSG_STATE
        PROVE  AppAccepts(m)
    <3>1. m.frame.type \in {"TOUCH", "MSG", "AUTH", "OTHER"}
      BY <2>5, <2>7, SessionAssumption DEF Mannered
    <3> QED
      BY <2>5, <2>7, <3>1, Zenon DEF Mannered, Legal, AppAccepts, checkTimeStamp
  <2>8. \A d \in Polite : \A f : In(f, rx'[d]) => Mannered(d, f)'
    BY <1>polite, <1>mannered, <2>2, <2>4, Zenon DEF PoliteWay
  <2>9. /\ \A x : In(x, authQ') /\ x.conn \in Polite => AuthAccepts(x)
        /\ \A x : In(x, appQ') /\ x.conn \in Polite => AppAccepts(x)
    <3>1. \A x : /\ In(x, Append(authQ, m)) => In(x, authQ) \/ x = m
                 /\ In(x, Append(appQ, m)) => In(x, appQ) \/ x = m
      BY <2>2, AppendIn
    <3> QED
      BY <2>1, <2>6, <2>7, <3>1, Zenon DEF PoliteWay
  <2> QED
    BY <2>2, <2>8, <2>9, Zenon DEF PoliteWay, At, M, Refused
<1>write. ASSUME NEW c \in Conn, Write(c)
          PROVE  PoliteWay'
  <2>1. CASE Shut(c) /\ UNCHANGED inbox
    <3>1. \A d \in Polite : \A f : In(f, rx'[d]) => Mannered(d, f)
      BY <1>polite, <1>shut, <2>1, Zenon DEF PoliteWay
    <3> QED
      BY <1>write, <1>queues, <1>shut, <2>1, <3>1, WriteDone, Zenon
  <2>2. CASE ~(Shut(c) /\ UNCHANGED inbox)
    <3>1. /\ UNCHANGED <<authQ, appQ, worker, routeQ, rx>>
          /\ \A d \in Conn : d # c => plist'[d] = plist[d] /\ inbox'[d] = inbox[d]
          /\ \A x : In(x, plist'[c]) => In(x, plist[c])
          /\ \A x : In(x, inbox[c]) => In(x, inbox'[c])
      BY <1>write, <2>2, WriteDone, Zenon
    <3>2. \A d \in Polite : \A f : In(f, rx'[d]) => Mannered(d, f)'
      BY <1>polite, <1>mannered, <3>1, Zenon DEF PoliteWay
    <3>3. \A d \in Polite : \A r : In(r, plist'[d]) => r.kind # "close"
      BY <1>polite, <3>1, Zenon DEF PoliteWay
    <3> QED
      BY <3>1, <3>2, <3>3, Zenon DEF PoliteWay, At, M, Refused
  <2> QED
    BY <2>1, <2>2
<1>push. ASSUME Push
         PROVE  PoliteWay'
  <2>1. PICK r : /\ In(r, routeQ) /\ r.conn \in Conn
                 /\ \A x : In(x, routeQ') => In(x, routeQ)
                 /\ UNCHANGED <<rx, authQ, appQ, worker, inbox>>
                 /\ \A d \in Conn : d # r.conn => plist'[d] = plist[d]
                 /\ \/ \A x : In(x, plist'[r.conn]) => In(x, plist[r.conn]) \/ x = r
                    \/ UNCHANGED plist
    BY <1>push, PushDone, Zenon
  <2>2. \A d \in Polite : \A x : In(x, plist'[d]) => x.kind # "close"
    BY <1>polite, <2>1, Zenon DEF PoliteWay
  <2>3. \A d \in Polite : \A f : In(f, rx'[d]) => Mannered(d, f)'
    BY <1>polite, <1>mannered, <2>1, Zenon DEF PoliteWay
  <2> QED
    BY <2>1, <2>2, <2>3, Zenon DEF PoliteWay, At, M, Refused
<1>get. ASSUME NEW w \in Worker, Get(w)
        PROVE  PoliteWay'
  <2>1. PICK m \in Message :
              /\ worker'[w] = <<"process", m>>
              /\ \A v \in Worker : v # w => worker'[v] = worker[v]
              /\ UNCHANGED <<rx, routeQ, plist, inbox>>
              /\ \/ w \in AuthWorker /\ In(m, authQ)
                 \/ w \in AppWorker /\ In(m, appQ)
              /\ \A x : In(x, authQ') => In(x, authQ)
              /\ \A x : In(x, appQ') => In(x, appQ)
    BY <1>get, GetDone, Zenon
  <2>2. M(w)' = m
    BY <2>1 DEF M
  <2>3. w \in AuthWorker => w \notin AppWorker
    BY SessionAssumption
  <2>4. m.conn \in Polite => ~Refused(w)'
    BY <2>1, <2>2, <2>3, Zenon DEF PoliteWay, Refused
  <2>5. \A v \in Worker : v # w => (At(v, "process")' <=> At(v, "process"))
                                   /\ M(v)' = M(v) /\ (Refused(v)' <=> Refused(v))
    BY <2>1, Zenon DEF At, M, Refused
  <2>6. \A v \in Worker : At(v, "process")' /\ M(v)'.conn \in Polite => ~Refused(v)'
    BY <2>2, <2>4, <2>5, Zenon DEF PoliteWay
  <2>7. \A d \in Polite : \A f : In(f, rx'[d]) => Mannered(d, f)'
    BY <1>polite, <1>mannered, <2>1, Zenon DEF PoliteWay
  <2> QED
    BY <2>1, <2>6, <2>7, Zenon DEF PoliteWay
<1>work. ASSUME NEW w \in Worker, AuthStep(w) \/ AppStep(w)
         PROVE  PoliteWay'
  <2>1. PICK d \in Deeds : Does(w, d)
    BY <1>work, WorkerDeed, Zenon
  <2>2. /\ M(w) \in Message /\ worker[w] = <<d[1], M(w)>>
        /\ worker'[w] = IF d[2] = "idle" THEN Idle ELSE <<d[2], M(w)>>
        /\ \A v \in Worker : v # w => worker'[v] = worker[v]
        /\ d[3] = "none" => UNCHANGED routeQ
        /\ d[3] # "none" => d[3] \in Kind /\ Answered(w, d[3], StateFor(d[3]))
        /\ UNCHANGED <<rx, authQ, appQ, plist, inbox>>
        /\ d[3] = "close" => Refused(w)
    BY <2>1, DeedDone, Zenon DEF Does
  <2>3. d[2] # "process" /\ (d[3] = "close" => d[1] = "process")
    BY DEF Deeds
  <2>4. ~At(w, "process")'
    BY <2>2, <2>3 DEF At, Idle
  <2>5. \A v \in Worker : v # w => (At(v, "process")' <=> At(v, "process"))
                                   /\ M(v)' = M(v) /\ (Refused(v)' <=> Refused(v))
    BY <2>2, Zenon DEF At, M, Refused
  <2>6. \A v \in Worker : At(v, "process")' /\ M(v)'.conn \in Polite => ~Refused(v)'
    BY <2>4, <2>5, Zenon DEF PoliteWay
  <2>7. \A r : In(r, routeQ') /\ r.conn \in Polite => r.kind # "close"
    <3> SUFFICES ASSUME NEW r, In(r, routeQ'), r.conn \in Polite, r.kind = "close"
                 PROVE  FALSE
      OBVIOUS
    <3>1. ~In(r, routeQ)
      BY Zenon DEF PoliteWay
    <3>2. d[3] # "none" /\ d[3] \in Kind /\ r = Answer(M(w), d[3], StateFor(d[3]))
      BY <2>2, <3>1, Zenon DEF Answered
    <3>3. r.kind = d[3] /\ r.conn = M(w).conn
      BY <2>2, <3>2, AnswerIs, Zenon DEF StateFor
    <3>4. At(w, "process")
      BY <2>2, <2>3, <3>3 DEF At
    <3> QED
      BY <2>2, <3>3, <3>4, Zenon DEF PoliteWay
  <2>8. \A c \in Polite : \A f : In(f, rx'[c]) => Mannered(c, f)'
    BY <1>polite, <1>mannered, <2>2, Zenon DEF PoliteWay
  <2> QED
    BY <2>2, <2>6, <2>7, <2>8, Zenon DEF PoliteWay
<1>stutter. CASE UNCHANGED vars
  BY <1>queues, <1>stutter, Zenon DEF vars, PoliteWay
<1>collect. CASE Collector
  BY <1>queues, <1>collect, CollectorDone, Zenon DEF PoliteWay
<1> QED
  BY <1>send, <1>leave, <1>read, <1>write, <1>push, <1>get, <1>work, <1>stutter, <1>collect,
     Zenon
  DEF Next, Server, Work, Refuse

(* A client that logs in, waits for the answer and sends legal frames then *)
(* is never kicked, however many workers answer its frames and in whatever *)
(* order: no answer that closes its connection is ever made.               *)
THEOREM PoliteClientsStay == Spec => []PoliteNeverKicked
<1>init. Init => SessionTypes /\ Switched /\ PoliteWay
  <2> SUFFICES ASSUME Init
               PROVE  SessionTypes /\ Switched /\ PoliteWay
    OBVIOUS
  <2>1. \A w \in Worker : ~At(w, "process")
    BY InitialTypes DEF At, Idle
  <2>2. \A c \in Polite : c \in Conn
    BY SessionAssumption
  <2> QED
    BY <2>1, <2>2, InitialTypes, NoneIn, Zenon DEF Switched, PoliteWay
<1>step. SessionTypes /\ Switched /\ PoliteWay /\ [Next]_vars
            => (SessionTypes /\ Switched /\ PoliteWay)'
  BY TypesKept, SwitchedKept, PoliteKept, Zenon
<1>polite. PoliteWay => PoliteNeverKicked
  BY Zenon DEF PoliteWay, PoliteNeverKicked, In
<1> QED
  BY <1>init, <1>step, <1>polite, PTL DEF Spec

-----------------------------------------------------------------------------
(* OneAnswer is about the answers.  Before it is answered, a frame is one  *)
(* message: in the queue of a cluster, or with a worker that owes it an    *)
(* answer.  A frame is known by its connection and its number.             *)
Key(x) == <<x.conn, x.n>>
Keys == Conn \X Nat
Place == {"none", "authQ", "appQ", "worker", "routeQ", "plist", "inbox"}

Taken(c) == sent[c] - Len(rx[c])
Known == {k \in Keys : k[2] \in 1..Taken(k[1])}

Owes(w) == At(w, "process") \/ At(w, "reply")

(* The list s holds frames of K only, all of which are at the place p; and *)
(* none of them twice.                                                     *)
AllAt(s, at, p, K) == \A x : In(x, s) => Key(x) \in K /\ at[Key(x)] = p
Lacks(s, k) == \A x : In(x, s) => Key(x) # k
Once(s) == \A i, j \in DOMAIN s : Key(s[i]) = Key(s[j]) => i = j

(* The frame k is moved to the place q. *)
Moved(at, k, q) == [at EXCEPT ![k] = q]

Placed(at) ==
    /\ at \in [Keys -> Place]
    /\ AllAt(authQ, at, "authQ", Known) /\ AllAt(appQ, at, "appQ", Known)
    /\ AllAt(routeQ, at, "routeQ", Known)
    /\ \A c \in Conn : AllAt(plist[c], at, "plist", Known) /\ AllAt(inbox[c], at, "inbox", Known)
    /\ \A w \in Worker : Owes(w) => Key(M(w)) \in Known /\ at[Key(M(w))] = "worker"

Single ==
    /\ Once(authQ) /\ Once(appQ) /\ Once(routeQ)
    /\ \A c \in Conn : Once(plist[c]) /\ Once(inbox[c])
    /\ \A c \in Conn : \A r : In(r, plist[c]) \/ In(r, inbox[c]) => r.conn = c
    /\ \A v, w \in Worker : Owes(v) /\ Owes(w) /\ Key(M(v)) = Key(M(w)) => v = w

OnePlace == Single /\ \E at : Placed(at)

(* A frame that is nowhere in a list can be moved without regard to it. *)
LEMMA StaysAt ==
    ASSUME NEW K \in SUBSET Keys, NEW L, K \subseteq L, NEW at \in [Keys -> Place],
           NEW p, NEW q, NEW k, NEW s, AllAt(s, at, p, K), Lacks(s, k),
           NEW b, b = Moved(at, k, q)
    PROVE  AllAt(s, b, p, L)
  BY DEF AllAt, Lacks, Moved

(* A frame is appended to a list. *)
LEMMA JoinsList ==
    ASSUME NEW K \in SUBSET Keys, NEW L \in SUBSET Keys, K \subseteq L,
           NEW at \in [Keys -> Place], NEW p, NEW S, NEW s \in Seq(S), NEW x \in S,
           AllAt(s, at, p, K), Lacks(s, Key(x)), Once(s), Key(x) \in L,
           NEW b, b = Moved(at, Key(x), p)
    PROVE  /\ AllAt(Append(s, x), b, p, L)
           /\ Once(Append(s, x))
<1>1. \A y : In(y, Append(s, x)) <=> In(y, s) \/ y = x
  BY AppendIn
<1>2. AllAt(s, b, p, L)
  BY StaysAt
<1>3. b[Key(x)] = p
  BY DEF Moved
<1>4. AllAt(Append(s, x), b, p, L)
  BY <1>1, <1>2, <1>3, Zenon DEF AllAt
<1>5. /\ Len(s) \in Nat /\ DOMAIN s = 1..Len(s) /\ DOMAIN Append(s, x) = 1..(Len(s) + 1)
      /\ Append(s, x)[Len(s) + 1] = x
      /\ \A i \in 1..Len(s) : Append(s, x)[i] = s[i]
      /\ \A i \in 1..(Len(s) + 1) : i \in 1..Len(s) \/ i = Len(s) + 1
  OBVIOUS
<1>6. \A i \in DOMAIN s : Key(s[i]) # Key(x)
  BY Zenon DEF Lacks, In
<1>7. Once(Append(s, x))
  <2> SUFFICES ASSUME NEW i \in DOMAIN Append(s, x), NEW j \in DOMAIN Append(s, x),
                      Key(Append(s, x)[i]) = Key(Append(s, x)[j])
               PROVE  i = j
    BY Zenon DEF Once
  <2>1. CASE i \in 1..Len(s) /\ j \in 1..Len(s)
    BY <1>5, <2>1, Zenon DEF Once
  <2>2. CASE i = Len(s) + 1 /\ j = Len(s) + 1
    BY <2>2
  <2>3. CASE i = Len(s) + 1 /\ j \in 1..Len(s)
    BY <1>5, <1>6, <2>3, Zenon
  <2>4. CASE i \in 1..Len(s) /\ j = Len(s) + 1
    BY <1>5, <1>6, <2>4, Zenon
  <2> QED
    BY <1>5, <2>1, <2>2, <2>3, <2>4, Zenon
<1> QED
  BY <1>4, <1>7

(* The first frame of a list is taken out. *)
LEMMA LeavesList ==
    ASSUME NEW S, NEW s \in Seq(S), s # <<>>, Once(s)
    PROVE  /\ Lacks(Tail(s), Key(Head(s))) /\ Once(Tail(s))
           /\ \A x : In(x, Tail(s)) => In(x, s)
<1>1. \A x : In(x, Tail(s)) => In(x, s)
  BY TailIn
<1>2. /\ Len(s) \in Nat \ {0} /\ DOMAIN s = 1..Len(s) /\ DOMAIN Tail(s) = 1..(Len(s) - 1)
      /\ Head(s) = s[1] /\ \A i \in 1..(Len(s) - 1) : Tail(s)[i] = s[i + 1]
      /\ \A i \in 1..(Len(s) - 1) : i + 1 \in 1..Len(s) /\ i + 1 # 1
      /\ 1 \in 1..Len(s)
  OBVIOUS
<1>3. Lacks(Tail(s), Key(Head(s)))
  <2> SUFFICES ASSUME NEW i \in 1..(Len(s) - 1), Key(Tail(s)[i]) = Key(Head(s))
               PROVE  FALSE
    BY <1>2, Zenon DEF Lacks, In
  <2>1. Key(s[i + 1]) = Key(s[1]) /\ i + 1 \in DOMAIN s /\ 1 \in DOMAIN s /\ i + 1 # 1
    BY <1>2, Zenon
  <2> QED
    BY <2>1, Zenon DEF Once
<1>5. Once(Tail(s))
  <2> SUFFICES ASSUME NEW i \in 1..(Len(s) - 1), NEW j \in 1..(Len(s) - 1),
                      Key(Tail(s)[i]) = Key(Tail(s)[j])
               PROVE  i = j
    BY <1>2, Zenon DEF Once
  <2>1. i + 1 \in DOMAIN s /\ j + 1 \in DOMAIN s /\ Key(s[i + 1]) = Key(s[j + 1])
    BY <1>2, Zenon
  <2>2. i + 1 = j + 1
    BY <2>1, Zenon DEF Once
  <2> QED
    BY <1>2, <2>2
<1> QED
  BY <1>1, <1>3, <1>5

(* The lists that do not change when a frame that is at another place is   *)
(* moved.                                                                  *)
LEMMA Elsewhere ==
    ASSUME NEW at, NEW p, NEW K, NEW s, NEW k, AllAt(s, at, p, K), at[k] # p \/ k \notin K
    PROVE  Lacks(s, k)
  BY Zenon DEF AllAt, Lacks

(* A shorter list. *)
LEMMA FewerAt ==
    ASSUME NEW at, NEW p, NEW K, NEW L, K \subseteq L, NEW s, NEW t, AllAt(s, at, p, K),
           \A x : In(x, t) => In(x, s)
    PROVE  AllAt(t, at, p, L)
  BY Zenon DEF AllAt

(* The keys of messages and answers. *)
LEMMA KeysOf ==
    /\ \A x \in Message \cup Reply : Key(x) \in Keys /\ Key(x)[1] = x.conn /\ Key(x)[2] = x.n
    /\ \A x, y \in Message \cup Reply : Key(x) = Key(y) => x.conn = y.conn /\ x.n = y.n
  BY DEF Key, Keys, Message, Reply

(* What is known of the frames that were read. *)
LEMMA KnownGrows ==
    ASSUME \A c \in Conn : Taken(c) \in Nat /\ Taken(c)' \in Nat /\ Taken(c) <= Taken(c)'
    PROVE  Known \subseteq Known'
<1> SUFFICES ASSUME NEW k \in Keys, k[2] \in 1..Taken(k[1])
             PROVE  k[2] \in 1..Taken(k[1])'
  BY DEF Known
<1>1. k[1] \in Conn /\ k[2] \in Nat
  BY DEF Keys
<1>2. Taken(k[1]) \in Nat /\ Taken(k[1])' \in Nat /\ Taken(k[1]) <= Taken(k[1])'
  BY <1>1, Zenon
<1> QED
  BY <1>1, <1>2

(* A connection has been sent as many frames as were read from it, at      *)
(* least.                                                                  *)
LEMMA CountIs ==
    ASSUME NEW r \in Seq(Frame), NEW n \in 0..MaxFrames, Len(r) <= n
    PROVE  n - Len(r) \in Nat /\ n - Len(r) <= n /\ n \in Nat
<1>1. Len(r) \in Nat /\ MaxFrames \in Nat
  BY SessionAssumption
<1> QED
  BY <1>1

(* The number of the frames that were read, before and after a step. *)
LEMMA TakenIs ==
    ASSUME SessionTypes, SessionTypes', NEW c \in Conn
    PROVE  /\ Taken(c) \in Nat /\ Taken(c) <= sent[c] /\ sent[c] \in Nat
           /\ Taken(c)' \in Nat
<1>1. /\ rx[c] \in Seq(Frame) /\ sent[c] \in 0..MaxFrames /\ Len(rx[c]) <= sent[c]
      /\ rx'[c] \in Seq(Frame) /\ sent'[c] \in 0..MaxFrames /\ Len(rx'[c]) <= sent'[c]
  BY DEF SessionTypes
<1>2. sent'[c] - Len(rx'[c]) \in Nat
  BY <1>1, CountIs
<1>3. /\ sent[c] - Len(rx[c]) \in Nat /\ sent[c] - Len(rx[c]) <= sent[c]
      /\ sent[c] \in Nat
  BY <1>1, CountIs
<1> QED
  BY <1>2, <1>3 DEF Taken

(* A step that only takes frames away. *)
LEMMA NoneAdded ==
    ASSUME OnePlace, Known \subseteq Known', authQ' = authQ, appQ' = appQ,
           \A x : In(x, routeQ') => In(x, routeQ), Once(routeQ'),
           \A c \in Conn : \A x : In(x, plist'[c]) => In(x, plist[c]),
           \A c \in Conn : Once(plist'[c]), inbox' = inbox,
           \A w \in Worker : Owes(w)' => Owes(w) /\ M(w)' = M(w)
    PROVE  OnePlace'
<1>1. PICK at : Placed(at)
  BY Zenon DEF OnePlace
<1>2. \A w \in Worker : Owes(w)' => Key(M(w)') \in Known' /\ at[Key(M(w)')] = "worker"
  BY <1>1, Zenon DEF Placed
<1>3. AllAt(routeQ', at, "routeQ", Known')
  BY <1>1, FewerAt, Zenon DEF Placed
<1>4. AllAt(authQ', at, "authQ", Known') /\ AllAt(appQ', at, "appQ", Known')
  BY <1>1, FewerAt, Zenon DEF Placed
<1>5. \A c \in Conn : AllAt(plist'[c], at, "plist", Known') /\ AllAt(inbox'[c], at, "inbox", Known')
  BY <1>1, FewerAt, Zenon DEF Placed
<1>6. Placed(at)'
  BY <1>1, <1>2, <1>3, <1>4, <1>5, Zenon DEF Placed
<1>7. Single'
  BY Zenon DEF OnePlace, Single
<1> QED
  BY <1>6, <1>7, Zenon DEF OnePlace

(* A list that is not touched when a frame of another place is moved. *)
LEMMA Unmoved ==
    ASSUME NEW K \in SUBSET Keys, NEW L, K \subseteq L, NEW at \in [Keys -> Place],
           NEW p, NEW q, NEW k, NEW s, AllAt(s, at, p, K), at[k] # p \/ k \notin K,
           NEW b, b = Moved(at, k, q)
    PROVE  AllAt(s, b, p, L)
  BY Elsewhere, StaysAt

(* The same for the workers that owe an answer. *)
LEMMA UnmovedWorker ==
    ASSUME NEW at, Placed(at), NEW L, Known \subseteq L, NEW k, NEW q,
           NEW w \in Worker, Owes(w), at[k] # "worker" \/ k \notin Known \/ Key(M(w)) # k,
           NEW b, b = Moved(at, k, q)
    PROVE  Key(M(w)) \in L /\ b[Key(M(w))] = "worker" /\ Key(M(w)) # k
<1>1. Key(M(w)) \in Known /\ at[Key(M(w))] = "worker"
  BY Zenon DEF Placed
<1>2. Key(M(w)) # k
  BY <1>1, Zenon
<1>3. at \in [Keys -> Place] /\ Key(M(w)) \in Keys
  BY <1>1, Zenon DEF Placed, Known
<1>4. b[Key(M(w))] = at[Key(M(w))]
  BY <1>2, <1>3, Zenon DEF Moved
<1> QED
  BY <1>1, <1>2, <1>4, Zenon

(* The number of a frame that is read is new. *)
LEMMA ReadKey ==
    ASSUME SessionTypes, SessionTypes', NEW c \in Conn, Read(c),
           NEW m \in Message, m.conn = c, m.n = sent[c] - Len(rx[c]) + 1
    PROVE  /\ Known \subseteq Known' /\ Known \in SUBSET Keys /\ Known' \in SUBSET Keys
           /\ Key(m) \in Keys /\ Key(m) \notin Known /\ Key(m) \in Known'
<1>1. /\ rx \in [Conn -> Seq(Frame)] /\ rx[c] # <<>> /\ rx' = [rx EXCEPT ![c] = Tail(rx[c])]
      /\ sent' = sent
  BY Zenon DEF SessionTypes, Read
<1>2. Len(rx[c]) \in Nat \ {0} /\ Len(Tail(rx[c])) = Len(rx[c]) - 1
  BY <1>1, TailIn
<1>3. Len(rx'[c]) = Len(rx[c]) - 1 /\ \A d \in Conn : d # c => Len(rx'[d]) = Len(rx[d])
  BY <1>1, <1>2
<1>4. /\ sent[c] \in Nat
      /\ \A d \in Conn : Taken(d) \in Nat /\ Taken(d)' \in Nat
  BY TakenIs, Zenon
<1>5. Taken(c)' = Taken(c) + 1 /\ m.n = Taken(c) + 1
  BY <1>1, <1>2, <1>3, <1>4 DEF Taken
<1>6. \A d \in Conn : d # c => Taken(d)' = Taken(d)
  BY <1>1, <1>3 DEF Taken
<1>7. Known \subseteq Known'
  <2>1. \A d \in Conn : Taken(d) <= Taken(d)'
    <3> TAKE d \in Conn
    <3>1. CASE d = c
      BY <1>4, <1>5, <3>1
    <3>2. CASE d # c
      BY <1>4, <1>6, <3>2
    <3> QED
      BY <3>1, <3>2
  <2> QED
    BY <1>4, <2>1, KnownGrows
<1>8. Key(m) \in Keys /\ Key(m)[1] = c /\ Key(m)[2] = Taken(c) + 1
  BY <1>5, KeysOf
<1>9. Taken(c) + 1 \notin 1..Taken(c) /\ Taken(c) + 1 \in 1..(Taken(c) + 1)
  BY <1>4
<1>10. Key(m) \notin Known /\ Key(m) \in Known'
  BY <1>5, <1>8, <1>9, Zenon DEF Known
<1> QED
  BY <1>7, <1>8, <1>10 DEF Known

(* A frame that is read is in one queue, under a new number. *)
LEMMA ReadPlaces ==
    ASSUME SessionTypes, SessionTypes', OnePlace, NEW c \in Conn, Read(c)
    PROVE  OnePlace'
<1>1. PICK m \in Message :
        /\ m.conn = c /\ m.n = sent[c] - Len(rx[c]) + 1
        /\ \/ authQ' = Append(authQ, m) /\ appQ' = appQ
           \/ appQ' = Append(appQ, m) /\ authQ' = authQ
  BY ReadDone, Zenon
<1>2. PICK at : Placed(at)
  BY Zenon DEF OnePlace
<1>3. /\ Known \subseteq Known' /\ Known \in SUBSET Keys /\ Known' \in SUBSET Keys
      /\ Key(m) \in Keys /\ Key(m) \notin Known /\ Key(m) \in Known'
  BY <1>1, ReadKey, Zenon
<1>4. /\ at \in [Keys -> Place] /\ authQ \in Seq(Message) /\ appQ \in Seq(Message)
      /\ AllAt(authQ, at, "authQ", Known) /\ AllAt(appQ, at, "appQ", Known)
      /\ AllAt(routeQ, at, "routeQ", Known)
      /\ \A d \in Conn : AllAt(plist[d], at, "plist", Known) /\ AllAt(inbox[d], at, "inbox", Known)
      /\ UNCHANGED <<worker, routeQ, plist, inbox>>
  BY <1>2, Zenon DEF Placed, SessionTypes, Read
<1>5. \A w \in Worker : Owes(w)' => Owes(w) /\ M(w)' = M(w)
  BY <1>4, Zenon DEF Owes, At, M
<1>6. Lacks(authQ, Key(m)) /\ Lacks(appQ, Key(m))
  BY <1>3, <1>4, Elsewhere, Zenon
<1>7. Once(authQ) /\ Once(appQ)
  BY Zenon DEF OnePlace, Single
<1>8. ASSUME NEW q \in Place, NEW b, b = Moved(at, Key(m), q)
      PROVE  /\ b \in [Keys -> Place]
             /\ AllAt(authQ, b, "authQ", Known') /\ AllAt(appQ, b, "appQ", Known')
             /\ AllAt(routeQ, b, "routeQ", Known')
             /\ \A d \in Conn : /\ AllAt(plist[d], b, "plist", Known')
                                /\ AllAt(inbox[d], b, "inbox", Known')
             /\ \A w \in Worker : Owes(w)' => Key(M(w)') \in Known' /\ b[Key(M(w)')] = "worker"
  <2>1. b \in [Keys -> Place]
    BY <1>4, <1>8, Zenon DEF Moved
  <2>2. \A w \in Worker : Owes(w)' => Key(M(w)') \in Known' /\ b[Key(M(w)')] = "worker"
    <3>1. \A w \in Worker : Owes(w) => Key(M(w)) \in Known' /\ b[Key(M(w))] = "worker"
      BY <1>2, <1>3, <1>8, UnmovedWorker
    <3> QED
      BY <1>5, <3>1, Zenon
  <2>3. \A s, p : AllAt(s, at, p, Known) => AllAt(s, b, p, Known')
    BY <1>3, <1>4, <1>8, Unmoved
  <2> QED
    BY <1>4, <2>1, <2>2, <2>3, Zenon
<1>9. \E b : Placed(b)' /\ Once(authQ') /\ Once(appQ')
  <2>1. CASE authQ' = Append(authQ, m) /\ appQ' = appQ
    <3>0. PICK b : b = Moved(at, Key(m), "authQ")
      OBVIOUS
    <3>1. AllAt(Append(authQ, m), b, "authQ", Known') /\ Once(Append(authQ, m))
      BY <1>3, <1>4, <1>6, <1>7, <3>0, JoinsList
    <3>2. "authQ" \in Place
      BY DEF Place
    <3>3. Placed(b)'
      BY <1>4, <1>8, <2>1, <3>0, <3>1, <3>2, Zenon DEF Placed
    <3> QED
      BY <1>7, <2>1, <3>1, <3>3, Zenon
  <2>2. CASE appQ' = Append(appQ, m) /\ authQ' = authQ
    <3>0. PICK b : b = Moved(at, Key(m), "appQ")
      OBVIOUS
    <3>1. AllAt(Append(appQ, m), b, "appQ", Known') /\ Once(Append(appQ, m))
      BY <1>3, <1>4, <1>6, <1>7, <3>0, JoinsList
    <3>2. "appQ" \in Place
      BY DEF Place
    <3>3. Placed(b)'
      BY <1>4, <1>8, <2>2, <3>0, <3>1, <3>2, Zenon DEF Placed
    <3> QED
      BY <1>7, <2>2, <3>1, <3>3, Zenon
  <2> QED
    BY <1>1, <2>1, <2>2, Zenon
<1>10. Single'
  BY <1>4, <1>5, <1>9, Zenon DEF OnePlace, Single
<1> QED
  BY <1>9, <1>10, Zenon DEF OnePlace

(* x has left the list at p, of which rest remains, and at has become b:   *)
(* what lies elsewhere is where it was, and is not x.                      *)
Left(x, rest, p, at, b, K) ==
    /\ Key(x) \in K /\ at[Key(x)] = p /\ b \in [Keys -> Place]
    /\ AllAt(rest, b, p, K) /\ Once(rest)
    /\ \A t, r : r # p /\ AllAt(t, at, r, K) => AllAt(t, b, r, K) /\ Lacks(t, Key(x))

(* The first frame of a list goes to another place. *)
LEMMA TakenOut ==
    ASSUME NEW S, NEW s \in Seq(S), s # <<>>, NEW K \in SUBSET Keys, NEW at \in [Keys -> Place],
           NEW p, NEW q \in Place, AllAt(s, at, p, K), Once(s), NEW x, x = Head(s),
           NEW b, b = Moved(at, Key(x), q)
    PROVE  Left(x, Tail(s), p, at, b, K) /\ b[Key(x)] = q
<1>1. In(x, s)
  BY TailIn
<1>2. Key(x) \in K /\ at[Key(x)] = p
  BY <1>1, Zenon DEF AllAt
<1>3. b \in [Keys -> Place] /\ b[Key(x)] = q
  BY <1>2 DEF Moved
<1>4. Lacks(Tail(s), Key(x)) /\ Once(Tail(s)) /\ AllAt(Tail(s), at, p, K)
  BY LeavesList, FewerAt
<1>5. AllAt(Tail(s), b, p, K)
  BY <1>4, StaysAt
<1>6. ASSUME NEW t, NEW r, r # p, AllAt(t, at, r, K)
      PROVE  AllAt(t, b, r, K) /\ Lacks(t, Key(x))
  <2>1. at[Key(x)] # r
    BY <1>2, <1>6, Zenon
  <2> QED
    BY <1>6, <2>1, Unmoved, Elsewhere
<1> QED
  BY <1>2, <1>3, <1>4, <1>5, <1>6, Zenon DEF Left

(* A worker takes a frame out of its queue. *)
LEMMA GetPlaces ==
    ASSUME SessionTypes, OnePlace, NEW w \in Worker, Get(w)
    PROVE  OnePlace'
<1>1. PICK m \in Message :
        /\ worker'[w] = <<"process", m>>
        /\ \A v \in Worker : v # w => worker'[v] = worker[v]
        /\ UNCHANGED <<sent, rx, routeQ, plist, inbox>>
        /\ \/ authQ # <<>> /\ m = Head(authQ) /\ authQ' = Tail(authQ) /\ appQ' = appQ
           \/ appQ # <<>> /\ m = Head(appQ) /\ appQ' = Tail(appQ) /\ authQ' = authQ
  BY GetDone, Zenon
<1>2. PICK at : Placed(at)
  BY Zenon DEF OnePlace
<1>3. Known' = Known /\ Known \in SUBSET Keys
  BY <1>1 DEF Known, Taken
<1>4. /\ at \in [Keys -> Place] /\ authQ \in Seq(Message) /\ appQ \in Seq(Message)
      /\ AllAt(authQ, at, "authQ", Known) /\ AllAt(appQ, at, "appQ", Known)
      /\ AllAt(routeQ, at, "routeQ", Known)
      /\ \A d \in Conn : AllAt(plist[d], at, "plist", Known) /\ AllAt(inbox[d], at, "inbox", Known)
      /\ Once(authQ) /\ Once(appQ)
  BY <1>2, Zenon DEF Placed, SessionTypes, OnePlace, Single
<1>5. Owes(w)' /\ M(w)' = m
  BY <1>1 DEF Owes, At, M
<1>6. \A v \in Worker : v # w => (Owes(v)' <=> Owes(v)) /\ M(v)' = M(v)
  BY <1>1, Zenon DEF Owes, At, M
<1>7. "worker" \in Place /\ "worker" # "authQ" /\ "worker" # "appQ"
  BY DEF Place
<1>b. PICK b : b = Moved(at, Key(m), "worker")
  OBVIOUS
<1>8. ASSUME Key(m) \in Known, at[Key(m)] # "worker", b[Key(m)] = "worker"
      PROVE  /\ \A v \in Worker : Owes(v)' => Key(M(v)') \in Known' /\ b[Key(M(v)')] = "worker"
             /\ \A u, v \in Worker : Owes(u)' /\ Owes(v)' /\ Key(M(u)') = Key(M(v)') => u = v
  <2>1. \A v \in Worker \ {w} : Owes(v)' => Key(M(v)') \in Known' /\ b[Key(M(v)')] = "worker"
    <3>1. \A v \in Worker : Owes(v) => Key(M(v)) \in Known /\ b[Key(M(v))] = "worker"
      BY <1>2, <1>8, <1>b, UnmovedWorker
    <3> QED
      BY <1>3, <1>6, <3>1, Zenon
  <2>2. Key(M(w)') \in Known' /\ b[Key(M(w)')] = "worker"
    BY <1>3, <1>5, <1>8, Zenon
  <2>3. \A v \in Worker : v # w /\ Owes(v)' => Key(M(v)') # Key(m)
    BY <1>2, <1>6, <1>8, Zenon DEF Placed
  <2>4. \A u, v \in Worker : Owes(u)' /\ Owes(v)' /\ Key(M(u)') = Key(M(v)') => u = v
    BY <1>5, <1>6, <2>3, Zenon DEF OnePlace, Single
  <2> QED
    BY <2>1, <2>2, <2>4, Zenon
<1>9. CASE authQ # <<>> /\ m = Head(authQ) /\ authQ' = Tail(authQ) /\ appQ' = appQ
  <2>0. /\ authQ \in Seq(Message) /\ authQ # <<>> /\ m = Head(authQ)
        /\ Known \in SUBSET Keys /\ at \in [Keys -> Place] /\ "worker" \in Place
        /\ AllAt(authQ, at, "authQ", Known) /\ Once(authQ)
    BY <1>3, <1>4, <1>7, <1>9, Zenon
  <2>1. /\ Key(m) \in Known /\ at[Key(m)] = "authQ"
        /\ b \in [Keys -> Place] /\ b[Key(m)] = "worker"
        /\ AllAt(Tail(authQ), b, "authQ", Known) /\ Once(Tail(authQ))
        /\ \A t, r : r # "authQ" /\ AllAt(t, at, r, Known) => AllAt(t, b, r, Known)
    <3>1. Left(m, Tail(authQ), "authQ", at, b, Known) /\ b[Key(m)] = "worker"
      BY <1>b, <2>0, TakenOut
    <3> QED
      BY <3>1, Zenon DEF Left
  <2>2. "appQ" # "authQ" /\ "routeQ" # "authQ" /\ "plist" # "authQ" /\ "inbox" # "authQ"
    OBVIOUS
  <2>3. /\ \A v \in Worker : Owes(v)' => Key(M(v)') \in Known' /\ b[Key(M(v)')] = "worker"
        /\ \A u, v \in Worker : Owes(u)' /\ Owes(v)' /\ Key(M(u)') = Key(M(v)') => u = v
    BY <1>7, <1>8, <2>1, Zenon
  <2>4. Placed(b)'
    BY <1>1, <1>3, <1>4, <1>9, <2>1, <2>2, <2>3, Zenon DEF Placed
  <2>5. Single'
    BY <1>1, <1>9, <2>1, <2>3, Zenon DEF OnePlace, Single
  <2> QED
    BY <2>4, <2>5, Zenon DEF OnePlace
<1>10. CASE appQ # <<>> /\ m = Head(appQ) /\ appQ' = Tail(appQ) /\ authQ' = authQ
  <2>0. /\ appQ \in Seq(Message) /\ appQ # <<>> /\ m = Head(appQ)
        /\ Known \in SUBSET Keys /\ at \in [Keys -> Place] /\ "worker" \in Place
        /\ AllAt(appQ, at, "appQ", Known) /\ Once(appQ)
    BY <1>3, <1>4, <1>7, <1>10, Zenon
  <2>1. /\ Key(m) \in Known /\ at[Key(m)] = "appQ"
        /\ b \in [Keys -> Place] /\ b[Key(m)] = "worker"
        /\ AllAt(Tail(appQ), b, "appQ", Known) /\ Once(Tail(appQ))
        /\ \A t, r : r # "appQ" /\ AllAt(t, at, r, Known) => AllAt(t, b, r, Known)
    <3>1. Left(m, Tail(appQ), "appQ", at, b, Known) /\ b[Key(m)] = "worker"
      BY <1>b, <2>0, TakenOut
    <3> QED
      BY <3>1, Zenon DEF Left
  <2>2. "authQ" # "appQ" /\ "routeQ" # "appQ" /\ "plist" # "appQ" /\ "inbox" # "appQ"
    OBVIOUS
  <2>3. /\ \A v \in Worker : Owes(v)' => Key(M(v)') \in Known' /\ b[Key(M(v)')] = "worker"
        /\ \A u, v \in Worker : Owes(u)' /\ Owes(v)' /\ Key(M(u)') = Key(M(v)') => u = v
    BY <1>7, <1>8, <2>1, Zenon
  <2>4. Placed(b)'
    BY <1>1, <1>3, <1>4, <1>10, <2>1, <2>2, <2>3, Zenon DEF Placed
  <2>5. Single'
    BY <1>1, <1>10, <2>1, <2>3, Zenon DEF OnePlace, Single
  <2> QED
    BY <2>4, <2>5, Zenon DEF OnePlace
<1> QED
  BY <1>1, <1>9, <1>10, Zenon

(* What stays as it is when no worker and no queue of messages changes. *)
LEMMA SameWorkers ==
    ASSUME worker' = worker
    PROVE  \A w \in Worker : (Owes(w)' <=> Owes(w)) /\ M(w)' = M(w)
  BY Zenon DEF Owes, At, M

(* The answer at the head of the router's queue goes to a push list, or    *)
(* nowhere.                                                                *)
LEMMA PushPlaces ==
    ASSUME SessionTypes, OnePlace, Push
    PROVE  OnePlace'
<1>1. PICK r : r = Head(routeQ)
  OBVIOUS
<1>2. /\ r \in Reply /\ r.conn \in Conn
      /\ UNCHANGED <<sent, rx, authQ, appQ, worker, inbox>>
      /\ \A x : In(x, routeQ') => In(x, routeQ)
      /\ \A c \in Conn : c # r.conn => plist'[c] = plist[c]
      /\ \/ sock[r.conn] = "open" /\ plist'[r.conn] = Append(plist[r.conn], r)
         \/ sock[r.conn] # "open" /\ UNCHANGED plist
  BY <1>1, PushDone, Zenon
<1>3. routeQ # <<>> /\ routeQ' = Tail(routeQ) /\ routeQ \in Seq(Reply)
  BY Zenon DEF Push, SessionTypes
<1>4. Known' = Known /\ Known \in SUBSET Keys
  BY <1>2 DEF Known, Taken
<1>5. \A w \in Worker : (Owes(w)' <=> Owes(w)) /\ M(w)' = M(w)
  BY <1>2, SameWorkers, Zenon
<1>6. PICK at : Placed(at)
  BY Zenon DEF OnePlace
<1>7. /\ at \in [Keys -> Place] /\ AllAt(routeQ, at, "routeQ", Known)
      /\ AllAt(authQ, at, "authQ", Known) /\ AllAt(appQ, at, "appQ", Known)
      /\ \A d \in Conn : AllAt(plist[d], at, "plist", Known) /\ AllAt(inbox[d], at, "inbox", Known)
      /\ Once(routeQ) /\ \A d \in Conn : Once(plist[d])
  BY <1>6, Zenon DEF Placed, OnePlace, Single
<1>8. PICK b : b = Moved(at, Key(r), "plist")
  OBVIOUS
<1>9. "plist" \in Place /\ "plist" # "routeQ" /\ "authQ" # "routeQ" /\ "appQ" # "routeQ"
      /\ "inbox" # "routeQ" /\ "worker" # "routeQ"
  BY DEF Place
<1>10. /\ Key(r) \in Known /\ at[Key(r)] = "routeQ" /\ b \in [Keys -> Place]
       /\ AllAt(Tail(routeQ), b, "routeQ", Known) /\ Once(Tail(routeQ))
       /\ \A t, p : p # "routeQ" /\ AllAt(t, at, p, Known)
              => AllAt(t, b, p, Known) /\ Lacks(t, Key(r))
  <2>1. Left(r, Tail(routeQ), "routeQ", at, b, Known)
    <3>1. /\ AllAt(routeQ, at, "routeQ", Known) /\ Once(routeQ) /\ at \in [Keys -> Place]
          /\ routeQ \in Seq(Reply) /\ routeQ # <<>> /\ "plist" \in Place
      BY <1>3, <1>7, <1>9, Zenon
    <3> QED
      BY <1>1, <1>4, <1>8, <3>1, TakenOut
  <2> QED
    BY <2>1, Zenon DEF Left
<1>11. CASE sock[r.conn] # "open" /\ UNCHANGED plist
  <2>1. Known \subseteq Known' /\ Once(routeQ')
    BY <1>3, <1>4, <1>10, Zenon
  <2>2. /\ \A c \in Conn : \A x : In(x, plist'[c]) => In(x, plist[c])
        /\ \A c \in Conn : Once(plist'[c])
    BY <1>7, <1>11, Zenon
  <2> QED
    BY <1>2, <1>5, <2>1, <2>2, NoneAdded, Zenon
<1>12. CASE sock[r.conn] = "open" /\ plist'[r.conn] = Append(plist[r.conn], r)
  <2>1. plist[r.conn] \in Seq(Reply)
    BY <1>2, Zenon DEF SessionTypes
  <2>2. AllAt(plist[r.conn], at, "plist", Known) /\ Lacks(plist[r.conn], Key(r)) /\ Once(plist[r.conn])
    BY <1>2, <1>7, <1>9, <1>10, Zenon
  <2>3. AllAt(Append(plist[r.conn], r), b, "plist", Known) /\ Once(Append(plist[r.conn], r))
    BY <1>2, <1>4, <1>7, <1>8, <1>10, <2>1, <2>2, JoinsList
  <2>4. \A w \in Worker : Owes(w) => Key(M(w)) \in Known /\ b[Key(M(w))] = "worker"
    <3>1. at[Key(r)] # "worker"
      BY <1>9, <1>10, Zenon
    <3> QED
      BY <1>6, <1>8, <3>1, UnmovedWorker
  <2>5. \A d \in Conn : AllAt(plist'[d], b, "plist", Known) /\ AllAt(inbox'[d], b, "inbox", Known)
    BY <1>2, <1>7, <1>9, <1>10, <1>12, <2>3, Zenon
  <2>6. /\ AllAt(authQ', b, "authQ", Known) /\ AllAt(appQ', b, "appQ", Known)
        /\ AllAt(routeQ', b, "routeQ", Known)
    BY <1>2, <1>3, <1>7, <1>9, <1>10, Zenon
  <2>7. Placed(b)'
    BY <1>4, <1>5, <1>10, <2>4, <2>5, <2>6, Zenon DEF Placed
  <2>8. \A x : In(x, plist'[r.conn]) => In(x, plist[r.conn]) \/ x = r
    <3>1. \A x : In(x, Append(plist[r.conn], r)) <=> In(x, plist[r.conn]) \/ x = r
      BY <1>2, <2>1, AppendIn
    <3> QED
      BY <1>12, <3>1, Zenon
  <2>9. \A c \in Conn : \A x : In(x, plist'[c]) => x.conn = c
    BY <1>2, <2>8, Zenon DEF OnePlace, Single
  <2>10. \A c \in Conn : Once(plist'[c])
    BY <1>2, <1>7, <1>12, <2>3, Zenon
  <2>11. Single'
    BY <1>2, <1>3, <1>5, <1>10, <2>9, <2>10, Zenon DEF OnePlace, Single
  <2> QED
    BY <2>7, <2>11, Zenon DEF OnePlace
<1> QED
  BY <1>2, <1>11, <1>12, Zenon

(* A connection is shut: what it had to write is gone. *)
LEMMA ShutPlaces ==
    ASSUME SessionTypes, SessionTypes', OnePlace, NEW c \in Conn, Shut(c),
           UNCHANGED <<sent, authQ, appQ, worker, routeQ, inbox>>
    PROVE  OnePlace'
<1>1. /\ rx \in [Conn -> Seq(Frame)] /\ plist \in [Conn -> Seq(Reply)]
      /\ rx' = [rx EXCEPT ![c] = <<>>] /\ plist' = [plist EXCEPT ![c] = <<>>]
  BY Zenon DEF SessionTypes, Shut
<1>2. plist'[c] = <<>> /\ rx'[c] = <<>> /\ \A d \in Conn : d # c => plist'[d] = plist[d] /\ rx'[d] = rx[d]
  BY <1>1, Zenon
<1>3. \A d \in Conn : Taken(d) \in Nat /\ Taken(d) <= sent[d] /\ sent[d] \in Nat /\ Taken(d)' \in Nat
  BY TakenIs, Zenon
<1>4. Taken(c)' = sent[c] /\ \A d \in Conn : d # c => Taken(d)' = Taken(d)
  BY <1>2, <1>3 DEF Taken
<1>5. \A d \in Conn : Taken(d) <= Taken(d)'
  <2> TAKE d \in Conn
  <2>1. CASE d = c
    BY <1>3, <1>4, <2>1
  <2>2. CASE d # c
    BY <1>3, <1>4, <2>2
  <2> QED
    BY <2>1, <2>2
<1>6. Known \subseteq Known'
  BY <1>3, <1>5, KnownGrows
<1>7. Once(<<>>)
  BY DEF Once
<1>8. /\ \A d \in Conn : \A x : In(x, plist'[d]) => In(x, plist[d])
      /\ \A d \in Conn : Once(plist'[d])
  BY <1>2, <1>7, NoneIn, Zenon DEF OnePlace, Single
<1>9. Once(routeQ') /\ \A x : In(x, routeQ') => In(x, routeQ)
  BY Zenon DEF OnePlace, Single
<1>10. \A w \in Worker : (Owes(w)' <=> Owes(w)) /\ M(w)' = M(w)
  BY SameWorkers, Zenon
<1> QED
  BY <1>6, <1>8, <1>9, <1>10, NoneAdded, Zenon

(* writeSocket moves an answer from the push list to the client. *)
LEMMA WritePlaces ==
    ASSUME SessionTypes, SessionTypes', OnePlace, NEW c \in Conn, Write(c)
    PROVE  OnePlace'
<1>1. CASE Shut(c) /\ UNCHANGED inbox
  BY <1>1, WriteDone, ShutPlaces, Zenon
<1>2. CASE ~(Shut(c) /\ UNCHANGED inbox)
  <2>1. PICK r : r = Head(plist[c])
    OBVIOUS
  <2>2. /\ r \in Reply /\ UNCHANGED <<sent, rx, authQ, appQ, worker, routeQ>>
        /\ plist' = [plist EXCEPT ![c] = Tail(plist[c])]
        /\ inbox' = [inbox EXCEPT ![c] = Append(inbox[c], r)]
        /\ \A d \in Conn : d # c => plist'[d] = plist[d] /\ inbox'[d] = inbox[d]
        /\ In(r, plist[c])
        /\ \A x : In(x, plist'[c]) => In(x, plist[c])
        /\ \A x : In(x, inbox'[c]) => In(x, inbox[c]) \/ x = r
    BY <1>2, <2>1, WriteDone, Zenon
  <2>3. /\ plist \in [Conn -> Seq(Reply)] /\ inbox \in [Conn -> Seq(Reply)]
        /\ plist[c] \in Seq(Reply) /\ inbox[c] \in Seq(Reply) /\ plist[c] # <<>>
    BY Zenon DEF SessionTypes, Write
  <2>4. plist'[c] = Tail(plist[c]) /\ inbox'[c] = Append(inbox[c], r)
    BY <2>2, <2>3, Zenon
  <2>5. Known' = Known /\ Known \in SUBSET Keys
    BY <2>2 DEF Known, Taken
  <2>6. \A w \in Worker : (Owes(w)' <=> Owes(w)) /\ M(w)' = M(w)
    BY <2>2, SameWorkers, Zenon
  <2>7. PICK at : Placed(at)
    BY Zenon DEF OnePlace
  <2>8. /\ at \in [Keys -> Place] /\ AllAt(routeQ, at, "routeQ", Known)
        /\ AllAt(authQ, at, "authQ", Known) /\ AllAt(appQ, at, "appQ", Known)
        /\ \A d \in Conn : AllAt(plist[d], at, "plist", Known) /\ AllAt(inbox[d], at, "inbox", Known)
        /\ \A d \in Conn : Once(plist[d]) /\ Once(inbox[d])
        /\ \A d \in Conn : \A x : In(x, plist[d]) \/ In(x, inbox[d]) => x.conn = d
    BY <2>7, Zenon DEF Placed, OnePlace, Single
  <2>9. PICK b : b = Moved(at, Key(r), "inbox")
    OBVIOUS
  <2>10. "inbox" \in Place /\ "inbox" # "plist" /\ "authQ" # "plist" /\ "appQ" # "plist"
         /\ "routeQ" # "plist" /\ "worker" # "plist"
    BY DEF Place
  <2>11. /\ Key(r) \in Known /\ at[Key(r)] = "plist" /\ b \in [Keys -> Place]
         /\ AllAt(Tail(plist[c]), b, "plist", Known) /\ Once(Tail(plist[c]))
         /\ \A t, p : p # "plist" /\ AllAt(t, at, p, Known)
                => AllAt(t, b, p, Known) /\ Lacks(t, Key(r))
    <3>1. /\ AllAt(plist[c], at, "plist", Known) /\ Once(plist[c]) /\ at \in [Keys -> Place]
          /\ plist[c] \in Seq(Reply) /\ plist[c] # <<>>
      BY <2>3, <2>8, Zenon
    <3>2. Left(r, Tail(plist[c]), "plist", at, b, Known)
      BY <2>1, <2>5, <2>9, <2>10, <3>1, TakenOut
    <3> QED
      BY <3>2, Zenon DEF Left
  <2>12. \A d \in Conn : d # c => AllAt(plist[d], b, "plist", Known)
    <3> SUFFICES ASSUME NEW d \in Conn, d # c
                 PROVE  AllAt(plist[d], b, "plist", Known)
      OBVIOUS
    <3>1. ASSUME NEW x, In(x, plist[d])
          PROVE  Key(x) # Key(r)
      <4>1. x \in Reply /\ x.conn = d /\ r.conn = c
        BY <2>2, <2>3, <2>8, <3>1, ElementOf, Zenon
      <4> QED
        BY <2>2, <4>1, KeysOf, Zenon
    <3>2. Lacks(plist[d], Key(r)) /\ AllAt(plist[d], at, "plist", Known)
      BY <2>8, <3>1, Zenon DEF Lacks
    <3> QED
      BY <2>5, <2>8, <2>9, <3>2, StaysAt
  <2>13. AllAt(inbox[c], at, "inbox", Known) /\ Lacks(inbox[c], Key(r)) /\ Once(inbox[c])
    BY <2>8, <2>10, <2>11, Zenon
  <2>14. AllAt(Append(inbox[c], r), b, "inbox", Known) /\ Once(Append(inbox[c], r))
    BY <2>2, <2>3, <2>5, <2>8, <2>9, <2>11, <2>13, JoinsList
  <2>15. \A w \in Worker : Owes(w) => Key(M(w)) \in Known /\ b[Key(M(w))] = "worker"
    <3>1. at[Key(r)] # "worker"
      BY <2>10, <2>11, Zenon
    <3> SUFFICES ASSUME NEW w \in Worker, Owes(w)
                 PROVE  Key(M(w)) \in Known /\ b[Key(M(w))] = "worker"
      BY Zenon
    <3>2. Key(M(w)) \in Known /\ at[Key(M(w))] = "worker"
      BY <2>7, Zenon DEF Placed
    <3>3. Key(M(w)) # Key(r) /\ Key(M(w)) \in Keys
      BY <2>5, <3>1, <3>2, Zenon
    <3> QED
      BY <2>8, <2>9, <3>2, <3>3, Zenon DEF Moved
  <2>16. \A d \in Conn : AllAt(plist'[d], b, "plist", Known) /\ AllAt(inbox'[d], b, "inbox", Known)
    BY <2>2, <2>4, <2>8, <2>10, <2>11, <2>12, <2>14, Zenon
  <2>17. /\ AllAt(authQ', b, "authQ", Known) /\ AllAt(appQ', b, "appQ", Known)
         /\ AllAt(routeQ', b, "routeQ", Known)
    BY <2>2, <2>8, <2>10, <2>11, Zenon
  <2>18. Placed(b)'
    BY <2>5, <2>6, <2>11, <2>15, <2>16, <2>17, Zenon DEF Placed
  <2>19. \A d \in Conn : Once(plist'[d]) /\ Once(inbox'[d])
    BY <2>2, <2>4, <2>8, <2>11, <2>14, Zenon
  <2>20. \A d \in Conn : \A x : In(x, plist'[d]) \/ In(x, inbox'[d]) => x.conn = d
    BY <2>2, <2>8, Zenon
  <2>21. Single'
    BY <2>2, <2>6, <2>19, <2>20, Zenon DEF OnePlace, Single
  <2> QED
    BY <2>18, <2>21, Zenon DEF OnePlace
<1> QED
  BY <1>1, <1>2

(* A worker that answers owes no answer any more. *)
LEMMA DeedOwes ==
    ASSUME SessionTypes, NEW w \in Worker, NEW d \in Deeds, Does(w, d)
    PROVE  /\ \A v \in Worker : v # w => (Owes(v)' <=> Owes(v)) /\ M(v)' = M(v)
           /\ d[3] = "none" => (Owes(w)' => Owes(w) /\ M(w)' = M(w))
           /\ d[3] # "none" => Owes(w) /\ ~Owes(w)'
<1>1. /\ worker[w] = <<d[1], M(w)>>
      /\ worker'[w] = IF d[2] = "idle" THEN Idle ELSE <<d[2], M(w)>>
      /\ \A v \in Worker : v # w => worker'[v] = worker[v]
  BY DeedDone, Zenon
<1>2. \A v \in Worker : v # w => (Owes(v)' <=> Owes(v)) /\ M(v)' = M(v)
  BY <1>1, Zenon DEF Owes, At, M
<1>3. \/ d[1] \in {"process", "reply"} /\ d[2] \in {"idle", "publish", "dispatch"} /\ d[3] # "none"
      \/ d[1] = "process" /\ d[2] = "reply" /\ d[3] = "none"
      \/ d[1] \in {"publish", "dispatch"} /\ d[2] = "idle" /\ d[3] = "none"
  BY DEF Deeds
<1>4. CASE d[2] = "idle"
  <2>1. ~Owes(w)'
    BY <1>1, <1>4 DEF Owes, At, Idle
  <2>2. d[3] # "none" => Owes(w)
    BY <1>3 DEF Owes, Does, At
  <2> QED
    BY <1>2, <2>1, <2>2, Zenon
<1>5. CASE d[2] # "idle"
  <2>1. worker'[w] = <<d[2], M(w)>>
    BY <1>1, <1>5, Zenon
  <2>2. M(w)' = M(w) /\ (Owes(w)' <=> d[2] \in {"process", "reply"})
    BY <2>1 DEF M, Owes, At
  <2>3. Owes(w) <=> d[1] \in {"process", "reply"}
    BY <1>1 DEF Owes, At
  <2> QED
    BY <1>2, <1>3, <1>5, <2>2, <2>3
<1> QED
  BY <1>4, <1>5, Zenon

(* What a worker does: an answer replaces the frame that it owed one. *)
LEMMA DeedPlaces ==
    ASSUME SessionTypes, OnePlace, NEW w \in Worker, NEW d \in Deeds, Does(w, d)
    PROVE  OnePlace'
<1>1. /\ UNCHANGED <<sent, rx, authQ, appQ, plist, inbox>>
      /\ IF d[3] = "none" THEN UNCHANGED routeQ
         ELSE routeQ' = Append(routeQ, Answer(M(w), d[3], StateFor(d[3])))
  BY Zenon DEF Does
<1>2. /\ \A v \in Worker : v # w => (Owes(v)' <=> Owes(v)) /\ M(v)' = M(v)
      /\ d[3] = "none" => (Owes(w)' => Owes(w) /\ M(w)' = M(w))
      /\ d[3] # "none" => Owes(w) /\ ~Owes(w)'
  BY DeedOwes, Zenon
<1>3. Known' = Known /\ Known \in SUBSET Keys
  BY <1>1 DEF Known, Taken
<1>4. CASE d[3] = "none"
  <2>1. /\ \A v \in Worker : Owes(v)' => Owes(v) /\ M(v)' = M(v)
        /\ \A x : In(x, routeQ') => In(x, routeQ)
        /\ Once(routeQ') /\ \A c \in Conn : Once(plist'[c])
        /\ \A c \in Conn : \A x : In(x, plist'[c]) => In(x, plist[c])
    BY <1>1, <1>2, <1>4, Zenon DEF OnePlace, Single
  <2>2. Known \subseteq Known'
    BY <1>3
  <2> QED
    BY <1>1, <2>1, <2>2, NoneAdded, Zenon
<1>5. CASE d[3] # "none"
  <2>1. PICK a : a = Answer(M(w), d[3], StateFor(d[3]))
    OBVIOUS
  <2>2. M(w) \in Message /\ d[3] \in Kind /\ StateFor(d[3]) \in {INIT_STATE, MSG_STATE}
    BY <1>5, DeedDone, Zenon DEF StateFor
  <2>3. a \in Reply /\ a.conn = M(w).conn /\ a.n = M(w).n
    BY <2>1, <2>2, AnswerIs, Zenon
  <2>4. Key(a) = Key(M(w)) /\ routeQ' = Append(routeQ, a) /\ routeQ \in Seq(Reply)
    BY <1>1, <1>5, <2>1, <2>3, Zenon DEF Key, SessionTypes
  <2>5. PICK at : Placed(at)
    BY Zenon DEF OnePlace
  <2>6. /\ at \in [Keys -> Place] /\ AllAt(routeQ, at, "routeQ", Known)
        /\ AllAt(authQ, at, "authQ", Known) /\ AllAt(appQ, at, "appQ", Known)
        /\ \A c \in Conn : AllAt(plist[c], at, "plist", Known) /\ AllAt(inbox[c], at, "inbox", Known)
        /\ Once(routeQ)
    BY <2>5, Zenon DEF Placed, OnePlace, Single
  <2>7. Owes(w) /\ ~Owes(w)' /\ Key(a) \in Known /\ at[Key(a)] = "worker"
    BY <1>2, <1>5, <2>4, <2>5, Zenon DEF Placed
  <2>8. PICK b : b = Moved(at, Key(a), "routeQ")
    OBVIOUS
  <2>9. /\ "routeQ" \in Place /\ "routeQ" # "worker" /\ "authQ" # "worker" /\ "appQ" # "worker"
        /\ "plist" # "worker" /\ "inbox" # "worker"
    BY DEF Place
  <2>10. b \in [Keys -> Place]
    BY <2>6, <2>7, <2>8, <2>9, Zenon DEF Moved
  <2>11. ASSUME NEW t, NEW p, p # "worker", AllAt(t, at, p, Known)
         PROVE  AllAt(t, b, p, Known)
    <3>1. at[Key(a)] # p
      BY <2>7, <2>11, Zenon
    <3> QED
      BY <1>3, <2>6, <2>8, <2>11, <3>1, Unmoved
  <2>12. Lacks(routeQ, Key(a))
    BY <2>6, <2>7, <2>9, Elsewhere, Zenon
  <2>13. AllAt(Append(routeQ, a), b, "routeQ", Known) /\ Once(Append(routeQ, a))
    BY <1>3, <2>3, <2>4, <2>6, <2>7, <2>8, <2>12, JoinsList
  <2>14. \A v \in Worker : v # w /\ Owes(v) => Key(M(v)) # Key(a)
    BY <2>4, <2>7, Zenon DEF OnePlace, Single
  <2>15. \A v \in Worker : v # w /\ Owes(v) => Key(M(v)) \in Known /\ b[Key(M(v))] = "worker"
    <3> SUFFICES ASSUME NEW v \in Worker, v # w, Owes(v)
                 PROVE  Key(M(v)) \in Known /\ b[Key(M(v))] = "worker"
      OBVIOUS
    <3>1. Key(M(v)) # Key(a)
      BY <2>14, Zenon
    <3>2. Key(M(v)) \in Known /\ at[Key(M(v))] = "worker"
      BY <2>5, Zenon DEF Placed
    <3>3. Key(M(v)) \in Keys
      BY <3>2, Zenon DEF Known
    <3>4. b[Key(M(v))] = at[Key(M(v))]
      BY <2>6, <2>8, <3>1, <3>3, Zenon DEF Moved
    <3> QED
      BY <3>2, <3>4, Zenon
  <2>16. \A v \in Worker : Owes(v)' => v # w /\ Owes(v) /\ M(v)' = M(v)
    BY <1>2, <2>7, Zenon
  <2>17. Placed(b)'
    BY <1>1, <1>3, <2>4, <2>6, <2>9, <2>10, <2>11, <2>13, <2>15, <2>16, Zenon DEF Placed
  <2>18. Single'
    BY <1>1, <2>4, <2>13, <2>16, Zenon DEF OnePlace, Single
  <2> QED
    BY <2>17, <2>18, Zenon DEF OnePlace
<1> QED
  BY <1>4, <1>5

(* Every step keeps each frame in one place. *)
LEMMA OnePlaceKept ==
    ASSUME SessionTypes, SessionTypes', OnePlace, [Next]_vars
    PROVE  OnePlace'
<1>1. ASSUME UNCHANGED <<authQ, appQ, worker, routeQ, plist, inbox>>, Known \subseteq Known'
      PROVE  OnePlace'
  <2>1. /\ \A w \in Worker : (Owes(w)' <=> Owes(w)) /\ M(w)' = M(w)
        /\ Once(routeQ') /\ \A c \in Conn : Once(plist'[c])
    BY <1>1, SameWorkers, Zenon DEF OnePlace, Single
  <2> QED
    BY <1>1, <2>1, NoneAdded, Zenon
<1>2. ASSUME NEW c \in Conn, NEW f \in Frame, Send(c, f)
      PROVE  OnePlace'
  <2>1. /\ rx \in [Conn -> Seq(Frame)] /\ sent \in [Conn -> 0..MaxFrames]
        /\ rx' = [rx EXCEPT ![c] = Append(rx[c], f)] /\ sent' = [sent EXCEPT ![c] = sent[c] + 1]
        /\ UNCHANGED <<authQ, appQ, worker, routeQ, plist, inbox>>
    BY <1>2, Zenon DEF Send, SessionTypes
  <2>2. /\ rx'[c] = Append(rx[c], f) /\ sent'[c] = sent[c] + 1
        /\ \A d \in Conn : d # c => rx'[d] = rx[d] /\ sent'[d] = sent[d]
        /\ rx[c] \in Seq(Frame)
    BY <2>1, Zenon
  <2>3. Len(Append(rx[c], f)) = Len(rx[c]) + 1 /\ Len(rx[c]) \in Nat
    BY <2>2
  <2>4. \A d \in Conn : Taken(d) \in Nat /\ Taken(d)' \in Nat /\ sent[d] \in Nat
    BY TakenIs, Zenon
  <2>5. Taken(c)' = Taken(c)
    BY <2>2, <2>3, <2>4 DEF Taken
  <2>6. \A d \in Conn : Taken(d)' = Taken(d)
    BY <2>2, <2>5, Zenon DEF Taken
  <2>7. \A d \in Conn : Taken(d) <= Taken(d)'
    BY <2>4, <2>6
  <2> QED
    BY <1>1, <2>1, <2>4, <2>7, KnownGrows
<1>3. ASSUME NEW c \in Conn, Leave(c)
      PROVE  OnePlace'
  BY <1>3, ShutPlaces, Zenon DEF Leave
<1>4. ASSUME NEW w \in Worker, AuthStep(w) \/ AppStep(w)
      PROVE  OnePlace'
  BY <1>4, WorkerDeed, DeedPlaces, Zenon
<1>5. CASE UNCHANGED vars
  <2>1. Known' = Known /\ UNCHANGED <<authQ, appQ, worker, routeQ, plist, inbox>>
    BY <1>5 DEF vars, Known, Taken
  <2> QED
    BY <1>1, <2>1, Zenon
<1>6. CASE Collector
  <2>1. UNCHANGED <<sent, rx, authQ, appQ, worker, routeQ, plist, inbox>>
    BY <1>6, CollectorDone, Zenon
  <2>2. Known' = Known
    BY <2>1 DEF Known, Taken
  <2> QED
    BY <1>1, <2>1, <2>2, Zenon
<1> QED
  BY <1>2, <1>3, <1>4, <1>5, <1>6, ReadPlaces, WritePlaces, PushPlaces, GetPlaces, Zenon
     DEF Next, Server, Work, Refuse

-----------------------------------------------------------------------------
(* The acknowledgement of a frame is on its way, or arrived, or the        *)
(* connection is gone.                                                     *)
Ack(c, n, r) == r.conn = c /\ r.n = n /\ r.kind = "ack"

Acked(c, n) ==
    \/ sock[c] = "closed"
    \/ \E r : Ack(c, n, r) /\ (In(r, routeQ) \/ In(r, plist[c]) \/ In(r, inbox[c]))

AckedInv ==
    /\ \A w \in Worker : At(w, "dispatch") => Acked(M(w).conn, M(w).n)
    /\ \A o \in outcome : o[1] \in Conn /\ Acked(o[1], o[2])

(* An acknowledgement that is on its way goes on to the client, or the     *)
(* connection is shut.                                                     *)
LEMMA AckStays ==
    ASSUME SessionTypes, OnePlace, AckedInv, [Next]_vars, NEW c \in Conn, NEW n, Acked(c, n)
    PROVE  Acked(c, n)'
<1>0. ASSUME NEW d \in Conn, Shut(d), UNCHANGED <<routeQ, inbox>>
      PROVE  Acked(c, n)'
  <2>1. /\ sock'[d] = "closed" /\ \A e \in Conn : e # d => sock'[e] = sock[e] /\ plist'[e] = plist[e]
    BY <1>0, Zenon DEF Shut, SessionTypes
  <2>2. CASE c = d
    BY <2>1, <2>2, Zenon DEF Acked
  <2>3. CASE c # d
    BY <1>0, <2>1, <2>3, Zenon DEF Acked
  <2> QED
    BY <2>2, <2>3
<1>1. ASSUME UNCHANGED <<sock, routeQ, plist, inbox>>
      PROVE  Acked(c, n)'
  BY <1>1, Zenon DEF Acked
<1>2. ASSUME NEW d \in Conn, NEW f \in Frame, Send(d, f)
      PROVE  Acked(c, n)'
  BY <1>1, <1>2, Zenon DEF Send
<1>3. ASSUME NEW d \in Conn, Write(d)
      PROVE  Acked(c, n)'
  <2>1. CASE Shut(d) /\ UNCHANGED inbox
    BY <1>0, <1>3, <2>1, WriteDone, Zenon
  <2>2. CASE ~(Shut(d) /\ UNCHANGED inbox)
    <3>1. PICK r : /\ UNCHANGED <<sock, routeQ>>
                   /\ \A e \in Conn : e # d => plist'[e] = plist[e] /\ inbox'[e] = inbox[e]
                   /\ \A x : In(x, plist[d]) <=> x = r \/ In(x, plist'[d])
                   /\ \A x : In(x, inbox'[d]) <=> In(x, inbox[d]) \/ x = r
      BY <1>3, <2>2, WriteDone, Zenon
    <3>2. \A x : In(x, plist[c]) \/ In(x, inbox[c]) => In(x, plist'[c]) \/ In(x, inbox'[c])
      <4>1. CASE c = d
        BY <3>1, <4>1, Zenon
      <4>2. CASE c # d
        BY <3>1, <4>2, Zenon
      <4> QED
        BY <4>1, <4>2
    <3> QED
      BY <3>1, <3>2, Zenon DEF Acked
  <2> QED
    BY <2>1, <2>2
<1>4. ASSUME Push
      PROVE  Acked(c, n)'
  <2>1. PICK r : r = Head(routeQ)
    OBVIOUS
  <2>2. /\ r \in Reply /\ r.conn \in Conn /\ In(r, routeQ) /\ UNCHANGED <<sock, inbox>>
        /\ \A x : In(x, routeQ) <=> x = r \/ In(x, routeQ')
        /\ \A d \in Conn : d # r.conn => plist'[d] = plist[d]
        /\ \/ sock[r.conn] = "open" /\ \A x : In(x, plist'[r.conn]) <=> In(x, plist[r.conn]) \/ x = r
           \/ sock[r.conn] # "open" /\ UNCHANGED plist
    BY <1>4, <2>1, PushDone, Zenon
  <2>4. sock[r.conn] = "open" \/ sock[r.conn] = "closed"
    BY <2>2 DEF SessionTypes
  <2>5. \A x : In(x, plist[c]) => In(x, plist'[c])
    BY <2>2, Zenon
  <2>6. CASE sock[c] = "closed"
    BY <2>2, <2>6, Zenon DEF Acked
  <2>7. CASE sock[c] # "closed"
    <3>1. PICK a : Ack(c, n, a) /\ (In(a, routeQ) \/ In(a, plist[c]) \/ In(a, inbox[c]))
      BY <2>7, Zenon DEF Acked
    <3>2. a = r => In(a, plist'[c])
      BY <2>2, <2>4, <2>7, <3>1, Zenon DEF Ack
    <3> QED
      BY <2>2, <2>5, <3>1, <3>2, Zenon DEF Acked
  <2> QED
    BY <2>6, <2>7
<1>5. ASSUME NEW w \in Worker, AuthStep(w) \/ AppStep(w)
      PROVE  Acked(c, n)'
  <2>1. PICK d \in Deeds : Does(w, d)
    BY <1>5, WorkerDeed, Zenon
  <2>2. \A r : In(r, routeQ) => In(r, routeQ')
    BY <2>1, DeedDone, Zenon DEF Answered
  <2> QED
    BY <2>1, <2>2, Zenon DEF Does, Acked
<1>6. ASSUME NEW d \in Conn, Leave(d)
      PROVE  Acked(c, n)'
  BY <1>0, <1>6, Zenon DEF Leave
<1>7. ASSUME NEW w \in Worker, Get(w)
      PROVE  Acked(c, n)'
  BY <1>1, <1>7, GetDone, Zenon
<1>8. ASSUME NEW d \in Conn, Read(d)
      PROVE  Acked(c, n)'
  BY <1>1, <1>8, Zenon DEF Read
<1>9. CASE UNCHANGED vars
  BY <1>1, <1>9, Zenon DEF vars
<1>10. CASE Collector
  BY <1>1, <1>10, CollectorDone, Zenon
<1> QED
  BY <1>2, <1>3, <1>4, <1>5, <1>6, <1>7, <1>8, <1>9, <1>10, Zenon
     DEF Next, Server, Work, Refuse

(* Every step keeps what is acknowledged; a worker is at "dispatch" once   *)
(* it has put the acknowledgement in the queue.                            *)
LEMMA AckedKept ==
    ASSUME SessionTypes, SessionTypes', OnePlace, AckedInv, [Next]_vars
    PROVE  AckedInv'
<1>2. \A w \in Worker : At(w, "dispatch") => M(w).conn \in Conn
  <2>1. "dispatch" \in Steps
    BY DEF Steps
  <2> QED
    BY <2>1, Holds, Zenon
<1>3. /\ \A w \in Worker : \A x : At(w, "dispatch") /\ x = M(w) => Acked(x.conn, x.n)'
      /\ \A o \in outcome : o[1] \in Conn /\ Acked(o[1], o[2])'
  <2>1. \A c \in Conn : \A n : Acked(c, n) => Acked(c, n)'
    BY AckStays
  <2> QED
    BY <1>2, <2>1, Zenon DEF AckedInv
<1>4. ASSUME NEW w \in Worker, AuthStep(w) \/ AppStep(w)
      PROVE  AckedInv'
  <2>1. PICK d \in Deeds : Does(w, d)
    BY <1>4, WorkerDeed, Zenon
  <2>2. PICK m \in Message : m = M(w)
    BY <2>1, DeedDone, Zenon
  <2>3. /\ worker[w] = <<d[1], m>>
        /\ worker'[w] = IF d[2] = "idle" THEN Idle ELSE <<d[2], m>>
        /\ \A v \in Worker : v # w => worker'[v] = worker[v]
        /\ d[3] # "none" => d[3] \in Kind /\ Answered(w, d[3], StateFor(d[3]))
    BY <2>1, <2>2, DeedDone, Zenon
  <2>4. ASSUME d[2] = "dispatch"
        PROVE  Acked(m.conn, m.n)'
    <3>1. d[3] = "ack"
      BY <2>4 DEF Deeds
    <3>2. StateFor("ack") \in {INIT_STATE, MSG_STATE} /\ "ack" \in Kind /\ "ack" # "none"
      BY DEF StateFor, Kind
    <3>3. In(Answer(m, "ack", StateFor("ack")), routeQ')
      BY <2>2, <2>3, <3>1, <3>2, Zenon DEF Answered
    <3>4. Ack(m.conn, m.n, Answer(m, "ack", StateFor("ack")))
      BY <3>2, AnswerIs, Zenon DEF Ack
    <3> QED
      BY <3>3, <3>4, Zenon DEF Acked
  <2>5. At(w, "dispatch")' => d[2] = "dispatch" /\ M(w)' = m
    BY <2>3 DEF At, M, Idle
  <2>6. \A v \in Worker : v # w /\ At(v, "dispatch")' => At(v, "dispatch") /\ M(v)' = M(v)
    BY <2>3, Zenon DEF At, M
  <2>7. \A v \in Worker : At(v, "dispatch")' => Acked(M(v).conn, M(v).n)'
    <3>1. \A v \in Worker : v # w /\ At(v, "dispatch")' => Acked(M(v).conn, M(v).n)'
      BY <1>3, <2>6, Zenon
    <3>2. At(w, "dispatch")' => Acked(M(w).conn, M(w).n)'
      BY <2>4, <2>5, Zenon
    <3> QED
      BY <3>1, <3>2, Zenon
  <2>8. \A o \in outcome' : o[1] \in Conn /\ Acked(o[1], o[2])'
    <3>1. CASE d[1] # "dispatch"
      BY <1>3, <2>1, <3>1, Zenon DEF Does
    <3>2. CASE d[1] = "dispatch"
      <4>1. PICK how : outcome' = outcome \cup {<<m.conn, m.n, how>>}
        BY <2>1, <2>2, <3>2, Zenon DEF Does
      <4>2. At(w, "dispatch") /\ m.conn \in Conn
        BY <2>3, <3>2 DEF At, Message
      <4>3. Acked(m.conn, m.n)'
        BY <1>3, <2>2, <4>2, Zenon
      <4>4. ASSUME NEW o \in outcome', o \notin outcome
            PROVE  o[1] = m.conn /\ o[2] = m.n
        BY <4>1, <4>4
      <4> QED
        BY <1>3, <4>2, <4>3, <4>4, Zenon
    <3> QED
      BY <3>1, <3>2
  <2> QED
    BY <2>7, <2>8, Zenon DEF AckedInv
<1>5. ASSUME UNCHANGED <<worker, outcome>>
      PROVE  AckedInv'
  <2>1. \A w \in Worker : At(w, "dispatch")' => At(w, "dispatch") /\ M(w)' = M(w)
    BY <1>5, Zenon DEF At, M
  <2> QED
    BY <1>3, <1>5, <2>1, Zenon DEF AckedInv
<1>6. ASSUME NEW w \in Worker, Get(w)
      PROVE  AckedInv'
  <2>1. PICK m : /\ worker'[w] = <<"process", m>> /\ outcome' = outcome
                 /\ \A v \in Worker : v # w => worker'[v] = worker[v]
    BY <1>6, GetDone, Zenon
  <2>2. ~At(w, "dispatch")'
    BY <2>1 DEF At
  <2>3. \A v \in Worker : At(v, "dispatch")' => At(v, "dispatch") /\ M(v)' = M(v)
    BY <2>1, <2>2, Zenon DEF At, M
  <2> QED
    BY <1>3, <2>1, <2>3, Zenon DEF AckedInv
<1>7. ASSUME NEW c \in Conn, Leave(c) \/ Read(c) \/ Write(c) \/ \E f \in Frame : Send(c, f)
      PROVE  UNCHANGED <<worker, outcome>>
  BY <1>7, WriteDone, Zenon DEF Leave, Read, Send
<1> QED
  BY <1>4, <1>5, <1>6, <1>7, PushDone, CollectorDone, Zenon DEF Next, Server, Work, Refuse, vars

-----------------------------------------------------------------------------
(* A set without two elements has one, or none. *)
LEMMA AtMostOne ==
    ASSUME NEW S, \A x, y \in S : x = y
    PROVE  (S = {} /\ Cardinality(S) = 0) \/ (S # {} /\ Cardinality(S) = 1)
<1>1. CASE S = {}
  BY <1>1, FS_EmptySet
<1>2. CASE S # {}
  <2>1. PICK x : S = {x}
    BY <1>2
  <2> QED
    BY <2>1, FS_Singleton
<1> QED
  BY <1>1, <1>2

(* The answers to a frame are in one place, and there once. *)
LEMMA AnswersOnce ==
    ASSUME SessionTypes, OnePlace, NEW c \in Conn, NEW n
    PROVE  Answers(c, n) <= 1
<1> DEFINE Q == {i \in DOMAIN routeQ : routeQ[i].conn = c /\ routeQ[i].n = n}
           P == {i \in DOMAIN plist[c] : plist[c][i].n = n}
           I == {i \in DOMAIN inbox[c] : inbox[c][i].n = n}
           k == <<c, n>>
<1>1. PICK at : Placed(at)
  BY Zenon DEF OnePlace
<1>2. \A i \in Q : Key(routeQ[i]) = k /\ at[k] = "routeQ"
  <2> SUFFICES ASSUME NEW i \in Q
               PROVE  Key(routeQ[i]) = k /\ at[k] = "routeQ"
    OBVIOUS
  <2>1. Key(routeQ[i]) = k /\ In(routeQ[i], routeQ)
    BY Zenon DEF Key, In
  <2> QED
    BY <1>1, <2>1, Zenon DEF Placed, AllAt
<1>3. \A i \in P : Key(plist[c][i]) = k /\ at[k] = "plist"
  <2> SUFFICES ASSUME NEW i \in P
               PROVE  Key(plist[c][i]) = k /\ at[k] = "plist"
    OBVIOUS
  <2>1. In(plist[c][i], plist[c]) /\ plist[c][i].n = n
    BY Zenon DEF In
  <2>2. Key(plist[c][i]) = k
    BY <2>1, Zenon DEF Key, OnePlace, Single
  <2> QED
    BY <1>1, <2>1, <2>2, Zenon DEF Placed, AllAt
<1>4. \A i \in I : Key(inbox[c][i]) = k /\ at[k] = "inbox"
  <2> SUFFICES ASSUME NEW i \in I
               PROVE  Key(inbox[c][i]) = k /\ at[k] = "inbox"
    OBVIOUS
  <2>1. In(inbox[c][i], inbox[c]) /\ inbox[c][i].n = n
    BY Zenon DEF In
  <2>2. Key(inbox[c][i]) = k
    BY <2>1, Zenon DEF Key, OnePlace, Single
  <2> QED
    BY <1>1, <2>1, <2>2, Zenon DEF Placed, AllAt
<1>5. /\ \A i, j \in Q : i = j
      /\ \A i, j \in P : i = j
      /\ \A i, j \in I : i = j
  BY <1>2, <1>3, <1>4, Zenon DEF OnePlace, Single, Once
<1>6. /\ (Q = {} /\ Cardinality(Q) = 0) \/ (Q # {} /\ Cardinality(Q) = 1)
      /\ (P = {} /\ Cardinality(P) = 0) \/ (P # {} /\ Cardinality(P) = 1)
      /\ (I = {} /\ Cardinality(I) = 0) \/ (I # {} /\ Cardinality(I) = 1)
  <2> HIDE DEF Q, P, I
  <2> QED
    BY <1>5, AtMostOne
<1>7. ~(Q # {} /\ P # {}) /\ ~(Q # {} /\ I # {}) /\ ~(P # {} /\ I # {})
  <2> HIDE DEF Q, P, I, k
  <2>1. (Q # {} => at[k] = "routeQ") /\ (P # {} => at[k] = "plist") /\ (I # {} => at[k] = "inbox")
    BY <1>2, <1>3, <1>4
  <2> QED
    BY <2>1
<1>8. Cardinality(Q) + Cardinality(P) + Cardinality(I) <= 1
  <2> HIDE DEF Q, P, I
  <2> QED
    BY <1>6, <1>7
<1> QED
  BY <1>8 DEF Answers

(* No frame is answered twice, however often workers, router and IO thread *)
(* take turns and however the handing over to the message server ends; and *)
(* a message that the server may have handed over is acknowledged.         *)
THEOREM FramesAnsweredOnce == Spec => []OneAnswer
<1>init. Init => SessionTypes /\ OnePlace /\ AckedInv
  <2> SUFFICES ASSUME Init
               PROVE  SessionTypes /\ OnePlace /\ AckedInv
    OBVIOUS
  <2>1. \A w \in Worker : worker[w] = Idle
    BY InitialTypes, Zenon DEF Init
  <2>2. \A w \in Worker : ~Owes(w) /\ ~At(w, "dispatch")
    BY <2>1 DEF Owes, At, Idle
  <2>3. authQ = <<>> /\ appQ = <<>> /\ routeQ = <<>>
        /\ \A c \in Conn : plist[c] = <<>> /\ inbox[c] = <<>>
    BY Zenon DEF Init
  <2>4. Once(<<>>) /\ \A at, p, K : AllAt(<<>>, at, p, K)
    BY NoneIn DEF Once, AllAt
  <2>5. Single
    BY <2>2, <2>3, <2>4, NoneIn, Zenon DEF Single
  <2>6. PICK at : at = [k \in Keys |-> "none"]
    OBVIOUS
  <2>7. at \in [Keys -> Place]
    BY <2>6 DEF Place
  <2>8. Placed(at)
    BY <2>2, <2>3, <2>4, <2>7, Zenon DEF Placed
  <2>9. AckedInv
    BY <2>2 DEF AckedInv, Init
  <2> QED
    BY <2>5, <2>8, <2>9, InitialTypes, Zenon DEF OnePlace
<1>step. SessionTypes /\ OnePlace /\ AckedInv /\ [Next]_vars
            => (SessionTypes /\ OnePlace /\ AckedInv)'
  BY TypesKept, OnePlaceKept, AckedKept
<1>once. SessionTypes /\ OnePlace /\ AckedInv => OneAnswer
  <2> SUFFICES ASSUME SessionTypes, OnePlace, AckedInv
               PROVE  OneAnswer
    OBVIOUS
  <2>1. AckedBeforeHandled
    <3> SUFFICES ASSUME NEW o \in outcome, sock[o[1]] = "open"
                 PROVE  \/ \E i \in DOMAIN routeQ :
                              routeQ[i].conn = o[1] /\ routeQ[i].n = o[2] /\ routeQ[i].kind = "ack"
                        \/ \E i \in DOMAIN plist[o[1]] :
                              plist[o[1]][i].n = o[2] /\ plist[o[1]][i].kind = "ack"
                        \/ \E i \in DOMAIN inbox[o[1]] :
                              inbox[o[1]][i].n = o[2] /\ inbox[o[1]][i].kind = "ack"
      BY Zenon DEF AckedBeforeHandled
    <3>1. sock[o[1]] # "closed" /\ Acked(o[1], o[2])
      BY DEF AckedInv
    <3>2. PICK r : /\ Ack(o[1], o[2], r)
                   /\ In(r, routeQ) \/ In(r, plist[o[1]]) \/ In(r, inbox[o[1]])
      BY <3>1, Zenon DEF Acked
    <3> QED
      BY <3>2, Zenon DEF Ack, In
  <2>2. \A c \in Conn, n \in 1..MaxFrames : Answers(c, n) <= 1
    BY AnswersOnce
  <2> QED
    BY <2>1, <2>2, Zenon DEF OneAnswer
<1> QED
  BY <1>init, <1>step, <1>once, PTL DEF Spec

=============================================================================
