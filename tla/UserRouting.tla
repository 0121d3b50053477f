----------------------------- MODULE UserRouting ----------------------------
(***************************************************************************)
(* How a message finds the connection of the user it is for.  A table maps *)
(* users to connections (ImUserChannelRegisterTableLocal).  Workers enter  *)
(* the connection a user's frame came from and answer on it; the broker's  *)
(* workers look the user up and hand messages to the local router, whose   *)
(* thread sorts them by IO thread; an IO thread puts them in the push list *)
(* of the connection, or gives them to the collector when it is closed;    *)
(* the collector's thread drops the stale entry of the table, or routes    *)
(* the messages to a newer connection, and then frees them.                *)
(*                                                                         *)
(* The IO threads are those of IoApp, reduced to push lists.  Memory that  *)
(* was freed while a queue still refers to it may read as anything.        *)
(***************************************************************************)
EXTENDS Naturals, Sequences, FiniteSets

CONSTANTS
    Users,
    Conns,      \* ids of connections: positive, in the order of accepting
    Ios,        \* IO threads
    IoOf,       \* the IO thread of a connection
    Msgs,
    For,        \* the user a message is for (_uid)
    Answers,    \* messages that answer a frame; the others come from the broker
    Claims      \* <<u, c>>: frames for user u may arrive on connection c
CONSTANTS
    NoMsg,      \* a null pointer
    BadIo       \* an _io that is not below io_count

NoConn == 0

(* Bound: the greatest connection id an int holds. *)
IntMax == 2147483647

ASSUME RoutingAssumption ==
    /\ Conns \subseteq Nat \ {NoConn}
    /\ IoOf \in [Conns -> Ios]
    /\ For \in [Msgs -> Users]
    /\ Claims \subseteq Users \X Conns
    /\ NoMsg \notin Msgs
    /\ BadIo \notin Ios

ASSUME IdsFitInt == \A c \in Conns : c <= IntMax

VARIABLES
    opened, open,   \* connections that were ever, and are, registered
    table,      \* _register_table_local: user to connection
    claimed,    \* <<u, c>>: a frame of user u on c was accepted
    inHand,     \* <<m, c>>: a worker will route m to c
    conn,       \* _conn of every message (its _io is the thread of _conn)
    localQ,     \* the local router's queue
    slots,      \* what the router has sorted by IO thread
    ioQ,        \* _msg_queue of every IO thread
    pushing,    \* what push() of every IO thread still has to hand out
    held,       \* push list of every connection
    sent,       \* what was sent on every connection
    routed,     \* <<m, c>> in the order put in localQ
    collQ,      \* the collector's queue
    groups,     \* what the collector has sorted by user
    found,      \* the group failureRoute has found a connection for,
    newConn,    \* and that connection
    walk,       \* the message the collector frees next, behind a route
    freed,      \* messages whose memory was freed by the collector
    aborted     \* the router's assertion has failed

tableVars == <<opened, open, table, claimed, inHand>>
routeVars == <<conn, localQ, slots, routed>>
ioVars == <<ioQ, pushing, held, sent>>
collVars == <<collQ, groups, found, newConn, walk, freed>>
vars == <<tableVars, routeVars, ioVars, collVars, aborted>>

In(x, s) == \E i \in DOMAIN s : s[i] = x

(* Mutant of SubSeqAt: the list is built by putting each element in front. *)
SubSeqReversed(s, K) ==
    [n \in 1..Cardinality(K) |->
        s[CHOOSE k \in K : Cardinality({j \in K : j >= k}) = n]]

(* The elements of s at the positions K, in the order of s. *)
SubSeqAt(s, K) ==
    [n \in 1..Cardinality(K) |->
        s[CHOOSE k \in K : Cardinality({j \in K : j <= k}) = n]]

TypeOK ==
    /\ open \subseteq opened /\ opened \subseteq Conns
    /\ table \in [Users -> Conns \cup {NoConn}]
    /\ claimed \subseteq Claims
    /\ inHand \subseteq Msgs \X Conns
    /\ conn \in [Msgs -> Conns \cup {NoConn}]
    /\ {localQ, collQ} \subseteq Seq(Msgs)
    /\ {slots, ioQ, pushing} \subseteq [Ios -> Seq(Msgs)]
    /\ {held, sent} \subseteq [Conns -> Seq(Msgs)]
    /\ routed \in Seq(Msgs \X Conns)
    /\ groups \in [Users -> Seq(Msgs)]
    /\ found \in Seq(Msgs)
    /\ newConn \in Conns \cup {NoConn}
    /\ walk \in Msgs \cup {NoMsg}
    /\ freed \subseteq Msgs
    /\ aborted \in BOOLEAN

Init ==
    /\ opened = {} /\ open = {}
    /\ table = [u \in Users |-> NoConn]
    /\ claimed = {} /\ inHand = {}
    /\ conn = [m \in Msgs |-> NoConn]
    /\ localQ = <<>> /\ routed = <<>>
    /\ slots = [i \in Ios |-> <<>>]
    /\ ioQ = [i \in Ios |-> <<>>]
    /\ pushing = [i \in Ios |-> <<>>]
    /\ held = [c \in Conns |-> <<>>]
    /\ sent = [c \in Conns |-> <<>>]
    /\ collQ = <<>> /\ found = <<>>
    /\ groups = [u \in Users |-> <<>>]
    /\ newConn = NoConn
    /\ walk = NoMsg
    /\ freed = {}
    /\ aborted = FALSE

-----------------------------------------------------------------------------
(* Connections open and close.  A close hands the first message of the     *)
(* push list to the collector (see IoApp) between two callbacks.           *)
Open(c) ==
    /\ ~aborted
    /\ c \notin opened
    /\ opened' = opened \cup {c}
    /\ open' = open \cup {c}
    /\ UNCHANGED <<table, claimed, inHand, routeVars, ioVars, collVars,
                   aborted>>

Close(c) ==
    /\ ~aborted
    /\ c \in open
    /\ pushing[IoOf[c]] = <<>>
    /\ open' = open \ {c}
    /\ held' = [held EXCEPT ![c] = <<>>]
    /\ collQ' = IF held[c] = <<>> THEN collQ ELSE Append(collQ, Head(held[c]))
    /\ UNCHANGED <<opened, table, claimed, inHand, routeVars, ioQ, pushing,
                   sent, groups, found, newConn, walk, freed, aborted>>

(* Each message is made once. *)
Fresh(m) == conn[m] = NoConn /\ \A h \in inHand : h[1] # m

(* update: a worker processes an AUTH or TOUCH frame that arrived on c,    *)
(* perhaps long ago, and will answer it.                                   *)
Update(m, c) ==
    /\ ~aborted
    /\ m \in Answers /\ Fresh(m)
    /\ c \in opened /\ <<For[m], c>> \in Claims
    /\ table' = [table EXCEPT ![For[m]] = c]
    /\ claimed' = claimed \cup {<<For[m], c>>}
    /\ inHand' = inHand \cup {<<m, c>>}
    /\ UNCHANGED <<opened, open, routeVars, ioVars, collVars, aborted>>

(* A worker acknowledges a MSG frame of a connection that has logged in;   *)
(* the user is the one the frame names.                                    *)
Acknowledge(m, c) ==
    /\ ~aborted
    /\ m \in Answers /\ Fresh(m)
    /\ <<For[m], c>> \in Claims
    /\ \E u \in Users : <<u, c>> \in claimed
    /\ claimed' = claimed \cup {<<For[m], c>>}
    /\ inHand' = inHand \cup {<<m, c>>}
    /\ UNCHANGED <<opened, open, table, routeVars, ioVars, collVars, aborted>>

(* Mutant of LookUp: get does not reset the channel, which still holds the *)
(* entry of the user looked up before.                                     *)
LookUpStaleChannel(m) ==
    /\ ~aborted
    /\ m \notin Answers /\ Fresh(m)
    /\ \E u \in Users :
          /\ table[u] # NoConn
          /\ table[For[m]] \in {NoConn, table[u]}
          /\ inHand' = inHand \cup {<<m, table[u]>>}
    /\ UNCHANGED <<opened, open, table, claimed, routeVars, ioVars, collVars,
                   aborted>>

(* routeList looks the user of a message from the broker up.  A user       *)
(* without an entry is not on this server: the message is dropped.         *)
LookUp(m) ==
    /\ ~aborted
    /\ m \notin Answers /\ Fresh(m)
    /\ table[For[m]] # NoConn
    /\ inHand' = inHand \cup {<<m, table[For[m]]>>}
    /\ UNCHANGED <<opened, open, table, claimed, routeVars, ioVars, collVars,
                   aborted>>

(* putList: a list for connection c is appended to the router's queue. *)
PutList(list, c) ==
    /\ conn' = [m \in Msgs |-> IF In(m, list) THEN c ELSE conn[m]]
    /\ localQ' = localQ \o list
    /\ routed' = routed \o [i \in DOMAIN list |-> <<list[i], c>>]
    /\ UNCHANGED slots

(* routeBack, and the end of routeList: the worker routes what it holds,   *)
(* by the connection it has seen before.                                   *)
Route(m, c) ==
    /\ ~aborted
    /\ <<m, c>> \in inHand
    /\ inHand' = inHand \ {<<m, c>>}
    /\ PutList(<<m>>, c)
    /\ UNCHANGED <<opened, open, table, claimed, ioVars, collVars, aborted>>

-----------------------------------------------------------------------------
(* What reading a message gives: its own fields, or anything once freed    *)
(* (createIMessage sets _io and _conn of reused memory to -1 at first).    *)
ReadIo(m) == IF m \in freed THEN Ios \cup {BadIo} ELSE {IoOf[conn[m]]}
ReadConn(m) == IF m \in freed THEN Conns \cup {NoConn} ELSE {conn[m]}

(* The router's thread takes its queue and sorts it by IO thread; the      *)
(* assertion is that every _io is below io_count.                          *)
Sort ==
    /\ ~aborted
    /\ localQ # <<>>
    /\ \A i \in Ios : slots[i] = <<>>
    /\ localQ' = <<>>
    /\ \E io \in [DOMAIN localQ -> Ios \cup {BadIo}] :
          /\ \A k \in DOMAIN localQ : io[k] \in ReadIo(localQ[k])
          /\ aborted' = \E k \in DOMAIN localQ : io[k] = BadIo
          /\ slots' = [i \in Ios |->
                SubSeqAt(localQ, {k \in DOMAIN localQ : io[k] = i})]
    /\ UNCHANGED <<tableVars, conn, routed, ioVars, collVars>>

(* dispatchPushList for the slots in turn (IO threads differ in nothing    *)
(* but their connections: any order covers the code's).                    *)
Dispatch(i) ==
    /\ ~aborted
    /\ slots[i] # <<>>
    /\ ioQ' = [ioQ EXCEPT ![i] = @ \o slots[i]]
    /\ slots' = [slots EXCEPT ![i] = <<>>]
    /\ UNCHANGED <<tableVars, conn, localQ, routed, pushing, held, sent,
                   collVars, aborted>>

(* push takes the queue of its thread, then hands out message by message. *)
StartPush(i) ==
    /\ ~aborted
    /\ pushing[i] = <<>>
    /\ ioQ[i] # <<>>
    /\ pushing' = [pushing EXCEPT ![i] = ioQ[i]]
    /\ ioQ' = [ioQ EXCEPT ![i] = <<>>]
    /\ UNCHANGED <<tableVars, routeVars, held, sent, collVars, aborted>>

PushMessage(i) ==
    /\ ~aborted
    /\ pushing[i] # <<>>
    /\ pushing' = [pushing EXCEPT ![i] = Tail(@)]
    /\ \E c \in ReadConn(Head(pushing[i])) :
          \/ /\ c \in open /\ IoOf[c] = i
             /\ held' = [held EXCEPT ![c] = Append(@, Head(pushing[i]))]
             /\ UNCHANGED collQ
          \/ /\ ~(c \in open /\ IoOf[c] = i)
             /\ collQ' = Append(collQ, Head(pushing[i]))
             /\ UNCHANGED held
    /\ UNCHANGED <<tableVars, routeVars, ioQ, sent, groups, found,
                   newConn, walk, freed, aborted>>

(* writeSocket, for a whole frame. *)
Send(c) ==
    /\ ~aborted
    /\ c \in open
    /\ pushing[IoOf[c]] = <<>>
    /\ held[c] # <<>>
    /\ held' = [held EXCEPT ![c] = Tail(@)]
    /\ sent' = [sent EXCEPT ![c] = Append(@, Head(held[c]))]
    /\ UNCHANGED <<tableVars, routeVars, ioQ, pushing, collVars, aborted>>

-----------------------------------------------------------------------------
(* The collector's thread takes its queue and sorts it by user.  Bound: the *)
(* model ends where it would take up a message it has already freed.       *)
TakePending ==
    /\ ~aborted
    /\ collQ # <<>>
    /\ found = <<>> /\ walk = NoMsg
    /\ \A u \in Users : groups[u] = <<>>
    /\ collQ' = <<>>
    /\ \A k \in DOMAIN collQ : collQ[k] \notin freed
    /\ groups' = [u \in Users |->
          SubSeqAt(collQ, {k \in DOMAIN collQ : For[collQ[k]] = u})]
    /\ UNCHANGED <<tableVars, routeVars, ioVars, found, newConn, walk, freed,
                   aborted>>

(* The newest connection on which a message of the group has failed. *)
MaxConn(g) == CHOOSE c \in {conn[g[i]] : i \in DOMAIN g} :
                 \A i \in DOMAIN g : conn[g[i]] <= c

(* Mutants: the comparison of getOrUnset turned round; no erase. *)
NewerSwapped(u, c) == c > table[u]
UnsetNothing(u) == table

(* getOrUnset keeps an entry newer than connection c, and removes an older *)
(* one or that of c itself.                                                *)
Newer(u, c) == table[u] > c
Unset(u) == [table EXCEPT ![u] = NoConn]

(* collect for the group of user u, up to what failureRoute learns from    *)
(* the table.  Without a newer connection the group is freed.              *)
LookForNewer(u) ==
    /\ ~aborted
    /\ groups[u] # <<>>
    /\ found = <<>> /\ walk = NoMsg
    /\ groups' = [groups EXCEPT ![u] = <<>>]
    /\ \/ /\ Newer(u, MaxConn(groups[u]))
          /\ found' = groups[u]
          /\ newConn' = table[u]
          /\ UNCHANGED <<table, freed>>
       \/ /\ ~Newer(u, MaxConn(groups[u]))
          /\ table' = Unset(u)
          /\ freed' = freed \cup {groups[u][i] : i \in DOMAIN groups[u]}
          /\ UNCHANGED <<found, newConn>>
    /\ UNCHANGED <<opened, open, claimed, inHand, routeVars, ioVars, collQ,
                   walk, aborted>>

(* failureRoute routes the group to the connection found; it returns -1    *)
(* all the same, so that collect goes on to free the group.  The id goes   *)
(* through an int, which keeps it up to IntMax.                            *)
RouteAgain ==
    /\ ~aborted
    /\ found # <<>>
    /\ PutList(found, newConn)
    /\ walk' = Head(found)
    /\ found' = <<>>
    /\ UNCHANGED <<tableVars, ioVars, collQ, groups, newConn, freed, aborted>>

(* The message behind m in the list that holds it (_next). *)
Lists == {localQ, collQ} \cup {slots[i] : i \in Ios} \cup {ioQ[i] : i \in Ios}
           \cup {pushing[i] : i \in Ios} \cup {held[c] : c \in Conns}
Behind(m) == {n \in Msgs : \E s \in Lists : \E k \in DOMAIN s :
                 k > 1 /\ s[k] = n /\ s[k - 1] = m}

(* collect frees a message of what it believes to be its list, and goes on *)
(* along _next.                                                            *)
FreeRouted ==
    /\ ~aborted
    /\ walk # NoMsg
    /\ freed' = freed \cup {walk}
    /\ walk' \in IF Behind(walk) \ freed = {} THEN {NoMsg}
                ELSE Behind(walk) \ freed
    /\ UNCHANGED <<tableVars, routeVars, ioVars, collQ, groups, found,
                   newConn, aborted>>

Next ==
    \/ \E c \in Conns : Open(c)
    \/ \E c \in Conns : Close(c)
    \/ \E m \in Msgs, c \in Conns : Update(m, c)
    \/ \E m \in Msgs, c \in Conns : Acknowledge(m, c)
    \/ \E m \in Msgs : LookUp(m)
    \/ \E m \in Msgs, c \in Conns : Route(m, c)
    \/ Sort
    \/ \E i \in Ios : Dispatch(i)
    \/ \E i \in Ios : StartPush(i)
    \/ \E i \in Ios : PushMessage(i)
    \/ \E c \in Conns : Send(c)
    \/ TakePending
    \/ \E u \in Users : LookForNewer(u)
    \/ RouteAgain
    \/ FreeRouted

(* The collector's thread keeps running. *)
Fairness ==
    /\ WF_vars(TakePending)
    /\ WF_vars(\E u \in Users : LookForNewer(u))
    /\ WF_vars(RouteAgain)
    /\ WF_vars(FreeRouted)

Spec == Init /\ [][Next]_vars /\ Fairness

-----------------------------------------------------------------------------
(* RightUser: a message is put in the push list of, and sent on, only      *)
(* connections from which a frame of its user was accepted, unless its     *)
(* memory was freed underneath it.                                         *)
RightUser ==
    /\ TypeOK
    /\ \A c \in Conns, m \in Msgs \ freed :
          In(m, held[c]) \/ In(m, sent[c]) => <<For[m], c>> \in claimed

(* RouteOrder: two messages sent on a connection were routed to it in the  *)
(* same order: sorting by IO thread and handing over in batches keep it.   *)
RouteOrder ==
    \A c \in Conns : \A i, j \in DOMAIN sent[c] :
        i < j /\ {sent[c][i], sent[c][j]} \cap freed = {} =>
            \E p, q \in DOMAIN routed :
                /\ p < q
                /\ routed[p] = <<sent[c][i], c>>
                /\ routed[q] = <<sent[c][j], c>>

(* OpenEntryKept: the collector removes the entry of an open connection    *)
(* only when a frame of the same user came from a newer connection, which  *)
(* has closed: a failed push to an old connection does not make the user   *)
(* unreachable on the current one.                                         *)
EntryKept ==
    \A u \in Users :
        table[u] \in open /\ table'[u] = NoConn =>
            \E c \in opened \ open : c > table[u] /\ <<u, c>> \in claimed
OpenEntryKept == [][EntryKept]_vars

(* A list refers to a message that was freed. *)
Dangling == \E l \in Lists \cup {groups[u] : u \in Users} \cup {found} :
               \E m \in freed : In(m, l)

(* A message has failed on a connection and is in the collector's queue;   *)
(* the table does not name the connection for the message's user (or a     *)
(* freed message is in use).                                               *)
FailedOn(m, c) == ~Dangling /\ In(m, collQ) /\ conn[m] = c
Forgotten(m, c) == aborted \/ Dangling \/ table[For[m]] # c

(* AssertIo: assert(io < io_count) in the router's thread never fails. *)
AssertIo == ~aborted
=============================================================================
