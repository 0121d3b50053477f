------------------------------- MODULE IoApp --------------------------------
(***************************************************************************)
(* One IO thread with its connections and the messages pushed to them.     *)
(* The local router appends messages to the thread's queue; push() hands   *)
(* each to the connection it names, or to the pending message collector    *)
(* when that connection is gone; writeSocket() sends a connection's push   *)
(* list frame by frame; closing a connection gives what was not sent to    *)
(* the collector.  The connection objects are those of ConnLifecycle.      *)
(***************************************************************************)
EXTENDS ConnLifecycle

CONSTANTS
    Msgs,       \* messages, each dispatched at most once
    To,         \* the connection a message is for (_conn)
    Closing,    \* messages with _close_conn set
    Switching,  \* messages with _switch_state set
    NoMsg,      \* the null push data
    FrameLen    \* units a frame is sent in; a send writes one or more

ASSUME IoAppAssumption ==
    /\ To \in [Msgs -> Conns]
    /\ Closing \subseteq Msgs
    /\ Switching \subseteq Msgs
    /\ NoMsg \notin Msgs
    /\ FrameLen \in Nat \ {0}

VARIABLES
    dispatched, \* messages put in the queue, in the order they were
    msgQ,       \* _msg_queue
    batch,      \* push: what it still has to hand out
    plist,      \* _push_buffer of every object
    cur,        \* _current_push of every object
    wpos,       \* how much of it has been sent
    armed,      \* the write event is registered (_wevent_flag)
    state,      \* _state of every object: 0 until a message switches it
    frames,     \* <<_conn, _state>> of the frames handed to the processor
    wire,       \* what was sent on every connection: <<msg, from, to>>
    collected   \* messages the collector's queue received

pushVars == <<dispatched, msgQ, batch, plist, cur, wpos, armed, state,
              frames, wire, collected>>
vars == <<connVars, pushVars>>

TypeOK ==
    /\ ConnTypeOK
    /\ dispatched \in Seq(Msgs)
    /\ msgQ \in Seq(Msgs)
    /\ batch \in Seq(Msgs)
    /\ plist \in [Objs -> Seq(Msgs)]
    /\ cur \in [Objs -> Msgs \cup {NoMsg}]
    /\ wpos \in [Objs -> 0..(FrameLen - 1)]
    /\ armed \in [Objs -> BOOLEAN]
    /\ state \in [Objs -> {0, 1}]
    /\ frames \subseteq Conns \X {0, 1}
    /\ wire \in [Conns -> Seq(Msgs \X (0..FrameLen) \X (0..FrameLen))]
    /\ collected \in Seq(Msgs)

Init ==
    /\ ConnInit
    /\ dispatched = <<>>
    /\ msgQ = <<>>
    /\ batch = <<>>
    /\ plist = [o \in Objs |-> <<>>]
    /\ cur = [o \in Objs |-> NoMsg]
    /\ wpos = [o \in Objs |-> 0]
    /\ armed = [o \in Objs |-> FALSE]
    /\ state = [o \in Objs |-> 0]
    /\ frames = {}
    /\ wire = [c \in Conns |-> <<>>]
    /\ collected = <<>>

In(m, s) == \E i \in DOMAIN s : s[i] = m

-----------------------------------------------------------------------------
(* A socket is dispatched; newConnection runs.  initialize() clears what   *)
(* the previous connection of the object left.                             *)
Dispatch(c) == Accept(c) /\ UNCHANGED pushVars
NewStart == StartNew /\ UNCHANGED pushVars
NewEnd == EndNew /\ UNCHANGED pushVars
Iterate == NextIteration /\ UNCHANGED pushVars

(* A slip: the recycled object keeps its state machine. *)
NewConnectionKeeps(o) ==
    /\ InitConn(o)
    /\ cur' = [cur EXCEPT ![o] = NoMsg]
    /\ armed' = [armed EXCEPT ![o] = FALSE]
    /\ UNCHANGED <<dispatched, msgQ, batch, plist, wpos, state, frames, wire,
                   collected>>

NewConnection(o) ==
    /\ InitConn(o)
    /\ cur' = [cur EXCEPT ![o] = NoMsg]
    /\ armed' = [armed EXCEPT ![o] = FALSE]
    /\ state' = [state EXCEPT ![o] = 0]
    /\ UNCHANGED <<dispatched, msgQ, batch, plist, wpos, frames, wire,
                   collected>>

(* dispatchPushList: a message names a connection that has existed: it     *)
(* answers a frame of it, or the routing table learnt it from one.         *)
DispatchPush(m) ==
    /\ ~In(m, dispatched)
    /\ To[m] \in issued /\ ~In(To[m], sockQ) /\ ~In(To[m], list)
    /\ dispatched' = Append(dispatched, m)
    /\ msgQ' = Append(msgQ, m)
    /\ UNCHANGED <<connVars, batch, plist, cur, wpos, armed, state, frames,
                   wire, collected>>

(* push takes the whole queue. *)
StartPush ==
    /\ pc = "loop"
    /\ msgQ # <<>>
    /\ batch' = msgQ
    /\ msgQ' = <<>>
    /\ pc' = "push"
    /\ UNCHANGED <<sockQ, issued, list, register, connCount, cache, recycle,
                   loopCount, id, destroyed, newRan, closedNow>>
    /\ UNCHANGED <<dispatched, plist, cur, wpos, armed, state, frames, wire,
                   collected>>

(* IoPushList::put, and a slip: putting in front. *)
PutInFront(s, m) == <<m>> \o s
PushPut(s, m) == Append(s, m)

(* pushMessage for the first message of the batch. *)
PushMessage ==
    /\ pc = "push"
    /\ batch # <<>>
    /\ batch' = Tail(batch)
    /\ LET m == Head(batch)
           o == register[To[m]]
       IN  \/ /\ o # NoObj
              /\ state' = IF m \in Switching THEN [state EXCEPT ![o] = 1]
                                             ELSE state
              /\ armed' = [armed EXCEPT ![o] = TRUE]
              /\ plist' = [plist EXCEPT ![o] = PushPut(@, m)]
              /\ UNCHANGED collected
           \/ /\ o = NoObj
              /\ collected' = Append(collected, m)
              /\ UNCHANGED <<state, armed, plist>>
    /\ UNCHANGED <<connVars, dispatched, msgQ, cur, wpos, frames, wire>>

EndPush ==
    /\ pc = "push"
    /\ batch = <<>>
    /\ pc' = "loop"
    /\ UNCHANGED <<sockQ, issued, list, register, connCount, cache, recycle,
                   loopCount, id, destroyed, newRan, closedNow>>
    /\ UNCHANGED pushVars

-----------------------------------------------------------------------------
(* A complete frame is handed to the processor with the connection's id    *)
(* and state.  (A refused frame closes the connection: see Shut.)          *)
ReceiveFrame(o) ==
    /\ pc = "loop"
    /\ ~destroyed[o]
    /\ frames' = frames \cup {<<id[o], state[o]>>}
    /\ UNCHANGED <<connVars, dispatched, msgQ, batch, plist, cur, wpos, armed,
                   state, wire, collected>>

(* What writeSocket works on, and what waits behind it. *)
HasData(o) == cur[o] # NoMsg \/ plist[o] # <<>>
Current(o) == IF cur[o] # NoMsg THEN cur[o] ELSE Head(plist[o])
Behind(o) == IF cur[o] # NoMsg THEN plist[o] ELSE Tail(plist[o])

(* A slip: the write event stays registered only while a frame is partly   *)
(* sent.                                                                   *)
SendOne(o, n) ==
    /\ wpos' = [wpos EXCEPT ![o] = (@ + n) % FrameLen]
    /\ wire' = IF n = 0 THEN wire
               ELSE [wire EXCEPT ![id[o]] =
                       Append(@, <<Current(o), wpos[o], wpos[o] + n>>)]
    /\ cur' = [cur EXCEPT ![o] = IF wpos[o] + n < FrameLen THEN Current(o)
                                                           ELSE NoMsg]
    /\ plist' = [plist EXCEPT ![o] = Behind(o)]
    /\ armed' = [armed EXCEPT ![o] = wpos[o] + n < FrameLen]

(* A slip: what was sent of a frame is forgotten. *)
SendAgain(o, n) ==
    /\ wire' = IF n = 0 THEN wire
               ELSE [wire EXCEPT ![id[o]] = Append(@, <<Current(o), 0, n>>)]
    /\ UNCHANGED wpos
    /\ \/ /\ n < FrameLen
          /\ cur' = [cur EXCEPT ![o] = Current(o)]
          /\ plist' = [plist EXCEPT ![o] = Behind(o)]
          /\ UNCHANGED armed
       \/ /\ n = FrameLen
          /\ cur' = [cur EXCEPT ![o] = NoMsg]
          /\ plist' = [plist EXCEPT ![o] = Behind(o)]
          /\ armed' = [armed EXCEPT ![o] = Behind(o) # <<>>]

(* _wpos after n more units; the next frame starts at 0. *)
Advance(p, n) == (p + n) % FrameLen

(* send() takes n units of the current frame, none when it would block.    *)
(* After the last the next frame becomes current, or with no next frame    *)
(* the write event is removed.                                             *)
Send(o, n) ==
    /\ wpos' = [wpos EXCEPT ![o] = Advance(@, n)]
    /\ wire' = IF n = 0 THEN wire
               ELSE [wire EXCEPT ![id[o]] =
                       Append(@, <<Current(o), wpos[o], wpos[o] + n>>)]
    /\ \/ /\ wpos[o] + n < FrameLen
          /\ cur' = [cur EXCEPT ![o] = Current(o)]
          /\ plist' = [plist EXCEPT ![o] = Behind(o)]
          /\ UNCHANGED armed
       \/ /\ wpos[o] + n = FrameLen
          /\ Behind(o) # <<>>
          /\ cur' = [cur EXCEPT ![o] = Head(Behind(o))]
          /\ plist' = [plist EXCEPT ![o] = Tail(Behind(o))]
          /\ UNCHANGED armed
       \/ /\ wpos[o] + n = FrameLen
          /\ Behind(o) = <<>>
          /\ cur' = [cur EXCEPT ![o] = NoMsg]
          /\ plist' = [plist EXCEPT ![o] = <<>>]
          /\ armed' = [armed EXCEPT ![o] = FALSE]

(* A slip: a close that forgets the push list, which the next connection   *)
(* of the object inherits.                                                 *)
GiveUpCurrent(o) ==
    /\ collected' = IF cur[o] # NoMsg THEN Append(collected, cur[o])
                                      ELSE collected
    /\ cur' = [cur EXCEPT ![o] = NoMsg]
    /\ wpos' = [wpos EXCEPT ![o] = 0]
    /\ armed' = [armed EXCEPT ![o] = FALSE]
    /\ UNCHANGED <<dispatched, msgQ, batch, plist, state, frames, wire>>

(* A slip: the message just sent is still current when the close runs. *)
GiveUpSent(o) ==
    /\ collected' = IF wire[id[o]] = <<>> THEN collected
                    ELSE Append(collected, wire[id[o]][Len(wire[id[o]])][1])
    /\ cur' = [cur EXCEPT ![o] = NoMsg]
    /\ plist' = [plist EXCEPT ![o] = <<>>]
    /\ wpos' = [wpos EXCEPT ![o] = 0]
    /\ armed' = [armed EXCEPT ![o] = FALSE]
    /\ UNCHANGED <<dispatched, msgQ, batch, state, frames, wire>>

(* The message part of closeSocket and resetSocket: the current message    *)
(* goes back to the front of the push list, and whenClosed passes the head *)
(* of the list to collect(), whose put() cuts the chain behind it.         *)
GiveUp(o) ==
    /\ collected' = IF HasData(o) THEN Append(collected, Current(o))
                                  ELSE collected
    /\ cur' = [cur EXCEPT ![o] = NoMsg]
    /\ plist' = [plist EXCEPT ![o] = <<>>]
    /\ wpos' = [wpos EXCEPT ![o] = 0]
    /\ armed' = [armed EXCEPT ![o] = FALSE]
    /\ UNCHANGED <<dispatched, msgQ, batch, state, frames, wire>>

(* The write event fires.  (Were there nothing to send, the code would     *)
(* remove the event; ArmedIffData shows that this does not happen.)        *)
WriteSocket(o) ==
    /\ pc = "loop"
    /\ ~destroyed[o]
    /\ armed[o]
    /\ HasData(o)
    /\ \/ /\ Current(o) \in Closing
          /\ CloseConn(o)
          /\ GiveUp(o)
       \/ /\ Current(o) \notin Closing
          /\ \E n \in 0..(FrameLen - wpos[o]) : Send(o, n)
          /\ UNCHANGED <<connVars, dispatched, msgQ, batch, state, frames,
                         collected>>

(* A slip: the close does not reach destroy. *)
ShutQuietly(o) ==
    /\ pc = "loop"
    /\ ~destroyed[o]
    /\ destroyed' = [destroyed EXCEPT ![o] = TRUE]
    /\ GiveUp(o)
    /\ UNCHANGED <<sockQ, issued, pc, list, register, connCount, cache,
                   recycle, loopCount, id, newRan, closedNow>>

(* The peer closes, a timeout fires, a frame is refused or a send fails. *)
Shut(o) == CloseConn(o) /\ GiveUp(o)

(* A recv fails. *)
RecvFails(o) == ReadFails(o) /\ GiveUp(o)

Next ==
    \/ \E c \in Conns : Dispatch(c)
    \/ NewStart
    \/ \E o \in Objs : NewConnection(o)
    \/ NewEnd
    \/ Iterate
    \/ \E m \in Msgs : DispatchPush(m)
    \/ StartPush
    \/ PushMessage
    \/ EndPush
    \/ \E o \in Objs : ReceiveFrame(o)
    \/ \E o \in Objs : WriteSocket(o)
    \/ \E o \in Objs : Shut(o)
    \/ \E o \in Objs : RecvFails(o)

(* The event loop finishes its callbacks.  A registered write event fires  *)
(* in the end: the socket is writable and takes something, or the write    *)
(* timeout resets the connection.                                          *)
Progress(o) == (WriteSocket(o) /\ wire' # wire) \/ (armed[o] /\ Shut(o))
Fairness ==
    /\ WF_vars(NewEnd) /\ WF_vars(\E o \in Objs : NewConnection(o))
    /\ WF_vars(PushMessage) /\ WF_vars(EndPush)
    /\ \A o \in Objs : WF_vars(Progress(o))

Spec == Init /\ [][Next]_vars /\ Fairness

-----------------------------------------------------------------------------
(* NoCrossDelivery: what an object holds for sending is for the connection *)
(* it serves now, and what was sent on a connection was for it, also after *)
(* the object has been recycled.                                           *)
NoCrossDelivery ==
    /\ \A o \in Objs, m \in Msgs :
          cur[o] = m \/ In(m, plist[o]) => To[m] = id[o] /\ ~destroyed[o]
    /\ \A c \in Conns : \A i \in DOMAIN wire[c] : To[wire[c][i][1]] = c

(* ArmedIffData: the write event of a connection is registered exactly     *)
(* while it has something to send: a message is not left waiting without   *)
(* an event, and an idle connection does not spin on a writable socket.    *)
ArmedIffData == \A o \in Objs : armed[o] <=> HasData(o)

(* WholeFrames: the byte stream of a connection is a sequence of whole     *)
(* frames, of which only the last may be cut short.                        *)
WholeFrames ==
    \A c \in Conns : \A i \in DOMAIN wire[c] :
        /\ i = 1 => wire[c][i][2] = 0
        /\ i > 1 /\ wire[c][i - 1][3] = FrameLen => wire[c][i][2] = 0
        /\ i > 1 /\ wire[c][i - 1][3] < FrameLen =>
              /\ wire[c][i][1] = wire[c][i - 1][1]
              /\ wire[c][i][2] = wire[c][i - 1][3]

(* Messages whose last unit was sent on connection c. *)
Sent(c) == {wire[c][i][1] : i \in {j \in DOMAIN wire[c] : wire[c][j][3] = FrameLen}}

(* SendOrder: a connection's messages are sent in the order in which the   *)
(* router dispatched them, and none again once it was sent completely.     *)
SendOrder ==
    \A c \in Conns : \A i, j \in DOMAIN wire[c] : \A p, q \in DOMAIN dispatched :
        i < j /\ wire[c][i][1] = dispatched[p] /\ wire[c][j][1] = dispatched[q]
            => p < q \/ (p = q /\ wire[c][i][3] < FrameLen)

(* StreamIntact: what a client reads is whole frames, each once, in the    *)
(* order of the messages, and a write event is registered exactly while    *)
(* there are more.                                                         *)
StreamIntact == TypeOK /\ ArmedIffData /\ WholeFrames /\ SendOrder

(* NotSentAndCollected: a message that was sent completely is not given to *)
(* the collector, which would route it again; and none is collected twice. *)
NotSentAndCollected ==
    /\ \A c \in Conns : \A i \in DOMAIN collected : collected[i] \notin Sent(c)
    /\ \A i, j \in DOMAIN collected : collected[i] = collected[j] => i = j

(* FreshState: a frame is handed up with a state other than 0, "the first  *)
(* pack", only on a connection for which a message switched the state:     *)
(* the next user of a recycled object starts unauthenticated.              *)
FreshState ==
    \A f \in frames :
        f[2] # 0 => \E m \in Switching : In(m, dispatched) /\ To[m] = f[1]

(* RecycledClean: nothing of a connection, messages or state, is left for  *)
(* the next one that gets its object.                                      *)
RecycledClean == NoCrossDelivery /\ FreshState

(* Where a dispatched message can be. *)
Held(m) == \E o \in Objs : cur[o] = m \/ In(m, plist[o])
Accounted(m) ==
    \/ In(m, msgQ) \/ In(m, batch) \/ Held(m) \/ In(m, collected)
    \/ \E c \in Conns : m \in Sent(c)

(* NothingLost: a connection that closes hands "the pushlist message(s)"   *)
(* to the collector: no dispatched message disappears.                     *)
NothingLost == \A i \in DOMAIN dispatched : Accounted(dispatched[i])

(* PushListDrains: a message handed to a connection does not stay there:   *)
(* it is sent or the connection is closed by its write timeout.  (Every    *)
(* message is handed over once, so that it is held for one stretch of time *)
(* and this says that each stretch ends.)                                  *)
PushListDrains == []<>(\A m \in Msgs : ~Held(m))
=============================================================================
