--------------------------- MODULE ImMessageParser ---------------------------
(***************************************************************************)
(* From the frame a client sends to the frames the clients it concerns     *)
(* get: ImMessageParser (message/im_message_parser.cpp) parses the pack,   *)
(* turns it into an answer or, for a message, into an acknowledgement, and *)
(* hands it on to the message server; the server that has the targets      *)
(* parses it again and makes one frame for each target.  The same ImPack   *)
(* object and the same IMessage buffer (framework/ms/ms_message.cpp) are   *)
(* used for what comes in and for what goes out.                           *)
(***************************************************************************)
EXTENDS ImProto, FiniteSetsExt

CONSTANTS Frames,    \* the frames clients send, as tokens
          FrameMax,  \* FRAME_MAX_SIZE: longer frames are not read (IoFraming)
          TargetMax, \* TARGET_MAX: entries of createLocalMsgPack's array of targets
          MsgId,     \* length of a message id (genMsgId answers 8)
          Now        \* the server's time since 2015

VARIABLES
  frame,   \* the frame the client sent
  pc,      \* "frame", "parsed", "refused", "answered", "acked", "routed"
  pack,    \* the IMessagePack: its message and its data; <<>> once released
  back,    \* messages for the connection the frame came from
  out      \* messages for the targets, on the server that has them

vars == <<frame, pc, pack, back, out>>

(***************************************************************************)
(* IMessage: a buffer of `size' bytes with a frame in it: the length in    *)
(* its head, the magic number, the data.                                   *)
(***************************************************************************)
HeadBytes == 8

Blank(size, len, data) ==
  [size |-> size, data_len |-> len, frame_len |-> len + HeadBytes,
   head |-> len + 4, data |-> data, uid |-> -1, need_collect |-> 0,
   from |-> "none", to |-> "none"]

\* createIMessage(b, len): a copy of the frame, with room behind it
FromFrame(data) ==
  LET n == WireSize(data) IN Blank(n + HeadBytes + 32, n, data)

\* createIMessage(len)
createIMessage(len) == Blank(len + HeadBytes, len, <<>>)

fixIMessageOldHead(msg, len) ==
  [msg EXCEPT !.size = Max({@, len + HeadBytes}), !.data_len = len,
              !.frame_len = len + HeadBytes]

fixIMessage(msg, len) ==
  [msg EXCEPT !.size = Max({@, len + HeadBytes}), !.data_len = len,
              !.frame_len = len + HeadBytes, !.head = len + 4]

\* size = ByteSize(); SerializeToArray(msg->_data, size)
Fill(msg, p) == [msg EXCEPT !.data = ImPack_Write(p)]

\* into the buffer of a message there is
Refill(msg, p) == Fill(fixIMessage(msg, ImPack_ByteSize(p)), p)

(***************************************************************************)
(* The parser's operations.                                                *)
(***************************************************************************)
Complete(r) == [r EXCEPT !.ok = @ /\ {1, 2} \subseteq r.m.has]

parse(data) == Complete(ParseFromArray(NewImPack, data))

getMessagePackType(p) == CASE p.val[1] = 1 -> "TOUCH"
                           [] p.val[1] = 3 -> "MSG"
                           [] p.val[1] = 4 -> "MSG_ACK"
                           [] p.val[1] = 5 -> "AUTH"
                           [] OTHER -> "UNKNOW"

Content(p) == p.val[2]

InContent(p, s, x) == SetField(p, 2, SetField(Content(p), s, x))

\* getTouchPackUid
getTouchPackUid(p) ==
  LET t == Content(p).val[1]
  IN  IF 1 \in Content(p).has /\ 1 \in t.has THEN t.val[1] ELSE -1

\* getAuthPackUid
getAuthPackUid(p) ==
  LET t == Content(p).val[5]
  IN  IF 5 \in Content(p).has /\ 1 \in t.has THEN t.val[1] ELSE -1

\* getMsgPackUser
getMsgPackUser(p) ==
  LET t == Content(p).val[3]
  IN  IF 3 \in Content(p).has /\ 1 \in t.has THEN t.val[1] ELSE -1

Targets(p) == Content(p).val[3].val[3]

Stamped(p, type) == SetField(SetField(p, 1, type), 3, Now)

createTouchAckUncleared(uid, k) ==
  [Refill(k.msg, InContent(Stamped(k.data, 2), 2,
                           SetField(Content(k.data).val[2], 1, uid)))
     EXCEPT !.uid = uid, !.need_collect = 0]

createTouchAckPack(uid, k) ==
  LET c == ImPack_Clear(k.data)
  IN  [Refill(k.msg, InContent(Stamped(c, 2), 2,
                               SetField(Content(c).val[2], 1, uid)))
         EXCEPT !.uid = uid, !.need_collect = 0]

\* the token is copied out of the request before the pack is cleared
createAuthPack(uid, k) ==
  LET token == Content(k.data).val[5].val[2]
      c == ImPack_Clear(k.data)
      answer == SetField(SetField(Content(c).val[6], 1, token), 2, 1)
  IN  [Refill(k.msg, InContent(Stamped(c, 6), 6, answer))
         EXCEPT !.uid = uid, !.need_collect = 0]

\* A request gets the message id, and its buffer is written anew; the
\* acknowledgement names the id and the client's sequence number.
WithId(k) ==
  IF Content(k.data).val[3].val[4] # 1 THEN k
  ELSE LET p == InContent(k.data, 3, SetField(Content(k.data).val[3], 5, MsgId))
       IN  [k EXCEPT !.data = p, !.msg = Refill(@, p)]

createMsgAckPack(k, uid) ==
  LET ack == SetField(SetField(NewImMsgAck, 1, MsgId), 2,
                      Content(k.data).val[3].val[2])
      p == InContent(Stamped(NewImPack, 4), 4, ack)
  IN  [Fill(createIMessage(ImPack_ByteSize(p)), p) EXCEPT !.uid = uid]

\* clear_target_uid, add_target_uid
OneTarget(p, u) ==
  InContent(p, 3, [Content(p).val[3] EXCEPT !.val[3] = <<u>>])

\* What the array of createLocalMsgPack holds: its end is not looked at, and what
\* is written behind it may be anything when it is read again.
target_uid(p) ==
  LET t == Targets(p)
  IN  {[i \in DOMAIN t |-> IF i <= TargetMax THEN t[i] ELSE stray] : stray \in {-1, 0}}

\* The first target's message takes the buffer of the request, the others get
\* one of their own.
LocalMsg(k, i, u, p) ==
  [IF i = 1 THEN Refill(k.msg, p) ELSE Fill(createIMessage(ImPack_ByteSize(p)), p)
     EXCEPT !.uid = u, !.need_collect = 1, !.from = "BACKEND", !.to = "APP"]

createLocalMsgPackAllTargets(k) ==
  {[i \in DOMAIN t |-> LocalMsg(k, i, t[i], k.data)] : t \in target_uid(k.data)}

createLocalMsgPack(k) ==
  {[i \in DOMAIN t |-> LocalMsg(k, i, t[i], OneTarget(k.data, t[i]))] :
     t \in target_uid(k.data)}

\* dispatch of the message server's handler: the bytes are copied
Received(data) == [createIMessage(WireSize(data)) EXCEPT !.data = data]

(***************************************************************************)
(* The processors' use of the parser.                                      *)
(***************************************************************************)
Init ==
  /\ frame \in {f \in Frames : WireSize(f) + HeadBytes <= FrameMax}
  /\ pc = "frame" /\ back = <<>> /\ out = <<>>
  /\ pack = [msg |-> FromFrame(frame), data |-> NewImPack]

Parse ==
  /\ pc = "frame"
  /\ \E r \in {parse(pack.msg.data)} :
       /\ pc' = IF r.ok THEN "parsed" ELSE "refused"
       /\ pack' = IF r.ok THEN [pack EXCEPT !.data = r.m] ELSE <<>>
  /\ UNCHANGED <<frame, back, out>>

Touch ==
  /\ pc = "parsed" /\ getMessagePackType(pack.data) = "TOUCH"
  /\ LET uid == getTouchPackUid(pack.data)
     IN  IF uid = -1
         THEN pc' = "refused" /\ UNCHANGED back
         ELSE pc' = "answered" /\ back' = <<createTouchAckPack(uid, pack)>>
  /\ pack' = <<>>
  /\ UNCHANGED <<frame, out>>

Auth ==
  /\ pc = "parsed" /\ getMessagePackType(pack.data) = "AUTH"
  /\ LET uid == getAuthPackUid(pack.data)
     IN  IF uid = -1
         THEN pc' = "refused" /\ UNCHANGED back
         ELSE pc' = "answered" /\ back' = <<createAuthPack(uid, pack)>>
  /\ pack' = <<>>
  /\ UNCHANGED <<frame, out>>

Msg ==
  /\ pc = "parsed" /\ getMessagePackType(pack.data) = "MSG"
  /\ LET uid == getMsgPackUser(pack.data)
     IN  IF uid = -1 \/ Targets(pack.data) = <<>>
         THEN pc' = "refused" /\ pack' = <<>> /\ UNCHANGED back
         ELSE /\ pc' = "acked"
              /\ back' = <<createMsgAckPack(pack, uid)>>
              /\ pack' = WithId(pack)
  /\ UNCHANGED <<frame, out>>

Other ==
  /\ pc = "parsed" /\ getMessagePackType(pack.data) \in {"UNKNOW", "MSG_ACK"}
  /\ pc' = "refused" /\ pack' = <<>>
  /\ UNCHANGED <<frame, back, out>>

\* The message goes to the message server as it lies in the buffer, comes to
\* the server of its targets, and is parsed there again.
Route ==
  /\ pc = "acked"
  /\ \E r \in {parse(pack.msg.data)} :
       out' \in IF r.ok /\ getMessagePackType(r.m) = "MSG" /\ getMsgPackUser(r.m) # -1
                THEN createLocalMsgPack([msg |-> Received(pack.msg.data), data |-> r.m])
                ELSE {<<>>}
  /\ pc' = "routed" /\ pack' = <<>>
  /\ UNCHANGED <<frame, back>>

Next == Parse \/ Touch \/ Auth \/ Msg \/ Other \/ Route

Spec == Init /\ [][Next]_vars

(***************************************************************************)
(* Properties.                                                             *)
(***************************************************************************)

\* What a client reads from a frame the server made.
Reading(msg) == ParseFromArray(NewImPack, msg.data)

\* The answer to a heartbeat or to an authentication, made in the object and
\* the buffer of the request, holds nothing of the request but the user's id
\* or the token it is to hold: the client reads exactly the pack that a new
\* object would have given.
AnswerIsFresh ==
  pc = "answered" =>
    \E req \in {parse(frame).m} :
      LET Fresh(type, s, x) == InContent(Stamped(NewImPack, type), s, x)
          uid == Content(req).val[1].val[1]
          token == Content(req).val[5].val[2]
          want == IF getMessagePackType(req) = "TOUCH"
                  THEN Fresh(2, 2, SetField(NewImTouchResponse, 1, uid))
                  ELSE Fresh(6, 6, SetField(SetField(NewImAuthResponse, 1, token), 2, 1))
      IN  Reading(back[1]) = [ok |-> TRUE, m |-> want]

\* The pack target u is to read: the sender's pack p, with u alone and, in a
\* request, with the message id.
Sent(p, u) ==
  LET msg == [Content(p).val[3] EXCEPT !.val[3] = <<u>>]
  IN  InContent(p, 3, IF msg.val[4] = 1 THEN SetField(msg, 5, MsgId) ELSE msg)

\* Every target of a message gets one frame, in the order of the list, and
\* reads from it the pack the sender wrote, with that target alone and, in a
\* request, with the id the sender's acknowledgement names; fields this
\* version of im.proto does not know arrive as well.  That the targets are not
\* counted is made good by the limit on the length of a frame: as many targets
\* as one has room for do not reach the end of the array.
TargetsReadMessage ==
  pc = "routed" =>
    \E sent \in {parse(frame).m}, ack \in {Reading(back[1])} :
      /\ [i \in DOMAIN out |-> out[i].uid] = Targets(sent)
      /\ \A i \in DOMAIN out :
           Reading(out[i]) = [ok |-> TRUE, m |-> Sent(sent, out[i].uid)]
      /\ ack.ok /\ Content(ack.m).val[4].val[1] = MsgId
      /\ Content(ack.m).val[4].val[2] = Content(sent).val[3].val[2]

\* Every frame the server makes fits the buffer it is in, and its head, its
\* length and its data agree, also where the buffer was that of a shorter
\* request.
FramesFit ==
  \A m \in {back[i] : i \in DOMAIN back} \union {out[i] : i \in DOMAIN out}
             \union (IF pack = <<>> THEN {} ELSE {pack.msg}) :
    /\ m.data_len = WireSize(m.data)
    /\ m.frame_len = m.data_len + HeadBytes
    /\ m.head + 4 = m.frame_len
    /\ m.frame_len <= m.size
=============================================================================
