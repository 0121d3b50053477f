------------------------------- MODULE ImProto -------------------------------
(***************************************************************************)
(* The eight messages of im.proto as the generated classes of im.pb.h and  *)
(* im.pb.cc implement them: for each one its fields, its constructor and   *)
(* the methods the server uses.  ImPack holds an ImPackContent, which      *)
(* holds at most one object of each of the other six; the methods of the   *)
(* outer classes call those of the inner ones, as here.  What protoc       *)
(* generates alike for every class is written once, over its fields.       *)
(***************************************************************************)
EXTENDS ProtoMessage

ImMsgLogicType == {1, 2}

ImPackType == 0 .. 6

(***************************************************************************)
(* The methods by the class of the object: what a call on a nested message *)
(* comes to.  They are defined below, after the classes.                   *)
(***************************************************************************)
RECURSIVE Clear(_, _), Read(_, _, _), Write(_, _), ByteSize(_, _),
          MergeFrom(_, _, _), IsInitialized(_, _)

(***************************************************************************)
(* Clear: the has-bits are tested in groups of eight; in a group with a    *)
(* bit set every number is reset, a string or a nested message only if its *)
(* own bit is set.                                                         *)
(***************************************************************************)
Cleared(f, m, i) ==
  CASE f.kind = "repeated" -> <<>>
    [] f.kind = "message" ->
         IF i \in m.has THEN Clear(f.class, m.val[i]) ELSE m.val[i]
    [] f.kind \in {"bytes", "string"} -> IF i \in m.has THEN 0 ELSE m.val[i]
    [] OTHER -> IF \E j \in m.has : (j - 1) \div 8 = (i - 1) \div 8
                THEN f.default ELSE m.val[i]

ClearFields(T, m) ==
  [has |-> {}, unknown |-> <<>>,
   val |-> [i \in DOMAIN T |-> Cleared(T[i], m, i)]]

(***************************************************************************)
(* MergePartialFromCodedStream: the loop over the tags.                    *)
(***************************************************************************)
ReadMessage(f, r, t) ==
  Attach(r, t, Read(f.class, r.m.val[t.num], t.sub))

ReadKnown(f, r, t) ==
  CASE t.wire # Wire(f) /\ ~(f.kind = "repeated" /\ t.wire = "delimited") ->
         Uninterpreted(r, t)
    [] f.kind = "repeated" -> ReadRepeated(r, t)
    [] f.kind = "enum" -> ReadEnum(f, r, t)
    [] f.kind \in {"bytes", "string"} -> ReadString(r, t)
    [] f.kind = "message" -> ReadMessage(f, r, t)
    [] OTHER -> ReadPrimitive(r, t)

ReadTag(T, r, t) ==
  CASE ~r.ok \/ r.ended -> r
    [] t.num \in DOMAIN T -> ReadKnown(T[t.num], r, t)
    [] OTHER -> Uninterpreted(r, t)

ReadFields(T, m, tokens) ==
  FoldLeft(LAMBDA r, t : ReadTag(T, r, t),
           [m |-> m, ok |-> TRUE, ended |-> FALSE], tokens)

(***************************************************************************)
(* SerializeWithCachedSizes (and ...ToArray): the set fields in the order  *)
(* of their numbers, then the unknown fields.                              *)
(***************************************************************************)
Written(f, m, i) ==
  CASE f.kind = "repeated" ->
         [k \in DOMAIN m.val[i] |-> Token(i, "varint", m.val[i][k])]
    [] i \notin m.has -> <<>>
    [] f.kind = "message" ->
         <<Nested(i, ByteSize(f.class, m.val[i]), Write(f.class, m.val[i]))>>
    [] OTHER -> <<Token(i, Wire(f), m.val[i])>>

WriteFields(T, m) ==
  FlattenSeq([i \in DOMAIN T |-> Written(T[i], m, i)]) \o m.unknown

(***************************************************************************)
(* ByteSize, computed from the fields without serialising them.            *)
(***************************************************************************)
FieldSize(f, m, i) ==
  CASE f.kind = "repeated" ->
         FoldLeft(LAMBDA n, v : n + VarintSize(v), Len(m.val[i]), m.val[i])
    [] i \notin m.has -> 0
    [] f.kind = "message" -> Delimited(ByteSize(f.class, m.val[i]))
    [] f.kind \in {"bytes", "string"} -> Delimited(m.val[i])
    [] f.kind = "float" -> 1 + 4
    [] f.kind = "bool" -> 1 + 1
    [] OTHER -> 1 + VarintSize(m.val[i])

SizeOfFields(T, m) ==
  FoldLeft(LAMBDA n, i : n + FieldSize(T[i], m, i), 0,
           [i \in DOMAIN T |-> i]) + WireSize(m.unknown)

(***************************************************************************)
(* MergeFrom: a set field replaces, a nested message merges, a repeated    *)
(* field and the unknown fields are appended.                              *)
(***************************************************************************)
Merged(f, m, from, i) ==
  CASE f.kind = "repeated" -> m.val[i] \o from.val[i]
    [] i \notin from.has -> m.val[i]
    [] f.kind = "message" -> MergeFrom(f.class, m.val[i], from.val[i])
    [] OTHER -> from.val[i]

MergeFields(T, m, from) ==
  [has |-> m.has \union from.has, unknown |-> m.unknown \o from.unknown,
   val |-> [i \in DOMAIN T |-> Merged(T[i], m, from, i)]]

(***************************************************************************)
(* IsInitialized: the mask of the required bits, then every set message.   *)
(***************************************************************************)
FieldsInitialized(T, m) ==
  /\ \A i \in DOMAIN T : T[i].label = "required" => i \in m.has
  /\ \A i \in m.has : T[i].kind = "message" => IsInitialized(T[i].class, m.val[i])

\* ---- ImTouch
ImTouch_uid == Field("int32", "required", 0)
ImTouch == <<ImTouch_uid>>
NewImTouch == NewMessage(ImTouch)
ImTouch_Clear(m) == ClearFields(ImTouch, m)
ImTouch_Read(m, s) == ReadFields(ImTouch, m, s)
ImTouch_Write(m) == WriteFields(ImTouch, m)
ImTouch_ByteSize(m) == SizeOfFields(ImTouch, m)
ImTouch_MergeFrom(m, from) == MergeFields(ImTouch, m, from)
ImTouch_IsInitialized(m) == FieldsInitialized(ImTouch, m)

\* ---- ImTouchResponse
ImTouchResponse_uid == Field("int32", "required", 0)
ImTouchResponse == <<ImTouchResponse_uid>>
NewImTouchResponse == NewMessage(ImTouchResponse)
ImTouchResponse_Clear(m) == ClearFields(ImTouchResponse, m)
ImTouchResponse_Read(m, s) == ReadFields(ImTouchResponse, m, s)
ImTouchResponse_Write(m) == WriteFields(ImTouchResponse, m)
ImTouchResponse_ByteSize(m) == SizeOfFields(ImTouchResponse, m)
ImTouchResponse_MergeFrom(m, from) == MergeFields(ImTouchResponse, m, from)
ImTouchResponse_IsInitialized(m) == FieldsInitialized(ImTouchResponse, m)

\* ---- ImMsg
ImMsg_uid == Field("int32", "required", 0)
ImMsg_seq == Field("int32", "required", 0)
ImMsg_target_uid == Field("repeated", "repeated", <<>>)
ImMsg_type == Enum("required", 1, ImMsgLogicType)
ImMsg_msg_id == Field("bytes", "optional", 0)
ImMsg_points == Field("float", "optional", 0)
ImMsg_timeout == Field("int32", "optional", 0)
ImMsg_text_content == Field("bytes", "optional", 0)
ImMsg_pic_id == Field("string", "optional", 0)
ImMsg_vid_id == Field("string", "optional", 0)
ImMsg_loc_word == Field("bytes", "optional", 0)
ImMsg == <<ImMsg_uid, ImMsg_seq, ImMsg_target_uid, ImMsg_type, ImMsg_msg_id,
           ImMsg_points, ImMsg_timeout, ImMsg_text_content, ImMsg_pic_id,
           ImMsg_vid_id, ImMsg_loc_word>>
NewImMsg == NewMessage(ImMsg)
ImMsg_Clear(m) == ClearFields(ImMsg, m)
ImMsg_Read(m, s) == ReadFields(ImMsg, m, s)
ImMsg_Write(m) == WriteFields(ImMsg, m)
ImMsg_ByteSizeNoTags(m) == SizeOfFields(ImMsg, m) - Len(m.val[3])
ImMsg_ByteSize(m) == SizeOfFields(ImMsg, m)
ImMsg_MergeFrom(m, from) == MergeFields(ImMsg, m, from)
ImMsg_IsInitialized(m) == FieldsInitialized(ImMsg, m)

\* ---- ImMsgAck
ImMsgAck_msg_id == Field("bytes", "optional", 0)
ImMsgAck_seq == Field("int32", "required", 0)
ImMsgAck == <<ImMsgAck_msg_id, ImMsgAck_seq>>
NewImMsgAck == NewMessage(ImMsgAck)
ImMsgAck_Clear(m) == ClearFields(ImMsgAck, m)
ImMsgAck_Read(m, s) == ReadFields(ImMsgAck, m, s)
ImMsgAck_Write(m) == WriteFields(ImMsgAck, m)
ImMsgAck_ByteSize(m) == SizeOfFields(ImMsgAck, m)
ImMsgAck_MergeFrom(m, from) == MergeFields(ImMsgAck, m, from)
ImMsgAck_IsInitialized(m) == FieldsInitialized(ImMsgAck, m)

\* ---- ImAuthRequest
ImAuthRequest_uid == Field("int32", "required", 0)
ImAuthRequest_token == Field("string", "required", 0)
ImAuthRequest == <<ImAuthRequest_uid, ImAuthRequest_token>>
NewImAuthRequest == NewMessage(ImAuthRequest)
ImAuthRequest_Clear(m) == ClearFields(ImAuthRequest, m)
ImAuthRequest_Read(m, s) == ReadFields(ImAuthRequest, m, s)
ImAuthRequest_Write(m) == WriteFields(ImAuthRequest, m)
ImAuthRequest_ByteSize(m) == SizeOfFields(ImAuthRequest, m)
ImAuthRequest_MergeFrom(m, from) == MergeFields(ImAuthRequest, m, from)
ImAuthRequest_IsInitialized(m) == FieldsInitialized(ImAuthRequest, m)

\* ---- ImAuthResponse
ImAuthResponse_token == Field("string", "required", 0)
ImAuthResponse_auth_success == Field("bool", "required", 0)
ImAuthResponse == <<ImAuthResponse_token, ImAuthResponse_auth_success>>
NewImAuthResponse == NewMessage(ImAuthResponse)
ImAuthResponse_Clear(m) == ClearFields(ImAuthResponse, m)
ImAuthResponse_Read(m, s) == ReadFields(ImAuthResponse, m, s)
ImAuthResponse_Write(m) == WriteFields(ImAuthResponse, m)
ImAuthResponse_ByteSize(m) == SizeOfFields(ImAuthResponse, m)
ImAuthResponse_MergeFrom(m, from) == MergeFields(ImAuthResponse, m, from)
ImAuthResponse_IsInitialized(m) == FieldsInitialized(ImAuthResponse, m)

\* ---- ImPackContent
ImPackContent_touch == Message("optional", "ImTouch", NewImTouch)
ImPackContent_touch_rep == Message("optional", "ImTouchResponse", NewImTouchResponse)
ImPackContent_msg == Message("optional", "ImMsg", NewImMsg)
ImPackContent_msg_ack == Message("optional", "ImMsgAck", NewImMsgAck)
ImPackContent_auth_req == Message("optional", "ImAuthRequest", NewImAuthRequest)
ImPackContent_auth_rep == Message("optional", "ImAuthResponse", NewImAuthResponse)
ImPackContent == <<ImPackContent_touch, ImPackContent_touch_rep,
                   ImPackContent_msg, ImPackContent_msg_ack,
                   ImPackContent_auth_req, ImPackContent_auth_rep>>
NewImPackContent == NewMessage(ImPackContent)
ImPackContent_Clear(m) == ClearFields(ImPackContent, m)
ImPackContent_Read(m, s) == ReadFields(ImPackContent, m, s)
ImPackContent_Write(m) == WriteFields(ImPackContent, m)
ImPackContent_ByteSize(m) == SizeOfFields(ImPackContent, m)
ImPackContent_MergeFrom(m, from) == MergeFields(ImPackContent, m, from)
ImPackContent_IsInitialized(m) == FieldsInitialized(ImPackContent, m)

\* ---- ImPack
ImPack_type == Enum("required", 0, ImPackType)
ImPack_content == Message("required", "ImPackContent", NewImPackContent)
ImPack_ts == Field("int32", "optional", 0)
ImPack == <<ImPack_type, ImPack_content, ImPack_ts>>
NewImPack == NewMessage(ImPack)
ImPack_Clear(m) == ClearFields(ImPack, m)
ImPack_Read(m, s) == ReadFields(ImPack, m, s)
ImPack_Write(m) == WriteFields(ImPack, m)
ImPack_ByteSize(m) == SizeOfFields(ImPack, m)
ImPack_MergeReplaces(m, from) ==
  [MergeFields(ImPack, m, from) EXCEPT !.val[2] = IF 2 \in from.has THEN from.val[2] ELSE @]
ImPack_MergeFrom(m, from) == MergeFields(ImPack, m, from)
ImPack_IsInitialized(m) == FieldsInitialized(ImPack, m)

(***************************************************************************)
(* The call by class.                                                      *)
(***************************************************************************)
Clear(class, m) ==
  CASE class = "ImTouch" -> ImTouch_Clear(m)
    [] class = "ImTouchResponse" -> ImTouchResponse_Clear(m)
    [] class = "ImMsg" -> ImMsg_Clear(m)
    [] class = "ImMsgAck" -> ImMsgAck_Clear(m)
    [] class = "ImAuthRequest" -> ImAuthRequest_Clear(m)
    [] class = "ImAuthResponse" -> ImAuthResponse_Clear(m)
    [] class = "ImPackContent" -> ImPackContent_Clear(m)

Read(class, m, s) ==
  CASE class = "ImTouch" -> ImTouch_Read(m, s)
    [] class = "ImTouchResponse" -> ImTouchResponse_Read(m, s)
    [] class = "ImMsg" -> ImMsg_Read(m, s)
    [] class = "ImMsgAck" -> ImMsgAck_Read(m, s)
    [] class = "ImAuthRequest" -> ImAuthRequest_Read(m, s)
    [] class = "ImAuthResponse" -> ImAuthResponse_Read(m, s)
    [] class = "ImPackContent" -> ImPackContent_Read(m, s)

Write(class, m) ==
  CASE class = "ImTouch" -> ImTouch_Write(m)
    [] class = "ImTouchResponse" -> ImTouchResponse_Write(m)
    [] class = "ImMsg" -> ImMsg_Write(m)
    [] class = "ImMsgAck" -> ImMsgAck_Write(m)
    [] class = "ImAuthRequest" -> ImAuthRequest_Write(m)
    [] class = "ImAuthResponse" -> ImAuthResponse_Write(m)
    [] class = "ImPackContent" -> ImPackContent_Write(m)

ByteSize(class, m) ==
  CASE class = "ImTouch" -> ImTouch_ByteSize(m)
    [] class = "ImTouchResponse" -> ImTouchResponse_ByteSize(m)
    [] class = "ImMsg" -> ImMsg_ByteSize(m)
    [] class = "ImMsgAck" -> ImMsgAck_ByteSize(m)
    [] class = "ImAuthRequest" -> ImAuthRequest_ByteSize(m)
    [] class = "ImAuthResponse" -> ImAuthResponse_ByteSize(m)
    [] class = "ImPackContent" -> ImPackContent_ByteSize(m)

MergeFrom(class, m, from) ==
  CASE class = "ImTouch" -> ImTouch_MergeFrom(m, from)
    [] class = "ImTouchResponse" -> ImTouchResponse_MergeFrom(m, from)
    [] class = "ImMsg" -> ImMsg_MergeFrom(m, from)
    [] class = "ImMsgAck" -> ImMsgAck_MergeFrom(m, from)
    [] class = "ImAuthRequest" -> ImAuthRequest_MergeFrom(m, from)
    [] class = "ImAuthResponse" -> ImAuthResponse_MergeFrom(m, from)
    [] class = "ImPackContent" -> ImPackContent_MergeFrom(m, from)

IsInitialized(class, m) ==
  CASE class = "ImTouch" -> ImTouch_IsInitialized(m)
    [] class = "ImTouchResponse" -> ImTouchResponse_IsInitialized(m)
    [] class = "ImMsg" -> ImMsg_IsInitialized(m)
    [] class = "ImMsgAck" -> ImMsgAck_IsInitialized(m)
    [] class = "ImAuthRequest" -> ImAuthRequest_IsInitialized(m)
    [] class = "ImAuthResponse" -> ImAuthResponse_IsInitialized(m)
    [] class = "ImPackContent" -> ImPackContent_IsInitialized(m)

(***************************************************************************)
(* The entry points of the library's MessageLite as the server calls them: *)
(* ParseFromArray clears, reads, and refuses a message that did not end    *)
(* with its input or lacks a required field.                               *)
(***************************************************************************)
Accepted(r) ==
  [m |-> r.m, ok |-> r.ok /\ ~r.ended /\ ImPack_IsInitialized(r.m)]

ParseFromArray(m, s) == Accepted(ImPack_Read(ImPack_Clear(m), s))

CopyFrom(m, from) == ImPack_MergeFrom(ImPack_Clear(m), from)
=============================================================================
