----------------------------- MODULE PackObjects -----------------------------
(***************************************************************************)
(* Two ImPack objects that a program keeps and reuses: their fields are    *)
(* set and cleared, they are read from the wire, merged, copied, swapped   *)
(* and cleared, in any order.  What a used object then serialises to, and  *)
(* what it reads into itself, must not depend on its past.                 *)
(***************************************************************************)
EXTENDS ImProto

CONSTANTS Numbers,   \* values given to number fields
          Lengths,   \* lengths of the strings given to string fields
          Streams,   \* inputs that arrive on the wire
          MaxOps     \* bound on the number of operations on the objects

VARIABLES a, b, ops

vars == <<a, b, ops>>

Types == <<ImTouch, ImTouchResponse, ImMsg, ImMsgAck, ImAuthRequest,
           ImAuthResponse>>

Values(f) == CASE f.kind \in {"bytes", "string"} -> Lengths
               [] f.kind = "enum" -> f.valid
               [] f.kind = "bool" -> {0, 1}
               [] OTHER -> Numbers

\* content->mutable_s()
InContent(m, s, x) == SetField(m, 2, SetField(m.val[2], s, x))

Init == a = NewImPack /\ b = NewImPack /\ ops = 0

Count == ops < MaxOps /\ ops' = ops + 1

\* set_type, set_ts
SetOuter ==
  /\ Count
  /\ \E i \in {1, 3} : \E v \in Values(ImPack[i]) : a' = SetField(a, i, v)
  /\ UNCHANGED b

\* content->mutable_s()->set_i(v)
SetInner ==
  /\ Count
  /\ \E s \in DOMAIN Types : \E i \in DOMAIN Types[s] :
       /\ Types[s][i].kind # "repeated"
       /\ \E v \in Values(Types[s][i]) :
            a' = InContent(a, s, SetField(a.val[2].val[s], i, v))
  /\ UNCHANGED b

\* content->mutable_msg()->add_target_uid(v)
AddTarget ==
  /\ Count
  /\ \E v \in Numbers :
       a' = InContent(a, 3, [a.val[2].val[3] EXCEPT !.val[3] = Append(@, v)])
  /\ UNCHANGED b

ClearFieldKeepsValue(T, m, i) == [m EXCEPT !.has = @ \ {i}]

\* clear_x()
ClearField(T, m, i) == [m EXCEPT !.has = @ \ {i}, !.val[i] = T[i].default]

\* content->mutable_s()->clear_i()
Erase ==
  /\ Count
  /\ \E s \in a.val[2].has : \E i \in DOMAIN Types[s] :
       a' = InContent(a, s, ClearField(Types[s], a.val[2].val[s], i))
  /\ UNCHANGED b

ClearAll == Count /\ a' = ImPack_Clear(a) /\ UNCHANGED b

\* MergePartialFromCodedStream into the object as it is
Receive ==
  /\ Count
  /\ \E s \in Streams : a' = ImPack_Read(a, s).m
  /\ UNCHANGED b

Merge == Count /\ a' = ImPack_MergeFrom(a, b) /\ UNCHANGED b

Copy == Count /\ a' = CopyFrom(a, b) /\ UNCHANGED b

Swap == Count /\ a' = b /\ b' = a

Next == \/ SetOuter \/ SetInner \/ AddTarget \/ Erase \/ ClearAll
        \/ Receive \/ Merge \/ Copy \/ Swap

Spec == Init /\ [][Next]_vars

(***************************************************************************)
(* Properties.                                                             *)
(***************************************************************************)

\* The value stored for a field whose bit is not set is the default: the
\* getters, which do not look at the bit, answer the default for it (the
\* server calls auth_req().token(), msg().seq() and msg().type() so).
UnsetIsDefault ==
  LET Clean(T, m) == \A i \in DOMAIN T \ m.has :
                       T[i].kind # "repeated" => m.val[i] = T[i].default
      Deep(m) == /\ Clean(ImPack, m)
                 /\ Clean(ImPackContent, m.val[2])
                 /\ \A s \in DOMAIN Types : Clean(Types[s], m.val[2].val[s])
  IN  Deep(a) /\ Deep(b)

\* What one object serialises, the other one, used before, reads back as the
\* same object: every set field, every target in order, every unknown field,
\* and nothing of its own past.
RoundTrip ==
  LET r == ImPack_Read(ImPack_Clear(b), ImPack_Write(a))
  IN  r.ok /\ ~r.ended /\ r.m = a

\* Two serialised packs one after the other read as the first merged with
\* the second: MergePartialFromCodedStream and MergeFrom agree.
MergeIsConcat ==
  ImPack_Read(NewImPack, ImPack_Write(a) \o ImPack_Write(b)).m
    = ImPack_MergeFrom(a, b)

\* ByteSize, with which the server sizes the buffer before it serialises
\* into it, is the number of bytes written, and every length prefix is the
\* size of what follows it.
SizeExact ==
  LET s == ImPack_Write(a)
      Prefixed(T, tokens) ==
        \A k \in DOMAIN tokens :
          /\ tokens[k].num \in DOMAIN T
          /\ T[tokens[k].num].kind = "message"
          /\ tokens[k].wire = "delimited"
          => tokens[k].val = WireSize(tokens[k].sub)
      Known(k) == s[k].num = 2 /\ s[k].wire = "delimited"
  IN  /\ ImPack_ByteSize(a) = WireSize(s)
      /\ Prefixed(ImPack, s)
      /\ \A k \in DOMAIN s : Known(k) => Prefixed(ImPackContent, s[k].sub)
=============================================================================
