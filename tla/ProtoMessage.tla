---------------------------- MODULE ProtoMessage ----------------------------
(***************************************************************************)
(* Objects, fields and tokens of the classes that protoc generates for     *)
(* im.proto (im.pb.cc, im.pb.h), and how one field is read.  A message     *)
(* type is a sequence of field descriptors, the field of number i at       *)
(* position i; an object is its has-bits, the value stored for every field *)
(* and its unknown fields.  A value is stored whether or not the field's   *)
(* bit is set, as in the generated classes, whose getters do not look at   *)
(* the bit.                                                                *)
(*                                                                         *)
(* A serialised message is a sequence of tokens: field number, wire type,  *)
(* number or payload length, the tokens of a nested message, the numbers   *)
(* of a packed field, and whether the input holds all of it.  A string is  *)
(* represented by its length.                                              *)
(***************************************************************************)
EXTENDS Integers, Sequences, SequencesExt

Field(kind, label, default) ==
  [kind |-> kind, label |-> label, default |-> default]

Enum(label, default, valid) ==
  [kind |-> "enum", label |-> label, default |-> default, valid |-> valid]

Message(label, class, default) ==
  [kind |-> "message", label |-> label, default |-> default, class |-> class]

(***************************************************************************)
(* Tokens: the library side (CodedOutputStream, WireFormatLite).  Every    *)
(* field number of im.proto is below 16, so a tag is one byte.             *)
(***************************************************************************)
Wire(f) == CASE f.kind = "float" -> "fixed32"
             [] f.kind \in {"bytes", "string", "message"} -> "delimited"
             [] OTHER -> "varint"

Token(num, wire, val) ==
  [num |-> num, wire |-> wire, val |-> val, sub |-> <<>>, ints |-> <<>>,
   full |-> TRUE]

Nested(num, len, tokens) ==
  [num |-> num, wire |-> "delimited", val |-> len, sub |-> tokens,
   ints |-> <<>>, full |-> TRUE]

VarintSize(v) == CASE v < 0 -> 10
                   [] v \in 0 .. 127 -> 1
                   [] v \in 128 .. 16383 -> 2
                   [] OTHER -> 3

TokenSize(t) == 1 + CASE t.wire = "varint" -> VarintSize(t.val)
                      [] t.wire = "fixed32" -> 4
                      [] OTHER -> VarintSize(t.val) + t.val

Delimited(n) == 1 + VarintSize(n) + n

WireSize(tokens) == FoldLeft(LAMBDA n, t : n + TokenSize(t), 0, tokens)

(***************************************************************************)
(* Construction and the accessors of im.pb.h.                              *)
(***************************************************************************)
NewMessage(T) == [has |-> {}, unknown |-> <<>>,
                  val |-> [i \in DOMAIN T |-> T[i].default]]

SetField(m, i, v) == [m EXCEPT !.has = @ \union {i}, !.val[i] = v]

AddUnknown(m, t) == [m EXCEPT !.unknown = Append(@, t)]

(***************************************************************************)
(* MergePartialFromCodedStream, one case per kind of field.  r is the      *)
(* object, whether the reads succeeded so far, and whether an end-group    *)
(* tag ended the loop.                                                     *)
(***************************************************************************)
ReadPrimitive(r, t) ==
  IF t.full THEN [r EXCEPT !.m = SetField(@, t.num, t.val)]
            ELSE [r EXCEPT !.ok = FALSE]

ReadEnum(f, r, t) ==
  IF t.full /\ t.val \notin f.valid
  THEN [r EXCEPT !.m = AddUnknown(@, t)]
  ELSE ReadPrimitive(r, t)

\* mutable_x() sets the bit before the bytes are read
ReadString(r, t) ==
  [r EXCEPT !.m = SetField(@, t.num, IF t.full THEN t.val ELSE 0),
            !.ok = t.full]

ReadRepeatedLast(r, t) ==
  IF t.full /\ t.wire = "varint"
  THEN [r EXCEPT !.m.val[t.num] = <<t.val>>]
  ELSE [r EXCEPT !.ok = t.full]

ReadRepeated(r, t) ==
  IF t.full
  THEN [r EXCEPT !.m.val[t.num] =
                   @ \o IF t.wire = "varint" THEN <<t.val>> ELSE t.ints]
  ELSE [r EXCEPT !.ok = FALSE]

Attach(r, t, s) ==
  [r EXCEPT !.m = SetField(@, t.num, s.m), !.ok = t.full /\ s.ok /\ ~s.ended]

Uninterpreted(r, t) ==
  CASE t.wire = "end" -> [r EXCEPT !.ended = TRUE]
    [] t.wire # "end" /\ t.full -> [r EXCEPT !.m = AddUnknown(@, t)]
    [] OTHER -> [r EXCEPT !.ok = FALSE]
=============================================================================
