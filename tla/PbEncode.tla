------------------------------ MODULE PbEncode ------------------------------
(* nanopb: the field descriptors the generator emits, the iterator over them  *)
(* (pb_common.c), the integers of the wire format, and pb_encode.c.            *)
(*                                                                              *)
(* A byte has ByteBits bits (8 in the code), an int32 has Bytes32 bytes (4)     *)
(* and an int64 Bytes64 (8).  The instance uses 4, 2 and 4: as in the code a   *)
(* 32-bit varint ends in an incomplete group and a 64-bit one in a single bit. *)
(*                                                                              *)
(* A message struct is a function from the keys of its fields to [n, v]: n is  *)
(* what pSize points at (has_, _count or which_), v what pData points at.  The *)
(* data of a union is <<tag, value>>: which member was stored last.            *)
EXTENDS Integers, Sequences, SequencesExt, FiniteSets

CONSTANTS
    ByteBits,      \* bits of a byte
    Bytes32,       \* bytes of a 32-bit integer
    Bytes64,       \* bytes of a 64-bit integer
    WordBits,      \* bits of a word of fields_seen (32 in the code)
    MaxRequired,   \* PB_MAX_REQUIRED_FIELDS
    Null           \* the null pointer of a pointer field or a callback

SizesAssumption ==
    /\ ByteBits \in Nat \ {0, 1}
    /\ Bytes32 \in Nat \ {0}
    /\ Bytes64 = 2 * Bytes32
    /\ WordBits \in Nat \ {0}
    /\ MaxRequired \in Nat /\ MaxRequired % WordBits = 0

Byte   == 0 .. 2^ByteBits - 1
Group  == 2^(ByteBits - 1)          \* the values of a varint byte without its flag
Bits32 == ByteBits * Bytes32
Bits64 == ByteBits * Bytes64

Unsigned(x, bits) == x % 2^bits
Signed(x, bits)   == LET u == x % 2^bits IN IF u >= 2^(bits - 1) THEN u - 2^bits ELSE u

-----------------------------------------------------------------------------
(* Descriptors.                                                                *)

Packable == {"varint", "uvarint", "svarint", "fixed32", "fixed64"}

WireVarint == 0
Wire64     == 1
WireString == 2
Wire32     == 5

(* The wire type of a single item of a field.                                  *)
WireType(f) ==
    CASE f.lt \in {"varint", "uvarint", "svarint"} -> WireVarint
      [] f.lt = "fixed32"                          -> Wire32
      [] f.lt = "fixed64"                          -> Wire64
      [] OTHER                                     -> WireString

(* The members of a union share their data and their which_ field.             *)
Key(f) == IF f.ht = "oneof" THEN f.group ELSE f.tag
FieldKeys(fields) == {Key(fields[i]) : i \in 1 .. Len(fields)}

(* pb_field_iter_find never stops at the placeholder of the extensions.        *)
Matches(fields, tag) ==
    {i \in 1 .. Len(fields) : fields[i].tag = tag /\ fields[i].lt # "extension"}

(* required_field_index at field i, and at the end of the descriptor.          *)
RequiredIndex(fields, i) ==
    Cardinality({j \in 1 .. i - 1 : fields[j].ht = "required"})

(* What a zeroed struct holds: arrays have room for array_size entries.        *)
RECURSIVE Blank(_)
BlankItem(f) ==
    CASE f.at = "pointer"              -> Null
      [] f.at = "callback"             -> Null
      [] f.lt = "extension"            -> << >>
      [] f.lt \in {"bytes", "string"}  -> << >>
      [] f.lt = "fixed_length_bytes"   -> [k \in 1 .. f.size |-> 0]
      [] f.lt = "submessage"           -> Blank(f.ptr)
      [] OTHER                         -> 0
BlankField(f) ==
    [n |-> IF f.ht \in {"repeated", "oneof"} THEN 0 ELSE FALSE,
     v |-> IF f.ht = "repeated" /\ f.at = "static" THEN [k \in 1 .. f.array |-> BlankItem(f)]
           ELSE IF f.ht = "oneof" THEN <<0, 0>> ELSE BlankItem(f)]
Blank(fields) ==
    [k \in FieldKeys(fields) |-> BlankField(fields[CHOOSE i \in 1 .. Len(fields) : Key(fields[i]) = k])]

-----------------------------------------------------------------------------
(* Integers on the wire.                                                       *)

(* pb_encode_varint: groups of seven bits, the lowest first.                   *)
RECURSIVE VarintBytes(_)
VarintBytes(value) ==
    IF value < Group THEN <<value>>
    ELSE <<Group + (value % Group)>> \o VarintBytes(value \div Group)

(* The little-endian bytes of an unsigned integer, and back.                   *)
FixedBytes(value, count) ==
    [k \in 1 .. count |-> (value \div 2^(ByteBits * (k - 1))) % 2^ByteBits]
FixedValue(bytes) ==
    FoldRight(LAMBDA b, acc : b + acc * 2^ByteBits, bytes, 0)

ZigZag(value) ==
    IF value < 0 THEN (2^Bits64 - 1) - Unsigned(2 * value, Bits64)
    ELSE Unsigned(2 * value, Bits64)
UnZigZag(value) ==
    IF value % 2 = 1 THEN -(value \div 2) - 1 ELSE value \div 2

-----------------------------------------------------------------------------
(* pb_encode.c: a struct is written to an output stream.                       *)
(*                                                                              *)
(* The stream is [out, written, max, sizing, calls, ok]: a sizing stream (no   *)
(* callback) only counts; ok is the status every function returns, and nothing *)
(* is written once it is FALSE.  calls counts the calls of encode callbacks:   *)
(* a callback is the sequence of what its successive calls write.              *)

pb_ostream_from_buffer(bufsize) ==
    [out |-> << >>, written |-> 0, max |-> bufsize, sizing |-> FALSE, calls |-> 0, ok |-> TRUE]
SizingStream(calls) ==
    [out |-> << >>, written |-> 0, max |-> 0, sizing |-> TRUE, calls |-> calls, ok |-> TRUE]

Fail(s) == [s EXCEPT !.ok = FALSE]

pb_write(s, bytes) ==
    IF ~s.ok THEN s
    ELSE IF s.sizing THEN [s EXCEPT !.written = @ + Len(bytes)]
    ELSE IF s.written + Len(bytes) > s.max THEN Fail(s)
    ELSE [s EXCEPT !.written = @ + Len(bytes), !.out = @ \o bytes]

pb_encode_varint(s, value) == pb_write(s, VarintBytes(Unsigned(value, Bits64)))
pb_encode_svarint(s, value) == pb_encode_varint(s, ZigZag(value))

pb_encode_tag(s, wiretype, tag) == pb_encode_varint(s, 8 * tag + wiretype)
pb_encode_tag_for_field(s, f) == pb_encode_tag(s, WireType(f), f.tag)
pb_encode_string(s, bytes) == pb_write(pb_encode_varint(s, Len(bytes)), bytes)

(* pb_enc_string stops at the terminator.                                       *)
CString(bytes) == SelectInSeq(bytes, LAMBDA b : b = 0)
UpToNul(bytes) == IF CString(bytes) = 0 THEN bytes ELSE SubSeq(bytes, 1, CString(bytes) - 1)

-----------------------------------------------------------------------------
RECURSIVE pb_encode(_, _, _)

WriteHead(s, sized) == pb_encode_varint([s EXCEPT !.calls = sized.calls], sized.written)

(* A deviation: the second pass is trusted to write what the first measured.   *)
WriteTrusting(head, fields, m, size) ==
    IF ~head.ok THEN head
    ELSE IF head.sizing THEN [head EXCEPT !.written = @ + size]
    ELSE pb_encode(head, fields, m)
EncodeTrusting(s, fields, m, sized) ==
    IF sized.ok THEN WriteTrusting(WriteHead(s, sized), fields, m, sized.written) ELSE Fail(s)
EncodeSubmessageTrusting(s, fields, m) ==
    IF s.ok THEN EncodeTrusting(s, fields, m, pb_encode(SizingStream(s.calls), fields, m)) ELSE s

(* The size is measured first; the second pass may not write more, and has to  *)
(* write as much.                                                               *)
TakeSecondPass(head, sub, size) ==
    [head EXCEPT !.written = @ + sub.written, !.out = sub.out, !.calls = sub.calls,
                 !.ok = sub.ok /\ sub.written = size]
WriteMeasured(head, fields, m, size) ==
    IF ~head.ok THEN head
    ELSE IF head.sizing THEN [head EXCEPT !.written = @ + size]
    ELSE IF head.written + size > head.max THEN Fail(head)
    ELSE TakeSecondPass(head, pb_encode([head EXCEPT !.written = 0, !.max = size], fields, m), size)
EncodeMeasured(s, fields, m, sized) ==
    IF sized.ok THEN WriteMeasured(WriteHead(s, sized), fields, m, sized.written) ELSE Fail(s)
pb_encode_submessage(s, fields, m) ==
    IF s.ok THEN EncodeMeasured(s, fields, m, pb_encode(SizingStream(s.calls), fields, m)) ELSE s

(* pb_enc_*: one item.                                                         *)
EncodeItem(s, f, x) ==
    CASE f.lt = "varint"  -> pb_encode_varint(s, x)
      [] f.lt = "uvarint" -> pb_encode_varint(s, x)
      [] f.lt = "svarint" -> pb_encode_svarint(s, x)
      [] f.lt = "fixed32" -> pb_write(s, FixedBytes(x, Bytes32))
      [] f.lt = "fixed64" -> pb_write(s, FixedBytes(x, Bytes64))
      [] f.lt = "bytes"   -> IF x = Null THEN pb_encode_string(s, << >>)
                             ELSE IF f.at = "static" /\ Len(x) > f.size THEN Fail(s)
                             ELSE pb_encode_string(s, x)
      [] f.lt = "string"  -> pb_encode_string(s, IF x = Null THEN << >> ELSE UpToNul(x))
      [] f.lt = "submessage" -> IF f.ptr = Null THEN Fail(s)
                                ELSE pb_encode_submessage(s, f.ptr, x)
      [] f.lt = "fixed_length_bytes" -> pb_encode_string(s, x)

EncodeItems(s, f, xs, tagged) ==
    FoldLeft(LAMBDA acc, x :
                 EncodeItem(IF tagged THEN pb_encode_tag_for_field(acc, f) ELSE acc, f, x),
             s, xs)

(* Packable types are always packed, with the total size in front: computed    *)
(* for the fixed types, measured for the others.                                *)
ArraySize(f, count, sized) ==
    CASE f.lt = "fixed32" -> Bytes32 * count
      [] f.lt = "fixed64" -> Bytes64 * count
      [] OTHER            -> sized.written
WritePacked(head, f, xs, size) ==
    IF head.ok /\ head.sizing THEN [head EXCEPT !.written = @ + size]
    ELSE EncodeItems(head, f, xs, FALSE)
EncodePacked(tagged, f, xs, sized) ==
    IF tagged.ok /\ sized.ok
    THEN WritePacked(pb_encode_varint(tagged, ArraySize(f, Len(xs), sized)), f, xs,
                     ArraySize(f, Len(xs), sized))
    ELSE Fail(tagged)
encode_array(s, f, xs) ==
    IF Len(xs) = 0 THEN s
    ELSE IF f.at # "pointer" /\ Len(xs) > f.array THEN Fail(s)
    ELSE IF f.lt \notin Packable THEN EncodeItems(s, f, xs, TRUE)
    ELSE EncodePacked(pb_encode_tag(s, WireString, f.tag), f, xs,
                      EncodeItems(SizingStream(s.calls), f, xs, FALSE))

-----------------------------------------------------------------------------
(* In proto3 a field is sent when it is not zero.  A submessage is zero when   *)
(* the data of all its fields is: the function is given pData, which of an     *)
(* array is the first entry, and knows no _count and no which_.                 *)
RECURSIVE pb_check_proto3_default_value(_, _)
pb_check_proto3_default_value(f, data) ==
    LET item == IF f.ht = "repeated" /\ f.at = "static" THEN data[1]
                ELSE IF f.ht = "oneof" THEN data[2] ELSE data
    IN  CASE f.at # "static"               -> item = Null
          [] f.at = "static" /\ f.lt = "bytes"   -> item = << >>
          [] f.at = "static" /\ f.lt = "string"  -> UpToNul(item) = << >>
          [] f.at = "static" /\ f.lt = "fixed_length_bytes" -> f.size = 0
          [] f.at = "static" /\ f.lt = "submessage" ->
                 \A i \in 1 .. Len(f.ptr) :
                     pb_check_proto3_default_value(f.ptr[i], item[Key(f.ptr[i])].v)
          [] f.at = "static" /\ f.lt = "extension" -> item = << >>
          [] OTHER -> item = 0

IsNullPointer(f, d) == f.at = "pointer" /\ d.v = Null
HasValue(f, d) ==
    IF f.at = "pointer" THEN d.v # Null
    ELSE IF f.has THEN d.n
    ELSE ~pb_check_proto3_default_value(f, d.v)
IsSent(f, d) ==
    CASE f.ht = "required" -> TRUE
      [] f.ht = "optional" -> HasValue(f, d)
      [] f.ht = "oneof"    -> d.n = f.tag
encode_basic_field(s, f, d) ==
    IF f.ht = "repeated"
    THEN encode_array(s, f, IF IsNullPointer(f, d) THEN << >> ELSE SubSeq(d.v, 1, d.n))
    ELSE IF f.ht = "required" /\ IsNullPointer(f, d) THEN Fail(s)
    ELSE IF ~IsSent(f, d) THEN s
    ELSE EncodeItem(pb_encode_tag_for_field(s, f), f, IF f.ht = "oneof" THEN d.v[2] ELSE d.v)

(* The user's callback: its next output is a string field, or it fails.         *)
UserOutput(s, f, output) ==
    IF output = Null THEN Fail(s)
    ELSE pb_encode_string(pb_encode_tag(s, WireString, f.tag), output)
UserEncode(s, f, outputs) ==
    UserOutput([s EXCEPT !.calls = @ + 1], f,
               outputs[IF s.calls < Len(outputs) THEN s.calls + 1 ELSE Len(outputs)])

encode_callback_field(s, f, d) ==
    IF ~s.ok \/ d.v = Null THEN s ELSE UserEncode(s, f, d.v)

encode_field(s, f, d) ==
    IF f.at = "callback" THEN encode_callback_field(s, f, d) ELSE encode_basic_field(s, f, d)

(* Every extension of the list in turn.                                         *)
encode_extension_field(s, d) ==
    FoldLeft(LAMBDA acc, ext : encode_field(acc, ext.field, [n |-> ext.found, v |-> ext.dest]),
             s, d.v)

pb_encode(s, fields, m) ==
    FoldLeft(LAMBDA acc, f :
                 IF ~acc.ok THEN acc
                 ELSE IF f.lt = "extension" THEN encode_extension_field(acc, m[Key(f)])
                 ELSE encode_field(acc, f, m[Key(f)]),
             s, fields)

pb_get_encoded_size(fields, m) == pb_encode(SizingStream(0), fields, m).written
pb_encode_delimited(s, fields, m) == pb_encode_submessage(s, fields, m)
=============================================================================
