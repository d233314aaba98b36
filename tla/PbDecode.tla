------------------------------ MODULE PbDecode ------------------------------
(* pb_decode.c, as it is built here: without PB_ENABLE_MALLOC.                 *)
(*                                                                              *)
(* The stream is [buf, pos, left, calls, ok]: left is bytes_left, which a      *)
(* substream limits to the length of its field; ok is the status every         *)
(* function returns.  calls counts the calls of decode callbacks.              *)
(* wide is the outcome of a shift by the whole width of a word, which C leaves *)
(* undefined: the processor either masks the count (wide = TRUE) or clears the *)
(* word.                                                                        *)
EXTENDS PbEncode

pb_istream_from_buffer(buf, wide) ==
    [buf |-> buf, pos |-> 0, left |-> Len(buf), calls |-> << >>, ok |-> TRUE, wide |-> wide]

Bad(s) == [s EXCEPT !.ok = FALSE]

(* A value read from a stream: the stream behind it, and the value.            *)
Got(s, x) == [s |-> s, v |-> x]

(* A deviation: a short read gives what there is.                               *)
ReadWhatIsLeft(s, count) ==
    IF ~s.ok THEN Got(s, << >>)
    ELSE LET k == IF s.left < count THEN s.left ELSE count
         IN  IF count = 1 /\ k = 0 THEN Got(Bad(s), << >>)
             ELSE Got([s EXCEPT !.pos = @ + k, !.left = @ - k], SubSeq(s.buf, s.pos + 1, s.pos + k))

pb_read(s, count) ==
    IF ~s.ok THEN Got(s, << >>)
    ELSE IF s.left < count THEN Got(Bad(s), << >>)
    ELSE Got([s EXCEPT !.pos = @ + count, !.left = @ - count],
             SubSeq(s.buf, s.pos + 1, s.pos + count))

(* pb_decode_varint and pb_decode_varint32: a group is only read while it      *)
(* begins below the width; what it has above the width is lost.                 *)
RECURSIVE VarintFrom(_, _, _, _)
VarintByte(r, width, bitpos, sum) ==
    IF r.v[1] < Group THEN Got(r.s, sum) ELSE VarintFrom(r.s, width, bitpos + ByteBits - 1, sum)
VarintRead(s, r, width, bitpos, result) ==
    IF r.s.ok
    THEN VarintByte(r, width, bitpos, Unsigned(result + (r.v[1] % Group) * 2^bitpos, width))
    ELSE Got(Bad(s), 0)
VarintFrom(s, width, bitpos, result) ==
    IF bitpos >= width THEN Got(Bad(s), 0)
    ELSE VarintRead(s, pb_read(s, 1), width, bitpos, result)
pb_decode_varint32(s) == VarintFrom(s, Bits32, 0, 0)
pb_decode_varint(s) == VarintFrom(s, Bits64, 0, 0)

RECURSIVE pb_skip_varint(_)
SkipByte(r) == IF r.s.ok /\ r.v[1] >= Group THEN pb_skip_varint(r.s) ELSE r.s
pb_skip_varint(s) == SkipByte(pb_read(s, 1))

ReadPast(r) == pb_read(r.s, r.v).s
pb_skip_string(s) == ReadPast(pb_decode_varint32(s))

(* A tag that cannot be read because the stream ends, and a zero tag, are the  *)
(* end of the message.                                                          *)
TagOf(r) ==
    [s |-> r.s, eof |-> IF r.s.ok THEN r.v = 0 ELSE r.s.left = 0,
     tag |-> r.v \div 8, wire |-> r.v % 8]
pb_decode_tag(s) == TagOf(pb_decode_varint32(s))

pb_skip_field(s, wire) ==
    CASE wire = WireVarint -> pb_skip_varint(s)
      [] wire = Wire64     -> pb_read(s, Bytes64).s
      [] wire = WireString -> pb_skip_string(s)
      [] wire = Wire32     -> pb_read(s, Bytes32).s
      [] OTHER             -> Bad(s)

Split(s, count) == [s |-> [s EXCEPT !.left = @ - count], sub |-> [s EXCEPT !.left = count]]

(* A deviation: a length beyond the end of the stream is cut to what is there.  *)
SplitWhatIsLeft(r) ==
    IF ~r.s.ok THEN [s |-> r.s, sub |-> r.s]
    ELSE Split(r.s, IF r.s.left < r.v THEN r.s.left ELSE r.v)
MakeSubstreamOfWhatIsLeft(s) == SplitWhatIsLeft(pb_decode_varint32(s))

(* The substream of a field with a length; the parent no longer owns its bytes. *)
SplitOff(r) ==
    IF ~r.s.ok \/ r.s.left < r.v THEN [s |-> Bad(r.s), sub |-> Bad(r.s)] ELSE Split(r.s, r.v)
pb_make_string_substream(s) == SplitOff(pb_decode_varint32(s))

(* What the substream left is skipped; the parent goes on behind it.            *)
pb_close_string_substream(s, sub) ==
    [s EXCEPT !.pos = pb_read([sub EXCEPT !.ok = TRUE], sub.left).s.pos,
              !.calls = sub.calls, !.ok = @ /\ sub.ok]

-----------------------------------------------------------------------------
(* Defaults.                                                                    *)

RECURSIVE pb_message_set_to_defaults(_, _)
DefaultItem(f, old) ==
    IF f.lt = "submessage" THEN pb_message_set_to_defaults(f.ptr, old)
    ELSE IF f.ptr # Null THEN f.ptr ELSE BlankItem(f)
pb_field_set_to_default(f, d) ==
    CASE f.lt = "extension" ->
             [d EXCEPT !.v = [k \in 1 .. Len(@) |->
                 [@[k] EXCEPT !.found = FALSE, !.dest = DefaultItem(d.v[k].field, @)]]]
      [] f.lt # "extension" /\ f.at = "static" ->
             IF f.ht \in {"repeated", "oneof"} THEN [d EXCEPT !.n = 0]
             ELSE [n |-> FALSE, v |-> DefaultItem(f, d.v)]
      [] f.lt # "extension" /\ f.at = "pointer" ->
             [n |-> IF f.ht \in {"repeated", "oneof"} THEN 0 ELSE d.n, v |-> Null]
      [] OTHER -> d
pb_message_set_to_defaults(fields, m) ==
    FoldLeft(LAMBDA acc, f : [acc EXCEPT ![Key(f)] = pb_field_set_to_default(f, @)], m, fields)

-----------------------------------------------------------------------------
(* One item: pb_dec_*.                                                          *)

RECURSIVE pb_decode_noinit(_, _, _)
pb_decode(s, fields, m) == pb_decode_noinit(s, fields, pb_message_set_to_defaults(fields, m))

(* New array entries are initialised; other submessages are merged into.        *)
CloseWith(s, sub) == Got(pb_close_string_substream(s, sub.s), sub.v)
DecodeInside(r, f, old) ==
    IF ~r.s.ok \/ f.ptr = Null THEN Got(Bad(r.s), old)
    ELSE CloseWith(r.s, IF f.ht = "repeated" THEN pb_decode(r.sub, f.ptr, old)
                        ELSE pb_decode_noinit(r.sub, f.ptr, old))
pb_dec_submessage(s, f, old) == DecodeInside(pb_make_string_substream(s), f, old)

(* The integer types cast to the size of the field and refuse what the cast    *)
(* changes; an int field of at most 32 bits first casts to int32.               *)
Checked(s, value, clamped) == Got([s EXCEPT !.ok = @ /\ clamped = value], clamped)
CheckedInt(s, v, f) == Checked(s, v, Signed(v, ByteBits * f.size))
IntOf(r, f) == CheckedInt(r.s, Signed(r.v, IF f.size = Bytes64 THEN Bits64 ELSE Bits32), f)
UintOf(r, f) == Checked(r.s, r.v, Unsigned(r.v, ByteBits * f.size))
SintOf(r, f) == CheckedInt(r.s, UnZigZag(r.v), f)
pb_dec_varint(s, f) == IntOf(pb_decode_varint(s), f)
pb_dec_uvarint(s, f) == UintOf(pb_decode_varint(s), f)
pb_dec_svarint(s, f) == SintOf(pb_decode_varint(s), f)

FixedOf(r) == Got(r.s, FixedValue(r.v))
pb_dec_fixed32(s) == FixedOf(pb_read(s, Bytes32))
pb_dec_fixed64(s) == FixedOf(pb_read(s, Bytes64))

(* The bytes behind a length that was read, if they and extra more fit.         *)
ReadSized(r, f, extra, old) ==
    IF ~r.s.ok \/ f.at = "pointer" \/ r.v + extra > f.size THEN Got(Bad(r.s), old)
    ELSE pb_read(r.s, r.v)
pb_dec_bytes(s, f, old) == ReadSized(pb_decode_varint32(s), f, 0, old)
pb_dec_string(s, f, old) == ReadSized(pb_decode_varint32(s), f, 1, old)   \* the terminator

ReadFixedLength(r, f, old) ==
    IF ~r.s.ok THEN r
    ELSE IF r.v = 0 THEN Got(r.s, [k \in 1 .. f.size |-> 0])
    ELSE IF r.v # f.size THEN Got(Bad(r.s), old)
    ELSE pb_read(r.s, r.v)
pb_dec_fixed_length_bytes(s, f, old) == ReadFixedLength(pb_decode_varint32(s), f, old)

DecodeItem(s, f, old) ==
    CASE f.lt = "varint"  -> pb_dec_varint(s, f)
      [] f.lt = "uvarint" -> pb_dec_uvarint(s, f)
      [] f.lt = "svarint" -> pb_dec_svarint(s, f)
      [] f.lt = "fixed32" -> pb_dec_fixed32(s)
      [] f.lt = "fixed64" -> pb_dec_fixed64(s)
      [] f.lt = "bytes"   -> pb_dec_bytes(s, f, old)
      [] f.lt = "string"  -> pb_dec_string(s, f, old)
      [] f.lt = "submessage" -> pb_dec_submessage(s, f, old)
      [] f.lt = "fixed_length_bytes" -> pb_dec_fixed_length_bytes(s, f, old)

-----------------------------------------------------------------------------
(* One field.  The wire type is only looked at to tell a packed array: any     *)
(* other field is read by its own type.                                         *)

(* The packed items of a substream, until it is empty or the array is full.    *)
RECURSIVE Unpack(_, _, _)
Stored(f, d, x) ==
    CASE f.ht = "required" -> [d EXCEPT !.v = x]
      [] f.ht = "optional" -> [n |-> f.has, v |-> x]
      [] f.ht = "repeated" -> [n |-> d.n + 1, v |-> [d.v EXCEPT ![d.n + 1] = x]]
      [] f.ht = "oneof"    -> [n |-> f.tag, v |-> <<f.tag, x>>]
UnpackItem(r, f, d) == IF r.s.ok THEN Unpack(r.s, f, Stored(f, d, r.v)) ELSE Got(r.s, d)
Unpack(sub, f, d) ==
    IF sub.left = 0 \/ d.n >= f.array THEN Got(sub, d)
    ELSE UnpackItem(DecodeItem(sub, f, d.v[d.n + 1]), f, d)

ClosePacked(s, items) ==
    IF items.s.left # 0 THEN Got(Bad(s), items.v) ELSE CloseWith(s, items)
UnpackInside(r, f, d) == IF r.s.ok THEN ClosePacked(r.s, Unpack(r.sub, f, d)) ELSE Got(r.s, d)
DecodePacked(s, f, d) == UnpackInside(pb_make_string_substream(s), f, d)

(* What the item is read over: of an array the entry behind the last one        *)
(* (pData + data_size * count), of a union's submessage its defaults.           *)
OldItem(f, d) ==
    CASE f.ht = "repeated" -> d.v[d.n + 1]
      [] f.ht = "oneof" /\ f.lt = "submessage" -> pb_message_set_to_defaults(f.ptr, Blank(f.ptr))
      [] OTHER -> d.v
StoreItem(r, f, d) == Got(r.s, Stored(f, d, r.v))

decode_static_field(s, wire, f, d) ==
    IF f.ht = "repeated" /\ wire = WireString /\ f.lt \in Packable THEN DecodePacked(s, f, d)
    ELSE IF f.ht = "repeated" /\ d.n >= f.array THEN Got(Bad(s), d)
    ELSE StoreItem(DecodeItem(s, f, OldItem(f, d)), f, d)

(* The user's callback takes at most take bytes of its substream per call.      *)
CallWith(r) == [r.s EXCEPT !.calls = Append(@, r.v)]
UserDecode(s, take) == CallWith(pb_read(s, IF s.left < take THEN s.left ELSE take))

RECURSIVE CallUntilEmpty(_, _)
CallAgain(sub, take) == IF sub.left > 0 THEN CallUntilEmpty(sub, take) ELSE sub
CallUntilEmpty(sub, take) == CallAgain(UserDecode(sub, take), take)

(* A scalar is copied first (read_raw_value), so that the callback cannot read *)
(* behind it.                                                                   *)
MaxVarintBytes == (Bits64 + ByteBits - 2) \div (ByteBits - 1)
RawValue(s, wire, behind) ==
    Got(IF wire = WireVarint /\ behind.pos - s.pos > MaxVarintBytes THEN Bad(behind) ELSE behind,
        SubSeq(s.buf, s.pos + 1, behind.pos))
read_raw_value(s, wire) ==
    RawValue(s, wire, CASE wire = WireVarint -> pb_skip_varint(s)
                        [] wire = Wire64     -> pb_read(s, Bytes64).s
                        [] wire = Wire32     -> pb_read(s, Bytes32).s
                        [] OTHER             -> Bad(s))

CallInside(r, take) ==
    IF r.s.ok THEN pb_close_string_substream(r.s, CallUntilEmpty(r.sub, take)) ELSE r.s
CallWithRaw(r) == IF r.s.ok THEN CallWith(r) ELSE r.s
decode_callback_field(s, wire, f, d) ==
    Got(IF d.v = Null THEN pb_skip_field(s, wire)
        ELSE IF wire = WireString THEN CallInside(pb_make_string_substream(s), d.v)
        ELSE CallWithRaw(read_raw_value(s, wire)), d)

decode_field(s, wire, f, d) ==
    CASE f.at = "static"   -> decode_static_field(s, wire, f, d)
      [] f.at = "pointer"  -> Got(Bad(s), d)              \* "no malloc support"
      [] f.at = "callback" -> decode_callback_field(s, wire, f, d)

(* Each extension in turn, until one of them reads something.                   *)
ExtensionRead(ext, r) == Got(r.s, [ext EXCEPT !.found = TRUE, !.dest = r.v.v])
default_extension_decoder(s, ext, tag, wire) ==
    IF ext.field.tag # tag THEN Got(s, ext)
    ELSE ExtensionRead(ext, decode_field(s, wire, ext.field, [n |-> ext.found, v |-> ext.dest]))
RECURSIVE ExtensionsFrom(_, _, _, _, _)
AfterExtension(s, exts, k, tag, wire, r) ==
    IF ~r.s.ok \/ r.s.left # s.left THEN Got(r.s, [exts EXCEPT ![k] = r.v])
    ELSE ExtensionsFrom(s, exts, k + 1, tag, wire)
ExtensionsFrom(s, exts, k, tag, wire) ==
    IF k > Len(exts) THEN Got(s, exts)
    ELSE AfterExtension(s, exts, k, tag, wire, default_extension_decoder(s, exts[k], tag, wire))
decode_extension(s, exts, tag, wire) == ExtensionsFrom(s, exts, 1, tag, wire)

-----------------------------------------------------------------------------
(* All required fields were present?  fields_seen is compared word by word,    *)
(* the last word with the ones of the fields it has left.                       *)
AllSeen(seen, count, wide) ==
    LET words == count \div WordBits
        bits  == count % WordBits
        rest  == {b \in 0 .. WordBits - 1 : words * WordBits + b \in seen}
    IN  count > 0 =>
            /\ \A b \in 0 .. words * WordBits - 1 : b \in seen
            /\ rest = (IF bits = 0 /\ wide THEN 0 .. WordBits - 1 ELSE 0 .. bits - 1)

(* The fields until the stream, or the message, ends.                           *)
RECURSIVE Fields(_, _, _, _)
Stop(s, m, seen) == [s |-> s, v |-> m, seen |-> seen]
GoOn(s, fields, m, seen) == IF s.ok THEN Fields(s, fields, m, seen) ELSE Stop(s, m, seen)

SeenWith(fields, i, seen) ==
    IF fields[i].ht = "required" /\ RequiredIndex(fields, i) < MaxRequired
    THEN seen \union {RequiredIndex(fields, i)} ELSE seen

TakeField(r, fields, m, key, seen) == GoOn(r.s, fields, [m EXCEPT ![key] = r.v], seen)
DecodeFound(t, fields, m, seen, i) ==
    TakeField(decode_field(t.s, t.wire, fields[i], m[Key(fields[i])]), fields, m,
              Key(fields[i]), SeenWith(fields, i, seen))

SkipUnknown(t, fields, m, seen) == GoOn(pb_skip_field(t.s, t.wire), fields, m, seen)
TakeExtension(t, ext, fields, m, key, seen) ==
    IF ~ext.s.ok \/ ext.s.left # t.s.left
    THEN GoOn(ext.s, fields, [m EXCEPT ![key].v = ext.v], seen)
    ELSE SkipUnknown(t, fields, m, seen)
TryExtensions(t, fields, m, seen, key) ==
    TakeExtension(t, decode_extension(t.s, m[key].v, t.tag, t.wire), fields, m, key, seen)

(* A field of the descriptor, else an extension, else skipped.                  *)
OneField(t, fields, m, seen, found, exts) ==
    IF found # {} THEN DecodeFound(t, fields, m, seen, CHOOSE j \in found : TRUE)
    ELSE IF exts # {} THEN TryExtensions(t, fields, m, seen, Key(fields[CHOOSE j \in exts : TRUE]))
    ELSE SkipUnknown(t, fields, m, seen)

AfterTag(t, fields, m, seen) ==
    IF ~t.s.ok \/ t.eof THEN Stop(IF t.eof THEN [t.s EXCEPT !.ok = TRUE] ELSE t.s, m, seen)
    ELSE OneField(t, fields, m, seen, Matches(fields, t.tag),
             {j \in 1 .. Len(fields) : fields[j].lt = "extension" /\ t.tag >= fields[j].tag})

Fields(s, fields, m, seen) ==
    IF s.left = 0 THEN Stop(s, m, seen) ELSE AfterTag(pb_decode_tag(s), fields, m, seen)

CheckRequired(r, count, wide) == Got([r.s EXCEPT !.ok = @ /\ AllSeen(r.seen, count, wide)], r.v)
pb_decode_noinit(s, fields, m) ==
    CheckRequired(Fields(s, fields, m, {}), RequiredIndex(fields, Len(fields) + 1), s.wide)

DecodeDelimited(r, fields, m) ==
    IF r.s.ok THEN CloseWith(r.s, pb_decode(r.sub, fields, m)) ELSE Got(r.s, m)
pb_decode_delimited(s, fields, m) == DecodeDelimited(pb_make_string_substream(s), fields, m)
=============================================================================
