------------------------------- MODULE Nanopb -------------------------------
(* A writer and a reader of protocol buffers that share a byte stream: the     *)
(* writer encodes structs into buffers of a given size and sends what it       *)
(* encoded, the stream may end early, and the reader decodes into a struct     *)
(* that it may have used before.  Writer and reader have their own            *)
(* descriptors, as two versions of a .proto file have.                         *)
EXTENDS PbDecode

CONSTANTS
    Schemas,     \* the cases, see below
    Alphabet,    \* the bytes an unknown sender may send
    Wides        \* the outcomes of a shift by the whole width of a word

(* A case is a record of the descriptors w and r of writer and reader, the      *)
(* structs msgs to send and dest to decode into, framings (are messages         *)
(* delimited?), cuts (may the stream end early?), the sizes rooms of the         *)
(* writer's buffers, steady (callbacks write the same on every call), and the    *)
(* bounds sends (messages on one stream) and bytes (of an unknown sender).       *)

VARIABLES
    schema,      \* the descriptors in use
    framed,      \* are the messages delimited?
    sent,        \* the structs that were encoded
    out,         \* the outcome of the last pb_encode
    wire,        \* the bytes of the stream
    cut,         \* did the stream end early?
    in,          \* the reader's pb_istream_t (Null before it is opened)
    dest,        \* the reader's struct
    got          \* what the reader was given: [ok, view] per message

vars == <<schema, framed, sent, out, wire, cut, in, dest, got>>

NoOutcome == [ok |-> TRUE, written |-> 0, bytes |-> << >>, room |-> 0, msg |-> Null]

Init ==
    /\ schema \in Schemas
    /\ framed \in schema.framings
    /\ sent = << >>
    /\ out = NoOutcome
    /\ wire = << >>
    /\ cut = FALSE
    /\ in = Null
    /\ dest \in schema.dest
    /\ got = << >>

(* pb_encode or pb_encode_delimited into a buffer; the bytes go onto the       *)
(* stream when it returns true; the writer gives up after a failure.            *)
Encode(m, room) ==
    /\ in = Null /\ ~cut /\ out.ok
    /\ Len(sent) < schema.sends
    /\ \E s \in {IF framed THEN pb_encode_delimited(pb_ostream_from_buffer(room), schema.w, m)
                 ELSE pb_encode(pb_ostream_from_buffer(room), schema.w, m)} :
           /\ out' = [ok |-> s.ok, written |-> s.written, bytes |-> s.out, room |-> room, msg |-> m]
           /\ wire' = IF s.ok THEN wire \o s.out ELSE wire
           /\ sent' = IF s.ok THEN Append(sent, m) ELSE sent
    /\ UNCHANGED <<schema, framed, cut, in, dest, got>>

(* The stream ends in the middle of what was sent.                              *)
Cut ==
    /\ schema.cuts
    /\ in = Null /\ ~cut
    /\ \E k \in 0 .. Len(wire) - 1 : wire' = SubSeq(wire, 1, k)
    /\ cut' = TRUE
    /\ UNCHANGED <<schema, framed, sent, out, in, dest, got>>

(* A byte of a sender nothing is known about.                                   *)
Receive ==
    /\ in = Null /\ sent = << >> /\ ~framed
    /\ Len(wire) < schema.bytes
    /\ \E b \in Alphabet : wire' = Append(wire, b)
    /\ UNCHANGED <<schema, framed, sent, out, cut, in, dest, got>>

Open ==
    /\ in = Null
    /\ \E wide \in Wides : in' = pb_istream_from_buffer(wire, wide)
    /\ UNCHANGED <<schema, framed, sent, out, wire, cut, dest, got>>

-----------------------------------------------------------------------------
(* What a struct says.  Data behind a has_ that is not set, a count or the     *)
(* terminator of a string is not part of it; callbacks are told apart.          *)
RECURSIVE View(_, _)
ViewItem(f, x) ==
    CASE f.lt = "submessage" -> View(f.ptr, x)
      [] f.lt = "string"     -> UpToNul(x)
      [] OTHER               -> x
ViewField(fields, d, k) ==
    LET f == fields[CHOOSE i \in 1 .. Len(fields) :
                        Key(fields[i]) = k /\ (fields[i].ht = "oneof" => d.n \in {0, fields[i].tag})]
    IN  CASE f.at = "callback"   -> << >>
          [] f.lt = "extension"  -> [e \in 1 .. Len(d.v) |-> ViewItem(d.v[e].field, d.v[e].dest)]
          [] f.ht = "required"   -> <<ViewItem(f, d.v)>>
          [] f.ht = "optional"   -> IF f.at = "pointer" /\ d.v = Null THEN << >>
                                    ELSE IF f.at = "static" /\ f.has /\ ~d.n THEN << >>
                                    ELSE <<ViewItem(f, d.v)>>
          [] f.ht = "repeated"   -> IF d.v = Null THEN << >>
                                    ELSE [e \in 1 .. d.n |-> ViewItem(f, d.v[e])]
          [] f.ht = "oneof"      -> IF d.n = 0 THEN << >> ELSE <<d.n, ViewItem(f, d.v[2])>>
View(fields, m) == [k \in FieldKeys(fields) |-> ViewField(fields, m[k], k)]

FieldOf(fields, k) == fields[CHOOSE i \in 1 .. Len(fields) : Key(fields[i]) = k]

(* The outcome of a decode, as the reader keeps it.                             *)
Outcome(r) == [ok |-> r.s.ok, view |-> IF r.s.ok THEN View(schema.r, r.v) ELSE Null]

(* The reader decodes the whole stream, or the next delimited message; it does *)
(* not go on after a failure.                                                   *)
Decode ==
    /\ in # Null /\ in.ok
    /\ IF framed THEN in.left > 0 ELSE got = << >>
    /\ \E r \in {IF framed THEN pb_decode_delimited(in, schema.r, dest)
                 ELSE pb_decode(in, schema.r, dest)} :
           /\ in' = r.s
           /\ dest' = r.v
           /\ got' = Append(got, Outcome(r))
    /\ UNCHANGED <<schema, framed, sent, out, wire, cut>>

Next == \/ Cut \/ Receive \/ Open \/ Decode
        \/ \E m \in schema.msgs, room \in schema.rooms : Encode(m, room)

Spec == Init /\ [][Next]_vars

-----------------------------------------------------------------------------
(* The reference: what protocol buffers promise of messages that are           *)
(* concatenated, and of a reader that knows other fields than the writer.       *)

(* Is a value of a proto3 field left out?                                       *)
Unsent(f, y) ==
    /\ f.ht = "optional" /\ f.at = "static" /\ ~f.has /\ f.lt # "submessage"
    /\ IF f.lt \in {"bytes", "string"} THEN y[1] = << >> ELSE y[1] = 0

(* The later of two values of a field: scalars are replaced, submessages       *)
(* merged, arrays appended, a union holds what was sent last.                   *)
RECURSIVE Merge(_, _, _)
MergeField(f, x, y) ==
    CASE f.ht = "repeated" -> x \o y
      [] f.lt = "extension" -> y
      [] f.ht \in {"required", "optional"} /\ f.lt = "submessage" ->
             IF y = << >> THEN x ELSE IF x = << >> THEN y ELSE <<Merge(f.ptr, x[1], y[1])>>
      [] OTHER -> IF y = << >> THEN x ELSE IF Unsent(f, y) THEN x ELSE y
Merge(fields, a, b) == [k \in DOMAIN a |-> MergeField(FieldOf(fields, k), a[k], b[k])]

(* What the reader's descriptor can tell of a view of the writer's.            *)
RECURSIVE Known(_, _, _)
KnownItem(f, g, x) == IF f.lt = "submessage" THEN Known(f.ptr, g.ptr, x) ELSE x
KnownField(f, g, x) ==
    IF f.at = "callback" \/ f.lt = "extension" THEN x
    ELSE IF f.ht = "oneof" THEN x
    ELSE [e \in 1 .. Len(x) |-> KnownItem(f, g, x[e])]
Known(rf, wf, view) ==
    [k \in FieldKeys(rf) |->
        IF k \in DOMAIN view THEN KnownField(FieldOf(rf, k), FieldOf(wf, k), view[k])
        ELSE View(rf, pb_message_set_to_defaults(rf, Blank(rf)))[k]]

(* Does a value fit the reader's buffers, arrays and integers?                  *)
RECURSIVE Fits(_, _)
FitsItem(f, x) ==
    CASE f.lt = "submessage" -> Fits(f.ptr, x)
      [] f.lt = "bytes"      -> Len(x) <= f.size
      [] f.lt = "string"     -> Len(x) < f.size
      [] f.lt = "uvarint"    -> x = Unsigned(x, ByteBits * f.size)
      [] f.lt = "svarint"    -> x = Signed(x, ByteBits * f.size)
      [] f.lt = "varint"     -> x = Signed(x, ByteBits * f.size)
      [] OTHER               -> TRUE
FitsField(f, x) ==
    \/ f.at = "callback" \/ f.lt = "extension" \/ f.ht = "oneof"
    \/ /\ f.at = "pointer" => x = << >>
       /\ f.ht = "repeated" => Len(x) <= f.array
       /\ \A e \in 1 .. Len(x) : FitsItem(f, x[e])
Fits(fields, view) == \A k \in DOMAIN view : FitsField(FieldOf(fields, k), view[k])

Sent(i) == Known(schema.r, schema.w, View(schema.w, sent[i]))
RECURSIVE MergedTo(_)
MergedTo(i) == IF i = 1 THEN Sent(1) ELSE Merge(schema.r, MergedTo(i - 1), Sent(i))

-----------------------------------------------------------------------------
(* The one type invariant of the module.                                        *)
TypeOK ==
    /\ SizesAssumption
    /\ schema \in Schemas
    /\ framed \in schema.framings /\ cut \in BOOLEAN
    /\ Len(sent) <= schema.sends
    /\ \A i \in 1 .. Len(sent) : sent[i] \in schema.msgs
    /\ \A i \in 1 .. Len(wire) : wire[i] \in Byte
    /\ \A i \in 1 .. Len(got) : got[i].ok \in BOOLEAN

(* pb_decode returns exactly what was encoded: several messages on one stream  *)
(* read as their merge, fields the reader does not know are skipped wherever   *)
(* they stand, and it returns false exactly when a value does not fit; all of  *)
(* that whatever the struct held before.                                        *)
DecodesTheMerge ==
    (~framed /\ ~cut /\ sent # << >> /\ got # << >>) =>
        /\ got[1].ok <=> \A i \in 1 .. Len(sent) : Fits(schema.r, MergedTo(i))
        /\ got[1].ok => got[1].view = MergedTo(Len(sent))

(* Delimited messages come out one by one and in order; a message cut off, or  *)
(* one that does not fit, is never taken for another.                           *)
DelimitedInOrder ==
    framed => \A i \in 1 .. Len(got) :
                  got[i].ok => /\ i <= Len(sent)
                               /\ got[i].view = Sent(i)

(* pb_get_encoded_size is what pb_encode writes, and pb_encode succeeds        *)
(* exactly when the buffer has that much room, which it never exceeds.          *)
WritesExactly(need) ==
    /\ Len(out.bytes) = out.written /\ out.written <= out.room
    /\ out.ok <=> need <= out.room
    /\ out.ok => out.written = need
SizeIsExact ==
    (out.msg # Null /\ schema.steady) =>
        \A size \in {pb_get_encoded_size(schema.w, out.msg)} :
            WritesExactly(IF framed THEN size + Len(VarintBytes(size)) ELSE size)

CallbackAt(fields) == SelectInSeq(fields, LAMBDA f : f.at = "callback")
CallbackOutputs(m) ==
    LET v == m[Key(schema.w[CallbackAt(schema.w)])].v IN IF v = Null THEN << >> ELSE v[1]

(* A decode callback gets every byte of its field once and in order.            *)
CallbacksGetAll ==
    (~framed /\ ~cut /\ got # << >> /\ got[1].ok /\ sent # << >> /\ CallbackAt(schema.r) > 0) =>
        FlattenSeq(in.calls) = FlattenSeq([i \in 1 .. Len(sent) |-> CallbackOutputs(sent[i])])

Parts(m) ==      \* the struct with only its first fields, and of the last the first items
    {[fields |-> SubSeq(schema.w, 1, i), m |-> m] : i \in 0 .. Len(schema.w)}
        \union UNION {{[fields |-> SubSeq(schema.w, 1, i), m |-> [m EXCEPT ![Key(schema.w[i])].n = j]]
                          : j \in 0 .. m[Key(schema.w[i])].n}
                      : i \in {k \in 1 .. Len(schema.w) : schema.w[k].ht = "repeated"
                                                          /\ schema.w[k].lt \notin Packable}}
Encoded(p) == pb_encode(pb_ostream_from_buffer(64), p.fields, p.m).out

(* A message that ends early is refused unless it ends between two fields (or  *)
(* within a tag, which pb_decode_tag takes for the end): no field is ever read *)
(* from half of its bytes.                                                      *)
TruncationNoticed ==
    (cut /\ ~framed /\ Len(sent) = 1 /\ got # << >> /\ got[1].ok) =>
        \E p \in Parts(sent[1]) :
            \E bytes \in {Encoded(p)} :
                /\ Len(bytes) <= Len(wire) /\ Len(wire) <= Len(bytes) + 1
                /\ got[1].view = View(schema.r,
                       pb_decode(pb_istream_from_buffer(bytes, FALSE), schema.r, Blank(schema.r)).v)

(* A callback that writes something else in the second pass cannot break the   *)
(* framing: what pb_encode returned true for is read to its end, and the bytes *)
(* the callback wrote last are the ones that arrive.                            *)
EncodedIsReadable ==
    /\ sent # << >> /\ ~cut /\ got # << >>
    /\ \A i \in 1 .. Len(sent) : Fits(schema.r, IF framed THEN Sent(i) ELSE MergedTo(i))
    =>  /\ got[1].ok
        /\ framed => (in.left = 0 <=> Len(got) = Len(sent))

(* A varint whose low 32 bits are zero.                                         *)
IsZeroTag(bytes) ==
    \E r \in {pb_decode_varint32(pb_istream_from_buffer(bytes, FALSE))} :
        r.s.ok /\ r.s.left = 0 /\ r.v = 0

(* Whatever bytes arrive, counts, sizes and integers stay within what the      *)
(* descriptor has room for, and an accepted stream was read to its end or to a  *)
(* zero tag.                                                                    *)
StaysInBounds ==
    (sent = << >> /\ wire # << >> /\ got # << >> /\ got[1].ok) =>
        /\ in.pos + in.left = Len(wire)
        /\ in.left > 0 => \E k \in 1 .. in.pos : IsZeroTag(SubSeq(wire, k, in.pos))
        /\ Fits(schema.r, got[1].view)
        /\ \A k \in 1 .. Len(schema.r) :
               schema.r[k].lt = "string" /\ schema.r[k].ht # "repeated"
                   => Len(dest[Key(schema.r[k])].v) < schema.r[k].size

(* What was accepted is sent on unchanged: encoding it again gives bytes that  *)
(* are read as the same message.                                                *)
ReencodesTheSame ==
    (sent = << >> /\ wire # << >> /\ got # << >> /\ got[1].ok) =>
        \E bytes \in {pb_encode(pb_ostream_from_buffer(64), schema.r, dest)} :
            /\ bytes.ok
            /\ \E again \in {pb_decode(pb_istream_from_buffer(bytes.out, FALSE), schema.r, Blank(schema.r))} :
                   again.s.ok /\ View(schema.r, again.v) = got[1].view

(* What was encoded arrives: several messages on a stream as their merge,       *)
(* delimited ones one by one and in order, unknown fields skipped wherever they *)
(* stand, false exactly when a value does not fit, and a callback gets every    *)
(* byte of its field once.                                                      *)
ReceivesWhatWasSent == DecodesTheMerge /\ DelimitedInOrder /\ CallbacksGetAll

(* The two passes of the encoder agree: the size it computes is what it writes, *)
(* it succeeds exactly when the buffer has that room, and a callback that       *)
(* writes something else in the second pass cannot break what was returned as   *)
(* written.                                                                     *)
EncoderIsExact == SizeIsExact /\ EncodedIsReadable

(* The decoder is safe on any bytes: a message that was cut is never read from  *)
(* half of a field, other bytes leave counts, sizes and integers within what    *)
(* the descriptor has room for, and what is accepted is sent on unchanged.      *)
SafeOnAnyBytes == TypeOK /\ TruncationNoticed /\ StaysInBounds /\ ReencodesTheSame
=============================================================================
