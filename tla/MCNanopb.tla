------------------------------ MODULE MCNanopb ------------------------------
(* Nanopb with descriptors and structs.  A byte has four bits, an int32 two     *)
(* bytes and an int64 four: numbers near 8, 16, 128, 256 and 2^15 are the ones  *)
(* next to a boundary.                                                          *)
EXTENDS Integers, Sequences, TLC

CONSTANT NullPtr

VARIABLES schema, framed, sent, out, wire, cut, in, dest, got

pbVars == <<schema, framed, sent, out, wire, cut, in, dest, got>>

LOCAL Bytes32 == 2
LOCAL Bytes64 == 4
LOCAL Enc == INSTANCE PbEncode WITH ByteBits <- 4, WordBits <- 2, MaxRequired <- 8, Null <- NullPtr
LOCAL Blank(fields) == Enc!Blank(fields)

F(tag, lt, ht, size) ==
    [tag |-> tag, lt |-> lt, ht |-> ht, at |-> "static", size |-> size, array |-> 0,
     has |-> ht = "optional", group |-> 0, ptr |-> NullPtr]
Proto3(f)       == [f EXCEPT !.has = FALSE]
Array(f, count) == [f EXCEPT !.ht = "repeated", !.array = count]
OneOf(f, group) == [f EXCEPT !.ht = "oneof", !.group = group]
Ptr(f, to)      == [f EXCEPT !.ptr = to]
Placed(f, at)       == [f EXCEPT !.at = at]

Set(fields, vals) == vals @@ Blank(fields)
Has(v)   == [n |-> TRUE, v |-> v]
Req(v)   == [n |-> FALSE, v |-> v]
Items(fields, k, xs) ==
    [n |-> Len(xs),
     v |-> [i \in DOMAIN Blank(fields)[k].v |-> IF i <= Len(xs) THEN xs[i] ELSE Blank(fields)[k].v[i]]]
Absent(fields, k) == Blank(fields)[k]

-----------------------------------------------------------------------------
(* Integers of every kind at their boundaries.                                  *)
Numbers == <<F(1, "uvarint", "required", Bytes64), Ptr(F(2, "svarint", "optional", Bytes32), 3),
             F(3, "varint", "optional", 1), F(4, "fixed32", "optional", Bytes32),
             F(5, "fixed64", "required", Bytes64), F(6, "varint", "required", Bytes64)>>
NumberMsgs ==
    {Set(Numbers, (1 :> Req(a)) @@ (2 :> b) @@ (3 :> c) @@ (4 :> d) @@ (5 :> Req(e)) @@ (6 :> Req(g))) :
        a \in {0, 8, 65535}, b \in {Absent(Numbers, 2), Has(-128), Has(127)},
        c \in {Absent(Numbers, 3), Has(-8), Has(7)}, d \in {Absent(Numbers, 4), Has(255)},
        e \in {33, 65535}, g \in {-32768, 32767}}
NumberSchema == [w |-> Numbers, r |-> Numbers, msgs |-> NumberMsgs, dest |-> {Blank(Numbers)}]

(* A reader whose integers are narrower than the writer's.                      *)
Wide   == <<F(1, "uvarint", "required", Bytes32), F(2, "svarint", "optional", Bytes32)>>
Narrow == <<F(1, "uvarint", "required", 1), F(2, "svarint", "optional", 1)>>
WideMsgs == {Set(Wide, (1 :> Req(a)) @@ (2 :> b)) : a \in {0, 15, 16, 255}, b \in {Has(-8), Has(-9), Has(7), Has(8)}}
NarrowSchema == [w |-> Wide, r |-> Narrow, msgs |-> WideMsgs, dest |-> {Blank(Narrow)}]

(* Packed arrays, arrays of strings and of submessages.                         *)
Inner == <<F(1, "uvarint", "optional", 1), Array(F(2, "svarint", "optional", Bytes32), 2)>>
InnerMsgs == {Set(Inner, (1 :> a) @@ (2 :> Items(Inner, 2, b))) :
                 a \in {Absent(Inner, 1), Has(9)}, b \in {<< >>, <<-9, 100>>}}
Arrays == <<Array(F(1, "uvarint", "optional", 1), 3), Array(F(2, "string", "optional", 3), 2),
            Array(Ptr(F(3, "submessage", "optional", 0), Inner), 2)>>
ArrayMsgs ==
    {Set(Arrays, (1 :> Items(Arrays, 1, a)) @@ (2 :> Items(Arrays, 2, b)) @@ (3 :> Items(Arrays, 3, c))) :
        a \in {<< >>, <<0, 15>>}, b \in {<< >>, <<<<1>>, <<2, 3>>>>},
        c \in {<< >>} \union {<<x>> : x \in {y \in InnerMsgs : y[1].n}}}
DirtyArray == CHOOSE m \in ArrayMsgs : m[1].n = 2 /\ m[2].n = 2 /\ m[3].n = 1
                                       /\ m[3].v[1][1].n /\ m[3].v[1][2].n = 2
ArraySchema == [w |-> Arrays, r |-> Arrays, msgs |-> ArrayMsgs, dest |-> {DirtyArray}]

(* Submessages, unions and proto3 fields.                                       *)
Nested == <<Ptr(F(1, "submessage", "optional", 0), Inner), OneOf(F(2, "varint", "optional", Bytes32), 20),
            OneOf(Ptr(F(3, "submessage", "optional", 0), Inner), 20),
            Proto3(F(4, "uvarint", "optional", 1)), Proto3(F(5, "string", "optional", 3))>>
NestedMsgs ==
    {Set(Nested, (1 :> a) @@ (20 :> b) @@ (4 :> Req(c[1])) @@ (5 :> Req(c[2]))) :
        a \in {Absent(Nested, 1)} \union {Has(x) : x \in InnerMsgs},
        b \in {Absent(Nested, 20), [n |-> 2, v |-> <<2, -1>>]} \union {[n |-> 3, v |-> <<3, x>>] : x \in InnerMsgs},
        c \in {<<0, << >>>>, <<8, <<1, 2>>>>}}
DirtyNested == CHOOSE m \in NestedMsgs : m[1].n /\ m[20].n = 3 /\ m[4].v = 8 /\ m[5].v # << >>
                                         /\ m[1].v[2].n = 2 /\ m[20].v[2][2].n = 2
NestedSchema == [w |-> Nested, r |-> Nested, msgs |-> NestedMsgs, dest |-> {DirtyNested}]

(* Bytes, fixed-length bytes, extensions and callbacks.                         *)
ExtField == F(9, "uvarint", "required", Bytes32)
Ext2     == F(10, "svarint", "required", Bytes32)
Ext(f, x, found) == [field |-> f, dest |-> x, found |-> found]
Opaque == <<F(1, "bytes", "optional", 3), F(2, "fixed_length_bytes", "required", 2),
            Placed(F(3, "string", "optional", 0), "callback"), F(8, "extension", "optional", 0)>>
OpaqueMsgs ==
    {Set(Opaque, (1 :> a) @@ (2 :> Req(b)) @@ (3 :> Req(c)) @@ (8 :> Req(<<Ext(ExtField, d, FALSE), Ext(Ext2, -1, FALSE)>>))) :
        a \in {Absent(Opaque, 1), Has(<<0, 15, 0>>)}, b \in {<<7, 9>>},
        c \in {NullPtr, <<<< >>>>, <<<<1, 2, 3>>>>}, d \in {0, 200}}
OpaqueDest == {Set(Opaque, (3 :> Req(t)) @@ (8 :> Req(<<Ext(ExtField, 5, TRUE), Ext(Ext2, 1, TRUE)>>))) : t \in {1, 2}}
OpaqueSchema == [w |-> Opaque, r |-> Opaque, msgs |-> OpaqueMsgs, dest |-> OpaqueDest]

(* A writer with fields its reader does not know, and the other way round.      *)
Newer == <<Placed(F(1, "string", "optional", 0), "callback"), F(2, "fixed64", "required", Bytes64),
           F(3, "uvarint", "optional", 1), F(4, "fixed32", "required", Bytes32),
           Ptr(F(5, "submessage", "optional", 0), Append(Inner, F(3, "bytes", "optional", 2))),
           Array(F(6, "uvarint", "optional", Bytes64), 3), Placed(F(7, "bytes", "optional", 0), "pointer")>>
Older == <<F(3, "uvarint", "optional", 1), Ptr(F(5, "submessage", "optional", 0), Inner),
           Array(F(6, "uvarint", "optional", Bytes32), 2), Ptr(F(15, "svarint", "optional", Bytes32), 3)>>
NewerInner == {Set(Newer[5].ptr, (1 :> a) @@ (3 :> b)) :
                  a \in {Absent(Inner, 1), Has(9)}, b \in {Has(<<1, 2>>), Has(<< >>)}}
NewerMsgs ==
    {Set(Newer, (1 :> Req(a)) @@ (2 :> Req(4369)) @@ (3 :> b) @@ (4 :> Req(18)) @@ (5 :> c)
                @@ (6 :> Items(Newer, 6, d)) @@ (7 :> Req(e))) :
        a \in {NullPtr, <<<<8, 8>>>>}, b \in {Absent(Newer, 3), Has(15)},
        c \in {Absent(Newer, 5)} \union {Has(x) : x \in NewerInner},
        d \in {<< >>, <<1>>, <<1, 255>>, <<1, 2, 3>>, <<256>>}, e \in {NullPtr, <<3>>}}
SkewSchema == [w |-> Newer, r |-> Older, msgs |-> NewerMsgs, dest |-> {Blank(Older)}]

-----------------------------------------------------------------------------
TagBytes == {0, 1, 2, 3, 8, 9, 10, 13, 15}

(* Small descriptors for streams of unknown bytes.                              *)
Small1 == <<F(1, "uvarint", "optional", 1), Array(F(2, "svarint", "optional", 1), 1),
            F(3, "string", "optional", 2)>>
Small2 == <<Ptr(F(1, "submessage", "optional", 0), <<F(1, "varint", "optional", Bytes32)>>),
            OneOf(F(2, "fixed32", "optional", Bytes32), 20), OneOf(F(3, "bytes", "optional", 1), 20)>>
SmallSchemas == {[w |-> fs, r |-> fs, msgs |-> {}, dest |-> {Blank(fs)}] : fs \in {Small1, Small2}}

(* A submessage whose callback writes something else on every call.             *)
Told     == <<Placed(F(1, "string", "optional", 0), "callback"), F(2, "uvarint", "optional", 1)>>
ToldMsg  == <<Ptr(F(1, "submessage", "optional", 0), Told), F(2, "uvarint", "required", 1)>>
Outputs  == {<< >>, <<1>>, <<1, 2>>, NullPtr}
ToldSchema ==
    [w |-> ToldMsg, r |-> ToldMsg,
      msgs |-> {Set(ToldMsg, (1 :> Has(Set(Told, (1 :> Req(<<a, b, c>>)) @@ (2 :> Has(9))))) @@ (2 :> Req(1))) :
                   a \in Outputs, b \in Outputs, c \in Outputs},
      dest |-> {Set(ToldMsg, 1 :> Req(Set(Told, 1 :> Req(1))))}]

-----------------------------------------------------------------------------
(* The cases.                                                                   *)
Whole(sch, framings, sends) ==
    [framings |-> framings, cuts |-> FALSE, rooms |-> {64}, steady |-> TRUE,
     sends |-> sends, bytes |-> 0] @@ sch
Cuts(case)  == [case EXCEPT !.cuts = TRUE]
Tight(case) == [case EXCEPT !.rooms = 0 .. 40]
Bytes(sch)  == [Whole(sch, {FALSE}, 0) EXCEPT !.bytes = 5]

PbSchemas ==
    {Whole(NumberSchema, {FALSE}, 1), Whole(NestedSchema, {FALSE}, 2),
     Cuts(Whole(ArraySchema, BOOLEAN, 2)),
     Cuts(Whole(OpaqueSchema, {TRUE}, 2)), Whole(OpaqueSchema, {FALSE}, 2),
     Cuts(Whole(NarrowSchema, BOOLEAN, 2)),
     Cuts(Whole(NestedSchema, {FALSE}, 1)), Cuts(Whole(SkewSchema, {FALSE}, 1)),
     Tight(Whole(ArraySchema, BOOLEAN, 1)), Tight(Whole(OpaqueSchema, BOOLEAN, 1)),
     [Whole(ToldSchema, BOOLEAN, 2) EXCEPT !.steady = FALSE]}
    \union {Bytes(sch) : sch \in SmallSchemas}

Pb == INSTANCE Nanopb WITH
    ByteBits <- 4, WordBits <- 2, MaxRequired <- 8, Null <- NullPtr,
    Schemas <- PbSchemas, Alphabet <- TagBytes, Wides <- {TRUE}

(* A behaviour that is not about nanopb.                                         *)
NoMessages ==
    /\ schema = NullPtr /\ dest = NullPtr /\ in = NullPtr
    /\ sent = << >> /\ wire = << >> /\ got = << >> /\ out = << >> /\ framed = FALSE /\ cut = FALSE

-----------------------------------------------------------------------------
(* What was encoded arrives: several messages on a stream as their merge,       *)
(* delimited ones one by one and in order, unknown fields skipped wherever they *)
(* stand, false exactly when a value does not fit, and a callback gets every    *)
(* byte of its field once.                                                      *)
ReceivesWhatWasSent == schema # NullPtr => Pb!ReceivesWhatWasSent

(* The two passes of the encoder agree: the size it computes is what it writes, *)
(* it succeeds exactly when the buffer has that room, and a callback that       *)
(* writes something else in the second pass cannot break what was returned as   *)
(* written.                                                                     *)
EncoderIsExact == schema # NullPtr => Pb!EncoderIsExact

(* The decoder is safe on any bytes: a message that was cut is never read from  *)
(* half of a field, other bytes leave counts, sizes and integers within what    *)
(* the descriptor has room for, and what is accepted is sent on unchanged.      *)
SafeOnAnyBytes == schema # NullPtr => Pb!SafeOnAnyBytes
=============================================================================
