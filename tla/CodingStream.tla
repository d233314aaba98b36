---------------------------- MODULE CodingStream ----------------------------
(* A writer puts numbers and strings one behind another, the bytes may be cut   *)
(* short, and a reader takes them back with the matching calls until one fails. *)
EXTENDS Coding

CONSTANTS
    Numbers32,  \* numbers put as varint32 or fixed32
    Numbers64,  \* numbers put as varint64 or fixed64
    Strings,    \* strings put behind their length
    MaxItems    \* bound: items of a stream

VARIABLES
    items,      \* what was put, in order: <<form, value>>
    bytes,      \* the stream
    cut,        \* bytes were lost from its end
    read,       \* what was taken back so far
    input,      \* the slice still to read
    phase       \* "writing", "reading" or "stopped"

vars == <<items, bytes, cut, read, input, phase>>

Init ==
    /\ items = <<>> /\ bytes = <<>> /\ cut = FALSE
    /\ read = <<>> /\ input = <<>> /\ phase = "writing"

Put(form, value) ==
    /\ phase = "writing" /\ Len(items) < MaxItems
    /\ items' = Append(items, <<form, value>>)
    /\ bytes' = CASE form = "fixed32"  -> PutFixed32(bytes, value)
                  [] form = "fixed64"  -> PutFixed64(bytes, value)
                  [] form = "varint32" -> PutVarint32(bytes, value)
                  [] form = "varint64" -> PutVarint64(bytes, value)
                  [] form = "slice"    -> PutLengthPrefixedSlice(bytes, value)
    /\ UNCHANGED <<cut, read, input, phase>>

(* The bytes come back from a file, all of them or only some.                    *)
Reopen(n) ==
    /\ phase = "writing"
    /\ input' = SubSeq(bytes, 1, n)
    /\ cut' = (n < Len(bytes))
    /\ phase' = "reading"
    /\ UNCHANGED <<items, bytes, read>>

(* Fixed numbers are read after a check of the size left.                        *)
GetFixed(n) ==
    IF Len(input) < n THEN Failed(input)
    ELSE [ok |-> TRUE, value |-> DecodeFixed(SubSeq(input, 1, n)), input |-> Drop(input, n)]

Get ==
    /\ phase = "reading" /\ Len(read) < Len(items)
    /\ \E form \in {items[Len(read) + 1][1]} :
       \E got \in {CASE form = "fixed32"  -> GetFixed(FixedSize(Bits32))
                     [] form = "fixed64"  -> GetFixed(FixedSize(Bits64))
                     [] form = "varint32" -> GetVarint32(input)
                     [] form = "varint64" -> GetVarint64(input)
                     [] form = "slice"    -> GetLengthPrefixedSlice(input)} :
          /\ input' = got.input
          /\ read' = IF got.ok THEN Append(read, <<form, got.value>>) ELSE read
          /\ phase' = IF got.ok THEN phase ELSE "stopped"
    /\ UNCHANGED <<items, bytes, cut>>

Next ==
    \/ \E v \in Numbers32 : Put("varint32", v) \/ Put("fixed32", v)
    \/ \E v \in Numbers64 : Put("varint64", v) \/ Put("fixed64", v)
    \/ \E s \in Strings : Put("slice", s)
    \/ \E n \in 0 .. Len(bytes) : Reopen(n)
    \/ Get

Spec == Init /\ [][Next]_vars

-----------------------------------------------------------------------------
(* The one type invariant of the module.                                         *)
TypeOK ==
    /\ phase \in {"writing", "reading", "stopped"} /\ cut \in BOOLEAN
    /\ \A i \in DOMAIN bytes : bytes[i] \in 0 .. 255
    /\ Len(items) <= MaxItems

(* The readers walk the stream in step with the writers: what comes back is what *)
(* went in, value for value and in order, whatever is put behind it, and a       *)
(* stream that was cut is read up to the cut and no further. The end of one item *)
(* is never taken for the start of the next, nor half a number for a number.     *)
ReadsWhatWasPut == IsPrefix(read, items)

(* A reader only stops early when bytes are missing, and then no whole item is   *)
(* left behind: what it did not return is what the cut took.                     *)
StopsAtTheCut ==
    /\ phase = "stopped" => cut /\ Len(read) < Len(items)
    /\ phase # "writing" /\ read = items => input = <<>>

(* VarintLength, with which MemTable::Add sizes an entry before it writes it, is *)
(* the number of bytes either encoder writes.                                    *)
LengthIsExact ==
    \A i \in DOMAIN items :
        LET v == items[i][2]
        IN  /\ items[i][1] = "varint32" => Len(EncodeVarint32(v)) = VarintLength(v)
            /\ items[i][1] = "varint64" => Len(EncodeVarint64(v)) = VarintLength(v)
=============================================================================
