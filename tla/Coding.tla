------------------------------- MODULE Coding -------------------------------
(* The byte encodings every file of leveldb is made of (util/coding.cc): fixed *)
(* little-endian numbers, varints of seven bits a byte, and strings behind a   *)
(* varint length. A byte is 0 .. 255, an input a sequence of bytes; a Get       *)
(* returns what it parsed and the input it leaves.                               *)
EXTENDS Integers, Sequences, SequencesExt, FiniteSetsExt

CONSTANTS
    Bits32,     \* width of uint32_t: 32 in the code
    Bits64      \* width of uint64_t: 64 in the code

(* Both widths end inside a seven-bit group, as 32 and 64 do.                    *)
-----------------------------------------------------------------------------
(* Writers                                                                       *)

(* sizeof a word of so many bits.                                                *)
FixedSize(bits) == (bits + 7) \div 8

(* All bytes of the word, the lowest first.                                      *)
EncodeFixed(bits, value) ==
    [i \in 1 .. FixedSize(bits) |-> (value \div 256 ^ (i - 1)) % 256]

PutFixed32(dst, value) == dst \o EncodeFixed(Bits32, value)
PutFixed64(dst, value) == dst \o EncodeFixed(Bits64, value)

(* The n lowest groups of v, all but the last with the continuation bit.         *)
Groups(v, n) ==
    [i \in 1 .. n |-> ((v \div 128 ^ (i - 1)) % 128) + (IF i < n THEN 128 ELSE 0)]

(* The chain of thresholds: one byte more for each seven bits, the last case     *)
(* taking what is left of the word.                                               *)
EncodeVarint32(v) ==
    LET most == (Bits32 \div 7) + 1
        fits == {n \in 1 .. most - 1 : v < 128 ^ n}
    IN  Groups(v, IF fits = {} THEN most ELSE Min(fits))

VarintLength(v) == Min({n \in 1 .. (Bits64 \div 7) + 1 : v < 128 ^ n})

(* The loop writes a byte and shifts until less than a group is left.            *)
EncodeVarint64(v) ==
    Groups(v, Min({n \in 1 .. (Bits64 \div 7) + 1 : v \div 128 ^ (n - 1) < 128}))

PutVarint32(dst, v) == dst \o EncodeVarint32(v)
PutVarint64(dst, v) == dst \o EncodeVarint64(v)

PutLengthPrefixedSlice(dst, value) == PutVarint32(dst, Len(value)) \o value

-----------------------------------------------------------------------------
(* Readers                                                                       *)

DecodeFixed(bytes) ==
    MapThenSumSet(LAMBDA i : bytes[i] * 256 ^ (i - 1), DOMAIN bytes)

Failed(input) == [ok |-> FALSE, input |-> input]

Drop(input, n) == SubSeq(input, n + 1, Len(input))

(* The fast path of one byte and the loop over shifts: no byte past the limit    *)
(* nor past the last shift is looked at, and bits shifted out of the word are    *)
(* lost. A failure leaves the input where it was.                                *)
VarintBehind(bits, input, n) ==
    [ok    |-> TRUE,
     value |-> MapThenSumSet(LAMBDA i : (input[i] % 128) * 128 ^ (i - 1), 1 .. n) % 2 ^ bits,
     input |-> Drop(input, n)]

VarintEnding(bits, input, ends) ==
    IF ends = {} THEN Failed(input) ELSE VarintBehind(bits, input, Min(ends))

GetVarint(bits, input) ==
    VarintEnding(bits, input, {i \in 1 .. Min({Len(input), (bits \div 7) + 1}) : input[i] < 128})

GetVarint32(input) == GetVarint(Bits32, input)
GetVarint64(input) == GetVarint(Bits64, input)

(* The length has been consumed when the string behind it turns out too short.   *)
SliceBehind(len, input) ==
    IF ~len.ok THEN Failed(input)
    ELSE IF Len(len.input) < len.value THEN Failed(len.input)
    ELSE [ok    |-> TRUE,
          value |-> SubSeq(len.input, 1, len.value),
          input |-> Drop(len.input, len.value)]

GetLengthPrefixedSlice(input) == SliceBehind(GetVarint32(input), input)
=============================================================================
