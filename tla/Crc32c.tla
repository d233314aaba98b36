------------------------------- MODULE Crc32c -------------------------------
(* util/crc32c.cc: the checksum of log records and table blocks, computed four  *)
(* bytes at a time with four tables, and the masked form in which it is stored. *)
(*                                                                              *)
(* A 32-bit word and a byte are the sets of the bits that are 1 (bit 0 the      *)
(* lowest), so ^ is the symmetric difference.                                   *)
EXTENDS Integers, Sequences, SequencesExt, FiniteSets, FiniteSetsExt

CONSTANTS
    Messages,      \* sequences of bytes
    MaxSpread,     \* bound: distance of the two bits that are damaged
    NULL

VARIABLES
    addr,          \* where the message lies
    msg,
    done,          \* bytes of it that went into crc
    crc,
    stored,        \* the masked crc in the file, or NULL
    flipped        \* bits of the stored message that are damaged

vars == <<addr, msg, done, crc, stored, flipped>>

Bits == 0 .. 31
Byte == SUBSET (0 .. 7)

Xor(a, b) == (a \ b) \cup (b \ a)
ShiftRight(w, n) == {b - n : b \in {x \in w : x >= n}}
ShiftLeft(w, n) == {b + n : b \in {x \in w : x + n \in Bits}}
LowByte(w) == w \cap 0 .. 7

(* The word of two halves of 16 bits, the high one first.                       *)
Word(h) == {b \in Bits : (h[IF b >= 16 THEN 1 ELSE 2] \div (2 ^ (b % 16))) % 2 = 1}

(* FoldLeft for words. The union of one word is that word: TLC evaluates it once *)
(* and not wherever Op uses it.                                                  *)
FoldWord(Op(_, _), l, seq) == FoldLeft(LAMBDA w, x : UNION {Op(v, x) : v \in {w}}, l, seq)

UpTo(n) == [i \in 1 .. n |-> i - 1]

-----------------------------------------------------------------------------
(* The tables. Each is linear, table[a ^ b] = table[a] ^ table[b], so that the  *)
(* entries at 1, 2, 4 ... 128 give the others.                                   *)

Linear(rows) ==
    [c \in Byte |-> FoldWord(LAMBDA w, i : IF i \in c THEN Xor(w, Word(rows[i + 1])) ELSE w,
                             {}, UpTo(8))]

table0_ == Linear(<<<<\hf26b, \h8303>>, <<\he13b, \h70f7>>, <<\hc79a, \h971f>>, <<\h8ad9, \h58cf>>,
                    <<\h105e, \hc76f>>, <<\h20bd, \h8ede>>, <<\h417b, \h1dbc>>, <<\h82f6, \h3b78>>>>)
table1_ == Linear(<<<<\h13a2, \h9877>>, <<\h2745, \h30ee>>, <<\h4e8a, \h61dc>>, <<\h9d14, \hc3b8>>,
                    <<\h3fc5, \hf181>>, <<\h7f8b, \he302>>, <<\hff17, \hc604>>, <<\hfbc3, \hfaf9>>>>)
table2_ == Linear(<<<<\ha541, \h927e>>, <<\h4f6f, \h520d>>, <<\h9ede, \ha41a>>, <<\h3851, \h3ec5>>,
                    <<\h70a2, \h7d8a>>, <<\he144, \hfb14>>, <<\hc765, \h80d9>>, <<\h8b27, \h7743>>>>)
table3_ == Linear(<<<<\hdd45, \haab8>>, <<\hbf67, \h2381>>, <<\h7b22, \h31f3>>, <<\hf644, \h63e6>>,
                    <<\he964, \hb13d>>, <<\hd725, \h148b>>, <<\haba6, \h5fe7>>, <<\h52a0, \hc93f>>>>)

(* DecodeFixed32: the low byte first.                                            *)
LE_LOAD32(b) == UNION {{x + 8 * (i - 1) : x \in b[i]} : i \in 1 .. 4}

STEP1(l, b) == Xor(table0_[Xor(LowByte(l), b)], ShiftRight(l, 8))

STEP4(l, b) ==
    LET c == Xor(l, LE_LOAD32(b))
    IN  Xor(Xor(table3_[LowByte(c)], table2_[LowByte(ShiftRight(c, 8))]),
            Xor(table1_[LowByte(ShiftRight(c, 16))], table0_[ShiftRight(c, 24)]))

(* The bytes before the first address that 4 divides go one at a time, unless   *)
(* the buffer ends before it. Then four at a time (the loop over 16 bytes is     *)
(* four of these), then the rest.                                                *)
Lead(p, size) ==
    LET x == ((p + 3) \div 4) * 4
    IN  IF x <= p + size THEN x - p ELSE 0

Bytes(l, b) == FoldWord(STEP1, l, b)
Words(l, b) ==
    FoldWord(STEP4, l, [i \in 1 .. Len(b) \div 4 |-> SubSeq(b, 4 * i - 3, 4 * i)])

(* port::AcceleratedCRC32C of this build returns 0, not the checksum of the test *)
(* buffer, so that CanAccelerateCRC32C is false.                                  *)
Extend(c, p, b) ==
    LET lead == Lead(p, Len(b))
        rest == SubSeq(b, lead + 1, Len(b))
        four == (Len(rest) \div 4) * 4
        l    == Words(Bytes(Xor(c, Bits), SubSeq(b, 1, lead)), SubSeq(rest, 1, four))
    IN  Xor(Bytes(l, SubSeq(rest, four + 1, Len(rest))), Bits)

Value(p, b) == Extend({}, p, b)

-----------------------------------------------------------------------------
(* Addition and subtraction modulo 2^32.                                          *)

Carries(a, b) ==
    FoldWord(LAMBDA c, i : IF (i \in a /\ i \in b) \/ (i \in c /\ i \in a \cup b)
                           THEN c \cup {i + 1} ELSE c,
             {}, UpTo(31))
Plus(a, b) == Xor(Xor(a, b), Carries(a, b))
Minus(a, b) == Plus(Plus(a, Xor(b, Bits)), {0})

kMaskDelta == Word(<<\ha282, \head8>>)

Mask(c) == Plus(ShiftRight(c, 15) \cup ShiftLeft(c, 17), kMaskDelta)

Unmask(m) == LET rot == Minus(m, kMaskDelta) IN ShiftRight(rot, 17) \cup ShiftLeft(rot, 15)

-----------------------------------------------------------------------------
Init ==
    /\ addr \in 0 .. 3 /\ msg \in Messages
    /\ done = 0 /\ crc = {} /\ stored = NULL /\ flipped = {}

(* The writer adds the next n bytes.                                              *)
Add(n) ==
    /\ stored = NULL
    /\ crc' = Extend(crc, addr + done, SubSeq(msg, done + 1, done + n))
    /\ done' = done + n
    /\ UNCHANGED <<addr, msg, stored, flipped>>

Store ==
    /\ stored = NULL /\ done = Len(msg)
    /\ stored' = Mask(crc)
    /\ UNCHANGED <<addr, msg, done, crc, flipped>>

Damage(bits) ==
    /\ stored # NULL /\ flipped = {}
    /\ flipped' = bits
    /\ UNCHANGED <<addr, msg, done, crc, stored>>

Next ==
    \/ \E n \in 0 .. Len(msg) - done : Add(n)
    \/ Store
    \/ \E a, b \in 0 .. 8 * Len(msg) - 1 : b - a \in 0 .. MaxSpread /\ Damage({a, b})

Spec == Init /\ [][Next]_vars

-----------------------------------------------------------------------------
(* The reference: the remainder of the message, bit by bit, modulo the Castagnoli *)
(* polynomial with its bits reversed.                                             *)
Polynomial == Word(<<\h82f6, \h3b78>>)

Shift(l, bit) ==
    IF (0 \in l) # bit THEN Xor(ShiftRight(l, 1), Polynomial) ELSE ShiftRight(l, 1)

RemainderByte(l, byte) == FoldWord(LAMBDA r, i : Shift(r, i \in byte), l, UpTo(8))
Remainder(b) == Xor(FoldWord(RemainderByte, Bits, b), Bits)

Damaged == [i \in DOMAIN msg |-> Xor(msg[i], {b \in 0 .. 7 : 8 * (i - 1) + b \in flipped})]
StoredBytes == [i \in 1 .. 4 |-> LowByte(ShiftRight(stored, 8 * (i - 1)))]

(* The one type invariant of the module: crc is a word and the writer stays       *)
(* inside the message.                                                            *)
TypeOK == crc \subseteq Bits /\ done \in 0 .. Len(msg) /\ (stored # NULL => stored \subseteq Bits)

(* Whatever pieces the message was added in and wherever they lie in memory, the  *)
(* crc is that of the bytes so far ("the crc32c of concat(A, data[0,n-1])").      *)
ExtendIsConcat == stored = NULL => crc = Remainder(SubSeq(msg, 1, done))

(* A message that contains its own stored checksum does not have the checksum     *)
(* that every message followed by its plain crc has: this is what masking is for. *)
EmbeddedCrcIsHidden ==
    stored # NULL /\ flipped = {} => Extend(crc, addr + Len(msg), StoredBytes) # Value(0, <<{}, {}, {}, {}>>)

(* A reader, whose copy lies elsewhere, accepts the stored message exactly when   *)
(* no bit of it changed.                                                          *)
DamageIsDetected ==
    stored # NULL => ((Value(addr + 1, Damaged) = Unmask(stored)) <=> flipped = {})
=============================================================================
