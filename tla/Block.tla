------------------------------- MODULE Block --------------------------------
(* The order of keys, the blocks of a table file (table/block_builder.cc and    *)
(* table/block.cc) and the filters, which have a block of their own.            *)
(*                                                                              *)
(* Keys keep their bytes, because entries share prefixes; lengths are below    *)
(* 128, so an entry is three bytes, the rest of its key and its value.  A block *)
(* is [ent, restarts, size, bad]: its entries with their offsets, the offsets  *)
(* of the restart array, where that array begins, and the offsets at which      *)
(* damaged lengths run past the block (DecodeEntry returns NULL).               *)
EXTENDS Integers, Sequences, SequencesExt, FiniteSets

-----------------------------------------------------------------------------
(* leveldb's orders on keys: util/comparator.cc (bytewise, on user keys) and   *)
(* the InternalKeyComparator of db/dbformat.cc, with the short keys they make  *)
(* for an index.  A user key is a sequence of bytes 0 .. MaxByte; an internal  *)
(* key is a user key and one more element, the packed sequence and type.        *)

CONSTANTS
    MaxByte,       \* 0xff
    MaxPacked      \* PackSequenceAndType(kMaxSequenceNumber, kValueTypeForSeek)

Smaller(a, b) == IF a < b THEN a ELSE b

(* The length of the longest common prefix.                                     *)
RECURSIVE CommonFrom(_, _, _)
CommonFrom(a, b, i) ==
    IF i < Smaller(Len(a), Len(b)) /\ a[i + 1] = b[i + 1] THEN CommonFrom(a, b, i + 1) ELSE i
Common(a, b) == CommonFrom(a, b, 0)

(* Slice::compare, as -1, 0 or 1: memcmp, then the shorter one first.           *)
BytewiseCompare(a, b) ==
    LET d == Common(a, b)
    IN  IF d = Len(a) /\ d = Len(b) THEN 0
        ELSE IF d = Len(a) THEN -1
        ELSE IF d = Len(b) THEN 1
        ELSE IF a[d + 1] < b[d + 1] THEN -1 ELSE 1

(* Cut start behind the first difference and raise it, if that stays below     *)
(* the limit.                                                                   *)
BytewiseSeparator(start, limit) ==
    LET d == Common(start, limit)
    IN  IF /\ d < Smaller(Len(start), Len(limit))
           /\ start[d + 1] < MaxByte /\ start[d + 1] + 1 < limit[d + 1]
        THEN Append(SubSeq(start, 1, d), start[d + 1] + 1) ELSE start

(* Raise the first byte that can be raised and cut behind it.                   *)
BytewiseSuccessor(key) ==
    LET i == SelectInSeq(key, LAMBDA byte : byte # MaxByte)
    IN  IF i = 0 THEN key ELSE Append(SubSeq(key, 1, i - 1), key[i] + 1)

-----------------------------------------------------------------------------
ExtractUserKey(ikey) == Front(ikey)
Packed(ikey) == Last(ikey)

(* User keys ascending, and the newest entry of a user key first.               *)
InternalCompare(a, b) ==
    LET r == BytewiseCompare(ExtractUserKey(a), ExtractUserKey(b))
    IN  IF r # 0 THEN r ELSE BytewiseCompare(<<Packed(b)>>, <<Packed(a)>>)

(* The shortened user key is taken only if it is shorter and greater; it gets  *)
(* the number that sorts before all others of that user key.                    *)
Shortened(ikey, short) ==
    LET user == ExtractUserKey(ikey)
    IN  IF Len(short) < Len(user) /\ BytewiseCompare(user, short) < 0
        THEN Append(short, MaxPacked) ELSE ikey

FindShortestSeparator(start, limit) ==
    Shortened(start, BytewiseSeparator(ExtractUserKey(start), ExtractUserKey(limit)))

FindShortSuccessor(ikey) == Shortened(ikey, BytewiseSuccessor(ExtractUserKey(ikey)))

-----------------------------------------------------------------------------
(* Building a block.                                                            *)

CONSTANTS RestartInterval      \* block_restart_interval

FixedSize == 4                 \* sizeof(uint32_t)

(* BlockBuilder::Reset and the constructor.                                     *)
NewBuilder == [ent |-> << >>, restarts |-> <<0>>, size |-> 0, counter |-> 0, last |-> << >>]

BuilderEmpty(b) == b.ent = << >>
CurrentSizeEstimate(b) == b.size + (Len(b.restarts) + 1) * FixedSize

(* BlockBuilder::Add.  A restart point stores its whole key.                    *)
BuilderAdd(b, interval, key, value, vsize) ==
    LET restart == b.counter >= interval
        shared  == IF restart THEN 0 ELSE Common(b.last, key)
        len     == 3 + (Len(key) - shared) + vsize
    IN  [ent      |-> Append(b.ent, [off |-> b.size, shared |-> shared, value |-> value, len |-> len,
                                     delta |-> SubSeq(key, shared + 1, Len(key))]),
         restarts |-> IF restart THEN Append(b.restarts, b.size) ELSE b.restarts,
         size     |-> b.size + len,
         counter  |-> (IF restart THEN 0 ELSE b.counter) + 1,
         last     |-> key]

BuilderFinish(b) == [ent |-> b.ent, restarts |-> b.restarts, size |-> b.size, bad |-> {}]
BlockSize(blk) == blk.size + (Len(blk.restarts) + 1) * FixedSize

-----------------------------------------------------------------------------
(* Block::Iter.  cur is the offset of the entry, next the offset behind it, ri *)
(* the restart point it belongs to.  An iterator with live FALSE stands for an *)
(* EmptyIterator, which nothing moves and which only carries a status.          *)

NewIter(blk) ==
    [live |-> TRUE, blk |-> blk, cur |-> blk.size, ri |-> Len(blk.restarts),
     key |-> << >>, value |-> 0, next |-> 0, st |-> "ok"]

NoBlock == [ent |-> << >>, restarts |-> << >>, size |-> 0, bad |-> {}]
NewErrorIterator(st) == [NewIter(NoBlock) EXCEPT !.live = FALSE, !.st = st]

Valid(it) == it.cur < it.blk.size
GetRestartPoint(it, i) == it.blk.restarts[i + 1]
EntryAt(it, off) == it.blk.ent[SelectInSeq(it.blk.ent, LAMBDA e : e.off = off)]

AtEnd(it) == [it EXCEPT !.cur = it.blk.size, !.ri = Len(it.blk.restarts)]
CorruptionError(it) == [AtEnd(it) EXCEPT !.st = "corrupt", !.key = << >>, !.value = 0]

SeekToRestartPoint(it, i) ==
    [it EXCEPT !.key = << >>, !.ri = i, !.next = GetRestartPoint(it, i)]

RECURSIVE RestartOf(_, _, _)
RestartOf(it, i, off) ==
    IF i + 1 < Len(it.blk.restarts) /\ GetRestartPoint(it, i + 1) < off
    THEN RestartOf(it, i + 1, off) ELSE i

(* The code's result, whether there is a next key, is whether the iterator is  *)
(* valid afterwards.                                                            *)
ParseNextKey(it) ==
    IF it.next >= it.blk.size THEN AtEnd(it)
    ELSE IF it.next \in it.blk.bad THEN CorruptionError(it)
    ELSE LET e == EntryAt(it, it.next)
         IN  IF Len(it.key) < e.shared THEN CorruptionError(it)
             ELSE [it EXCEPT !.cur = it.next, !.next = e.off + e.len, !.value = e.value,
                             !.key = SubSeq(@, 1, e.shared) \o e.delta,
                             !.ri = RestartOf(it, @, it.next)]

BlockNext(it) == ParseNextKey(it)

RECURSIVE ParseUntil(_, _)
ParseUntil(it, limit) ==
    LET p == ParseNextKey(it)
    IN  IF Valid(p) /\ p.next < limit THEN ParseUntil(p, limit) ELSE p

(* Back to a restart point before the entry, then forward up to it.             *)
RECURSIVE RestartBefore(_, _)
RestartBefore(it, i) ==
    IF GetRestartPoint(it, i) < it.cur THEN i
    ELSE IF i = 0 THEN -1 ELSE RestartBefore(it, i - 1)

BlockPrev(it) ==
    IF RestartBefore(it, it.ri) = -1 THEN AtEnd(it)
    ELSE ParseUntil(SeekToRestartPoint(it, RestartBefore(it, it.ri)), it.cur)

(* The binary search for the last restart point whose key is below the target; *)
(* -1 when a restart point cannot be read.                                      *)
RECURSIVE BinarySearch(_, _, _, _)
BinarySearch(it, target, left, right) ==
    IF left >= right THEN left
    ELSE LET mid == (left + right + 1) \div 2
             off == GetRestartPoint(it, mid)
         IN  IF off \in it.blk.bad \/ EntryAt(it, off).shared # 0 THEN -1
             ELSE IF InternalCompare(EntryAt(it, off).delta, target) < 0
             THEN BinarySearch(it, target, mid, right)
             ELSE BinarySearch(it, target, left, mid - 1)

RECURSIVE ParseToKey(_, _)
ParseToKey(it, target) ==
    LET p == ParseNextKey(it)
    IN  IF Valid(p) /\ InternalCompare(p.key, target) < 0 THEN ParseToKey(p, target) ELSE p

BlockSeek(it, target) ==
    IF ~it.live THEN it
    ELSE LET i == BinarySearch(it, target, 0, Len(it.blk.restarts) - 1)
         IN  IF i = -1 THEN CorruptionError(it)
             ELSE ParseToKey(SeekToRestartPoint(it, i), target)

BlockSeekToFirst(it) == IF it.live THEN ParseNextKey(SeekToRestartPoint(it, 0)) ELSE it

BlockSeekToLast(it) ==
    IF it.live THEN ParseUntil(SeekToRestartPoint(it, Len(it.blk.restarts) - 1), it.blk.size) ELSE it

-----------------------------------------------------------------------------
(* The filters of a table: util/bloom.cc, table/filter_block.cc and the         *)
(* InternalFilterPolicy of db/dbformat.cc.                                      *)

CONSTANTS
    BloomHash(_),  \* the hash of a user key, a word
    WordBits,      \* bits of that word (32), rotated by half of them (17)
    Probes,        \* k_
    BitsPerKey,
    MinBits,       \* the least size of a filter (64)
    FilterBase     \* bytes of data per filter (2 KB)

Half == 2 ^ (WordBits \div 2)
Rotate(h) == (h \div Half) + (h % Half) * Half

(* The bits that the first k probes of a key touch in a filter of n bits.       *)
ProbesOf(key, n, k) ==
    LET h == BloomHash(key) IN {((h + j * Rotate(h)) % 2 ^ WordBits) % n : j \in 0 .. k - 1}

(* CreateFilter, of the user part of internal keys.  The filter remembers how  *)
(* many probes it was made with.                                                *)
CreateFilter(ikeys) ==
    LET wanted == Len(ikeys) * BitsPerKey
        n      == IF wanted < MinBits THEN MinBits ELSE wanted
    IN  [n |-> n, k |-> Probes,
         set |-> UNION {ProbesOf(ExtractUserKey(ikeys[i]), n, Probes) : i \in DOMAIN ikeys}]

(* A filter of no keys has no bytes, and matches nothing.                       *)
EmptyFilter == [n |-> 0, k |-> 0, set |-> {}]

BloomKeyMayMatch(ikey, filter) ==
    filter.n > 0 /\ ProbesOf(ExtractUserKey(ikey), filter.n, filter.k) \subseteq filter.set

-----------------------------------------------------------------------------
(* FilterBlockBuilder: [keys, filters], the keys since the last filter and the *)
(* filters made; FilterBlockReader reads the filters.                           *)

NewFilterBuilder == [keys |-> << >>, filters |-> << >>]
AddKey(fb, ikey) == [fb EXCEPT !.keys = Append(@, ikey)]

GenerateFilter(fb) ==
    [keys    |-> << >>,
     filters |-> Append(fb.filters, IF fb.keys = << >> THEN EmptyFilter ELSE CreateFilter(fb.keys))]

(* A deviation: a filter is made also for the range the block begins in.        *)
StartBlockEarly(fb, off) ==
    IF off \div FilterBase >= Len(fb.filters) THEN GenerateFilter(fb) ELSE fb

RECURSIVE StartBlock(_, _)
StartBlock(fb, off) ==
    IF off \div FilterBase > Len(fb.filters) THEN StartBlock(GenerateFilter(fb), off) ELSE fb

FilterFinish(fb) == (IF fb.keys = << >> THEN fb ELSE GenerateFilter(fb)).filters

(* A block without a filter may hold any key.                                   *)
KeyMayMatch(filters, off, ikey) ==
    LET index == off \div FilterBase
    IN  index < Len(filters) => BloomKeyMayMatch(ikey, filters[index + 1])
=============================================================================
