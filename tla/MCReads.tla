------------------------------ MODULE MCReads -------------------------------
(* The formats and codes of leveldb and of the client, and the way of a read in  *)
(* leveldb, one unit in each behaviour: crc32c, the numbers of util/coding.cc,   *)
(* version edits, write batches, internal keys, file names, base64 and push ids; *)
(* the arena, the skip list and the memtable on it, the order of keys, table     *)
(* files, the caches, the iterators and the sizes of ranges.  A unit other than  *)
(* the arena keeps its variables in the slots.                                   *)
EXTENDS Arena, SequencesExt, FiniteSetsExt, TLC

CONSTANTS
    Units,                                            \* the units that are run
    NULL, r1, r2,
    b1, b2,                                           \* WriteBatch objects
    Base, TimeDigits, RandDigits, Randoms, MaxCalls   \* of NextPushId

VARIABLES unit, s1, s2, s3, s4, s5, s6, s7, s8, s9, s10, s11

slots == <<s1, s2, s3, s4, s5, s6, s7, s8, s9, s10, s11>>

MCBytes(n)  == {b \in 0 .. 7 : (n \div (2 ^ b)) % 2 = 1}
MCMessages ==
    {<<>>, <<MCBytes(255)>>, <<MCBytes(0), MCBytes(0)>>,
     [i \in 1 .. 6 |-> MCBytes(97 + i)],
     [i \in 1 .. 11 |-> MCBytes((i * 37 + 11) % 256)]}
Crc == INSTANCE Crc32c WITH
    Messages <- MCMessages, MaxSpread <- 3,
    addr <- s1, msg <- s2, done <- s3, crc <- s4, stored <- s5, flipped <- s6

(* Numbers at the ends of every group of seven bits, and of the word.            *)
Coding == INSTANCE CodingStream WITH
    Bits32 <- 11, Bits64 <- 15,
    Numbers32 <- {0, 127, 128, 2 ^ 11 - 1}, Numbers64 <- {0, 128, 128 * 128 - 1, 2 ^ 15 - 1},
    Strings <- {<<>>, <<200, 5>>, [i \in 1 .. 130 |-> 1]}, MaxItems <- 2,
    items <- s1, bytes <- s2, cut <- s3, read <- s4, input <- s5, phase <- s6

Edit == INSTANCE VersionEdit WITH
    Bits32 <- 11, Bits64 <- 15, kNumLevels <- 2, Names <- {<<98, 99>>}, FileNumbers <- {0, 200},
    Levels <- {0, 1}, EncodedKeys <- {<<7, 1>>}, Garbage <- {0, 8, 130}, MaxFields <- 2,
    edit <- s1, fields <- s2, record <- s3, state <- s4, result <- s5

Batch == INSTANCE WriteBatch WITH
    Bits32 <- 11, Bits64 <- 15, Batches <- {b1, b2}, Keys <- {<<1>>}, Values <- {<<0, 1>>},
    MaxOps <- 3, MaxWrites <- 2, MaxCuts <- 1,
    rep <- s1, ops <- s2, last_sequence <- s3, mem <- s4, log <- s5, cuts <- s6,
    committed <- s7, calls <- s8, recovered <- s9

(* Keys longer than one varint byte can say, and at the edge of the stack buffer. *)
Format == INSTANCE KeyFormat WITH
    Bits32 <- 11, Bits64 <- 16, Sequences <- {0, 1, 2, 255}, SpaceSize <- 8, Garbage <- {0, 1, 2, 255},
    UserKeys <- {<<>>, <<200, 3>>} \cup {[i \in 1 .. n |-> 7] : n \in {4, 5, 126, 130}},
    entry <- s1, rep <- s2, lookup <- s3, phase <- s4

(* 105 has the digits of 5 behind the padding.  Strangers have a number past the *)
(* greatest, one that wraps to 5, or none.                                        *)
FileName(head, digits, tail) == [head |-> head, digits |-> digits, tail |-> tail]
File == INSTANCE FileNames WITH
    kMaxUint64 <- 255, Pad <- 2, MaxDigits <- 3, FileNumbers <- {5, 105, 255},
    Strangers <- {FileName("", <<2, 5, 6>>, ".ldb"), FileName("MANIFEST-", <<2, 6, 1>>, ""),
                  FileName("", <<>>, ".log"), FileName("", <<0, 5>>, ".bak"),
                  FileName("notes", <<5>>, ".log"), FileName("MANIFEST-", <<5>>, ".log")},
    made <- s1, live <- s2, dir <- s3, removed <- s4

(* The lengths of the handshake's key and of its digest among others.             *)
B64 == INSTANCE Base64 WITH
    Data <- UNION {[1 .. n -> {0, 77, 255}] : n \in 0 .. 4} \cup {[i \in 1 .. n |-> 200] : n \in {16, 20}},
    TargetSizes <- {0, 1, 2, 3, 4, 5, 8, 9, 21}, HandshakeLengths <- {16, 20},
    Letters <- {0, 1, 16, 64, 65, 66},
    src <- s1, text <- s2, size <- s3, len <- s4, fate <- s5, out <- s6, phase <- s7

(* Random digits that are not within MaxCalls of the largest value; and all, as  *)
(* arc4random may give them.                                                      *)
MCRandoms    == {<<0, 1, 0, 1>>, <<0, 1, 1, 1>>, <<1, 0, 0, 0>>}
MCAnyRandoms == [1 .. RandDigits -> 0 .. Base - 1]
Push == INSTANCE NextPushId WITH
    now <- s1, lastPushTime <- s2, lastRandChars <- s3, outside <- s4, ids <- s5

-----------------------------------------------------------------------------
Skip == INSTANCE SkipList WITH
    Keys <- 1 .. 4, Readers <- {r1}, kMaxHeight <- 2, MaxOps <- 1,
    next <- s1, heights <- s2, w <- s3, r <- s4, done <- s5

TallSkip == INSTANCE SkipList WITH
    Keys <- 1 .. 3, Readers <- {r1}, kMaxHeight <- 3, MaxOps <- 2,
    next <- s1, heights <- s2, w <- s3, r <- s4, done <- s5

(* The keys are the ranks of two user keys with three numbers each.               *)
Memory == INSTANCE MemTable WITH
    Keys <- {u * 3 + 2 - n : u \in {1, 2}, n \in 0 .. 2}, Readers <- {r1}, kMaxHeight <- 2,
    MaxOps <- 2, UserKeys <- {1, 2}, MaxSeq <- 2,
    next <- s1, heights <- s2, w <- s3, r <- s4, done <- s5,
    kind <- s6, lastSeq <- s7, g <- s8, refs <- s9, owned <- s10, freed <- s11

(* Internal keys with user keys of up to two bytes.                                *)
OrderHash(u) == 0
Order == INSTANCE Block WITH
    MaxByte <- 2, MaxPacked <- 2, RestartInterval <- 2, BloomHash <- OrderHash, WordBits <- 4, Probes <- 2,
    BitsPerKey <- 3, MinBits <- 4, FilterBase <- 16
OrderUserKeys == UNION {[1 .. n -> 0 .. 2] : n \in 0 .. 2}
OrderKeys     == {Append(u, n) : u \in OrderUserKeys, n \in 0 .. 2}

(* Keys of one shard collide in a table of one bucket and part when it is resized. *)
HashOf(key) == key
Cache == INSTANCE LRUCache WITH
    Shards <- {0}, Keys <- {0, 1, 2}, Hash <- HashOf, Charges <- {1, 2}, Capacity <- 3, MinLength <- 1,
    MaxEntries <- 3, MaxHandles <- 1, shard <- s1, handles <- s2, alive <- s3

TwoShards == INSTANCE LRUCache WITH
    Shards <- {0, 1}, Keys <- {0, 1, 2}, Hash <- HashOf, Charges <- {1}, Capacity <- 2, MinLength <- 1,
    MaxEntries <- 2, MaxHandles <- 2, shard <- s1, handles <- s2, alive <- s3

NoCapacity == INSTANCE LRUCache WITH
    Shards <- {0}, Keys <- {0, 1}, Hash <- HashOf, Charges <- {1}, Capacity <- 0, MinLength <- 1,
    MaxEntries <- 4, MaxHandles <- 2, shard <- s1, handles <- s2, alive <- s3

Tables == INSTANCE TableCache WITH
    Shards <- {0}, Keys <- 0 .. 3, Hash <- HashOf, Charges <- {1}, Capacity <- 1, MinLength <- 1,
    MaxEntries <- 4, MaxHandles <- 2, Readers <- {r1, r2}, shard <- s1, handles <- s2, alive <- s3,
    pc <- s4, file <- s5, handle <- s6, live <- s7, opened <- s8

(* User keys that share prefixes and that an index can shorten; hashes that        *)
(* collide in a small filter.                                                       *)
TableUsers   == {<<0, 0>>, <<0, 2>>, <<2, 0>>, <<3>>, <<3, 3>>}
TableKeys    == {Append(u, 1) : u \in TableUsers}
VersionKeys  == {Append(u, n) : u \in {<<0, 0>>, <<2, 0>>, <<3>>}, n \in {1, 2}}
SeekKeys     == {Append(u, n) : u \in TableUsers \union {<<1>>, <<0, 1>>}, n \in {1, 3}}
BloomOf(u)   == (u[1] * 7 + 3 * Len(u) + u[Len(u)]) % 16

Scan == INSTANCE Table WITH
    MaxByte <- 3, MaxPacked <- 3, RestartInterval <- 2, BloomHash <- BloomOf, WordBits <- 4, Probes <- 2,
    BitsPerKey <- 3, MinBits <- 4, FilterBase <- 16, BlockBytes <- 20,
    Keys <- TableKeys, Targets <- TableKeys, MaxEntries <- 4, UseFilter <- FALSE, Reads <- {"iterate"},
    MaxMoves <- 2, MaxFaults <- 1,
    phase <- s1, added <- s2, b <- s3, tbl <- s4, it <- s5, ref <- s6, got <- s7, moves <- s8, faults <- s9

NewerFirst == INSTANCE Table WITH
    MaxByte <- 3, MaxPacked <- 3, RestartInterval <- 2, BloomHash <- BloomOf, WordBits <- 4, Probes <- 2,
    BitsPerKey <- 3, MinBits <- 4, FilterBase <- 16, BlockBytes <- 20,
    Keys <- VersionKeys, Targets <- SeekKeys, MaxEntries <- 3, UseFilter <- FALSE, Reads <- {"iterate"},
    MaxMoves <- 2, MaxFaults <- 0,
    phase <- s1, added <- s2, b <- s3, tbl <- s4, it <- s5, ref <- s6, got <- s7, moves <- s8, faults <- s9

Get == INSTANCE Table WITH
    MaxByte <- 3, MaxPacked <- 3, RestartInterval <- 2, BloomHash <- BloomOf, WordBits <- 4, Probes <- 2,
    BitsPerKey <- 3, MinBits <- 4, FilterBase <- 16, BlockBytes <- 20,
    Keys <- VersionKeys, Targets <- SeekKeys, MaxEntries <- 3, UseFilter <- TRUE, Reads <- {"get"},
    MaxMoves <- 1, MaxFaults <- 1,
    phase <- s1, added <- s2, b <- s3, tbl <- s4, it <- s5, ref <- s6, got <- s7, moves <- s8, faults <- s9

Iter == INSTANCE DBIter WITH
    UserKeys <- {1, 2}, MaxTables <- 1, MaxSeq <- 4, MaxMoves <- 3, MaxFaults <- 0, None <- NULL,
    mem <- s1, tables <- s2, seq <- s3, lost <- s4, m <- s5, d <- s6, pc <- s7, skip <- s8,
    ref <- s9, moves <- s10

FaultyIter == INSTANCE DBIter WITH
    UserKeys <- {1, 2}, MaxTables <- 2, MaxSeq <- 3, MaxMoves <- 2, MaxFaults <- 1, None <- NULL,
    mem <- s1, tables <- s2, seq <- s3, lost <- s4, m <- s5, d <- s6, pc <- s7, skip <- s8,
    ref <- s9, moves <- s10

(* Table files of three levels, of two of them, and of none.                        *)
TF(n, keys) == [number |-> n, keys |-> keys]
Levels == INSTANCE LevelIterator WITH
    Versions <- { << <<TF(9, <<2, 7>>), TF(8, <<1, 4>>)>>, <<TF(1, <<1, 3>>), TF(2, <<4>>), TF(3, <<8, 9>>)>>,
                     <<TF(4, <<2>>), TF(5, <<6, 7>>)>> >>,
                  << <<TF(9, <<5>>)>>, <<>>, <<TF(4, <<3>>)>> >>,
                  << <<>>, <<>>, <<>> >> },
    Targets <- {0, 3, 5, 10}, MaxMoves <- 4, MaxFaults <- 1,
    files <- s1, inputs <- s2, list <- s3, it <- s4, ref <- s5, moves <- s6, faults <- s7

(* Three versions, and ranges that touch, that reach past the keys, that are empty. *)
KeyRange(a, b) == [start |-> a, limit |-> b]
Sized == INSTANCE ApproximateSizes WITH
    Versions <- << << <<TF(3, <<4, 6>>), TF(2, <<1, 5>>)>>, <<TF(1, <<2, 3, 7>>)>> >>,
                   << <<TF(4, <<5>>)>>, <<TF(5, <<1, 2, 3>>), TF(6, <<4, 5>>), TF(7, <<6, 7>>)>> >>,
                   << <<>>, <<TF(8, <<1, 2>>), TF(6, <<4, 5>>), TF(9, <<6>>)>> >> >>,
    Callers <- {"c1", "c2"}, MaxFaults <- 1,
    Ranges <- {<<KeyRange(1, 4), KeyRange(4, 7)>>, <<KeyRange(3, 8)>>, <<KeyRange(6, 2), KeyRange(0, 2)>>},
    current <- s1, disk <- s2, call <- s3, faults <- s4

-----------------------------------------------------------------------------
(* The slots from the k-th on hold nothing.                                       *)
FreeFrom(k) ==
    /\ IF k <= 1 THEN s1 = 0 /\ s2 = 0 ELSE TRUE
    /\ IF k <= 3 THEN s3 = 0 ELSE TRUE
    /\ IF k <= 4 THEN s4 = 0 ELSE TRUE
    /\ IF k <= 5 THEN s5 = 0 ELSE TRUE
    /\ IF k <= 6 THEN s6 = 0 ELSE TRUE
    /\ IF k <= 7 THEN s7 = 0 ELSE TRUE
    /\ IF k <= 8 THEN s8 = 0 ELSE TRUE
    /\ IF k <= 9 THEN s9 = 0 ELSE TRUE
    /\ IF k <= 10 THEN s10 = 0 ELSE TRUE
    /\ IF k <= 11 THEN s11 = 0 ELSE TRUE

ReadsInit ==
    /\ unit \in Units
    /\ Init
    /\ \/ unit = "crc"         /\ Crc!Init            /\ FreeFrom(7)
       \/ unit = "coding"      /\ Coding!Init         /\ FreeFrom(7)
       \/ unit = "edit"        /\ Edit!Init           /\ FreeFrom(6)
       \/ unit = "batch"       /\ Batch!Init          /\ FreeFrom(10)
       \/ unit = "key"         /\ Format!Init         /\ FreeFrom(5)
       \/ unit = "file"        /\ File!Init           /\ FreeFrom(5)
       \/ unit = "base64"      /\ B64!Init            /\ FreeFrom(8)
       \/ unit = "push"        /\ Push!Init           /\ FreeFrom(6)
       \/ unit = "arena"       /\ FreeFrom(1)
       \/ unit = "order"       /\ s1 \in OrderKeys /\ s2 \in OrderKeys /\ FreeFrom(3)
       \/ unit = "skip"        /\ Skip!SkipInit        /\ FreeFrom(6)
       \/ unit = "tall skip"   /\ TallSkip!SkipInit    /\ FreeFrom(6)
       \/ unit = "memory"      /\ Memory!Init
       \/ unit = "cache"       /\ Cache!CacheInit      /\ FreeFrom(4)
       \/ unit = "two shards"  /\ TwoShards!CacheInit  /\ FreeFrom(4)
       \/ unit = "no capacity" /\ NoCapacity!CacheInit /\ FreeFrom(4)
       \/ unit = "tables"      /\ Tables!Init          /\ FreeFrom(9)
       \/ unit = "scan"        /\ Scan!Init            /\ FreeFrom(10)
       \/ unit = "versions"    /\ NewerFirst!Init      /\ FreeFrom(10)
       \/ unit = "get"         /\ Get!Init             /\ FreeFrom(10)
       \/ unit = "iter"        /\ Iter!Init            /\ FreeFrom(11)
       \/ unit = "faulty iter" /\ FaultyIter!Init      /\ FreeFrom(11)
       \/ unit = "levels"      /\ Levels!Init          /\ FreeFrom(8)
       \/ unit = "sizes"       /\ Sized!Init           /\ FreeFrom(5)

(* The WriteBatches are alike: b1 is the one that is filled first.                *)
FirstIsB1 == s8 = 0 => s2'[b2] = s2[b2]

SlotsNext ==
    \/ /\ \/ unit = "crc"    /\ Crc!Next
          \/ unit = "coding" /\ Coding!Next
       /\ UNCHANGED <<s7, s8, s9, s10, s11>>
    \/ /\ \/ unit = "edit"   /\ Edit!Next
          \/ unit = "push"   /\ Push!Next
       /\ UNCHANGED <<s6, s7, s8, s9, s10, s11>>
    \/ unit = "batch"  /\ Batch!Next /\ FirstIsB1 /\ UNCHANGED <<s10, s11>>
    \/ /\ \/ unit = "key"    /\ Format!Next
          \/ unit = "file"   /\ File!Next
       /\ UNCHANGED <<s5, s6, s7, s8, s9, s10, s11>>
    \/ unit = "base64" /\ B64!Next /\ UNCHANGED <<s8, s9, s10, s11>>
    \/ /\ \/ unit = "skip"        /\ Skip!SkipNext
          \/ unit = "tall skip"   /\ TallSkip!SkipNext
       /\ UNCHANGED <<s6, s7, s8, s9, s10, s11>>
    \/ unit = "memory" /\ Memory!Next
    \/ /\ \/ unit = "cache"       /\ Cache!CacheNext
          \/ unit = "two shards"  /\ TwoShards!CacheNext
          \/ unit = "no capacity" /\ NoCapacity!CacheNext
       /\ UNCHANGED <<s4, s5, s6, s7, s8, s9, s10, s11>>
    \/ unit = "tables" /\ Tables!Next /\ UNCHANGED <<s9, s10, s11>>
    \/ /\ \/ unit = "scan"        /\ Scan!Next
          \/ unit = "versions"    /\ NewerFirst!Next
          \/ unit = "get"         /\ Get!Next
       /\ UNCHANGED <<s10, s11>>
    \/ /\ \/ unit = "iter"        /\ Iter!Next
          \/ unit = "faulty iter" /\ FaultyIter!Next
       /\ UNCHANGED s11
    \/ unit = "levels" /\ Levels!Next /\ UNCHANGED <<s8, s9, s10, s11>>
    \/ unit = "sizes"  /\ Sized!Next  /\ UNCHANGED <<s5, s6, s7, s8, s9, s10, s11>>

ReadsNext ==
    /\ UNCHANGED unit
    /\ \/ unit = "arena" /\ Next /\ UNCHANGED slots
       \/ SlotsNext /\ UNCHANGED vars

ReadsSpec == ReadsInit /\ [][ReadsNext]_<<unit, slots, vars>>

-----------------------------------------------------------------------------
(* The order of keys, for each pair of them: the parts of TablesAnswerRight.       *)

(* The assertions of FindShortestSeparator, and what TableBuilder needs of an  *)
(* index key: not before the last key of a block, before the first of the next, *)
(* and on the far side of every entry of the block's last user key (a look-up   *)
(* of any version of that key goes to this block).                              *)
SeparatorSeparates ==
    unit = "order" /\ Order!InternalCompare(s1, s2) < 0 =>
        LET sep == Order!FindShortestSeparator(s1, s2)
        IN  /\ Order!InternalCompare(s1, sep) <= 0
            /\ Order!InternalCompare(sep, s2) < 0
            /\ sep # s1 =>
                   \A n \in 0 .. 2 : Order!InternalCompare(Append(Order!ExtractUserKey(s1), n), sep) < 0

(* The key of the last block is not before any entry, nor longer.              *)
SuccessorFollows ==
    unit = "order" =>
        /\ Order!InternalCompare(s1, Order!FindShortSuccessor(s1)) <= 0
        /\ Len(Order!FindShortSuccessor(s1)) <= Len(s1)

(* A look-up with the greatest number of a user key, as a LookupKey makes it,  *)
(* comes before every entry of it and behind all smaller user keys: whichever  *)
(* of the two keys is newer, a reader meets it first.                           *)
SeekFindsNewest ==
    unit = "order" =>
        LET seek == Append(Order!ExtractUserKey(s2), 2)
            same == Order!ExtractUserKey(s1) = Order!ExtractUserKey(s2)
        IN  /\ Order!InternalCompare(seek, s2) <= 0
            /\ ~same /\ Order!InternalCompare(s1, s2) < 0 => Order!InternalCompare(s1, seek) < 0
            /\ same /\ Order!Packed(s1) > Order!Packed(s2) => Order!InternalCompare(s1, s2) < 0

-----------------------------------------------------------------------------
(* Readers search without a lock while the writer inserts: every level is       *)
(* sorted and holds a part of the level below also in the middle of an Insert,  *)
(* what was inserted is found, no reader follows a link that was not stored     *)
(* yet, every number that was given out can be found in the memtable, and Get   *)
(* returns the newest entry that its snapshot may see, whatever is being added. *)
SearchesSeeInserts ==
    /\ unit = "skip" => Skip!SkipTypeOK /\ Skip!LevelsAreNested /\ Skip!InsertedIsFound
    /\ unit = "tall skip" => TallSkip!ReadersMeetStoredLinks
    /\ unit = "memory" => Memory!GivenOutIsInserted /\ Memory!GetSeesItsSnapshot

(* What is shared is freed when, and only when, nobody uses it. The memtable    *)
(* lives as long as a reader works in it; the deleter of a cache entry runs     *)
(* once, when the cache has let go of it and the last handle was released; an   *)
(* entry is in exactly one list of the cache by whether a client uses it, and   *)
(* in the chain its hash is looked up in after every Resize. A reader's table   *)
(* stays open although it was evicted or replaced, at most one per reader is    *)
(* open above the capacity, a deleted file is not in the cache nor comes back,  *)
(* and in the end every file is closed.                                         *)
FreedWhenUnused ==
    /\ unit = "memory" => Memory!FreedWhenUnused
    /\ unit = "cache" =>
           Cache!CacheTypeOK /\ Cache!DeletedWhenUnused /\ Cache!ListsSayWhoIsUsed /\ Cache!TableFindsTheCache
    /\ unit = "two shards" => TwoShards!DeletedWhenUnused
    /\ unit = "no capacity" => NoCapacity!DeletedWhenUnused
    /\ unit = "tables" => /\ Tables!ReadersTableIsOpen /\ Tables!OpenTablesBounded
                          /\ Tables!CachedFilesExist /\ Tables!AllClosedAtTheEnd

(* A table answers as the entries added to it would. Index keys lie between the *)
(* blocks and a look-up meets the newest version of a key first (for each pair  *)
(* of keys); a cursor is where one over the entries would be, through every     *)
(* Seek, Next and Prev, unless its status says that something could not be      *)
(* read; a look-up that reports no error found the newest entry it may see,     *)
(* whatever the filter says; offsets grow with the keys and blocks lie where    *)
(* their handles say, although a write may have failed.                         *)
TablesAnswerRight ==
    /\ unit = "order" => SeparatorSeparates /\ SuccessorFollows /\ SeekFindsNewest
    /\ unit = "scan" => /\ Scan!TypeOK /\ Scan!CursorIsRightOrSaysSo
                        /\ Scan!OffsetsGrowWithKeys /\ Scan!BlocksAreContiguous
    /\ unit = "versions" => NewerFirst!CursorIsRightOrSaysSo /\ NewerFirst!OffsetsGrowWithKeys
    /\ unit = "get" => Get!GetFindsNewest

(* A reader keeps the view it began with. An iterator stands on the key of its  *)
(* snapshot that its moves lead to, with the snapshot's value, whatever was     *)
(* written since and however often it turned, and no entry lies hidden between  *)
(* its children; over the files of a version, each read by one child, it stands *)
(* on the right key or reports an error, which stays; and all sizes of one call *)
(* of GetApproximateSizes are those of the version that was current when it     *)
(* began.                                                                       *)
ReadersKeepTheirView ==
    /\ unit = "iter" => Iter!TypeOK /\ Iter!ShowsTheSnapshot /\ Iter!NothingBetween
    /\ unit = "faulty iter" => FaultyIter!ShowsTheSnapshot
    /\ unit = "levels" => Levels!TypeOK /\ Levels!ChildrenSplitTheFiles /\ Levels!RightKeyOrError
    /\ unit = "sizes" => Sized!TypeOK /\ Sized!SizesOfOneVersion

(* No single operation is seen half done. A reader of the skip list gets the    *)
(* answer that is right for its keys when it reads its last link; an Insert     *)
(* into the cache leaves its usage above the capacity only when clients use all *)
(* of it, and throws out no entry while one that was released earlier stays.    *)
OperationsAreAtomic ==
    [][/\ unit = "skip" => Skip!AtomicAnswer
       /\ unit = "tall skip" => TallSkip!AtomicAnswer
       /\ unit = "cache" => Cache!WithinCapacity /\ Cache!InReleaseOrder]_slots

-----------------------------------------------------------------------------
(* "The resulting list will be chronologically-sorted": while the clock does not   *)
(* go back, every id is greater than the ones before it, within a millisecond and  *)
(* across the border of two; so no two of them are the same.                       *)
ChronologicallySorted == unit = "push" => Push!ChronologicallySorted

(* What is written stays in its room, and is what is read. Numbers and slices   *)
(* come back value for value and in order, whatever follows them, and           *)
(* VarintLength, which sizes a memtable entry before it is written, is what the *)
(* encoders write; a version edit comes back with every field, zeros set        *)
(* included; the memtable and the last sequence number from the log alone; a    *)
(* file name, the greatest number included, with its type and number, so that   *)
(* a sweep keeps the files of live numbers and removes only names the database  *)
(* could have given out. Base64 text stays in its buffer, the terminating zero  *)
(* included, and comes back with the same bytes, spaces anywhere; the handshake *)
(* is never without its key. A crc is the same in whatever pieces it is taken;  *)
(* the three views of a look-up key agree; a key that is accepted is the one    *)
(* with those bytes.                                                            *)
WrittenIsRead ==
    /\ unit = "crc"    => Crc!TypeOK /\ Crc!ExtendIsConcat
    /\ unit = "coding" => Coding!TypeOK /\ Coding!ReadsWhatWasPut /\ Coding!LengthIsExact
    /\ unit = "edit"   => Edit!TypeOK /\ Edit!EditRoundTrips
    /\ unit = "batch"  => Batch!TypeOK /\ Batch!LogRebuildsMemTable
    /\ unit = "key"    => Format!TypeOK /\ Format!LookupViewsAgree /\ Format!ParsedIsExact
    /\ unit = "file"   =>
           File!TypeOK /\ File!NamesParseBack /\ File!LiveFilesKept /\ File!StrangersKept
    /\ unit = "base64" =>
           B64!TypeOK /\ B64!StaysInTarget /\ B64!DecodesBack /\ B64!HandshakeIsEncoded
    /\ unit = "push"   => Push!TypeOK

(* Damage does not pass for data. A changed bit or burst changes the crc, and a *)
(* crc within the data does not make it regular; a stream that was cut is read  *)
(* up to the cut and nothing whole is left behind; a record of the manifest     *)
(* that lost its end is refused or holds whole fields only, and one that is     *)
(* accepted was understood to its last byte; a cut batch is reported, even      *)
(* between two operations; there is one base64 text for any bytes, so what is   *)
(* accepted is the encoding of what is returned.                                *)
DamageIsNoticed ==
    /\ unit = "crc"    => Crc!DamageIsDetected /\ Crc!EmbeddedCrcIsHidden
    /\ unit = "coding" => Coding!StopsAtTheCut
    /\ unit = "edit"   => Edit!CutFieldIsRefused /\ Edit!AcceptedIsConsumed
    /\ unit = "batch"  => Batch!CutBatchIsReported
    /\ unit = "base64" => B64!AcceptedIsCanonical

(* Later is greater. Through group commits, batches written again and cleared,  *)
(* operations get consecutive numbers that end at LastSequence, none twice, not *)
(* even after a recovery that ignores errors; a search at a snapshot starts     *)
(* before every entry of the key the snapshot may see and behind every later    *)
(* one; push ids are in the order they were made while the clock does not go    *)
(* back, and an id of a later time is greater whatever it does.                 *)
LaterIsGreater ==
    /\ unit = "batch" => Batch!OneNumberPerOperation /\ Batch!NumbersAreNotReused
    /\ unit = "key"   => Format!LookupStartsAtSnapshot
    /\ unit = "push"  => Push!ChronologicallySorted /\ Push!LaterIsGreater
=============================================================================
