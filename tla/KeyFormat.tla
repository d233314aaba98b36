----------------------------- MODULE KeyFormat -----------------------------
(* The bytes of leveldb's internal keys (db/dbformat): a user key and a word     *)
(* that packs its sequence number and type, how such a key is parsed, and the    *)
(* LookupKey with which DBImpl::Get searches memtables and tables alike.         *)
EXTENDS Coding

CONSTANTS
    UserKeys,       \* as bytes
    Sequences,      \* sequence numbers
    SpaceSize,      \* sizeof(LookupKey::space_), 200
    Garbage         \* what a byte of a stored key may be changed into

VARIABLES
    entry,          \* the key as it was meant: [user_key, sequence, type]
    rep,            \* its bytes, perhaps damaged
    lookup,         \* a LookupKey: [user_key, sequence, room, bytes, kstart]
    phase           \* "new", "stored", "damaged"

vars == <<entry, rep, lookup, phase>>

kTypeDeletion == 0
kTypeValue == 1

kValueTypeForSeek == kTypeValue

(* sizeof of the packed word.                                                    *)
TagSize == FixedSize(Bits64)

-----------------------------------------------------------------------------
PackSequenceAndType(seq, t) == (seq * 256 + t) % 2 ^ Bits64

AppendInternalKey(result, key) ==
    PutFixed64(result \o key.user_key, PackSequenceAndType(key.sequence, key.type))

Packed(ikey) == DecodeFixed(Drop(ikey, Len(ikey) - TagSize))
ExtractUserKey(ikey) == SubSeq(ikey, 1, Len(ikey) - TagSize)
ExtractValueType(ikey) == Packed(ikey) % 256

ParseInternalKey(ikey) ==
    IF Len(ikey) < TagSize \/ ExtractValueType(ikey) > kTypeValue THEN [ok |-> FALSE]
    ELSE [ok |-> TRUE, user_key |-> ExtractUserKey(ikey), sequence |-> Packed(ikey) \div 256,
          type |-> ExtractValueType(ikey)]

-----------------------------------------------------------------------------
(* LookupKey                                                                     *)

(* The conservative estimate: the longest varint32 and the word, 13 bytes.       *)
Needed(usize) == usize + (Bits32 \div 7) + 1 + TagSize

LookupKey(u, s) ==
    LET len == EncodeVarint32(Len(u) + TagSize)
    IN  [user_key |-> u, sequence |-> s,
         room   |-> IF Needed(Len(u)) <= SpaceSize THEN SpaceSize ELSE Needed(Len(u)),
         bytes  |-> len \o u \o EncodeFixed(Bits64, PackSequenceAndType(s, kValueTypeForSeek)),
         kstart |-> Len(len)]

memtable_key(l) == l.bytes
internal_key(l) == Drop(l.bytes, l.kstart)
user_key(l) == SubSeq(l.bytes, l.kstart + 1, Len(l.bytes) - TagSize)

-----------------------------------------------------------------------------
NoLookup == LookupKey(<<>>, 0)

Init ==
    /\ entry \in [user_key : UserKeys, sequence : Sequences, type : {kTypeDeletion, kTypeValue}]
    /\ rep = <<>> /\ lookup = NoLookup /\ phase = "new"

Store ==
    /\ phase = "new"
    /\ rep' = AppendInternalKey(<<>>, entry)
    /\ phase' = "stored"
    /\ UNCHANGED <<entry, lookup>>

Cut(n) ==
    /\ phase = "stored" /\ lookup = NoLookup
    /\ rep' = SubSeq(rep, 1, n)
    /\ phase' = "damaged"
    /\ UNCHANGED <<entry, lookup>>

Change(i, byte) ==
    /\ phase = "stored" /\ lookup = NoLookup
    /\ rep' = [rep EXCEPT ![i] = byte]
    /\ phase' = "damaged"
    /\ UNCHANGED <<entry, lookup>>

Get(u, s) ==
    /\ phase = "stored"
    /\ lookup' = LookupKey(u, s)
    /\ UNCHANGED <<entry, rep, phase>>

Next ==
    \/ Store
    \/ \E n \in 0 .. Len(rep) - 1 : Cut(n)
    \/ \E i \in DOMAIN rep, byte \in Garbage : Change(i, byte)
    \/ \E u \in UserKeys, s \in Sequences : Get(u, s)

Spec == Init /\ [][Next]_vars

-----------------------------------------------------------------------------
(* The one type invariant of the module: a LookupKey stays in its buffer, on the *)
(* stack or on the heap, however long the length in front of it is.              *)
TypeOK ==
    /\ phase \in {"new", "stored", "damaged"}
    /\ ToSet(rep) \cup ToSet(lookup.bytes) \subseteq 0 .. 255
    /\ Len(lookup.bytes) <= lookup.room

(* One array serves three searches: the memtable reads the length in front and   *)
(* finds the internal key, the tables get that key, and both parse it to the     *)
(* user key and the snapshot's number.                                           *)
LookupViewsAgree ==
    LET prefixed == GetLengthPrefixedSlice(memtable_key(lookup))
    IN  /\ prefixed.ok /\ prefixed.value = internal_key(lookup) /\ prefixed.input = <<>>
        /\ user_key(lookup) = lookup.user_key
        /\ ParseInternalKey(internal_key(lookup))
             = [ok |-> TRUE, user_key |-> lookup.user_key, sequence |-> lookup.sequence,
                type |-> kValueTypeForSeek]

(* Packed words decide, the greater first: a search at a snapshot starts at or   *)
(* before every entry of the key the snapshot may see, deletions and the         *)
(* snapshot's own number included, and behind every later one.                   *)
LookupStartsAtSnapshot ==
    phase = "stored" /\ entry.user_key = lookup.user_key =>
        (Packed(internal_key(lookup)) >= Packed(rep)) = (entry.sequence <= lookup.sequence)

(* Whatever became of the bytes, what is accepted as a key is the key with those *)
(* bytes and no other; an undamaged one is accepted.                             *)
ParsedIsExact ==
    /\ phase = "stored" => ParseInternalKey(rep).ok
    /\ ParseInternalKey(rep).ok => AppendInternalKey(<<>>, ParseInternalKey(rep)) = rep
=============================================================================
