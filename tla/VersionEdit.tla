----------------------------- MODULE VersionEdit -----------------------------
(* leveldb's db/version_edit: a change to the set of files, collected field by  *)
(* field, written to the MANIFEST as one record and parsed back by Recover into *)
(* a new edit. A record may lose its end or have a byte changed on the way.     *)
EXTENDS Coding

CONSTANTS
    kNumLevels,
    Names,      \* comparator names, as bytes
    FileNumbers,    \* log, file and sequence numbers and file sizes
    Levels,     \* levels that are set
    EncodedKeys,    \* encoded internal keys
    Garbage,    \* what a byte may be changed into
    MaxFields   \* bound: fields set before the edit is written

VARIABLES
    edit,       \* the edit being collected
    fields,     \* calls made on it
    record,     \* its encoding
    state,      \* "open", "whole", "cut" or "changed": the record and what befell it
    result      \* of DecodeFrom, or NoResult

vars == <<edit, fields, record, state, result>>

kComparator == 1
kLogNumber == 2
kNextFileNumber == 3
kLastSequence == 4
kCompactPointer == 5
kDeletedFile == 6
kNewFile == 7
kPrevLogNumber == 9

(* The fields with a has_ flag, in the order they are written.                   *)
Scalars == <<kComparator, kLogNumber, kPrevLogNumber, kNextFileNumber, kLastSequence>>

(* A set flag is membership in the domain of scalar.                             *)
Fresh == [scalar |-> <<>>, compact_pointers |-> <<>>, deleted_files |-> {}, new_files |-> <<>>]

(* Everything but the compaction pointers.                                       *)
Clear(e) == [Fresh EXCEPT !.compact_pointers = e.compact_pointers]

NoResult == [ok |-> FALSE, edit |-> Fresh, input |-> <<>>, msg |-> "none"]

-----------------------------------------------------------------------------
(* EncodeTo                                                                      *)

(* A deviation: a number that is zero is taken for one that was not set.         *)
EncodeScalarIfNonzero(e, tag) ==
    IF tag \notin DOMAIN e.scalar \/ (tag # kComparator /\ e.scalar[tag] = 0) THEN <<>>
    ELSE IF tag = kComparator THEN PutLengthPrefixedSlice(EncodeVarint32(tag), e.scalar[tag])
    ELSE PutVarint64(EncodeVarint32(tag), e.scalar[tag])

EncodeScalar(e, tag) ==
    IF tag \notin DOMAIN e.scalar THEN <<>>
    ELSE IF tag = kComparator THEN PutLengthPrefixedSlice(EncodeVarint32(tag), e.scalar[tag])
    ELSE PutVarint64(EncodeVarint32(tag), e.scalar[tag])

EncodeCompactPointer(p) ==
    PutLengthPrefixedSlice(EncodeVarint32(kCompactPointer) \o EncodeVarint32(p[1]), p[2])

EncodeDeletedFile(d) ==
    PutVarint64(EncodeVarint32(kDeletedFile) \o EncodeVarint32(d[1]), d[2])

EncodeNewFile(f) ==
    LET head == EncodeVarint32(kNewFile) \o EncodeVarint32(f[1])
        size == PutVarint64(PutVarint64(head, f[2]), f[3])
    IN  PutLengthPrefixedSlice(PutLengthPrefixedSlice(size, f[4]), f[5])

(* The order of std::set< std::pair<int, uint64_t> >.                            *)
PairLess(a, b) == a[1] < b[1] \/ (a[1] = b[1] /\ a[2] < b[2])

EncodeTo(e) ==
    FlattenSeq(
        [i \in DOMAIN Scalars |-> EncodeScalar(e, Scalars[i])]
            \o [i \in DOMAIN e.compact_pointers |-> EncodeCompactPointer(e.compact_pointers[i])]
            \o LET sorted == SetToSortSeq(e.deleted_files, PairLess)
               IN  [i \in DOMAIN sorted |-> EncodeDeletedFile(sorted[i])]
            \o [i \in DOMAIN e.new_files |-> EncodeNewFile(e.new_files[i])])

-----------------------------------------------------------------------------
(* DecodeFrom                                                                    *)

GetInternalKey(input) == GetLengthPrefixedSlice(input)

CheckedLevel(v) == IF v.ok /\ v.value < kNumLevels THEN v ELSE Failed(v.input)
GetLevel(input) == CheckedLevel(GetVarint32(input))

(* What follows each tag.                                                        *)
Layout(tag) ==
    CASE tag = kComparator     -> <<"slice">>
      [] tag \in {kLogNumber, kPrevLogNumber, kNextFileNumber, kLastSequence} -> <<"number">>
      [] tag = kCompactPointer -> <<"level", "key">>
      [] tag = kDeletedFile    -> <<"level", "number">>
      [] tag = kNewFile        -> <<"level", "number", "number", "key", "key">>

Tags == ToSet(Scalars) \cup {kCompactPointer, kDeletedFile, kNewFile}

GetPart(form, input) ==
    CASE form = "slice"  -> GetLengthPrefixedSlice(input)
      [] form = "number" -> GetVarint64(input)
      [] form = "level"  -> GetLevel(input)
      [] form = "key"    -> GetInternalKey(input)

(* The gets of one case, joined by &&: the first that fails ends it.             *)
TakePart(got, part) ==
    IF part.ok THEN [got EXCEPT !.parts = Append(@, part.value), !.input = part.input]
    ELSE [got EXCEPT !.ok = FALSE, !.input = part.input]

GetParts(input, forms) ==
    FoldLeft(LAMBDA got, form : IF got.ok THEN TakePart(got, GetPart(form, got.input)) ELSE got,
             [ok |-> TRUE, parts |-> <<>>, input |-> input], forms)

AddParts(e, tag, parts) ==
    CASE tag = kCompactPointer -> [e EXCEPT !.compact_pointers = Append(@, parts)]
      [] tag = kDeletedFile    -> [e EXCEPT !.deleted_files = @ \cup {parts}]
      [] tag = kNewFile        -> [e EXCEPT !.new_files = Append(@, parts)]
      [] OTHER -> [e EXCEPT !.scalar = (tag :> parts[1]) @@ @]

(* One turn of the loop: r.more is its condition.                                *)
TakeField(r, tag, got) ==
    IF got.ok THEN [r EXCEPT !.edit = AddParts(@, tag, got.parts), !.input = got.input]
    ELSE [r EXCEPT !.more = FALSE, !.msg = "field", !.input = got.input]

DecodeTagged(r, tag) ==
    IF ~r.more \/ ~tag.ok THEN [r EXCEPT !.more = FALSE]
    ELSE IF tag.value \notin Tags
    THEN [r EXCEPT !.more = FALSE, !.msg = "unknown tag", !.input = tag.input]
    ELSE TakeField(r, tag.value, GetParts(tag.input, Layout(tag.value)))

DecodeField(r) == DecodeTagged(r, GetVarint32(r.input))

(* Every turn takes at least one byte, so Len(src) turns and the one that finds  *)
(* the input empty are all of them.                                              *)
DecodeFields(e, src) ==
    FoldLeft(LAMBDA r, i : DecodeField(r),
             [more |-> TRUE, edit |-> Clear(e), input |-> src, msg |-> "none"],
             [i \in 1 .. Len(src) + 1 |-> i])

Outcome(r) ==
    [ok |-> r.msg = "none", edit |-> r.edit, input |-> r.input, msg |-> r.msg]

RestIsEmpty(r) ==
    [r EXCEPT !.msg = IF r.msg = "none" /\ r.input # <<>> THEN "invalid tag" ELSE @]

DecodeFrom(e, src) == Outcome(RestIsEmpty(DecodeFields(e, src)))

-----------------------------------------------------------------------------
Init ==
    /\ edit = Fresh /\ fields = 0 /\ record = <<>>
    /\ state = "open" /\ result = NoResult

Collect(e) ==
    /\ state = "open" /\ fields < MaxFields
    /\ edit' = e /\ fields' = fields + 1
    /\ UNCHANGED <<record, state, result>>

Set(tag, v) == Collect([edit EXCEPT !.scalar = (tag :> v) @@ @])

SetCompactPointer(level, key) ==
    Collect([edit EXCEPT !.compact_pointers = Append(@, <<level, key>>)])

AddFile(level, file, size, smallest, largest) ==
    Collect([edit EXCEPT !.new_files = Append(@, <<level, file, size, smallest, largest>>)])

DeleteFile(level, file) == Collect([edit EXCEPT !.deleted_files = @ \cup {<<level, file>>}])

Write ==
    /\ state = "open"
    /\ record' = EncodeTo(edit)
    /\ state' = "whole"
    /\ UNCHANGED <<edit, fields, result>>

(* What the error paths of DecodeFrom are for: a record that is not the one      *)
(* written.                                                                      *)
Cut(n) ==
    /\ state = "whole" /\ result = NoResult
    /\ record' = SubSeq(record, 1, n)
    /\ state' = "cut"
    /\ UNCHANGED <<edit, fields, result>>

Change(i, byte) ==
    /\ state = "whole" /\ result = NoResult
    /\ record[i] # byte
    /\ record' = [record EXCEPT ![i] = byte]
    /\ state' = "changed"
    /\ UNCHANGED <<edit, fields, result>>

(* Recover and DumpDescriptor decode each record into an edit of its own.        *)
Read ==
    /\ state # "open" /\ result = NoResult
    /\ result' = DecodeFrom(Fresh, record)
    /\ UNCHANGED <<edit, fields, record, state>>

Next ==
    \/ \E v \in Names : Set(kComparator, v)
    \/ \E tag \in ToSet(Scalars) \ {kComparator}, v \in FileNumbers : Set(tag, v)
    \/ \E l \in Levels, k \in EncodedKeys : SetCompactPointer(l, k)
    \/ \E l \in Levels, n \in FileNumbers : DeleteFile(l, n)
    \/ \E l \in Levels, n, s \in FileNumbers, a, b \in EncodedKeys : AddFile(l, n, s, a, b)
    \/ Write
    \/ \E n \in 0 .. Len(record) - 1 : Cut(n)
    \/ \E i \in DOMAIN record, byte \in Garbage : Change(i, byte)
    \/ Read

Spec == Init /\ [][Next]_vars

-----------------------------------------------------------------------------
LevelsOf(e) ==
    {e.compact_pointers[i][1] : i \in DOMAIN e.compact_pointers}
        \cup {d[1] : d \in e.deleted_files}
        \cup {e.new_files[i][1] : i \in DOMAIN e.new_files}

(* The one type invariant of the module: of the parsed edit too, whatever the    *)
(* bytes, since Builder::Apply indexes its arrays with the levels.               *)
TypeOK ==
    /\ state \in {"open", "whole", "cut", "changed"} /\ fields \in 0 .. MaxFields
    /\ ToSet(record) \subseteq 0 .. 255
    /\ LevelsOf(edit) \cup LevelsOf(result.edit) \subseteq 0 .. kNumLevels - 1

(* What Recover applies is what LogAndApply wrote: every field of an undamaged   *)
(* record comes back, a number that was set to zero still set, files in order.   *)
EditRoundTrips ==
    state = "whole" /\ result # NoResult => result.ok /\ result.edit = edit

(* A record that lost its end is either refused or holds whole fields only: what *)
(* is accepted encodes to the very bytes that were read. No number, level or key *)
(* is made up from half a field.                                                 *)
CutFieldIsRefused ==
    state = "cut" /\ result.ok => EncodeTo(result.edit) = record

(* An accepted record was understood to its last byte.                           *)
AcceptedIsConsumed == result.ok => result.input = <<>>
=============================================================================
