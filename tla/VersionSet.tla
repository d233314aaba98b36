----------------------------- MODULE VersionSet -----------------------------
(***************************************************************************)
(* db/version_set.cc: the table files of each level, how they are searched, *)
(* how an edit turns one version into the next, and which files a           *)
(* compaction takes.  The module has no variables: a version is a value,    *)
(* and DBImpl keeps the current one.                                        *)
(*                                                                          *)
(* A user key is a natural number.  An entry is [k, s, del]: the value      *)
(* itself is abstracted to its sequence number s, del marks a deletion.     *)
(* An internal key is [k, s]; one user key's entries are ordered newest     *)
(* first.  A file's size is its number of entries.                          *)
(***************************************************************************)
EXTENDS Integers, FiniteSets, Sequences, FiniteSetsExt, SequencesExt

CONSTANTS
  NumLevels,          \* config::kNumLevels (7 in the code)
  MaxMemLevel,        \* config::kMaxMemCompactLevel (2)
  L0Trigger,          \* config::kL0_CompactionTrigger (4)
  MaxFileSize,        \* options->max_file_size, in entries
  LevelSize,          \* MaxBytesForLevel(1), in entries (10 MB in the code)
  LevelFactor,        \* how much larger each further level is (10)
  OverlapFactor,      \* MaxGrandParentOverlapBytes / TargetFileSize (10)
  ExpandFactor,       \* ExpandedCompactionByteSizeLimit / TargetFileSize (25)
  MaxSequence,        \* kMaxSequenceNumber
  NULL

ASSUME LevelAssumption ==
  /\ NumLevels \in Nat /\ NumLevels > 1 /\ MaxMemLevel \in 0 .. NumLevels - 1
  /\ L0Trigger \in Nat \ {0} /\ MaxFileSize \in Nat \ {0}
  /\ LevelSize \in Nat \ {0} /\ LevelFactor \in Nat \ {0}

Level == 0 .. NumLevels - 1

(* Internal keys: user key ascending, sequence number descending. *)
IKey(e) == [k |-> e.k, s |-> e.s]
ILess(a, b) == a.k < b.k \/ (a.k = b.k /\ a.s > b.s)
SeekKey(k, n) == [k |-> k, s |-> n]

(* The elements of a set in a strict total order: the i-th has i - 1 before it. *)
InOrder(S, Before(_, _)) ==
  [i \in 1 .. Cardinality(S) |-> CHOOSE x \in S : Cardinality({y \in S : Before(y, x)}) = i - 1]

Ascending(numbers) == InOrder(numbers, LAMBDA a, b: a < b)

MaxGrandParentOverlap == OverlapFactor * MaxFileSize
ExpandedLimit == ExpandFactor * MaxFileSize
(* Of a level above 0: each is LevelFactor times the one before it. *)
MaxBytesForLevel(level) ==
  LET result[l \in 0 .. level - 1] == IF l = 0 THEN LevelSize ELSE result[l - 1] * LevelFactor
  IN result[level - 1]
TotalFileSize(files) ==
  LET sum[i \in 0 .. Len(files)] == IF i = 0 THEN 0 ELSE sum[i - 1] + files[i].file_size
  IN sum[Len(files)]

-----------------------------------------------------------------------------
(* Searching a version. *)

(* Binary search for the first file whose largest key is >= key; one past   *)
(* the end when there is none.                                              *)
FindFile(files, key) ==
  LET search[b \in Nat \X Nat] ==
        LET mid == (b[1] + b[2]) \div 2 IN
        IF b[1] >= b[2] THEN b[2]
        ELSE IF ILess(files[mid + 1].largest, key) THEN search[<<mid + 1, b[2]>>]
        ELSE search[<<b[1], mid>>]
  IN search[<<0, Len(files)>>] + 1

(* A NULL bound is before (or after) every key. *)
AfterFile(key, f)  == key # NULL /\ key > f.largest.k
BeforeFile(key, f) == key # NULL /\ key < f.smallest.k

StartsBefore(files, i, hi) == i <= Len(files) /\ ~BeforeFile(hi, files[i])

SomeFileOverlapsRange(disjoint, files, lo, hi) ==
  IF ~disjoint
  THEN \E i \in DOMAIN files : ~AfterFile(lo, files[i]) /\ ~BeforeFile(hi, files[i])
  ELSE StartsBefore(files, IF lo = NULL THEN 1 ELSE FindFile(files, SeekKey(lo, MaxSequence)), hi)

OverlapInLevel(v, level, lo, hi) ==
  SomeFileOverlapsRange(level > 0, v[level], lo, hi)

(* The files a lookup visits, in order, with their levels: the overlapping  *)
(* files of level 0 from newest to oldest, then at most one file a level.   *)
NewestFirst(files) == InOrder(files, LAMBDA a, b: a.number > b.number)
OfLevel0(newest) == [i \in DOMAIN newest |-> <<0, newest[i]>>]

(* The levels below 0 with a file that may have the key, and that file. *)
FileOfLevel(v, level, ikey) == v[level][FindFile(v[level], ikey)]
LevelsReached(v, ikey) ==
  {level \in 1 .. NumLevels - 1 : /\ FindFile(v[level], ikey) \in DOMAIN v[level]
                                 /\ FileOfLevel(v, level, ikey).smallest.k <= ikey.k}
OneOfLevel(v, ikey, levels) ==
  [j \in DOMAIN levels |-> <<levels[j], FileOfLevel(v, levels[j], ikey)>>]

ForEachOverlapping(v, ikey) ==
  OfLevel0(NewestFirst({f \in ToSet(v[0]) : f.smallest.k <= ikey.k /\ ikey.k <= f.largest.k}))
  \o OneOfLevel(v, ikey, Ascending(LevelsReached(v, ikey)))

(* What Table::InternalGet hands to SaveValue: the first entry at or after  *)
(* ikey, used when it is for the same user key.                             *)
FirstEntry(after) == CHOOSE e \in after : \A f \in after : ~ILess(IKey(f), IKey(e))
SavedFor(ikey, first) == IF first.k = ikey.k THEN first ELSE NULL
SaveFirst(after, ikey) == IF after = {} THEN NULL ELSE SavedFor(ikey, FirstEntry(after))
SaveValue(entries, ikey) == SaveFirst({e \in entries : ~ILess(IKey(e), ikey)}, ikey)

(* Version::Get: the first file that has an entry for the key decides.      *)
Hits(order, tables, ikey) ==
  {i \in DOMAIN order : SaveValue(tables[order[i][2].number], ikey) # NULL}

FirstHit(order, hits, tables, ikey) ==
  IF hits = {} THEN NULL ELSE SaveValue(tables[order[Min(hits)][2].number], ikey)

GetInOrder(order, tables, ikey) == FirstHit(order, Hits(order, tables, ikey), tables, ikey)
VersionGet(v, tables, ikey) == GetInOrder(ForEachOverlapping(v, ikey), tables, ikey)

(* GetStats of a lookup that read more than one file: the first of them is  *)
(* charged with a seek.                                                     *)
Charged(order, hits) ==
  IF (IF hits = {} THEN Len(order) ELSE Min(hits)) > 1 THEN order[1] ELSE NULL
ChargedInOrder(order, tables, ikey) == Charged(order, Hits(order, tables, ikey))
SeekFile(v, tables, ikey) == ChargedInOrder(ForEachOverlapping(v, ikey), tables, ikey)

-----------------------------------------------------------------------------
(* Choosing inputs. *)

(* All files of the level that overlap [lo, hi]; in level 0 a file that     *)
(* sticks out widens the range and the search starts again.                 *)
FilesInRange(files, lo, hi) ==
  LET inputs[i \in 0 .. Len(files)] ==
        IF i = 0 THEN << >>
        ELSE IF AfterFile(lo, files[i]) \/ BeforeFile(hi, files[i]) THEN inputs[i - 1]
        ELSE Append(inputs[i - 1], files[i])
  IN inputs[Len(files)]

(* One restart of the search: the range that the files found so far cover.  *)
Widened(r, found) ==
  <<IF r[1] = NULL THEN NULL ELSE Min({f.smallest.k : f \in found} \cup {r[1]}),
    IF r[2] = NULL THEN NULL ELSE Max({f.largest.k : f \in found} \cup {r[2]})>>

Bound == Int \cup {NULL}
WidestRange(files, range) ==
  LET widest[r \in Bound \X Bound] ==
        LET wider == Widened(r, ToSet(FilesInRange(files, r[1], r[2])))
        IN IF wider = r THEN r ELSE widest[wider]
  IN widest[range]

InWidest(files, r) == FilesInRange(files, r[1], r[2])
GetOverlappingInputs(v, level, lo, hi) ==
  InWidest(v[level], IF level = 0 THEN WidestRange(v[0], <<lo, hi>>) ELSE <<lo, hi>>)

GetRangeOf(fs) ==
  [smallest |-> (CHOOSE f \in fs : \A g \in fs : ~ILess(g.smallest, f.smallest)).smallest,
   largest  |-> (CHOOSE f \in fs : \A g \in fs : ~ILess(f.largest, g.largest)).largest]
GetRange(files) == GetRangeOf(ToSet(files))

(* The level a new memtable table goes to: as deep as MaxMemLevel, while it *)
(* overlaps nothing on the way and not too much two levels down.            *)
PickLevelForMemTableOutput(v, lo, hi) ==
  LET mayPass(level) ==
        /\ ~OverlapInLevel(v, level + 1, lo, hi)
        /\ level + 2 < NumLevels =>
             TotalFileSize(GetOverlappingInputs(v, level + 2, lo, hi)) <= MaxGrandParentOverlap
  IN IF OverlapInLevel(v, 0, lo, hi) THEN 0
     ELSE Min({n \in 0 .. MaxMemLevel : n = MaxMemLevel \/ ~mayPass(n)})

(* VersionSet::SetupOtherInputs on a version: the files of level + 1, a     *)
(* larger set of level's files when that costs no further file of level + 1,*)
(* the grandparents, and the new compaction pointer.                        *)
InputsIn(v, level, r) == GetOverlappingInputs(v, level, r.smallest.k, r.largest.k)

Chosen(v, level, in0, in1, all, largest) ==
  [level |-> level, version |-> v, in0 |-> in0, in1 |-> in1, pointer |-> largest,
   grand |-> IF level + 2 < NumLevels THEN InputsIn(v, level + 2, all) ELSE << >>]

Expanded(v, level, exp0, exp1, rx) ==
  Chosen(v, level, exp0, exp1, GetRange(exp0 \o exp1), rx.largest)

(* p is the choice without the expansion.                                   *)
ExpandTo(v, p, exp0, exp1, rx) ==
  IF /\ Len(exp0) > Len(p.in0) /\ TotalFileSize(p.in1) + TotalFileSize(exp0) < ExpandedLimit
     /\ Len(exp1) = Len(p.in1)
  THEN Expanded(v, p.level, exp0, exp1, rx) ELSE p

ExpandInto(v, p, exp0, rx) == ExpandTo(v, p, exp0, InputsIn(v, p.level + 1, rx), rx)
ExpandBy(v, p, exp0) == ExpandInto(v, p, exp0, GetRange(exp0))

WithParents(v, level, in0, in1, all, r0) ==
  IF in1 = << >> THEN Chosen(v, level, in0, in1, all, r0.largest)
  ELSE ExpandBy(v, Chosen(v, level, in0, in1, all, r0.largest), InputsIn(v, level, all))

OtherInputs(v, level, in0, in1, r0) == WithParents(v, level, in0, in1, GetRange(in0 \o in1), r0)
ParentsOf(v, level, in0, r0) == OtherInputs(v, level, in0, InputsIn(v, level + 1, r0), r0)
SetupOtherInputs(v, level, in0) == ParentsOf(v, level, in0, GetRange(in0))

(* Finalize: the level with the highest score, the lowest on a tie.  The    *)
(* score is a fraction: files over L0Trigger, or bytes over the level size. *)
Score(v, level) == IF level = 0 THEN <<Len(v[0]), L0Trigger>>
                   ELSE <<TotalFileSize(v[level]), MaxBytesForLevel(level)>>
Above(p, q) == p[1] * q[2] > q[1] * p[2]
CompactionLevel(v) ==
  LET best[l \in 0 .. NumLevels - 2] ==
        IF l = 0 THEN 0 ELSE IF Above(Score(v, l), Score(v, best[l - 1])) THEN l ELSE best[l - 1]
  IN best[NumLevels - 2]
AtLimit(s) == s[1] >= s[2]
SizeCompaction(v) == AtLimit(Score(v, CompactionLevel(v)))

(* The level of a compaction and the files of it that are to be compacted;  *)
(* SetupOtherInputs adds the rest.                                          *)
Inputs(level, files) == [level |-> level, files |-> files]

(* A deviation: a file of level 0 goes without the files it overlaps. *)
PickOneFile(v, seek, pointers) ==
  LET level == IF SizeCompaction(v) THEN CompactionLevel(v) ELSE seek[1] IN
  IF ~SizeCompaction(v) /\ seek = NULL THEN NULL ELSE Inputs(level, <<v[level][1]>>)

(* PickCompaction: by size from the compaction pointer on (wrapping), else  *)
(* the file charged with too many seeks; in level 0 with all it overlaps.   *)
FirstOr(after, first) == IF after = {} THEN first ELSE Min(after)
FromPointer(files, pointer) ==
  files[FirstOr({i \in DOMAIN files : pointer = NULL \/ ILess(pointer, files[i].largest)}, 1)]

WithOverlapping(v, level, f) ==
  Inputs(level, IF level = 0 THEN GetOverlappingInputs(v, 0, f.smallest.k, f.largest.k) ELSE <<f>>)

PickBySize(v, pointers) ==
  [level \in 0 .. NumLevels - 2 |-> WithOverlapping(v, level, FromPointer(v[level], pointers[level]))]

PickCompaction(v, seek, pointers) ==
  IF SizeCompaction(v) THEN PickBySize(v, pointers)[CompactionLevel(v)]
  ELSE IF seek # NULL THEN WithOverlapping(v, seek[1], seek[2]) ELSE NULL

(* VersionSet::CompactRange: the manual range, at most one output file's    *)
(* worth of inputs at a time above level 0.                                 *)
FirstOutputOf(inputs, enough) == IF enough = {} THEN inputs ELSE SubSeq(inputs, 1, Min(enough))
LimitInputs(level, inputs) ==
  IF level = 0 THEN inputs
  ELSE FirstOutputOf(inputs,
         {i \in DOMAIN inputs : TotalFileSize(SubSeq(inputs, 1, i)) >= MaxFileSize})

CompactInputs(level, inputs) ==
  IF inputs = << >> THEN NULL ELSE Inputs(level, LimitInputs(level, inputs))
CompactRange(v, level, lo, hi) ==
  CompactInputs(level, GetOverlappingInputs(v, level, lo, hi))

IsTrivialMove(c) ==
  Len(c.in0) = 1 /\ c.in1 = << >> /\ TotalFileSize(c.grand) <= MaxGrandParentOverlap

(* No file below the output level can hold the user key. *)
IsBaseLevelForKey(c, key) ==
  \A level \in c.level + 2 .. NumLevels - 1 :
    \A f \in ToSet(c.version[level]) : key < f.smallest.k \/ f.largest.k < key

-----------------------------------------------------------------------------
(* Edits: VersionEdit, and VersionSet::Builder that applies them. *)

NoEdit == [add |-> {}, del |-> {}, pointers |-> {}]

(* What Builder::Apply has collected after the edits: a file that is added   *)
(* again is no longer deleted.                                              *)
At(changes, level) == {x[2] : x \in {y \in changes : y[1] = level}}
AddedAt(edit, level) == {f.number : f \in At(edit.add, level)}
StillDeleted(edits, i, level) ==
  {n \in At(edits[i].del, level) : \A j \in i .. Len(edits) : n \notin AddedAt(edits[j], level)}
Applied(edits) ==
  [level \in Level |->
     [deleted |-> UNION {StillDeleted(edits, i, level) : i \in DOMAIN edits},
      added   |-> UNION {At(edits[i].add, level) : i \in DOMAIN edits}]]

BySmallestKey(f, g) ==
  ILess(f.smallest, g.smallest) \/ (f.smallest = g.smallest /\ f.number < g.number)

(* Builder::SaveTo: base files and added files in key order, without the    *)
(* deleted ones.                                                            *)
SaveTo(v, b) ==
  [level \in Level |->
     InOrder({f \in ToSet(v[level]) \cup b[level].added : f.number \notin b[level].deleted},
             BySmallestKey)]

EmptyVersion == [level \in Level |-> << >>]
FilesOf(v) == UNION {{f.number : f \in ToSet(v[level])} : level \in Level}

ApplyPointers(p, edit) ==
  [level \in Level |-> IF \E x \in edit.pointers : x[1] = level
                       THEN (CHOOSE x \in edit.pointers : x[1] = level)[2] ELSE p[level]]
=============================================================================
