---------------------------- MODULE LevelIterator ----------------------------
(* How leveldb reads a whole version: Version::AddIterators for a DB iterator   *)
(* and VersionSet::MakeInputIterator for a compaction give every level-0 file an *)
(* iterator and every other level one that opens its files one after another,    *)
(* a TwoLevelIterator over a LevelFileNumIterator.                                *)
(*                                                                                *)
(* A file is [number, keys]: its keys ascending, as numbers. The iterator of a    *)
(* table is its position in them; Table.tla shows that it can be taken so.        *)
EXTENDS Integers, Sequences, SequencesExt, FiniteSets, FiniteSetsExt

CONSTANTS
    Versions,      \* files_ of each version, levels from 0 on
    Targets,       \* keys to seek
    MaxMoves,      \* bound: operations of an iterator
    MaxFaults,     \* bound: tables that cannot be opened
    NULL

VARIABLES
    files,         \* files_ of the version
    inputs,        \* what a compaction was given: [level, which], or NULL
    list,          \* the children of the merging iterator: [concat, flist]
    it,            \* one of them that is being used
    ref,           \* where it should stand: a key, or NULL
    moves, faults

vars == <<files, inputs, list, it, ref, moves, faults>>

-----------------------------------------------------------------------------
(* LevelFileNumIterator: [flist, index], index counted from 1, past the end when  *)
(* it is not valid.                                                               *)

IndexValid(x) == x.index <= Len(x.flist)
Largest(f) == f.keys[Len(f.keys)]

(* FindFile: the first file that ends at or behind the target.                   *)
IndexSeek(x, target) ==
    LET found == SelectInSeq(x.flist, LAMBDA f : Largest(f) >= target)
    IN  [x EXCEPT !.index = IF found = 0 THEN Len(x.flist) + 1 ELSE found]

IndexSeekToFirst(x) == [x EXCEPT !.index = 1]
IndexSeekToLast(x) == [x EXCEPT !.index = IF x.flist = <<>> THEN 1 ELSE Len(x.flist)]
IndexNext(x) == [x EXCEPT !.index = @ + 1]

IndexPrev(x) == [x EXCEPT !.index = IF @ = 1 THEN Len(x.flist) + 1 ELSE @ - 1]

-----------------------------------------------------------------------------
(* The iterator of a table: at 0 it is not valid. One that could not be opened    *)
(* has no keys and an error.                                                      *)

DataValid(x) == x.data # NULL /\ x.data.at # 0
DataSeek(d, target) ==
    [d EXCEPT !.at = SelectInSeq(d.keys, LAMBDA k : k >= target)]
DataSeekToFirst(d) == [d EXCEPT !.at = IF d.keys = <<>> THEN 0 ELSE 1]
DataSeekToLast(d) == [d EXCEPT !.at = Len(d.keys)]
DataNext(d) == [d EXCEPT !.at = IF @ = Len(d.keys) THEN 0 ELSE @ + 1]
DataPrev(d) == [d EXCEPT !.at = @ - 1]

(* TableCache::NewIterator through GetFileIterator, whose value is the number     *)
(* and the size of the file.                                                      *)
GetFileIterator(f, bad) ==
    IF f.number \in bad THEN [number |-> f.number, keys |-> <<>>, at |-> 0, st |-> "error"]
    ELSE [number |-> f.number, keys |-> f.keys, at |-> 0, st |-> "ok"]

-----------------------------------------------------------------------------
(* TwoLevelIterator: [flist, index, data, st].                                    *)

NewConcatenatingIterator(flist) ==
    [flist |-> flist, index |-> Len(flist) + 1, data |-> NULL, st |-> "ok"]

SetDataIterator(x, data) ==
    [x EXCEPT !.st = IF @ = "ok" /\ x.data # NULL THEN x.data.st ELSE @, !.data = data]

InitDataBlock(x, bad) ==
    IF ~IndexValid(x) THEN SetDataIterator(x, NULL)
    ELSE IF x.data # NULL /\ x.data.number = x.flist[x.index].number THEN x
    ELSE SetDataIterator(x, GetFileIterator(x.flist[x.index], bad))

OnData(x, Op(_)) == IF x.data = NULL THEN x ELSE [x EXCEPT !.data = Op(@)]

(* A turn of the loop for every file, and one to find that there are no more.     *)
SkipEmpty(x, IndexStep(_), Start(_), bad) ==
    FoldLeft(LAMBDA y, i :
                 IF DataValid(y) THEN y
                 ELSE IF ~IndexValid(y) THEN SetDataIterator(y, NULL)
                 ELSE OnData(InitDataBlock(IndexStep(y), bad), Start),
             x, [i \in 1 .. Len(x.flist) + 1 |-> i])

SkipForward(x, bad) == SkipEmpty(x, IndexNext, DataSeekToFirst, bad)
SkipBackward(x, bad) == SkipEmpty(x, IndexPrev, DataSeekToLast, bad)

Status(x) == IF x.data # NULL /\ x.data.st # "ok" THEN x.data.st ELSE x.st

-----------------------------------------------------------------------------
(* Children: a file alone, or a level.                                            *)

Alone(f) == [concat |-> FALSE, flist |-> <<f>>]
Level(flist) == IF flist = <<>> THEN <<>> ELSE <<[concat |-> TRUE, flist |-> flist]>>

AddIterators(fs) ==
    [i \in DOMAIN fs[1] |-> Alone(fs[1][i])]
        \o FlattenSeq([l \in 1 .. Len(fs) - 1 |-> Level(fs[l + 1])])

(* The length of the array that MakeInputIterator fills.                          *)
Space(level, which) == IF level = 0 THEN Len(which[1]) + 1 ELSE 2

MakeInputIterator(level, which) ==
    (IF level = 0 THEN [i \in DOMAIN which[1] |-> Alone(which[1][i])] ELSE Level(which[1]))
        \o Level(which[2])

-----------------------------------------------------------------------------
Init ==
    /\ files \in Versions /\ inputs = NULL /\ list = <<>> /\ it = NULL
    /\ ref = NULL /\ moves = 0 /\ faults = 0

NewIterator ==
    /\ list = <<>>
    /\ list' = AddIterators(files) /\ list' # <<>>
    /\ UNCHANGED <<files, inputs, it, ref, moves, faults>>

(* The inputs of a compaction are runs of neighbours, at level 0 any files.       *)
Runs(fs) == {SubSeq(fs, a, b) : a \in 1 .. Len(fs) + 1, b \in 0 .. Len(fs)}
Chosen(fs) == {SelectSeq(fs, LAMBDA f : f \in S) : S \in SUBSET ToSet(fs)}

Compact(level, first, second) ==
    /\ list = <<>> /\ first # <<>>
    /\ inputs' = [level |-> level, which |-> <<first, second>>]
    /\ list' = MakeInputIterator(level, <<first, second>>)
    /\ UNCHANGED <<files, it, ref, moves, faults>>

Use(i) ==
    /\ it = NULL /\ list[i].concat
    /\ it' = NewConcatenatingIterator(list[i].flist)
    /\ UNCHANGED <<files, inputs, list, ref, moves, faults>>

KeysOf(flist) == UNION {ToSet(flist[i].keys) : i \in DOMAIN flist}
MinOf(S) == IF S = {} THEN NULL ELSE Min(S)
MaxOf(S) == IF S = {} THEN NULL ELSE Max(S)

(* One operation; the tables in bad cannot be opened while it runs.               *)
Move(x, to, bad) ==
    /\ moves < MaxMoves
    /\ it' = x /\ ref' = to
    /\ moves' = moves + 1
    /\ faults' = faults + Cardinality(bad)
    /\ UNCHANGED <<files, inputs, list>>

Bad == {S \in SUBSET {it.flist[i].number : i \in DOMAIN it.flist} :
            faults + Cardinality(S) <= MaxFaults}

Seek(target) ==
    it # NULL /\ \E bad \in Bad :
        Move(SkipForward(OnData(InitDataBlock(IndexSeek(it, target), bad),
                                LAMBDA d : DataSeek(d, target)), bad),
             MinOf({k \in KeysOf(it.flist) : k >= target}), bad)

SeekToFirst ==
    it # NULL /\ \E bad \in Bad :
        Move(SkipForward(OnData(InitDataBlock(IndexSeekToFirst(it), bad), DataSeekToFirst), bad),
             MinOf(KeysOf(it.flist)), bad)

SeekToLast ==
    it # NULL /\ \E bad \in Bad :
        Move(SkipBackward(OnData(InitDataBlock(IndexSeekToLast(it), bad), DataSeekToLast), bad),
             MaxOf(KeysOf(it.flist)), bad)

KeyAt(x) == x.data.keys[x.data.at]

NextKey ==
    it # NULL /\ DataValid(it) /\ \E bad \in Bad :
        Move(SkipForward(OnData(it, DataNext), bad),
             MinOf({k \in KeysOf(it.flist) : k > KeyAt(it)}), bad)

Prev ==
    it # NULL /\ DataValid(it) /\ \E bad \in Bad :
        Move(SkipBackward(OnData(it, DataPrev), bad),
             MaxOf({k \in KeysOf(it.flist) : k < KeyAt(it)}), bad)

Next ==
    \/ NewIterator
    \/ \E level \in 0 .. Len(files) - 2 :
       \E first \in IF level = 0 THEN Chosen(files[1]) ELSE Runs(files[level + 1]),
          second \in Runs(files[level + 2]) : Compact(level, first, second)
    \/ \E i \in DOMAIN list : Use(i)
    \/ \E target \in Targets : Seek(target)
    \/ SeekToFirst \/ SeekToLast \/ NextKey \/ Prev

Spec == Init /\ [][Next]_vars

-----------------------------------------------------------------------------
(* The one type invariant of the module: the array of MakeInputIterator is long  *)
(* enough (its own assertion comes after the writes), and an index that is not    *)
(* valid is the one past the end.                                                 *)
TypeOK ==
    /\ moves \in 0 .. MaxMoves /\ faults \in 0 .. MaxFaults
    /\ inputs # NULL => Len(list) <= Space(inputs.level, inputs.which)
    /\ it # NULL => it.index \in 1 .. Len(it.flist) + 1 /\ Status(it) \in {"ok", "error"}

(* Each file of the version, or of the inputs, is read by exactly one child, and  *)
(* a child that reads files one after another meets its keys in order: files that *)
(* overlap are never chained.                                                     *)
ChildrenSplitTheFiles ==
    list # <<>> =>
        LET all  == FlattenSeq(IF inputs = NULL THEN files ELSE inputs.which)
            read == FlattenSeq([i \in DOMAIN list |-> list[i].flist])
        IN  /\ ToSet(read) = ToSet(all) /\ Len(read) = Len(all)
            /\ \A i \in DOMAIN list : \A j \in 1 .. Len(list[i].flist) - 1 :
                  Largest(list[i].flist[j]) < list[i].flist[j + 1].keys[1]

(* Across file borders, in both directions and after running off either end, the  *)
(* iterator stands on the key it should stand on, or it reports an error: a table *)
(* that could not be opened is not passed over in silence, and the error stays    *)
(* when the iterator has moved on.                                                 *)
RightKeyOrError ==
    it # NULL /\ moves > 0 /\ Status(it) = "ok" =>
        IF DataValid(it) THEN KeyAt(it) = ref ELSE ref = NULL
=============================================================================
