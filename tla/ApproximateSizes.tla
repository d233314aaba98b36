--------------------------- MODULE ApproximateSizes ---------------------------
(* DBImpl::GetApproximateSizes: how many bytes of the tables lie in each of some *)
(* key ranges, computed without the mutex from a version that is held, while      *)
(* compactions install new versions and remove the files no version lists.        *)
(*                                                                                *)
(* A file is [number, keys], its user keys ascending, with a block for each and   *)
(* one more for the rest of the table. The internal key of a user key with the    *)
(* highest sequence number sorts before every entry of that user key.             *)
EXTENDS Integers, Sequences, SequencesExt, FiniteSets, FiniteSetsExt

CONSTANTS
    Versions,      \* a sequence of versions: the first is current, then the next
    Callers,       \* threads that ask for sizes
    Ranges,        \* sequences of [start, limit] that are asked for
    MaxFaults,     \* bound: openings of a table that fail
    NULL

VARIABLES
    current,       \* index of the current version
    disk,          \* the numbers of the table files
    call,          \* of each caller: [ranges, v, start, sizes], or NULL
    faults

vars == <<current, disk, call, faults>>

-----------------------------------------------------------------------------
Smallest(f) == f.keys[1]
Largest(f) == f.keys[Len(f.keys)]
FileSize(f) == Len(f.keys) + 1
NumbersOf(v) == {f.number : f \in UNION {ToSet(Versions[v][l]) : l \in DOMAIN Versions[v]}}

(* Table::ApproximateOffsetOf of a key inside the table: where its block begins.  *)
(* The entry of a block in the index is taken to be its key.                       *)
TableOffset(f, key) == Cardinality({i \in DOMAIN f.keys : f.keys[i] < key})

OffsetInFile(f, key, unopened) ==
    CASE Largest(f) < key         -> FileSize(f)
      [] Smallest(f) >= key       -> 0
      [] f.number \in unopened    -> 0
      [] OTHER                    -> TableOffset(f, key)

(* The files that are looked at: above level 0 none behind the first that begins  *)
(* at or behind the key.                                                           *)
LookedAt(files, level, key) ==
    LET behind == SelectInSeq(files, LAMBDA f : Smallest(f) >= key)
    IN  IF level = 0 \/ behind = 0 THEN files ELSE SubSeq(files, 1, behind)

SumOf(files, key, unopened) ==
    MapThenSumSet(LAMBDA i : OffsetInFile(files[i], key, unopened), DOMAIN files)

ApproximateOffsetOf(v, key, unopened) ==
    MapThenSumSet(LAMBDA l : SumOf(LookedAt(Versions[v][l], l - 1, key), key, unopened),
                  DOMAIN Versions[v])

SizeOf(start, limit) == IF limit >= start THEN limit - start ELSE 0

-----------------------------------------------------------------------------
Init ==
    /\ current = 1 /\ disk = NumbersOf(1)
    /\ call = [c \in Callers |-> NULL] /\ faults = 0

(* The version is referenced under the mutex.                                      *)
Begin(c, ranges) ==
    /\ call[c] = NULL
    /\ call' = [call EXCEPT ![c] = [ranges |-> ranges, v |-> current, start |-> NULL,
                                    sizes |-> <<>>]]
    /\ UNCHANGED <<current, disk, faults>>

InRange(c) == call[c] # NULL /\ Len(call[c].sizes) < Len(call[c].ranges)
Asked(c) == call[c].ranges[Len(call[c].sizes) + 1]

(* Any opening of a table may fail, and that of a file that is gone does.         *)
Faulty(c) == {{}} \cup {{n} : n \in IF faults < MaxFaults THEN NumbersOf(call[c].v) ELSE {}}

Offset(c, key, bad) ==
    ApproximateOffsetOf(call[c].v, key, bad \cup (NumbersOf(call[c].v) \ disk))

StartOffset(c) ==
    /\ InRange(c) /\ call[c].start = NULL
    /\ \E bad \in Faulty(c) :
          /\ call' = [call EXCEPT ![c].start = Offset(c, Asked(c).start, bad)]
          /\ faults' = faults + Cardinality(bad)
    /\ UNCHANGED <<current, disk>>

LimitOffset(c) ==
    /\ InRange(c) /\ call[c].start # NULL
    /\ \E bad \in Faulty(c) :
          /\ call' = [call EXCEPT ![c].start = NULL,
                                  ![c].sizes = Append(@, SizeOf(call[c].start,
                                                                Offset(c, Asked(c).limit, bad)))]
          /\ faults' = faults + Cardinality(bad)
    /\ UNCHANGED <<current, disk>>

(* Version::Unref under the mutex. The files stay until the next deletion.        *)
End(c) ==
    /\ call[c] # NULL /\ ~InRange(c)
    /\ call' = [call EXCEPT ![c] = NULL]
    /\ UNCHANGED <<current, disk, faults>>

(* AddLiveFiles walks the versions that are still referenced.                      *)
Live(v) == NumbersOf(v) \cup UNION {NumbersOf(call[c].v) : c \in {x \in Callers : call[x] # NULL}}

(* A compaction installs the next version, then DeleteObsoleteFiles.               *)
Compact ==
    /\ current < Len(Versions)
    /\ current' = current + 1
    /\ disk' = (disk \cup NumbersOf(current + 1)) \cap Live(current + 1)
    /\ UNCHANGED <<call, faults>>

Next ==
    \/ \E c \in Callers :
          \/ \E ranges \in Ranges : Begin(c, ranges)
          \/ StartOffset(c) \/ LimitOffset(c) \/ End(c)
    \/ Compact

Spec == Init /\ [][Next]_vars

-----------------------------------------------------------------------------
(* Every byte of the version that lies before a key, file by file.                 *)
BytesBefore(v, key) ==
    MapThenSumSet(LAMBDA l : SumOf(Versions[v][l], key, {}), DOMAIN Versions[v])

(* The one type invariant of the module: a size is never negative (in the code it  *)
(* would wrap to almost 2^64), also when a table could be opened for the start of  *)
(* a range and not for its limit, or when the range is given backwards.            *)
TypeOK ==
    /\ current \in DOMAIN Versions /\ faults \in 0 .. MaxFaults
    /\ \A c \in Callers : call[c] # NULL =>
          \A i \in DOMAIN call[c].sizes : call[c].sizes[i] \in Nat

(* While tables can be opened, all sizes of a call are those of the version that   *)
(* was current when it began: no file of it was deleted under the call, and files  *)
(* of level 0, which overlap and are not sorted by key, are all counted.           *)
SizesOfOneVersion ==
    \A c \in Callers : call[c] # NULL /\ faults = 0 =>
        \A i \in DOMAIN call[c].sizes :
            call[c].sizes[i] = LET r == call[c].ranges[i]
                                   n == BytesBefore(call[c].v, r.limit) - BytesBefore(call[c].v, r.start)
                               IN  IF n >= 0 THEN n ELSE 0
=============================================================================
