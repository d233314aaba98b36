------------------------------ MODULE MCDBImpl ------------------------------
(* A database of two keys and three levels under different loads, one scenario  *)
(* in each behaviour.  A batch is one put or one deletion, or puts every key.    *)
EXTENDS DBImpl

CONSTANT Scenarios    \* the scenarios of the run

VARIABLE scenario

Single(del) == {<<[k |-> k, del |-> del]>> : k \in Key}
PutAll == SetToSortSeq({[k |-> k, del |-> FALSE] : k \in Key}, LAMBDA a, b: a.k < b.k)

MCPuts        == Single(FALSE)
MCPutsDeletes == Single(FALSE) \cup {<<[k |-> 1, del |-> TRUE]>>}
MCCrash       == Single(FALSE) \cup {PutAll}
MCOthers      == {<<[k |-> k, del |-> FALSE]>> : k \in 1 .. 3}
MCWide        == {<<[k |-> 1, del |-> FALSE]>>, PutAll}
MCWhole       == {<<NULL, NULL>>}
MCRanges      == {<<NULL, NULL>>, <<1, 1>>}

(* Every flush is followed by compactions; puts and deletions, with a snapshot   *)
(* or with a reader that has pinned a version.                                   *)
Snapshots == INSTANCE DBImpl WITH
    MaxMemLevel <- 2, L0Trigger <- 1, MaxSeq <- 3, Batches <- MCPutsDeletes, MaxSnapshots <- 1
Pinned == INSTANCE DBImpl WITH
    MaxMemLevel <- 2, L0Trigger <- 1, MaxSeq <- 3, Batches <- MCPutsDeletes, MaxReaders <- 1

(* Crashes of the machine between any two steps, with and without sync; crashes   *)
(* of the process, with logs that are reused; file operations that fail.          *)
MachineFails == INSTANCE DBImpl WITH
    MaxMemLevel <- 2, L0Trigger <- 1, MaxSeq <- 3, WriteBufferSize <- 1, Batches <- MCCrash, Syncs <- BOOLEAN,
    MaxCrashes <- 2, MachineCrash <- TRUE
Reuse == INSTANCE DBImpl WITH
    MaxMemLevel <- 2, L0Trigger <- 1, MaxSeq <- 3, WriteBufferSize <- 1, Batches <- MCPuts,
    MaxCrashes <- 2, ReuseLogs <- TRUE
Faults == INSTANCE DBImpl WITH
    MaxMemLevel <- 2, L0Trigger <- 1, MaxSeq <- 3, Batches <- MCPuts, MaxCrashes <- 1, MaxFaults <- 1

(* A call of CompactRange while writers go on.                                    *)
ByHand == INSTANCE DBImpl WITH
    MaxMemLevel <- 0, LevelSize <- 4, MaxSeq <- 3, Batches <- MCWide, MaxManual <- 1, Ranges <- MCRanges

(* The same while file operations fail.                                           *)
ManualFails == INSTANCE DBImpl WITH
    MaxMemLevel <- 0, LevelSize <- 4, MaxSeq <- 2, Batches <- MCWide, MaxManual <- 1, Ranges <- MCRanges,
    MaxFaults <- 2, MaxCrashes <- 1

(* A call of CompactRange over the files of two keys, while a key between them is *)
(* written: the keys are written in this order.                                   *)
Load == <<1, 1, 3, 3, 2>>
Gap == INSTANCE DBImpl WITH
    MaxMemLevel <- 1, L0Trigger <- 4, LevelSize <- 5, Key <- 1 .. 3, Batches <- MCOthers,
    MaxSeq <- 5, MaxManual <- 1
GapNext == Gap!Next /\ \A e \in mem' \ mem : e.k = Load[e.s]

(* A snapshot between two versions of a key, and outputs with room for one entry. *)
Split == INSTANCE DBImpl WITH
    MaxMemLevel <- 0, MaxFileSize <- 1, MaxSeq <- 3, Batches <- MCPuts, MaxSnapshots <- 1

DBInit == Init /\ scenario \in Scenarios

DBNext ==
    /\ UNCHANGED scenario
    /\ \/ scenario = "levels"    /\ Next
       \/ scenario = "snapshots" /\ Snapshots!Next
       \/ scenario = "pinned"    /\ Pinned!Next
       \/ scenario = "machine"   /\ MachineFails!Next
       \/ scenario = "reuse"     /\ Reuse!Next
       \/ scenario = "faults"    /\ Faults!Next
       \/ scenario = "manual"    /\ ByHand!Next
       \/ scenario = "manual fails" /\ ManualFails!Next
       \/ scenario = "gap"       /\ GapNext
       \/ scenario = "split"     /\ Split!Next

DBSpec == DBInit /\ [][DBNext]_<<scenario, vars>>

-----------------------------------------------------------------------------
(* Flushes, compactions, crashes and recoveries change no answer: HistoryIsKept *)
(* in every scenario but the two that are there to break what a search relies   *)
(* on, a key split between files and a file put in the way of a manual          *)
(* compaction.                                                                   *)
AnswersStay == scenario \notin {"split", "gap"} => HistoryIsKept
=============================================================================
