----------------------------- MODULE MCStorage ------------------------------
(* The way to the disk, one unit in each behaviour: the queue of writers, the   *)
(* log file, the repairer, the files and locks of env_posix.cc, its background  *)
(* thread and its limits; and the C interface over it all.  A unit other than   *)
(* the queue keeps its variables in the slots.                                   *)
EXTENDS WriteQueue, TLC

CONSTANT Units    \* the units of the run

VARIABLES unit, s1, s2, s3, s4, s5, s6, s7, s8, s9, s10

slots == <<s1, s2, s3, s4, s5, s6, s7, s8, s9, s10>>

ThreadSymmetry == Permutations(Thread)

(* Records that fill a block, end at its end, leave a trailer or span three.     *)
Log == INSTANCE LogFile WITH
    BlockSize <- 8, Lens <- {0, 1, 2, 5, 12}, MaxRecords <- 3, MaxReopens <- 1, MaxFaults <- 0,
    MaxCorrupt <- 0, Cuts <- FALSE, Offsets <- {0},
    file <- s1, synced <- s2, blockOffset <- s3, records <- s4, reader <- s5, phase <- s6, used <- s7

DamagedLog == INSTANCE LogFile WITH
    BlockSize <- 8, Lens <- {1, 12}, MaxRecords <- 3, MaxReopens <- 0, MaxFaults <- 0,
    MaxCorrupt <- 1, Cuts <- FALSE, Offsets <- {0},
    file <- s1, synced <- s2, blockOffset <- s3, records <- s4, reader <- s5, phase <- s6, used <- s7

OffsetLog == INSTANCE LogFile WITH
    BlockSize <- 8, Lens <- {1, 5, 12}, MaxRecords <- 3, MaxReopens <- 0, MaxFaults <- 0,
    MaxCorrupt <- 0, Cuts <- FALSE, Offsets <- 0 .. 24,
    file <- s1, synced <- s2, blockOffset <- s3, records <- s4, reader <- s5, phase <- s6, used <- s7

Repair == INSTANCE Repairer WITH
    Keys <- {"a", "b"}, MaxSeq <- 3, Damage <- FALSE, MaxKills <- 1, MaxErrors <- 1,
    dir <- s1, lost <- s2, manifests <- s3, current <- s4, desc <- s5, found <- s6, R <- s7,
    kills <- s8, errors <- s9, broken <- s10

Disk == INSTANCE PosixFiles WITH
    Journaled <- TRUE, MaxVersions <- 3, MaxCrashes <- 2, MaxErrors <- 1,
    names <- s1, dirs <- s2, ops <- s3, ino <- s4, w <- s5, acked <- s6, floor <- s7,
    promise <- s8, budget <- s9

(* Three openers, each in a process of its own; and three threads of one process, *)
(* which may destroy the database as well.                                         *)
Locks == INSTANCE PosixLocks WITH
    Openers <- {"a", "b", "c"}, Processes <- {"p", "q", "s"},
    ProcessOf <- [x \in {"a", "b", "c"} |-> CASE x = "a" -> "p" [] x = "b" -> "q" [] x = "c" -> "s"],
    MayDestroy <- FALSE, MaxTries <- 2, MaxFiles <- 1,
    lockFile <- s1, files <- s2, locked_files <- s3, owner <- s4, o <- s5

OneProcess == INSTANCE PosixLocks WITH
    Openers <- {"a", "b", "c"}, Processes <- {"p"}, ProcessOf <- [x \in {"a", "b", "c"} |-> "p"],
    MayDestroy <- TRUE, MaxTries <- 1, MaxFiles <- 2,
    lockFile <- s1, files <- s2, locked_files <- s3, owner <- s4, o <- s5

(* Two openers in one process and a third in another.                            *)
TwoProcesses == INSTANCE PosixLocks WITH
    Openers <- {"a", "b", "c"}, Processes <- {"p", "q"},
    ProcessOf <- [x \in {"a", "b", "c"} |-> IF x = "c" THEN "q" ELSE "p"],
    MayDestroy <- TRUE, MaxTries <- 2, MaxFiles <- 2,
    lockFile <- s1, files <- s2, locked_files <- s3, owner <- s4, o <- s5

Background == INSTANCE BackgroundThread WITH
    Databases <- {"d1", "d2", "d3"}, None <- "none",
    started_bgthread <- s1, queue <- s2, thread <- s3, current <- s4, user <- s5,
    scheduled <- s6, bg_error <- s7

Limits == INSTANCE FileLimits WITH
    Threads <- {"t1", "t2", "t3"}, MaxMmaps <- 2, MaxOpenFiles <- 1, MaxHandles <- 6,
    mmap_limit <- s1, fd_limit <- s2, fds <- s3, t <- s4, handles <- s5

(* A caller in C that reads and iterates, while calls fail underneath; one that   *)
(* makes the objects the options refer to; one that writes batches and holds a    *)
(* snapshot.                                                                      *)
CReader == INSTANCE CInterface WITH
    Kinds <- {"options", "db", "readoptions", "writeoptions", "iterator"},
    Keys <- {1, 2}, MaxValue <- 1, MaxBatch <- 0, MaxMade <- 0, MaxFaults <- 1,
    objs <- s1, reps <- s2, opts <- s3, data <- s4, heap <- s5, ghost <- s6

CObjects == INSTANCE CInterface WITH
    Kinds <- {"options", "db", "comparator", "filter", "bloom", "cache", "env"},
    Keys <- {1}, MaxValue <- 0, MaxBatch <- 0, MaxMade <- 1, MaxFaults <- 0,
    objs <- s1, reps <- s2, opts <- s3, data <- s4, heap <- s5, ghost <- s6

CBatches == INSTANCE CInterface WITH
    Kinds <- {"options", "db", "readoptions", "writeoptions", "batch", "snapshot"},
    Keys <- {1}, MaxValue <- 1, MaxBatch <- 1, MaxMade <- 0, MaxFaults <- 1,
    objs <- s1, reps <- s2, opts <- s3, data <- s4, heap <- s5, ghost <- s6

-----------------------------------------------------------------------------
(* The slots from the k-th on hold nothing.                                       *)
FreeFrom(k) ==
    /\ IF k <= 1 THEN s1 = 0 /\ s2 = 0 /\ s3 = 0 /\ s4 = 0 /\ s5 = 0 ELSE TRUE
    /\ IF k <= 6 THEN s6 = 0 /\ s7 = 0 ELSE TRUE
    /\ IF k <= 8 THEN s8 = 0 /\ s9 = 0 ELSE TRUE
    /\ IF k <= 10 THEN s10 = 0 ELSE TRUE

StorageInit ==
    /\ unit \in Units
    /\ Init
    /\ \/ unit = "writers"     /\ FreeFrom(1)
       \/ unit = "log"         /\ Log!Init        /\ FreeFrom(8)
       \/ unit = "damaged log" /\ DamagedLog!Init /\ FreeFrom(8)
       \/ unit = "offset log"  /\ OffsetLog!Init  /\ FreeFrom(8)
       \/ unit = "repair"      /\ Repair!Init
       \/ unit = "files"       /\ Disk!Init       /\ FreeFrom(10)
       \/ unit = "locks"       /\ Locks!Init      /\ FreeFrom(6)
       \/ unit = "one process" /\ OneProcess!Init /\ FreeFrom(6)
       \/ unit = "two processes" /\ TwoProcesses!Init /\ FreeFrom(6)
       \/ unit = "thread"      /\ Background!Init /\ FreeFrom(8)
       \/ unit = "limits"      /\ Limits!Init     /\ FreeFrom(6)
       \/ unit = "c reader"    /\ CReader!Init    /\ s7 = 0 /\ FreeFrom(8)
       \/ unit = "c objects"   /\ CObjects!Init   /\ s7 = 0 /\ FreeFrom(8)
       \/ unit = "c batches"   /\ CBatches!Init   /\ s7 = 0 /\ FreeFrom(8)

StorageNext ==
    /\ UNCHANGED unit
    /\ \/ unit = "writers" /\ Next /\ UNCHANGED slots
       \/ /\ UNCHANGED vars
          /\ \/ unit = "log"         /\ Log!Next        /\ UNCHANGED <<s8, s9, s10>>
             \/ unit = "damaged log" /\ DamagedLog!Next /\ UNCHANGED <<s8, s9, s10>>
             \/ unit = "offset log"  /\ OffsetLog!Next  /\ UNCHANGED <<s8, s9, s10>>
             \/ unit = "repair"      /\ Repair!Next
             \/ unit = "files"       /\ Disk!Next       /\ UNCHANGED <<s10>>
             \/ unit = "locks"       /\ Locks!Next      /\ UNCHANGED <<s6, s7, s8, s9, s10>>
             \/ unit = "one process" /\ OneProcess!Next /\ UNCHANGED <<s6, s7, s8, s9, s10>>
             \/ unit = "two processes" /\ TwoProcesses!Next /\ UNCHANGED <<s6, s7, s8, s9, s10>>
             \/ unit = "thread"      /\ Background!Next /\ UNCHANGED <<s8, s9, s10>>
             \/ unit = "limits"      /\ Limits!Next     /\ UNCHANGED <<s6, s7, s8, s9, s10>>
             \/ unit = "c reader"    /\ CReader!Next    /\ UNCHANGED <<s7, s8, s9, s10>>
             \/ unit = "c objects"   /\ CObjects!Next   /\ UNCHANGED <<s7, s8, s9, s10>>
             \/ unit = "c batches"   /\ CBatches!Next   /\ UNCHANGED <<s7, s8, s9, s10>>

StorageSpec == StorageInit /\ [][StorageNext]_<<unit, slots, vars>>

-----------------------------------------------------------------------------
(* Whatever was cut off or damaged, the log reader returns only records that    *)
(* were written, whole, each at most once and in their order. Without damage it *)
(* returns every record that was completed and reports nothing (a torn tail is  *)
(* no corruption); damage stays in its block, and a record lost to it is        *)
(* reported unless it is in the last block; a reader that starts at an offset   *)
(* returns exactly the records from there on.                                   *)
LogIsReadBack ==
    /\ unit = "log" => Log!TypeOK /\ Log!OnlyWrittenRecords /\ Log!CompletedRecordsRead
    /\ unit = "damaged log" =>
           DamagedLog!OnlyWrittenRecords /\ DamagedLog!DamageStaysInBlock /\ DamagedLog!LossIsReported
    /\ unit = "offset log" => OffsetLog!StartsAtInitialOffset

(* The repair deletes no data, whatever fails or is killed; what could be read  *)
(* is in the repaired database, also after a kill anywhere but between the      *)
(* archiving of a bad table and the end of its copy; and the descriptor names   *)
(* complete tables, with new writes and files newer than all it names.          *)
RepairKeepsData ==
    unit = "repair" => Repair!NothingVanishes /\ Repair!ReadableIsKept /\ Repair!DescriptorIsSound

(* After a power failure at any step the database opens again: CURRENT names a  *)
(* manifest, and that names tables, which are all on the disk. The recovery     *)
(* finds the last version that LogAndApply reported, but for the one that       *)
(* switched to a new manifest: the rename of CURRENT is synced with the next    *)
(* record only, and nothing that the older version needs is deleted on disk     *)
(* before it.                                                                   *)
SurvivesPowerFailure == unit = "files" => Disk!OpensAgain /\ Disk!RecoversItsVersions

(* No failed attempt, release, deletion or exit leaves a lock that nobody uses. *)
(* The database has one user at a time among the threads of one process, which  *)
(* the lock table keeps apart, and among processes that open it once each and   *)
(* leave the LOCK file alone.  A process with several openers that meets        *)
(* another process has no such promise (OneProcessAtATime): there only those    *)
(* who still have the record lock of a file are one.                            *)
LocksExclude ==
    /\ unit = "locks" => Locks!OneUser /\ Locks!UnusedIsFree
    /\ unit = "one process" => OneProcess!OneUser /\ OneProcess!UnusedIsFree
    /\ unit = "two processes" => TwoProcesses!LockedUsersAreOne /\ TwoProcesses!UnusedIsFree

(* A user loses the record lock of its LOCK file in one way only: another       *)
(* opener of the same process closes the file outside the lock table, after a   *)
(* refused attempt (LockFile) or behind its own entry (UnlockFile).  No step of *)
(* another process takes it, nor one that is still in the table.                *)
OnlyStrayClosesUnlock ==
    [][/\ unit = "locks" => ~\E x \in {"a", "b", "c"} : Locks!LosesTheLock(x)
       /\ unit = "one process" => OneProcess!LossIsStray
       /\ unit = "two processes" => TwoProcesses!LossIsStray]_slots

(* The comment on LockFile in include/leveldb/env.h: "Used to prevent           *)
(* concurrent access to the same db by multiple processes".                     *)
OneProcessAtATime == unit = "two processes" => TwoProcesses!OneProcessAtATime

(* What is handed out is accounted for.  Of env_posix.cc: a database is deleted *)
(* only when nothing of it is in the queue or runs, it is never scheduled       *)
(* twice, and what is scheduled is in the queue or runs; nothing taken from a   *)
(* limit is lost, whichever step failed, and the descriptors for reading stay   *)
(* within their limit, but for one per thread that is opening or reading a      *)
(* file.  Of the C interface: every string allocated is in the caller's hands   *)
(* once, *errptr is the last failure that was not freed, NULL without an error  *)
(* means that the key is not there, and C++ objects and the caller's own states *)
(* end with the structs around them.                                            *)
HandedOutIsAccounted ==
    /\ unit = "thread" => Background!TypeOK /\ Background!NoWorkAfterClose /\ Background!ScheduledIsQueued
    /\ unit = "limits" => Limits!TypeOK /\ Limits!NothingLeaks /\ Limits!FdsAreBounded
    /\ unit = "c reader" =>
           CReader!TypeOK /\ CReader!StringsAreOwned /\ CReader!ErrorIsTheLast /\ CReader!NullMeansMissing
    /\ unit = "c objects" => CObjects!TypeOK /\ CObjects!ObjectsMatch
    /\ unit = "c batches" => CBatches!TypeOK /\ CBatches!StringsAreOwned /\ CBatches!NullMeansMissing
=============================================================================
