------------------------------ MODULE Repairer ------------------------------
(* leveldb's db/repair.cc: RepairDB makes a database of the log and table files *)
(* it finds, without a manifest.  It may be killed between any two calls and    *)
(* run again; building a table from a log may fail.                             *)
(*                                                                              *)
(* An entry is [key, seq, good]; ~good is a commit of a log whose checksum does *)
(* not match.  Of a table with a bad block some entries cannot be read.         *)
EXTENDS Integers, Sequences, SequencesExt, FiniteSets, FiniteSetsExt

CONSTANTS
    Keys,
    MaxSeq,        \* bound: entries
    Damage,        \* may commits of the logs be damaged?
    MaxKills,      \* bound: kills of a repair
    MaxErrors      \* bound: tables that cannot be built

Numbers == {4, 5, 6, 7}
Logs == {5, 7}
Seqs == 1 .. MaxSeq

VARIABLES
    dir,           \* number -> the log or table file of that number
    lost,          \* the entries of the files in lost/
    manifests,     \* the numbers of the manifests
    current,       \* what CURRENT names
    desc,          \* MANIFEST-000001 as the repair wrote it
    found,         \* the entries that could be read at the beginning, and all
    R,             \* the Repairer: [pc, logs, tables, done, next, number]
    kills, errors,
    broken         \* was a table lost to a kill or an error?

vars == <<dir, lost, manifests, current, desc, found, R, kills, errors, broken>>

NoDesc == [files |-> {}, last |-> 0, next |-> 0]
Begin == [pc |-> "find", logs |-> << >>, tables |-> << >>, done |-> << >>, next |-> 1, number |-> 0]

(* A database that has lost its manifest: logs hold what is newer than the      *)
(* tables, the log with the larger number what is newest; the numbers of the    *)
(* tables say nothing about age, for a compaction numbers its output last.      *)
Init ==
    /\ \E file \in [Seqs -> Numbers], key \in [Seqs -> Keys], badSeq \in Seqs \union {0},
          flip \in SUBSET (IF Damage THEN Seqs ELSE {}) :
         /\ \A s, t \in Seqs : s < t /\ file[s] \in Logs => file[t] \in Logs /\ file[s] <= file[t]
         /\ badSeq > 0 => file[badSeq] \notin Logs
         /\ \A s \in flip : file[s] \in Logs
         /\ LET e(s) == [key |-> key[s], seq |-> s, good |-> s \notin flip]
                bad  == IF badSeq > 0 THEN {badSeq} ELSE {}
            IN  /\ dir = [n \in Numbers |->
                             [kind |-> IF n \in Logs THEN "log" ELSE "table",
                              entries |-> {e(s) : s \in {s \in Seqs : file[s] = n} \ bad},
                              hidden |-> {e(s) : s \in {s \in bad : file[s] = n}},
                              bad |-> badSeq > 0 /\ n = file[badSeq]]]
                /\ found = [read |-> {e(s) : s \in Seqs \ bad}, all |-> {e(s) : s \in Seqs}]
    /\ lost = {} /\ manifests = {3} /\ current = 3 /\ desc = NoDesc
    /\ R = Begin
    /\ kills = MaxKills /\ errors = MaxErrors /\ broken = FALSE

Step(pc, next) == R.pc = pc /\ R' = [R EXCEPT !.pc = next]
Rest == UNCHANGED <<manifests, current, desc, found, kills>>
Add(n, file) == dir' = (n :> file) @@ dir
Archive(n) == /\ lost' = lost \union dir[n].entries \union dir[n].hidden
              /\ dir' = [m \in DOMAIN dir \ {n} |-> dir[m]]
File(entries, bad) == [kind |-> "table", entries |-> entries, hidden |-> {}, bad |-> bad]

(* FindFiles: in the order of the directory.                                    *)
OfKind(kind) == {n \in DOMAIN dir : dir[n].kind = kind}
FindFiles ==
    /\ R.pc = "find"
    /\ \E logs \in SetToSeqs(OfKind("log")) :
           R' = [Begin EXCEPT !.pc = "logs", !.logs = logs, !.tables = SetToSeq(OfKind("table")),
                              !.next = Max(DOMAIN dir \union {0}) + 1]
    /\ Rest /\ UNCHANGED <<dir, lost, errors, broken>>

-----------------------------------------------------------------------------
(* ConvertLogToTable: the table is being built ...                              *)
ConvertLogToTable ==
    /\ R.pc = "logs" /\ R.logs # << >>
    /\ R' = [R EXCEPT !.pc = "build", !.number = R.next, !.next = @ + 1]
    /\ IF dir[Head(R.logs)].entries = {} THEN UNCHANGED dir ELSE Add(R.next, File({}, TRUE))
    /\ Rest /\ UNCHANGED <<lost, errors, broken>>

(* ... and is complete, or deleted if that fails.                               *)
BuildTable ==
    /\ R.pc = "build"
    /\ IF R.number \in DOMAIN dir
       THEN /\ Add(R.number, File(dir[Head(R.logs)].entries, FALSE))
            /\ R' = [R EXCEPT !.pc = "archiveLog", !.tables = Append(@, R.number)]
       ELSE R' = [R EXCEPT !.pc = "archiveLog"] /\ UNCHANGED dir
    /\ Rest /\ UNCHANGED <<lost, errors, broken>>
BuildTableFails ==
    /\ errors > 0 /\ R.number \in DOMAIN dir /\ Step("build", "archiveLog")
    /\ dir' = [m \in DOMAIN dir \ {R.number} |-> dir[m]]
    /\ errors' = errors - 1 /\ broken' = TRUE
    /\ Rest /\ UNCHANGED lost

ArchiveLog ==
    /\ R.pc = "archiveLog"
    /\ Archive(Head(R.logs))
    /\ R' = [R EXCEPT !.pc = "logs", !.logs = Tail(@)]
    /\ Rest /\ UNCHANGED <<errors, broken>>

-----------------------------------------------------------------------------
(* ScanTable; the number and the largest sequence number go to tables_.         *)
MaxSequence(n) == Max({e.seq : e \in dir[n].entries} \union {0})
ScanTable ==
    /\ R.pc = "logs" /\ R.logs = << >> /\ R.tables # << >>
    /\ LET n == Head(R.tables)
       IN  R' = IF dir[n].bad THEN [R EXCEPT !.pc = "repair", !.number = R.next, !.next = @ + 1]
                ELSE [R EXCEPT !.tables = Tail(@), !.done = Append(@, [number |-> n, max |-> MaxSequence(n)])]
    /\ Rest /\ UNCHANGED <<dir, lost, errors, broken>>

(* RepairTable: a copy of what can be read, which replaces the table.           *)
CreateCopy ==
    /\ Step("repair", "archiveTable")
    /\ Add(R.number, File({}, TRUE))
    /\ Rest /\ UNCHANGED <<lost, errors, broken>>
ArchiveTable ==
    /\ R.pc = "archiveTable"
    /\ LET n == Head(R.tables)
       IN  /\ Archive(n)
           /\ R' = [R EXCEPT !.pc = IF dir[n].entries = {} THEN "logs" ELSE "finishCopy",
                             !.tables = IF dir[n].entries = {} THEN Tail(@) ELSE @,
                             !.done = IF dir[n].entries = {} THEN @
                                      ELSE Append(@, [number |-> n, max |-> MaxSequence(n),
                                                      entries |-> dir[n].entries])]
    /\ Rest /\ UNCHANGED <<errors, broken>>
FinishCopy ==
    /\ Step("finishCopy", "renameCopy")
    /\ Add(R.number, File(Last(R.done).entries, FALSE))
    /\ Rest /\ UNCHANGED <<lost, errors, broken>>

FinishCopyFails ==
    /\ errors > 0 /\ R.pc = "finishCopy"
    /\ R' = [R EXCEPT !.pc = "logs", !.tables = Tail(@), !.done = Front(@)]
    /\ dir' = [m \in DOMAIN dir \ {R.number} |-> dir[m]]
    /\ errors' = errors - 1 /\ broken' = TRUE
    /\ Rest /\ UNCHANGED lost

(* A deviation: the copy keeps its number.                                      *)
RenameCopyNever ==
    /\ R.pc = "renameCopy"
    /\ R' = [R EXCEPT !.pc = "logs", !.tables = Tail(@)]
    /\ Rest /\ UNCHANGED <<dir, lost, errors, broken>>

RenameCopy ==
    /\ R.pc = "renameCopy"
    /\ dir' = (Head(R.tables) :> dir[R.number]) @@ [m \in DOMAIN dir \ {R.number} |-> dir[m]]
    /\ R' = [R EXCEPT !.pc = "logs", !.tables = Tail(@)]
    /\ Rest /\ UNCHANGED <<lost, errors, broken>>

-----------------------------------------------------------------------------
(* WriteDescriptor.                                                             *)

Descriptor ==
    [files |-> {t.number : t \in ToSet(R.done)}, next |-> R.next,
     last |-> Max({t.max : t \in ToSet(R.done)} \union {0})]
WriteDescriptor ==
    /\ R.logs = << >> /\ R.tables = << >> /\ Step("logs", "archiveManifests")
    /\ UNCHANGED <<dir, lost, manifests, current, desc, found, kills, errors, broken>>
ArchiveManifest ==
    /\ R.pc = "archiveManifests"
    /\ \E m \in manifests : manifests' = manifests \ {m}
    /\ UNCHANGED <<dir, lost, current, desc, found, R, kills, errors, broken>>
InstallManifest ==
    /\ manifests = {} /\ Step("archiveManifests", "setCurrent")
    /\ manifests' = {1} /\ desc' = Descriptor
    /\ UNCHANGED <<dir, lost, current, found, kills, errors, broken>>
SetCurrentFile ==
    /\ Step("setCurrent", "done")
    /\ current' = 1
    /\ UNCHANGED <<dir, lost, manifests, desc, found, kills, errors, broken>>

(* The process is killed; a copy whose source is archived already is lost to    *)
(* the next repair.                                                             *)
Kill ==
    /\ kills > 0 /\ R.pc \notin {"find", "done"}
    /\ kills' = kills - 1
    /\ broken' = (broken \/ R.pc = "finishCopy")
    /\ R' = Begin
    /\ UNCHANGED <<dir, lost, manifests, current, desc, found, errors>>

Next ==
    \/ FindFiles \/ ConvertLogToTable \/ BuildTable \/ BuildTableFails \/ ArchiveLog
    \/ ScanTable \/ CreateCopy \/ ArchiveTable \/ FinishCopy \/ FinishCopyFails \/ RenameCopy
    \/ WriteDescriptor \/ ArchiveManifest \/ InstallManifest \/ SetCurrentFile
    \/ Kill

Spec == Init /\ [][Next]_vars

-----------------------------------------------------------------------------
InFiles == UNION {dir[n].entries \union dir[n].hidden : n \in DOMAIN dir}
Kept == UNION {dir[n].entries : n \in desc.files \intersect DOMAIN dir}

(* The repair deletes no data: every entry stays in a file of the database or   *)
(* of lost/, whatever fails or is killed.                                       *)
NothingVanishes == found.all \subseteq InFiles \union lost

(* What could be read is in the repaired database, also after a kill anywhere   *)
(* but between the archiving of a bad table and the end of its copy.            *)
ReadableIsKept == R.pc = "done" /\ ~broken => found.read \subseteq Kept

(* The descriptor names complete tables, and new writes and files are newer     *)
(* than all it names.                                                           *)
DescriptorIsSound ==
    R.pc = "done" =>
        /\ current \in manifests
        /\ \A n \in desc.files : n \in DOMAIN dir /\ ~dir[n].bad /\ n < desc.next
        /\ \A e \in Kept : e.seq <= desc.last

(* A lookup in the repaired database meets the newest entry of a key first: the *)
(* tables are all on level 0, which is searched from the largest file number.   *)
Lookup(k) ==
    LET holders == {n \in desc.files : \E e \in dir[n].entries : e.key = k}
    IN  Max({e.seq : e \in {e \in dir[Max(holders)].entries : e.key = k}})
NewestFirst ==
    R.pc = "done" /\ ~broken =>
        \A e \in found.read : e.seq <= Lookup(e.key)

(* A commit whose checksum does not match is skipped.                           *)
DamagedIsSkipped == R.pc = "done" => \A e \in Kept : e.good
=============================================================================
