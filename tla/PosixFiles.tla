----------------------------- MODULE PosixFiles -----------------------------
(* What leveldb's files survive.  A new version of the database goes to disk   *)
(* with calls of the PosixEnv (util/env_posix.cc, util/env.cc): a table is      *)
(* built, a record added to the manifest, and for a new manifest CURRENT is     *)
(* replaced (db/builder.cc, db/version_set.cc, db/filename.cc, db/db_impl.cc).  *)
(* Every call is a step and may fail; the process may be killed and the machine *)
(* may lose power between any two of them.                                      *)
(*                                                                              *)
(* The file system: changes of the directory reach the disk in order, at the    *)
(* latest when the directory is synced; a file's bytes reach it at the latest   *)
(* with fdatasync of the file.  Before that they may reach it at any time, or,  *)
(* with Journaled, not before the changes of the directory that precede them.   *)
EXTENDS Integers, Sequences, SequencesExt, FiniteSets, FiniteSetsExt

CONSTANTS
    Journaled,     \* does the growth of a file keep the order of the directory?
    MaxVersions,   \* bound: the number of the last version
    MaxCrashes,    \* bound: kills and power failures
    MaxErrors      \* bound: calls that fail

VARIABLES
    names,         \* the directory: name -> inode
    dirs,          \* the directories a power failure may leave, oldest first
    ops,           \* changes of the directory so far
    ino,           \* inode -> [data, at, flushed, disk]: the bytes as a sequence
                   \* of records, the ops when each was written, how many left
                   \* the process and how many are on disk
    w,             \* the process
    acked,         \* the last version whose LogAndApply returned OK
    floor,         \* the last one that does not rest on a rename not yet synced
    promise,       \* what the recovery under way has to find
    budget         \* [crashes, errors] that are left

vars == <<names, dirs, ops, ino, w, acked, floor, promise, budget>>

Current == <<"current", 0>>
Table(n) == <<"table", n>>
Manifest(n) == <<"manifest", n>>
Temp(n) == <<"temp", n>>

Start == [pc |-> "recover", live |-> {}, v |-> 0, next |-> 2, manifest |-> 1, desc |-> 0,
          newLive |-> {}, table |-> 0, switch |-> FALSE]

Init ==
    /\ names = << >> /\ dirs = << << >> >> /\ ops = 0 /\ ino = << >>
    /\ w = Start
    /\ acked = -1 /\ floor = -1 /\ promise = -1
    /\ budget = [crashes |-> MaxCrashes, errors |-> MaxErrors]

-----------------------------------------------------------------------------
(* The calls of the environment.                                                *)

SetNames(new) == names' = new /\ dirs' = Append(dirs, new) /\ ops' = ops + 1
Without(S) == [n \in DOMAIN names \ S |-> names[n]]

(* NewWritableFile: fopen "w" creates the file or empties the one there is.     *)
EmptyFile == [data |-> << >>, at |-> << >>, flushed |-> 0, disk |-> 0]
Inode(name) == IF name \in DOMAIN names THEN names[name] ELSE Len(ino) + 1
NewWritableFile(name) ==
    IF name \in DOMAIN names
    THEN ino' = [ino EXCEPT ![names[name]] = EmptyFile] /\ UNCHANGED <<names, dirs, ops>>
    ELSE ino' = Append(ino, EmptyFile) /\ SetNames(names @@ (name :> Len(ino) + 1))

Appended(file, record) == [file EXCEPT !.data = Append(@, record), !.at = Append(@, ops)]
Flushed(file) == [file EXCEPT !.flushed = Len(file.data)]

(* PosixWritableFile::Sync, its last part: fflush and fdatasync.                *)
Synced(file) == [file EXCEPT !.flushed = Len(file.data), !.disk = Len(file.data)]

(* A deviation: the directory is not synced.                                    *)
SyncDirNever == UNCHANGED dirs

(* SyncDirIfManifest, for a manifest.                                           *)
SyncDirIfManifest == dirs' = <<names>>

-----------------------------------------------------------------------------
(* The process.  Step(pc, next) is one call of it.                              *)

Step(pc, next) == w.pc = pc /\ w' = [w EXCEPT !.pc = next]
Others == UNCHANGED <<acked, floor, promise, budget>>

(* NewDB: the first manifest is closed, and not synced.                         *)
NewDBManifest ==
    /\ Step("newDB", "newDBRecord")
    /\ NewWritableFile(Manifest(1)) /\ Others
NewDBRecord ==
    /\ Step("newDBRecord", "tmpCreate")
    /\ ino' = [ino EXCEPT ![names[Manifest(1)]] =
                   Flushed(Appended(@, [v |-> 0, live |-> {}, next |-> 2]))]
    /\ UNCHANGED <<names, dirs, ops>> /\ Others

(* BuildTable: an edit that adds a table, and may drop an older one.            *)
BeginEdit(drop) ==
    /\ w.pc = "idle" /\ w.v < MaxVersions
    /\ w' = [w EXCEPT !.pc = "tableCreate", !.table = w.next, !.next = @ + 1,
                      !.newLive = (w.live \ drop) \union {w.next}]
    /\ UNCHANGED <<names, dirs, ops, ino>> /\ Others
TableCreate ==
    /\ Step("tableCreate", "tableAppend")
    /\ NewWritableFile(Table(w.table)) /\ Others
TableAppend ==
    /\ Step("tableAppend", "tableSync")
    /\ ino' = [ino EXCEPT ![names[Table(w.table)]] = Appended(@, "blocks")]
    /\ UNCHANGED <<names, dirs, ops>> /\ Others
TableSync ==
    /\ Step("tableSync", "manifest")
    /\ ino' = [ino EXCEPT ![names[Table(w.table)]] = Synced(@)]
    /\ UNCHANGED <<names, dirs, ops>> /\ Others

(* LogAndApply: a new manifest begins with the version there is ...             *)
ManifestCreate ==
    /\ w.pc = "manifest" /\ w.desc = 0
    /\ NewWritableFile(Manifest(w.manifest))
    /\ w' = [w EXCEPT !.pc = "snapshot", !.desc = Inode(Manifest(w.manifest)), !.switch = TRUE]
    /\ Others
WriteSnapshot ==
    /\ Step("snapshot", "record")
    /\ ino' = [ino EXCEPT ![w.desc] = Flushed(Appended(@, [v |-> w.v, live |-> w.live, next |-> w.next]))]
    /\ UNCHANGED <<names, dirs, ops>> /\ Others

(* ... and gets the record of the edit, which is synced behind the directory.   *)
ManifestOpen ==
    /\ w.desc # 0 /\ Step("manifest", "record")
    /\ UNCHANGED <<names, dirs, ops, ino>> /\ Others
AddRecord ==
    /\ Step("record", "syncDir")
    /\ ino' = [ino EXCEPT ![w.desc] =
                   Flushed(Appended(@, [v |-> w.v + 1, live |-> w.newLive, next |-> w.next]))]
    /\ UNCHANGED <<names, dirs, ops>> /\ Others
SyncDir ==
    /\ Step("syncDir", "syncData")
    /\ SyncDirIfManifest
    /\ UNCHANGED <<names, ops, ino>> /\ Others
SyncData ==
    /\ Step("syncData", IF w.switch THEN "tmpCreate" ELSE "install")
    /\ ino' = [ino EXCEPT ![w.desc] = Synced(@)]
    /\ UNCHANGED <<names, dirs, ops>> /\ Others

(* SetCurrentFile: WriteStringToFileSync of a temporary file, and a rename.     *)
TempCreate ==
    /\ Step("tmpCreate", "tmpAppend")
    /\ NewWritableFile(Temp(w.manifest)) /\ Others
TempAppend ==
    /\ Step("tmpAppend", "tmpSync")
    /\ ino' = [ino EXCEPT ![names[Temp(w.manifest)]] = Appended(@, w.manifest)]
    /\ UNCHANGED <<names, dirs, ops>> /\ Others

TempSync ==
    /\ Step("tmpSync", "rename")
    /\ ino' = [ino EXCEPT ![names[Temp(w.manifest)]] = Synced(@)]
    /\ UNCHANGED <<names, dirs, ops>> /\ Others
RenameFile ==
    /\ Step("rename", IF w.desc = 0 THEN "recover" ELSE "install")
    /\ SetNames((Current :> names[Temp(w.manifest)]) @@ Without({Temp(w.manifest)}))
    /\ UNCHANGED ino /\ Others

(* The version is installed.                                                    *)
Install ==
    /\ w.pc = "install"
    /\ w' = [w EXCEPT !.pc = "gc", !.live = w.newLive, !.v = @ + 1, !.switch = FALSE, !.table = 0]
    /\ acked' = w.v + 1 /\ floor' = IF w.switch THEN acked ELSE w.v + 1
    /\ UNCHANGED <<names, dirs, ops, ino, promise, budget>>

(* DeleteObsoleteFiles, one file at a time in the order of the directory.       *)
Obsolete == {n \in DOMAIN names :
                \/ n[1] = "manifest" /\ n[2] < w.manifest
                \/ n[1] = "table" /\ n[2] \notin w.live
                \/ n[1] = "temp"}
DeleteObsoleteFile(n) ==
    /\ w.pc = "gc" /\ n \in Obsolete
    /\ SetNames(Without({n}))
    /\ UNCHANGED <<ino, w>> /\ Others
DeletedObsoleteFiles ==
    /\ Obsolete = {} /\ Step("gc", "idle")
    /\ UNCHANGED <<names, dirs, ops, ino>> /\ Others

(* A call fails.  What was begun is deleted and the database takes no more      *)
(* changes: nothing is deleted that a record half written may name.             *)
Begun ==
    IF w.pc \in {"tableAppend", "tableSync"} THEN {Table(w.table)}
    ELSE IF w.pc \in {"tmpAppend", "tmpSync", "rename"}
         THEN {Temp(w.manifest)} \union (IF w.desc # 0 THEN {Manifest(w.manifest)} ELSE {})
    ELSE IF w.switch THEN {Manifest(w.manifest)} ELSE {}

Fail ==
    /\ budget.errors > 0
    /\ w.pc \notin {"idle", "recover", "gc", "install", "stopped", "corrupt"}
    /\ budget' = [budget EXCEPT !.errors = @ - 1]
    /\ SetNames(Without(Begun))
    /\ w' = [w EXCEPT !.pc = "stopped"]
    /\ UNCHANGED <<ino, acked, floor, promise>>

-----------------------------------------------------------------------------
(* Power fails: the disk has one of the directories, and of every file what was *)
(* synced and any part of the rest.                                             *)
Cut(i, k) == [data |-> SubSeq(ino[i].data, 1, k), at |-> [j \in 1 .. k |-> 0], flushed |-> k, disk |-> k]
Survives(i, k, op) ==
    /\ k \in ino[i].disk .. Len(ino[i].data)
    /\ Journaled => \A j \in ino[i].disk + 1 .. k : ino[i].at[j] <= op
Unsynced(d) == {i \in Range(d) : ino[i].disk < Len(ino[i].data)}
PowerFailure ==
    /\ budget.crashes > 0 /\ w.pc # "corrupt"
    /\ \E n \in DOMAIN dirs, d \in ToSet(dirs) :
         /\ d = dirs[n]
         /\ names' = d /\ dirs' = <<d>> /\ ops' = 0
         /\ \E cut \in [Unsynced(d) -> 0 .. 1 + MaxVersions] :
              /\ \A i \in DOMAIN cut : Survives(i, cut[i], ops - Len(dirs) + n)
              /\ ino' = [i \in DOMAIN ino |->
                           IF i \in DOMAIN cut THEN Cut(i, cut[i])
                           ELSE IF i \in Range(d) THEN Cut(i, ino[i].disk) ELSE EmptyFile]
    /\ w' = Start /\ promise' = floor /\ acked' = floor
    /\ budget' = [budget EXCEPT !.crashes = @ - 1]
    /\ UNCHANGED floor

(* The process is killed: what it had not handed to the kernel is lost.         *)
Kill ==
    /\ budget.crashes > 0 /\ w.pc \notin {"corrupt", "recover"}
    /\ ino' = [i \in DOMAIN ino |->
                  [ino[i] EXCEPT !.data = SubSeq(@, 1, ino[i].flushed), !.at = SubSeq(@, 1, ino[i].flushed)]]
    /\ w' = Start /\ promise' = acked
    /\ budget' = [budget EXCEPT !.crashes = @ - 1]
    /\ UNCHANGED <<names, dirs, ops, acked, floor>>

(* DB::Open.  CURRENT names the manifest, whose last record has the version;    *)
(* every table of it has to be there.                                           *)
Complete(name) == name \in DOMAIN names /\ ino[names[name]].data # << >>
Readable ==
    /\ Complete(Current)
    /\ \E m \in {Manifest(ino[names[Current]].data[1])} :
           /\ Complete(m)
           /\ \A n \in Last(ino[names[m]].data).live : Complete(Table(n))
CreateDB ==
    /\ w.pc = "recover" /\ Current \notin DOMAIN names
    /\ w' = [w EXCEPT !.pc = "newDB"]
    /\ UNCHANGED <<names, dirs, ops, ino>> /\ Others
Recover ==
    /\ w.pc = "recover" /\ Current \in DOMAIN names /\ Readable
    /\ LET r == Last(ino[names[Manifest(ino[names[Current]].data[1])]].data)
       IN  w' = [Start EXCEPT !.pc = "manifest", !.live = r.live, !.newLive = r.live, !.v = r.v,
                              !.manifest = r.next, !.next = r.next + 1]
    /\ UNCHANGED <<names, dirs, ops, ino>> /\ Others
RecoverFails ==
    /\ w.pc = "recover" /\ Current \in DOMAIN names /\ ~Readable
    /\ w' = [w EXCEPT !.pc = "corrupt"]
    /\ UNCHANGED <<names, dirs, ops, ino>> /\ Others

Next ==
    \/ CreateDB \/ NewDBManifest \/ NewDBRecord \/ Recover \/ RecoverFails
    \/ \E drop \in {{}} \union {{n} : n \in w.live} : BeginEdit(drop)
    \/ TableCreate \/ TableAppend \/ TableSync
    \/ ManifestCreate \/ WriteSnapshot \/ ManifestOpen \/ AddRecord \/ SyncDir \/ SyncData
    \/ TempCreate \/ TempAppend \/ TempSync \/ RenameFile \/ Install
    \/ (\E n \in DOMAIN names : DeleteObsoleteFile(n)) \/ DeletedObsoleteFiles
    \/ Fail \/ PowerFailure \/ Kill

Spec == Init /\ [][Next]_vars

-----------------------------------------------------------------------------
(* A database that was opened and changed once can be opened again: CURRENT     *)
(* names a manifest, and that names tables, which are all on the disk.          *)
OpensAgain == floor > 0 => w.pc # "corrupt"

(* The recovery finds the last version that LogAndApply reported: of a power    *)
(* failure it may lose the one that switched to a new manifest, for the rename  *)
(* of CURRENT is synced with the next record only, and nothing that the older   *)
(* version needs is deleted on disk before it.                                  *)
RecoversItsVersions == w.pc = "manifest" /\ w.desc = 0 => w.v >= promise

(* The creation of a database is committed with CURRENT or not at all.          *)
CreationCommits == w.pc # "corrupt"
=============================================================================
