------------------------------- MODULE DBImpl -------------------------------
(***************************************************************************)
(* db/db_impl.cc: one open database.  A write goes to the log and to the    *)
(* memtable; a full memtable becomes imm_ and the background thread turns   *)
(* it into a table file; compactions merge table files into the next level; *)
(* every change of the set of files is a record of the MANIFEST.  The       *)
(* process or the machine may crash between any two steps, and Open builds  *)
(* the state again from the files.                                          *)
(*                                                                          *)
(* An action is what happens between two points at which mutex_ is free.    *)
(* The queue of concurrent writers is module WriteQueue; here one writer at *)
(* the head of that queue writes at a time.                                 *)
(***************************************************************************)
EXTENDS VersionSet

CONSTANTS
  Key,              \* user keys
  WriteBufferSize,  \* options_.write_buffer_size, in entries
  L0Stop,           \* config::kL0_StopWritesTrigger (12)
  MaxSeq,           \* bound: sequence numbers ever used
  MaxSnapshots,     \* bound: snapshots held at once
  MaxReaders,       \* bound: 1 if a reader may be active, 0 if not
  MaxManual,        \* bound: manual compactions ever requested
  MaxCrashes,       \* bound: crashes and closings
  MaxFaults,        \* bound: failed file operations
  MachineCrash,     \* a crash loses what was not synced
  ReuseLogs,        \* options_.reuse_logs
  Batches,          \* the batches written: sequences of [k, del]
  Syncs,            \* the values of WriteOptions::sync in use
  Ranges            \* the ranges of manual compactions: pairs of keys or NULL

(* Keys are byte strings of bounded length: finitely many, in a total order. *)
ASSUME DBAssumption ==
  /\ IsFiniteSet(Key) /\ Key \subseteq Int
  /\ WriteBufferSize \in Nat /\ MaxSeq \in Nat
  /\ Batches \subseteq Seq([k : Key, del : BOOLEAN])

VARIABLES
  open,             \* "closed", "recovering", "open", "closing" (shutting_down_)
  mem, imm,         \* mem_, imm_: sets of entries; imm is NULL when there is none
  current,          \* versions_->current_
  seek,             \* current_->file_to_compact_ with its level, or NULL
  pointers,         \* versions_->compact_pointer_
  vs,               \* the numbers of versions_: next, log, seq, and logfile_number_
  tables, logs,     \* the files: table number -> entries, log number -> records
  synced,           \* log number -> how many of its records are on the medium
  manifest,         \* the edits in the file CURRENT names
  pending,          \* pending_outputs_
  snapshots,        \* snapshots_, oldest first
  scheduled,        \* bg_compaction_scheduled_
  bgError,          \* ~bg_error_.ok()
  m,                \* the memtable compaction, or the edit of Open, under way, or NoWork
  c,                \* the compaction under way, or NoWork
  manual,           \* the ManualCompaction of the caller, or NULL
  reader,           \* what a Get or an iterator has pinned, or NULL
  hist,             \* history: the entries of every write that is in force
  doubt,            \* history: the entries of writes whose sync failed
  used              \* how much of the bounds is used

vars == <<open, mem, imm, current, seek, pointers, vs, tables, logs, synced, manifest,
          pending, snapshots, scheduled, bgError, m, c, manual, reader, hist, doubt, used>>
disk == <<tables, logs, synced, manifest>>
reads == <<snapshots, reader>>
ghost == <<hist, doubt>>

NoWork == [stage |-> "none"]
Entry == [k : Key, s : 1 .. MaxSeq, del : BOOLEAN]

(* With(f, x, y) is f with x mapped to y; Without(f, S) is f off S. *)
With(f, x, y) == [z \in DOMAIN f \cup {x} |-> IF z = x THEN y ELSE f[z]]
Without(f, S) == [z \in DOMAIN f \ S |-> f[z]]

-----------------------------------------------------------------------------
(* What a compaction writes: the loop of DoCompactionWork over the merged   *)
(* inputs.  The state is the user key at hand, the sequence      *)
(* number last seen for it, the finished outputs, the open one and the      *)
(* progress of Compaction::ShouldStopBefore.                                *)

Progress(gp, over) ==
  [gp |-> gp, stop |-> over > MaxGrandParentOverlap,
   over |-> IF over > MaxGrandParentOverlap THEN 0 ELSE over]

(* The key passes the next n grandparents; the first key of all counts none. *)
PassFiles(cc, st, n) ==
  Progress(st.gp + n, st.over + (IF st.seen THEN TotalFileSize(SubSeq(cc.grand, st.gp + 1, st.gp + n))
                                 ELSE 0))

ShouldStopBefore(cc, st, e) ==
  PassFiles(cc, st, Cardinality({i \in st.gp + 1 .. Len(cc.grand) :
                      \A j \in st.gp + 1 .. i : ILess(cc.grand[j].largest, IKey(e))}))

Drop(cc, st, e, smallestSnapshot) ==
  LET last == IF st.key = e.k THEN st.last ELSE MaxSequence IN
  \/ last <= smallestSnapshot
  \/ e.del /\ e.s <= smallestSnapshot /\ IsBaseLevelForKey(cc, e.k)

FinishOutput(st) == [st EXCEPT !.done = Append(@, st.out), !.out = << >>]

CutBefore(st, sb) ==
  [IF sb.stop /\ st.out # << >> THEN FinishOutput(st) ELSE st
     EXCEPT !.gp = sb.gp, !.over = sb.over, !.seen = TRUE]

CutIfFull(st) == IF Len(st.out) >= MaxFileSize THEN FinishOutput(st) ELSE st

CompactEntry(cc, smallestSnapshot, st, e) ==
  CutIfFull([CutBefore(st, ShouldStopBefore(cc, st, e))
               EXCEPT !.key = e.k, !.last = e.s,
                      !.out = IF Drop(cc, st, e, smallestSnapshot) THEN @ ELSE Append(@, e)])

(* InternalKeyComparator on whole entries: a value goes before a deletion    *)
(* with the same sequence number.                                           *)
EntryBefore(a, b) == ILess(IKey(a), IKey(b)) \/ (IKey(a) = IKey(b) /\ ~a.del /\ b.del)
InKeyOrder(entries) == InOrder(entries, EntryBefore)

(* The loop over the merged inputs, entry by entry. *)
NothingWritten == [key |-> NULL, last |-> MaxSequence, gp |-> 0, over |-> 0, seen |-> FALSE,
                   done |-> << >>, out |-> << >>]
MergeInto(cc, smallestSnapshot, entries) ==
  LET st[i \in 0 .. Len(entries)] ==
        IF i = 0 THEN NothingWritten ELSE CompactEntry(cc, smallestSnapshot, st[i - 1], entries[i])
  IN st[Len(entries)]

(* The sequences of entries of the output files. *)
OutputsOf(st) == IF st.out = << >> THEN st.done ELSE Append(st.done, st.out)
InputEntries(cc) == UNION {tables[f.number] : f \in ToSet(cc.in0 \o cc.in1)}
CompactionOutputs(cc, smallestSnapshot) ==
  OutputsOf(MergeInto(cc, smallestSnapshot, InKeyOrder(InputEntries(cc))))

MetaOf(number, seq) ==
  [number |-> number, file_size |-> Len(seq), smallest |-> IKey(seq[1]), largest |-> IKey(seq[Len(seq)])]
FileMeta(number, entries) ==
  MetaOf(number, InKeyOrder(entries))

-----------------------------------------------------------------------------
(* What the operations share. *)

(* MaybeScheduleCompaction's condition. *)
NeedsWork == /\ open = "open" /\ ~bgError
             /\ \/ imm # NULL
                \/ manual # NULL /\ manual.posted
                \/ SizeCompaction(current) \/ seek # NULL

MaybeScheduleCompaction == scheduled' = (scheduled \/ NeedsWork')
BackgroundCallDone == scheduled' = NeedsWork'

(* The background thread is between two jobs. *)
BackgroundIdle == scheduled /\ m.stage = "none" /\ c.stage = "none"

(* A deviation: only the current version counts, not what readers hold. *)
LiveIsCurrent(v, cc) == {v} \cup (IF cc.stage = "none" THEN {} ELSE {cc.version})

(* Every version something still refers to, when the current one is v. *)
LiveVersions(v, cc) == {v} \cup (IF cc.stage = "none" THEN {} ELSE {cc.version})
                           \cup (IF reader = NULL THEN {} ELSE {reader.version})

(* Tables in no live version and not pending, and logs older than the log   *)
(* number, are deleted; after a background error nothing is.                *)
DeleteObsoleteFiles(live, pend, logNumber) ==
  LET keep == pend \cup UNION {FilesOf(v) : v \in live}
      dead == {n \in DOMAIN logs : n < logNumber}
  IN IF bgError THEN UNCHANGED <<tables, logs, synced>>
     ELSE /\ tables' = Without(tables, DOMAIN tables \ keep)
          /\ logs'   = Without(logs, dead)
          /\ synced' = Without(synced, dead)

(* LogAndApply fills in the numbers when it starts and, when the record is  *)
(* in the manifest, installs the new version.                               *)
NumberedEdit(edit, log, next, seq) ==
  [add |-> edit.add, del |-> edit.del, pointers |-> edit.pointers, log |-> log, next |-> next, seq |-> seq]
LogAndApplyEdit(edit, logNumber) == NumberedEdit(edit, logNumber, vs.next, vs.seq)
Install(edit) ==
  /\ current'  = SaveTo(current, Applied(<<edit>>))
  /\ pointers' = ApplyPointers(pointers, edit)
  /\ seek'     = NULL
  /\ vs'       = [vs EXCEPT !.log = edit.log]

(* The entry DBImpl::Get finds for a key: memtable, immutable memtable, then *)
(* the files; NULL when there is none or it is a deletion.                   *)
Lookup(mt, im, v, ikey) ==
  LET inMem == SaveValue(mt, ikey)
      inImm == IF im = NULL THEN NULL ELSE SaveValue(im, ikey)
  IN IF inMem # NULL THEN inMem ELSE IF inImm # NULL THEN inImm ELSE VersionGet(v, tables, ikey)
Get(mt, im, v, k, n) ==
  LET e == Lookup(mt, im, v, SeekKey(k, n)) IN IF e = NULL \/ e.del THEN NULL ELSE e.s

-----------------------------------------------------------------------------
(* Writers. *)

Entries(b) == [i \in DOMAIN b |-> [k |-> b[i].k, s |-> vs.seq + i, del |-> b[i].del]]

(* Write by the writer at the head of the queue, with room in the memtable: *)
(* log record, sync if asked for, memtable, last sequence.                  *)
Write(b, sync) ==
  LET n == vs.logfile IN
  /\ open = "open" /\ ~bgError
  /\ Cardinality(mem) <= WriteBufferSize
  /\ vs.seq + Len(b) <= MaxSeq
  /\ logs'   = [logs EXCEPT ![n] = Append(@, Entries(b))]
  /\ synced' = [synced EXCEPT ![n] = IF sync THEN Len(logs[n]) + 1 ELSE @]
  /\ mem'    = mem \cup ToSet(Entries(b))
  /\ vs'     = [vs EXCEPT !.seq = @ + Len(b)]
  /\ hist'   = hist \cup ToSet(Entries(b))
  /\ UNCHANGED <<open, imm, current, seek, pointers, tables, manifest, pending, reads,
                 scheduled, bgError, m, c, manual, doubt, used>>

(* The sync fails: the record may be in the file or not, the memtable is    *)
(* left alone, and every later write fails.                                 *)
WriteSyncFails(b) ==
  /\ open = "open" /\ ~bgError /\ used.faults < MaxFaults
  /\ Cardinality(mem) <= WriteBufferSize
  /\ vs.seq + Len(b) <= MaxSeq
  /\ logs'    = [logs EXCEPT ![vs.logfile] = Append(@, Entries(b))]
  /\ vs'      = [vs EXCEPT !.seq = @ + Len(b)]
  /\ doubt'   = doubt \cup ToSet(Entries(b))
  /\ bgError' = TRUE
  /\ used'    = [used EXCEPT !.faults = @ + 1]
  /\ UNCHANGED <<open, mem, imm, current, seek, pointers, tables, synced, manifest, pending,
                 reads, scheduled, m, c, manual, hist>>

(* The switch of MakeRoomForWrite: a new log, mem_ becomes imm_. *)
SwitchMemTable ==
  /\ open = "open" /\ ~bgError /\ imm = NULL /\ Len(current[0]) < L0Stop
  /\ logs'   = With(logs, vs.next, << >>)
  /\ synced' = With(synced, vs.next, 0)
  /\ vs'     = [vs EXCEPT !.next = @ + 1, !.logfile = vs.next]
  /\ imm' = mem /\ mem' = {}
  /\ UNCHANGED <<open, current, seek, pointers, tables, manifest, pending, reads, bgError,
                 m, c, ghost>>
  /\ MaybeScheduleCompaction

MakeRoomForWrite ==
  /\ Cardinality(mem) > WriteBufferSize
  /\ UNCHANGED <<manual, used>> /\ SwitchMemTable

-----------------------------------------------------------------------------
(* Readers. *)

GetSnapshot ==
  /\ open = "open" /\ Len(snapshots) < MaxSnapshots
  /\ snapshots' = Append(snapshots, vs.seq)
  /\ UNCHANGED <<open, mem, imm, current, seek, pointers, vs, disk, pending, scheduled,
                 bgError, m, c, manual, reader, ghost, used>>

ReleaseSnapshot(i) ==
  /\ snapshots' = RemoveAt(snapshots, i)
  /\ UNCHANGED <<open, mem, imm, current, seek, pointers, vs, disk, pending, scheduled,
                 bgError, m, c, manual, reader, ghost, used>>

(* Get and NewInternalIterator pin both memtables and the current version,  *)
(* then read without the lock.                                              *)
ReadStart(n) ==
  /\ open = "open" /\ reader = NULL /\ MaxReaders > 0
  /\ reader' = [seq |-> n, mem |-> mem, imm |-> imm, version |-> current]
  /\ UNCHANGED <<open, mem, imm, current, seek, pointers, vs, disk, pending, snapshots,
                 scheduled, bgError, m, c, manual, ghost, used>>

(* The read ends; it may have been the seek that uses up allowed_seeks of   *)
(* the first file it read (UpdateStats).  A version that is no longer       *)
(* current keeps that for itself.                                           *)
ReadEnd(k) ==
  LET ikey == SeekKey(k, reader.seq)
      f == IF /\ SaveValue(reader.mem, ikey) = NULL
              /\ reader.imm = NULL \/ SaveValue(reader.imm, ikey) = NULL
           THEN SeekFile(reader.version, tables, ikey) ELSE NULL
  IN /\ reader # NULL /\ reader' = NULL
     /\ seek' \in IF f # NULL /\ reader.version = current /\ seek = NULL THEN {seek, f} ELSE {seek}
     /\ UNCHANGED <<open, mem, imm, current, pointers, vs, disk, pending, snapshots, bgError,
                    m, c, manual, ghost, used>>
     /\ IF seek' # seek THEN MaybeScheduleCompaction ELSE UNCHANGED scheduled

-----------------------------------------------------------------------------
(* Memtable compaction: CompactMemTable, from BackgroundCompaction or from  *)
(* inside DoCompactionWork.                                                 *)

(* WriteLevel0Table up to the unlock: a number, protected by pending_outputs_. *)
StartMemCompaction ==
  /\ imm # NULL /\ m.stage = "none" /\ scheduled
  /\ \/ c.stage = "none" /\ open = "open" /\ ~bgError
     \/ c.stage = "work" /\ open # "closing"
  /\ m' = [number |-> vs.next, base |-> current, stage |-> "build", edit |-> NULL]
  /\ vs' = [vs EXCEPT !.next = @ + 1]
  /\ pending' = pending \cup {vs.next}
  /\ UNCHANGED <<open, mem, imm, current, seek, pointers, disk, reads, scheduled, bgError, c,
                 manual, ghost, used>>

(* What CompactMemTable leaves behind on an error, and BackgroundCall after it. *)
MemCompactionFails ==
  /\ m' = NoWork /\ bgError' = TRUE
  /\ UNCHANGED <<open, mem, imm, current, seek, pointers, vs, logs, synced, reads, c, manual, ghost>>
  /\ IF c.stage = "none" THEN BackgroundCallDone ELSE UNCHANGED scheduled

(* BuildTable, then under the lock again: the level, the edit and the start *)
(* of LogAndApply.  An empty memtable makes no file.  A database that is    *)
(* being closed stops here.                                                 *)
BuildTable ==
  LET f == FileMeta(m.number, imm)
      level == PickLevelForMemTableOutput(m.base, f.smallest.k, f.largest.k)
      add == IF imm = {} THEN {} ELSE {<<level, f>>} IN
  /\ m.stage = "build"
  /\ tables' = IF imm = {} THEN tables ELSE With(tables, m.number, imm)
  /\ pending' = pending \ {m.number}
  /\ UNCHANGED <<manifest, used>>
  /\ IF open = "closing" THEN MemCompactionFails
     ELSE /\ m' = [m EXCEPT !.stage = "apply",
                            !.edit = LogAndApplyEdit([NoEdit EXCEPT !.add = add], vs.logfile)]
          /\ UNCHANGED <<open, mem, imm, current, seek, pointers, vs, logs, synced, reads,
                         scheduled, bgError, c, manual, ghost>>

BuildTableFails ==
  /\ m.stage = "build" /\ used.faults < MaxFaults
  /\ used' = [used EXCEPT !.faults = @ + 1]
  /\ pending' = pending \ {m.number}
  /\ UNCHANGED <<tables, manifest>>
  /\ MemCompactionFails

(* The record of LogAndApply reaches the manifest and the medium. *)
WriteManifestOfMem ==
  /\ m.stage = "apply"
  /\ manifest' = Append(manifest, m.edit)
  /\ m' = [m EXCEPT !.stage = "install"]
  /\ UNCHANGED <<open, mem, imm, current, seek, pointers, vs, tables, logs, synced, pending,
                 reads, scheduled, bgError, c, manual, ghost, used>>

(* It fails: the record may be there all the same. *)
WriteManifestOfMemFails ==
  /\ m.stage = "apply" /\ used.faults < MaxFaults
  /\ used' = [used EXCEPT !.faults = @ + 1]
  /\ manifest' \in {manifest, Append(manifest, m.edit)}
  /\ UNCHANGED <<tables, pending>>
  /\ MemCompactionFails

(* The new version is current, imm_ is gone, obsolete files are deleted. *)
InstallMem ==
  /\ m.stage = "install"
  /\ Install(m.edit)
  /\ m' = NoWork /\ imm' = NULL
  /\ DeleteObsoleteFiles(LiveVersions(current', c), pending, m.edit.log)
  /\ UNCHANGED <<open, mem, manifest, pending, reads, bgError, c, manual, ghost, used>>
  /\ IF c.stage = "none" THEN BackgroundCallDone ELSE UNCHANGED scheduled

-----------------------------------------------------------------------------
(* Compaction: BackgroundCompaction, DoCompactionWork.                      *)

(* BackgroundCall finds the database closing or in error. *)
BackgroundNothing ==
  /\ BackgroundIdle /\ (open = "closing" \/ bgError)
  /\ scheduled' = FALSE
  /\ UNCHANGED <<open, mem, imm, current, seek, pointers, vs, disk, pending, reads, bgError,
                 m, c, manual, ghost, used>>

IsManual == manual # NULL /\ manual.posted
Picked == IF IsManual THEN CompactRange(current, manual.level, manual.begin, manual.hi)
          ELSE PickCompaction(current, seek, pointers)

(* Nothing to compact: a manual request is done. *)
CompactNothing ==
  /\ BackgroundIdle /\ open = "open" /\ ~bgError /\ imm = NULL /\ Picked = NULL
  /\ manual' = IF IsManual THEN [manual EXCEPT !.posted = FALSE, !.done = TRUE] ELSE manual
  /\ UNCHANGED <<open, mem, imm, current, seek, pointers, vs, disk, pending, reads, bgError,
                 m, c, ghost, used>>
  /\ BackgroundCallDone

(* A deviation: snapshots are not asked. *)
SmallestSnapshotIsLast == vs.seq

SmallestSnapshot == IF snapshots = << >> THEN vs.seq ELSE Head(snapshots)

(* A compaction is picked.  A single file with nothing to merge is moved by *)
(* an edit alone (never for a manual request); otherwise the inputs are     *)
(* merged, which depends on nothing that changes later.                     *)
Begin(p, trivial) ==
  LET move == [add |-> {<<p.level + 1, p.in0[1]>>}, del |-> {<<p.level, p.in0[1].number>>},
               pointers |-> {<<p.level, p.pointer>>}] IN
  [level |-> p.level, version |-> p.version, in0 |-> p.in0, in1 |-> p.in1, pointer |-> p.pointer,
   grand |-> p.grand, manual |-> IsManual, trivial |-> trivial, files |-> << >>,
   stage |-> IF trivial THEN "apply" ELSE "work",
   left |-> IF trivial THEN << >> ELSE CompactionOutputs(p, SmallestSnapshot),
   edit |-> IF trivial THEN LogAndApplyEdit(move, vs.log) ELSE NULL]

StartCompaction ==
  /\ BackgroundIdle /\ open = "open" /\ ~bgError /\ imm = NULL
  /\ \E inputs \in {Picked} \ {NULL} :
     \E p \in {SetupOtherInputs(current, inputs.level, inputs.files)} :
       /\ c' = Begin(p, ~IsManual /\ IsTrivialMove(p))
       /\ pointers' = [pointers EXCEPT ![p.level] = p.pointer]
  /\ UNCHANGED <<open, mem, imm, current, seek, vs, disk, pending, reads, scheduled, bgError,
                 m, manual, ghost, used>>

(* A deviation: the output is not registered in pending_outputs_. *)
WriteUnprotectedOutput ==
  LET entries == ToSet(Head(c.left)) IN
  /\ c.stage = "work" /\ m.stage = "none" /\ c.left # << >> /\ open # "closing"
  /\ tables' = With(tables, vs.next, entries)
  /\ c' = [c EXCEPT !.left = Tail(@), !.files = Append(@, FileMeta(vs.next, entries))]
  /\ vs' = [vs EXCEPT !.next = @ + 1]
  /\ UNCHANGED <<open, mem, imm, current, seek, pointers, logs, synced, manifest, pending, reads,
                 scheduled, bgError, m, manual, ghost, used>>

(* Open, fill, sync and close one output file. *)
WriteCompactionOutput ==
  LET entries == ToSet(Head(c.left)) IN
  /\ c.stage = "work" /\ m.stage = "none" /\ c.left # << >> /\ open # "closing"
  /\ tables' = With(tables, vs.next, entries)
  /\ c' = [c EXCEPT !.left = Tail(@), !.files = Append(@, FileMeta(vs.next, entries))]
  /\ pending' = pending \cup {vs.next}
  /\ vs' = [vs EXCEPT !.next = @ + 1]
  /\ UNCHANGED <<open, mem, imm, current, seek, pointers, logs, synced, manifest, reads,
                 scheduled, bgError, m, manual, ghost, used>>

(* InstallCompactionResults up to the manifest write. *)
FinishCompaction ==
  LET edit == [add |-> {<<c.level + 1, f>> : f \in ToSet(c.files)},
               del |-> {<<c.level, f.number>> : f \in ToSet(c.in0)}
                         \cup {<<c.level + 1, f.number>> : f \in ToSet(c.in1)},
               pointers |-> {<<c.level, c.pointer>>}] IN
  /\ c.stage = "work" /\ m.stage = "none" /\ c.left = << >> /\ open # "closing"
  /\ c' = [c EXCEPT !.stage = "apply", !.edit = LogAndApplyEdit(edit, vs.log)]
  /\ UNCHANGED <<open, mem, imm, current, seek, pointers, vs, disk, pending, reads, scheduled,
                 bgError, m, manual, ghost, used>>

WriteManifestOfCompaction ==
  /\ c.stage = "apply"
  /\ manifest' = Append(manifest, c.edit)
  /\ c' = [c EXCEPT !.stage = "install"]
  /\ UNCHANGED <<open, mem, imm, current, seek, pointers, vs, tables, logs, synced, pending,
                 reads, scheduled, bgError, m, manual, ghost, used>>

(* The end of BackgroundCompaction for a manual request: done on an error,  *)
(* otherwise it goes on after the last input file.                          *)
AfterManual(ok) ==
  manual' = IF c.manual
            THEN [manual EXCEPT !.posted = FALSE, !.done = ~ok,
                                !.begin = IF ok THEN c.in0[Len(c.in0)].largest.k ELSE @]
            ELSE manual

(* The caller has withdrawn the request of the compaction under way, after  *)
(* an error: manual_compaction_ is NULL.                                    *)
Withdrawn == c.manual /\ ~IsManual

CleanupCompaction == pending' = pending \ {f.number : f \in ToSet(c.files)}

InstallCompaction ==
  /\ c.stage = "install" /\ ~Withdrawn
  /\ Install(c.edit) /\ CleanupCompaction /\ AfterManual(TRUE)
  /\ c' = NoWork
  /\ IF c.trivial THEN UNCHANGED <<tables, logs, synced>>
     ELSE DeleteObsoleteFiles(LiveVersions(current', NoWork), pending', vs.log)
  /\ UNCHANGED <<open, mem, imm, manifest, reads, bgError, m, ghost, used>>
  /\ BackgroundCallDone

(* Writing an output or the manifest fails, or the database is closing.     *)
CompactionError ==
  /\ c.stage # "none" /\ m.stage = "none"
  /\ \/ /\ used.faults < MaxFaults /\ used' = [used EXCEPT !.faults = @ + 1]
        /\ \/ c.stage = "work" /\ UNCHANGED manifest
           \/ c.stage = "apply" /\ manifest' \in {manifest, Append(manifest, c.edit)}
     \/ open = "closing" /\ c.stage = "work" /\ UNCHANGED <<used, manifest>>

(* The outputs are given up and the error is recorded.                      *)
CompactionFails ==
  /\ CompactionError /\ ~Withdrawn
  /\ c' = NoWork /\ bgError' = TRUE /\ CleanupCompaction /\ AfterManual(FALSE)
  /\ UNCHANGED <<open, mem, imm, current, seek, pointers, vs, tables, logs, synced, reads, m, ghost>>
  /\ BackgroundCallDone

-----------------------------------------------------------------------------
(* DBImpl::CompactRange and the two calls it makes.                         *)

(* The deepest level that has files in the range is looked up first. *)
CompactRangeCall(lo, hi) ==
  LET deep == {l \in 1 .. NumLevels - 1 : OverlapInLevel(current, l, lo, hi)} IN
  /\ open = "open" /\ manual = NULL /\ used.manual < MaxManual
  /\ used' = [used EXCEPT !.manual = @ + 1]
  /\ manual' = [stage |-> "flush", level |-> 0, top |-> Max(deep \cup {1}), lo |-> lo, hi |-> hi,
                begin |-> lo, posted |-> FALSE, done |-> FALSE]
  /\ UNCHANGED <<open, mem, imm, current, seek, pointers, vs, disk, pending, reads, scheduled,
                 bgError, m, c, ghost>>

(* TEST_CompactMemTable: a NULL batch forces the switch, then the caller    *)
(* waits for imm_ to be written; after an error it goes on at once.         *)
TEST_CompactMemTable ==
  /\ manual # NULL /\ manual.stage = "flush"
  /\ manual' = [manual EXCEPT !.stage = "wait"]
  /\ UNCHANGED used
  /\ \/ SwitchMemTable
     \/ bgError /\ UNCHANGED <<open, mem, imm, current, seek, pointers, vs, disk, pending, reads,
                               scheduled, bgError, m, c, ghost>>

CompactMemTableWaited ==
  /\ manual # NULL /\ manual.stage = "wait" /\ (imm = NULL \/ bgError)
  /\ manual' = [manual EXCEPT !.stage = "level"]
  /\ UNCHANGED <<open, mem, imm, current, seek, pointers, vs, disk, pending, reads, scheduled,
                 bgError, m, c, ghost, used>>

(* The loop of TEST_CompactRange: post the request while it is not done, and *)
(* withdraw it when the database is closing or in error.                     *)
TEST_CompactRange ==
  /\ manual # NULL /\ manual.stage = "level" /\ ~manual.done /\ ~manual.posted
  /\ open = "open" /\ ~bgError
  /\ manual' = [manual EXCEPT !.posted = TRUE]
  /\ UNCHANGED <<open, mem, imm, current, seek, pointers, vs, disk, pending, reads, bgError,
                 m, c, ghost, used>>
  /\ MaybeScheduleCompaction

NextLevel ==
  /\ manual # NULL /\ manual.stage = "level"
  /\ manual.done \/ open = "closing" \/ bgError
  /\ manual' = IF manual.level + 1 < manual.top
               THEN [manual EXCEPT !.level = @ + 1, !.begin = manual.lo, !.done = FALSE, !.posted = FALSE]
               ELSE NULL
  /\ UNCHANGED <<open, mem, imm, current, seek, pointers, vs, disk, pending, reads, scheduled,
                 bgError, m, c, ghost, used>>

-----------------------------------------------------------------------------
(* Closing, crashing and opening again.                                     *)

NewDB == NumberedEdit(NoEdit, 0, 2, 0)
NoNumbers == [next |-> 2, log |-> 0, seq |-> 0, logfile |-> 0]

(* A process that is gone has no memory; the files stay. *)
Forget ==
  /\ open' = "closed" /\ mem' = {} /\ imm' = NULL /\ current' = EmptyVersion /\ seek' = NULL
  /\ pointers' = [l \in Level |-> NULL] /\ vs' = NoNumbers /\ pending' = {}
  /\ snapshots' = << >> /\ scheduled' = FALSE /\ bgError' = FALSE
  /\ m' = NoWork /\ c' = NoWork /\ manual' = NULL /\ reader' = NULL

(* VersionSet::Recover: one Builder takes every edit of the manifest.       *)
Replay(edits) == SaveTo(EmptyVersion, Applied(edits))
EndOfManifest == manifest[Len(manifest)]

(* The history after the logs are cut: what a cut record of a log that is   *)
(* still needed held is lost; a record whose sync failed counts if it is there. *)
Held(records) == UNION {ToSet(records[r]) : r \in DOMAIN records}
Cut(keep) ==
  LET needed == {n \in DOMAIN logs : n >= EndOfManifest.log}
      lost == UNION {Held(SubSeq(logs[n], keep[n] + 1, Len(logs[n]))) : n \in needed}
      here == UNION {Held(SubSeq(logs[n], 1, keep[n])) : n \in needed}
  IN /\ logs' = [n \in DOMAIN logs |-> SubSeq(logs[n], 1, keep[n])]
     /\ synced' = keep
     /\ hist' = (hist \ lost) \cup (doubt \cap here)
     /\ doubt' = {}

Crash ==
  /\ open # "closed" /\ used.crashes < MaxCrashes
  /\ used' = [used EXCEPT !.crashes = @ + 1]
  /\ \E keep \in [DOMAIN logs -> 0 .. MaxSeq] :
       /\ \A n \in DOMAIN logs : /\ keep[n] \in synced[n] .. Len(logs[n])
                                 /\ MachineCrash \/ keep[n] = Len(logs[n])
       /\ Cut(keep)
  /\ Forget /\ UNCHANGED <<tables, manifest>>

(* ~DBImpl: shut down, wait for the background thread, drop everything. *)
Close ==
  /\ open = "open" /\ used.crashes < MaxCrashes
  /\ manual = NULL /\ reader = NULL /\ snapshots = << >>
  /\ open' = "closing" /\ used' = [used EXCEPT !.crashes = @ + 1]
  /\ UNCHANGED <<mem, imm, current, seek, pointers, vs, disk, pending, reads, scheduled, bgError,
                 m, c, manual, ghost>>

Closed ==
  /\ open = "closing" /\ ~scheduled
  /\ Forget /\ Cut([n \in DOMAIN logs |-> Len(logs[n])])
  /\ UNCHANGED <<tables, manifest, used>>

(* BackgroundCompaction ends, with or without an error, and goes through    *)
(* the pointer to a request that was withdrawn: the process ends there.     *)
(* (DeleteObsoleteFiles has done nothing, for there was an error.)          *)
UseWithdrawn ==
  /\ c.stage # "none" /\ Withdrawn
  /\ \/ c.stage = "install" /\ UNCHANGED <<used, manifest>>
     \/ CompactionError
  /\ Forget /\ Cut([n \in DOMAIN logs |-> Len(logs[n])])
  /\ UNCHANGED tables

(* RecoverLogFile: a memtable that grows past the buffer becomes a level-0  *)
(* table; the rest of the log does at its end, unless the log is reused.    *)
FlushRecovered(st) ==
  [st EXCEPT !.mem = {}, !.next = @ + 1, !.tabs = With(@, st.next, st.mem),
             !.add = @ \cup {<<0, FileMeta(st.next, st.mem)>>}, !.compactions = @ + 1]

LastOf(r, seq) == IF r # << >> /\ r[Len(r)].s > seq THEN r[Len(r)].s ELSE seq
Insert(st, r) == [st EXCEPT !.mem = @ \cup ToSet(r), !.seq = LastOf(r, @)]
FlushIfFull(st) == IF Cardinality(st.mem) > WriteBufferSize THEN FlushRecovered(st) ELSE st
ReadRecords(st, records) ==
  LET after[r \in 0 .. Len(records)] ==
        IF r = 0 THEN [st EXCEPT !.compactions = 0]
        ELSE FlushIfFull(Insert(after[r - 1], records[r]))
  IN after[Len(records)]

EndOfLog(st, n, last) ==
  IF ReuseLogs /\ last /\ st.compactions = 0 THEN [st EXCEPT !.logfile = n]
  ELSE IF st.mem = {} THEN st ELSE FlushRecovered(st)
MarkFileNumberUsed(st, n) == [st EXCEPT !.next = IF @ <= n THEN n + 1 ELSE @]
RecoverLogFile(st, n, last) ==
  MarkFileNumberUsed(EndOfLog(ReadRecords(st, logs[n]), n, last), n)

(* DBImpl::Recover: the manifest, then every log it does not yet cover in   *)
(* order; a new log unless the last one is reused.                          *)
BeforeLogs == [mem |-> {}, next |-> EndOfManifest.next + 1, tabs |-> tables, add |-> {},
               compactions |-> 0, seq |-> EndOfManifest.seq, logfile |-> NULL]
RecoverLogs(todo) ==
  LET read[i \in 0 .. Len(todo)] ==
        IF i = 0 THEN BeforeLogs ELSE RecoverLogFile(read[i - 1], todo[i], i = Len(todo))
  IN read[Len(todo)]
Recovered == RecoverLogs(Ascending({n \in DOMAIN logs : n >= EndOfManifest.log}))

Recover ==
  /\ open = "closed" /\ FilesOf(Replay(manifest)) \subseteq DOMAIN tables
  /\ \E st \in {Recovered} :
       LET fresh == st.logfile = NULL
           n     == IF fresh THEN st.next ELSE st.logfile
           next  == IF fresh THEN st.next + 1 ELSE st.next
       IN /\ tables' = st.tabs /\ mem' = st.mem
          /\ logs'   = IF fresh THEN With(logs, n, << >>) ELSE logs
          /\ synced' = IF fresh THEN With(synced, n, 0) ELSE synced
          /\ vs' = [next |-> next, log |-> EndOfManifest.log, seq |-> st.seq, logfile |-> n]
          /\ m' = [stage |-> "recover",
                   edit |-> NumberedEdit([NoEdit EXCEPT !.add = st.add], n, next, st.seq)]
  /\ open' = "recovering"
  /\ current' = Replay(manifest)
  /\ pointers' = FoldLeft(ApplyPointers, [l \in Level |-> NULL], manifest)
  /\ UNCHANGED <<imm, seek, manifest, pending, reads, scheduled, bgError, c, manual, ghost, used>>

(* The rest of DB::Open.  A new manifest starts with a snapshot of the      *)
(* recovered version and becomes CURRENT when it is complete; a reused one  *)
(* gets the edit, if there is anything to save.                             *)
WriteSnapshot(v) ==
  [add |-> UNION {{<<l, f>> : f \in ToSet(v[l])} : l \in Level}, del |-> {},
   pointers |-> {<<l, pointers[l]>> : l \in {x \in Level : pointers[x] # NULL}},
   log |-> vs.log, next |-> vs.next, seq |-> vs.seq]

Open ==
  LET edit == m.edit
      save == ~ReuseLogs \/ edit.add # {} IN
  /\ open = "recovering"
  /\ open' = "open" /\ m' = NoWork
  /\ manifest' = IF ~ReuseLogs THEN <<WriteSnapshot(current), edit>>
                 ELSE IF save THEN Append(manifest, edit) ELSE manifest
  /\ IF save THEN Install(edit) ELSE UNCHANGED <<current, pointers, seek, vs>>
  /\ DeleteObsoleteFiles(LiveVersions(current', NoWork), {}, vs'.log)
  /\ UNCHANGED <<mem, imm, pending, reads, bgError, c, manual, ghost, used>>
  /\ MaybeScheduleCompaction

-----------------------------------------------------------------------------
Init ==
  /\ open = "closed" /\ mem = {} /\ imm = NULL /\ current = EmptyVersion /\ seek = NULL
  /\ pointers = [l \in Level |-> NULL] /\ vs = NoNumbers
  /\ tables = << >> /\ logs = << >> /\ synced = << >> /\ manifest = <<NewDB>>
  /\ pending = {} /\ snapshots = << >> /\ scheduled = FALSE /\ bgError = FALSE
  /\ m = NoWork /\ c = NoWork /\ manual = NULL /\ reader = NULL /\ hist = {} /\ doubt = {}
  /\ used = [manual |-> 0, crashes |-> 0, faults |-> 0]

Writer == \/ \E b \in Batches, sync \in Syncs : Write(b, sync)
          \/ \E b \in Batches : WriteSyncFails(b)
          \/ MakeRoomForWrite
Reader == \/ GetSnapshot
          \/ \E i \in DOMAIN snapshots : ReleaseSnapshot(i)
          \/ \E n \in ToSet(snapshots) \cup {vs.seq} : ReadStart(n)
          \/ \E k \in Key : ReadEnd(k)
Background == \/ StartMemCompaction \/ BuildTable \/ WriteManifestOfMem \/ InstallMem
              \/ BackgroundNothing \/ CompactNothing \/ StartCompaction
              \/ WriteCompactionOutput \/ FinishCompaction \/ WriteManifestOfCompaction
              \/ InstallCompaction
BackgroundFault == BuildTableFails \/ WriteManifestOfMemFails \/ CompactionFails \/ UseWithdrawn
Manual == \/ \E r \in Ranges : CompactRangeCall(r[1], r[2])
          \/ TEST_CompactMemTable \/ CompactMemTableWaited \/ TEST_CompactRange \/ NextLevel
Lifecycle == Crash \/ Close \/ Closed \/ Recover \/ Open

Next == Writer \/ Reader \/ Background \/ BackgroundFault \/ Manual \/ Lifecycle

Spec == Init /\ [][Next]_vars

(* The background thread runs what was scheduled. *)
FairSpec == Spec /\ WF_vars(Background) /\ WF_vars(Recover) /\ WF_vars(Open) /\ WF_vars(Closed)

-----------------------------------------------------------------------------
(* The one type invariant of the module. *)
TypeOK ==
  /\ open \in {"closed", "recovering", "open", "closing"}
  /\ mem \subseteq Entry /\ (imm = NULL \/ imm \subseteq Entry)
  /\ DOMAIN current = Level /\ DOMAIN pointers = Level
  /\ vs.seq \in 0 .. MaxSeq /\ vs.log <= vs.next
  /\ DOMAIN synced = DOMAIN logs
  /\ \A n \in DOMAIN tables : tables[n] \subseteq Entry /\ tables[n] # {}
  /\ scheduled \in BOOLEAN /\ bgError \in BOOLEAN
  /\ hist \subseteq Entry /\ doubt \subseteq Entry

(* What a reader at sequence number n should get for k. *)
Reference(k, n) ==
  LET seen == {e \in hist : e.k = k /\ e.s <= n}
      last == CHOOSE e \in seen : \A f \in seen : f.s <= e.s
  IN IF seen = {} \/ last.del THEN NULL ELSE last.s

(* Whatever was flushed, merged, dropped, moved or recovered so far, a Get  *)
(* of any key, now or at any snapshot still held, returns the newest write  *)
(* that is in force at that sequence number.                                *)
ReadsSeeHistory ==
  open = "open" =>
    \A k \in Key, n \in ToSet(snapshots) \cup {vs.seq} :
      (n < vs.seq \/ doubt = {}) => Get(mem, imm, current, k, n) = Reference(k, n)

(* A Get or iterator that runs without the lock keeps its view: the files   *)
(* of the version it pinned are still there and it reads what was in force  *)
(* when it started.                                                         *)
PinnedViewStable ==
  reader # NULL =>
    /\ FilesOf(reader.version) \subseteq DOMAIN tables
    /\ \A k \in Key : doubt = {} =>
         Get(reader.mem, reader.imm, reader.version, k, reader.seq) = Reference(k, reader.seq)

(* DeleteObsoleteFiles never removes a table that is still needed: one the  *)
(* manifest names (Recover would report missing files), an input of the     *)
(* compaction under way, or an output it has already written.               *)
NeededFilesExist ==
  /\ FilesOf(Replay(manifest)) \subseteq DOMAIN tables
  /\ c.stage # "none" => {f.number : f \in ToSet(c.in0 \o c.in1 \o c.files)} \subseteq DOMAIN tables
  /\ m.stage \notin {"none", "build"} => {a[2].number : a \in m.edit.add} \subseteq DOMAIN tables

(* MaybeAddFile's assertion (version_set.cc:765): above level 0 the files   *)
(* of a level do not overlap.                                               *)
Disjoint(v) ==
  \A l \in Level \ {0} : \A i \in 1 .. Len(v[l]) - 1 :
    ILess(v[l][i].largest, v[l][i + 1].smallest)
LevelsDisjoint == Disjoint(current)

(* Entries never hop across levels (version_set.cc:346): those of a key in  *)
(* a level are newer than those in deeper levels.                           *)
EntriesOf(v, l) == UNION {tables[f.number] : f \in ToSet(v[l])}
NeverHop(v) ==
  \A l1, l2 \in Level : l1 < l2 =>
    \A e1 \in EntriesOf(v, l1), e2 \in EntriesOf(v, l2) : e1.k = e2.k => e1.s > e2.s
EntriesNeverHop == NeverHop(current)

(* Two files of a level meet within the versions of one key.                *)
KeyIsSplit(v) ==
  \E l \in Level \ {0} : \E i \in 1 .. Len(v[l]) - 1 : v[l][i].largest.k = v[l][i + 1].smallest.k

(* Sequence numbers are never given out twice, recovery included: nothing   *)
(* readable has a number above the last one.                                *)
LastSequenceCovers ==
  open = "open" =>
    \A e \in mem \cup (IF imm = NULL THEN {} ELSE imm)
               \cup UNION {tables[n] : n \in FilesOf(current)} : e.s <= vs.seq

(* The compaction of a manual request still has the request it works for:   *)
(* BackgroundCompaction updates it when the compaction ends.  (After an     *)
(* error the caller has withdrawn it.)                                      *)
ManualCompactionKept == c.stage # "none" /\ c.manual /\ ~bgError => manual # NULL /\ manual.posted

(* The same without the premise: BackgroundCompaction ends with "update *m  *)
(* to the range that is left to be compacted" (db_impl.cc:762), of the      *)
(* request it compacted for.                                                *)
RequestIsThere == c.stage # "none" => ~Withdrawn

(* The files of the version that a Get or an iterator has pinned. *)
PinnedFilesExist == reader # NULL => FilesOf(reader.version) \subseteq DOMAIN tables

(* Flushes, compactions, crashes and recoveries change no answer: a Get of  *)
(* any key, now or at any snapshot held, returns the newest write in force  *)
(* at its sequence number, and no sequence number that something readable   *)
(* has is given out again.                                                  *)
HistoryIsKept == TypeOK /\ ReadsSeeHistory /\ LastSequenceCovers

(* Nothing is taken from under the work that needs it: DeleteObsoleteFiles  *)
(* removes no table that the manifest names, that a reader has pinned, or   *)
(* that the compaction under way reads or wrote, and unless an error was    *)
(* recorded the compaction of a manual request still has it at its end.     *)
NothingInUseGoes == NeededFilesExist /\ PinnedFilesExist /\ ManualCompactionKept

(* Version::Get may search one file per level above 0 and stop at the first *)
(* level that has the key, because the files there are disjoint and entries *)
(* do not hop.  As long as nothing has failed, whatever is recorded in the  *)
(* manifest keeps the first but for a memtable that is written during a     *)
(* manual compaction, and the second but for a compaction of a level in     *)
(* which a key is split between two files.                                  *)
SearchStaysRight ==
  manifest' # manifest /\ used.faults = 0 =>
    \E old \in {Replay(manifest)}, new \in {Replay(manifest')} : Disjoint(old) =>
      /\ ~(c.stage # "none" /\ c.manual) => Disjoint(new)
      /\ NeverHop(old) /\ ~KeyIsSplit(old) => NeverHop(new)'
SearchMayStop == [][SearchStaysRight]_vars

ImmWaits    == open = "open" /\ imm # NULL
ImmResolved == imm = NULL \/ bgError \/ open # "open"

(* A full memtable does not wait for ever: the background thread writes it, *)
(* or an error is recorded, or the database goes down.                      *)
ImmIsWritten == ImmWaits ~> ImmResolved
=============================================================================
