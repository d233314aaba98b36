----------------------------- MODULE WriteQueue -----------------------------
(***************************************************************************)
(* DBImpl::Write with several writer threads: the queue writers_, the       *)
(* condition variable of each writer, the group commit of the writer at the *)
(* head, and MakeRoomForWrite, which waits for the background thread.  The  *)
(* head logs and inserts its group without the lock.                        *)
(*                                                                          *)
(* The background thread is cut down to what writers see of it: it empties  *)
(* imm_, lowers the number of level-0 files, or records an error.  Batches  *)
(* are sizes; size 0 stands for the NULL batch of TEST_CompactMemTable.     *)
(***************************************************************************)
EXTENDS Integers, FiniteSets, Sequences, SequencesExt

CONSTANTS
  Thread,         \* writer threads; each makes one call
  Sizes,          \* sizes of batches, 0 for the NULL batch
  Syncs,          \* values of options.sync in use
  SmallBatch,     \* 128 KB in BuildBatchGroup
  MaxGroup,       \* 1 MB in BuildBatchGroup
  BufferSize,     \* options_.write_buffer_size
  Slowdown, Stop, \* config::kL0_SlowdownWritesTrigger, kL0_StopWritesTrigger
  InitialFiles,   \* level-0 files at the start
  MaxFaults,      \* bound: failed file operations
  NULL

ASSUME WriterAssumption ==
  /\ NULL \notin Thread
  /\ Sizes \subseteq Nat /\ Syncs \subseteq BOOLEAN

VARIABLES
  mutex,     \* the thread that holds mutex_, or NULL
  w,         \* the Writer of each thread: pc, size, sync, delay, status
  queue,     \* writers_
  group,     \* the writers of the group being written, or << >>
  memSize,   \* mem_->ApproximateMemoryUsage()
  imm,       \* imm_ # NULL
  files,     \* NumLevelFiles(0)
  bgError,   \* ~bg_error_.ok()
  seq,       \* versions_->LastSequence()
  log,       \* the records of all logs so far: [group, base]
  synced,    \* how many of them are on the medium
  applied,   \* history: <<thread, first sequence number>> of each batch inserted
  called,    \* history: the threads in the order of their calls
  before,    \* history: what was in mem_ and acknowledged at each call
  inMem,     \* the threads whose batches are in mem_
  syncFailed,\* history: a sync has failed
  faults

vars == <<mutex, w, queue, group, memSize, imm, files, bgError, seq, log, synced, applied,
          called, before, inMem, syncFailed, faults>>
background == <<imm, files>>
store == <<memSize, seq, log, synced, applied, inMem, syncFailed>>
history == <<called, before>>

Pc(t, pc) == [w EXCEPT ![t].pc = pc]
Free == mutex = NULL

(* The sum of the first k numbers of a, and the size of the first k batches *)
(* of the writers ts.                                                       *)
Sum(a, k) ==
  LET upTo[n \in 0 .. Len(a)] == IF n = 0 THEN 0 ELSE upTo[n - 1] + a[n]
  IN  upTo[k]
Size(ts, k) == Sum([i \in DOMAIN ts |-> w[ts[i]].size], k)

Called(t) == w[t].pc # "idle"
Returned(t) == w[t].pc = "returned"

-----------------------------------------------------------------------------
(* Joining the queue.  The head goes on with the lock held. *)
Call(t, size, sync) ==
  /\ w[t].pc = "idle" /\ Free
  /\ sync => size > 0
  /\ queue' = Append(queue, t)
  /\ LET head == queue = << >> IN
     /\ w' = [w EXCEPT ![t] = [pc |-> IF head THEN "room" ELSE "wait", size |-> size, sync |-> sync,
                               delay |-> size > 0, status |-> "ok"]]
     /\ mutex' = IF head THEN t ELSE NULL
  /\ called' = Append(called, t)
  /\ before' = [before EXCEPT ![t] = {u \in inMem : Returned(u)}]
  /\ UNCHANGED <<group, background, bgError, store, faults>>

(* A signalled writer gets the lock: it is done, or the head, or waits on.  *)
Wake(t) ==
  /\ w[t].pc = "awake" /\ Free
  /\ \/ w[t].status # "ok" /\ w' = Pc(t, "returned") /\ UNCHANGED mutex
     \/ w[t].status = "ok" /\ t \notin ToSet(queue) /\ w' = Pc(t, "returned") /\ UNCHANGED mutex
     \/ queue # << >> /\ Head(queue) = t /\ w' = Pc(t, "room") /\ mutex' = t
     \/ t \in ToSet(queue) /\ Head(queue) # t /\ w' = Pc(t, "wait") /\ UNCHANGED mutex
  /\ UNCHANGED <<queue, group, background, bgError, store, history, faults>>

-----------------------------------------------------------------------------
(* The end of Write: every writer of the group is popped, told the status   *)
(* and signalled, and then the new head is signalled.                       *)

(* A deviation: the new head is not signalled. *)
PopWithoutNotify(last, status, nextSeq) ==
  LET n == CHOOSE i \in DOMAIN queue : queue[i] = last
      popped == ToSet(SubSeq(queue, 1, n))
  IN /\ queue' = SubSeq(queue, n + 1, Len(queue))
     /\ w' = [t \in Thread |->
                IF t = Head(queue) THEN [w[t] EXCEPT !.pc = "returned", !.status = status]
                ELSE IF t \in popped THEN [w[t] EXCEPT !.pc = "awake", !.status = status] ELSE w[t]]
     /\ seq' = nextSeq /\ mutex' = NULL

PopGroup(last, status, nextSeq) ==
  LET n == CHOOSE i \in DOMAIN queue : queue[i] = last
      popped == ToSet(SubSeq(queue, 1, n))
      rest == SubSeq(queue, n + 1, Len(queue))
  IN /\ queue' = rest
     /\ w' = [t \in Thread |->
                IF t = Head(queue) THEN [w[t] EXCEPT !.pc = "returned", !.status = status]
                ELSE IF t \in popped THEN [w[t] EXCEPT !.pc = "awake", !.status = status]
                ELSE IF rest # << >> /\ t = Head(rest) THEN [w[t] EXCEPT !.pc = "awake"]
                ELSE w[t]]
     /\ seq' = nextSeq /\ mutex' = NULL

(* A deviation: sync writers join any group. *)
BuildGroupAnySync(first) ==
  LET max == IF w[first].size <= SmallBatch THEN w[first].size + SmallBatch ELSE MaxGroup
      fits(n) == \A i \in 2 .. n : w[queue[i]].size > 0 => Size(queue, i) <= max
  IN SubSeq(queue, 1, CHOOSE n \in DOMAIN queue : fits(n) /\ (n < Len(queue) => ~fits(n + 1)))

(* BuildBatchGroup: the longest prefix of the queue that asks for no more   *)
(* sync than its first writer and stays small; a NULL batch rides along.    *)
BuildBatchGroup(first) ==
  LET max == IF w[first].size <= SmallBatch THEN w[first].size + SmallBatch ELSE MaxGroup
      fits(n) == \A i \in 2 .. n :
                   /\ w[queue[i]].sync => w[first].sync
                   /\ w[queue[i]].size > 0 => Size(queue, i) <= max
  IN SubSeq(queue, 1, CHOOSE n \in DOMAIN queue : fits(n) /\ (n < Len(queue) => ~fits(n + 1)))

(* With room: a NULL batch is finished, any other starts its group and      *)
(* gives up the lock.                                                       *)
RoomFound(t) ==
  IF w[t].size = 0 THEN PopGroup(t, "ok", seq) /\ UNCHANGED group
  ELSE /\ group' = BuildBatchGroup(t)
       /\ w' = Pc(t, "log") /\ mutex' = NULL /\ UNCHANGED <<queue, seq>>

-----------------------------------------------------------------------------
(* MakeRoomForWrite, one critical section at a time: the head has the lock. *)

Delay(t) == w[t].delay /\ files >= Slowdown
HasRoom(t) == w[t].size > 0 /\ memSize <= BufferSize
MustWait == imm \/ files >= Stop

MakeRoomFails(t) ==
  /\ w[t].pc = "room" /\ mutex = t
  /\ \/ bgError /\ UNCHANGED faults
     \/ ~bgError /\ ~Delay(t) /\ ~HasRoom(t) /\ ~MustWait   \* NewWritableFile fails
        /\ faults < MaxFaults /\ faults' = faults + 1
  /\ PopGroup(t, "error", seq)
  /\ UNCHANGED <<group, background, bgError, memSize, log, synced, applied, inMem, syncFailed, history>>

MakeRoomSleeps(t) ==
  /\ w[t].pc = "room" /\ mutex = t /\ ~bgError /\ Delay(t)
  /\ w' = [w EXCEPT ![t].pc = "sleep", ![t].delay = FALSE] /\ mutex' = NULL
  /\ UNCHANGED <<queue, group, background, bgError, store, history, faults>>

MakeRoomWaits(t) ==
  /\ w[t].pc = "room" /\ mutex = t /\ ~bgError /\ ~Delay(t) /\ ~HasRoom(t) /\ MustWait
  /\ w' = Pc(t, "bgwait") /\ mutex' = NULL
  /\ UNCHANGED <<queue, group, background, bgError, store, history, faults>>

(* The sleep is over, or bg_cv_ was signalled: the lock is taken again. *)
BackToRoom(t) ==
  /\ w[t].pc \in {"sleep", "bgawake"} /\ Free
  /\ w' = Pc(t, "room") /\ mutex' = t
  /\ UNCHANGED <<queue, group, background, bgError, store, history, faults>>

MakeRoomThere(t) ==
  /\ w[t].pc = "room" /\ mutex = t /\ ~bgError /\ ~Delay(t) /\ HasRoom(t)
  /\ RoomFound(t)
  /\ UNCHANGED <<background, bgError, memSize, log, synced, applied, inMem, syncFailed, history, faults>>

(* A new log and a new memtable. *)
MakeRoomSwitches(t) ==
  /\ w[t].pc = "room" /\ mutex = t /\ ~bgError /\ ~Delay(t) /\ ~HasRoom(t) /\ ~MustWait
  /\ imm' = TRUE /\ memSize' = 0 /\ inMem' = {}
  /\ RoomFound(t)
  /\ UNCHANGED <<files, bgError, log, synced, applied, syncFailed, history, faults>>

-----------------------------------------------------------------------------
(* Writing the group, without the lock. *)

(* The first sequence number of the i-th batch of the group. *)
Base(i) == seq + 1 + Size(group, i - 1)

AddRecord(t) ==
  /\ w[t].pc = "log"
  /\ log' = Append(log, [group |-> group, base |-> seq + 1])
  /\ w' = Pc(t, IF w[t].sync THEN "sync" ELSE "insert")
  /\ UNCHANGED <<mutex, queue, group, background, bgError, memSize, seq, synced, applied, inMem,
                 syncFailed, history, faults>>

(* The record cannot be written: the group fails, later groups go on. *)
AddRecordFails(t) ==
  /\ w[t].pc = "log" /\ faults < MaxFaults
  /\ faults' = faults + 1
  /\ w' = [w EXCEPT ![t].pc = "finish", ![t].status = "error"]
  /\ UNCHANGED <<mutex, queue, group, background, bgError, store, history>>

Sync(t) ==
  /\ w[t].pc = "sync"
  /\ synced' = Len(log)
  /\ w' = Pc(t, "insert")
  /\ UNCHANGED <<mutex, queue, group, background, bgError, memSize, seq, log, applied, inMem,
                 syncFailed, history, faults>>

SyncFails(t) ==
  /\ w[t].pc = "sync" /\ faults < MaxFaults
  /\ faults' = faults + 1
  /\ syncFailed' = TRUE
  /\ w' = [w EXCEPT ![t].pc = "finish", ![t].status = "syncerror"]
  /\ UNCHANGED <<mutex, queue, group, background, bgError, memSize, seq, log, synced, applied,
                 inMem, history>>

InsertInto(t) ==
  LET put == {i \in DOMAIN group : w[group[i]].size > 0} IN
  /\ w[t].pc = "insert"
  /\ memSize' = memSize + Size(group, Len(group))
  /\ applied' = applied \cup {<<group[i], Base(i)>> : i \in put}
  /\ inMem' = inMem \cup {group[i] : i \in put}
  /\ w' = Pc(t, "finish")
  /\ UNCHANGED <<mutex, queue, group, background, bgError, seq, log, synced, syncFailed, history, faults>>

(* A deviation: the error of the sync is returned and forgotten. *)
FinishWithoutError(t) ==
  /\ w[t].pc = "finish" /\ Free
  /\ bgError' = bgError
  /\ PopGroup(group[Len(group)], IF w[t].status = "ok" THEN "ok" ELSE "error", seq + Size(group, Len(group)))
  /\ group' = << >>
  /\ UNCHANGED <<background, memSize, log, synced, applied, inMem, syncFailed, history, faults>>
(* The lock again: a sync error stops all later writes; the last sequence   *)
(* is published whatever happened; the group is woken.                      *)
Finish(t) ==
  /\ w[t].pc = "finish" /\ Free
  /\ bgError' = (bgError \/ w[t].status = "syncerror")
  /\ PopGroup(group[Len(group)], IF w[t].status = "ok" THEN "ok" ELSE "error", seq + Size(group, Len(group)))
  /\ group' = << >>
  /\ UNCHANGED <<background, memSize, log, synced, applied, inMem, syncFailed, history, faults>>

-----------------------------------------------------------------------------
(* The background thread as the writers see it; it ends with SignalAll.     *)
SignalAll == w' = [t \in Thread |-> IF w[t].pc = "bgwait" THEN [w[t] EXCEPT !.pc = "bgawake"] ELSE w[t]]

CompactMemTable ==
  /\ Free /\ imm /\ ~bgError
  /\ imm' = FALSE /\ files' = files + 1
  /\ SignalAll
  /\ UNCHANGED <<mutex, queue, group, bgError, store, history, faults>>

CompactLevel0 ==
  /\ Free /\ ~imm /\ files > 0 /\ ~bgError
  /\ files' = 0
  /\ SignalAll
  /\ UNCHANGED <<mutex, queue, group, imm, bgError, store, history, faults>>

RecordBackgroundError ==
  /\ Free /\ ~bgError /\ (imm \/ files > 0) /\ faults < MaxFaults
  /\ bgError' = TRUE /\ faults' = faults + 1
  /\ SignalAll
  /\ UNCHANGED <<mutex, queue, group, background, store, history>>

-----------------------------------------------------------------------------
Init ==
  /\ mutex = NULL /\ queue = << >> /\ group = << >>
  /\ w = [t \in Thread |-> [pc |-> "idle", size |-> 0, sync |-> FALSE, delay |-> FALSE, status |-> "ok"]]
  /\ memSize = 0 /\ imm = FALSE /\ files = InitialFiles /\ bgError = FALSE
  /\ seq = 0 /\ log = << >> /\ synced = 0 /\ applied = {} /\ called = << >>
  /\ before = [t \in Thread |-> {}] /\ inMem = {} /\ syncFailed = FALSE /\ faults = 0

Step(t) == \/ Wake(t)
           \/ MakeRoomFails(t) \/ MakeRoomSleeps(t) \/ MakeRoomWaits(t) \/ BackToRoom(t)
           \/ MakeRoomThere(t) \/ MakeRoomSwitches(t)
           \/ AddRecord(t) \/ AddRecordFails(t) \/ Sync(t) \/ SyncFails(t) \/ InsertInto(t) \/ Finish(t)

Next == \/ \E t \in Thread, size \in Sizes, sync \in Syncs : Call(t, size, sync)
        \/ \E t \in Thread : Step(t)
        \/ CompactMemTable \/ CompactLevel0 \/ RecordBackgroundError

Spec == Init /\ [][Next]_vars

(* Threads run, and the background thread does what is scheduled. *)
FairSpec == /\ Spec /\ \A t \in Thread : WF_vars(Step(t))
            /\ WF_vars(CompactMemTable) /\ WF_vars(CompactLevel0)

-----------------------------------------------------------------------------
(* The one type invariant of the module. *)
Acting == {"room", "sleep", "bgwait", "bgawake", "log", "sync", "insert", "finish"}
Writer == [pc : {"idle", "wait", "awake", "returned"} \cup Acting, size : Nat, sync : BOOLEAN,
           delay : BOOLEAN, status : {"ok", "error", "syncerror"}]
TypeOK ==
  /\ mutex \in Thread \cup {NULL}
  /\ w \in [Thread -> Writer]
  /\ queue \in Seq(Thread) /\ group \in Seq(Thread) /\ called \in Seq(Thread)
  /\ log \in Seq([group : Seq(Thread), base : Nat])
  /\ synced \in 0 .. Len(log) /\ seq \in Nat
  /\ applied \in SUBSET (Thread \X Nat)
  /\ bgError \in BOOLEAN /\ syncFailed \in BOOLEAN

(* A write that returned success is in the log and in the memtable it went  *)
(* to, and if it asked for sync its record is on the medium, whichever      *)
(* writer's group carried it.                                               *)
AckedWritesAreDurable ==
  \A t \in Thread : Returned(t) /\ w[t].status = "ok" /\ w[t].size > 0 =>
    /\ \E x \in applied : x[1] = t
    /\ \E r \in DOMAIN log : t \in ToSet(log[r].group) /\ (w[t].sync => r <= synced)

(* Writes take effect in the order of their calls, and no two share a       *)
(* sequence number, failed ones in between included.                        *)
Earlier(s, t) == \E a, b \in DOMAIN called : a < b /\ called[a] = s /\ called[b] = t
AppliedInCallOrder ==
  \A x, y \in applied : x # y /\ x[2] <= y[2] =>
    Earlier(x[1], y[1]) /\ x[2] + w[x[1]].size <= y[2]

(* What the last sequence number makes visible is complete: every record at *)
(* or below it whose write did not fail is in the memtable with all its     *)
(* batches, and the memtable holds more only of the group being written.    *)
VisibleIsWhole ==
  /\ \A x \in applied : x[2] > seq => x[1] \in ToSet(group)
  /\ \A r \in DOMAIN log : \A t \in ToSet(log[r].group) :
       log[r].base <= seq /\ w[t].status = "ok" /\ w[t].size > 0 => \E x \in applied : x[1] = t

(* Group commit keeps the promise of each writer: a write that returned     *)
(* success is in the log and in its memtable, and on the medium if it asked *)
(* for sync, whichever writer's group carried it; writes take effect in the *)
(* order of their calls, under numbers of their own; and what the last      *)
(* sequence number makes visible is complete.                               *)
GroupCommitIsSound == TypeOK /\ AckedWritesAreDurable /\ AppliedInCallOrder /\ VisibleIsWhole

(* After a failed sync the tail of the log is uncertain, so nothing further *)
(* is ever applied (the comment at line 1238).                              *)
SyncErrorStopsWrites == [][syncFailed => applied' = applied]_vars

(* No wake-up is lost: every call of Write returns. *)
EveryWriteReturns == \A t \in Thread : Called(t) ~> Returned(t)

(* TEST_CompactMemTable relies on the NULL batch: when its Write has        *)
(* returned, what was acknowledged before the call has left mem_.           *)
NullBatchSwitches ==
  \A t \in Thread : Returned(t) /\ w[t].size = 0 /\ w[t].status = "ok" =>
    before[t] \cap inMem = {}
=============================================================================
