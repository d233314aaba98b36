-------------------------- MODULE BackgroundThread --------------------------
(* The background thread of leveldb's PosixEnv (util/env_posix.cc), which all  *)
(* databases of a process share, and what a database asks of it (db/db_impl.cc: *)
(* MaybeScheduleCompaction, BackgroundCall and the destructor).                 *)
(*                                                                              *)
(* A step is a section under the mutex of the environment or of the database;   *)
(* waiting on a condition is a state that a signal, or nothing at all (a        *)
(* spurious wakeup), ends.                                                      *)
EXTENDS Integers, Sequences, SequencesExt, TLAPS, SequenceTheorems

CONSTANTS
    Databases,
    None           \* no database

VARIABLES
    started_bgthread,
    queue,         \* queue_: the databases that wait for their turn
    thread,        \* "none", "ready", "waiting", "taken", "working" or "skipped"
    current,       \* the database of the function that runs
    user,          \* per database: "open", "closing", "waiting", "awake" or "closed"
    scheduled,     \* bg_compaction_scheduled_
    bg_error       \* the databases with an error

vars == <<started_bgthread, queue, thread, current, user, scheduled, bg_error>>

Init ==
    /\ started_bgthread = FALSE
    /\ queue = << >>
    /\ thread = "none" /\ current = None
    /\ user = [d \in Databases |-> "open"]
    /\ scheduled = [d \in Databases |-> FALSE]
    /\ bg_error = {}

ShuttingDown(d) == user[d] # "open"

-----------------------------------------------------------------------------
(* PosixEnv.                                                                    *)

(* What Schedule does to the thread: it starts it, or wakes it up when the      *)
(* queue is empty.                                                              *)
Woken == IF ~started_bgthread THEN "ready"
         ELSE IF queue = << >> /\ thread = "waiting" THEN "ready" ELSE thread

Schedule(d, next) ==
    /\ started_bgthread' = TRUE
    /\ queue' = Append(queue, d)
    /\ thread' = next

(* BGThread: lock, and wait while the queue is empty.                           *)
BGThread ==
    /\ thread = "ready"
    /\ IF queue = << >>
       THEN thread' = "waiting" /\ UNCHANGED <<queue, current>>
       ELSE thread' = "taken" /\ current' = Head(queue) /\ queue' = Tail(queue)
    /\ UNCHANGED <<started_bgthread, user, scheduled, bg_error>>

SpuriousWakeup ==
    /\ thread = "waiting" /\ thread' = "ready"
    /\ UNCHANGED <<started_bgthread, queue, current, user, scheduled, bg_error>>

-----------------------------------------------------------------------------
(* A database.                                                                  *)

(* MaybeScheduleCompaction with something to do.                                *)
MaybeScheduleCompaction(d) ==
    /\ ~scheduled[d] /\ ~ShuttingDown(d) /\ d \notin bg_error
    /\ scheduled' = [scheduled EXCEPT ![d] = TRUE]
    /\ Schedule(d, Woken)
    /\ UNCHANGED <<current, user, bg_error>>

(* BackgroundCall begins; it does nothing for a database that shuts down or has *)
(* an error, and BackgroundCompaction gives the mutex back while it works.      *)
BackgroundCall ==
    /\ thread = "taken"
    /\ thread' = IF ShuttingDown(current) \/ current \in bg_error THEN "skipped" ELSE "working"
    /\ UNCHANGED <<started_bgthread, queue, current, user, scheduled, bg_error>>

(* SignalAll: the destructor that waits goes on.                                *)
SignalAll(d) == user' = [user EXCEPT ![d] = IF @ = "waiting" THEN "awake" ELSE @]

(* The end of BackgroundCall: the flag is cleared, the next work scheduled and  *)
(* the destructor woken, all under the mutex.                                   *)
BackgroundDone(more, failed) ==
    LET d == current
    IN  /\ thread \in {"working", "skipped"} /\ (failed => thread = "working")
        /\ current' = None
        /\ bg_error' = IF failed THEN bg_error \union {d} ELSE bg_error
        /\ IF more /\ ~ShuttingDown(d) /\ d \notin bg_error'
           THEN Schedule(d, "ready") /\ UNCHANGED scheduled
           ELSE /\ scheduled' = [scheduled EXCEPT ![d] = FALSE]
                /\ thread' = "ready" /\ UNCHANGED <<started_bgthread, queue>>
        /\ SignalAll(d)

(* The destructor sets shutting_down_ ...                                       *)
Close(d) ==
    /\ user[d] = "open"
    /\ user' = [user EXCEPT ![d] = "closing"]
    /\ UNCHANGED <<started_bgthread, queue, thread, current, scheduled, bg_error>>

(* A deviation: the destructor looks at the flag once.                          *)
CloseWaitsOnce(d) ==
    /\ user[d] \in {"closing", "awake"}
    /\ user' = [user EXCEPT ![d] = IF scheduled[d] /\ @ = "closing" THEN "awake" ELSE "closed"]
    /\ UNCHANGED <<started_bgthread, queue, thread, current, scheduled, bg_error>>

(* ... waits for the work that is scheduled, and deletes the database.          *)
CloseWaits(d) ==
    /\ user[d] \in {"closing", "awake"}
    /\ user' = [user EXCEPT ![d] = IF scheduled[d] THEN "waiting" ELSE "closed"]
    /\ UNCHANGED <<started_bgthread, queue, thread, current, scheduled, bg_error>>

ThreadStep ==
    \/ BGThread \/ BackgroundCall
    \/ \E more, failed \in BOOLEAN : BackgroundDone(more, failed)

Next ==
    \/ ThreadStep \/ SpuriousWakeup
    \/ \E d \in Databases : MaybeScheduleCompaction(d) \/ Close(d) \/ CloseWaits(d)

Spec == Init /\ [][Next]_vars
FairSpec == Spec /\ WF_vars(ThreadStep) /\ \A d \in Databases : WF_vars(CloseWaits(d))

-----------------------------------------------------------------------------
(* The one type invariant of the module.                                        *)
TypeOK ==
    /\ queue \in Seq(Databases) /\ IsInjective(queue)
    /\ thread \in {"none", "ready", "waiting", "taken", "working", "skipped"}
    /\ current \in Databases \union {None}
    /\ current = None <=> thread \notin {"taken", "working", "skipped"}

(* A database is deleted only when the thread has nothing left to do for it:    *)
(* nothing of it is in the queue or runs.                                       *)
NoWorkAfterClose ==
    \A d \in Databases : user[d] = "closed" => d # current /\ \A i \in DOMAIN queue : queue[i] # d

(* The flag of a database says whether the thread will come to it: it is never  *)
(* scheduled twice, and what is scheduled is in the queue or runs.              *)
ScheduledIsQueued ==
    \A d \in Databases : scheduled[d] <=> d = current \/ \E i \in DOMAIN queue : queue[i] = d

Closing(d) == user[d] = "closing"
Closed(d)  == user[d] = "closed"
Served(d)  == current = d

(* The destructor returns, also while another database has work without end.    *)
CloseReturns == \A d \in Databases : Closing(d) ~> Closed(d)

(* What is scheduled is begun: the thread never sleeps over work.               *)
WorkBegins == \A d \in Databases : scheduled[d] ~> Served(d)

-----------------------------------------------------------------------------
(* Proofs, for every number of databases that share the thread.                 *)

NoneIsNoDatabase == None \notin Databases

UserStates == {"open", "closing", "waiting", "awake", "closed"}
StateTypes ==
    /\ user \in [Databases -> UserStates]
    /\ scheduled \in [Databases -> BOOLEAN]
    /\ started_bgthread <=> thread # "none"

(* What the thread has taken from the queue is not in it a second time.         *)
TakenIsNotQueued == \A i \in DOMAIN queue : queue[i] # current

(* The destructor leaves only when the flag is clear, and nothing sets the flag *)
(* of a database that shuts down.                                               *)
ClosedIsIdle == \A d \in Databases : user[d] = "closed" => ~scheduled[d]

(* The inductive invariant behind NoWorkAfterClose.                             *)
Inv == TypeOK /\ StateTypes /\ TakenIsNotQueued /\ ScheduledIsQueued /\ ClosedIsIdle

Busy == {"taken", "working", "skipped"}

(* A step that leaves the queue, the thread's work and the flags alone keeps    *)
(* what is said of them.                                                        *)
LEMMA QueueUntouched ==
    ASSUME Inv, UNCHANGED <<queue, current, scheduled>>,
           thread' \in {"none", "ready", "waiting", "taken", "working", "skipped"},
           thread \in Busy <=> thread' \in Busy
    PROVE  TypeOK' /\ TakenIsNotQueued' /\ ScheduledIsQueued'
<1>1. TypeOK'
  BY DEF Inv, TypeOK, Busy, IsInjective
<1> QED BY <1>1 DEF Inv, TakenIsNotQueued, ScheduledIsQueued

(* A database that was neither queued nor served is put at the end of the queue. *)
LEMMA QueueGrows ==
    ASSUME Inv, NEW d \in Databases, \A i \in DOMAIN queue : queue[i] # d,
           queue' = Append(queue, d)
    PROVE  /\ queue' \in Seq(Databases) /\ IsInjective(queue')
           /\ \A e : (\E i \in DOMAIN queue' : queue'[i] = e)
                        <=> e = d \/ \E i \in DOMAIN queue : queue[i] = e
<1>1. queue \in Seq(Databases) /\ \A i, j \in DOMAIN queue : queue[i] = queue[j] => i = j
  BY DEF Inv, TypeOK, IsInjective
<1>2. /\ queue' \in Seq(Databases)
      /\ Len(queue) \in Nat /\ DOMAIN queue = 1 .. Len(queue)
      /\ DOMAIN queue' = 1 .. (Len(queue) + 1)
      /\ queue'[Len(queue) + 1] = d
      /\ \A i \in 1 .. Len(queue) : queue'[i] = queue[i]
  BY <1>1, AppendProperties, LenProperties
<1>3. \A i \in DOMAIN queue' : i = Len(queue) + 1 \/ i \in DOMAIN queue
  BY <1>2
<1>4. /\ \A i \in DOMAIN queue : i \in DOMAIN queue'
      /\ Len(queue) + 1 \in DOMAIN queue'
  BY <1>2
<1>5. \A i, j \in DOMAIN queue' : queue'[i] = queue'[j] => i = j
  BY <1>1, <1>2, <1>3
<1> QED BY <1>2, <1>3, <1>4, <1>5 DEF IsInjective

(* The head of the queue is taken.                                              *)
LEMMA QueueShrinks ==
    ASSUME Inv, queue # << >>, queue' = Tail(queue)
    PROVE  /\ Head(queue) \in Databases
           /\ queue' \in Seq(Databases) /\ IsInjective(queue')
           /\ \A i \in DOMAIN queue' : queue'[i] # Head(queue)
           /\ \A e : (\E i \in DOMAIN queue : queue[i] = e)
                        <=> e = Head(queue) \/ \E i \in DOMAIN queue' : queue'[i] = e
<1>1. queue \in Seq(Databases) /\ \A i, j \in DOMAIN queue : queue[i] = queue[j] => i = j
  BY DEF Inv, TypeOK, IsInjective
<1>2. /\ Len(queue) \in Nat /\ Len(queue) > 0 /\ DOMAIN queue = 1 .. Len(queue)
      /\ Tail(queue) \in Seq(Databases) /\ Len(Tail(queue)) = Len(queue) - 1
      /\ DOMAIN Tail(queue) = 1 .. Len(Tail(queue))
      /\ Head(queue) = queue[1] /\ Head(queue) \in Databases
      /\ \A i \in 1 .. Len(Tail(queue)) : Tail(queue)[i] = queue[i + 1]
  BY <1>1, HeadTailProperties, LenProperties
<1>3. DOMAIN queue' = 1 .. (Len(queue) - 1) /\ \A i \in DOMAIN queue' : queue'[i] = queue[i + 1]
  BY <1>2
<1>4. \A i \in DOMAIN queue' : i \in Nat /\ i + 1 \in DOMAIN queue /\ i + 1 # 1 /\ 1 \in DOMAIN queue
  BY <1>2, <1>3
<1>5. \A i \in DOMAIN queue : i = 1 \/ (i - 1 \in DOMAIN queue' /\ (i - 1) + 1 = i)
  BY <1>2, <1>3
<1>6. \A i, j \in DOMAIN queue' : queue'[i] = queue'[j] => i = j
  <2> SUFFICES ASSUME NEW i \in DOMAIN queue', NEW j \in DOMAIN queue', queue'[i] = queue'[j]
               PROVE  i = j
    OBVIOUS
  <2>1. i + 1 = j + 1
    BY <1>1, <1>3, <1>4
  <2> QED BY <1>4, <2>1
<1>7. \A i \in DOMAIN queue' : queue'[i] # Head(queue)
  BY <1>1, <1>2, <1>3, <1>4
<1>8. ASSUME NEW e
      PROVE  (\E i \in DOMAIN queue : queue[i] = e)
                <=> e = Head(queue) \/ \E i \in DOMAIN queue' : queue'[i] = e
  <2>1. ASSUME NEW i \in DOMAIN queue, queue[i] = e
        PROVE  e = Head(queue) \/ \E j \in DOMAIN queue' : queue'[j] = e
    BY <1>2, <1>3, <1>5, <2>1
  <2>2. 1 \in DOMAIN queue
    BY <1>2
  <2>3. ASSUME NEW j \in DOMAIN queue', queue'[j] = e
        PROVE  \E i \in DOMAIN queue : queue[i] = e
    BY <1>3, <1>4, <2>3
  <2> QED BY <1>2, <2>1, <2>2, <2>3
<1> QED BY <1>2, <1>6, <1>7, <1>8 DEF IsInjective

LEMMA InvInit == ASSUME NoneIsNoDatabase, Init PROVE Inv
<1>1. queue \in Seq(Databases) /\ DOMAIN queue = {}
  BY DEF Init
<1>2. TypeOK /\ StateTypes
  BY <1>1 DEF Init, TypeOK, StateTypes, IsInjective, UserStates
<1>3. TakenIsNotQueued /\ ScheduledIsQueued /\ ClosedIsIdle
  BY <1>1 DEF NoneIsNoDatabase, Init, TakenIsNotQueued, ScheduledIsQueued, ClosedIsIdle
<1> QED BY <1>2, <1>3 DEF Inv

LEMMA InvStep == ASSUME NoneIsNoDatabase, Inv, [Next]_vars PROVE Inv'
<1> USE DEF NoneIsNoDatabase
<1>0. /\ user \in [Databases -> UserStates] /\ scheduled \in [Databases -> BOOLEAN]
      /\ (started_bgthread <=> thread # "none")
      /\ \A d \in Databases : user[d] = "closed" => ~scheduled[d]
  BY DEF Inv, StateTypes, ClosedIsIdle
<1>1. CASE UNCHANGED vars
  <2>1. TypeOK' /\ TakenIsNotQueued' /\ ScheduledIsQueued'
    BY <1>1, QueueUntouched DEF vars, Inv, TypeOK
  <2> QED BY <1>0, <1>1, <2>1 DEF vars, Inv, StateTypes, ClosedIsIdle
<1>2. CASE BGThread
  <2>1. StateTypes' /\ ClosedIsIdle'
    BY <1>0, <1>2 DEF BGThread, StateTypes, ClosedIsIdle
  <2>2. CASE queue = << >>
    <3>1. TypeOK' /\ TakenIsNotQueued' /\ ScheduledIsQueued'
      BY <1>2, <2>2, QueueUntouched DEF BGThread, Busy
    <3> QED BY <2>1, <3>1 DEF Inv
  <2>3. CASE queue # << >>
    <3>1. thread' = "taken" /\ current' = Head(queue) /\ queue' = Tail(queue) /\ scheduled' = scheduled
      BY <1>2, <2>3 DEF BGThread
    <3>2. current = None
      BY <1>2 DEF BGThread, Inv, TypeOK
    <3>3. TypeOK'
      BY <2>3, <3>1, QueueShrinks DEF TypeOK
    <3>4. TakenIsNotQueued'
      BY <2>3, <3>1, QueueShrinks DEF TakenIsNotQueued
    <3>5. ScheduledIsQueued'
      BY <2>3, <3>1, <3>2, QueueShrinks DEF Inv, ScheduledIsQueued
    <3> QED BY <2>1, <3>3, <3>4, <3>5 DEF Inv
  <2> QED BY <2>2, <2>3
<1>3. CASE BackgroundCall
  <2>1. TypeOK' /\ TakenIsNotQueued' /\ ScheduledIsQueued'
    BY <1>3, QueueUntouched DEF BackgroundCall, Busy
  <2> QED BY <1>0, <1>3, <2>1 DEF BackgroundCall, Inv, StateTypes, ClosedIsIdle
<1>4. ASSUME NEW more \in BOOLEAN, NEW failed \in BOOLEAN, BackgroundDone(more, failed)
      PROVE  Inv'
  <2>1. /\ current \in Databases /\ current' = None
        /\ user' = [user EXCEPT ![current] = IF @ = "waiting" THEN "awake" ELSE @]
    BY <1>4 DEF BackgroundDone, SignalAll, Inv, TypeOK
  <2>2. \A i \in DOMAIN queue : queue[i] # current
    BY DEF Inv, TakenIsNotQueued
  <2>3. user' \in [Databases -> UserStates]
        /\ \A d \in Databases : user'[d] = "closed" => user[d] = "closed"
    BY <1>0, <2>1 DEF UserStates
  <2>4. CASE more /\ ~ShuttingDown(current) /\ current \notin bg_error'
    <3>1. /\ queue' = Append(queue, current) /\ thread' = "ready" /\ scheduled' = scheduled
          /\ started_bgthread'
      BY <1>4, <2>4 DEF BackgroundDone, Schedule
    <3>2. TypeOK'
      BY <2>1, <2>2, <3>1, QueueGrows DEF TypeOK
    <3>3. TakenIsNotQueued'
      BY <2>1, <3>1, <3>2 DEF TakenIsNotQueued, TypeOK
    <3>4. ScheduledIsQueued'
      BY <2>1, <2>2, <3>1, QueueGrows DEF Inv, ScheduledIsQueued
    <3> QED BY <1>0, <2>3, <3>1, <3>2, <3>3, <3>4 DEF Inv, StateTypes, ClosedIsIdle
  <2>5. CASE ~(more /\ ~ShuttingDown(current) /\ current \notin bg_error')
    <3>1. /\ scheduled' = [scheduled EXCEPT ![current] = FALSE]
          /\ queue' = queue /\ thread' = "ready" /\ started_bgthread'
      BY <1>0, <1>4, <2>5 DEF BackgroundDone
    <3>2. TypeOK'
      BY <2>1, <3>1 DEF Inv, TypeOK, IsInjective
    <3>3. TakenIsNotQueued'
      BY <2>1, <3>1, <3>2 DEF TakenIsNotQueued, TypeOK
    <3>4. ScheduledIsQueued'
      BY <1>0, <2>1, <2>2, <3>1 DEF Inv, ScheduledIsQueued
    <3>5. \A d \in Databases : scheduled'[d] \in BOOLEAN /\ (scheduled'[d] => scheduled[d])
      BY <1>0, <3>1
    <3>6. scheduled' \in [Databases -> BOOLEAN]
      BY <1>0, <3>1
    <3> QED BY <1>0, <2>3, <3>1, <3>2, <3>3, <3>4, <3>5, <3>6 DEF Inv, StateTypes, ClosedIsIdle
  <2> QED BY <2>4, <2>5
<1>5. CASE SpuriousWakeup
  <2>1. TypeOK' /\ TakenIsNotQueued' /\ ScheduledIsQueued'
    BY <1>5, QueueUntouched DEF SpuriousWakeup, Busy
  <2> QED BY <1>0, <1>5, <2>1 DEF SpuriousWakeup, Inv, StateTypes, ClosedIsIdle
<1>6. ASSUME NEW d \in Databases, MaybeScheduleCompaction(d) PROVE Inv'
  <2>1. /\ ~scheduled[d] /\ user[d] = "open" /\ queue' = Append(queue, d) /\ thread' = Woken
        /\ scheduled' = [scheduled EXCEPT ![d] = TRUE] /\ UNCHANGED <<current, user>>
    BY <1>6 DEF MaybeScheduleCompaction, Schedule, ShuttingDown
  <2>2. d # current /\ \A i \in DOMAIN queue : queue[i] # d
    BY <2>1 DEF Inv, ScheduledIsQueued
  <2>3. /\ thread' \in {"none", "ready", "waiting", "taken", "working", "skipped"} \ {"none"}
        /\ started_bgthread' /\ (thread' \in Busy <=> thread \in Busy)
    BY <1>0, <1>6, <2>1 DEF MaybeScheduleCompaction, Schedule, Woken, Busy, Inv, TypeOK
  <2>4. TypeOK'
    BY <2>1, <2>2, <2>3, QueueGrows DEF Inv, TypeOK, Busy
  <2>5. TakenIsNotQueued' /\ ScheduledIsQueued'
    BY <1>0, <2>1, <2>2, QueueGrows DEF Inv, TakenIsNotQueued, ScheduledIsQueued
  <2> QED BY <1>0, <2>1, <2>3, <2>4, <2>5 DEF Inv, StateTypes, ClosedIsIdle
<1>7. ASSUME NEW d \in Databases, Close(d) PROVE Inv'
  <2>1. TypeOK' /\ TakenIsNotQueued' /\ ScheduledIsQueued'
    BY <1>7, QueueUntouched DEF Close, Inv, TypeOK
  <2> QED BY <1>0, <1>7, <2>1 DEF Close, Inv, StateTypes, ClosedIsIdle, UserStates
<1>8. ASSUME NEW d \in Databases, CloseWaits(d) PROVE Inv'
  <2>1. TypeOK' /\ TakenIsNotQueued' /\ ScheduledIsQueued'
    BY <1>8, QueueUntouched DEF CloseWaits, Inv, TypeOK
  <2> QED BY <1>0, <1>8, <2>1 DEF CloseWaits, Inv, StateTypes, ClosedIsIdle, UserStates
<1> QED BY <1>1, <1>2, <1>3, <1>4, <1>5, <1>6, <1>7, <1>8 DEF Next, ThreadStep

(* For any number of databases: a database is deleted only when nothing of it   *)
(* is in the queue or runs (the destructor's wait on bg_cv_).                   *)
THEOREM NothingRunsAfterClose ==
    ASSUME NoneIsNoDatabase
    PROVE  Spec => []NoWorkAfterClose
<1>1. Init => Inv
  BY InvInit
<1>2. Inv /\ [Next]_vars => Inv'
  BY InvStep
<1>3. Inv => NoWorkAfterClose
  BY DEF Inv, NoWorkAfterClose, ScheduledIsQueued, ClosedIsIdle
<1> QED BY <1>1, <1>2, <1>3, PTL DEF Spec

(* For any number of databases: bg_compaction_scheduled_ says of each whether   *)
(* it is in the queue or served, and none is queued twice.                      *)
THEOREM FlagIsExact ==
    ASSUME NoneIsNoDatabase
    PROVE  Spec => [](TypeOK /\ ScheduledIsQueued)
<1>1. Init => Inv
  BY InvInit
<1>2. Inv /\ [Next]_vars => Inv'
  BY InvStep
<1>3. Inv => TypeOK /\ ScheduledIsQueued
  BY DEF Inv
<1> QED BY <1>1, <1>2, <1>3, PTL DEF Spec
=============================================================================
