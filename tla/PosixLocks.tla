----------------------------- MODULE PosixLocks -----------------------------
(* leveldb's util/env_posix.cc: LockFile and UnlockFile, which keep a database *)
(* to one user, and DestroyDB (db/db_impl.cc), which deletes the lock file.     *)
(*                                                                              *)
(* Every system call and every access to the lock table is a step.  A record    *)
(* lock (fcntl) belongs to a process and a file: a process gets a lock it has   *)
(* already, and loses it when it closes ANY descriptor of the file.             *)
EXTENDS Integers, FiniteSets, TLAPS, FiniteSetTheorems

CONSTANTS
    Openers,       \* threads that open the database
    Processes,
    ProcessOf,     \* the process of an opener
    MayDestroy,    \* may an opener call DestroyDB?
    MaxTries,      \* bound: calls of an opener
    MaxFiles       \* bound: files that were named LOCK

VARIABLES
    lockFile,      \* the file that is named LOCK, 0 for none
    files,         \* how many there were
    locked_files,  \* the processes whose table has the name
    owner,         \* the process with the record lock of a file, "none" for none
    o              \* the openers: [pc, file, destroy, tries]

vars == <<lockFile, files, locked_files, owner, o>>

Idle == [pc |-> "idle", file |-> 0, destroy |-> FALSE, tries |-> 0]

Init ==
    /\ lockFile = 0 /\ files = 0
    /\ locked_files = {}
    /\ owner = [f \in 1 .. MaxFiles |-> "none"]
    /\ o = [x \in Openers |-> Idle]

Goto(x, pc) == o' = [o EXCEPT ![x].pc = pc]

-----------------------------------------------------------------------------
(* LockFile.                                                                    *)

Open(x, destroy) ==
    /\ o[x].pc = "idle" /\ o[x].tries < MaxTries
    /\ destroy => MayDestroy /\ lockFile # 0
    /\ lockFile = 0 => files < MaxFiles
    /\ LET f == IF lockFile = 0 THEN files + 1 ELSE lockFile
       IN  /\ lockFile' = f /\ files' = IF f > files THEN f ELSE files
           /\ o' = [o EXCEPT ![x] = [pc |-> "opened", file |-> f, destroy |-> destroy,
                                     tries |-> @.tries + 1]]
    /\ UNCHANGED <<locked_files, owner>>

(* A deviation: the name is put into the table without a look at it.            *)
InsertUnchecked(x) ==
    /\ o[x].pc = "opened"
    /\ locked_files' = locked_files \union {ProcessOf[x]} /\ Goto(x, "inserted")
    /\ UNCHANGED <<lockFile, files, owner>>

(* PosixLockTable::Insert.                                                      *)
Insert(x) ==
    /\ o[x].pc = "opened"
    /\ IF ProcessOf[x] \in locked_files
       THEN Goto(x, "refused") /\ UNCHANGED locked_files
       ELSE locked_files' = locked_files \union {ProcessOf[x]} /\ Goto(x, "inserted")
    /\ UNCHANGED <<lockFile, files, owner>>

(* A deviation: a lock that another process has counts as taken.                *)
SetLockAnyway(x) ==
    /\ o[x].pc = "inserted"
    /\ owner' = [owner EXCEPT ![o[x].file] = ProcessOf[x]] /\ Goto(x, "held")
    /\ UNCHANGED <<lockFile, files, locked_files>>

(* LockOrUnlock(fd, true).                                                      *)
SetLock(x) ==
    /\ o[x].pc = "inserted"
    /\ IF owner[o[x].file] \in {"none", ProcessOf[x]}
       THEN owner' = [owner EXCEPT ![o[x].file] = ProcessOf[x]] /\ Goto(x, "held")
       ELSE Goto(x, "busy") /\ UNCHANGED owner
    /\ UNCHANGED <<lockFile, files, locked_files>>

(* close: the record locks of the process on this file go with it.              *)
CloseFd(x) ==
    owner' = [owner EXCEPT ![o[x].file] = IF @ = ProcessOf[x] THEN "none" ELSE @]

CloseRefused(x) ==
    /\ o[x].pc = "refused"
    /\ CloseFd(x) /\ Goto(x, "idle")
    /\ UNCHANGED <<lockFile, files, locked_files>>

CloseBusy(x) ==
    /\ o[x].pc = "busy"
    /\ CloseFd(x) /\ Goto(x, "busyClosed")
    /\ UNCHANGED <<lockFile, files, locked_files>>

RemoveBusy(x) ==
    /\ o[x].pc = "busyClosed"
    /\ locked_files' = locked_files \ {ProcessOf[x]} /\ Goto(x, "idle")
    /\ UNCHANGED <<lockFile, files, owner>>

-----------------------------------------------------------------------------
(* UnlockFile, and the end of DestroyDB.                                        *)

Unlock(x) ==
    /\ o[x].pc = "held"
    /\ CloseFd(x) /\ Goto(x, "unlocked")
    /\ UNCHANGED <<lockFile, files, locked_files>>

Remove(x) ==
    /\ o[x].pc = "unlocked"
    /\ locked_files' = locked_files \ {ProcessOf[x]} /\ Goto(x, "removed")
    /\ UNCHANGED <<lockFile, files, owner>>

Close(x) ==
    /\ o[x].pc = "removed"
    /\ CloseFd(x) /\ Goto(x, IF o[x].destroy THEN "delete" ELSE "idle")
    /\ UNCHANGED <<lockFile, files, locked_files>>

DeleteLockFile(x) ==
    /\ o[x].pc = "delete"
    /\ lockFile' = 0 /\ Goto(x, "idle")
    /\ UNCHANGED <<files, locked_files, owner>>

(* A process ends anywhere: its descriptors, its locks and its table go.        *)
Exit(p) ==
    /\ \E x \in Openers : ProcessOf[x] = p /\ o[x].pc # "idle"
    /\ locked_files' = locked_files \ {p}
    /\ owner' = [f \in DOMAIN owner |-> IF owner[f] = p THEN "none" ELSE owner[f]]
    /\ o' = [x \in Openers |-> IF ProcessOf[x] = p THEN [Idle EXCEPT !.tries = o[x].tries] ELSE o[x]]
    /\ UNCHANGED <<lockFile, files>>

Next ==
    \/ \E x \in Openers :
           \/ \E destroy \in BOOLEAN : Open(x, destroy)
           \/ Insert(x) \/ SetLock(x) \/ CloseRefused(x) \/ CloseBusy(x) \/ RemoveBusy(x)
           \/ Unlock(x) \/ Remove(x) \/ Close(x) \/ DeleteLockFile(x)
    \/ \E p \in Processes : Exit(p)

Spec == Init /\ [][Next]_vars

-----------------------------------------------------------------------------
Holders == {x \in Openers : o[x].pc = "held"}

(* The database has one user at a time.                                         *)
OneUser == Cardinality(Holders) <= 1

(* The comment on LockFile in include/leveldb/env.h: it is "used to prevent     *)
(* concurrent access to the same db by multiple processes".                     *)
OneProcessAtATime == \A x, y \in Holders : ProcessOf[x] = ProcessOf[y]

(* A lock that nobody uses is free: no failed attempt, release or exit leaves   *)
(* the name in the table or the record lock behind.                             *)
UnusedIsFree ==
    \A p \in Processes :
        (\A x \in Openers : ProcessOf[x] = p => o[x].pc = "idle")
            => p \notin locked_files /\ \A f \in DOMAIN owner : owner[f] # p

(* The users of a LOCK file who still have its record lock are one: no opener   *)
(* gets in, in any process, past a user who has it.                             *)
HasTheLock(x) == o[x].pc = "held" /\ owner[o[x].file] = ProcessOf[x]
LockedUsersAreOne ==
    \A x, y \in Openers : HasTheLock(x) /\ HasTheLock(y) /\ o[x].file = o[y].file => x = y

(* How a user loses the record lock while it goes on using the database: in no  *)
(* other way than by the close of a descriptor of the same file in its own      *)
(* process, that of a refused attempt or of an UnlockFile that has taken the    *)
(* name out of the table already.  Nothing that another process does takes it.  *)
StrayClose(y) == CloseRefused(y) \/ Close(y)
LosesTheLock(x) == HasTheLock(x) /\ o'[x].pc = "held" /\ ~HasTheLock(x)'
LossIsStray ==
    \A x \in Openers : LosesTheLock(x) =>
        \E y \in Openers \ {x} :
            ProcessOf[y] = ProcessOf[x] /\ o[y].file = o[x].file /\ StrayClose(y)
OnlyStrayClosesUnlock == [][LossIsStray]_vars

-----------------------------------------------------------------------------
(* Proofs, for any number of openers and processes.                             *)

ProcessesAreNamed == ProcessOf \in [Openers -> Processes] /\ "none" \notin Processes

(* Where an opener's process is in the table because of this opener.            *)
InTable == {"inserted", "busy", "busyClosed", "held", "unlocked"}
Outside == {"idle", "opened", "refused", "removed", "delete"}
Opener == [pc : InTable \union Outside, file : Nat,
           destroy : BOOLEAN, tries : Nat]

TypeOK ==
    /\ lockFile \in Nat /\ files \in Nat /\ lockFile <= files
    /\ o \in [Openers -> Opener]
    /\ locked_files \subseteq Processes
    /\ owner \in [1 .. MaxFiles -> Processes \union {"none"}]

(* The table has a process exactly while one of its openers, and no second one, *)
(* is past Insert; and a record lock belongs to the process of a holder.        *)
TableIsExact ==
    \A p \in Processes : p \in locked_files <=> \E x \in Openers : ProcessOf[x] = p /\ o[x].pc \in InTable
OneInTable ==
    \A x, y \in Openers : ProcessOf[x] = ProcessOf[y] /\ o[x].pc \in InTable /\ o[y].pc \in InTable => x = y
LockIsHeld ==
    \A f \in DOMAIN owner : owner[f] # "none" =>
        \E x \in Openers : o[x].pc = "held" /\ o[x].file = f /\ ProcessOf[x] = owner[f]

(* The inductive invariant behind UnusedIsFree.                                 *)
LockInv == TypeOK /\ TableIsExact /\ OneInTable /\ LockIsHeld

LEMMA LockInit == ASSUME ProcessesAreNamed, Init PROVE LockInv
  BY DEF ProcessesAreNamed, Init, Idle, LockInv, TypeOK, Opener, InTable, Outside, TableIsExact, OneInTable, LockIsHeld

(* One opener goes on.                                                          *)
LEMMA Moves ==
    ASSUME TypeOK, NEW x \in Openers, NEW pc, Goto(x, pc),
           pc \in InTable \union Outside
    PROVE  /\ o' \in [Openers -> Opener] /\ o'[x].pc = pc /\ o'[x].file = o[x].file
           /\ o'[x].destroy = o[x].destroy
           /\ \A y \in Openers : y # x => o'[y] = o[y]
  BY DEF TypeOK, Goto, Opener

(* A step that changes neither the table nor who is in it keeps what is said of *)
(* the table.                                                                   *)
LEMMA TableKept ==
    ASSUME LockInv, locked_files' = locked_files,
           \A y \in Openers : o'[y].pc \in InTable <=> o[y].pc \in InTable
    PROVE  TableIsExact' /\ OneInTable'
  BY DEF LockInv, TableIsExact, OneInTable

(* The opener that closes its file gives up the record lock of its process on   *)
(* it; when the opener was the holder, the process has no other.                *)
LEMMA Closes ==
    ASSUME LockInv, ProcessesAreNamed, NEW x \in Openers, CloseFd(x),
           \A y \in Openers : y # x => o'[y] = o[y]
    PROVE  /\ owner' \in [1 .. MaxFiles -> Processes \union {"none"}]
           /\ LockIsHeld'
<1>1. owner' \in [1 .. MaxFiles -> Processes \union {"none"}]
  BY DEF LockInv, TypeOK, CloseFd
<1>2. \A f \in DOMAIN owner' : f \in DOMAIN owner /\ (owner'[f] # "none" => owner'[f] = owner[f])
  BY DEF LockInv, TypeOK, CloseFd
<1>3. ASSUME NEW f \in DOMAIN owner', owner'[f] # "none"
      PROVE  \E y \in Openers : o'[y].pc = "held" /\ o'[y].file = f /\ ProcessOf[y] = owner'[f]
  <2>1. PICK y \in Openers : o[y].pc = "held" /\ o[y].file = f /\ ProcessOf[y] = owner[f]
    BY <1>2, <1>3 DEF LockInv, LockIsHeld
  <2>2. y # x
    BY <1>2, <1>3, <2>1 DEF CloseFd, LockInv, TypeOK
  <2> QED BY <1>2, <1>3, <2>1, <2>2
<1> QED BY <1>1, <1>3 DEF LockIsHeld

LEMMA LockStep ==
    ASSUME ProcessesAreNamed, LockInv, [Next]_vars
    PROVE  LockInv'
<1>0. /\ TypeOK /\ TableIsExact /\ OneInTable /\ LockIsHeld
      /\ \A x \in Openers : o[x] \in Opener /\ ProcessOf[x] \in Processes
  BY DEF LockInv, TypeOK, ProcessesAreNamed
<1>1. CASE UNCHANGED vars
  BY <1>0, <1>1 DEF vars, LockInv, TypeOK, TableIsExact, OneInTable, LockIsHeld
<1>2. ASSUME NEW x \in Openers, NEW destroy \in BOOLEAN, Open(x, destroy) PROVE LockInv'
  <2> DEFINE f == IF lockFile = 0 THEN files + 1 ELSE lockFile
             r == [pc |-> "opened", file |-> f, destroy |-> destroy, tries |-> o[x].tries + 1]
  <2>1. /\ o[x].pc = "idle" /\ lockFile' = f /\ files' = (IF f > files THEN f ELSE files)
        /\ o' = [o EXCEPT ![x] = r] /\ UNCHANGED <<locked_files, owner>>
    BY <1>2 DEF Open
  <2>2. f \in Nat /\ f <= files' /\ files' \in Nat
    BY <1>0, <2>1 DEF TypeOK
  <2>3. r \in Opener
    BY <1>0, <2>2 DEF Opener, Outside
  <2> HIDE DEF f, r
  <2>4. TypeOK'
    BY <1>0, <2>1, <2>2, <2>3 DEF TypeOK
  <2>5. o'[x].pc = "opened" /\ \A y \in Openers : y # x => o'[y] = o[y]
    BY <1>0, <2>1 DEF TypeOK, r
  <2>6. TableIsExact' /\ OneInTable'
    BY <2>1, <2>5, TableKept DEF InTable
  <2>7. LockIsHeld'
    BY <1>0, <2>1, <2>5 DEF LockIsHeld
  <2> QED BY <2>4, <2>6, <2>7 DEF LockInv
<1>3. ASSUME NEW x \in Openers, Insert(x) PROVE LockInv'
  <2>1. o[x].pc = "opened" /\ UNCHANGED <<lockFile, files, owner>>
    BY <1>3 DEF Insert
  <2>2. CASE ProcessOf[x] \in locked_files
    <3>1. Goto(x, "refused") /\ locked_files' = locked_files
      BY <1>3, <2>2 DEF Insert
    <3>2. /\ o' \in [Openers -> Opener] /\ o'[x].pc = "refused"
          /\ \A y \in Openers : y # x => o'[y] = o[y]
      BY <1>0, <3>1, Moves DEF Outside
    <3>3. TableIsExact' /\ OneInTable'
      BY <2>1, <3>1, <3>2, TableKept DEF InTable
    <3>4. LockIsHeld'
      BY <1>0, <2>1, <3>2 DEF LockIsHeld
    <3> QED BY <1>0, <2>1, <3>1, <3>2, <3>3, <3>4 DEF LockInv, TypeOK
  <2>3. CASE ProcessOf[x] \notin locked_files
    <3>1. Goto(x, "inserted") /\ locked_files' = locked_files \union {ProcessOf[x]}
      BY <1>3, <2>3 DEF Insert
    <3>2. /\ o' \in [Openers -> Opener] /\ o'[x].pc = "inserted"
          /\ \A y \in Openers : y # x => o'[y] = o[y]
      BY <1>0, <3>1, Moves DEF InTable
    <3>3. \A y \in Openers : ProcessOf[y] = ProcessOf[x] => o[y].pc \notin InTable
      BY <1>0, <2>3 DEF TableIsExact
    <3>4. OneInTable'
      BY <1>0, <3>2, <3>3 DEF OneInTable
    <3>5. TableIsExact'
      BY <1>0, <2>1, <3>1, <3>2 DEF TableIsExact, InTable
    <3>6. LockIsHeld'
      BY <1>0, <2>1, <3>2 DEF LockIsHeld
    <3> QED BY <1>0, <2>1, <3>1, <3>2, <3>4, <3>5, <3>6 DEF LockInv, TypeOK
  <2> QED BY <2>2, <2>3
<1>4. ASSUME NEW x \in Openers, SetLock(x) PROVE LockInv'
  <2>1. o[x].pc = "inserted" /\ UNCHANGED <<lockFile, files, locked_files>>
    BY <1>4 DEF SetLock
  <2>2. CASE owner[o[x].file] \in {"none", ProcessOf[x]}
    <3>1. Goto(x, "held") /\ owner' = [owner EXCEPT ![o[x].file] = ProcessOf[x]]
      BY <1>4, <2>2 DEF SetLock
    <3>2. /\ o' \in [Openers -> Opener] /\ o'[x].pc = "held" /\ o'[x].file = o[x].file
          /\ \A y \in Openers : y # x => o'[y] = o[y]
      BY <1>0, <3>1, Moves DEF InTable
    <3>3. TableIsExact' /\ OneInTable'
      BY <2>1, <3>2, TableKept DEF InTable
    <3>4. \A f \in DOMAIN owner' : f \in DOMAIN owner /\
             owner'[f] = IF f = o[x].file THEN ProcessOf[x] ELSE owner[f]
      BY <1>0, <3>1 DEF TypeOK
    <3>5. LockIsHeld'
      BY <1>0, <2>1, <3>2, <3>4 DEF LockIsHeld
    <3> QED BY <1>0, <2>1, <3>1, <3>2, <3>3, <3>5 DEF LockInv, TypeOK
  <2>3. CASE owner[o[x].file] \notin {"none", ProcessOf[x]}
    <3>1. Goto(x, "busy") /\ owner' = owner
      BY <1>4, <2>3 DEF SetLock
    <3>2. /\ o' \in [Openers -> Opener] /\ o'[x].pc = "busy"
          /\ \A y \in Openers : y # x => o'[y] = o[y]
      BY <1>0, <3>1, Moves DEF InTable
    <3>3. TableIsExact' /\ OneInTable'
      BY <2>1, <3>2, TableKept DEF InTable
    <3>4. LockIsHeld'
      BY <1>0, <2>1, <3>1, <3>2 DEF LockIsHeld
    <3> QED BY <1>0, <2>1, <3>1, <3>2, <3>3, <3>4 DEF LockInv, TypeOK
  <2> QED BY <2>2, <2>3
<1>5. ASSUME NEW x \in Openers, CloseRefused(x) \/ CloseBusy(x) \/ Unlock(x) \/ Close(x) PROVE LockInv'
  <2>0. PICK pc \in InTable \union Outside :
           /\ CloseFd(x) /\ Goto(x, pc) /\ UNCHANGED <<lockFile, files, locked_files>>
           /\ pc \in InTable <=> o[x].pc \in InTable
    BY <1>5 DEF CloseRefused, CloseBusy, Unlock, Close, InTable, Outside
  <2>1. /\ o' \in [Openers -> Opener] /\ o'[x].pc = pc
        /\ \A y \in Openers : y # x => o'[y] = o[y]
    BY <1>0, <2>0, Moves
  <2>2. LockIsHeld' /\ owner' \in [1 .. MaxFiles -> Processes \union {"none"}]
    BY <2>0, <2>1, Closes
  <2>3. TableIsExact' /\ OneInTable'
    BY <2>0, <2>1, TableKept
  <2> QED BY <1>0, <2>0, <2>1, <2>2, <2>3 DEF LockInv, TypeOK
<1>6. ASSUME NEW x \in Openers, RemoveBusy(x) \/ Remove(x) PROVE LockInv'
  <2>0. PICK pc \in Outside :
           /\ o[x].pc \in InTable /\ o[x].pc # "held" /\ Goto(x, pc)
           /\ locked_files' = locked_files \ {ProcessOf[x]} /\ UNCHANGED <<lockFile, files, owner>>
    BY <1>6 DEF RemoveBusy, Remove, InTable, Outside
  <2>1. /\ o' \in [Openers -> Opener] /\ o'[x].pc = pc /\ pc \notin InTable
        /\ \A y \in Openers : y # x => o'[y] = o[y]
    BY <1>0, <2>0, Moves DEF InTable, Outside
  <2>2. \A y \in Openers : ProcessOf[y] = ProcessOf[x] => o'[y].pc \notin InTable
    BY <1>0, <2>0, <2>1 DEF OneInTable
  <2>3. TableIsExact'
    <3>1. ASSUME NEW p \in Processes, p # ProcessOf[x]
          PROVE  p \in locked_files' <=> \E y \in Openers : ProcessOf[y] = p /\ o'[y].pc \in InTable
      BY <1>0, <2>0, <2>1, <3>1 DEF TableIsExact
    <3> QED BY <2>0, <2>2, <3>1 DEF TableIsExact
  <2>4. OneInTable'
    BY <1>0, <2>1 DEF OneInTable
  <2>5. LockIsHeld'
    BY <1>0, <2>0, <2>1 DEF LockIsHeld
  <2> QED BY <1>0, <2>0, <2>1, <2>3, <2>4, <2>5 DEF LockInv, TypeOK
<1>7. ASSUME NEW x \in Openers, DeleteLockFile(x) PROVE LockInv'
  <2>1. /\ o[x].pc = "delete" /\ Goto(x, "idle") /\ lockFile' = 0
        /\ UNCHANGED <<files, locked_files, owner>>
    BY <1>7 DEF DeleteLockFile
  <2>2. /\ o' \in [Openers -> Opener] /\ o'[x].pc = "idle"
        /\ \A y \in Openers : y # x => o'[y] = o[y]
    BY <1>0, <2>1, Moves DEF Outside
  <2>3. TableIsExact' /\ OneInTable'
    BY <2>1, <2>2, TableKept DEF InTable
  <2>4. LockIsHeld'
    BY <1>0, <2>1, <2>2 DEF LockIsHeld
  <2> QED BY <1>0, <2>1, <2>2, <2>3, <2>4 DEF LockInv, TypeOK
<1>8. ASSUME NEW p \in Processes, Exit(p) PROVE LockInv'
  <2>1. /\ locked_files' = locked_files \ {p} /\ UNCHANGED <<lockFile, files>>
        /\ owner' = [f \in DOMAIN owner |-> IF owner[f] = p THEN "none" ELSE owner[f]]
        /\ o' = [x \in Openers |-> IF ProcessOf[x] = p THEN [Idle EXCEPT !.tries = o[x].tries] ELSE o[x]]
    BY <1>8 DEF Exit
  <2>2. \A x \in Openers : IF ProcessOf[x] = p THEN o'[x].pc = "idle" ELSE o'[x] = o[x]
    BY <2>1 DEF Idle
  <2>3. o' \in [Openers -> Opener]
    BY <1>0, <2>1 DEF Idle, Opener, Outside
  <2>4. owner' \in [1 .. MaxFiles -> Processes \union {"none"}] /\ locked_files' \subseteq Processes
    BY <1>0, <2>1 DEF TypeOK
  <2>5. TableIsExact'
    BY <1>0, <2>1, <2>2 DEF TableIsExact, InTable
  <2>6. OneInTable'
    BY <1>0, <2>2 DEF OneInTable, InTable
  <2>7. LockIsHeld'
    <3>1. \A f \in DOMAIN owner' : f \in DOMAIN owner /\ (owner'[f] # "none" => owner'[f] = owner[f] /\ owner[f] # p)
      BY <2>1
    <3> QED BY <1>0, <2>2, <3>1 DEF LockIsHeld
  <2> QED BY <1>0, <2>1, <2>3, <2>4, <2>5, <2>6, <2>7 DEF LockInv, TypeOK
<1> QED BY <1>1, <1>2, <1>3, <1>4, <1>5, <1>6, <1>7, <1>8 DEF Next

-----------------------------------------------------------------------------
(* Exclusion.  Within a process the table keeps openers apart, whatever they    *)
(* do.  Between processes the record lock does, as long as each process has one *)
(* opener and nobody deletes the file (README, section 6).                      *)
OneProcessOnly == \A x, y \in Openers : ProcessOf[x] = ProcessOf[y]
OneOpenerEach ==
    ~MayDestroy /\ \A x, y \in Openers : ProcessOf[x] = ProcessOf[y] => x = y

(* With one opener each, no holder has lost the record lock of the LOCK file.   *)
FileStays ==
    /\ \A x \in Openers : ~o[x].destroy /\ o[x].pc # "delete"
    /\ \A x \in Openers : o[x].pc # "idle" => o[x].file = lockFile
    /\ lockFile \in 1 .. MaxFiles \/ (lockFile = 0 /\ files = 0 /\ \A x \in Openers : o[x].pc = "idle")
HoldersOwn == FileStays /\ \A x \in Holders : owner[lockFile] = ProcessOf[x]

LEMMA OwnInit == ASSUME ProcessesAreNamed, Init PROVE HoldersOwn
  BY DEF ProcessesAreNamed, Init, Idle, HoldersOwn, FileStays, Holders

LEMMA OwnStep ==
    ASSUME ProcessesAreNamed, OneOpenerEach, MaxFiles \in Nat, LockInv, HoldersOwn, [Next]_vars
    PROVE  HoldersOwn'
<1>0. /\ TypeOK /\ FileStays /\ \A x \in Openers : o[x].pc = "held" => owner[lockFile] = ProcessOf[x]
      /\ \A x \in Openers : o[x] \in Opener /\ ProcessOf[x] \in Processes /\ ProcessOf[x] # "none"
      /\ \A x, y \in Openers : ProcessOf[x] = ProcessOf[y] => x = y
  BY DEF LockInv, TypeOK, ProcessesAreNamed, HoldersOwn, Holders, OneOpenerEach
<1>1. CASE UNCHANGED vars
  BY <1>0, <1>1 DEF vars, HoldersOwn, FileStays, Holders
<1>2. ASSUME NEW x \in Openers, NEW destroy \in BOOLEAN, Open(x, destroy) PROVE HoldersOwn'
  <2> DEFINE f == IF lockFile = 0 THEN files + 1 ELSE lockFile
             r == [pc |-> "opened", file |-> f, destroy |-> destroy, tries |-> o[x].tries + 1]
  <2>1. /\ o[x].pc = "idle" /\ lockFile' = f /\ ~destroy /\ (lockFile = 0 => files < MaxFiles)
        /\ o' = [o EXCEPT ![x] = r] /\ owner' = owner
    BY <1>2 DEF Open, OneOpenerEach
  <2>2. o'[x] = r /\ \A y \in Openers : y # x => o'[y] = o[y]
    BY <1>0, <2>1 DEF TypeOK
  <2>3. lockFile' \in 1 .. MaxFiles /\ (lockFile # 0 => lockFile' = lockFile)
    BY <1>0, <2>1 DEF FileStays
  <2>4. lockFile = 0 => \A y \in Openers : o[y].pc = "idle"
    BY <1>0 DEF FileStays
  <2>5. FileStays'
    BY <1>0, <2>1, <2>2, <2>3, <2>4 DEF FileStays
  <2>6. \A y \in Openers : o'[y].pc = "held" => owner'[lockFile'] = ProcessOf[y]
    BY <1>0, <2>1, <2>2, <2>3, <2>4
  <2> QED BY <2>5, <2>6 DEF HoldersOwn, Holders
<1>3. ASSUME NEW x \in Openers, o[x].pc # "idle", NEW pc \in InTable \union (Outside \ {"delete"}),
             Goto(x, pc), lockFile' = lockFile, files' = files,
             \A y \in Openers : o'[y].pc = "held" => owner'[lockFile] = ProcessOf[y]
      PROVE  HoldersOwn'
  <2>1. /\ o'[x].pc = pc /\ o'[x].file = o[x].file /\ o'[x].destroy = o[x].destroy
        /\ \A y \in Openers : y # x => o'[y] = o[y]
    BY <1>0, <1>3, Moves
  <2>2. lockFile \in 1 .. MaxFiles /\ pc # "delete"
    BY <1>0, <1>3 DEF FileStays, InTable
  <2>3. FileStays'
    BY <1>0, <1>3, <2>1, <2>2 DEF FileStays
  <2> QED BY <1>3, <2>3 DEF HoldersOwn, Holders
<1>4. ASSUME NEW x \in Openers, NEW pc \in InTable \union (Outside \ {"delete"}), pc # "held",
             o[x].pc # "idle",
             Goto(x, pc), lockFile' = lockFile, files' = files, owner' = owner \/ CloseFd(x)
      PROVE  HoldersOwn'
  <2>1. o'[x].pc = pc /\ \A y \in Openers : y # x => o'[y] = o[y]
    BY <1>0, <1>4, Moves
  <2>2. ASSUME NEW y \in Openers, o'[y].pc = "held" PROVE owner'[lockFile] = ProcessOf[y]
    <3>1. y # x /\ o[y].pc = "held" /\ owner[lockFile] = ProcessOf[y] /\ ProcessOf[y] # ProcessOf[x]
      BY <1>0, <1>4, <2>1, <2>2
    <3>2. lockFile \in 1 .. MaxFiles
      BY <1>0, <3>1 DEF FileStays
    <3> QED BY <1>0, <1>4, <3>1, <3>2 DEF CloseFd, TypeOK
  <2> QED BY <1>3, <1>4, <2>2
<1>5. ASSUME NEW x \in Openers, SetLock(x) PROVE HoldersOwn'
  <2>1. o[x].pc = "inserted" /\ UNCHANGED <<lockFile, files, locked_files>>
    BY <1>5 DEF SetLock
  <2>2. o[x].file = lockFile /\ lockFile \in 1 .. MaxFiles
    BY <1>0, <2>1 DEF FileStays
  <2>3. CASE owner[o[x].file] \in {"none", ProcessOf[x]}
    <3>1. Goto(x, "held") /\ owner' = [owner EXCEPT ![o[x].file] = ProcessOf[x]]
      BY <1>5, <2>3 DEF SetLock
    <3>2. o'[x].pc = "held" /\ \A y \in Openers : y # x => o'[y] = o[y]
      BY <1>0, <3>1, Moves DEF InTable
    <3>3. owner'[lockFile] = ProcessOf[x]
      BY <1>0, <2>2, <3>1 DEF TypeOK
    <3>4. \A y \in Openers : o'[y].pc = "held" => y = x
      BY <1>0, <2>2, <2>3, <3>2
    <3> QED BY <1>3, <2>1, <3>1, <3>3, <3>4 DEF InTable
  <2>4. CASE owner[o[x].file] \notin {"none", ProcessOf[x]}
    BY <1>4, <1>5, <2>1, <2>4 DEF SetLock, InTable
  <2> QED BY <2>3, <2>4
<1>6. ASSUME NEW x \in Openers,
             \/ Insert(x) \/ CloseRefused(x) \/ CloseBusy(x) \/ RemoveBusy(x)
             \/ Unlock(x) \/ Remove(x) \/ Close(x)
      PROVE  HoldersOwn'
  <2>1. PICK pc \in InTable \union (Outside \ {"delete"}) :
           /\ pc # "held" /\ o[x].pc # "idle" /\ Goto(x, pc)
           /\ UNCHANGED <<lockFile, files>> /\ (owner' = owner \/ CloseFd(x))
    BY <1>0, <1>6 DEF Insert, CloseRefused, CloseBusy, RemoveBusy, Unlock, Remove, Close, InTable, Outside, FileStays
  <2> QED BY <1>4, <2>1
<1>7. ASSUME NEW x \in Openers, DeleteLockFile(x) PROVE HoldersOwn'
  BY <1>0, <1>7 DEF DeleteLockFile, FileStays
<1>8. ASSUME NEW p \in Processes, Exit(p) PROVE HoldersOwn'
  <2>1. /\ UNCHANGED <<lockFile, files>>
        /\ owner' = [f \in DOMAIN owner |-> IF owner[f] = p THEN "none" ELSE owner[f]]
        /\ o' = [x \in Openers |-> IF ProcessOf[x] = p THEN [Idle EXCEPT !.tries = o[x].tries] ELSE o[x]]
    BY <1>8 DEF Exit
  <2>2. \A x \in Openers : IF ProcessOf[x] = p THEN o'[x].pc = "idle" /\ ~o'[x].destroy ELSE o'[x] = o[x]
    BY <2>1 DEF Idle
  <2>3. FileStays'
    BY <1>0, <2>1, <2>2 DEF FileStays
  <2>4. ASSUME NEW x \in Openers, o'[x].pc = "held" PROVE owner'[lockFile'] = ProcessOf[x]
    <3>1. o[x].pc = "held" /\ ProcessOf[x] # p /\ owner[lockFile] = ProcessOf[x]
      BY <1>0, <2>2, <2>4
    <3>2. lockFile \in 1 .. MaxFiles
      BY <1>0, <3>1 DEF FileStays
    <3> QED BY <1>0, <2>1, <3>1, <3>2 DEF TypeOK
  <2> QED BY <2>3, <2>4 DEF HoldersOwn, Holders
<1> QED BY <1>1, <1>2, <1>5, <1>6, <1>7, <1>8 DEF Next

(* At most one is what the cardinality says. *)
LEMMA AtMostOne ==
    ASSUME \A x, y \in Holders : x = y PROVE OneUser
<1>1. CASE Holders = {}
  BY <1>1, FS_EmptySet DEF OneUser
<1>2. CASE Holders # {}
  <2>1. PICK x \in Holders : TRUE
    BY <1>2
  <2>2. Holders = {x}
    BY <2>1
  <2>3. Cardinality({x}) = 1
    BY FS_Singleton
  <2> QED BY <2>2, <2>3 DEF OneUser
<1> QED BY <1>1, <1>2

(* No failed attempt, release or exit leaves the name in the table or a record  *)
(* lock behind, for any openers, files and processes, DestroyDB included.       *)
THEOREM UnusedLocksAreFree ==
    ASSUME ProcessesAreNamed
    PROVE  Spec => []UnusedIsFree
<1>1. Init => LockInv
  BY LockInit
<1>2. LockInv /\ [Next]_vars => LockInv'
  BY LockStep
<1>3. LockInv => UnusedIsFree
  <2> SUFFICES ASSUME LockInv, NEW p \in Processes,
                      \A x \in Openers : ProcessOf[x] = p => o[x].pc = "idle"
               PROVE  p \notin locked_files /\ \A f \in DOMAIN owner : owner[f] # p
    BY DEF UnusedIsFree
  <2>1. p \notin locked_files
    BY DEF LockInv, TableIsExact, InTable
  <2>2. ASSUME NEW f \in DOMAIN owner PROVE owner[f] # p
    BY DEF LockInv, LockIsHeld, ProcessesAreNamed
  <2> QED BY <2>1, <2>2
<1> QED BY <1>1, <1>2, <1>3, PTL DEF Spec

(* The database has one user: among the threads of one process always, and      *)
(* among processes with an opener each as long as nobody deletes the LOCK file. *)
THEOREM LockExcludes ==
    ASSUME ProcessesAreNamed, MaxFiles \in Nat, OneProcessOnly \/ OneOpenerEach
    PROVE  Spec => []OneUser
<1> DEFINE I == LockInv /\ (OneOpenerEach => HoldersOwn)
<1>1. Init => I
  BY LockInit, OwnInit
<1>2. I /\ [Next]_vars => I'
  <2> SUFFICES ASSUME I, [Next]_vars PROVE I'
    OBVIOUS
  <2>1. LockInv'
    BY LockStep
  <2>2. CASE OneOpenerEach
    BY <2>1, <2>2, OwnStep
  <2>3. CASE ~OneOpenerEach
    BY <2>1, <2>3
  <2> QED BY <2>2, <2>3
<1>3. I => OneUser
  <2> SUFFICES ASSUME I, NEW x \in Holders, NEW y \in Holders PROVE x = y
    BY AtMostOne
  <2>1. ProcessOf[x] = ProcessOf[y]
    <3>1. x \in Openers /\ y \in Openers
      BY DEF Holders
    <3>2. CASE OneProcessOnly
      BY <3>1, <3>2 DEF OneProcessOnly
    <3>3. CASE OneOpenerEach
      BY <3>3 DEF HoldersOwn
    <3> QED BY <3>2, <3>3
  <2> QED BY <2>1 DEF Holders, LockInv, OneInTable, InTable
<1> QED BY <1>1, <1>2, <1>3, PTL DEF Spec

(* For any openers, processes and files, DestroyDB included: the users who have *)
(* the record lock of a LOCK file are one.                                      *)
THEOREM LockedUsers ==
    ASSUME ProcessesAreNamed
    PROVE  Spec => []LockedUsersAreOne
<1>1. Init => LockInv
  BY LockInit
<1>2. LockInv /\ [Next]_vars => LockInv'
  BY LockStep
<1>3. LockInv => LockedUsersAreOne
  BY DEF LockInv, OneInTable, InTable, LockedUsersAreOne, HasTheLock
<1> QED BY <1>1, <1>2, <1>3, PTL DEF Spec

(* A file that is open was named LOCK once.                                     *)
FilesAreKnown ==
    /\ files <= MaxFiles
    /\ \A x \in Openers : o[x].pc # "idle" => o[x].file \in 1 .. MaxFiles

LEMMA FilesInit == ASSUME MaxFiles \in Nat, Init PROVE FilesAreKnown
  BY DEF Init, Idle, FilesAreKnown

LEMMA FilesStep ==
    ASSUME ProcessesAreNamed, MaxFiles \in Nat, LockInv, FilesAreKnown, [Next]_vars
    PROVE  FilesAreKnown'
<1>0. TypeOK /\ files \in Nat /\ lockFile \in Nat /\ lockFile <= files /\ files <= MaxFiles
  BY DEF LockInv, TypeOK, FilesAreKnown
<1>1. CASE UNCHANGED vars
  BY <1>1 DEF vars, FilesAreKnown
<1>2. ASSUME NEW x \in Openers, NEW destroy \in BOOLEAN, Open(x, destroy) PROVE FilesAreKnown'
  <2> DEFINE f == IF lockFile = 0 THEN files + 1 ELSE lockFile
  <2>1. /\ lockFile = 0 => files < MaxFiles
        /\ files' = IF f > files THEN f ELSE files
        /\ o' = [o EXCEPT ![x] = [pc |-> "opened", file |-> f, destroy |-> destroy,
                                 tries |-> @.tries + 1]]
    BY <1>2 DEF Open
  <2>2. f \in 1 .. MaxFiles /\ files' <= MaxFiles
    BY <1>0, <2>1
  <2>3. o'[x].file = f /\ \A y \in Openers \ {x} : o'[y] = o[y]
    BY <1>0, <2>1 DEF TypeOK
  <2> QED BY <2>2, <2>3 DEF FilesAreKnown
<1>3. ASSUME NEW x \in Openers, o[x].pc # "idle", NEW pc \in InTable \union Outside,
             Goto(x, pc), files' = files
      PROVE  FilesAreKnown'
  <2>1. o'[x].file = o[x].file /\ \A y \in Openers \ {x} : o'[y] = o[y]
    BY <1>0, <1>3, Moves
  <2> QED BY <1>0, <1>3, <2>1 DEF FilesAreKnown
<1>4. ASSUME NEW x \in Openers,
             \/ Insert(x) \/ SetLock(x) \/ CloseRefused(x) \/ CloseBusy(x) \/ RemoveBusy(x)
             \/ Unlock(x) \/ Remove(x) \/ Close(x) \/ DeleteLockFile(x)
      PROVE  FilesAreKnown'
  <2>1. PICK pc \in InTable \union Outside : o[x].pc # "idle" /\ Goto(x, pc) /\ files' = files
    BY <1>4 DEF Insert, SetLock, CloseRefused, CloseBusy, RemoveBusy, Unlock, Remove, Close,
                DeleteLockFile, InTable, Outside
  <2> QED BY <1>3, <2>1
<1>5. ASSUME NEW p \in Processes, Exit(p) PROVE FilesAreKnown'
  BY <1>0, <1>5 DEF Exit, Idle, FilesAreKnown
<1> QED BY <1>1, <1>2, <1>4, <1>5 DEF Next

(* A step that closes no descriptor takes no lock from a user: SetLock writes   *)
(* only over "none" or its own process, and an exit ends the users it takes     *)
(* locks from.                                                                  *)
LEMMA OthersKeep ==
    ASSUME ProcessesAreNamed, LockInv, FilesAreKnown, Next, NEW x \in Openers, LosesTheLock(x)
    PROVE  \E y \in Openers \ {x} :
               ProcessOf[y] = ProcessOf[x] /\ o[y].file = o[x].file /\ StrayClose(y)
<1> DEFINE Goal == \E y \in Openers \ {x} :
               ProcessOf[y] = ProcessOf[x] /\ o[y].file = o[x].file /\ StrayClose(y)
<1>0. /\ TypeOK /\ OneInTable
      /\ o[x].file \in 1 .. MaxFiles
      /\ o[x].pc = "held" /\ o'[x].pc = "held"
      /\ owner[o[x].file] = ProcessOf[x] /\ owner'[o'[x].file] # ProcessOf[x]
  BY DEF LockInv, LosesTheLock, HasTheLock, FilesAreKnown
<1>1. ASSUME NEW y \in Openers, UNCHANGED owner, y # x => o'[x] = o[x],
             o[y].pc # "held"
      PROVE  Goal
  BY <1>0, <1>1
<1>2. ASSUME NEW y \in Openers, NEW destroy \in BOOLEAN, Open(y, destroy) PROVE Goal
  BY <1>0, <1>1, <1>2 DEF Open, TypeOK
<1>3. ASSUME NEW y \in Openers,
             Insert(y) \/ RemoveBusy(y) \/ Remove(y) \/ DeleteLockFile(y)
      PROVE  Goal
  BY <1>0, <1>1, <1>3 DEF Insert, RemoveBusy, Remove, DeleteLockFile, Goto, TypeOK
<1>4. ASSUME NEW y \in Openers, SetLock(y) PROVE Goal
  <2>1. y # x /\ o'[x] = o[x]
    BY <1>0, <1>4 DEF SetLock, Goto, TypeOK
  <2>2. owner'[o[x].file] = owner[o[x].file] \/ o[y].file = o[x].file
    BY <1>0, <1>4 DEF SetLock, TypeOK
  <2>3. o[y].file = o[x].file /\ owner[o[y].file] \in {"none", ProcessOf[y]}
        /\ owner' = [owner EXCEPT ![o[y].file] = ProcessOf[y]]
    BY <1>0, <1>4, <2>1, <2>2 DEF SetLock
  <2>4. ProcessOf[x] # "none" /\ ProcessOf[x] = ProcessOf[y]
    BY <1>0, <2>3 DEF ProcessesAreNamed
  <2> QED BY <1>0, <1>4, <2>1, <2>4 DEF SetLock, OneInTable, InTable
<1>5. ASSUME NEW y \in Openers, CloseRefused(y) \/ CloseBusy(y) \/ Unlock(y) \/ Close(y) PROVE Goal
  <2>0. PICK pc \in {"idle", "busyClosed", "unlocked", "delete"} : Goto(y, pc) /\ CloseFd(y)
    BY <1>5 DEF CloseRefused, CloseBusy, Unlock, Close
  <2>1. y # x /\ o'[x] = o[x] /\ CloseFd(y)
    BY <1>0, <2>0 DEF Goto, TypeOK, Opener
  <2>2. o[y].file = o[x].file /\ ProcessOf[y] = ProcessOf[x]
    BY <1>0, <2>1 DEF CloseFd, TypeOK
  <2>3. o[y].pc \notin InTable
    BY <1>0, <2>1, <2>2 DEF OneInTable, InTable
  <2> QED BY <1>5, <2>1, <2>2, <2>3 DEF CloseBusy, Unlock, InTable, StrayClose
<1>6. ASSUME NEW p \in Processes, Exit(p) PROVE Goal
  <2>1. ProcessOf[x] # p /\ o'[x] = o[x]
    BY <1>0, <1>6 DEF Exit, Idle
  <2> QED BY <1>0, <1>6, <2>1 DEF Exit, TypeOK
<1> QED BY <1>2, <1>3, <1>4, <1>5, <1>6 DEF Next

(* For any openers, processes and files, DestroyDB included: what takes the     *)
(* record lock from a user is the close of another descriptor of the file in    *)
(* its own process, outside the table (UnlockFile, or a refused LockFile), and  *)
(* nothing else.                                                                *)
THEOREM OnlyStrayCloses ==
    ASSUME ProcessesAreNamed, MaxFiles \in Nat
    PROVE  Spec => OnlyStrayClosesUnlock
<1> DEFINE Inv == LockInv /\ FilesAreKnown
<1>1. Init => Inv
  BY LockInit, FilesInit
<1>2. Inv /\ [Next]_vars => Inv'
  BY LockStep, FilesStep
<1>3. Inv /\ [Next]_vars => [LossIsStray]_vars
  BY OthersKeep DEF LossIsStray
<1> QED BY <1>1, <1>2, <1>3, PTL DEF Spec, OnlyStrayClosesUnlock
=============================================================================
