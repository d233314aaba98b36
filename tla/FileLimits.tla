----------------------------- MODULE FileLimits -----------------------------
(* leveldb's util/env_posix.cc: files opened for random access by many threads. *)
(* A file is mapped while the limit for maps lasts, keeps its descriptor while  *)
(* the limit for descriptors lasts, and is opened again for every read after.   *)
EXTENDS Integers, FiniteSets, FiniteSetsExt, TLAPS, FiniteSetTheorems

CONSTANTS
    Threads,
    MaxMmaps,      \* MaxMmaps()
    MaxOpenFiles,  \* MaxOpenFiles()
    MaxHandles     \* bound: open files

VARIABLES
    mmap_limit,    \* the Limiter of maps: allowed_
    fd_limit,      \* the Limiter of descriptors: allowed_
    fds,           \* the descriptors that are open
    t,             \* where a thread is
    handles        \* open files per kind: "mmap", "fd" and "temporary"

vars == <<mmap_limit, fd_limit, fds, t, handles>>

Kinds == {"mmap", "fd", "temporary"}
NumHandles == MapThenSumSet(LAMBDA k : handles[k], Kinds)

Init ==
    /\ mmap_limit = MaxMmaps /\ fd_limit = MaxOpenFiles
    /\ fds = 0
    /\ t = [x \in Threads |-> "idle"]
    /\ handles = [k \in Kinds |-> 0]

Goto(x, pc) == t' = [t EXCEPT ![x] = pc]

(* The file is open; only the kind "fd" keeps the descriptor.                   *)
Opened(x, kind) ==
    /\ handles' = [handles EXCEPT ![kind] = @ + 1]
    /\ fds' = IF kind = "fd" THEN fds ELSE fds - 1
    /\ Goto(x, "idle")

-----------------------------------------------------------------------------
(* NewRandomAccessFile.  open may fail.                                         *)
Open(x) ==
    /\ t[x] = "idle"
    /\ NumHandles + Cardinality({y \in Threads : t[y] # "idle"}) < MaxHandles
    /\ fds' = fds + 1 /\ Goto(x, "mmap")
    /\ UNCHANGED <<mmap_limit, fd_limit, handles>>

(* Limiter::Acquire looks at allowed_ without the lock first ...                *)
AcquireMmap(x) ==
    /\ t[x] = "mmap"
    /\ Goto(x, IF mmap_limit <= 0 THEN "fdlimit" ELSE "mmapLock")
    /\ UNCHANGED <<mmap_limit, fd_limit, fds, handles>>

(* ... and again with it.                                                       *)
AcquireMmapLocked(x) ==
    /\ t[x] = "mmapLock"
    /\ IF mmap_limit <= 0
       THEN Goto(x, "fdlimit") /\ UNCHANGED mmap_limit
       ELSE mmap_limit' = mmap_limit - 1 /\ Goto(x, "map")
    /\ UNCHANGED <<fd_limit, fds, handles>>

(* GetFileSize and mmap; the descriptor is closed in any case.                  *)
MapFile(x, ok) ==
    /\ t[x] = "map"
    /\ IF ok THEN Opened(x, "mmap")
       ELSE fds' = fds - 1 /\ Goto(x, "release") /\ UNCHANGED handles
    /\ UNCHANGED <<mmap_limit, fd_limit>>

ReleaseFailedMap(x) ==
    /\ t[x] = "release"
    /\ mmap_limit' = mmap_limit + 1 /\ Goto(x, "idle")
    /\ UNCHANGED <<fd_limit, fds, handles>>

(* The constructor of PosixRandomAccessFile.                                    *)
AcquireFd(x) ==
    /\ t[x] = "fdlimit"
    /\ IF fd_limit <= 0 THEN Opened(x, "temporary")
       ELSE Goto(x, "fdLock") /\ UNCHANGED <<fds, handles>>
    /\ UNCHANGED <<mmap_limit, fd_limit>>

AcquireFdLocked(x) ==
    /\ t[x] = "fdLock"
    /\ IF fd_limit <= 0
       THEN Opened(x, "temporary") /\ UNCHANGED fd_limit
       ELSE fd_limit' = fd_limit - 1 /\ Opened(x, "fd")
    /\ UNCHANGED mmap_limit

-----------------------------------------------------------------------------
(* Read of a file without a descriptor opens one, and closes it also when pread *)
(* fails; the other files change nothing.                                       *)
ReadTemporary(x) ==
    /\ t[x] = "idle" /\ handles["temporary"] > 0
    /\ fds' = fds + 1 /\ Goto(x, "pread")
    /\ UNCHANGED <<mmap_limit, fd_limit, handles>>

PRead(x) ==
    /\ t[x] = "pread"
    /\ fds' = fds - 1 /\ Goto(x, "idle")
    /\ UNCHANGED <<mmap_limit, fd_limit, handles>>

(* The destructors.  The thread has taken the last handle of the file out of    *)
(* use; no reader is left in it.                                                *)
CloseHandle(x, kind) ==
    /\ t[x] = "idle" /\ handles[kind] > 0
    /\ kind = "temporary" => \A y \in Threads : t[y] # "pread"
    /\ handles' = [handles EXCEPT ![kind] = @ - 1]
    /\ mmap_limit' = IF kind = "mmap" THEN mmap_limit + 1 ELSE mmap_limit
    /\ fd_limit' = IF kind = "fd" THEN fd_limit + 1 ELSE fd_limit
    /\ fds' = IF kind = "fd" THEN fds - 1 ELSE fds
    /\ UNCHANGED t

Next ==
    \E x \in Threads :
        \/ Open(x) \/ AcquireMmap(x) \/ AcquireMmapLocked(x)
        \/ \E ok \in BOOLEAN : MapFile(x, ok)
        \/ ReleaseFailedMap(x) \/ AcquireFd(x) \/ AcquireFdLocked(x)
        \/ ReadTemporary(x) \/ PRead(x)
        \/ \E kind \in Kinds : CloseHandle(x, kind)

Spec == Init /\ [][Next]_vars

-----------------------------------------------------------------------------
In(pcs) == Cardinality({x \in Threads : t[x] \in pcs})

(* The one type invariant of the module.                                        *)
TypeOK ==
    /\ mmap_limit \in 0 .. MaxMmaps /\ fd_limit \in 0 .. MaxOpenFiles
    /\ fds \in Nat
    /\ handles \in [Kinds -> 0 .. MaxHandles]

(* Nothing that was taken from a limit is lost, whichever step failed: what is  *)
(* allowed and what is in use make up the limit.                                *)
NothingLeaks ==
    /\ mmap_limit + handles["mmap"] + In({"map", "release"}) = MaxMmaps
    /\ fd_limit + handles["fd"] = MaxOpenFiles

(* The descriptors for reading stay within their limit, but for one per thread  *)
(* that is opening or reading a file.                                           *)
FdsAreBounded ==
    fds <= MaxOpenFiles + Cardinality({x \in Threads : t[x] # "idle"})

-----------------------------------------------------------------------------
(* Proofs, for any number of threads and any limits, zero included.             *)

LimitsAreNumbers == IsFiniteSet(Threads) /\ MaxMmaps \in Nat /\ MaxOpenFiles \in Nat

(* Where a thread has a descriptor that is not counted as an open file yet, and *)
(* where it has taken from the limit of maps.                                   *)
Holding == {"mmap", "mmapLock", "map", "fdlimit", "fdLock", "pread"}
Mapping == {"map", "release"}

(* The inductive invariant behind NothingLeaks and FdsAreBounded.               *)
Inv ==
    /\ mmap_limit \in Nat /\ fd_limit \in Nat /\ fds \in Int
    /\ handles \in [Kinds -> Nat]
    /\ t \in [Threads -> Holding \union Mapping \union {"idle"}]
    /\ mmap_limit + handles["mmap"] + In(Mapping) = MaxMmaps
    /\ fd_limit + handles["fd"] = MaxOpenFiles
    /\ fds = handles["fd"] + In(Holding)

One(b) == IF b THEN 1 ELSE 0

(* How many threads are where, when one of them goes on.                        *)
LEMMA Counts ==
    ASSUME IsFiniteSet(Threads), t \in [Threads -> Holding \union Mapping \union {"idle"}],
           NEW x \in Threads, NEW pc \in Holding \union Mapping \union {"idle"}, Goto(x, pc), NEW S
    PROVE  /\ t' \in [Threads -> Holding \union Mapping \union {"idle"}]
           /\ In(S) \in Nat /\ In(S)' = In(S) + One(pc \in S) - One(t[x] \in S)
<1> DEFINE others == {y \in Threads : y # x /\ t[y] \in S}
<1>1. t' \in [Threads -> Holding \union Mapping \union {"idle"}] /\ t'[x] = pc /\ \A y \in Threads : y # x => t'[y] = t[y]
  BY DEF Goto
<1>2. IsFiniteSet(others) /\ Cardinality(others) \in Nat /\ x \notin others
  <2>1. others \subseteq Threads
    OBVIOUS
  <2>2. IsFiniteSet(others)
    BY <2>1, FS_Subset
  <2> QED BY <2>2, FS_CardinalityType
<1>3. Cardinality(others \union {x}) = Cardinality(others) + 1
  <2> HIDE DEF others
  <2> QED BY <1>2, FS_AddElement
<1>4. {y \in Threads : t[y] \in S} = IF t[x] \in S THEN others \union {x} ELSE others
  OBVIOUS
<1>5. {y \in Threads : t'[y] \in S} = IF pc \in S THEN others \union {x} ELSE others
  BY <1>1
<1> HIDE DEF others
<1>6. \A b \in BOOLEAN : Cardinality(IF b THEN others \union {x} ELSE others) = Cardinality(others) + One(b)
  BY <1>2, <1>3 DEF One
<1>7. In(S) = Cardinality(others) + One(t[x] \in S) /\ In(S)' = Cardinality(others) + One(pc \in S)
  <2>1. In(S) = Cardinality(IF t[x] \in S THEN others \union {x} ELSE others)
    BY <1>4 DEF In
  <2>2. In(S)' = Cardinality(IF pc \in S THEN others \union {x} ELSE others)
    BY <1>5 DEF In
  <2>3. (t[x] \in S) \in BOOLEAN /\ (pc \in S) \in BOOLEAN
    OBVIOUS
  <2> QED BY <1>6, <2>1, <2>2, <2>3
<1>8. One(t[x] \in S) \in Nat /\ One(pc \in S) \in Nat
  BY DEF One
<1>9. In(S) \in Nat /\ In(S)' = In(S) + One(pc \in S) - One(t[x] \in S)
  BY <1>2, <1>7, <1>8
<1> QED BY <1>1, <1>9

LEMMA InvInit == ASSUME LimitsAreNumbers, Init PROVE Inv
<1>1. \A S : "idle" \notin S => In(S) = 0
  <2> SUFFICES ASSUME NEW S, "idle" \notin S PROVE In(S) = 0
    OBVIOUS
  <2>1. {x \in Threads : t[x] \in S} = {}
    BY DEF Init
  <2> QED BY <2>1, FS_EmptySet DEF In
<1>2. In(Mapping) = 0 /\ In(Holding) = 0
  BY <1>1 DEF Mapping, Holding
<1>3. handles["mmap"] = 0 /\ handles["fd"] = 0 /\ handles \in [Kinds -> Nat]
  BY DEF Init, Kinds
<1>4. t \in [Threads -> Holding \union Mapping \union {"idle"}]
  BY DEF Init
<1> QED BY <1>2, <1>3, <1>4 DEF LimitsAreNumbers, Init, Inv

(* A thread that goes on, with what it takes from a limit or gives back.        *)
LEMMA Accounts ==
    ASSUME LimitsAreNumbers, Inv, NEW x \in Threads,
           NEW pc \in Holding \union Mapping \union {"idle"}, Goto(x, pc),
           mmap_limit' \in Nat, fd_limit' \in Nat, handles' \in [Kinds -> Nat],
           mmap_limit' + handles'["mmap"] + One(pc \in Mapping)
              = mmap_limit + handles["mmap"] + One(t[x] \in Mapping),
           fd_limit' + handles'["fd"] = fd_limit + handles["fd"],
           fds' \in Int,
           fds' - handles'["fd"] - One(pc \in Holding) = fds - handles["fd"] - One(t[x] \in Holding)
    PROVE  Inv'
<1>1. /\ t' \in [Threads -> Holding \union Mapping \union {"idle"}]
      /\ In(Mapping) \in Nat /\ In(Mapping)' = In(Mapping) + One(pc \in Mapping) - One(t[x] \in Mapping)
      /\ In(Holding) \in Nat /\ In(Holding)' = In(Holding) + One(pc \in Holding) - One(t[x] \in Holding)
  BY Counts DEF Inv, LimitsAreNumbers
<1>2. /\ handles["mmap"] \in Nat /\ handles["fd"] \in Nat
      /\ handles'["mmap"] \in Nat /\ handles'["fd"] \in Nat
  BY DEF Inv, Kinds
<1>3. /\ One(pc \in Mapping) \in Int /\ One(t[x] \in Mapping) \in Int
      /\ One(pc \in Holding) \in Int /\ One(t[x] \in Holding) \in Int
  BY DEF One
<1>4. /\ mmap_limit + handles["mmap"] + In(Mapping) = MaxMmaps
      /\ fd_limit + handles["fd"] = MaxOpenFiles
      /\ fds = handles["fd"] + In(Holding)
      /\ mmap_limit \in Nat /\ fd_limit \in Nat /\ fds \in Int /\ MaxMmaps \in Nat
  BY DEF Inv, LimitsAreNumbers
<1>5. mmap_limit' + handles'["mmap"] + In(Mapping)' = MaxMmaps
  BY <1>1, <1>2, <1>3, <1>4
<1>6. fd_limit' + handles'["fd"] = MaxOpenFiles
  BY <1>4
<1>7. fds' = handles'["fd"] + In(Holding)'
  BY <1>1, <1>2, <1>3, <1>4
<1> QED BY <1>1, <1>5, <1>6, <1>7 DEF Inv

LEMMA InvStep == ASSUME LimitsAreNumbers, Inv, [Next]_vars PROVE Inv'
<1>0. /\ mmap_limit \in Nat /\ fd_limit \in Nat /\ fds \in Int /\ handles \in [Kinds -> Nat]
      /\ \A k \in Kinds : handles[k] \in Nat
  BY DEF Inv
<1>1. CASE UNCHANGED vars
  <2>1. In(Mapping)' = In(Mapping) /\ In(Holding)' = In(Holding)
    BY <1>1 DEF vars, In
  <2> QED BY <1>1, <2>1 DEF vars, Inv
<1>2. ASSUME NEW x \in Threads, Open(x) \/ ReadTemporary(x) PROVE Inv'
  <2>1. PICK pc \in {"mmap", "pread"} :
           t[x] = "idle" /\ fds' = fds + 1 /\ Goto(x, pc) /\ UNCHANGED <<mmap_limit, fd_limit, handles>>
    BY <1>2 DEF Open, ReadTemporary
  <2> QED BY <1>0, <2>1, Accounts DEF One, Holding, Mapping, Kinds
<1>3. ASSUME NEW x \in Threads, AcquireMmap(x) PROVE Inv'
  <2>1. PICK pc \in {"fdlimit", "mmapLock"} :
           t[x] = "mmap" /\ Goto(x, pc) /\ UNCHANGED <<mmap_limit, fd_limit, fds, handles>>
    BY <1>3 DEF AcquireMmap
  <2> QED BY <1>0, <2>1, Accounts DEF One, Holding, Mapping, Kinds
<1>4. ASSUME NEW x \in Threads, AcquireMmapLocked(x) PROVE Inv'
  <2>1. t[x] = "mmapLock" /\ UNCHANGED <<fd_limit, fds, handles>>
    BY <1>4 DEF AcquireMmapLocked
  <2>2. CASE mmap_limit <= 0
    <3>1. Goto(x, "fdlimit") /\ mmap_limit' = mmap_limit
      BY <1>4, <2>2 DEF AcquireMmapLocked
    <3> QED BY <1>0, <2>1, <3>1, Accounts DEF One, Holding, Mapping, Kinds
  <2>3. CASE ~(mmap_limit <= 0)
    <3>1. Goto(x, "map") /\ mmap_limit' = mmap_limit - 1 /\ mmap_limit' \in Nat
      BY <1>0, <1>4, <2>3 DEF AcquireMmapLocked
    <3> QED BY <1>0, <2>1, <3>1, Accounts DEF One, Holding, Mapping, Kinds
  <2> QED BY <2>2, <2>3
<1>6. ASSUME NEW x \in Threads, NEW ok \in BOOLEAN, MapFile(x, ok) PROVE Inv'
  <2>1. t[x] = "map" /\ UNCHANGED <<mmap_limit, fd_limit>> /\ fds' = fds - 1
    BY <1>6 DEF MapFile, Opened
  <2>2. CASE ok
    <3>1. handles' = [handles EXCEPT !["mmap"] = @ + 1] /\ Goto(x, "idle")
      BY <1>6, <2>2 DEF MapFile, Opened
    <3>2. /\ handles' \in [Kinds -> Nat] /\ handles'["mmap"] = handles["mmap"] + 1
          /\ handles'["fd"] = handles["fd"]
      BY <1>0, <3>1 DEF Kinds
    <3> QED BY <1>0, <2>1, <3>1, <3>2, Accounts DEF One, Holding, Mapping, Kinds
  <2>3. CASE ~ok
    <3>1. Goto(x, "release") /\ handles' = handles
      BY <1>6, <2>3 DEF MapFile
    <3> QED BY <1>0, <2>1, <3>1, Accounts DEF One, Holding, Mapping, Kinds
  <2> QED BY <2>2, <2>3
<1>7. ASSUME NEW x \in Threads, ReleaseFailedMap(x) PROVE Inv'
  <2>1. /\ t[x] = "release" /\ mmap_limit' = mmap_limit + 1 /\ Goto(x, "idle")
        /\ UNCHANGED <<fd_limit, fds, handles>>
    BY <1>7 DEF ReleaseFailedMap
  <2> QED BY <1>0, <2>1, Accounts DEF One, Holding, Mapping, Kinds
<1>8. ASSUME NEW x \in Threads, t[x] \in {"fdlimit", "fdLock"}, Opened(x, "temporary"),
             UNCHANGED <<mmap_limit, fd_limit>>
      PROVE  Inv'
  <2>1. handles' = [handles EXCEPT !["temporary"] = @ + 1] /\ Goto(x, "idle") /\ fds' = fds - 1
    BY <1>8 DEF Opened
  <2>2. /\ handles' \in [Kinds -> Nat] /\ handles'["mmap"] = handles["mmap"]
        /\ handles'["fd"] = handles["fd"]
    BY <1>0, <2>1 DEF Kinds
  <2> QED BY <1>0, <1>8, <2>1, <2>2, Accounts DEF One, Holding, Mapping, Kinds
<1>9. ASSUME NEW x \in Threads, AcquireFd(x) PROVE Inv'
  <2>1. t[x] = "fdlimit" /\ UNCHANGED <<mmap_limit, fd_limit>>
    BY <1>9 DEF AcquireFd
  <2>2. CASE fd_limit <= 0
    BY <1>8, <1>9, <2>1, <2>2 DEF AcquireFd
  <2>3. CASE ~(fd_limit <= 0)
    <3>1. Goto(x, "fdLock") /\ UNCHANGED <<fds, handles>>
      BY <1>9, <2>3 DEF AcquireFd
    <3> QED BY <1>0, <2>1, <3>1, Accounts DEF One, Holding, Mapping, Kinds
  <2> QED BY <2>2, <2>3
<1>10. ASSUME NEW x \in Threads, AcquireFdLocked(x) PROVE Inv'
  <2>1. t[x] = "fdLock" /\ mmap_limit' = mmap_limit
    BY <1>10 DEF AcquireFdLocked
  <2>2. CASE fd_limit <= 0
    BY <1>8, <1>10, <2>1, <2>2 DEF AcquireFdLocked
  <2>3. CASE ~(fd_limit <= 0)
    <3>1. /\ fd_limit' = fd_limit - 1 /\ fd_limit' \in Nat /\ fds' = fds /\ Goto(x, "idle")
          /\ handles' = [handles EXCEPT !["fd"] = @ + 1]
      BY <1>0, <1>10, <2>3 DEF AcquireFdLocked, Opened
    <3>2. /\ handles' \in [Kinds -> Nat] /\ handles'["mmap"] = handles["mmap"]
          /\ handles'["fd"] = handles["fd"] + 1
      BY <1>0, <3>1 DEF Kinds
    <3> QED BY <1>0, <2>1, <3>1, <3>2, Accounts DEF One, Holding, Mapping, Kinds
  <2> QED BY <2>2, <2>3
<1>11. ASSUME NEW x \in Threads, PRead(x) PROVE Inv'
  <2>1. /\ t[x] = "pread" /\ fds' = fds - 1 /\ Goto(x, "idle")
        /\ UNCHANGED <<mmap_limit, fd_limit, handles>>
    BY <1>11 DEF PRead
  <2> QED BY <1>0, <2>1, Accounts DEF One, Holding, Mapping, Kinds
<1>12. ASSUME NEW x \in Threads, NEW kind \in Kinds, CloseHandle(x, kind) PROVE Inv'
  <2>1. /\ t[x] = "idle" /\ handles[kind] > 0 /\ t' = t
        /\ handles' = [handles EXCEPT ![kind] = @ - 1]
        /\ mmap_limit' = (IF kind = "mmap" THEN mmap_limit + 1 ELSE mmap_limit)
        /\ fd_limit' = (IF kind = "fd" THEN fd_limit + 1 ELSE fd_limit)
        /\ fds' = (IF kind = "fd" THEN fds - 1 ELSE fds)
    BY <1>12 DEF CloseHandle
  <2>2. /\ handles' \in [Kinds -> Nat] /\ handles'[kind] = handles[kind] - 1
        /\ \A k \in Kinds : k # kind => handles'[k] = handles[k]
    BY <1>0, <2>1
  <2>3. Goto(x, "idle")
    BY <2>1 DEF Goto, Inv
  <2>4. /\ mmap_limit' + handles'["mmap"] = mmap_limit + handles["mmap"]
        /\ fd_limit' + handles'["fd"] = fd_limit + handles["fd"]
        /\ fds' - handles'["fd"] = fds - handles["fd"]
    BY <1>0, <2>1, <2>2 DEF Kinds
  <2> QED BY <1>0, <2>1, <2>2, <2>3, <2>4, Accounts DEF One, Holding, Mapping, Kinds
<1> QED BY <1>1, <1>2, <1>3, <1>4, <1>6, <1>7, <1>9, <1>10, <1>11, <1>12 DEF Next

(* What is allowed and what is in use make up both limits, whichever step fails *)
(* in whichever thread.                                                         *)
THEOREM LimitsAreExact ==
    ASSUME LimitsAreNumbers
    PROVE  Spec => []NothingLeaks
<1>1. Init => Inv
  BY InvInit
<1>2. Inv /\ [Next]_vars => Inv'
  BY InvStep
<1>3. Inv => NothingLeaks
  BY DEF Inv, NothingLeaks, Mapping
<1> QED BY <1>1, <1>2, <1>3, PTL DEF Spec

(* However many files are open, no more descriptors are than the limit and the  *)
(* threads at work on a file make up.                                           *)
THEOREM DescriptorsAreBounded ==
    ASSUME LimitsAreNumbers
    PROVE  Spec => []FdsAreBounded
<1>1. Init => Inv
  BY InvInit
<1>2. Inv /\ [Next]_vars => Inv'
  BY InvStep
<1>3. Inv => FdsAreBounded
  <2> SUFFICES ASSUME Inv PROVE FdsAreBounded
    OBVIOUS
  <2> DEFINE working == {x \in Threads : t[x] # "idle"}
             holding == {x \in Threads : t[x] \in Holding}
  <2>1. holding \subseteq working /\ working \subseteq Threads
    BY DEF Holding
  <2>2. IsFiniteSet(working)
    BY <2>1, FS_Subset DEF LimitsAreNumbers
  <2>3. In(Holding) <= Cardinality(working) /\ In(Holding) \in Nat /\ Cardinality(working) \in Nat
    <3> HIDE DEF working
    <3>1. In(Holding) = Cardinality(holding)
      BY DEF In
    <3> HIDE DEF holding
    <3>2. IsFiniteSet(holding) /\ Cardinality(holding) <= Cardinality(working)
      BY <2>1, <2>2, FS_Subset
    <3> QED BY <2>2, <3>1, <3>2, FS_CardinalityType
  <2>4. handles["fd"] \in Nat /\ handles["fd"] <= MaxOpenFiles
    BY DEF Inv, Kinds, LimitsAreNumbers
  <2>5. fds <= MaxOpenFiles + Cardinality(working)
    <3> HIDE DEF working
    <3> QED BY <2>3, <2>4 DEF Inv, LimitsAreNumbers
  <2> QED BY <2>5 DEF FdsAreBounded
<1> QED BY <1>1, <1>2, <1>3, PTL DEF Spec
=============================================================================
