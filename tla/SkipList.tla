------------------------------ MODULE SkipList ------------------------------
(* leveldb's db/skiplist.h: one writer (the callers hold a lock), any number of *)
(* readers without one.  Every load and store of a shared pointer is a step.    *)
(*                                                                              *)
(* Keys are numbers in the order of the comparator; a node is its key, HeadNode *)
(* is head_ and NullNode is NULL, which sorts behind every key.  The links carry    *)
(* release and acquire barriers, so their stores are seen in order; max_height_ *)
(* does not, and a reader may get any value it ever had.  A link of a new node   *)
(* is Garbage until it is stored.                                                *)
EXTENDS Integers, Sequences, FiniteSets, FiniteSetsExt

CONSTANTS
    Keys,          \* a set of numbers > 0
    Readers,
    kMaxHeight,
    MaxOps         \* bound: operations of a reader

HeadNode == 0
NullNode == 1000000
Garbage == -1
Nodes == Keys \union {HeadNode}
Levels == 0 .. kMaxHeight - 1

VARIABLES
    next,          \* the links, per node and level
    heights,       \* the values max_height_ has had
    w,             \* the writer: [pc, key, height, level, prev]
    r,             \* the readers: [pc, x, level, key, node, ops]
    done           \* the keys whose Insert returned

skipVars == <<next, heights, w, r, done>>

NoInsert == [pc |-> "idle", key |-> 0, height |-> 0, level |-> 0, prev |-> [i \in Levels |-> HeadNode]]
NoSearch == [pc |-> "idle", x |-> HeadNode, level |-> 0, key |-> 0, node |-> NullNode, ops |-> 0]

SkipInit ==
    /\ next = [n \in Nodes |-> [i \in Levels |-> IF n = HeadNode THEN NullNode ELSE Garbage]]
    /\ heights = {1}
    /\ w = NoInsert
    /\ r = [p \in Readers |-> NoSearch]
    /\ done = {}

GetMaxHeight == Max(heights)

(* The keys a search at the bottom level meets.                                 *)
RECURSIVE ReachFrom(_, _)
ReachFrom(n, i) == IF n \in {NullNode, Garbage} THEN {} ELSE {n} \union ReachFrom(next[n][i], i)
Linked(i) == ReachFrom(next[HeadNode][i], i)
Published == Linked(0)

-----------------------------------------------------------------------------
(* Insert.  Only the writer changes the list, so its own search, which fills    *)
(* prev, is one step: the last node before the key at every level.              *)

Before(i, key) == Max({n \in Linked(i) \union {HeadNode} : n < key})

InsertBegin(key, height) ==
    /\ w.pc = "idle" /\ key \notin Published
    /\ w' = [pc |-> "height", key |-> key, height |-> height, level |-> 0,
             prev |-> [i \in Levels |-> IF i < GetMaxHeight THEN Before(i, key) ELSE HeadNode]]
    /\ UNCHANGED <<next, heights, r, done>>

SetHeight ==
    /\ w.pc = "height"
    /\ heights' = IF w.height > GetMaxHeight THEN heights \union {w.height} ELSE heights
    /\ w' = [w EXCEPT !.pc = "own"]
    /\ UNCHANGED <<next, r, done>>

(* x->NoBarrier_SetNext                                                         *)
SetOwnNext ==
    /\ w.pc = "own"
    /\ next' = [next EXCEPT ![w.key][w.level] = next[w.prev[w.level]][w.level]]
    /\ w' = [w EXCEPT !.pc = "publish"]
    /\ UNCHANGED <<heights, r, done>>

(* A deviation: the levels are linked from the top.                             *)
PublishFromTop ==
    /\ w.pc = "publish"
    /\ LET i == w.height - 1 - w.level
       IN  next' = [next EXCEPT ![w.prev[i]][i] = w.key,
                                ![w.key] = [l \in Levels |-> IF l = i THEN next[w.prev[l]][l] ELSE @[l]]]
    /\ IF w.level + 1 < w.height
       THEN w' = [w EXCEPT !.pc = "publish", !.level = @ + 1] /\ UNCHANGED done
       ELSE w' = NoInsert /\ done' = done \union {w.key}
    /\ UNCHANGED <<heights, r>>

(* prev[i]->SetNext                                                             *)
Publish ==
    /\ w.pc = "publish"
    /\ next' = [next EXCEPT ![w.prev[w.level]][w.level] = w.key]
    /\ IF w.level + 1 < w.height
       THEN w' = [w EXCEPT !.pc = "own", !.level = @ + 1] /\ UNCHANGED done
       ELSE w' = NoInsert /\ done' = done \union {w.key}
    /\ UNCHANGED <<heights, r>>

-----------------------------------------------------------------------------
(* The readers.  pc is the function a reader is in: FindGreaterOrEqual ("ge"),  *)
(* FindLessThan ("lt"), FindLast ("last") or a single load ("first", "next").   *)

Begin(p, op, key, height) ==
    /\ r[p].pc = "idle" /\ r[p].ops < MaxOps
    /\ r' = [r EXCEPT ![p] = [pc |-> op, x |-> HeadNode, level |-> height - 1, key |-> key,
                              node |-> @.node, ops |-> @.ops + 1]]
    /\ UNCHANGED <<next, heights, w, done>>

Seek(p, key) == \E h \in heights : Begin(p, "ge", key, h)
SeekToFirst(p) == Begin(p, "first", 0, 1)
SeekToLast(p) == \E h \in heights : Begin(p, "last", NullNode, h)
NextNode(p) == r[p].node # NullNode /\ Begin(p, "next", r[p].node, 1)
Prev(p) == r[p].node # NullNode /\ \E h \in heights : Begin(p, "lt", r[p].node, h)

(* Does the search go on along this level?                                      *)
GoesOn(p, n) == IF r[p].pc = "last" THEN n # NullNode ELSE n < r[p].key

(* What the function returns at the bottom; the iterator takes head_ for NULL.  *)
Result(p, n) ==
    IF r[p].pc = "ge" THEN n ELSE IF r[p].x = HeadNode THEN NullNode ELSE r[p].x

Search(p) ==
    /\ r[p].pc \in {"ge", "lt", "last"}
    /\ LET n == next[r[p].x][r[p].level]
       IN  r' = [r EXCEPT ![p] =
                    IF GoesOn(p, n) THEN [@ EXCEPT !.x = n]
                    ELSE IF r[p].level > 0 THEN [@ EXCEPT !.level = @ - 1]
                    ELSE [@ EXCEPT !.pc = "idle", !.node = Result(p, n)]]
    /\ UNCHANGED <<next, heights, w, done>>

Load(p) ==
    /\ r[p].pc \in {"first", "next"}
    /\ LET n == IF r[p].pc = "first" THEN HeadNode ELSE r[p].node
       IN  r' = [r EXCEPT ![p] = [@ EXCEPT !.pc = "idle", !.node = next[n][0]]]
    /\ UNCHANGED <<next, heights, w, done>>

WriterStep == SetHeight \/ SetOwnNext \/ Publish
ReaderStep(p) == Search(p) \/ Load(p)

SkipNext ==
    \/ \E key \in Keys, height \in 1 .. kMaxHeight : InsertBegin(key, height)
    \/ WriterStep
    \/ \E p \in Readers :
           \/ \E key \in Keys : Seek(p, key)
           \/ SeekToFirst(p) \/ SeekToLast(p) \/ NextNode(p) \/ Prev(p)
           \/ ReaderStep(p)

SkipSpec == SkipInit /\ [][SkipNext]_skipVars
SkipFairSpec == SkipSpec /\ \A p \in Readers : WF_skipVars(ReaderStep(p))

-----------------------------------------------------------------------------
(* The one type invariant of the module.                                        *)
SkipTypeOK ==
    /\ heights \subseteq 1 .. kMaxHeight
    /\ \A n \in Nodes, i \in Levels : next[n][i] \in Keys \union {NullNode, Garbage}
    /\ w.pc \in {"idle", "height", "own", "publish"}
    /\ \A p \in Readers : r[p].node \in Keys \union {NullNode}

(* Every level is sorted and holds a part of the level below, also in the       *)
(* middle of an Insert: a search may go down anywhere.                          *)
LevelsAreNested ==
    \A i \in Levels :
        /\ i > 0 => Linked(i) \subseteq Linked(i - 1)
        /\ \A n \in Linked(i) : next[n][i] > n

(* No reader follows a link that was not stored yet.                            *)
ReadersMeetStoredLinks == \A p \in Readers : r[p].x # Garbage /\ r[p].node # Garbage

Answer(p) ==
    LET key == r[p].key
        S   == IF r[p].pc = "ge" THEN {n \in Published : n >= key}
               ELSE IF r[p].pc \in {"first", "next"} THEN {n \in Published : n > key}
               ELSE {n \in Published : n < key}
    IN  IF S = {} THEN NullNode ELSE IF r[p].pc \in {"lt", "last"} THEN Max(S) ELSE Min(S)

Searching(p) == r[p].pc # "idle"
AtomicAnswer == \A p \in Readers : Searching(p) /\ ~Searching(p)' => r'[p].node = Answer(p)

(* An operation of a reader gives the answer that is right for the keys of the  *)
(* list when it reads its last link: an Insert that is under way is seen whole  *)
(* or not at all, whichever of its levels are linked.                           *)
AnswersAreAtomic == [][AtomicAnswer]_skipVars

(* A key whose Insert has returned is found from then on.                       *)
InsertedIsFound == done \subseteq Published

(* A reader's operation ends, however often the writer inserts in front of it.  *)
ReadersFinish == \A p \in Readers : Searching(p) ~> ~Searching(p)
=============================================================================
