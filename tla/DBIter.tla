------------------------------- MODULE DBIter -------------------------------
(* An iterator of the database: db/db_iter.cc over table/merger.cc, over one   *)
(* child for the memtable, which the writer keeps filling, and one per table.  *)
(*                                                                              *)
(* An entry is [u, n, t]: user key, sequence number and type.  A child is where *)
(* it stands (an entry, or None) and its status.  An operation of the DBIter is *)
(* a loop over moves of the merging iterator; every turn of the loop is a step, *)
(* between which the writer may insert.                                          *)
EXTENDS Integers, Sequences, SequencesExt, FiniteSets, FiniteSetsExt

CONSTANTS
    UserKeys,      \* 1 .. n
    MaxTables,     \* bound: tables below the memtable
    MaxSeq,        \* bound: entries written
    MaxMoves,      \* bound: operations of the iterator
    MaxFaults,     \* bound: entries damaged or unreadable
    None

VARIABLES
    mem,           \* the entries of the memtable
    tables,        \* the entries of the tables
    seq,           \* the last sequence number
    lost,          \* entries of tables in blocks that cannot be read
    m,             \* MergingIterator: [pos, st, cur, dir]
    d,             \* DBIter: [open, seq, dir, valid, key, value, st]
    pc,            \* "idle", or the loop the DBIter is in
    skip,          \* FindNextUserEntry: [on, key]; FindPrevUserEntry: the type so far
    ref,           \* the user key it should stand on, 0 for none
    moves

dbVars == <<mem, tables, seq, lost>>
iterVars == <<m, d, pc, skip>>
vars == <<dbVars, iterVars, ref, moves>>

(* The order of internal keys.                                                  *)
Before(a, b) == a.u < b.u \/ (a.u = b.u /\ a.n > b.n)

First(S) == IF S = {} THEN None ELSE CHOOSE e \in S : \A f \in S \ {e} : Before(e, f)
FinalOf(S) == IF S = {} THEN None ELSE CHOOSE e \in S : \A f \in S \ {e} : Before(f, e)

-----------------------------------------------------------------------------
(* A child.  The memtable is child 1 and reads what is there now; a table skips *)
(* what it cannot read and says so.                                             *)

Children == DOMAIN m.pos
Entries(c) == IF c = 1 THEN mem ELSE tables[c - 1]

Land(x, c, up, from) ==
    LET range == IF up THEN {e \in Entries(c) : from = None \/ Before(from, e)}
                 ELSE {e \in Entries(c) : from = None \/ Before(e, from)}
        to    == IF up THEN First(range \ lost) ELSE FinalOf(range \ lost)
        passed == IF to = None THEN range \intersect lost
                  ELSE {e \in range \intersect lost : IF up THEN Before(e, to) ELSE Before(to, e)}
    IN  [x EXCEPT !.pos[c] = to, !.st[c] = IF passed # {} THEN "ioerror" ELSE @]

ChildSeek(x, c, key) ==
    LET range == {e \in Entries(c) : ~Before(e, key)}
        to    == First(range \ lost)
        passed == {e \in range \intersect lost : to = None \/ Before(e, to)}
    IN  [x EXCEPT !.pos[c] = to, !.st[c] = IF passed # {} THEN "ioerror" ELSE @]
ChildSeekToFirst(x, c) == Land(x, c, TRUE, None)
ChildSeekToLast(x, c) == Land(x, c, FALSE, None)
ChildNext(x, c) == Land(x, c, TRUE, x.pos[c])
ChildPrev(x, c) == Land(x, c, FALSE, x.pos[c])

-----------------------------------------------------------------------------
(* MergingIterator.  cur is the current child, 0 for none.                      *)

MergeKey(x) == x.pos[x.cur]
MergeValid(x) == x.cur # 0

Standing(x) == {c \in DOMAIN x.pos : x.pos[c] # None}
FindSmallest(x) ==
    [x EXCEPT !.cur = IF Standing(x) = {} THEN 0
                      ELSE CHOOSE c \in Standing(x) :
                               \A o \in Standing(x) \ {c} : Before(x.pos[c], x.pos[o])]
FindLargest(x) ==
    [x EXCEPT !.cur = IF Standing(x) = {} THEN 0
                      ELSE CHOOSE c \in Standing(x) :
                               \A o \in Standing(x) \ {c} : Before(x.pos[o], x.pos[c])]

EachChild(Op(_, _), x) == FoldLeft(Op, x, [c \in DOMAIN x.pos |-> c])

MergeSeekToFirst(x) == [FindSmallest(EachChild(ChildSeekToFirst, x)) EXCEPT !.dir = "forward"]
MergeSeekToLast(x) == [FindLargest(EachChild(ChildSeekToLast, x)) EXCEPT !.dir = "reverse"]
MergeSeek(x, key) ==
    [FindSmallest(EachChild(LAMBDA y, c : ChildSeek(y, c, key), x)) EXCEPT !.dir = "forward"]

(* A deviation: the other children stay where they are when it turns.           *)
MergeNextNoTurn(x) == FindSmallest(ChildNext([x EXCEPT !.dir = "forward"], x.cur))

(* When it turns, the other children are put behind the current key.            *)
MergeNext(x) ==
    LET Ahead(y, c) ==
            LET s == ChildSeek(y, c, MergeKey(x))
            IN  IF c = x.cur THEN y
                ELSE IF s.pos[c] = MergeKey(x) THEN ChildNext(s, c) ELSE s
        turned == IF x.dir = "forward" THEN x ELSE [EachChild(Ahead, x) EXCEPT !.dir = "forward"]
    IN  FindSmallest(ChildNext(turned, x.cur))

(* ... or in front of it.                                                       *)
MergePrev(x) ==
    LET Back(y, c) ==
            LET s == ChildSeek(y, c, MergeKey(x))
            IN  IF c = x.cur THEN y
                ELSE IF s.pos[c] # None THEN ChildPrev(s, c) ELSE ChildSeekToLast(s, c)
        turned == IF x.dir = "reverse" THEN x ELSE [EachChild(Back, x) EXCEPT !.dir = "reverse"]
    IN  FindLargest(ChildPrev(turned, x.cur))

MergeStatus(x) ==
    LET i == SelectInSeq(x.st, LAMBDA st : st # "ok") IN IF i = 0 THEN "ok" ELSE x.st[i]

-----------------------------------------------------------------------------
NoSkip == [on |-> FALSE, key |-> 0, type |-> "del"]
NoMerge == [pos |-> <<None>>, st |-> <<"ok">>, cur |-> 0, dir |-> "forward"]
NoIter == [open |-> FALSE, seq |-> 0, dir |-> "forward", valid |-> FALSE, key |-> 0, value |-> 0, st |-> "ok"]

Init ==
    /\ mem = {} /\ tables = << >> /\ seq = 0 /\ lost = {}
    /\ m = NoMerge /\ d = NoIter /\ pc = "idle" /\ skip = NoSkip
    /\ ref = 0 /\ moves = 0

(* The rest of the database, before the iterator is made and while it is used. *)
Write(u, t) ==
    /\ seq < MaxSeq
    /\ seq' = seq + 1
    /\ mem' = mem \union {[u |-> u, n |-> seq + 1, t |-> t]}
    /\ UNCHANGED <<tables, lost, iterVars, ref, moves>>

(* A flush, before the iterator is made: afterwards the iterator keeps its      *)
(* memtable and its files.                                                      *)
FlushMem ==
    /\ ~d.open /\ Len(tables) < MaxTables /\ mem # {}
    /\ tables' = <<mem>> \o tables
    /\ mem' = {}
    /\ UNCHANGED <<seq, lost, iterVars, ref, moves>>

(* An entry of a table becomes unreadable, or its type byte is none that        *)
(* ParseInternalKey accepts.                                                    *)
Damage(c, e) ==
    /\ ~d.open
    /\ Cardinality(lost) + Cardinality({x \in UNION ToSet(tables) : x.t = "bad"}) < MaxFaults
    /\ e.t # "bad" /\ e \notin lost
    /\ \/ lost' = lost \union {e} /\ UNCHANGED tables
       \/ tables' = [tables EXCEPT ![c] = (@ \ {e}) \union {[e EXCEPT !.t = "bad"]}] /\ UNCHANGED lost
    /\ UNCHANGED <<mem, seq, iterVars, ref, moves>>

(* NewDBIterator, for the present state or for an older snapshot.               *)
NewDBIterator(s) ==
    /\ ~d.open /\ s \in 0 .. seq
    /\ d' = [NoIter EXCEPT !.open = TRUE, !.seq = s]
    /\ m' = [NoMerge EXCEPT !.pos = [c \in 1 .. Len(tables) + 1 |-> None],
                            !.st = [c \in 1 .. Len(tables) + 1 |-> "ok"]]
    /\ UNCHANGED <<dbVars, pc, skip, ref, moves>>

-----------------------------------------------------------------------------
(* What the snapshot holds.                                                     *)
AllEntries == mem \union UNION ToSet(tables)
Newest(u) == First({e \in AllEntries : e.u = u /\ e.n <= d.seq})
Visible == {u \in UserKeys : Newest(u) # None /\ Newest(u).t = "val"}
FromKey(u) == LET S == {v \in Visible : v >= u} IN IF S = {} THEN 0 ELSE Min(S)
UpToKey(u) == LET S == {v \in Visible : v <= u} IN IF S = {} THEN 0 ELSE Max(S)

(* The beginning of an operation.                                               *)
Start(to) ==
    /\ d.open /\ pc = "idle" /\ moves < MaxMoves
    /\ moves' = moves + 1
    /\ ref' = to
    /\ UNCHANGED dbVars

(* The merging iterator moved to x, and FindNextUserEntry or FindPrevUserEntry  *)
(* goes on from there.                                                          *)
Search(x, loop, dir, hide) ==
    /\ m' = x
    /\ IF MergeValid(x) \/ loop = "findprev"
       THEN pc' = loop /\ skip' = hide /\ d' = [d EXCEPT !.dir = dir]
       ELSE pc' = "idle" /\ skip' = NoSkip /\ d' = [d EXCEPT !.dir = dir, !.valid = FALSE]

Seek(u) ==
    /\ Start(FromKey(u))
    /\ Search(MergeSeek(m, [u |-> u, n |-> d.seq]), "findnext", "forward", NoSkip)

SeekToFirst ==
    /\ Start(FromKey(0))
    /\ Search(MergeSeekToFirst(m), "findnext", "forward", NoSkip)

SeekToLast ==
    /\ Start(UpToKey(Cardinality(UserKeys)))
    /\ Search(MergeSeekToLast(m), "findprev", "reverse", NoSkip)

KeyOf == IF d.dir = "forward" THEN MergeKey(m).u ELSE d.key
ValueOf == IF d.dir = "forward" THEN MergeKey(m).n ELSE d.value

(* After moving backwards the internal iterator stands in front of the entries *)
(* of this key.                                                                 *)
NextEntry ==
    /\ d.valid
    /\ Start(FromKey(KeyOf + 1))
    /\ LET x == IF d.dir = "forward" THEN m
                ELSE IF MergeValid(m) THEN MergeNext(m) ELSE MergeSeekToFirst(m)
       IN  Search(x, "findnext", "forward", [NoSkip EXCEPT !.on = TRUE, !.key = KeyOf])

(* One turn of FindNextUserEntry: take the entry, or go on behind it.  A        *)
(* deletion hides the older entries of its key.                                 *)
FindNextUserEntry ==
    /\ pc = "findnext"
    /\ \E e \in {MergeKey(m)}, x \in {MergeNext(m)} :
       LET seen == e.t # "bad" /\ e.n <= d.seq
           hit  == seen /\ e.t = "val" /\ ~(skip.on /\ e.u <= skip.key)
       IN  IF hit THEN /\ d' = [d EXCEPT !.valid = TRUE, !.key = 0]
                       /\ pc' = "idle" /\ skip' = NoSkip /\ UNCHANGED m
           ELSE /\ m' = x
                /\ d' = [d EXCEPT !.st = IF e.t = "bad" THEN "corrupt" ELSE @,
                                  !.valid = IF MergeValid(x) THEN @ ELSE FALSE]
                /\ pc' = IF MergeValid(x) THEN "findnext" ELSE "idle"
                /\ skip' = IF ~MergeValid(x) THEN NoSkip
                           ELSE IF seen /\ e.t = "del" THEN [NoSkip EXCEPT !.on = TRUE, !.key = e.u]
                           ELSE skip
    /\ UNCHANGED <<dbVars, ref, moves>>

(* Prev: after moving forward, first back to the entries of another key.        *)
Prev ==
    /\ d.valid
    /\ Start(UpToKey(KeyOf - 1))
    /\ IF d.dir = "forward"
       THEN /\ pc' = "turn" /\ d' = [d EXCEPT !.key = KeyOf] /\ UNCHANGED <<m, skip>>
       ELSE Search(m, "findprev", "reverse", NoSkip)

(* A deviation: it turns without moving.                                        *)
TurnBackSticks ==
    /\ pc = "turn"
    /\ MergeKey(m).u < d.key
    /\ pc' = "findprev" /\ d' = [d EXCEPT !.dir = "reverse"] /\ skip' = NoSkip
    /\ UNCHANGED <<m, dbVars, ref, moves>>

TurnBack ==
    /\ pc = "turn"
    /\ \E x \in {MergePrev(m)} :
           /\ m' = x
           /\ IF ~MergeValid(x)
              THEN pc' = "idle" /\ d' = [d EXCEPT !.valid = FALSE, !.key = 0, !.value = 0]
              ELSE IF MergeKey(x).u < d.key
              THEN pc' = "findprev" /\ d' = [d EXCEPT !.dir = "reverse"]
              ELSE UNCHANGED <<pc, d>>
    /\ skip' = NoSkip
    /\ UNCHANGED <<dbVars, ref, moves>>

(* The end of FindPrevUserEntry: there is an entry unless the last type it saw  *)
(* was a deletion.                                                              *)
PrevEnds(x, rec, type) ==
    /\ m' = x /\ pc' = "idle" /\ skip' = NoSkip
    /\ d' = IF type = "del"
            THEN [rec EXCEPT !.valid = FALSE, !.key = 0, !.value = 0, !.dir = "forward"]
            ELSE [rec EXCEPT !.valid = TRUE]

(* One turn of FindPrevUserEntry: the entries of a key come oldest first, so    *)
(* each one replaces the one saved, until an entry of an earlier key.           *)
FindPrevUserEntry ==
    /\ pc = "findprev"
    /\ IF ~MergeValid(m) THEN PrevEnds(m, d, skip.type)
       ELSE \E e \in {MergeKey(m)}, x \in {MergePrev(m)} :
            LET bad  == [d EXCEPT !.st = IF e.t = "bad" THEN "corrupt" ELSE @]
                seen == e.t # "bad" /\ e.n <= d.seq
                type == IF seen THEN e.t ELSE skip.type
                rec  == IF ~seen THEN bad
                        ELSE IF e.t = "del" THEN [d EXCEPT !.key = 0, !.value = 0]
                        ELSE [d EXCEPT !.key = e.u, !.value = e.n]
            IN  IF seen /\ skip.type # "del" /\ e.u < d.key THEN PrevEnds(m, d, skip.type)
                ELSE IF MergeValid(x)
                THEN m' = x /\ d' = rec /\ skip' = [skip EXCEPT !.type = type] /\ UNCHANGED pc
                ELSE PrevEnds(x, rec, type)
    /\ UNCHANGED <<dbVars, ref, moves>>

Next ==
    \/ \E u \in UserKeys, t \in {"val", "del"} : Write(u, t)
    \/ FlushMem
    \/ \E c \in DOMAIN tables : \E e \in tables[c] : Damage(c, e)
    \/ \E s \in 0 .. MaxSeq : NewDBIterator(s)
    \/ \E u \in UserKeys : Seek(u)
    \/ SeekToFirst \/ SeekToLast \/ NextEntry \/ Prev
    \/ FindNextUserEntry \/ TurnBack \/ FindPrevUserEntry

Spec == Init /\ [][Next]_vars

-----------------------------------------------------------------------------
Status == IF d.st = "ok" THEN MergeStatus(m) ELSE d.st

(* The one type invariant of the module.                                        *)
TypeOK ==
    /\ pc \in {"idle", "findnext", "findprev", "turn"}
    /\ m.cur \in 0 .. Len(m.pos) /\ Len(m.pos) = Len(m.st)
    /\ d.seq \in 0 .. seq
    /\ pc = "findnext" => MergeValid(m) /\ d.dir = "forward"
    /\ d.valid /\ pc = "idle" /\ d.dir = "forward" => MergeValid(m)

(* Between operations the iterator stands on the key of its snapshot that the   *)
(* moves lead to, with the value the snapshot has, whatever was written since    *)
(* and however often it turned; or its status says that something could not be   *)
(* read.                                                                         *)
ShowsTheSnapshot ==
    d.open /\ pc = "idle" /\ moves > 0 /\ Status = "ok" =>
        IF d.valid THEN ref = KeyOf /\ ValueOf = Newest(ref).n ELSE ref = 0

(* The merging iterator is at the least (greatest) entry of its children, and   *)
(* no entry of the snapshot lies between the children and the current one: a    *)
(* child that was not moved for the direction would hide its entries.           *)
NothingBetween ==
    MergeValid(m) /\ MergeStatus(m) = "ok" =>
        \A c \in Children : \A e \in Entries(c) :
            c # m.cur /\ e.n <= d.seq =>
                IF m.dir = "forward"
                THEN Before(MergeKey(m), e) => m.pos[c] # None /\ ~Before(e, m.pos[c])
                ELSE Before(e, MergeKey(m)) => m.pos[c] # None /\ ~Before(m.pos[c], e)

Moving == pc # "idle"

(* Every operation ends: the loops are finite although the writer adds entries. *)
OperationsEnd == Moving ~> ~Moving

Fairness == WF_vars(FindNextUserEntry \/ TurnBack \/ FindPrevUserEntry)
FairSpec == Spec /\ Fairness
=============================================================================
