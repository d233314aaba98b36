------------------------------ MODULE MemTable ------------------------------
(* leveldb's db/memtable.cc over the SkipList: entries are found by user key   *)
(* and sequence number, readers without a lock take the newest entry that their *)
(* snapshot may see, and the table is freed with its last reference.            *)
(*                                                                              *)
(* The key of the list is the internal key as a number: user keys ascending,   *)
(* and for one user key the newest sequence number first.                       *)
EXTENDS SkipList

CONSTANTS
    UserKeys,      \* 1 .. n
    MaxSeq         \* bound: entries added; Keys must hold their ranks

VARIABLES
    kind,          \* the type of entry n, a sequence
    lastSeq,       \* the sequence number readers may use
    g,             \* Get of a reader: [pc, u, seq, result]
    refs,          \* references on the table
    owned,         \* the database still refers to it
    freed

memVars == <<kind, lastSeq, g, refs, owned, freed>>
vars == <<skipVars, memVars>>

Rank(u, n) == u * (MaxSeq + 1) + (MaxSeq - n)
UserOf(key) == key \div (MaxSeq + 1)
SeqOf(key) == MaxSeq - (key % (MaxSeq + 1))

NoGet == [pc |-> "idle", u |-> 0, seq |-> 0, result |-> "none"]

Init ==
    /\ SkipInit
    /\ kind = << >> /\ lastSeq = 0
    /\ g = [p \in Readers |-> NoGet]
    /\ refs = 1 /\ owned = TRUE /\ freed = FALSE

(* MemTable::Add: the entry is encoded, then inserted.                          *)
Add(u, t, height) ==
    /\ owned /\ Len(kind) < MaxSeq
    /\ kind' = Append(kind, t)
    /\ InsertBegin(Rank(u, Len(kind) + 1), height)
    /\ UNCHANGED <<lastSeq, g, refs, owned, freed>>

(* The writer gives the sequence number out once Insert has returned.           *)
SetLastSequence ==
    /\ w.pc = "idle" /\ lastSeq # Len(kind)
    /\ lastSeq' = Len(kind)
    /\ UNCHANGED <<skipVars, kind, g, refs, owned, freed>>

(* MemTable::Get with a LookupKey for the last sequence number or an older one. *)
GetBegin(p, u, s) ==
    /\ owned /\ g[p].pc = "idle" /\ s \in 0 .. lastSeq
    /\ Seek(p, Rank(u, s))
    /\ g' = [g EXCEPT ![p] = [pc |-> "seek", u |-> u, seq |-> s, result |-> "none"]]
    /\ refs' = refs + 1
    /\ UNCHANGED <<kind, lastSeq, owned, freed>>

(* The first entry at or behind the target is the answer if it is of this key.  *)
Found(p) ==
    IF r[p].node = NullNode THEN "none"
    ELSE IF UserOf(r[p].node) # g[p].u THEN "none" ELSE kind[SeqOf(r[p].node)]

GetEnd(p) ==
    /\ g[p].pc = "seek" /\ r[p].pc = "idle"
    /\ g' = [g EXCEPT ![p].pc = "found", ![p].result = Found(p)]
    /\ UNCHANGED <<skipVars, kind, lastSeq, refs, owned, freed>>

(* Unref.                                                                       *)
Unref(p) ==
    /\ g[p].pc = "found"
    /\ g' = [g EXCEPT ![p] = NoGet]
    /\ refs' = refs - 1
    /\ freed' = (refs' = 0)
    /\ UNCHANGED <<skipVars, kind, lastSeq, owned>>

(* The database has written the table out, and no writer is in it.              *)
Drop ==
    /\ owned /\ w.pc = "idle"
    /\ owned' = FALSE /\ refs' = refs - 1 /\ freed' = (refs' = 0)
    /\ UNCHANGED <<skipVars, kind, lastSeq, g>>

ListStep == (WriterStep \/ \E p \in Readers : ReaderStep(p)) /\ UNCHANGED memVars

Next ==
    \/ \E u \in UserKeys, t \in {"val", "del"}, h \in 1 .. kMaxHeight : Add(u, t, h)
    \/ SetLastSequence
    \/ ListStep
    \/ \E p \in Readers : \/ \E u \in UserKeys, s \in 0 .. MaxSeq : GetBegin(p, u, s)
                          \/ GetEnd(p) \/ Unref(p)
    \/ Drop

Spec == Init /\ [][Next]_vars

-----------------------------------------------------------------------------
(* Get gives the newest entry of the user key that the snapshot may see: an     *)
(* Add that is under way, with a newer number, neither hides it nor shows up.   *)
GetSeesItsSnapshot ==
    \A p \in Readers : g[p].pc = "found" =>
        LET S == {n \in 1 .. g[p].seq : \E u \in {g[p].u} : Rank(u, n) \in Published}
        IN  g[p].result = IF S = {} THEN "none" ELSE kind[Max(S)]

(* Every entry whose number was given out can be found.                         *)
GivenOutIsInserted ==
    \A n \in 1 .. lastSeq : \E u \in UserKeys : Rank(u, n) \in done

(* The table lives as long as a reader works in it, and not longer than the     *)
(* database and its readers need it.                                            *)
FreedWhenUnused ==
    freed <=> ~owned /\ \A p \in Readers : g[p].pc = "idle"
=============================================================================
