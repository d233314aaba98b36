------------------------------ MODULE LRUCache ------------------------------
(* leveldb's util/cache.cc: a sharded cache with reference-counted handles and *)
(* a hash table of its own.                                                     *)
(*                                                                              *)
(* Every operation holds the mutex of its shard throughout, so it is one step. *)
(* A shard is [ent, lru, inUse, list, elems, usage]: the entries ever inserted *)
(* (LRUHandle), the two lists from the oldest entry to the newest, the buckets *)
(* of the HandleTable with their chains, and the counters.                     *)
EXTENDS Integers, Sequences, SequencesExt, FiniteSets, FiniteSetsExt

CONSTANTS
    Shards,        \* 0 .. kNumShards - 1
    Keys,
    Hash(_),       \* the hash of a key
    Charges,
    Capacity,      \* the capacity given to NewLRUCache
    MinLength,     \* the length of a new HandleTable (4 in the code)
    MaxEntries,    \* bound: entries ever inserted into a shard
    MaxHandles     \* bound: handles held at a time on one entry

VARIABLES
    shard,         \* the shards
    handles,       \* handles not released yet, per shard and entry
    alive          \* FALSE once the cache is destroyed

cacheVars == <<shard, handles, alive>>

(* The shard takes the top bits of a hash and the bucket the lowest; here they *)
(* are its remainder and its quotient, disjoint parts of it as well.            *)
NumShards == Cardinality(Shards)
ShardOf(key) == Hash(key) % NumShards
PerShard == (Capacity + (NumShards - 1)) \div NumShards

-----------------------------------------------------------------------------
(* HandleTable.  A bucket is the chain of the entries whose hash falls there.   *)

Bucket(sh, key) == ((Hash(key) \div NumShards) % Len(sh.list)) + 1

(* FindPointer: the position of the key in its chain, 0 when it has none.      *)
Position(sh, key) ==
    SelectInSeq(sh.list[Bucket(sh, key)], LAMBDA e : sh.ent[e].key = key)

TableLookup(sh, key) ==
    IF Position(sh, key) = 0 THEN 0 ELSE sh.list[Bucket(sh, key)][Position(sh, key)]

RECURSIVE LengthFor(_, _)
LengthFor(length, elems) == IF length < elems THEN LengthFor(2 * length, elems) ELSE length

(* The chains are read from the first bucket to the last, and every entry is   *)
(* put in front of its new chain.                                               *)
Resize(sh) ==
    LET length == LengthFor(MinLength, sh.elems)
        empty  == [sh EXCEPT !.list = [b \in 1 .. length |-> << >>]]
        Link(acc, e) == [acc EXCEPT !.list[Bucket(acc, sh.ent[e].key)] = <<e>> \o @]
    IN  FoldLeft(Link, empty, FlattenSeq(sh.list))

TableInsert(sh, e) ==
    LET key == sh.ent[e].key
        b   == Bucket(sh, key)
        pos == Position(sh, key)
        new == IF pos = 0 THEN [sh EXCEPT !.list[b] = Append(@, e), !.elems = @ + 1]
               ELSE [sh EXCEPT !.list[b][pos] = e]
    IN  IF pos = 0 /\ new.elems > Len(new.list) THEN Resize(new) ELSE new

TableRemove(sh, key) ==
    IF Position(sh, key) = 0 THEN sh
    ELSE [sh EXCEPT !.list[Bucket(sh, key)] = RemoveAt(@, Position(sh, key)), !.elems = @ - 1]

-----------------------------------------------------------------------------
(* The lists and the references.                                                *)

Without(list, e) == SelectSeq(list, LAMBDA x : x # e)
LRU_Remove(sh, e) == [sh EXCEPT !.lru = Without(@, e), !.inUse = Without(@, e)]

Ref(sh, e) ==
    LET moved == IF sh.ent[e].refs = 1 /\ sh.ent[e].in
                 THEN [LRU_Remove(sh, e) EXCEPT !.inUse = Append(@, e)] ELSE sh
    IN  [moved EXCEPT !.ent[e].refs = @ + 1]

(* A deviation: the entry is deleted when the last handle is released, though  *)
(* the cache still refers to it.                                                *)
UnrefDeletesEarly(sh, e) ==
    LET less == [sh EXCEPT !.ent[e].refs = @ - 1]
    IN  IF less.ent[e].refs <= 1 /\ less.ent[e].in
        THEN [LRU_Remove(less, e) EXCEPT !.lru = Append(@, e), !.ent[e].deleted = 1]
        ELSE IF less.ent[e].refs = 0 THEN [less EXCEPT !.ent[e].deleted = 1] ELSE less

(* The last reference runs the deleter and frees the entry.                     *)
Unref(sh, e) ==
    LET less == [sh EXCEPT !.ent[e].refs = @ - 1]
    IN  IF less.ent[e].refs = 0 THEN [less EXCEPT !.ent[e].deleted = @ + 1]
        ELSE IF less.ent[e].in /\ less.ent[e].refs = 1
        THEN [LRU_Remove(less, e) EXCEPT !.lru = Append(@, e)]
        ELSE less

(* The entry has left the hash table; 0 stands for NULL.                        *)
FinishErase(sh, e) ==
    IF e = 0 THEN sh
    ELSE Unref([LRU_Remove(sh, e) EXCEPT !.ent[e].in = FALSE, !.usage = @ - sh.ent[e].charge], e)

EraseKey(sh, key) == FinishErase(TableRemove(sh, key), TableLookup(sh, key))

(* A deviation: the entry that was used last goes first.                        *)
EvictNewest(sh, room) ==
    IF sh.usage > room /\ sh.lru # << >>
    THEN EraseKey(sh, sh.ent[sh.lru[Len(sh.lru)]].key) ELSE sh

(* The oldest entries that nobody uses go until the shard fits.                 *)
RECURSIVE EvictOldest(_, _)
EvictOldest(sh, room) ==
    IF sh.usage > room /\ sh.lru # << >>
    THEN EvictOldest(EraseKey(sh, sh.ent[sh.lru[1]].key), room) ELSE sh

-----------------------------------------------------------------------------
NewShard ==
    [ent |-> << >>, lru |-> << >>, inUse |-> << >>,
     list |-> [b \in 1 .. MinLength |-> << >>], elems |-> 0, usage |-> 0]

CacheInit ==
    /\ shard = [s \in Shards |-> NewShard]
    /\ handles = [s \in Shards |-> << >>]
    /\ alive = TRUE

(* A shard without capacity does not keep the entry: only the caller does.     *)
WithEntry(sh, key, charge) ==
    LET e    == Len(sh.ent) + 1
        rec  == [key |-> key, charge |-> charge, in |-> PerShard > 0,
                 refs |-> IF PerShard > 0 THEN 2 ELSE 1, deleted |-> 0]
        made == [sh EXCEPT !.ent = Append(@, rec)]
        kept == FinishErase(TableInsert([made EXCEPT !.inUse = Append(@, e), !.usage = @ + charge], e),
                            TableLookup(sh, key))
    IN  EvictOldest(IF PerShard > 0 THEN kept ELSE made, PerShard)

(* The handle that Insert and Lookup return.                                    *)
Insert(key, charge) ==
    LET s == ShardOf(key)
    IN  /\ alive
        /\ Len(shard[s].ent) < MaxEntries
        /\ shard' = [shard EXCEPT ![s] = WithEntry(@, key, charge)]
        /\ handles' = [handles EXCEPT ![s] = Append(@, 1)]
        /\ UNCHANGED alive

LookupResult(key) == TableLookup(shard[ShardOf(key)], key)

Lookup(key) ==
    LET s == ShardOf(key)
        e == LookupResult(key)
    IN  /\ alive
        /\ e # 0
        /\ handles[s][e] < MaxHandles
        /\ shard' = [shard EXCEPT ![s] = Ref(@, e)]
        /\ handles' = [handles EXCEPT ![s][e] = @ + 1]
        /\ UNCHANGED alive

Release(s, e) ==
    /\ alive
    /\ handles[s][e] > 0
    /\ shard' = [shard EXCEPT ![s] = Unref(@, e)]
    /\ handles' = [handles EXCEPT ![s][e] = @ - 1]
    /\ UNCHANGED alive

Erase(key) ==
    /\ alive
    /\ shard' = [shard EXCEPT ![ShardOf(key)] = EraseKey(@, key)]
    /\ UNCHANGED <<handles, alive>>

(* Prune: every entry that nobody uses, shard by shard under its own mutex.     *)
Prune(s) ==
    /\ alive
    /\ shard' = [shard EXCEPT ![s] = EvictOldest(@, -1)]
    /\ UNCHANGED <<handles, alive>>

(* The destructor, which asserts that no handle is left.                        *)
Destroy ==
    /\ alive
    /\ \A s \in Shards : \A e \in DOMAIN handles[s] : handles[s][e] = 0
    /\ shard' = [s \in Shards |->
                    FoldLeft(LAMBDA sh, e : Unref([sh EXCEPT !.ent[e].in = FALSE], e),
                             shard[s], shard[s].lru)]
    /\ alive' = FALSE
    /\ UNCHANGED handles

CacheNext ==
    \/ \E key \in Keys, charge \in Charges : Insert(key, charge)
    \/ \E key \in Keys : Lookup(key)
    \/ \E s \in Shards : \E e \in DOMAIN handles[s] : Release(s, e)
    \/ \E key \in Keys : Erase(key)
    \/ \E s \in Shards : Prune(s)
    \/ Destroy

CacheSpec == CacheInit /\ [][CacheNext]_cacheVars

-----------------------------------------------------------------------------
Entries(s) == DOMAIN shard[s].ent

(* The one type invariant of the module.                                        *)
CacheTypeOK ==
    /\ alive \in BOOLEAN
    /\ \A s \in Shards :
           /\ DOMAIN handles[s] = Entries(s)
           /\ \A e \in Entries(s) :
                  shard[s].ent[e] \in [key : Keys, charge : Charges, in : BOOLEAN,
                                       refs : 0 .. MaxHandles + 1, deleted : 0 .. 1]

(* The deleter runs once per entry, when the cache has let go of it and the    *)
(* last handle was released: never under a client that still uses the value,   *)
(* and never later.                                                             *)
DeletedWhenUnused ==
    \A s \in Shards : \A e \in Entries(s) :
        (shard[s].ent[e].deleted = 1) <=>
            (handles[s][e] = 0 /\ (~shard[s].ent[e].in \/ ~alive))

Times(list, e) == Cardinality({i \in DOMAIN list : list[i] = e})

(* What the comment on the lists says: an entry the cache refers to is in      *)
(* exactly one list, once, by whether a client uses it; others are in none.     *)
ListsSayWhoIsUsed ==
    alive => \A s \in Shards : \A e \in Entries(s) :
        /\ Times(shard[s].lru, e) = (IF shard[s].ent[e].in /\ handles[s][e] = 0 THEN 1 ELSE 0)
        /\ Times(shard[s].inUse, e) = (IF shard[s].ent[e].in /\ handles[s][e] > 0 THEN 1 ELSE 0)

(* The chains hold exactly the entries of the cache, each where its hash is    *)
(* looked up after every Resize, and no two with the same key.                  *)
TableFindsTheCache ==
    alive => \A s \in Shards :
        /\ \A e \in Entries(s) :
               shard[s].ent[e].in <=> TableLookup(shard[s], shard[s].ent[e].key) = e
        /\ shard[s].elems = Cardinality({e \in Entries(s) : shard[s].ent[e].in})

ChargeOf(sh) == MapThenSumSet(LAMBDA e : sh.ent[e].charge, {e \in DOMAIN sh.ent : sh.ent[e].in})

(* usage_ is the charge of what is cached; an Insert leaves it above the       *)
(* capacity only when clients use all of it (a Release does not evict).         *)
WithinCapacity ==
    alive' => \A s \in Shards :
        /\ shard'[s].usage = ChargeOf(shard'[s])
        /\ (Len(shard'[s].ent) > Len(shard[s].ent) /\ shard'[s].usage > PerShard)
               => shard'[s].lru = << >>
UsageWithinCapacity == [][WithinCapacity]_cacheVars

(* Insert never throws out an entry while one that was used less recently      *)
(* stays: the entries that leave are the first ones of the order in which they *)
(* were released.                                                               *)
InReleaseOrder ==
    \A s \in Shards :
       LET left == {i \in DOMAIN shard[s].lru : ~shard'[s].ent[shard[s].lru[i]].in}
           byKey == \E e \in Entries(s) : handles[s][e] > 0 /\ ~shard'[s].ent[e].in /\ shard[s].ent[e].in
       IN  (Len(shard'[s].ent) > Len(shard[s].ent) /\ ~byKey) =>
               LET new == shard'[s].ent[Len(shard'[s].ent)]
                   others == {i \in left : shard[s].ent[shard[s].lru[i]].key # new.key}
               IN  \A i \in others : \A j \in 1 .. i - 1 : j \in left
EvictsInReleaseOrder == [][InReleaseOrder]_cacheVars
=============================================================================
