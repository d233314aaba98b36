----------------------------- MODULE TableCache -----------------------------
(* leveldb's db/table_cache.cc over the LRUCache: readers look a table up,     *)
(* open its file when it is not cached, and insert it.  The three steps are     *)
(* not one: several readers may miss and open the same file.                    *)
EXTENDS LRUCache

CONSTANTS Readers

VARIABLES
    pc,        \* "idle", "miss", "open" or "using", per reader
    file,      \* the file a reader works on
    handle,    \* the entry a reader holds
    live,      \* the table files that exist
    opened     \* files opened and not closed outside the cache

readerVars == <<pc, file, handle, live, opened>>
vars == <<cacheVars, readerVars>>

Init ==
    /\ CacheInit
    /\ pc = [r \in Readers |-> "idle"]
    /\ file = [r \in Readers |-> 0]
    /\ handle = [r \in Readers |-> 0]
    /\ live = Keys
    /\ opened = [r \in Readers |-> 0]

(* FindTable: the lookup.                                                       *)
FindCached(r, f) ==
    /\ pc[r] = "idle" /\ f \in live
    /\ Lookup(f)
    /\ pc' = [pc EXCEPT ![r] = "using"]
    /\ file' = [file EXCEPT ![r] = f]
    /\ handle' = [handle EXCEPT ![r] = LookupResult(f)]
    /\ UNCHANGED <<live, opened>>

Miss(r, f) ==
    /\ pc[r] = "idle" /\ f \in live /\ alive
    /\ LookupResult(f) = 0
    /\ pc' = [pc EXCEPT ![r] = "miss"]
    /\ file' = [file EXCEPT ![r] = f]
    /\ UNCHANGED <<cacheVars, handle, live, opened>>

(* NewRandomAccessFile, under one of the two names, and Table::Open.  An error *)
(* closes the file and is not cached.                                           *)
OpenTable(r) ==
    /\ pc[r] = "miss"
    /\ \/ /\ pc' = [pc EXCEPT ![r] = "open"]
          /\ opened' = [opened EXCEPT ![r] = 1]
          /\ UNCHANGED file
       \/ /\ pc' = [pc EXCEPT ![r] = "idle"]
          /\ file' = [file EXCEPT ![r] = 0]
          /\ UNCHANGED opened
    /\ UNCHANGED <<cacheVars, handle, live>>

(* The table is inserted with charge 1; the cache closes it from now on.        *)
InsertTable(r) ==
    /\ pc[r] = "open"
    /\ Insert(file[r], 1)
    /\ pc' = [pc EXCEPT ![r] = "using"]
    /\ handle' = [handle EXCEPT ![r] = Len(shard[ShardOf(file[r])].ent) + 1]
    /\ opened' = [opened EXCEPT ![r] = 0]
    /\ UNCHANGED <<file, live>>

(* The end of Get, or the cleanup of an iterator (UnrefEntry).                  *)
Done(r) ==
    /\ pc[r] = "using"
    /\ Release(ShardOf(file[r]), handle[r])
    /\ pc' = [pc EXCEPT ![r] = "idle"]
    /\ file' = [file EXCEPT ![r] = 0]
    /\ handle' = [handle EXCEPT ![r] = 0]
    /\ UNCHANGED <<live, opened>>

(* DeleteObsoleteFiles evicts a file that no version has any more, so that no   *)
(* reader is working on it.                                                     *)
Evict(f) ==
    /\ f \in live
    /\ \A r \in Readers : file[r] # f
    /\ Erase(f)
    /\ live' = live \ {f}
    /\ UNCHANGED <<pc, file, handle, opened>>

(* The destructor; the owner of the cache has no reader any more.               *)
Close ==
    /\ \A r \in Readers : pc[r] = "idle"
    /\ Destroy
    /\ UNCHANGED readerVars

Next ==
    \/ \E r \in Readers, f \in Keys : FindCached(r, f) \/ Miss(r, f)
    \/ \E r \in Readers : OpenTable(r) \/ InsertTable(r) \/ Done(r)
    \/ \E f \in Keys : Evict(f)
    \/ Close

Spec == Init /\ [][Next]_vars

-----------------------------------------------------------------------------
OpenTables ==
    MapThenSumSet(LAMBDA s : Cardinality({e \in Entries(s) : shard[s].ent[e].deleted = 0}), Shards)

(* A reader's table is open as long as the reader uses it, although another    *)
(* reader may have replaced it in the cache, or an Insert evicted it.           *)
ReadersTableIsOpen ==
    \A r \in Readers : pc[r] = "using" =>
        LET ent == shard[ShardOf(file[r])].ent[handle[r]]
        IN  ent.deleted = 0 /\ ent.key = file[r]

(* Readers whose misses overlap keep more tables open than the capacity (a     *)
(* Release evicts nothing), but never more than one per reader above the        *)
(* larger of the two.                                                           *)
OpenTablesBounded ==
    OpenTables + MapThenSumSet(LAMBDA r : opened[r], Readers)
        <= NumShards * Max({PerShard, Cardinality(Readers)}) + Cardinality(Readers)

(* A file that was deleted is not in the cache any more, and nobody inserts it *)
(* afterwards: a new file cannot be mistaken for it, and its space is freed.    *)
CachedFilesExist ==
    \A s \in Shards : \A e \in Entries(s) : shard[s].ent[e].deleted = 0 => shard[s].ent[e].key \in live

(* Once the cache is gone every file that was opened is closed.                 *)
AllClosedAtTheEnd == ~alive => OpenTables = 0
=============================================================================
