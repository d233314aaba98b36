----------------------------- MODULE CInterface -----------------------------
(***************************************************************************)
(* db/c.cc: leveldb for callers in C.  Every object of the caller is a      *)
(* struct on the heap around a C++ object; strings are handed over in       *)
(* malloc()ed memory; a call that fails leaves a message in *errptr.        *)
(*                                                                          *)
(* The caller has at most one object of each kind and keeps to the rules of *)
(* the C++ interface: an object outlives those that use it.  What the       *)
(* database itself does is external: a table of values and a status.        *)
(***************************************************************************)
EXTENDS Integers, FiniteSets, Sequences, FiniteSetsExt

CONSTANTS
  Kinds,        \* the kinds of objects the caller creates
  Keys,         \* user keys, numbers > 0
  MaxValue,     \* bound: values ever written, 1 .. MaxValue
  MaxBatch,     \* bound: operations in a batch
  MaxMade,      \* bound: comparators and filter policies ever created
  MaxFaults,    \* bound: calls that fail underneath
  NULL

VARIABLES
  objs,         \* the kinds of which the caller has an object
  reps,         \* the C++ objects behind them that are alive
  opts,         \* the options: those of leveldb_options_t, of the open DB, of leveldb_readoptions_t
  data,         \* the database, and what a snapshot, an iterator and a batch hold
  heap,         \* the caller's *errptr and result, the strings allocated, destructor_ calls
  ghost         \* history: the last failure, the last look-up, objects made, bounds used

vars == <<objs, reps, opts, data, heap, ghost>>

(* A struct that owns the C++ object in its rep; Env::Default() is nobody's. *)
Owners == {"db", "iterator", "snapshot", "cache", "bloom"}
(* A struct that is a Comparator or a FilterPolicy of the caller's functions. *)
UserStates == {"comparator", "filter"}

NoKeys == [k \in Keys |-> 0]
NoOptions == [comparator |-> NULL, filter |-> NULL, cache |-> NULL, env |-> NULL,
              create |-> FALSE, exists |-> FALSE]

Init ==
  /\ objs = {} /\ reps = {}
  /\ opts = [set |-> NoOptions, db |-> NoOptions, snapshot |-> FALSE]
  /\ data = [there |-> FALSE, store |-> NoKeys, snap |-> NoKeys, batch |-> << >>,
             iter |-> [view |-> NoKeys, at |-> 0, status |-> "ok"]]
  /\ heap = [err |-> NULL, result |-> NULL, blocks |-> 0, destroyed |-> [k \in UserStates |-> 0]]
  /\ ghost = [failed |-> NULL, asked |-> NULL, made |-> [k \in UserStates |-> 0],
              values |-> 0, faults |-> 0]

-----------------------------------------------------------------------------
(* Strings. *)

(* strdup(), the message of a status in *errptr; an older one is freed.     *)
SaveError(h, s) ==
  IF s = "ok" THEN h
  ELSE IF h.err = NULL THEN [h EXCEPT !.err = s, !.blocks = @ + 1]
  ELSE [h EXCEPT !.err = s, !.blocks = (@ - 1) + 1]

(* A value or a property, as malloc()ed memory.                             *)
CopyString(h, value) == [h EXCEPT !.result = value, !.blocks = @ + 1]

Failed(g, s) == IF s = "ok" THEN g ELSE [g EXCEPT !.failed = s]

(* The statuses a call may get from underneath.                             *)
Statuses == {"ok"} \cup (IF ghost.faults < MaxFaults THEN {"IO error", "Corruption"} ELSE {})
Counted(g, s) == IF s = "ok" THEN g ELSE [Failed(g, s) EXCEPT !.faults = @ + 1]

Report(s) == heap' = SaveError(heap, s) /\ ghost' = Counted(ghost, s)

leveldb_free_error ==
  /\ heap.err # NULL
  /\ heap' = [heap EXCEPT !.err = NULL, !.blocks = @ - 1]
  /\ ghost' = [ghost EXCEPT !.failed = NULL, !.asked = NULL]
  /\ UNCHANGED <<objs, reps, opts, data>>

leveldb_free_result ==
  /\ heap.result # NULL
  /\ heap' = [heap EXCEPT !.result = NULL, !.blocks = @ - 1]
  /\ ghost' = [ghost EXCEPT !.asked = NULL]
  /\ UNCHANGED <<objs, reps, opts, data>>

-----------------------------------------------------------------------------
(* The database. *)

(* What DB::Open says of the files it finds.                                *)
OpenStatus ==
  IF ~data.there /\ ~opts.set.create THEN {"does not exist"}
  ELSE IF data.there /\ opts.set.exists THEN {"exists"} ELSE Statuses

leveldb_open ==
  /\ "db" \in Kinds \ objs /\ "options" \in objs
  /\ \E s \in OpenStatus :
       /\ heap' = SaveError(heap, s)
       /\ ghost' = IF s \in Statuses THEN Counted(ghost, s) ELSE Failed(ghost, s)
       /\ IF s = "ok"
          THEN /\ objs' = objs \cup {"db"} /\ reps' = reps \cup {"db"}
               /\ opts' = [opts EXCEPT !.db = opts.set] /\ data' = [data EXCEPT !.there = TRUE]
          ELSE UNCHANGED <<objs, reps, opts, data>>

leveldb_close ==
  /\ "db" \in objs /\ objs \cap {"iterator", "snapshot"} = {}
  /\ objs' = objs \ {"db"} /\ reps' = reps \ {"db"}
  /\ opts' = [opts EXCEPT !.db = NoOptions]
  /\ UNCHANGED <<data, heap, ghost>>

(* leveldb_put, leveldb_delete and leveldb_write: a failed write leaves the *)
(* table as it was.                                                         *)
Modify(store, values, s) ==
  /\ "db" \in objs /\ "writeoptions" \in objs
  /\ data' = IF s = "ok" THEN [data EXCEPT !.store = store] ELSE data
  /\ heap' = SaveError(heap, s)
  /\ ghost' = [Counted(ghost, s) EXCEPT !.values = values, !.asked = NULL]
  /\ UNCHANGED <<objs, reps, opts>>

leveldb_put(k, s) ==
  ghost.values < MaxValue /\ Modify([data.store EXCEPT ![k] = ghost.values + 1], ghost.values + 1, s)
leveldb_delete(k, s) == Modify([data.store EXCEPT ![k] = 0], ghost.values, s)

LastOf(b, k) == Max({i \in DOMAIN b : b[i].k = k})
Applied(store, b) ==
  [k \in Keys |-> IF \E i \in DOMAIN b : b[i].k = k THEN b[LastOf(b, k)].v ELSE store[k]]
leveldb_write(s) == "batch" \in objs /\ Modify(Applied(data.store, data.batch), ghost.values, s)

(* A key that is not there is no error: NULL, and *errptr is left alone.    *)
leveldb_get(k, s) ==
  LET view == IF opts.snapshot THEN data.snap ELSE data.store IN
  /\ "db" \in objs /\ "readoptions" \in objs /\ heap.result = NULL
  /\ heap' = IF s # "ok" THEN SaveError(heap, s)
             ELSE IF view[k] # 0 THEN CopyString(heap, view[k]) ELSE heap
  /\ ghost' = [Counted(ghost, s) EXCEPT !.asked = [value |-> view[k], ok |-> s = "ok"]]
  /\ UNCHANGED <<objs, reps, opts, data>>

leveldb_property_value ==
  /\ "db" \in objs /\ heap.result = NULL
  /\ heap' = CopyString(heap, "property")
  /\ ghost' = [ghost EXCEPT !.asked = NULL]
  /\ UNCHANGED <<objs, reps, opts, data>>

leveldb_destroy_db(s) ==
  /\ "options" \in objs /\ "db" \notin objs /\ data.there
  /\ data' = IF s = "ok" THEN [data EXCEPT !.there = FALSE, !.store = NoKeys] ELSE data
  /\ Report(s) /\ UNCHANGED <<objs, reps, opts>>

leveldb_repair_db(s) ==
  /\ "options" \in objs /\ "db" \notin objs /\ data.there /\ s # "ok"
  /\ Report(s) /\ UNCHANGED <<objs, reps, opts, data>>

-----------------------------------------------------------------------------
(* Snapshots, iterators and batches. *)

leveldb_create_snapshot ==
  /\ "snapshot" \in Kinds \ objs /\ "db" \in objs
  /\ objs' = objs \cup {"snapshot"} /\ reps' = reps \cup {"snapshot"}
  /\ data' = [data EXCEPT !.snap = data.store]
  /\ UNCHANGED <<opts, heap, ghost>>

(* The caller takes it out of its read options first. *)
leveldb_release_snapshot ==
  /\ "snapshot" \in objs /\ ~opts.snapshot
  /\ objs' = objs \ {"snapshot"} /\ reps' = reps \ {"snapshot"}
  /\ data' = [data EXCEPT !.snap = NoKeys]
  /\ UNCHANGED <<opts, heap, ghost>>

leveldb_create_iterator ==
  /\ "iterator" \in Kinds \ objs /\ {"db", "readoptions"} \subseteq objs
  /\ objs' = objs \cup {"iterator"} /\ reps' = reps \cup {"iterator"}
  /\ data' = [data EXCEPT !.iter = [view |-> IF opts.snapshot THEN data.snap ELSE data.store,
                                    at |-> 0, status |-> "ok"]]
  /\ UNCHANGED <<opts, heap, ghost>>

leveldb_iter_destroy ==
  /\ "iterator" \in objs
  /\ objs' = objs \ {"iterator"} /\ reps' = reps \ {"iterator"}
  /\ data' = [data EXCEPT !.iter = [view |-> NoKeys, at |-> 0, status |-> "ok"]]
  /\ UNCHANGED <<opts, heap, ghost>>

Shown(it) == {k \in Keys : it.view[k] # 0}
FirstOf(S) == IF S = {} THEN 0 ELSE Min(S)
LastOne(S) == IF S = {} THEN 0 ELSE Max(S)

(* leveldb_iter_valid is at # 0; a block that cannot be read makes the      *)
(* iterator invalid and is kept in its status.                              *)
MoveTo(k, s) ==
  /\ "iterator" \in objs
  /\ data' = [data EXCEPT !.iter.at = IF s = "ok" THEN k ELSE 0,
                          !.iter.status = IF s = "ok" THEN @ ELSE s]
  /\ ghost' = [ghost EXCEPT !.faults = IF s = "ok" THEN @ ELSE @ + 1]
  /\ UNCHANGED <<objs, reps, opts, heap>>

leveldb_iter_seek_to_first(s) == MoveTo(FirstOf(Shown(data.iter)), s)
leveldb_iter_seek_to_last(s)  == MoveTo(LastOne(Shown(data.iter)), s)
leveldb_iter_seek(target, s)  == MoveTo(FirstOf({k \in Shown(data.iter) : k >= target}), s)
leveldb_iter_next(s) ==
  data.iter.at # 0 /\ MoveTo(FirstOf({k \in Shown(data.iter) : k > data.iter.at}), s)
leveldb_iter_prev(s) ==
  data.iter.at # 0 /\ MoveTo(LastOne({k \in Shown(data.iter) : k < data.iter.at}), s)

leveldb_iter_get_error ==
  /\ "iterator" \in objs
  /\ heap' = SaveError(heap, data.iter.status) /\ ghost' = Failed(ghost, data.iter.status)
  /\ UNCHANGED <<objs, reps, opts, data>>

Batch(b) == "batch" \in objs /\ data' = [data EXCEPT !.batch = b]
            /\ UNCHANGED <<objs, reps, opts, heap>>
leveldb_writebatch_put(k) ==
  /\ Len(data.batch) < MaxBatch /\ ghost.values < MaxValue
  /\ Batch(Append(data.batch, [k |-> k, v |-> ghost.values + 1]))
  /\ ghost' = [ghost EXCEPT !.values = @ + 1]
leveldb_writebatch_delete(k) ==
  Len(data.batch) < MaxBatch /\ Batch(Append(data.batch, [k |-> k, v |-> 0])) /\ UNCHANGED ghost
leveldb_writebatch_clear == Batch(<< >>) /\ UNCHANGED ghost

-----------------------------------------------------------------------------
(* Objects that the caller makes and destroys. *)

Made(k, owned) ==
  /\ k \in Kinds \ objs /\ objs' = objs \cup {k} /\ reps' = reps \cup owned
  /\ UNCHANGED <<opts, data, heap>>
Gone(k) == k \in objs /\ objs' = objs \ {k} /\ reps' = reps \ {k}

leveldb_options_create      == Made("options", {}) /\ UNCHANGED ghost
leveldb_readoptions_create  == Made("readoptions", {}) /\ UNCHANGED ghost
leveldb_writeoptions_create == Made("writeoptions", {}) /\ UNCHANGED ghost
leveldb_writebatch_create   == Made("batch", {}) /\ UNCHANGED ghost
leveldb_create_default_env  == Made("env", {}) /\ UNCHANGED ghost
leveldb_cache_create_lru    == Made("cache", {"cache"}) /\ UNCHANGED ghost

MadeOf(k) == ghost' = [ghost EXCEPT !.made[k] = @ + 1]
leveldb_comparator_create ==
  ghost.made["comparator"] < MaxMade /\ Made("comparator", {}) /\ MadeOf("comparator")
leveldb_filterpolicy_create ==
  "bloom" \notin objs /\ ghost.made["filter"] < MaxMade /\ Made("filter", {}) /\ MadeOf("filter")

(* The wrapper of NewBloomFilterPolicy owns the policy in rep_ and has no   *)
(* state of the caller: its destructor_ is DoNothing.                       *)
leveldb_filterpolicy_create_bloom ==
  "filter" \notin objs /\ Made("bloom", {"bloom"}) /\ UNCHANGED ghost

(* The caller keeps what an open database, or its options, refer to.        *)
NotInUse(field, k) == opts.set[field] # k /\ opts.db[field] # k

(* ~leveldb_comparator_t and ~leveldb_filterpolicy_t call destructor_.      *)
DestroyUserState(k) ==
  /\ Gone(k) /\ NotInUse(k, k)
  /\ heap' = [heap EXCEPT !.destroyed[k] = @ + 1]
  /\ UNCHANGED <<opts, data, ghost>>
leveldb_comparator_destroy   == DestroyUserState("comparator")
leveldb_filterpolicy_destroy ==
  \/ DestroyUserState("filter")
  \/ Gone("bloom") /\ NotInUse("filter", "bloom") /\ UNCHANGED <<opts, data, heap, ghost>>

leveldb_cache_destroy == Gone("cache") /\ NotInUse("cache", "cache") /\ UNCHANGED <<opts, data, heap, ghost>>
leveldb_env_destroy   == Gone("env") /\ NotInUse("env", "env") /\ UNCHANGED <<opts, data, heap, ghost>>
leveldb_options_destroy ==
  Gone("options") /\ opts' = [opts EXCEPT !.set = NoOptions] /\ UNCHANGED <<data, heap, ghost>>
leveldb_readoptions_destroy ==
  Gone("readoptions") /\ opts' = [opts EXCEPT !.snapshot = FALSE] /\ UNCHANGED <<data, heap, ghost>>
leveldb_writeoptions_destroy == Gone("writeoptions") /\ UNCHANGED <<opts, data, heap, ghost>>
leveldb_writebatch_destroy ==
  Gone("batch") /\ data' = [data EXCEPT !.batch = << >>] /\ UNCHANGED <<opts, heap, ghost>>

(* The setters.  An environment may be taken out again, a cache may not.    *)
Set(new) == "options" \in objs /\ opts' = [opts EXCEPT !.set = new]
            /\ UNCHANGED <<objs, reps, data, heap, ghost>>
leveldb_options_set_comparator ==
  "comparator" \in objs /\ Set([opts.set EXCEPT !.comparator = "comparator"])
leveldb_options_set_filter_policy ==
  \E k \in {"filter", "bloom"} \cap objs : Set([opts.set EXCEPT !.filter = k])
leveldb_options_set_env   == \E k \in {NULL} \cup ({"env"} \cap objs) : Set([opts.set EXCEPT !.env = k])
leveldb_options_set_cache == "cache" \in objs /\ Set([opts.set EXCEPT !.cache = "cache"])
leveldb_options_set_create_if_missing == \E v \in BOOLEAN : Set([opts.set EXCEPT !.create = v])
leveldb_options_set_error_if_exists   == \E v \in BOOLEAN : Set([opts.set EXCEPT !.exists = v])

leveldb_readoptions_set_snapshot ==
  /\ "readoptions" \in objs
  /\ \E on \in {FALSE} \cup (IF "snapshot" \in objs THEN {TRUE} ELSE {}) :
       opts' = [opts EXCEPT !.snapshot = on]
  /\ UNCHANGED <<objs, reps, data, heap, ghost>>

-----------------------------------------------------------------------------
DBCall ==
  \/ leveldb_open \/ leveldb_close \/ leveldb_property_value
  \/ \E s \in Statuses :
       \/ \E k \in Keys : leveldb_put(k, s) \/ leveldb_delete(k, s) \/ leveldb_get(k, s)
       \/ leveldb_write(s) \/ leveldb_destroy_db(s) \/ leveldb_repair_db(s)

IteratorCall ==
  \/ leveldb_create_iterator \/ leveldb_iter_destroy \/ leveldb_iter_get_error
  \/ \E s \in Statuses :
       \/ leveldb_iter_seek_to_first(s) \/ leveldb_iter_seek_to_last(s)
       \/ leveldb_iter_next(s) \/ leveldb_iter_prev(s)
       \/ \E k \in Keys : leveldb_iter_seek(k, s)

BatchCall ==
  \/ leveldb_writebatch_create \/ leveldb_writebatch_destroy \/ leveldb_writebatch_clear
  \/ \E k \in Keys : leveldb_writebatch_put(k) \/ leveldb_writebatch_delete(k)

ObjectCall ==
  \/ leveldb_options_create \/ leveldb_readoptions_create \/ leveldb_writeoptions_create
  \/ leveldb_create_default_env \/ leveldb_cache_create_lru \/ leveldb_comparator_create
  \/ leveldb_filterpolicy_create \/ leveldb_filterpolicy_create_bloom
  \/ leveldb_comparator_destroy \/ leveldb_filterpolicy_destroy \/ leveldb_cache_destroy
  \/ leveldb_env_destroy \/ leveldb_options_destroy \/ leveldb_readoptions_destroy
  \/ leveldb_writeoptions_destroy

Setter ==
  \/ leveldb_options_set_comparator \/ leveldb_options_set_filter_policy \/ leveldb_options_set_env
  \/ leveldb_options_set_cache \/ leveldb_options_set_create_if_missing
  \/ leveldb_options_set_error_if_exists \/ leveldb_readoptions_set_snapshot

Next ==
  \/ DBCall \/ IteratorCall \/ BatchCall \/ ObjectCall \/ Setter
  \/ leveldb_create_snapshot \/ leveldb_release_snapshot
  \/ leveldb_free_error \/ leveldb_free_result

Spec == Init /\ [][Next]_vars

-----------------------------------------------------------------------------
(* The one type invariant of the module. *)
TypeOK ==
  /\ objs \subseteq Kinds /\ reps \subseteq Owners
  /\ heap.blocks \in 0 .. 2 /\ data.iter.at \in Keys \cup {0}
  /\ data.store \in [Keys -> 0 .. MaxValue] /\ data.snap \in [Keys -> 0 .. MaxValue]

(* *errptr is the message of the last call that failed since the caller     *)
(* freed it: a success leaves it alone, a failure replaces it.              *)
ErrorIsTheLast == heap.err = ghost.failed

(* Every string allocated is in the caller's hands, once.                   *)
StringsAreOwned ==
  heap.blocks = Cardinality({x \in {"err", "result"} : heap[x] # NULL})

(* NULL from a look-up with *errptr clear means that the key was not there, *)
(* and a failed one always says so.                                         *)
NullMeansMissing ==
  ghost.asked # NULL =>
    /\ heap.result # NULL => ghost.asked.ok /\ heap.result = ghost.asked.value
    /\ heap.result = NULL /\ heap.err = NULL => ghost.asked.value = 0

(* The C++ objects live exactly as long as the structs around them, and the *)
(* destructor of the caller's state ran once for each that is gone.         *)
ObjectsMatch ==
  /\ reps = objs \cap Owners
  /\ \A k \in UserStates :
       heap.destroyed[k] + (IF k \in objs THEN 1 ELSE 0) = ghost.made[k]
=============================================================================
