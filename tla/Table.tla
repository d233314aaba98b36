------------------------------- MODULE Table --------------------------------
(* A table file of leveldb: table/table_builder.cc writes it, table/format.cc, *)
(* table/table.cc and table/two_level_iterator.cc read it.                      *)
(*                                                                              *)
(* One builder adds entries in order, with write errors, and finishes; the file *)
(* may then be damaged, and a reader opens it, iterates and looks keys up, with *)
(* read errors.  The file is a sequence of blocks [off, size, body, damaged].   *)
(* No block is compressed: Snappy_Compress is a stub in this build.             *)
EXTENDS Block, FiniteSetsExt

CONSTANTS
    Keys,          \* the internal keys that may be added
    Targets,       \* the internal keys that are looked for
    MaxEntries,    \* bound: entries of the table
    BlockBytes,    \* options.block_size
    UseFilter,     \* a filter_policy is set
    Reads,         \* which reads happen: a subset of {"iterate", "get"}
    MaxMoves,      \* bound: moves of the iterator
    MaxFaults      \* bound: write errors, read errors and damages

VARIABLES
    phase,         \* "build", "failed", "closed" or "read"
    added,         \* the entries added
    b,             \* TableBuilder::Rep, with the file it writes
    tbl,           \* Table::Rep
    it,            \* the TwoLevelIterator, with the block cache
    ref,           \* where the iterator should be: an index of added, or 0
    got,           \* the last InternalGet
    moves, faults

vars == <<phase, added, b, tbl, it, ref, got, moves, faults>>

TrailerSize == 5       \* kBlockTrailerSize
HandleSize == 2        \* an encoded BlockHandle: two one-byte varints
NoHandle == [off |-> 0, size |-> 0]

-----------------------------------------------------------------------------
(* TableBuilder.  fail counts down to the write of this step that fails.        *)

NewRep ==
    [offset |-> 0, st |-> "ok", data |-> NewBuilder, index |-> NewBuilder, last |-> << >>,
     pending |-> FALSE, handle |-> NoHandle, filter |-> StartBlock(NewFilterBuilder, 0),
     file |-> << >>, fail |-> 0]

Ok(r) == r.st = "ok"

(* One call of the WritableFile.                                                *)
FileCall(r) ==
    IF r.fail = 1 THEN [r EXCEPT !.fail = 0, !.st = "ioerror"]
    ELSE [r EXCEPT !.fail = IF @ = 0 THEN 0 ELSE @ - 1, !.st = "ok"]

(* WriteRawBlock: the contents, then type and checksum; the offset moves only  *)
(* when both are written.  The handle is left in handle.                        *)
AfterTrailer(r, body, size) ==
    IF ~Ok(r) THEN r
    ELSE [r EXCEPT !.offset = @ + size + TrailerSize,
                   !.file = Append(@, [off |-> r.offset, size |-> size, body |-> body,
                                       damaged |-> FALSE])]

AfterContents(r, body, size) == IF Ok(r) THEN AfterTrailer(FileCall(r), body, size) ELSE r

WriteRawBlock(r, body, size) ==
    AfterContents(FileCall([r EXCEPT !.handle = [off |-> r.offset, size |-> size]]), body, size)

WriteFinished(r, blk) == WriteRawBlock(r, blk, BlockSize(blk))
WriteBlock(r, builder) == WriteFinished(r, BuilderFinish(builder))

(* Flush: the index entry of the block waits for the first key of the next.     *)
FlushFile(r) == IF Ok(r) THEN FileCall([r EXCEPT !.pending = TRUE]) ELSE r
StartFilter(r) == [r EXCEPT !.filter = IF UseFilter THEN StartBlock(@, r.offset) ELSE @]

FlushBlock(r) ==
    IF ~Ok(r) \/ BuilderEmpty(r.data) THEN r
    ELSE StartFilter(FlushFile([WriteBlock(r, r.data) EXCEPT !.data = NewBuilder]))

AddIndexEntry(r, key) ==
    IF r.pending
    THEN [r EXCEPT !.index = BuilderAdd(@, 1, key, r.handle, HandleSize), !.pending = FALSE]
    ELSE r

AddEntry(r, key, value) ==
    [r EXCEPT !.filter = IF UseFilter THEN AddKey(@, key) ELSE @,
              !.last = key,
              !.data = BuilderAdd(@, RestartInterval, key, value, 1)]

FlushIfFull(r) == IF CurrentSizeEstimate(r.data) >= BlockBytes THEN FlushBlock(r) ELSE r

AddToRep(r, key, value) ==
    FlushIfFull(AddEntry(AddIndexEntry(r, FindShortestSeparator(r.last, key)), key, value))

(* Finish: the rest of the data, the filters, the metaindex block with the     *)
(* handle of the filters, the index block and the footer.                       *)
WriteFilter(r, filters) ==
    IF Ok(r) /\ UseFilter THEN WriteRawBlock(r, filters, Len(filters) + 5) ELSE r

MetaBlock(handle) ==
    IF UseFilter THEN BuilderAdd(NewBuilder, RestartInterval, <<0>>, handle, HandleSize)
    ELSE NewBuilder

WriteMeta(r) == IF Ok(r) THEN WriteBlock(r, MetaBlock(r.handle)) ELSE r

WriteIndex(r) == WriteBlock(r, r.index)

WriteFooter(r, footer) ==
    IF Ok(r)
    THEN [r EXCEPT !.file = Append(@, [off |-> r.offset, size |-> 0, body |-> footer,
                                       damaged |-> FALSE])]
    ELSE r

FinishFooter(r, metaHandle) ==
    IF Ok(r) THEN WriteFooter(FileCall(r), [meta |-> metaHandle, index |-> r.handle]) ELSE r

(* dataHandle is the handle of the last data block, which its index entry holds.*)
FinishIndex(r, dataHandle) ==
    IF ~Ok(r) THEN r
    ELSE FinishFooter(WriteIndex(AddIndexEntry([r EXCEPT !.handle = dataHandle],
                                               FindShortSuccessor(r.last))), r.handle)

FinishMeta(r) == FinishIndex(WriteMeta(WriteFilter(r, FilterFinish(r.filter))), r.handle)

FinishRep(r) == FinishMeta(FlushBlock(r))

-----------------------------------------------------------------------------
(* Reading.  unreadable is the set of offsets whose read fails in this step.    *)

Stored(off) == b.file[SelectInSeq(b.file, LAMBDA x : x.off = off)]

(* ReadBlock: the contents, or why there are none.                              *)
ReadBlock(handle, verify, unreadable) ==
    IF handle.off \in unreadable THEN [st |-> "ioerror"]
    ELSE IF Stored(handle.off).damaged /\ verify THEN [st |-> "corrupt"]
    ELSE [st |-> "ok", body |-> Stored(handle.off).body]

NullIter == NewErrorIterator("null")
IsNull(iter) == iter.st = "null"

(* Table::BlockReader: a cached block is not read again.                        *)
CacheRead(t, handle, r) ==
    IF r.st = "ok"
    THEN [iter |-> NewIter(r.body),
          cached |-> IF tbl.fill THEN t.cached \union {handle.off} ELSE t.cached]
    ELSE [iter |-> NewErrorIterator(r.st), cached |-> t.cached]

BlockReader(t, handle, unreadable) ==
    IF handle.off \in t.cached
    THEN [iter |-> NewIter(Stored(handle.off).body), cached |-> t.cached]
    ELSE CacheRead(t, handle, ReadBlock(handle, tbl.verify, unreadable))

(* TwoLevelIterator: [idx, data, handle, st, cached].                           *)
NewTwoLevel(idx) ==
    [idx |-> idx, data |-> NullIter, handle |-> NoHandle, st |-> "ok", cached |-> {}]

SetDataIterator(t, iter) ==
    [t EXCEPT !.data = iter,
              !.st = IF ~IsNull(t.data) /\ @ = "ok" THEN t.data.st ELSE @]

UseBlock(t, r) == SetDataIterator([t EXCEPT !.handle = t.idx.value, !.cached = r.cached], r.iter)

InitDataBlock(t, unreadable) ==
    IF ~Valid(t.idx) THEN SetDataIterator(t, NullIter)
    ELSE IF ~IsNull(t.data) /\ t.idx.value = t.handle THEN t
    ELSE UseBlock(t, BlockReader(t, t.idx.value, unreadable))

TwoLevelValid(t) == ~IsNull(t.data) /\ Valid(t.data)

TwoLevelStatus(t) ==
    IF t.idx.st # "ok" THEN t.idx.st
    ELSE IF ~IsNull(t.data) /\ t.data.st # "ok" THEN t.data.st
    ELSE t.st

DataToFirst(t) == IF IsNull(t.data) THEN t ELSE [t EXCEPT !.data = BlockSeekToFirst(@)]
DataToLast(t) == IF IsNull(t.data) THEN t ELSE [t EXCEPT !.data = BlockSeekToLast(@)]
DataSeek(t, target) == IF IsNull(t.data) THEN t ELSE [t EXCEPT !.data = BlockSeek(@, target)]

RECURSIVE SkipForward(_, _)
SkipForward(t, unreadable) ==
    IF TwoLevelValid(t) THEN t
    ELSE IF ~Valid(t.idx) THEN SetDataIterator(t, NullIter)
    ELSE SkipForward(DataToFirst(InitDataBlock([t EXCEPT !.idx = BlockNext(@)], unreadable)),
                     unreadable)

RECURSIVE SkipBackward(_, _)
SkipBackward(t, unreadable) ==
    IF TwoLevelValid(t) THEN t
    ELSE IF ~Valid(t.idx) THEN SetDataIterator(t, NullIter)
    ELSE SkipBackward(DataToLast(InitDataBlock([t EXCEPT !.idx = BlockPrev(@)], unreadable)),
                      unreadable)

TLSeek(t, target, unreadable) ==
    SkipForward(DataSeek(InitDataBlock([t EXCEPT !.idx = BlockSeek(@, target)], unreadable), target),
                unreadable)

TLSeekToFirst(t, unreadable) ==
    SkipForward(DataToFirst(InitDataBlock([t EXCEPT !.idx = BlockSeekToFirst(@)], unreadable)),
                unreadable)

TLSeekToLast(t, unreadable) ==
    SkipBackward(DataToLast(InitDataBlock([t EXCEPT !.idx = BlockSeekToLast(@)], unreadable)),
                 unreadable)

TLNext(t, unreadable) == SkipForward([t EXCEPT !.data = BlockNext(@)], unreadable)
TLPrev(t, unreadable) == SkipBackward([t EXCEPT !.data = BlockPrev(@)], unreadable)

(* InternalGet: what the saver is called with (<< >> for not at all) and the    *)
(* status.  The filter may answer that the block does not hold the key.         *)
Closest(a, c) == IF a.st # "ok" THEN a.st ELSE c.st

SaveEntry(iiter, found, cached) ==
    [key |-> IF Valid(found) THEN found.key ELSE << >>, st |-> Closest(found, iiter),
     cached |-> cached]

GetFromBlock(iiter, k, blk) == SaveEntry(iiter, BlockSeek(blk.iter, k), blk.cached)

GetAt(t, iiter, k, unreadable) ==
    IF ~Valid(iiter) \/ ~KeyMayMatch(tbl.filter, iiter.value.off, k)
    THEN [key |-> << >>, st |-> iiter.st, cached |-> t.cached]
    ELSE GetFromBlock(iiter, k, BlockReader(t, iiter.value, unreadable))

InternalGet(t, k, unreadable) == GetAt(t, BlockSeek(NewIter(tbl.index), k), k, unreadable)

(* Behind the last block, the offset of the metaindex block.                    *)
OffsetAt(iter) == IF Valid(iter) THEN iter.value.off ELSE tbl.meta
ApproximateOffsetOf(k) == OffsetAt(BlockSeek(NewIter(tbl.index), k))

-----------------------------------------------------------------------------
NoTable == [index |-> NoBlock, filter |-> << >>, verify |-> FALSE, fill |-> FALSE, meta |-> 0]
NoGet == [target |-> << >>, key |-> << >>, st |-> "ok"]
Closed == NewTwoLevel(NullIter)

Init ==
    /\ phase = "build" /\ added = << >> /\ b = NewRep
    /\ tbl = NoTable /\ it = Closed /\ ref = 0 /\ got = NoGet
    /\ moves = 0 /\ faults = 0

FailsAt == IF faults < MaxFaults THEN 0 .. 8 ELSE {0}

(* A step of the builder, in which the fail-th call of the file fails.          *)
BuilderStep(r, fail) ==
    /\ b' = [r EXCEPT !.fail = 0]
    /\ faults' = faults + (IF fail > 0 /\ r.fail = 0 THEN 1 ELSE 0)
    /\ fail > 0 => r.fail = 0
    /\ UNCHANGED <<tbl, it, ref, got, moves>>

Add(key) ==
    /\ phase = "build" /\ Len(added) < MaxEntries
    /\ added # << >> => InternalCompare(added[Len(added)], key) < 0
    /\ added' = Append(added, key)
    /\ \E fail \in FailsAt :
           BuilderStep(IF Ok(b) THEN AddToRep([b EXCEPT !.fail = fail], key, Len(added) + 1) ELSE b, fail)
    /\ UNCHANGED phase

Flush ==
    /\ phase = "build"
    /\ \E fail \in FailsAt : BuilderStep(FlushBlock([b EXCEPT !.fail = fail]), fail)
    /\ UNCHANGED <<phase, added>>

(* The owner uses a file only if Finish succeeds.                               *)
Finish ==
    /\ phase = "build"
    /\ \E fail \in FailsAt :
       \E r \in {IF Ok(b) THEN FinishRep([b EXCEPT !.fail = fail]) ELSE b} :
           BuilderStep(r, fail) /\ phase' = IF Ok(r) THEN "closed" ELSE "failed"
    /\ UNCHANGED added

Abandon ==
    /\ phase = "build"
    /\ phase' = "failed"
    /\ UNCHANGED <<added, b, tbl, it, ref, got, moves, faults>>

(* A block is overwritten: its checksum does not fit any more, and the lengths  *)
(* of one of its entries, if it has entries, run past its end.                  *)
IsFilter(i) == UseFilter /\ i = Len(b.file) - 3
IsFooter(i) == i = Len(b.file)

Damage(i) ==
    /\ phase = "closed" /\ faults < MaxFaults
    /\ ~IsFooter(i)
    /\ IF IsFilter(i) \/ b.file[i].body.ent = << >>
       THEN b' = [b EXCEPT !.file[i].damaged = TRUE]
       ELSE \E e \in ToSet(b.file[i].body.ent) :
                b' = [b EXCEPT !.file[i].damaged = TRUE, !.file[i].body.bad = {e.off}]
    /\ faults' = faults + 1
    /\ UNCHANGED <<phase, added, tbl, it, ref, got, moves>>

Offsets == {b.file[i].off : i \in DOMAIN b.file}
Unreadable == IF faults < MaxFaults THEN {{}} \union {{off} : off \in Offsets} ELSE {{}}

(* ReadMeta and ReadFilter: without a filter every block may match.             *)
FilterBody(filter) == IF filter.st = "ok" THEN filter.body ELSE << >>

ReadFilter(iter, verify, unreadable) ==
    IF Valid(iter) THEN FilterBody(ReadBlock(iter.value, verify, unreadable)) ELSE << >>

FilterOf(meta, verify, unreadable) ==
    IF meta.st = "ok"
    THEN ReadFilter(BlockSeekToFirst(NewIter(meta.body)), verify, unreadable) ELSE << >>

ReadMeta(footer, verify, unreadable) ==
    IF UseFilter THEN FilterOf(ReadBlock(footer.meta, verify, unreadable), verify, unreadable)
    ELSE << >>

(* Open, with paranoid_checks or not, fills the cache or not; then NewIterator. *)
OpenTable(verify, fill) ==
    /\ phase = "closed"
    /\ \E unreadable \in Unreadable, footer \in {b.file[Len(b.file)].body} :
       \E index \in {ReadBlock(footer.index, verify, unreadable)} :
               /\ b.file[Len(b.file)].off \notin unreadable
               /\ index.st = "ok"
               /\ tbl' = [index |-> index.body, verify |-> verify, fill |-> fill,
                          meta |-> footer.meta.off,
                          filter |-> ReadMeta(footer, verify, unreadable)]
               /\ it' = NewTwoLevel(NewIter(index.body))
               /\ faults' = faults + Cardinality(unreadable)
    /\ phase' = "read"
    /\ UNCHANGED <<added, b, ref, got, moves>>

Move(t, to, unreadable) ==
    /\ phase = "read" /\ "iterate" \in Reads /\ moves < MaxMoves
    /\ it' = t
    /\ ref' = to
    /\ moves' = moves + 1
    /\ faults' = faults + Cardinality(unreadable)
    /\ UNCHANGED <<phase, added, b, tbl, got>>

FirstAtOrAfter(k) == SelectInSeq(added, LAMBDA key : InternalCompare(key, k) >= 0)

Seek(k) == \E u \in Unreadable : Move(TLSeek(it, k, u), FirstAtOrAfter(k), u)
SeekToFirst == \E u \in Unreadable : Move(TLSeekToFirst(it, u), Smaller(1, Len(added)), u)
SeekToLast == \E u \in Unreadable : Move(TLSeekToLast(it, u), Len(added), u)
NextEntry == TwoLevelValid(it) /\ \E u \in Unreadable :
             Move(TLNext(it, u), IF ref = Len(added) THEN 0 ELSE ref + 1, u)
Prev == TwoLevelValid(it) /\ \E u \in Unreadable : Move(TLPrev(it, u), ref - 1, u)

Get(k) ==
    /\ phase = "read" /\ "get" \in Reads /\ moves < MaxMoves
    /\ \E u \in Unreadable :
       \E r \in {InternalGet(it, k, u)} :
               /\ got' = [target |-> k, key |-> r.key, st |-> r.st]
               /\ it' = [it EXCEPT !.cached = r.cached]
               /\ faults' = faults + Cardinality(u)
    /\ moves' = moves + 1
    /\ UNCHANGED <<phase, added, b, tbl, ref>>

Next ==
    \/ \E key \in Keys : Add(key)
    \/ Flush \/ Finish \/ Abandon
    \/ \E i \in DOMAIN b.file : Damage(i)
    \/ \E verify, fill \in BOOLEAN : OpenTable(verify, fill)
    \/ \E k \in Targets : Seek(k) \/ Get(k)
    \/ SeekToFirst \/ SeekToLast \/ NextEntry \/ Prev

Spec == Init /\ [][Next]_vars

-----------------------------------------------------------------------------
(* The one type invariant of the module.                                        *)
TypeOK ==
    /\ phase \in {"build", "failed", "closed", "read"}
    /\ added \in Seq(Keys) /\ Len(added) <= MaxEntries
    /\ b.st \in {"ok", "ioerror"} /\ b.fail = 0
    /\ ref \in 0 .. Len(added)
    /\ it.st \in {"ok", "ioerror", "corrupt"}
    /\ got.st \in {"ok", "ioerror", "corrupt"}

(* An iterator over the table is where an iterator over the entries added      *)
(* would be, through every Seek, Next and Prev, unless its status says that     *)
(* something could not be read; and the status stays.  Prefixes that are shared, *)
(* restart points, shortened index keys and empty blocks change nothing.        *)
CursorIsRightOrSaysSo ==
    phase = "read" /\ TwoLevelStatus(it) = "ok" /\ moves > 0 /\ "get" \notin Reads =>
        IF TwoLevelValid(it) THEN ref > 0 /\ it.data.key = added[ref] /\ it.data.value = ref ELSE ref = 0

(* A look-up that reports no error found the newest entry of its user key that *)
(* is not newer than the target, if there is one: neither the index, the        *)
(* filters nor a block that could not be read hide it.                          *)
GetFindsNewest ==
    LET hits == {i \in DOMAIN added : /\ ExtractUserKey(added[i]) = ExtractUserKey(got.target)
                                      /\ InternalCompare(added[i], got.target) >= 0}
    IN  got.target # << >> /\ got.st = "ok" /\ hits # {} => got.key = added[Min(hits)]

(* A later key is never said to be earlier in the file, and no key behind its  *)
(* data: compaction and GetApproximateSizes subtract these offsets.             *)
OffsetsGrowWithKeys ==
    phase = "read" /\ moves = 0 /\ (\A x \in ToSet(b.file) : ~x.damaged) =>
        \A k, l \in Targets :
            InternalCompare(k, l) <= 0 =>
                /\ ApproximateOffsetOf(k) <= ApproximateOffsetOf(l)
                /\ ApproximateOffsetOf(l) <= b.offset

(* Handles that Finish leaves in the file name the blocks they were made for:   *)
(* blocks lie one behind the other, each at the offset the builder recorded,    *)
(* although a failed write left the builder's offset behind.                    *)
BlocksAreContiguous ==
    phase \in {"closed", "read"} =>
        \A i \in 2 .. Len(b.file) :
            b.file[i].off = b.file[i - 1].off + b.file[i - 1].size + TrailerSize
=============================================================================
