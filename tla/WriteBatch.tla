----------------------------- MODULE WriteBatch -----------------------------
(* leveldb's db/write_batch.cc and the two places a batch is used: DBImpl::Write *)
(* numbers it, appends it to the log and inserts it into the memtable, and        *)
(* RecoverLogFile inserts what it finds in the log again.  A batch is its bytes:  *)
(* sequence number, count, and one record for every Put and Delete.               *)
EXTENDS Coding

CONSTANTS
    Batches,        \* the caller's WriteBatch objects
    Keys, Values,   \* as bytes
    MaxOps,         \* bound: Puts and Deletes
    MaxWrites,      \* bound: calls of DBImpl::Write
    MaxCuts         \* bound: records that lose their end

VARIABLES
    rep,            \* rep_ of every batch
    ops,            \* history: what each batch has been told
    last_sequence,  \* versions_->LastSequence()
    mem,            \* entries of the memtable in the order they were added
    log,            \* the records of the log
    cuts,           \* records that lost their end
    committed,      \* history: operations of all writes, in order
    calls,          \* Puts and Deletes so far
    recovered       \* what RecoverLogFile made of the log, or Nothing

vars == <<rep, ops, last_sequence, mem, log, cuts, committed, calls, recovered>>

kTypeDeletion == 0
kTypeValue == 1

kHeader == FixedSize(Bits64) + FixedSize(Bits32)

-----------------------------------------------------------------------------
(* The bytes of a batch                                                          *)

Cleared == [i \in 1 .. kHeader |-> 0]

Sequence(b) == DecodeFixed(SubSeq(b, 1, FixedSize(Bits64)))
Count(b) == DecodeFixed(SubSeq(b, FixedSize(Bits64) + 1, kHeader))

SetSequence(b, seq) == EncodeFixed(Bits64, seq) \o Drop(b, FixedSize(Bits64))
SetCount(b, n) ==
    SubSeq(b, 1, FixedSize(Bits64)) \o EncodeFixed(Bits32, n) \o Drop(b, kHeader)

Put(b, key, value) ==
    PutLengthPrefixedSlice(
        PutLengthPrefixedSlice(Append(SetCount(b, Count(b) + 1), kTypeValue), key), value)

Delete(b, key) ==
    PutLengthPrefixedSlice(Append(SetCount(b, Count(b) + 1), kTypeDeletion), key)

(* WriteBatchInternal::Append.                                                   *)
AppendBatch(dst, src) == SetCount(dst, Count(dst) + Count(src)) \o Drop(src, kHeader)

(* One turn of Iterate: r.more is its condition, r.ops what the handler was      *)
(* told, found the turns begun.                                                  *)
BadTurn(r) == [r EXCEPT !.more = FALSE, !.ok = FALSE, !.found = @ + 1]

Handled(r, op, rest) == [r EXCEPT !.ops = Append(@, op), !.found = @ + 1, !.input = rest]

PutTurn(r, key, value) ==
    IF value.ok THEN Handled(r, <<kTypeValue, key, value.value>>, value.input) ELSE BadTurn(r)

Turn(r, tag, key) ==
    CASE tag = kTypeValue /\ key.ok ->
           PutTurn(r, key.value, GetLengthPrefixedSlice(key.input))
      [] tag = kTypeDeletion /\ key.ok ->
           Handled(r, <<kTypeDeletion, key.value, <<>> >>, key.input)
      [] OTHER -> BadTurn(r)

IterateOne(r) ==
    IF ~r.more \/ r.input = <<>> THEN [r EXCEPT !.more = FALSE]
    ELSE Turn(r, r.input[1], GetLengthPrefixedSlice(Drop(r.input, 1)))

Turns(b) ==
    FoldLeft(LAMBDA r, i : IterateOne(r),
             [more |-> TRUE, ok |-> TRUE, found |-> 0, ops |-> <<>>, input |-> Drop(b, kHeader)],
             [i \in 1 .. Len(b) |-> i])

SeenIn(r) == [ok |-> r.ok, ops |-> r.ops]
CountedIn(r, count) == [ok |-> r.ok /\ r.found = count, ops |-> r.ops]

(* A deviation: the count is not compared with what was found.                   *)
IterateUncounted(b) ==
    IF Len(b) < kHeader THEN [ok |-> FALSE, ops |-> <<>>]
    ELSE SeenIn(Turns(b))

(* The handler has seen the operations before a bad one, and all of them before  *)
(* the count is compared.                                                        *)
Iterate(b) ==
    IF Len(b) < kHeader THEN [ok |-> FALSE, ops |-> <<>>]
    ELSE CountedIn(Turns(b), Count(b))

(* MemTableInserter numbers the operations from the batch's sequence on.         *)
Numbered(r, seq, table) ==
    [ok |-> r.ok, mem |-> table \o [i \in DOMAIN r.ops |-> <<seq + i - 1, r.ops[i]>>]]

InsertInto(b, table) == Numbered(Iterate(b), Sequence(b), table)

-----------------------------------------------------------------------------
Nothing == [ok |-> TRUE, mem |-> <<>>, max_sequence |-> 0, errors |-> 0, done |-> FALSE]

Init ==
    /\ rep = [b \in Batches |-> Cleared] /\ ops = [b \in Batches |-> <<>>]
    /\ last_sequence = 0 /\ mem = <<>> /\ log = <<>> /\ cuts = {}
    /\ committed = <<>> /\ calls = 0 /\ recovered = Nothing

Running == ~recovered.done /\ cuts = {}

CallPut(b, key, value) ==
    /\ Running /\ calls < MaxOps
    /\ rep' = [rep EXCEPT ![b] = Put(@, key, value)]
    /\ ops' = [ops EXCEPT ![b] = Append(@, <<kTypeValue, key, value>>)]
    /\ calls' = calls + 1
    /\ UNCHANGED <<last_sequence, mem, log, cuts, committed, recovered>>

CallDelete(b, key) ==
    /\ Running /\ calls < MaxOps
    /\ rep' = [rep EXCEPT ![b] = Delete(@, key)]
    /\ ops' = [ops EXCEPT ![b] = Append(@, <<kTypeDeletion, key, <<>> >>)]
    /\ calls' = calls + 1
    /\ UNCHANGED <<last_sequence, mem, log, cuts, committed, recovered>>

Clear(b) ==
    /\ Running /\ rep[b] # Cleared
    /\ rep' = [rep EXCEPT ![b] = Cleared]
    /\ ops' = [ops EXCEPT ![b] = <<>>]
    /\ UNCHANGED <<last_sequence, mem, log, cuts, committed, calls, recovered>>

(* BuildBatchGroup: a lone batch is written as it is, a group is appended to the *)
(* empty tmp_batch_.                                                              *)
Grouped(bs) ==
    IF Len(bs) = 1 THEN rep[bs[1]]
    ELSE FoldLeft(LAMBDA dst, b : AppendBatch(dst, rep[b]), Cleared, bs)

(* The head of the queue writes the batches bs.  The number stays in a batch     *)
(* that was written alone; tmp_batch_ is cleared.                                 *)
Write(bs) ==
    /\ Running /\ Len(log) < MaxWrites
    /\ \E updates \in {SetSequence(Grouped(bs), last_sequence + 1)} :
          /\ last_sequence' = last_sequence + Count(updates)
          /\ log' = Append(log, updates)
          /\ mem' = InsertInto(updates, mem).mem
          /\ rep' = IF Len(bs) = 1 THEN [rep EXCEPT ![bs[1]] = updates] ELSE rep
    /\ committed' = committed \o FlattenSeq([i \in DOMAIN bs |-> ops[bs[i]]])
    /\ UNCHANGED <<ops, cuts, calls, recovered>>

(* A record loses its end, and all that the log reader checks still fits.        *)
Cut(i, n) ==
    /\ ~recovered.done /\ i \notin cuts /\ Cardinality(cuts) < MaxCuts
    /\ log' = [log EXCEPT ![i] = SubSeq(@, 1, n)]
    /\ cuts' = cuts \cup {i}
    /\ UNCHANGED <<rep, ops, last_sequence, mem, committed, calls, recovered>>

(* MaybeIgnoreError: unless checks are paranoid a bad record is forgotten.       *)
MaybeIgnore(paranoid, ok) == ok \/ ~paranoid

TakeInserted(paranoid, r, in) ==
    [r EXCEPT !.mem = in.mem, !.errors = @ + (IF in.ok THEN 0 ELSE 1),
              !.ok = MaybeIgnore(paranoid, in.ok)]

LastNumber(record) == Sequence(record) + Count(record) - 1

TakeNumbers(r, last, taken) == [r EXCEPT !.max_sequence = IF taken THEN Max({@, last}) ELSE @]

TooShort(paranoid, r) == [r EXCEPT !.errors = @ + 1, !.ok = MaybeIgnore(paranoid, FALSE)]

(* A deviation: the numbers of a batch that failed are not taken.                *)
RecoverRecordUnlessBad(paranoid, r, record) ==
    IF ~r.ok THEN r
    ELSE IF Len(record) < kHeader THEN TooShort(paranoid, r)
    ELSE TakeNumbers(TakeInserted(paranoid, r, InsertInto(record, r.mem)), LastNumber(record),
                     InsertInto(record, r.mem).ok)

(* One record in the loop of RecoverLogFile.  What a bad batch inserted stays,   *)
(* and its numbers count if the loop goes on.                                     *)
TakeBatch(r, last) == TakeNumbers(r, last, r.ok)

RecoverRecord(paranoid, r, record) ==
    IF ~r.ok THEN r
    ELSE IF Len(record) < kHeader THEN TooShort(paranoid, r)
    ELSE TakeBatch(TakeInserted(paranoid, r, InsertInto(record, r.mem)), LastNumber(record))

(* With options_.paranoid_checks or without.                                     *)
Recover(paranoid) ==
    /\ ~recovered.done
    /\ recovered' = [FoldLeft(LAMBDA r, record : RecoverRecord(paranoid, r, record), Nothing, log)
                        EXCEPT !.done = TRUE]
    /\ UNCHANGED <<rep, ops, last_sequence, mem, log, cuts, committed, calls>>

Next ==
    \/ \E b \in Batches, k \in Keys, v \in Values : CallPut(b, k, v)
    \/ \E b \in Batches, k \in Keys : CallDelete(b, k)
    \/ \E b \in Batches : Clear(b)
    \/ \E b \in Batches : Write(<<b>>)
    \/ \E b, c \in Batches : b # c /\ Write(<<b, c>>)
    \/ \E i \in DOMAIN log : \E n \in 0 .. Len(log[i]) - 1 : Cut(i, n)
    \/ \E paranoid \in BOOLEAN : Recover(paranoid)

Spec == Init /\ [][Next]_vars

-----------------------------------------------------------------------------
(* The one type invariant of the module: a batch never loses its header, which   *)
(* Count and Sequence read without a check.                                       *)
TypeOK ==
    /\ \A b \in Batches : Len(rep[b]) >= kHeader /\ ToSet(rep[b]) \subseteq 0 .. 255
    /\ last_sequence \in Nat /\ calls \in 0 .. MaxOps /\ Len(log) <= MaxWrites
    /\ cuts \subseteq DOMAIN log

(* Across group commits, batches written again and batches cleared, the memtable *)
(* holds the operations in the order of the writes, under consecutive numbers    *)
(* that end at LastSequence: no two share a number and none is left to the next  *)
(* write.                                                                         *)
OneNumberPerOperation ==
    /\ mem = [i \in DOMAIN committed |-> <<i, committed[i]>>]
    /\ last_sequence = Len(committed)

(* The log alone rebuilds the memtable and the last sequence number.             *)
LogRebuildsMemTable ==
    recovered.done /\ cuts = {} =>
        recovered.ok /\ recovered.mem = mem /\ recovered.max_sequence = last_sequence

(* No cut goes unnoticed, not even one between two operations: a batch is all    *)
(* there or reported.  And what a cut batch leaves behind it were operations of  *)
(* the batch under their own numbers.                                             *)
CutBatchIsReported ==
    recovered.done =>
        /\ recovered.ok => recovered.errors = Cardinality(cuts)
        /\ ToSet(recovered.mem) \subseteq ToSet(mem)

(* After a recovery that ignores errors the next write must not get a number     *)
(* that an entry of the memtable has.                                             *)
NumbersAreNotReused ==
    recovered.done /\ recovered.ok =>
        \A i \in DOMAIN recovered.mem : recovered.mem[i][1] <= recovered.max_sequence
=============================================================================
