------------------------------ MODULE LogFile ------------------------------
(***************************************************************************)
(* db/log_writer.cc and db/log_reader.cc: logs and manifests are files of   *)
(* blocks; a record is cut into fragments that never cross a block, each    *)
(* with a header of checksum, length and type.                              *)
(*                                                                          *)
(* A file is a sequence of cells.  The header takes three cells (7 bytes in *)
(* the code); a checksum cell is the pair it was computed from, so two      *)
(* checksums agree only for the same type and payload.                      *)
(***************************************************************************)
EXTENDS Integers, FiniteSets, Sequences, SequencesExt

CONSTANTS
  BlockSize,       \* kBlockSize (32768)
  Lens,            \* lengths of records
  MaxRecords,      \* bound: records written
  MaxReopens,      \* bound: crashes after which the log is appended to
  MaxFaults,       \* bound: failed Appends
  MaxCorrupt,      \* bound: damaged cells
  Cuts,            \* the log may be appended to after a crash that cut it
  Offsets          \* initial_offset of the reader

HeaderSize == 3
FullType == 1
FirstType == 2
MiddleType == 3
LastType == 4
Eof == 5
BadRecord == 6

VARIABLES
  file,         \* the cells
  synced,       \* how many cells are on the medium
  blockOffset,  \* block_offset_ of the writer
  records,      \* history: [len, start, end, ok, synced] of each AddRecord
  reader,       \* the Reader
  phase,        \* "write" or "read"
  used

vars == <<file, synced, blockOffset, records, reader, phase, used>>

Payload(id, from, n) == [i \in 1 .. n |-> <<"byte", id, from + i>>]
Zeros(n) == [i \in 1 .. n |-> <<"zero">>]
Lesser(a, b) == IF a < b THEN a ELSE b

-----------------------------------------------------------------------------
(* The writer. *)

EmitPhysicalRecord(type, payload) ==
  << <<"crc", type, payload>>, <<"len", Len(payload)>>, <<"type", type>> >> \o payload

(* A deviation: a header may be split over two blocks. *)
FragmentsWithoutTrailer(id, len, offset) ==
  LET emit[left \in 0 .. len, off \in 0 .. BlockSize, begin \in BOOLEAN] ==
        LET off1  == off % BlockSize
            avail == IF BlockSize - off1 < HeaderSize THEN BlockSize ELSE BlockSize - off1 - HeaderSize
            n     == Lesser(left, avail)
            type  == IF begin /\ n = left THEN FullType ELSE IF begin THEN FirstType
                     ELSE IF n = left THEN LastType ELSE MiddleType
        IN <<[cells |-> EmitPhysicalRecord(type, Payload(id, len - left, n)),
              offset |-> (off1 + HeaderSize + n) % BlockSize]>>
           \o (IF n = left THEN << >> ELSE emit[left - n, (off1 + HeaderSize + n) % BlockSize, FALSE])
  IN emit[len, offset, TRUE]

(* The fragments of AddRecord, each with the cells appended for it (the     *)
(* trailer of the block before it included) and block_offset_ after it.     *)
Fragments(id, len, offset) ==
  LET emit[left \in 0 .. len, off \in 0 .. BlockSize, begin \in BOOLEAN] ==
        LET leftover == BlockSize - off
            pad   == IF leftover < HeaderSize THEN Zeros(leftover) ELSE << >>
            off1  == IF leftover < HeaderSize THEN 0 ELSE off
            n     == Lesser(left, BlockSize - off1 - HeaderSize)
            type  == IF begin /\ n = left THEN FullType ELSE IF begin THEN FirstType
                     ELSE IF n = left THEN LastType ELSE MiddleType
            after == off1 + HeaderSize + n
        IN <<[cells |-> pad \o EmitPhysicalRecord(type, Payload(id, len - left, n)), offset |-> after]>>
           \o (IF n = left THEN << >> ELSE emit[left - n, after, FALSE])
  IN emit[len, offset, TRUE]

Record(len, ok, sync) ==
  LET first == Fragments(Len(records) + 1, len, blockOffset)[1].cells
      pad == Cardinality({i \in DOMAIN first : first[i][1] = "zero"})
  IN [len |-> len, start |-> Len(file) + pad, end |-> Len(file'), ok |-> ok, synced |-> sync]

AddRecord(len, sync) ==
  LET fs == Fragments(Len(records) + 1, len, blockOffset) IN
  /\ phase = "write" /\ Len(records) < MaxRecords
  /\ file' = FoldLeft(LAMBDA s, f: s \o f.cells, file, fs)
  /\ synced' = IF sync THEN Len(file') ELSE synced
  /\ blockOffset' = fs[Len(fs)].offset
  /\ records' = Append(records, Record(len, TRUE, sync))
  /\ UNCHANGED <<reader, phase, used>>

(* The j-th fragment cannot be appended: some of its cells may be in the    *)
(* file, block_offset_ moves on all the same, and the record is given up.   *)
AddRecordFails(len) ==
  LET fs == Fragments(Len(records) + 1, len, blockOffset) IN
  /\ phase = "write" /\ Len(records) < MaxRecords /\ used.faults < MaxFaults
  /\ \E j \in DOMAIN fs : \E k \in 0 .. Len(fs[j].cells) - 1 :
       /\ file' = FoldLeft(LAMBDA s, f: s \o f.cells, file, SubSeq(fs, 1, j - 1)) \o SubSeq(fs[j].cells, 1, k)
       /\ blockOffset' = fs[j].offset
  /\ records' = Append(records, Record(len, FALSE, FALSE))
  /\ used' = [used EXCEPT !.faults = @ + 1]
  /\ UNCHANGED <<synced, reader, phase>>

-----------------------------------------------------------------------------
(* What happens to the file between the writer and the reader. *)

CutTo(n) ==
  /\ file' = SubSeq(file, 1, n) /\ synced' = n
  /\ records' = [i \in DOMAIN records |->
                   [records[i] EXCEPT !.ok = @ /\ records[i].end <= n, !.end = Lesser(@, n)]]

(* With reuse_logs the next writer goes on from the length it finds,        *)
(* Writer(dest, dest_length): the whole file after a Close, or what a crash *)
(* left of it.                                                              *)
Reopen ==
  /\ phase = "write" /\ used.reopens < MaxReopens
  /\ \E n \in (IF Cuts THEN synced ELSE Len(file)) .. Len(file) :
       CutTo(n) /\ blockOffset' = n % BlockSize
  /\ used' = [used EXCEPT !.reopens = @ + 1]
  /\ UNCHANGED <<reader, phase>>

(* A cell is damaged: a length or a type becomes another one. *)
Corrupt ==
  /\ phase = "write" /\ used.corrupt < MaxCorrupt
  /\ \E i \in DOMAIN file :
       file' \in {[file EXCEPT ![i] = x] :
                  x \in CASE file[i][1] = "len" -> {<<"len", n>> : n \in 0 .. BlockSize} \ {file[i]}
                          [] file[i][1] = "type" -> {<<"type", n>> : n \in 0 .. 4} \ {file[i]}
                          [] OTHER -> {<<"bad">>}}
       /\ used' = [used EXCEPT !.corrupt = @ + 1, !.at = i]
  /\ UNCHANGED <<synced, blockOffset, records, reader, phase>>

-----------------------------------------------------------------------------
(* The reader. *)

NewReader(initial) ==
  [initial |-> initial, buffer |-> << >>, eof |-> FALSE, last |-> 0, end |-> 0, pos |-> 0,
   resyncing |-> initial > 0, fragmented |-> FALSE, scratch |-> << >>, prospective |-> 0,
   out |-> << >>, reports |-> 0, done |-> FALSE]

(* Skipping past the end of the file is an error for the reader. *)
SkipToInitialBlock(r) ==
  LET inBlock == r.initial % BlockSize
      start == IF inBlock > BlockSize - (HeaderSize - 1) THEN r.initial - inBlock + BlockSize
               ELSE r.initial - inBlock
  IN [r EXCEPT !.end = start, !.pos = start]

(* ReportDrop; the unsigned difference wraps, so it is never too small.     *)
Report(r, bytes) ==
  LET at == r.end - Len(r.buffer) - bytes IN
  [r EXCEPT !.reports = IF at < 0 \/ at >= r.initial THEN @ + 1 ELSE @]

(* The next block, when fewer cells than a header are left of this one.     *)
Refill(r) ==
  LET block == SubSeq(file, r.pos + 1, Lesser(r.pos + BlockSize, Len(file))) IN
  IF Len(r.buffer) >= HeaderSize \/ r.eof THEN r
  ELSE [r EXCEPT !.buffer = block, !.pos = @ + Len(block), !.end = @ + Len(block),
                 !.eof = Len(block) < BlockSize]

Drop(r) == [r EXCEPT !.buffer = << >>]
Physical(r, type, fragment) == [r |-> r, type |-> type, fragment |-> fragment]

(* ReadPhysicalRecord. *)
ReadPhysicalRecord(r0) ==
  LET r == Refill(r0)
      b == r.buffer
      length == IF b[2][1] = "len" THEN b[2][2] ELSE IF b[2][1] = "zero" THEN 0 ELSE BlockSize
      type == IF b[3][1] = "type" THEN b[3][2] ELSE 0
      payload == SubSeq(b, HeaderSize + 1, HeaderSize + length)
      rest == [r EXCEPT !.buffer = SubSeq(b, HeaderSize + length + 1, Len(b))]
      start == r.end - Len(b)
  IN CASE Len(b) < HeaderSize -> Physical(Drop(r), Eof, << >>)
       [] Len(b) >= HeaderSize /\ HeaderSize + length > Len(b) ->
            IF r.eof THEN Physical(Drop(r), Eof, << >>)
            ELSE Physical(Report(Drop(r), Len(b)), BadRecord, << >>)
       [] Len(b) >= HeaderSize + length /\ type = 0 /\ length = 0 -> Physical(Drop(r), BadRecord, << >>)
       [] Len(b) >= HeaderSize + length /\ ~(type = 0 /\ length = 0)
            /\ b[1] # <<"crc", type, payload>> -> Physical(Report(Drop(r), Len(b)), BadRecord, << >>)
       [] OTHER -> IF start < r.initial THEN Physical(rest, BadRecord, << >>)
                   ELSE Physical(rest, type, payload)

Return(r, record, at) ==
  [r EXCEPT !.out = Append(@, record), !.last = at, !.fragmented = FALSE, !.scratch = << >>]

(* One round of ReadRecord's loop; a record that is complete is returned    *)
(* and the next call starts with an empty scratch.                          *)
ReadRecordStep(p) ==
  LET r  == [p.r EXCEPT !.resyncing = @ /\ p.type = MiddleType]
      f  == p.fragment
      at == p.r.end - Len(p.r.buffer) - HeaderSize - Len(f)
      broken == IF r.fragmented /\ r.scratch # << >> THEN Report(r, Len(r.scratch)) ELSE r
  IN CASE p.r.resyncing /\ p.type \in {MiddleType, LastType} -> r
       [] ~p.r.resyncing \/ p.type \notin {MiddleType, LastType} ->
          CASE p.type = FullType -> Return(broken, f, at)
            [] p.type = FirstType -> [broken EXCEPT !.prospective = at, !.scratch = f, !.fragmented = TRUE]
            [] p.type = MiddleType ->
                 IF r.fragmented THEN [r EXCEPT !.scratch = @ \o f] ELSE Report(r, Len(f))
            [] p.type = LastType ->
                 IF r.fragmented THEN Return(r, r.scratch \o f, r.prospective) ELSE Report(r, Len(f))
            [] p.type = Eof -> [r EXCEPT !.done = TRUE, !.scratch = << >>]
            [] p.type = BadRecord ->
                 IF r.fragmented THEN [Report(r, Len(r.scratch)) EXCEPT !.fragmented = FALSE, !.scratch = << >>]
                 ELSE r
            [] OTHER -> [Report(r, Len(f)) EXCEPT !.fragmented = FALSE, !.scratch = << >>]

StartReading(initial) ==
  /\ phase = "write" /\ phase' = "read"
  /\ reader' = LET r == NewReader(initial) IN IF initial > 0 THEN SkipToInitialBlock(r) ELSE r
  /\ UNCHANGED <<file, synced, blockOffset, records, used>>

(* A crash cuts off some cells that were not synced, and recovery reads. *)
CrashAndRead ==
  /\ phase = "write" /\ phase' = "read"
  /\ \E n \in synced .. Len(file) : CutTo(n)
  /\ reader' = NewReader(0)
  /\ UNCHANGED <<blockOffset, used>>

Read ==
  /\ phase = "read" /\ ~reader.done
  /\ reader' = ReadRecordStep(ReadPhysicalRecord(reader))
  /\ UNCHANGED <<file, synced, blockOffset, records, phase, used>>

-----------------------------------------------------------------------------
Init ==
  /\ file = << >> /\ synced = 0 /\ blockOffset = 0 /\ records = << >>
  /\ reader = NewReader(0) /\ phase = "write"
  /\ used = [reopens |-> 0, faults |-> 0, corrupt |-> 0, at |-> 0]

Next == \/ \E len \in Lens, sync \in BOOLEAN : AddRecord(len, sync)
        \/ \E len \in Lens : AddRecordFails(len)
        \/ Reopen \/ Corrupt
        \/ \E initial \in Offsets : initial <= Len(file) /\ StartReading(initial)
        \/ CrashAndRead \/ Read

Spec == Init /\ [][Next]_vars

-----------------------------------------------------------------------------
Whole(i) == Payload(i, 0, records[i].len)
Read1(i) == Whole(i) \in ToSet(reader.out)
Done == phase = "read" /\ reader.done
BlockOf(cell) == (cell - 1) \div BlockSize
DamagedBlock(i) == used.corrupt > 0 /\ BlockOf(used.at) \in BlockOf(records[i].start + 1) .. BlockOf(records[i].end)

(* The one type invariant of the module. *)
TypeOK ==
  /\ synced \in 0 .. Len(file) /\ blockOffset \in 0 .. BlockSize
  /\ phase \in {"write", "read"} /\ reader.pos \in 0 .. Len(file) + BlockSize
  /\ Len(reader.buffer) <= BlockSize

(* Whatever was cut off or damaged, the reader returns only records that    *)
(* were written, whole, each at most once and in their order.               *)
OnlyWrittenRecords ==
  \A i \in DOMAIN reader.out : \E a \in DOMAIN records :
    /\ reader.out[i] = Whole(a)
    /\ i > 1 => \E b \in 1 .. a - 1 : reader.out[i - 1] = Whole(b)

(* Without damage every record that was completed and survived the crash is *)
(* returned, and nothing is reported: a torn tail is not a corruption.      *)
CompletedRecordsRead ==
  Done /\ used.corrupt = 0 /\ reader.initial = 0 =>
    /\ \A i \in DOMAIN records : records[i].ok => Read1(i)
    /\ reader.reports = 0

(* Damage stays in its block: a record with no cell in it is still read.    *)
DamageStaysInBlock ==
  Done /\ reader.initial = 0 => \A i \in DOMAIN records : records[i].ok /\ ~DamagedBlock(i) => Read1(i)

(* A record lost to damage is reported, except in the last block, where it  *)
(* looks like the torn tail of a crash.                                     *)
LossIsReported ==
  Done /\ reader.initial = 0 =>
    \A i \in DOMAIN records : records[i].ok /\ ~Read1(i) =>
      reader.reports > 0 \/ BlockOf(used.at) = BlockOf(Len(file))

(* A reader that starts at an offset returns exactly the records that start *)
(* at or after it.                                                          *)
StartsAtInitialOffset ==
  Done /\ used.corrupt = 0 =>
    \A i \in DOMAIN records : records[i].ok => (Read1(i) <=> records[i].start >= reader.initial)

(* What has been synced survives a crash and every later append: a write    *)
(* with sync has the semantics of write() followed by fsync().              *)
SyncedRecordsRead == Done => \A i \in DOMAIN records : records[i].ok /\ records[i].synced => Read1(i)
=============================================================================
