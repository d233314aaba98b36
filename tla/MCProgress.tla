----------------------------- MODULE MCProgress -----------------------------
(* What must eventually happen, one unit in each behaviour: the app and its      *)
(* database client, the access to the location, and the threads of leveldb.      *)
(* A unit other than the app keeps its variables in the slots.                   *)
EXTENDS FirebaseService, TLC

CONSTANTS NoAccess, r1    \* no position; a reader

VARIABLES
    unit,
    s1, s2, s3, s4, s5, s6, s7, s8, s9, s10, s11, s12, s13, s14, s15, s16, s17,
    s18, s19, s20, s21, s22

slots == <<s1, s2, s3, s4, s5, s6, s7, s8, s9, s10, s11, s12, s13, s14, s15,
           s16, s17, s18, s19, s20, s21, s22>>

MCBucketOrder == [d \in 1 .. MaxDay |-> MaxDay + 1 - d]

(* A record of two leaves, one of them in a bucket of its own.                    *)
Client == INSTANCE RealtimeDatabase WITH
    Path <- {"entry", "info"}, Value <- {1}, Place <- {"record", "bucket"}, Root <- "record",
    Under <- [l \in {"record", "bucket"} |-> IF l = "record" THEN {"entry", "info"} ELSE {"entry"}],
    Visit <- [l \in {"record", "bucket"} |-> IF l = "record" THEN 1 ELSE 0],
    Callback <- {"block"}, MayRefuse <- {"info"}, MaxWrites <- 2, MaxHandles <- 1,
    server <- s1, link <- s2, asked <- s3, up <- s4, down <- s5, listening <- s6,
    awaiting <- s7, cache <- s8, writes <- s9, held <- s10, nextWrite <- s11,
    written <- s12, observers <- s13, nextHandle <- s14, calls <- s15, events <- s16

Access == INSTANCE LocationService WITH
    Wanted <- "authorizedAlways", Coordinate <- {"office"}, None <- NoAccess, MaxChanges <- 2, MaxBatch <- 1,
    status <- s1, prompt <- s2, changes <- s3, loaded <- s4, completion <- s5,
    tracking <- s6, delegate <- s7, coordinates <- s8, reported <- s9, seen <- s10,
    answers <- s11

(* Memtables are full at once; the process may crash, or a file operation fail.    *)
Flush == INSTANCE DBImpl WITH
    NumLevels <- 3, MaxMemLevel <- 2, L0Trigger <- 1, MaxFileSize <- 4, LevelSize <- 1,
    LevelFactor <- 10, OverlapFactor <- 10, ExpandFactor <- 25, MaxSequence <- 100, NULL <- Null,
    Key <- {1}, WriteBufferSize <- 0, L0Stop <- 3, MaxSeq <- 2, MaxSnapshots <- 0,
    MaxReaders <- 0, MaxManual <- 0, MaxCrashes <- 1, MaxFaults <- 1, MachineCrash <- FALSE,
    ReuseLogs <- FALSE, Batches <- {<<[k |-> 1, del |-> FALSE]>>}, Syncs <- {FALSE},
    Ranges <- {<<Null, Null>>},
    open <- s1, mem <- s2, imm <- s3, current <- s4, seek <- s5, pointers <- s6, vs <- s7,
    tables <- s8, logs <- s9, synced <- s10, manifest <- s11, pending <- s12,
    snapshots <- s13, scheduled <- s14, bgError <- s15, m <- s16, c <- s17, manual <- s18,
    reader <- s19, hist <- s20, doubt <- s21, used <- s22

(* Three writers, one of which may be the NULL batch of a flush, and a full level 0. *)
Writers == INSTANCE WriteQueue WITH
    Thread <- {"t1", "t2", "t3"}, Sizes <- {0, 1}, Syncs <- {FALSE}, SmallBatch <- 1, MaxGroup <- 4,
    BufferSize <- 0, Slowdown <- 1, Stop <- 2, InitialFiles <- 1, MaxFaults <- 0, NULL <- Null,
    mutex <- s1, w <- s2, queue <- s3, group <- s4, memSize <- s5, imm <- s6, files <- s7,
    bgError <- s8, seq <- s9, log <- s10, synced <- s11, applied <- s12, called <- s13,
    before <- s14, inMem <- s15, syncFailed <- s16, faults <- s17

Iter == INSTANCE DBIter WITH
    UserKeys <- {1, 2}, MaxTables <- 1, MaxSeq <- 2, MaxMoves <- 2, MaxFaults <- 0, None <- Null,
    mem <- s1, tables <- s2, seq <- s3, lost <- s4, m <- s5, d <- s6, pc <- s7, skip <- s8,
    ref <- s9, moves <- s10

Background == INSTANCE BackgroundThread WITH
    Databases <- {"d1", "d2"}, None <- Null,
    started_bgthread <- s1, queue <- s2, thread <- s3, current <- s4, user <- s5,
    scheduled <- s6, bg_error <- s7

Skip == INSTANCE SkipList WITH
    Keys <- {1, 2}, Readers <- {r1}, kMaxHeight <- 2, MaxOps <- 1,
    next <- s1, heights <- s2, w <- s3, r <- s4, done <- s5

-----------------------------------------------------------------------------
(* The slots from the k-th on hold nothing, and keep it.                          *)
FreeFrom(k) ==
    /\ IF k <= 1 THEN s1 = 0 /\ s2 = 0 /\ s3 = 0 /\ s4 = 0 /\ s5 = 0 ELSE TRUE
    /\ IF k <= 6 THEN s6 = 0 /\ s7 = 0 ELSE TRUE
    /\ IF k <= 8 THEN s8 = 0 /\ s9 = 0 /\ s10 = 0 ELSE TRUE
    /\ IF k <= 11 THEN s11 = 0 ELSE TRUE
    /\ IF k <= 12 THEN s12 = 0 /\ s13 = 0 /\ s14 = 0 /\ s15 = 0 /\ s16 = 0 ELSE TRUE
    /\ IF k <= 17 THEN s17 = 0 ELSE TRUE
    /\ IF k <= 18 THEN s18 = 0 /\ s19 = 0 /\ s20 = 0 /\ s21 = 0 /\ s22 = 0 ELSE TRUE

ProgressInit ==
    /\ Init
    /\ \/ unit = "app"     /\ FreeFrom(1)
       \/ unit = "client"  /\ Client!Init     /\ FreeFrom(17)
       \/ unit = "access"  /\ Access!Init     /\ FreeFrom(12)
       \/ unit = "flush"   /\ Flush!Init
       \/ unit = "writers" /\ Writers!Init    /\ FreeFrom(18)
       \/ unit = "iter"    /\ Iter!Init       /\ FreeFrom(11)
       \/ unit = "thread"  /\ Background!Init /\ FreeFrom(8)
       \/ unit = "skip"    /\ Skip!SkipInit   /\ FreeFrom(6)

rest6  == <<s6, s7, s8, s9, s10, s11, s12, s13, s14,
            s15, s16, s17, s18, s19, s20, s21, s22>>
rest8  == <<s8, s9, s10, s11, s12, s13, s14,
            s15, s16, s17, s18, s19, s20, s21, s22>>
rest11 == <<s11, s12, s13, s14, s15, s16, s17, s18, s19, s20, s21, s22>>
rest12 == <<s12, s13, s14, s15, s16, s17, s18, s19, s20, s21, s22>>
rest17 == <<s17, s18, s19, s20, s21, s22>>
rest18 == <<s18, s19, s20, s21, s22>>

ProgressNext ==
    /\ UNCHANGED unit
    /\ \/ unit = "app" /\ Next /\ UNCHANGED slots
       \/ /\ UNCHANGED vars
          /\ \/ unit = "client"  /\ Client!Next     /\ UNCHANGED rest17
             \/ unit = "access"  /\ Access!Next     /\ UNCHANGED rest12
             \/ unit = "flush"   /\ Flush!Next
             \/ unit = "writers" /\ Writers!Next    /\ UNCHANGED rest18
             \/ unit = "iter"    /\ Iter!Next       /\ UNCHANGED rest11
             \/ unit = "thread"  /\ Background!Next /\ UNCHANGED rest8
             \/ unit = "skip"    /\ Skip!SkipNext   /\ UNCHANGED rest6

(* The steps that are fair, numbered within their unit: a behaviour has one unit,   *)
(* so weak fairness of the i-th steps of all units is weak fairness of the i-th     *)
(* step of that unit, as its module states it.                                       *)
AppStep(i) ==
    \/ i = 1 /\ RunBlock
    \/ i = 2 /\ running /\ DB!ExecuteCall /\ UNCHANGED appVars
    \/ i = 3 /\ running /\ DB!onReady /\ UNCHANGED appVars
    \/ i = 4 /\ running /\ DB!onDataMessage /\ UNCHANGED appVars
    \/ i = 5 /\ DB!ServerTakesListen /\ UNCHANGED appVars
    \/ i = 6 /\ DB!ServerAnswersListen /\ UNCHANGED appVars
    \/ i = 7 /\ DB!ServerTakesPut /\ UNCHANGED appVars
ClientStepOf(i) ==
    \/ i = 1 /\ Client!AppTakesEvent
    \/ i = 2 /\ Client!ExecuteCall
    \/ i = 3 /\ Client!onReady
    \/ i = 4 /\ Client!onDataMessage
    \/ i = 5 /\ Client!ServerTakesListen
    \/ i = 6 /\ Client!ServerAnswersListen
    \/ i = 7 /\ Client!ServerTakesPut
FlushStep(i) ==
    \/ i = 1 /\ Flush!Background
    \/ i = 2 /\ Flush!Recover
    \/ i = 3 /\ Flush!Open
    \/ i = 4 /\ Flush!Closed
WritersStep(i) ==
    \/ i = 1 /\ Writers!Step("t1")
    \/ i = 2 /\ Writers!Step("t2")
    \/ i = 3 /\ Writers!Step("t3")
    \/ i = 4 /\ Writers!CompactMemTable
    \/ i = 5 /\ Writers!CompactLevel0
ThreadStepOf(i) ==
    \/ i = 1 /\ Background!ThreadStep
    \/ i = 2 /\ Background!CloseWaits("d1")
    \/ i = 3 /\ Background!CloseWaits("d2")
IterStep == Iter!FindNextUserEntry \/ Iter!TurnBack \/ Iter!FindPrevUserEntry

FairStep(i) ==
    /\ UNCHANGED unit
    /\ \/ unit = "app" /\ AppStep(i) /\ UNCHANGED slots
       \/ /\ UNCHANGED vars
          /\ \/ unit = "client"  /\ ClientStepOf(i) /\ UNCHANGED rest17
             \/ unit = "access"  /\ i = 1 /\ Access!didChangeAuthorization /\ UNCHANGED rest12
             \/ unit = "flush"   /\ FlushStep(i)
             \/ unit = "writers" /\ WritersStep(i) /\ UNCHANGED rest18
             \/ unit = "iter"    /\ i = 1 /\ IterStep /\ UNCHANGED rest11
             \/ unit = "thread"  /\ ThreadStepOf(i) /\ UNCHANGED rest8
             \/ unit = "skip"    /\ i = 1 /\ Skip!ReaderStep(r1) /\ UNCHANGED rest6

all == <<unit, slots, vars>>

ProgressSpec ==
    /\ ProgressInit /\ [][ProgressNext]_all
    /\ \A i \in 1 .. 7 : WF_all(FairStep(i))

-----------------------------------------------------------------------------
(* If the network stays up, every write is answered and the view becomes   *)
(* the server's record.                                                    *)
Converges == <>[](unit = "client" /\ s2) => <>[](unit = "client" /\ Client!Settled)

(* Access that stays granted leads to tracking, unless this process was    *)
(* refused before.                                                         *)
GrantLeadsToTracking ==
    <>[](unit = "access" /\ Access!Granted) => <>(unit = "access" /\ Access!Served)

(* A full memtable does not wait for ever: the background thread writes it, *)
(* or an error is recorded, or the database goes down.                      *)
ImmIsWritten == (unit = "flush" /\ Flush!ImmWaits) ~> (unit = "flush" /\ Flush!ImmResolved)

(* No wake-up is lost: every call of Write returns (the threads are alike, and one *)
(* stands for all; so do the databases of the background thread).                  *)
EveryWriteReturns ==
    (unit = "writers" /\ Writers!Called("t1")) ~> (unit = "writers" /\ Writers!Returned("t1"))

(* Every operation ends: the loops are finite although the writer adds entries. *)
OperationsEnd == (unit = "iter" /\ Iter!Moving) ~> (unit = "iter" /\ ~Iter!Moving)

(* The destructor returns, also while another database has work without end.    *)
CloseReturns ==
    (unit = "thread" /\ Background!Closing("d1")) ~> (unit = "thread" /\ Background!Closed("d1"))

(* What is scheduled is begun: the thread never sleeps over work.               *)
WorkBegins == (unit = "thread" /\ s6["d1"]) ~> (unit = "thread" /\ Background!Served("d1"))

(* A reader's operation ends, however often the writer inserts in front of it.  *)
ReadersFinish == (unit = "skip" /\ Skip!Searching(r1)) ~> (unit = "skip" /\ ~Skip!Searching(r1))

(* If the network stays up, what the app did reaches the server: every fix      *)
(* taken while it runs is recorded, every write is answered and the view        *)
(* becomes the server's record; and access that stays granted leads to          *)
(* tracking, unless this process was refused before.                            *)
AppMakesProgress == EventuallyRecorded /\ Converges /\ GrantLeadsToTracking

(* No wake-up is lost between the threads of the database: a full memtable is   *)
(* written or an error recorded, every call of Write returns, what is scheduled *)
(* is begun, and the destructor returns although another database has work      *)
(* without end.                                                                 *)
ThreadsMakeProgress == ImmIsWritten /\ EveryWriteReturns /\ WorkBegins /\ CloseReturns

(* Readers are never starved by the writer: the loops of an iterator and of a   *)
(* search in the skip list end although entries are added in front of them.     *)
ReadersMakeProgress == OperationsEnd /\ ReadersFinish
=============================================================================
