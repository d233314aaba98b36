# MobileDevicesTracker: a TLA+ verification project

MobileDevicesTracker is an iOS app that registers the device it runs on in a
Firebase Realtime Database, lets its user add a project and a responsible
person, and appends the device's location to the record as long as it may track
it. The app is small; what makes it hard is what it stands on: the Firebase
client in `Pods/FirebaseDatabase`, which answers late, answers out of order,
reconnects and resends, and calls the app back on another queue. This project
models the app, the part of that client its correctness depends on, and the two
C and C++ libraries that the repository carries and builds with it: leveldb
(`Pods/leveldb-library`), which the client uses for disk persistence, and nanopb
(`Pods/nanopb`), which the analytics Pods use.

Source paths below are relative to `src/MobileDevicesTracker/`; `App/` stands
for `MobileDevicesTracker/`, `DB/` for
`Pods/FirebaseDatabase/Firebase/Database/` and `LDB/` for
`Pods/leveldb-library/`.

## 1. Inventory

| component | source | state | operations |
|---|---|---|---|
| Application lifecycle | `App/AppDelegate.swift` | none | configure Firebase, read the record at launch |
| FirebaseService | `App/Services/FirebaseService.swift` | `ref` of the record | `loadDataFromDb`, `updateLocations`, `saveUserData` |
| MobileInfoViewController | `App/Controllers/MobileInfoViewController.swift` | two text fields, a text view | `viewDidLoad`, `savePressed`, `didGetUserLocationUpdate` |
| LocationService | `App/Services/LocationService.swift` | stored completion, coordinates, delegate | `requestAccessToLocation`, `startLocationTracking`, the `CLLocationManagerDelegate` callbacks |
| MobileDeviceInfo, Device | `App/Models/` | none | model table, screen resolution and ratio, id, dictionary and back |
| CapturedDate, DeviceLocations, Coordinates | `App/Models/` | a date, a text | which day a fix belongs to |
| Client: sync tree, write tree, views | `DB/Core/FSyncTree.m`, `FWriteTree.m`, `FRepo.m`, `FViewProcessor.m`, `FEventGenerator.m` | server cache, pending writes, event registrations | observe, remove, set/update, acknowledge, apply server data, raise events |
| Client: persistent connection | `DB/Core/FPersistentConnection.m` | connection state, outstanding puts, listens, held answers | `onReady`, `restoreState`, `onDataMessage`, `onDisconnect`, `sendPut`, `sendListen` |
| Client: API | `DB/Api/FIRDatabaseQuery.m`, `DB/FIRDatabaseReference.m` | `firstCall` of single events | `observe`, `observeSingleEvent`, `removeObserver`, `setValue`, `updateChildValues` |
| Push ids, path validation | `DB/Utilities/FNextPushId.m`, `FValidation.m` | last time and random digits | `get:`, `validateFrom:validPathString:` |
| WebSocket handshake | `DB/third_party/SocketRocket/fbase64.c` | none | base64 into and out of a caller's buffer |
| leveldb: database | `LDB/db/db_impl.cc`, `builder.cc` | memtables, log, snapshots, pending outputs, background error, writer queue | `Write`, `Get`, iterators, snapshots, compactions, `Open`, `DeleteObsoleteFiles`, `GetApproximateSizes` |
| leveldb: versions | `LDB/db/version_set.cc`, `version_edit.cc` | files of each level, live versions, counters, compaction pointers | `LogAndApply`, `Recover`, `PickCompaction`, `CompactRange`, level iterators |
| leveldb: log files | `LDB/db/log_writer.cc`, `log_reader.cc`, `LDB/util/crc32c.cc` | block offset; the reader's buffer and resynchronisation | `AddRecord`, `ReadRecord`, `Extend`, `Mask` |
| leveldb: memtable | `LDB/db/memtable.cc`, `skiplist.h`, `LDB/util/arena.cc` | nodes and links, reference counts, blocks | `Add`, `Get`, `Insert`, searches without a lock, `Allocate` |
| leveldb: tables | `LDB/table/`, `LDB/util/bloom.cc`, `comparator.cc` | block buffers, restart points, pending index entry | build, open, iterate, look up, filters |
| leveldb: iterators | `LDB/db/db_iter.cc`, `LDB/table/merger.cc` | direction, saved key, children | `Seek`, `Next`, `Prev` and the ends |
| leveldb: caches | `LDB/util/cache.cc`, `LDB/db/table_cache.cc` | entries, two lists, hash table, usage | `Insert`, `Lookup`, `Release`, `Erase`, `Prune`; `FindTable`, `Evict` |
| leveldb: environment | `LDB/util/env_posix.cc` | lock table, work queue, limits, files | `LockFile`, `Schedule`, `NewRandomAccessFile`, `Sync` |
| leveldb: formats | `LDB/util/coding.cc`, `LDB/db/dbformat.cc`, `filename.cc`, `write_batch.cc` | none | integers, internal keys, file names, batches |
| leveldb: repair | `LDB/db/repair.cc` | what was found | `RepairDB` |
| leveldb: C interface | `LDB/db/c.cc` | structs around C++ objects, strings and `*errptr` of the caller | `leveldb_open`, `leveldb_get`, `leveldb_iter_*`, `leveldb_writebatch_*`, creation and destruction of every object |
| nanopb | `Pods/nanopb/*.c` | streams, a field iterator | `pb_encode`, `pb_decode` and their delimited forms |

**How they interact.** All code of the app runs on the main queue. Each call of
the client's API is dispatched to the client's serial queue; each value event is
dispatched back to the main queue. Network messages are handled on the serial
queue, between the calls. The record `Devices/<uuid>` has the children
`SystemInfo` (written once, when the launch's read says that the record does not
exist), `ManualInfo` (written by Save) and one bucket per UTC day, in which each
location fix becomes an entry under a push id. A fix is written by the block of
a *read* of its bucket, so it waits for the record's first answer. Disk
persistence is off: a process that dies loses what the server has not got.

In leveldb one mutex guards the database, but its slow work is done without it:
the writer at the head of the queue logs and inserts, readers search memtable and
tables, and the background thread builds tables, all on state that was pinned
under the mutex. Everything durable is a file: a write is a record of the log, a
change of the set of tables is a record of the MANIFEST, and `CURRENT` names the
MANIFEST. Blocks, filters and caches lie between a look-up and a table. nanopb
is sequential: an encoder and a decoder share only the bytes and, perhaps not
quite, the descriptors.

**What is hard.** The order of the blocks that wait for the first answer; an
event to a single-event observer whose removal is on its way; a put delivered
twice; an answer that overtakes the listen it depends on; a Save before the
read is answered; midnight between two readings of the clock; a kill at any
point; authorization callbacks that are older than the status. In leveldb: the
points at which the mutex is free; loads and stores without a lock; a crash or a
failing call between any two file operations, and what the file system kept; an
error that must outlive the iterator that met it; two threads that miss in a
cache at once. In both libraries: lengths and widths at their limits, and bytes
that were cut or damaged. Section 5 says
which property is about which; `PROJECT.json` lists the hazards line by line.

## 2. Modules

| module | models | composes |
|---|---|---|
| `RealtimeDatabase` | the client, one connection and the server, for one record | |
| `FirebaseService` | the app's handlers, its launches and kills | instance `DB` of `RealtimeDatabase` |
| `LocationService` | access request, completion, tracking | |
| `MobileDeviceInfo` | the table, the ids, the references of several devices | |
| `NextPushId` | the generator of push ids | |
| `Base64` | the base64 coding of the WebSocket handshake | |
| `VersionSet`, `DBImpl` | levels and compactions as operators; one open database with its files | `DBImpl` extends `VersionSet` |
| `WriteQueue` | concurrent writers, group commit, waits | |
| `LogFile`, `Crc32c` | the log format with its writer and reader; its checksum | |
| `SkipList`, `MemTable`, `Arena` | lock-free search, the memtable, its memory | `MemTable` extends `SkipList` |
| `Block`, `Table` | key orders, blocks and filters; table files | `Table` extends `Block` |
| `DBIter`, `LevelIterator` | the user's iterator over merged children; the children that read a level | |
| `LRUCache`, `TableCache` | the cache; readers that open tables through it | `TableCache` extends `LRUCache` |
| `ApproximateSizes` | sizes of key ranges, computed without the mutex | |
| `PosixLocks`, `BackgroundThread`, `FileLimits`, `PosixFiles` | the environment | |
| `Coding`, `CodingStream`, `VersionEdit`, `WriteBatch`, `KeyFormat`, `FileNames` | formats | all but `FileNames` extend `Coding` |
| `Repairer` | `RepairDB` | |
| `CInterface` | objects, strings and errors of a caller in C | |
| `PbEncode`, `PbDecode`, `Nanopb` | descriptors and encoder; decoder; both on one stream | `Nanopb` extends the others |
| `RealtimeDatabaseProofs`, `WriteQueueProofs`, `DBImplProofs` | theorems | extend the module they name; `LocationService`, `Arena`, `BackgroundThread`, `FileLimits` and `PosixLocks` hold their own |
| `MCNanopb` | the message types and streams of nanopb's behaviours | instantiates `Nanopb` |
| `MCRealtimeDatabase`, `MCDBImpl` | instances for TLC of the client (with nanopb beside it) and the database | extend the module they name |
| `MCApp`, `MCStorage`, `MCReads`, `MCProgress` | suites of instances for TLC, section 3 | instantiate the modules of their units |

### RealtimeDatabase

One record, a function from leaf positions (`Path`) to values, `Null` for an
absent node. `cache` is the view's server snapshot (`Missing` before the first
answer), `writes` the write tree's `allWrites`, `observers` the event
registrations; `listening`, `awaiting` (`unackedListensCount > 0`) and `held`
(`putsToAck`) are the persistent connection's. `calls` and `events` are the two
dispatch queues, `up` and `down` the two directions of the connection.

| action | code |
|---|---|
| `ExecuteCall` with `addEventRegistration`, `removeEventRegistration`, `applyWrite` | `FSyncTree`, `FRepo set:/update:`; events are raised before the put is stored |
| `onReady`, `restoreState` | the listen is sent first, then every outstanding put in the order of its number |
| `onDisconnect` | forgets open listens and requests; keeps the puts and the held answers |
| `onDataMessage` with `ToServerCache`, `onListened`, `onAnswer` | server data, the answer of a listen (`ackPuts`), the answer of a put (held back while a listen is open) |
| `ServerTakesListen`, `ServerAnswersListen`, `ServerTakesPut` | external: the server handles one connection in order, answers a listen when it likes, sends the data of a write before its answer, and loses what is in flight when the connection breaks. The database rules may refuse writes at the paths `MayRefuse` |

`Overlay` is the event cache (server snapshot with the pending writes over it)
and `RaiseEvents` the value events of a step: none before the first complete
snapshot, then one to each observer whose part of the record changed, views
visited depth first and registrations in the order they were added.

### FirebaseService

Adds the app's state to an instance of `RealtimeDatabase`: `running`,
`launches`, the two text `fields`, the `display`, the single-event observers
that have `fired`, the UTC day `today`, and the counters of fixes and push ids.
`didFinishLaunching` is the launch up to the end of `viewDidLoad`;
`didGetUserLocationUpdate` reads the clock twice, as the code does: once for the
entry's own time, which a `DateFormatter` prints in the local zone
(`printedDay`), once for the bucket, a UTC date. `RunBlock` runs the block of
the next event: `registerDevice`, `storeLocation` or `showRecord`. `Killed`
loses everything but the server's record. `EditField` is the user's typing, for
which the app has no code.

### LocationService

`changes` is the queue of statuses Core Location has not delivered yet; a new
manager always delivers its current status once. `completion` is the stored
`requestAccessCompletion`. The prompt, the Settings app and the end of the
process are external actions. `seen` and `answers` are history variables.

### MobileDeviceInfo

`Rows` is the switch of `modelName`, and `oldIphones`, `newerIphones`, `ipads`
the lists of `screenRatio`, spelled as in the source. `nativeBounds` is external:
the height and width of the screen of each machine, as Apple states them per
model, which `getMobileDeviceInfo` records beside the ratio. Several devices launch,
restart (after which `identifierForVendor` is nil until the first unlock), save
and quit; puts are applied at once, since the way they take is the subject of
the other modules.

### NextPushId

`get` is one call: the time stamp, then fresh random digits or, in the same
millisecond, the old ones counted up. `Clock` lets the time go either way, since
`serverTime` follows an offset that is received anew. The increment that falls
before the array is counted in `outside`.

### leveldb: the database

`DBImpl` keeps `mem`, `imm`, the current version, the versions readers pin, the
files on disk (logs with their synced length, tables, manifests, `CURRENT`) and
where the background thread is. An action is what happens between two points at
which `mutex_` is free; the compaction is therefore several actions (pick, write
the outputs one by one, install, delete), between which writers, flushes and
readers step. A user key is a number, a value is its sequence number, a file's
size its number of entries. A compaction that fails, or is done, after its
manual request was withdrawn ends the process (`UseWithdrawn`): the code writes
through a null pointer there. `VersionSet` has the operators: `Get`, `SaveTo`,
`Finalize`, `PickLevelForMemTableOutput`, `GetOverlappingInputs`,
`SetupOtherInputs`, `IsTrivialMove`, `ShouldStopBefore`, `IsBaseLevelForKey`.
A crash keeps the synced part of a log and any part of the rest; an `Open` builds
everything again. `WriteQueue` looks at the same `Write` with several threads:
condition variables, `BuildBatchGroup`, `MakeRoomForWrite`.

`LevelIterator` reads levels through `TwoLevelIterator` over a
`LevelFileNumIterator`; `DBIter` takes its children as given and has one step per
turn of its loops. `ApproximateSizes` has two callers and the compactions that
delete files under them.

### leveldb: bytes

`LogFile` is a file of cells in blocks of 8, header 3 cells (7 bytes of 32768 in
the code); a checksum cell is the pair it was computed from, which `Crc32c`
justifies: there words are sets of bits, the four tables are given by their eight
rows (they are linear, and all 1024 entries of the source agree with them) and
`Extend` follows the alignment of the buffer. `Coding` keeps every shift and group
of the varints with words of `Bits32` = 11 and `Bits64` = 15 or 16 bits: as in the
code, the last group of either is incomplete. `VersionEdit`, `WriteBatch` and
`KeyFormat` put fields, batches and keys together from it. `Table` keeps the bytes
of keys, which entries share, and the offsets of blocks; entry lengths are below
128 (one byte each), no block is compressed (`Snappy_Compress` is a stub in this
build), and damage that no checksum covers shows as lengths that run past the
block.

### leveldb: memory and threads

In `SkipList` every load and store of a link is a step. Links carry barriers;
`max_height_` does not, so that a reader may see any value it ever had; a link
not yet stored is `Garbage`. `LRUCache` has one step per operation, as each holds
the mutex of its shard; `TableCache` has three per look-up. In
`BackgroundThread`, a wait ends with a signal or without one.

### leveldb: the C interface

`CInterface` has one action per function: which structs and which C++ objects
behind them exist, what the options refer to, the strings on the caller's heap and
the message in `*errptr`. The database is a table of values and a status here. The
caller keeps to the rules of the C++ interface: an object outlives those that use
it, and a result is freed before the next is asked for.

### leveldb: the system below

`PosixLocks` has one step per system call and the rules of `fcntl`: a record lock
belongs to a process and is lost when the process closes any descriptor of the
file. `PosixFiles` assumes of the file system: changes of a directory reach the
disk in order, at the latest with its `fsync`; bytes of a file at the latest with
its `fdatasync`; and with `Journaled`, a file does not grow on disk before the
changes of the directory that came first.

### nanopb

A message type is a list of fields as the generator emits them; a struct maps
them to `[n, v]`. `Nanopb` lets a writer and a reader have different versions of
a type. A byte has 4 bits, an `int32` 2 bytes and an `int64` 4: a 32-bit varint
ends in an incomplete group and a 64-bit one in a single bit, as in the code.
`wide` is the outcome of a shift by the whole width of a word, which C leaves
undefined.

## 3. Runs

A run asks one question of one part of the system. Where the part has several
components that do not share state at this level, its MC module is a *suite*: a
variable `unit` says which component a behaviour is about, and is never changed;
the next-state relation is the one of that component's module, with the unit's
bounds as the values of its constants. The component whose theorems or
assumptions the run is to evaluate is extended, the others are instances whose
variables are the suite's slots `s1`, `s2`, ... TLC thus explores the
union of the components' state graphs, and the union of the bounds below. In
`client` the variable `schema` takes the part of `unit`: it is `NullPtr` in the
behaviours of the client and the message type in those of nanopb. In `db` every
unit is the same component, and `scenario` names its constants.

| run | module | shows |
|---|---|---|
| `client` | `MCRealtimeDatabase` | the client with one connection and the server; nanopb's encoder and decoder on one stream |
| `app` | `MCApp` | the app over that client, access to the location, several devices |
| `db` | `MCDBImpl` | the database under ten loads, and what its look-ups rely on |
| `storage` | `MCStorage` | the way to the disk |
| `reads` | `MCReads` | encodings and codes; the way of a read |
| `progress` | `MCProgress` | what must eventually happen |
| `screen_ratio` | `MCApp` | a violation, section 6 |
| `db_level_overlap`, `db_split_key`, `db_manual_error` | `MCDBImpl` | violations, section 6 |
| `lock_stolen` | `MCStorage` | a violation, section 6 |
| `next_push_id_carry` | `MCReads` | a violation, section 6 |

**Properties and their parts.** The modules state what is right of each component
in small named formulas; a cfg lists one property per question, the conjunction of
the parts that answer it, each for its unit. The tables below name the parts.

| run | property | parts |
|---|---|---|
| `client` | `PutsInOrder` | `AnsweredInOrder`, `LastWriteWins` |
| `client` | `ReceivesWhatWasSent` | `DecodesTheMerge`, `DelimitedInOrder`, `CallbacksGetAll` |
| `client` | `EncoderIsExact` | `SizeIsExact`, `EncodedIsReadable` |
| `client` | `SafeOnAnyBytes` | `TruncationNoticed`, `StaysInBounds`, `ReencodesTheSame` |
| `app` | `AccessIsAnswered` | `AnsweredOnce`, `TrackingWasGranted`, `IdleOnlyAfterRefusal` |
| `app` | `FixesAreKept` | `NoFixDropped`, `FixStoredOnce` |
| `app` | `BucketsAreDays` | `BucketIsDayOfFix`, `BucketInArrivalOrder` |
| `app` | `DeviceRecordsAreSound` | `TypeOK` of three units, `RecordsApart`, `RatiosButOneFit` |
| `db` | `AnswersStay` | `HistoryIsKept` (`ReadsSeeHistory`, `LastSequenceCovers`) but in `split` and `gap` |
| `db` | `SearchMayStop` | `SearchStaysRight`, an action property |
| `db` | `NothingInUseGoes` | `NeededFilesExist`, `PinnedFilesExist`, `ManualCompactionKept` |
| `storage` | `GroupCommitIsSound` | `TypeOK`, `VisibleIsWhole`, `AckedWritesAreDurable`, `AppliedInCallOrder`, all of `WriteQueue` |
| `storage` | `LogIsReadBack` | `OnlyWrittenRecords`, `CompletedRecordsRead`, `StartsAtInitialOffset`, `DamageStaysInBlock`, `LossIsReported` |
| `storage` | `RepairKeepsData` | `NothingVanishes`, `ReadableIsKept`, `DescriptorIsSound` |
| `storage` | `SurvivesPowerFailure` | `OpensAgain`, `RecoversItsVersions` |
| `storage` | `LocksExclude` | `OneUser`, `LockedUsersAreOne`, `UnusedIsFree` |
| `storage` | `OnlyStrayClosesUnlock` | `LossIsStray` |
| `storage` | `HandedOutIsAccounted` | `NoWorkAfterClose`, `ScheduledIsQueued`, `NothingLeaks`, `FdsAreBounded`, `StringsAreOwned`, `ErrorIsTheLast`, `NullMeansMissing`, `ObjectsMatch` |
| `reads` | `ArenaSafe` | `PiecesFit`, `PiecesApart`, `AlignedWhenAsked` |
| `reads` | `SearchesSeeInserts` | `LevelsAreNested`, `InsertedIsFound`, `ReadersMeetStoredLinks`, `GivenOutIsInserted`, `GetSeesItsSnapshot` |
| `reads` | `FreedWhenUnused` | `DeletedWhenUnused`, `ListsSayWhoIsUsed`, `TableFindsTheCache`, `FreedWhenUnused`, `ReadersTableIsOpen`, `OpenTablesBounded`, `CachedFilesExist`, `AllClosedAtTheEnd` |
| `reads` | `TablesAnswerRight` | `SeparatorSeparates`, `SuccessorFollows`, `SeekFindsNewest`, `CursorIsRightOrSaysSo`, `OffsetsGrowWithKeys`, `BlocksAreContiguous`, `GetFindsNewest` |
| `reads` | `ReadersKeepTheirView` | `ShowsTheSnapshot`, `NothingBetween`, `ChildrenSplitTheFiles`, `RightKeyOrError`, `SizesOfOneVersion` |
| `reads` | `OperationsAreAtomic` | `AtomicAnswer`, `WithinCapacity`, `InReleaseOrder` |
| `reads` | `WrittenIsRead` | `ReadsWhatWasPut`, `EditRoundTrips`, `LogRebuildsMemTable`, `NamesParseBack`, `DecodesBack`, `ExtendIsConcat`, `LookupViewsAgree`, `HandshakeIsEncoded`, `ParsedIsExact`, `StaysInTarget`, `LengthIsExact`, `LiveFilesKept`, `StrangersKept` |
| `reads` | `DamageIsNoticed` | `StopsAtTheCut`, `CutFieldIsRefused`, `AcceptedIsConsumed`, `CutBatchIsReported`, `DamageIsDetected`, `EmbeddedCrcIsHidden`, `AcceptedIsCanonical` |
| `reads` | `LaterIsGreater` | `OneNumberPerOperation`, `NumbersAreNotReused`, `LookupStartsAtSnapshot`, `ChronologicallySorted`, `LaterIsGreater` |
| `progress` | `AppMakesProgress` | `EventuallyRecorded`, `Converges`, `GrantLeadsToTracking` |
| `progress` | `ThreadsMakeProgress` | `ImmIsWritten`, `EveryWriteReturns`, `CloseReturns`, `WorkBegins` |
| `progress` | `ReadersMakeProgress` | `OperationsEnd`, `ReadersFinish` |

`ReadYourWrites`, `QuietCacheIsServer`, `ClientAssertions` and `TypeOK` (`client`),
`FirstAnswerIsFinal`, `OnlySaveMasksRegistration`, `SystemInfoWrittenOnce`
and `DisplayIsCurrent` (`app`), `PinnedViewStable` (`db`)
and `SyncErrorStopsWrites` (`storage`) stand alone. The type invariants of the
other modules are conjuncts of a property of their run.

**`client`.** Two leaves, one of them in a bucket of its own; three writes with
one observer or two with two (`Budget`); refusals at one leaf. Checks `TypeOK`,
`ReadYourWrites` (the app reads its own writes before, while and after they are
answered), `QuietCacheIsServer` (the cache is the server's record when nothing is
on its way), `ClientAssertions`, `AnsweredInOrder` and `LastWriteWins` (puts
delivered twice do not reorder anything). Deadlock is checked.

**`app`.**

| unit | instance | checks |
|---|---|---|
| `access` | 2 undelivered status changes, batches of up to 2 | `AnsweredOnce`, `TrackingWasGranted`, `IdleOnlyAfterRefusal`, `FirstAnswerIsFinal`: the one stored completion against any history of prompts and Settings |
| `fixes` | 2 fixes, 2 days, zone east of UTC | `NoFixDropped`, `FixStoredOnce`, `BucketIsDayOfFix`, `BucketInArrivalOrder`: each fix is stored once, in its day's bucket, in order |
| `launches` | 2 launches, a Save, a fix, 2 days, zone west of UTC | `OnlySaveMasksRegistration`, `SystemInfoWrittenOnce`: registration over kills and relaunches; `BucketIsDayOfFix`, where the entry's own time may name the day before |
| `saves` | edits of both fields and a Save | `DisplayIsCurrent`: the text view ends with the current record |
| `machines` | every machine of the table and one outside it | `RatiosButOneFit`: a recorded ratio agrees, to one percent, with the resolution recorded beside it, for every model but the iPhone X (section 6), and every pad of the table has one |
| `records` | 2 devices | `RecordsApart`: nobody writes outside their own record |

**`db`.** Two keys, three levels, all limits so small that every write may fill a
memtable. Every property of a run is checked in each of its scenarios.

| scenario | instance |
|---|---|
| `levels` | 4 entries, puts of one or both keys, a level-0 trigger of 2 |
| `snapshots` | 3 entries, puts and deletions, one snapshot |
| `pinned` | 3 entries, puts and deletions, one reader that runs without the lock, seek compactions |
| `machine` | 3 entries, synced and unsynced batches, 2 crashes that lose any unsynced tail of the logs |
| `reuse` | 3 entries, 2 crashes of the process, `reuse_logs` |
| `faults` | 3 entries, one failing file operation anywhere, one crash |
| `manual` | 3 entries, one manual compaction of everything or of one key |
| `manual fails` | the same with 2 entries, two failing operations and a crash |
| `gap` | 3 keys, 5 entries, a manual compaction of everything while a key between the others is written (`Load` is the order of the keys) |
| `split` | 3 entries, one snapshot, outputs with room for one entry |

`ReadsSeeHistory`: no read at the present or at a snapshot is ever wrong, over
flushes, compactions and recoveries. `NeededFilesExist`: no file that a version,
a reader or a recovery needs is deleted. `PinnedViewStable`: a reader keeps its view.
`LastSequenceCovers`: a recovery never reuses a sequence number.
`PinnedFilesExist`: no file of a version that a reader pinned is deleted.
`ManualCompactionKept`: the request a compaction works on is not withdrawn, unless
an error was recorded; run `db_manual_error` shows what happens then, and scenario
`manual fails` that even so no file in use is lost.

`AnswersStay` has the two parts of `HistoryIsKept` in all scenarios but `gap` and
`split`: `ReadsSeeHistory` is violated in these, where a read misses the write that
has been covered or moved below an older one.

A look-up searches one file per level above 0 and stops at the first
level that has the key; that is right while the files of a level are disjoint
(`LevelsDisjoint`) and no entry lies below an older one of its key (`EntriesNeverHop`).
The code does not keep either in all cases: `db_level_overlap` and `db_split_key`
have the histories. `SearchMayStop` says that there are no others: as long as no
operation has failed, a new record of the manifest (of a memtable written out, of an
automatic or manual compaction, of a recovery) keeps the files disjoint unless a manual
compaction is under way, and keeps entries from hopping unless the files of a level
met within the versions of one key. Both histories are behaviours of `db`
(scenarios `gap` and `split`), so the two exceptions are taken in it.

**`storage`.**

| unit | instance | checks |
|---|---|---|
| `writers` | 3 threads, small and large batches, sync or not, one fault, level-0 limits | `VisibleIsWhole`, `AckedWritesAreDurable`, `AppliedInCallOrder`, `SyncErrorStopsWrites`: groups keep order, atomicity and durability |
| `log` | blocks of 8 cells, 3 records of lengths 0, 1, 2, 5, 12, one reopening, a crash at any cell | `OnlyWrittenRecords`, `CompletedRecordsRead` |
| `damaged log` | 3 records of lengths 1 and 12, one damaged cell | `OnlyWrittenRecords`, `DamageStaysInBlock`, `LossIsReported` |
| `offset log` | 3 records, a reader that starts at any of 25 offsets | `StartsAtInitialOffset` |
| `repair` | three entries spread over two logs and two tables in every way, one of them bad; one kill, one failing call | `NothingVanishes`, `ReadableIsKept`, `DescriptorIsSound` |
| `files` | 3 versions, 2 kills or power failures between any two calls, one failing call, a journaled file system | `OpensAgain`, `RecoversItsVersions` |
| `locks` | 3 processes with an opener each, which end anywhere | `OneUser`, `UnusedIsFree`, and no user loses the record lock |
| `one process` | 3 openers in one process, which also destroy the database | `OneUser`, `UnusedIsFree`, `LossIsStray` |
| `two processes` | 2 openers in one process and 1 in another, which also destroy the database, 2 files | `LockedUsersAreOne`, `UnusedIsFree`, `LossIsStray` |
| `thread` | 3 databases on the one background thread, closed at any time, errors, spurious wakeups | `NoWorkAfterClose`, `ScheduledIsQueued` |
| `limits` | 3 threads, 2 maps, 1 descriptor, 6 files, failing calls | `NothingLeaks`, `FdsAreBounded` |
| `c reader` | 2 keys, one value, one failing call under any function, iterators | `StringsAreOwned`, `ErrorIsTheLast`, `NullMeansMissing` |
| `c objects` | every kind of object the options refer to, one comparator and one filter policy of the caller | `ObjectsMatch` |
| `c batches` | 1 key, batches of one operation, a snapshot, one failing call | `StringsAreOwned`, `NullMeansMissing` |

**`reads`.**

| unit | instance | checks |
|---|---|---|
| `arena` | 5 allocations of 7 sizes in blocks of 16 bytes | `PiecesFit`, `PiecesApart`, `AlignedWhenAsked` |
| `order` | every pair of internal keys of up to 3 bytes | `SeekFindsNewest`, `SeparatorSeparates`, `SuccessorFollows` |
| `skip`, `tall skip` | 4 keys and two heights with one search; 3 keys and three heights with two; every load and store a step | `LevelsAreNested`, `InsertedIsFound`, `AtomicAnswer`, `ReadersMeetStoredLinks` |
| `memory` | 2 user keys, 2 numbers, a reader that reads twice, the end of the table | `GivenOutIsInserted`, `GetSeesItsSnapshot`, `FreedWhenUnused` |
| `cache`, `two shards`, `no capacity` | 3 colliding keys of two sizes; two handles on an entry; a cache that keeps nothing | `DeletedWhenUnused`, `ListsSayWhoIsUsed`, `TableFindsTheCache`, `WithinCapacity`, `InReleaseOrder` |
| `tables` | 2 readers that miss, open and insert tables; open errors, deleted files | `ReadersTableIsOpen`, `OpenTablesBounded`, `CachedFilesExist`, `AllClosedAtTheEnd` |
| `scan`, `versions` | tables of up to 4 entries, 2 moves, one fault (a failing write, a damaged or unreadable block); two versions of a key | `CursorIsRightOrSaysSo`, `OffsetsGrowWithKeys`, `BlocksAreContiguous` |
| `get` | tables of up to 3 entries with filters, one fault | `GetFindsNewest` |
| `iter`, `faulty iter` | 4 entries in a memtable and a table with 3 moves; 3 entries in up to two tables with one that cannot be read; a writer between any two turns of the loops | `NothingBetween`, `ShowsTheSnapshot` |
| `levels` | versions of 0 to 7 files, 4 moves, a table that cannot be opened | `ChildrenSplitTheFiles`, `RightKeyOrError` |
| `sizes` | 2 callers, 3 versions, a table that cannot be opened | `SizesOfOneVersion` |

Encodings, in the same run:

| unit | instance | checks |
|---|---|---|
| `crc` | five messages at every alignment and cut; one or two changed bits | `ExtendIsConcat`, `EmbeddedCrcIsHidden`, `DamageIsDetected` |
| `coding` | 2 numbers or strings at the edges of groups and words, cut at every byte | `ReadsWhatWasPut`, `StopsAtTheCut`, `LengthIsExact` |
| `edit` | every edit of 2 fields, cut or changed at every byte | `EditRoundTrips`, `CutFieldIsRefused`, `AcceptedIsConsumed` |
| `batch` | 2 batches of which the first is filled first, 3 operations, 2 writes, recovery with a record cut at every byte | `OneNumberPerOperation`, `LogRebuildsMemTable`, `CutBatchIsReported`, `NumbersAreNotReused` |
| `key` | user keys at the edges of the varint and of the stack buffer, every pair of key and snapshot | `LookupViewsAgree`, `LookupStartsAtSnapshot`, `ParsedIsExact` |
| `file` | numbers wider than the padding and up to the greatest, among foreign names | `NamesParseBack`, `LiveFilesKept`, `StrangersKept` |
| `base64` | all data of up to 4 bytes of three values, the handshake's lengths, targets of nine sizes | `StaysInTarget`, `HandshakeIsEncoded`, `DecodesBack`, `AcceptedIsCanonical` |
| `push` | 5 ids, carries over several digits, a clock that is set back | `ChronologicallySorted`, `LaterIsGreater` |

**nanopb, in `client`.** A case is a pair of message types, the messages, whether they are
delimited, how many are sent, whether the stream may be cut and how much room the
writer has. Integers of every kind at their boundaries and read into narrower
ones; arrays, strings and submessages twice on one stream, cut at every byte, into
a struct that was used before; unions and proto3 fields; bytes, extensions and
callbacks; a writer with fields that its reader does not know; buffers of every
size from 0 to 40; callbacks that write something else, or fail, after they were
measured; and every stream of up to five bytes of an alphabet of tags, lengths and
continuation bytes. Checks `DecodesTheMerge`, `DelimitedInOrder`, `SizeIsExact`,
`CallbacksGetAll`, `TruncationNoticed`, `EncodedIsReadable`, `StaysInBounds` and
`ReencodesTheSame`.

**`progress`.**

| unit | instance | checks |
|---|---|---|
| `app` | one launch, a fix | `EventuallyRecorded` |
| `client` | 2 writes, 1 observer | `Converges` |
| `access` | 2 undelivered status changes | `GrantLeadsToTracking` |
| `flush` | 2 entries, a crash, a fault | `ImmIsWritten` |
| `writers` | 3 threads, a NULL batch, a full level 0 | `EveryWriteReturns` |
| `iter` | 2 keys, 2 moves, a writer | `OperationsEnd` |
| `thread` | 2 databases | `CloseReturns`, `WorkBegins` |
| `skip` | 2 keys, 1 reader | `ReadersFinish` |

Its fairness condition numbers the fair steps of each unit; as a behaviour has
one unit, `WF` of the i-th steps of all units is `WF` of the i-th step of that unit,
as the unit's module states it.

**Why the bounds are enough.** Two leaves tell a write's own path from another;
two writes at a path tell the youngest from the other, and a third one is needed
for a put that was answered between two that were not. Two observers at two
places cover the order in which views are visited and an event on its way to an
observer that is being removed. The connection may break any number of times in
every behaviour. Two fixes and two days cover a fix before and after midnight and two
in one bucket; day 1 and 2 stand for 9 and 10 October, whose keys
(`"2018:10:9"`, `"2018:10:10"`) are in the opposite order. `MaxPush` is larger
than the number of fixes in the unit in which a duplicate could occur. Two launches tell a
first launch from a later one. The run `app` says `CHECK_DEADLOCK FALSE`:
a process that was killed for the last time and a user who does nothing are no
errors.

In leveldb, two user keys tell a key from its neighbour, and three entries give
two versions of one and something beside them; three levels are level 0, a level
with a grandparent, and the last one. `WriteBufferSize`, `L0Trigger` and the level
sizes are so small that every write may fill a memtable and every file start a
compaction. Two crashes are needed for one during recovery. A log block of 8
cells is passed by a record of 12 in the middle, and the lengths 4 and 5 end
exactly at and one before its end. Three threads at the queue make a group with
one left behind; three openers tell holder, rival and third party; a cache of
three colliding keys is resized once. The tables have blocks of two or three
entries with a restart point inside. Readers of the skip list make two searches:
the second starts from what the first left in the caller's iterator. For integers
the instances take every value next to the border of a group, a byte and the word.
The messages of nanopb have one field of each kind and allocation.
These runs say `CHECK_DEADLOCK FALSE` where a bound (of writes, calls or moves)
ends the behaviour, which is no error; where everyone could really wait for
everyone, a liveness property says that it does not happen (`EveryWriteReturns`,
`CloseReturns`, `WorkBegins`, `ImmIsWritten`).

**Fairness.** Weak fairness of the serial queue, of the main queue and of the
messages of a connection (GCD serves its queues; TCP delivers while the
connection lives), of `onReady` (the client retries with a backoff of at most 30
seconds, for ever) and of the server's answers. Nothing is assumed of the user,
the clock, the system or the network: `Converges` and `EventuallyRecorded` say
what follows *if* the network stays up and the process alive from some time on.
`LocationService` assumes only that the main run loop delivers the callbacks.

In leveldb: weak fairness of each thread's own next step (the system schedules
every thread, and a condition variable that is signalled is woken), and of the
background thread. `DBImpl` and `WriteQueue` assume nothing of the caller, of
crashes or of faults; `ImmIsWritten` excepts an error that was recorded, as the
code then stops for good. `SkipList` and `DBIter` assume fairness of the reader
alone: the writer may go on inserting for ever.

**Deviations.** Definitions introduced by "A deviation" are plausible mistakes
in the definition that follows them (an answer completed at once, puts resent in
hash order, a bucket computed by the block). `PROJECT.json` pairs each property
with one (a conjunction with a mistake that one of its parts excludes); with the deviation in place TLC finds the property violated, which
shows that the property depends on the code and not on the shape of the model.

## 4. Proofs

TLAPS proves these for every value of the constants that satisfies the modules'
`ASSUME`s. The assumptions are weak: `Null` is no value and `Missing` no record,
the root covers every path and is visited last, bounds are numbers, the wanted
status is one of the two authorized ones, `None` is no coordinate, `NULL` is no
writer thread, sizes of batches are numbers and `sync` is a Boolean. Nothing is
assumed of the limits of a group, of the buffer or of the level-0 triggers. The
database assumes (`DBAssumption`, `LevelAssumption`) that its keys are finitely many
integers (byte strings of bounded length, of which only the order counts), that there
is more than one level, with a table of the memtable going to one of them, that batches
write keys, and that the sizes and limits are numbers, positive where the code divides
or cuts by them. What `NULL` is is left open.

`LocationService`: type correctness, `RequestIsAnswered` (`AccessIsAnswered`,
with its parts `AnsweredOnce`, `TrackingWasGranted` and `IdleOnlyAfterRefusal` as
theorems of their own) and the action property `FirstAnswerIsFinal`. The
inductive invariant `IInv` adds `NothingAsked` to them: before the view is
loaded no completion is stored and none was called. It is needed because
`viewDidLoad` stores the completion (or calls it) on the strength of `~loaded`
alone.

`RealtimeDatabaseProofs`:

* `TypeCorrect`: `Spec => []TypeOK`. `TypeOK` is not inductive. An update
  changes the cache, `[cache EXCEPT ...]`, which is a record only if the cache
  is not `Missing`; that needs `UpdatesFollowData` (an update on its way is
  behind the listen's data, or the data has arrived) and `DataSent` (a server
  whose listen is active has sent the data). The event cache is a record only if
  there is a youngest write at each path that has one; that needs `WriteIds`
  (numbers below the counter), and the lemmas `LeastNatural` and `Youngest`,
  which get the maximum from the well-foundedness of the naturals.
  `TypeInv` is the conjunction.
* `AssertionsHold`: `Spec => []ClientAssertions`, the client's own `NSAssert`s
  on `removeWriteId` and `unackedListensCount`. `AssertInv` adds `OneListen`:
  the record's listen is in exactly one of three stages (request under way,
  asked of the server, answer under way), at most once, and counted as open all
  that time; without a connection there is none. The three lemmas
  `ConcatMarks`, `TailMarks` and `SingleMarks` say what queueing does to
  "at most one" and "none"; then there is one lemma per group of actions.

On top of those the module proves the three properties of run
`client` that speak of several writes and connections:

* `PutsKeepOrder`: `Spec => []PutsInOrder`. Neither conjunct is inductive:
  whether the server has the last value depends on the puts and answers that are
  under way. `OrderInv` therefore describes one connection (`InFlight`): the
  answers under way, then the puts under way, are the unanswered writes, each
  once, oldest first. With it go `UniqueIds`, `YoungestIsWritten` (the youngest
  write at a path carries the value written last there) and `ServerHasLast`,
  which says of a live connection what `LastWriteWins` says of an idle one: a
  path with no put under way has its last value on the server, answered or not.
  A reconnection breaks `ServerHasLast` for no path because `restoreState` sends
  every unanswered put, in order: `OrderedMeetsAll`.
* `QuietCache`: `Spec => []QuietCacheIsServer`. It is the case without messages of
  `CatchesUp`: while the listen is active, the last message under way that tells
  something about a path (or the cache, if none does) has the server's value.
* `AppReadsItsWrites`: `Spec => []ReadYourWrites`. What is written at a path is
  shown by the youngest pending write there (`YoungestIsWritten`) or, with none
  pending, by the cache: `CacheHasWritten`. For the step that takes the answer
  to the last put away, the update of the put must have been handled already
  (`UpdateThenAnswer`: updates travel right before the answer), or the listen's
  data must still be to come, and then the answer is held (`HoldInv`, `putsToAck`).
  When the held answers are released, the data is behind (`DataThenListened`)
  and the server it came from had the last value (`ServerHasLast`).

All five properties of run `client` are thereby proved, for any number of
leaves, writes, observers and connections.

`WriteQueueProofs`: `GroupCommit` (`Spec => []GroupCommitIsSound`) and the action
property `SyncErrors` (`SyncErrorStopsWrites`), for any number of writers. The
inductive invariant `Inv` is the conjunction of

* `QueueInv`: nobody is in `writers_` twice, only its head acts, a writer outside
  of it has not called yet, was woken or has returned;
* `GroupInv`: the group being written is a prefix of the queue, and nobody in it
  asks for a sync that its head does not ask for. It holds because writers that
  call meanwhile only go behind;
* `CallsInv`: the queue is in the order of the calls, behind all who left it;
* `AppliedInv`: applied batches lie apart and in the order of the calls; each is
  at or below the last sequence number, with its writer gone from the queue, or
  belongs to the group whose head is about to publish it. `VisibleIsWhole` and
  `AppliedInCallOrder` both follow;
* `DurableInv`: every record of the log is the group's, or its writers were told
  and what they were told is true; and how far the head has come (`Stage`);
* `SyncInv`: after a failed sync the head holds a failed status or `bg_error_` is
  set, and no head is between its room and its insertion. Without the first part
  the group after the failed one could pass `MakeRoomForWrite` in between.

The place of a batch within its group is the sum of the sizes before it.
`Size` is written with a recursive function, and the library's induction
theorems take a predicate as parameter, which the provers here cannot be given;
`SumsExist` and `SumRecursion` get its two equations from a least counterexample
instead (`LeastNumber`, from the well-foundedness of the naturals), and from
there on it is steps of arithmetic (`SizeSteps`, `SizeGrows`, `SizeKept`).

`DBImplProofs`: `FilesInUseAreKept` (`Spec => []NothingInUseGoes`), for any keys,
levels, sizes, number of writes, snapshots, manual compactions, faults and crashes.
`DeleteObsoleteFiles` deletes every table that is in no live version and not in
`pending_outputs_`. The property speaks of other sets: the tables that the
*manifest* names, those of the inputs and outputs of the compaction under way, and
those a reader has pinned. None of its parts is inductive. The invariant `IInv`
is the conjunction of

* `FilesOK` and `NumbersOK`: files have different numbers, whoever knows them (the
  manifest, the edit of a memtable or of a recovery, the outputs of the compaction),
  below the counter; those in the manifest are below the counter of its *last*
  record, which is what a recovery starts from. Otherwise the deletion of an old
  file could be that of a new one;
* `VersionsOK`: the tables of the current version, of the version a compaction or a
  reader holds and of the version the manifest stands for are on the disk;
* `CurrentOK`: between the record in the manifest and the installed version,
  `LogAndApply` holds no lock. Meanwhile the manifest is ahead of `current` by
  exactly the edit under way; otherwise what it names is in `current`, or
  `bg_error_` is set and nothing is deleted;
* `CompactionOK`, `MemCompactionOK`: the inputs of the compaction are files of the
  version it holds, its outputs exist and are pending, and the tables of an edit
  under way exist. At most one edit is between its record and its installation;
* `PhaseOK`, `DataOK`, `SeekOK`, `ManualOK`: what is empty while the database is
  closed or recovers, the shapes of the data, and that the file charged with seeks
  and the posted manual request are what `BackgroundCompaction` expects. The request
  of a compaction is there unless `bg_error_` is set; when it is not, the process ends
  (`UseWithdrawnKeeps`), with an edit in the manifest or without, and what the
  manifest names is on the disk.

One lemma per action shows that `IInv` is kept (`WriteKeeps` to `OpenKeeps`), each
with a step for every conjunct. They rest on lemmas about the operators: an edit
more in the manifest changes the files of a level as it changes the list of the
installed version (`LiveAfterEdit`, `InstalledLists`, `ReplayLists`), `SaveTo` and
`std::sort` list exactly what they are given (`AscendingLists`, `SaveToLists`),
every choice of `PickCompaction`, `CompactRange` and `SetupOtherInputs` lies in the
two levels (`PickedOK`, `SetupInside`), the merge of `DoCompactionWork` and the
replay of a log give tables of entries (`CompactionOutputsTyped`,
`RecoveredTyped`). The recursive definitions among them are recursive functions;
`RecursionExists` gets their equations from a least counterexample, as above.
Together with the run (which also shows that `IInv` is not too strong: TLC finds it
true in every state of `db`) this covers the first half of `PinnedViewStable`, too.

`Arena`: `ArenaIsSound`, which is `ArenaSafe` for every block size, alignment, pointer size and
set of sizes: pieces lie inside their blocks (`PiecesFit`), no two share a byte
(`PiecesApart`) and those asked to be aligned are (`AlignedWhenAsked`). The
inductive invariant says where the free rest of the current block is: behind
every piece of that block, and ending with it.

The environment of leveldb, with the constant assumptions as hypotheses of the
theorems:

* `BackgroundThread`: `NothingRunsAfterClose` and `FlagIsExact`, when `None` is no
  database. `ScheduledIsQueued` is inductive with `TakenIsNotQueued`; what closes
  the argument for the destructor is `ClosedIsIdle`: it left when the flag was
  clear, and `MaybeScheduleCompaction` and the end of `BackgroundCall` do not set
  the flag of a database that shuts down.
* `FileLimits`: `LimitsAreExact` and `DescriptorsAreBounded`, for a finite set of
  threads and any limits. `Inv` adds the exact number of open descriptors, those
  of the open files and those of the threads between `open` and `close`; the lemma
  `Counts` says how a step of one thread changes the number of threads in a set
  of places, and `Accounts` does the bookkeeping once for all actions.
* `PosixLocks`: for any openers in any processes, `DestroyDB` and exits included,
  `UnusedLocksAreFree`, `LockedUsers` (of the users of a LOCK file one at most has its
  record lock) and `OnlyStrayCloses`, the action property `OnlyStrayClosesUnlock`: a
  user loses the record lock by a close in its own process outside the lock table
  (of a refused attempt, or of an `UnlockFile` behind its entry), by nothing that
  another process does, and by no step of an opener that is in the table. That this
  one way is real is run `lock_stolen`. `LockExcludes` (one user) therefore has a
  hypothesis: threads of one process (`OneProcessOnly`, `DestroyDB` allowed), or
  processes with one opener each that do not call `DestroyDB` (`OneOpenerEach`), the
  units `one process` and `locks`. `LockInv` says that
  the table has a process exactly while one opener of it, and no second one, is
  between `Insert` and `Remove`, and that a record lock belongs to a holder's
  process. `OnlyStrayCloses` adds `FilesAreKnown`, the range of the files, and goes
  through the actions: `SetLock` takes a lock that is free or its own process's, and
  an exit ends the users whose locks it takes.

With them every part of `LocksExclude` and of `HandedOutIsAccounted` is proved, but for
the ranges of `FileLimits`' counters (`TypeOK`, whose `MaxHandles` is a bound of the model)
and the parts of the C interface.

Only model-checked: every liveness property (fairness and `ENABLED` are out of
the prover's reach); what recursive definitions compute for every input
(the operators of tables, key orders, formats and nanopb: induction over data);
what reads return (`HistoryIsKept`, `SearchMayStop`, `PinnedViewStable`), which needs
what a merge keeps of every key and so an induction over its entries;
the other modules of leveldb; `FirebaseService` and `MobileDeviceInfo`
(some of these planned, section 8).

## 5. What the properties are about

* *Own writes* (`ReadYourWrites`, `FPersistentConnection.m:583`). A put's answer
  that arrives while a listen is open must wait for it: the write leaves the
  write tree with its answer, and the listen's data may be older than it.
* *Resending* (`AnsweredInOrder`, `LastWriteWins`, `FPersistentConnection.m:838`).
  A put the server applied is sent again when its answer was lost. Since puts
  are resent in order and answered in order, an old value can reach the server
  over a newer one only while the newer one is about to be sent again.
* *Waiting fixes* (`BucketInArrivalOrder`, `NoFixDropped`, `FixStoredOnce`,
  `FirebaseService.swift:49`). Fixes that arrive before the record is loaded are
  stored by blocks that the client calls in the order of its views. Within a
  bucket it is the order of arrival; between buckets it is not, and the load
  block comes last although it was registered first.
* *The bucket* (`BucketIsDayOfFix`). It is the UTC day on which the fix arrived,
  even when the block runs days later. The entry's own time is a local time from
  an earlier reading of the clock and may name the day after (east of UTC) or
  before (elsewhere, also when midnight passes between the readings).
* *Registration* (`OnlySaveMasksRegistration`, `SystemInfoWrittenOnce`). On a
  first launch the device registers unless Save came before the read's answer:
  the pending `ManualInfo` makes `snapshot.exists()` true. A SystemInfo on the
  server is never overwritten.
* *Access* (`AnsweredOnce`, `IdleOnlyAfterRefusal`, `FirstAnswerIsFinal`,
  `TrackingWasGranted`, `GrantLeadsToTracking`, `LocationService.swift:101-105`).
* *Identity* (`RecordsApart`, `MobileDeviceInfo.swift:159`). The id `""` of a
  device whose vendor id is nil would make `devicesRef.child("")` the parent of
  all records; `child:` throws on it (`FValidation.m:52-66`), so such a launch
  aborts and no record is touched.

* *Push ids* (`ChronologicallySorted`, `LaterIsGreater`, `FNextPushId.m:50`).
* *Reads of the database* (`ReadsSeeHistory`, `PinnedViewStable`,
  `LevelsDisjoint`, `EntriesNeverHop`, `db_impl.cc:924`, `version_set.cc:1308`).
  A look-up stops at the first level that has the key. This is right only while
  newer versions of a key are never below older ones, through every flush that is
  placed deep, trivial move and dropped deletion. Two histories break it (section 6);
  `SearchMayStop` shuts out every other.
* *Durability* (`LastSequenceCovers`, `NeededFilesExist`, `AckedWritesAreDurable`,
  `SyncErrorStopsWrites`, `CompletedRecordsRead`, `OpensAgain`,
  `RecoversItsVersions`). From a synced write over the log, the manifest and
  `CURRENT` to the next recovery, with a crash anywhere.
* *Damage* (`DamageStaysInBlock`, `LossIsReported`, `CursorIsRightOrSaysSo`,
  `RightKeyOrError`, `DamageIsDetected`, `CutFieldIsRefused`,
  `CutBatchIsReported`, `TruncationNoticed`). What cannot be read is reported and
  never passed over: an iterator that shows a key has missed none, or has an error.
* *Threads* (`AtomicAnswer`, `ReadersMeetStoredLinks`, `GetSeesItsSnapshot`,
  `VisibleIsWhole`, `AppliedInCallOrder`, `NoWorkAfterClose`, `OneUser`,
  `SizesOfOneVersion`).
* *The LOCK file* (`LockedUsersAreOne`, `OnlyStrayClosesUnlock`,
  `env_posix.cc:471`). A record lock belongs to the process, not to the descriptor.
  The lock table keeps the openers of a process apart but not their descriptors.
* *Ownership* (`DeletedWhenUnused`, `FreedWhenUnused`, `ReadersTableIsOpen`,
  `AllClosedAtTheEnd`, `NothingLeaks`, `PiecesApart`).
* *Encodings* (`EditRoundTrips`, `LogRebuildsMemTable`, `NamesParseBack`,
  `ReadsWhatWasPut`, `DecodesTheMerge`, `ReencodesTheSame`, `SizeIsExact`,
  `StaysInBounds`, `StaysInTarget`). Decoding into a struct that was used before
  is merging, as the protocol says, and two messages in one stream are one.

## 6. Findings

Six runs show a disagreement between the code and what it says of itself:

* `screen_ratio` (`MobileDeviceInfo.swift:134`): `screenRatio` counts the iPhone X
  among the phones with "16:9". Its screen has 2436 x 1125 pixels, which is what the
  record says under "Screen resolution" (`:169`), right above "Screen ratio" (`:170`).
* `db_level_overlap` (`db_impl.cc:924`): a manual compaction of level 0 works on the
  files of keys 1 and 3; a memtable with key 2, written out in its middle, is placed in
  the gap at level 1, which the output then covers. The files overlap, where
  `version_set.cc:765` asserts that they "must not", and a read of key 2 misses it.
* `db_split_key` (`version_set.cc:1308`): a compaction whose output was split
  between two versions of one key moves the newer one below the older one, where
  `version_set.cc:346` says that "entries never hop across levels".
* `db_manual_error` (`db_impl.cc:615`): a flush that fails during a manual compaction
  sets `bg_error_`, and the caller withdraws its request. `BackgroundCompaction` ends
  with an update of that request ("Update *m to the range that is left to be
  compacted", `:762`) through `manual_compaction_`, which is NULL.
* `lock_stolen` (`env_posix.cc:471`): while a process uses the database, a second
  attempt in it is refused by the lock table, and closing its descriptor gives the
  record lock of the process away. Another process then opens the database, which
  `env.h:112` says the lock is "used to prevent".
* `next_push_id_carry` (`FNextPushId.m:53`): the carry over twelve digits at their
  maximum writes before the array, and the id is smaller than the last, where
  `FIRDatabaseReference.h:64` promises a "chronologically-sorted" list.

The models show more of them, in the libraries when they are given other
constants than those of the runs. The property is named; each was found violated
with the constants given.

| where | what the code does | said at | property and constants |
|---|---|---|---|
| `MobileDeviceInfo.swift:159` | `uniqueId` is `""` on every device that has restarted and was not unlocked yet, so two such devices share it | `MobileDeviceInfo.swift:154` "uniquely identifies a device to the app's vendor" | `UniquelyIdentifies` in `MCApp` |
| `db_impl.cc:1562` | `DestroyDB` deletes a LOCK file that another process has locked since | `env.h:112` | `OneUser`: 3 processes, `MayDestroy` |
| `db_impl.cc:196` | the first MANIFEST is not synced before `CURRENT` names it | `db_impl.cc:277` "the creation of the DB is committed only when the descriptor is created" | `CreationCommits`: one version, one crash |
| `env_posix.cc:279` | a record of the manifest is handed to the kernel before the directory is synced | `env_posix.cc:278` "Ensure new files referred to by the manifest are in the filesystem." | `OpensAgain`: `Journaled` FALSE |
| `db_impl.cc:463` | with `reuse_logs`, synced records behind a torn tail are not read again | `options.h:199` | `SyncedRecordsRead`: `Cuts` TRUE, one reopening |
| `log_writer.cc:108` | after a failed append, synced records are written behind a broken fragment | `options.h:199` | `SyncedRecordsRead`: one fault |
| `repair.cc:398` | after a repair a look-up may find an older entry first | `version_set.cc:293` "Search level-0 in order from newest to oldest." | `NewestFirst` |
| `repair.cc:193` | a commit whose checksum does not match is recovered | `repair.cc:189` "corruptions cause entire commits to be skipped" | `DamagedIsSkipped`: `Damage` TRUE |
| `db_impl.cc:1298` | a NULL batch that rides in the group of another writer does not switch memtables | `db_impl.h:50` "Force current memtable contents to be compacted." | `NullBatchSwitches`: sizes 0 and 1, `BufferSize` 3 |
| `pb_decode.c:947` | a message type with a multiple of 32 required fields is refused, by a shift by the width of a word | `pb.h:129` | `DecodesTheMerge`: as many required fields as `WordBits` |
| `pb_encode.c:239` | a proto3 submessage that only holds an array beginning with 0 is not encoded | `pb_encode.c:227` "Check all fields in the submessage" | `DecodesTheMerge`: such a type |

And one that needs a fault: when the write of a manifest record is reported as
failed but the record is there all the same, the interrupted compaction goes on
(`db_impl.cc:924` does not look at `bg_error_`) and writes the same memtable a
second time, so that a level may hold it twice until the next recovery. This is
why `SearchMayStop` is stated for behaviours in which nothing has failed yet; reads
stay right then (`ReadsSeeHistory`, scenario `faults`, has no such premise).

Two behaviours of the code that no document contradicts, and that the model
reproduces: a record whose first content is a Save never gets a SystemInfo, on
no later launch either; and a process that is killed after a fix reached the
server and before SystemInfo did leaves such a record too.

## 7. Not modelled

* The client's disk persistence on top of leveldb, transactions, queries, priorities, child events,
  `onDisconnect` operations, authentication: the app uses none of them.
* The WebSocket, TLS, keep-alive: I/O, seen through the delegate calls of the
  connection (but for the base64 of the handshake). Other Pods are not called by
  the app, or only configured.
* leveldb: the info log (`posix_logger.h`, one formatted line at a time under a lock
  of stdio); of `db/c.cc` the iteration of a batch, sizes, manual compactions and
  options without an effect in the model; `dumpfile.cc`, printing;
  `GetProperty` and the summaries, text; `histogram.cc`, `hash.cc`, `status.cc`;
  the SSE path of the checksum, not built here; the in-memory environment and the
  benchmarks.
* nanopb: what `PB_ENABLE_MALLOC` would add; it is not set in this build.
* JSON text of the text view, keyboard handling, layout, printed errors.
* A refused *listen* (it would remove the observers), planned.
* The getters of `DeviceLocations`, `CapturedDate.locations` and
  `CapturedDate.toAnyObject`, which nothing calls.

## 8. Plan

Done: the app and its client, push ids, the base64 of the handshake, leveldb
and nanopb, their runs, the proofs of section 4. Next, in this order:

1. `PersistentConnection`: the connection's own states (disconnected, getting a
   token, connecting, authenticating, connected), interrupt reasons, token
   attempts that are overtaken, the retry helper's backoff and its `NSAssert`s;
   refines the connection of `RealtimeDatabase` (`link`, `onReady`,
   `onDisconnect`).
2. Proofs: `LastSequenceCovers` of the database (on top of `IInv`),
   `DeletedWhenUnused` of the cache and `InsertedIsFound` of the skip list (their recursive operators have to be written as functions
   first), `SizesOfOneVersion`, `ChronologicallySorted` up to the overflow, type
   correctness and `SystemInfoWrittenOnce` of the app, `RecordsApart`.
3. An abstract register, "a map with pending writes", that `RealtimeDatabase`
   implements, and "a map with snapshots" that `DBImpl` implements.
4. `Tracker`: `LocationService` composed with `FirebaseService`, so that fixes
   come only from granted tracking.
