-------------------------- MODULE FirebaseService --------------------------
(***************************************************************************)
(* The app's core: FirebaseService, with the parts of AppDelegate and of   *)
(* MobileInfoViewController that drive it, over the database client of     *)
(* RealtimeDatabase.                                                       *)
(*                                                                         *)
(* The record Devices/<uuid> has the children SystemInfo (written by       *)
(* loadDataFromDb when the record does not exist), ManualInfo (written by  *)
(* Save) and one bucket per UTC day with an entry per location fix.        *)
(*                                                                         *)
(* Every handler of the app runs on the main queue, so a handler is one    *)
(* step; the client's serial queue and the server run between handlers.    *)
(* The process may be killed at any time and launched again.               *)
(***************************************************************************)
EXTENDS Integers, Sequences, FiniteSets

CONSTANTS
    Null, Missing,
    Text,        \* what a text field can hold
    Blank,       \* an empty text field
    BucketOrder, \* [1 .. MaxDay -> Nat]: place of a day's key in key order
    MaxDay,      \* bound on the UTC days that pass
    MaxLaunches, \* bound on the launches of the app
    MaxSaves,    \* bound on the Save presses of one process
    MaxFixes,    \* bound on the location fixes
    MaxPush,     \* push ids available for entries
    Zone,        \* where the local time zone is: "west", "utc" or "east"
    MayRefuse    \* children at which the database rules may refuse a write

ASSUME ServiceAssumption ==
    /\ Blank \in Text
    /\ {MaxDay, MaxLaunches, MaxSaves, MaxFixes, MaxPush} \subseteq Nat
    /\ MaxDay >= 1
    /\ Zone \in {"west", "utc", "east"}
    /\ BucketOrder \in [1 .. MaxDay -> 1 .. MaxDay]

VARIABLES
    server, link, asked, up, down, listening, awaiting, cache, writes, held,
    nextWrite, written, observers, nextHandle, calls, events,  \* RealtimeDatabase
    running,   \* the process is alive
    launches,  \* how often the app was launched
    fields,    \* projectTextField and respPersonTextField
    display,   \* systemTextView: the record it shows
    fired,     \* single-event observers whose firstCall is NO
    today,     \* the UTC day
    received,  \* fixes given to updateLocations by this process
    fixes,     \* number of fixes so far
    saves,     \* Save presses of this process
    nextPush   \* push ids increase with time, over launches too

dbVars  == <<server, link, asked, up, down, listening, awaiting, cache, writes,
             held, nextWrite, written, observers>>
appVars == <<running, launches, fields, display, fired, today, received, fixes,
             saves, nextPush>>
vars    == <<dbVars, nextHandle, calls, events, appVars>>

-----------------------------------------------------------------------------
(* The record. *)

Day        == 1 .. MaxDay
SystemInfo == <<"SystemInfo">>
ManualInfo == <<"ManualInfo">>
Entry(d, k) == <<d, k>>

Path   == {SystemInfo, ManualInfo} \cup {Entry(d, k) : d \in Day, k \in 1 .. MaxPush}
Record == <<>>
Bucket(d) == <<d>>
Place  == {Record} \cup {Bucket(d) : d \in Day}
Under  == [l \in Place |-> IF l = Record THEN Path
                           ELSE {Entry(l[1], k) : k \in 1 .. MaxPush}]
Visit  == [l \in Place |-> IF l = Record THEN MaxDay + 1 ELSE BucketOrder[l[1]]]

(* device.toAnyObject(): the device's name and system may differ from one  *)
(* launch to the next.                                                     *)
DeviceInfo(n) == [launch |-> n]
(* newLocation.toAnyObject(): the coordinates of the n-th fix and its      *)
(* time, a text in the local zone; the model keeps the day it names.       *)
LocationInfo(n, t) == [fix |-> n, time |-> t]
UserData(f) == [project |-> f[1], responsiblePerson |-> f[2]]

LocalDay == 0 .. (MaxDay + 1)

Value == {DeviceInfo(n) : n \in 1 .. MaxLaunches}
         \cup {LocationInfo(n, t) : n \in 1 .. MaxFixes, t \in LocalDay}
         \cup {UserData(f) : f \in Text \X Text}

(* The blocks the app hands to the client. *)
LoadBlock == [block |-> "loadDataFromDb"]
ShowBlock == [block |-> "viewDidLoad"]
LocationBlock(d, n, t) ==
    [block |-> "updateLocations", day |-> d, info |-> LocationInfo(n, t)]
Callback == {LoadBlock, ShowBlock}
            \cup {LocationBlock(d, n, t) : d \in Day, n \in 1 .. MaxFixes, t \in LocalDay}

DB == INSTANCE RealtimeDatabase WITH
        Root <- Record, MaxWrites <- 1 + MaxSaves + MaxFixes,
        MaxHandles <- 2 + MaxFixes

-----------------------------------------------------------------------------
Blanks    == <<Blank, Blank>>
NoRecord  == DB!EmptyNode

(* The one type invariant of the module. *)
TypeOK ==
    /\ DB!TypeOK
    /\ running \in BOOLEAN
    /\ launches \in 0 .. MaxLaunches
    /\ fields \in Text \X Text
    /\ display \in DB!Node
    /\ fired \in SUBSET Nat
    /\ today \in Day
    /\ received \in SUBSET (1 .. MaxFixes)
    /\ fixes \in 0 .. MaxFixes
    /\ saves \in 0 .. MaxSaves
    /\ nextPush \in Nat

Init ==
    /\ server = NoRecord
    /\ DB!FreshClient
    /\ calls = <<>> /\ events = <<>> /\ nextHandle = 0
    /\ running = FALSE /\ launches = 0
    /\ fields = Blanks /\ display = NoRecord
    /\ fired = {} /\ received = {} /\ fixes = 0 /\ saves = 0
    /\ today = 1 /\ nextPush = 1

-----------------------------------------------------------------------------
(* Calls of the client's API, all asynchronous. *)

observe(h, l, cb) ==
    [op |-> "observe", obs |-> [handle |-> h, at |-> l, cb |-> cb]]
removeObserver(h) == [op |-> "remove", handle |-> h]
setValue(p, v)    == [op |-> "write", path |-> p, val |-> v]

-----------------------------------------------------------------------------
(* Handlers on the main queue. *)

(* didFinishLaunchingWithOptions: Firebase is configured, the record's     *)
(* reference is set and the record is read once (loadDataFromDb); then the *)
(* controller's view is loaded and observes the record for good.  (A       *)
(* device without a vendor id does not get this far: MobileDeviceInfo.)    *)
didFinishLaunching ==
    /\ ~running /\ launches < MaxLaunches
    /\ running' = TRUE
    /\ launches' = launches + 1
    /\ calls' = <<observe(0, Record, LoadBlock), observe(1, Record, ShowBlock)>>
    /\ nextHandle' = 2
    /\ UNCHANGED <<dbVars, events, fields, display, fired, today, received,
                   fixes, saves, nextPush>>

(* The user types into a field. *)
EditField(f) ==
    /\ running
    /\ f # fields /\ (f[1] = fields[1] \/ f[2] = fields[2])
    /\ fields' = f
    /\ UNCHANGED <<dbVars, nextHandle, calls, events, running, launches, display,
                   fired, today, received, fixes, saves, nextPush>>

(* savePressed / saveUserData: both fields are written, as they are. *)
savePressed ==
    /\ running /\ saves < MaxSaves
    /\ saves' = saves + 1
    /\ calls' = Append(calls, setValue(ManualInfo, UserData(fields)))
    /\ UNCHANGED <<dbVars, nextHandle, events, running, launches, fields, display,
                   fired, today, received, fixes, nextPush>>

(* The day DeviceLocations' formatter may print for an instant of UTC day  *)
(* d.  Only towards the end of d is it the next day east of UTC, and only  *)
(* at its beginning the day before west of it.                             *)
printedDay(d, lastMinute) ==
    CASE Zone = "east" -> IF lastMinute THEN {d + 1} ELSE {d, d + 1}
      [] Zone = "west" -> IF lastMinute THEN {d} ELSE {d - 1, d}
      [] Zone = "utc" -> {d}

(* A fix: DeviceLocations reads the clock for the entry's time, then       *)
(* updateLocations reads it again (CapturedDate) for the bucket; midnight  *)
(* may pass in between.  The bucket is read before anything is written.    *)
didGetUserLocationUpdate ==
    /\ running /\ fixes < MaxFixes
    /\ fixes' = fixes + 1
    /\ received' = received \cup {fixes'}
    /\ today' \in {today, today + 1} \cap Day
    /\ \E t \in printedDay(today, today' # today) :
        calls' = Append(calls, observe(nextHandle, Bucket(today'),
                                       LocationBlock(today', fixes', t)))
    /\ nextHandle' = nextHandle + 1
    /\ UNCHANGED <<dbVars, events, running, launches, fields, display, fired,
                   saves, nextPush>>

MidnightUTC ==
    /\ today < MaxDay
    /\ today' = today + 1
    /\ UNCHANGED <<dbVars, nextHandle, calls, events, running, launches, fields,
                   display, fired, received, fixes, saves, nextPush>>

(* The blocks, run on the main queue with the snapshot of their event. *)

(* Deviations: the device always registers; it registers if the record     *)
(* does not exist by now, whatever the snapshot says.                      *)
registerAlways(snap) == <<setValue(SystemInfo, DeviceInfo(launches))>>
registerByView(snap) ==
    IF cache # Missing /\ DB!exists(DB!View) THEN <<>>
    ELSE <<setValue(SystemInfo, DeviceInfo(launches))>>

(* loadDataFromDb: a record that does not exist gets its SystemInfo. *)
registerDevice(snap) ==
    IF DB!exists(snap) THEN <<>>
    ELSE <<setValue(SystemInfo, DeviceInfo(launches))>>

(* Deviations: only a registered device stores its fixes; the bucket is    *)
(* computed by the block.                                                  *)
storeIfRegistered(cb) ==
    IF cache[SystemInfo] = Null THEN <<>>
    ELSE <<setValue(Entry(cb.day, nextPush), cb.info)>>
storeToday(cb) == <<setValue(Entry(today, nextPush), cb.info)>>

(* updateLocations: the entry gets its push id here, its bucket is the one *)
(* computed when the fix arrived.                                          *)
storeLocation(cb) == <<setValue(Entry(cb.day, nextPush), cb.info)>>

firstCall(e) == e.obs.handle \notin fired

(* observeSingleEvent: the first event removes the observer, later events  *)
(* that were already on their way are ignored.                             *)
singleEvent(e) ==
    IF ~firstCall(e)
    THEN UNCHANGED <<calls, fired, nextPush>>
    ELSE LET load == e.obs.cb = LoadBlock IN
         /\ fired' = fired \cup {e.obs.handle}
         /\ calls' = calls \o <<removeObserver(e.obs.handle)>>
                \o (IF load THEN registerDevice(e.snap) ELSE storeLocation(e.obs.cb))
         /\ nextPush' = IF load THEN nextPush ELSE nextPush + 1

(* A deviation: the text view is filled once. *)
showFirstRecord(e) ==
    /\ display' = IF display = NoRecord THEN e.snap ELSE display
    /\ UNCHANGED <<calls, fired, nextPush>>

(* viewDidLoad's observer: a snapshot that is not a dictionary is ignored. *)
showRecord(e) ==
    /\ display' = IF DB!exists(e.snap) THEN e.snap ELSE display
    /\ UNCHANGED <<calls, fired, nextPush>>

RunBlock ==
    /\ events # <<>>
    /\ events' = Tail(events)
    /\ LET e == Head(events) IN
       \/ e.obs.cb = ShowBlock /\ showRecord(e)
       \/ e.obs.cb # ShowBlock /\ singleEvent(e) /\ UNCHANGED display
    /\ UNCHANGED <<dbVars, nextHandle, running, launches, fields, today, received,
                   fixes, saves>>

(* The process dies: persistence is off, so only the server's record and   *)
(* the clock survive.                                                      *)
Killed ==
    /\ running
    /\ running' = FALSE
    /\ DB!ClientLost
    /\ calls' = <<>> /\ events' = <<>> /\ nextHandle' = 0
    /\ fields' = Blanks /\ display' = NoRecord
    /\ fired' = {} /\ received' = {} /\ saves' = 0
    /\ UNCHANGED <<server, launches, today, fixes, nextPush>>

-----------------------------------------------------------------------------
ClientStep == running /\ DB!ClientStep /\ UNCHANGED appVars
ServerStep == DB!ServerStep /\ UNCHANGED appVars
LinkFails  == DB!onDisconnect /\ UNCHANGED appVars

Next ==
    \/ didFinishLaunching \/ savePressed \/ didGetUserLocationUpdate
    \/ \E f \in Text \X Text : EditField(f)
    \/ RunBlock \/ Killed \/ MidnightUTC
    \/ ClientStep \/ ServerStep \/ LinkFails

(* The queues of a live process are served, the client keeps reconnecting  *)
(* and the server answers.  Nothing obliges the user, the clock, the       *)
(* network or the system to do anything.                                   *)
Fairness ==
    /\ WF_vars(RunBlock)
    /\ WF_vars(running /\ DB!ExecuteCall /\ UNCHANGED appVars)
    /\ WF_vars(running /\ DB!onReady /\ UNCHANGED appVars)
    /\ WF_vars(running /\ DB!onDataMessage /\ UNCHANGED appVars)
    /\ WF_vars(DB!ServerTakesListen /\ UNCHANGED appVars)
    /\ WF_vars(DB!ServerAnswersListen /\ UNCHANGED appVars)
    /\ WF_vars(DB!ServerTakesPut /\ UNCHANGED appVars)

Spec == Init /\ [][Next]_vars /\ Fairness

-----------------------------------------------------------------------------
(* Properties. *)

Loaded  == 0 \in fired
Queued(p) == \E i \in DOMAIN calls : calls[i].op = "write" /\ calls[i].path = p
Pending(p) == Queued(p) \/ \E w \in writes : w.path = p
Entries(node) == {p \in Path \ {SystemInfo, ManualInfo} : node[p] # Null}

(* What the app has handed to the database so far: on the server, and in   *)
(* the write tree on its way there.                                        *)
Sent == DB!Overlay(server, writes)

(* A step that leaves the SystemInfo of the record alone.                  *)
KeepsSystemInfo ==
    server[SystemInfo] # Null => server'[SystemInfo] = server[SystemInfo]

(* SystemInfo is written only into a record that does not exist, so one    *)
(* that is on the server is never overwritten: not by a later launch whose *)
(* device info differs, nor by a resent put.                               *)
SystemInfoWrittenOnce == [][KeepsSystemInfo]_vars

(* On its first launch a device that read its record registers itself,     *)
(* unless Save was pressed before the answer came: the pending ManualInfo  *)
(* makes the record exist.  Fixes that wait for the same answer cannot     *)
(* have this effect, although their blocks run first.                      *)
OnlySaveMasksRegistration ==
    (launches = 1 /\ Loaded /\ SystemInfo \notin MayRefuse)
        => \/ server[SystemInfo] # Null \/ Pending(SystemInfo)
           \/ written[ManualInfo] # Null

FixAt(cb, n) == cb \notin {LoadBlock, ShowBlock} /\ cb.info.fix = n
Stored(n) == \E p \in Entries(server) : server[p].fix = n

(* No fix is dropped by a live process: each is waiting to be read, to be  *)
(* run, to be written or to be answered, or is on the server.              *)
NoFixDropped ==
    \A n \in received :
        \/ \E i \in DOMAIN calls :
              \/ calls[i].op = "observe" /\ FixAt(calls[i].obs.cb, n)
              \/ calls[i].op = "write" /\ "fix" \in DOMAIN calls[i].val
                    /\ calls[i].val.fix = n
        \/ \E o \in observers : FixAt(o.cb, n) /\ o.handle \notin fired
        \/ \E w \in writes : "fix" \in DOMAIN w.val /\ w.val.fix = n
        \/ Stored(n)

(* A fix is stored under one push id only, however often its observer is   *)
(* notified and its put is sent.                                           *)
FixStoredOnce ==
    \A p, q \in Entries(Sent) : Sent[p].fix = Sent[q].fix => p = q

(* The bucket is the UTC day on which the fix arrived, however long the    *)
(* write waits for the read before it.  The entry's own time, printed in   *)
(* the local zone from an earlier reading of the clock, is never more than *)
(* one day off: the day after only east of UTC, the day before only        *)
(* elsewhere.                                                              *)
BucketIsDayOfFix ==
    \A p \in Entries(Sent) :
        Sent[p].time \in {p[1], IF Zone = "east" THEN p[1] + 1 ELSE p[1] - 1}

(* In a bucket, key order is the order in which the fixes arrived. *)
BucketInArrivalOrder ==
    \A p, q \in Entries(Sent) :
        (p[1] = q[1] /\ p[2] < q[2]) => Sent[p].fix < Sent[q].fix

(* When the queues are empty, the text view shows the record as the app    *)
(* knows it.                                                               *)
DisplayIsCurrent ==
    (running /\ cache # Missing /\ calls = <<>> /\ events = <<>>
        /\ DB!exists(DB!View))
        => display = DB!View

(* If the process lives and the network stays up, the record comes to      *)
(* exist and every fix the process received reaches the server.            *)
EventuallyRecorded ==
    <>[](running /\ link) =>
        <>[](DB!exists(server) /\ \A n \in received : Stored(n))
=============================================================================
