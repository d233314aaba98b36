------------------------------- MODULE MCApp --------------------------------
(* The app, one unit in each behaviour: the access to the location, the service  *)
(* over the database client, and what several devices put where.  A unit other   *)
(* than the access keeps its variables in the slots.                              *)
EXTENDS LocationService, TLC

CONSTANTS
    Units,            \* the units of the run
    Null, Missing,    \* of the database client
    p1, p2, Absent    \* devices, and no reference

VARIABLES
    unit,
    s1, s2, s3, s4, s5, s6, s7, s8, s9, s10, s11, s12, s13,
    s14, s15, s16, s17, s18, s19, s20, s21, s22, s23, s24, s25, s26

slots == <<s1, s2, s3, s4, s5, s6, s7, s8, s9, s10, s11, s12, s13,
           s14, s15, s16, s17, s18, s19, s20, s21, s22, s23, s24, s25, s26>>

(* viewDidLoad asks for .always.                                                   *)
MCWanted == "authorizedAlways"

(* Day 1 and day 2 stand for 9 and 10 October: as keys, "2018:10:10" comes before  *)
(* "2018:10:9".  Two fixes around midnight, east of UTC.                            *)
Fixes == INSTANCE FirebaseService WITH
    Text <- {""}, Blank <- "", BucketOrder <- <<2, 1>>, MaxDay <- 2, MaxLaunches <- 1, MaxSaves <- 0,
    MaxFixes <- 2, MaxPush <- 3, Zone <- "east", MayRefuse <- {},
    server <- s1, link <- s2, asked <- s3, up <- s4, down <- s5, listening <- s6,
    awaiting <- s7, cache <- s8, writes <- s9, held <- s10, nextWrite <- s11,
    written <- s12, observers <- s13, nextHandle <- s14, calls <- s15,
    events <- s16, running <- s17, launches <- s18, fields <- s19, display <- s20,
    fired <- s21, today <- s22, received <- s23, fixes <- s24, saves <- s25,
    nextPush <- s26

(* Two launches, with a Save and a fix, west of UTC.                               *)
Launches == INSTANCE FirebaseService WITH
    Text <- {""}, Blank <- "", BucketOrder <- <<2, 1>>, MaxDay <- 2, MaxLaunches <- 2, MaxSaves <- 1,
    MaxFixes <- 1, MaxPush <- 2, Zone <- "west", MayRefuse <- {},
    server <- s1, link <- s2, asked <- s3, up <- s4, down <- s5, listening <- s6,
    awaiting <- s7, cache <- s8, writes <- s9, held <- s10, nextWrite <- s11,
    written <- s12, observers <- s13, nextHandle <- s14, calls <- s15,
    events <- s16, running <- s17, launches <- s18, fields <- s19, display <- s20,
    fired <- s21, today <- s22, received <- s23, fixes <- s24, saves <- s25,
    nextPush <- s26

(* A user who edits the fields and saves them.                                     *)
Saves == INSTANCE FirebaseService WITH
    Text <- {"", "x"}, Blank <- "", BucketOrder <- <<1>>, MaxDay <- 1, MaxLaunches <- 1, MaxSaves <- 1,
    MaxFixes <- 0, MaxPush <- 1, Zone <- "utc", MayRefuse <- {},
    server <- s1, link <- s2, asked <- s3, up <- s4, down <- s5, listening <- s6,
    awaiting <- s7, cache <- s8, writes <- s9, held <- s10, nextWrite <- s11,
    written <- s12, observers <- s13, nextHandle <- s14, calls <- s15,
    events <- s16, running <- s17, launches <- s18, fields <- s19, display <- s20,
    fired <- s21, today <- s22, received <- s23, fixes <- s24, saves <- s25,
    nextPush <- s26

(* A phone and a pad that write below the same place.                              *)
Records == INSTANCE MobileDeviceInfo WITH
    Phone <- {p1, p2}, Machine <- {<<"iPhone", 4, 1>>, <<"iPad", 4, 1>>},
    machine <- s1, unlocked <- s2, running <- s3, ref <- s4, tree <- s5

(* One device that is any machine of modelName's table the app runs on, or one     *)
(* that is not in it.                                                               *)
AppRows == {row \in Records!Rows : row[2] \in {"iPod", "iPhone", "iPad"}}
Machines == INSTANCE MobileDeviceInfo WITH
    Phone <- {p1},
    Machine <- UNION {{<<row[2], v[1], v[2]>> : v \in row[3]} : row \in AppRows} \cup {<<"iPhone", 9, 3>>},
    machine <- s1, unlocked <- s2, running <- s3, ref <- s4, tree <- s5

-----------------------------------------------------------------------------
rest6 == <<s6, s7, s8, s9, s10, s11, s12, s13, s14, s15, s16, s17, s18, s19, s20,
           s21, s22, s23, s24, s25, s26>>
FreeFrom6 ==
    /\ s6 = 0 /\ s7 = 0 /\ s8 = 0 /\ s9 = 0 /\ s10 = 0 /\ s11 = 0 /\ s12 = 0
    /\ s13 = 0 /\ s14 = 0 /\ s15 = 0 /\ s16 = 0 /\ s17 = 0 /\ s18 = 0 /\ s19 = 0
    /\ s20 = 0 /\ s21 = 0 /\ s22 = 0 /\ s23 = 0 /\ s24 = 0 /\ s25 = 0 /\ s26 = 0
Free == s1 = 0 /\ s2 = 0 /\ s3 = 0 /\ s4 = 0 /\ s5 = 0 /\ FreeFrom6

AppInit ==
    /\ unit \in Units
    /\ Init
    /\ unit # "access" => status = Undetermined
    /\ \/ unit = "access"   /\ Free
       \/ unit = "fixes"    /\ Fixes!Init
       \/ unit = "launches" /\ Launches!Init
       \/ unit = "saves"    /\ Saves!Init
       \/ unit = "machines" /\ Machines!Init /\ FreeFrom6
       \/ unit = "records"  /\ Records!Init  /\ FreeFrom6

AppNext ==
    /\ UNCHANGED unit
    /\ \/ unit = "access" /\ Next /\ UNCHANGED slots
       \/ /\ UNCHANGED vars
          /\ \/ unit = "fixes"    /\ Fixes!Next
             \/ unit = "launches" /\ Launches!Next
             \/ unit = "saves"    /\ Saves!Next
             \/ unit = "machines" /\ Machines!Next /\ UNCHANGED rest6
             \/ unit = "records"  /\ Records!Next  /\ UNCHANGED rest6

AppSpec == AppInit /\ [][AppNext]_<<unit, slots, vars>>

-----------------------------------------------------------------------------
(* Every fix is kept, once: while the process lives it is waiting to be    *)
(* read, to be run, to be written or to be answered, or is on the server,  *)
(* and it is stored under one push id only, however often its observer is  *)
(* notified and its put is sent.                                           *)
FixesAreKept == unit = "fixes" => Fixes!NoFixDropped /\ Fixes!FixStoredOnce

(* The bucket of a fix is the UTC day on which it arrived, however long    *)
(* the write waits for the read before it, and key order in a bucket is    *)
(* arrival order. The time in the entry, printed in the local zone from an *)
(* earlier reading of the clock, is at most one day off: the day after     *)
(* only east of UTC, the day before only elsewhere.                        *)
BucketsAreDays ==
    /\ unit = "fixes" => Fixes!BucketIsDayOfFix /\ Fixes!BucketInArrivalOrder
    /\ unit = "launches" => Launches!BucketIsDayOfFix

(* On its first launch a device that read its record registers itself,     *)
(* unless Save was pressed before the answer came: the pending ManualInfo  *)
(* makes the record exist.  Fixes that wait for the same answer cannot     *)
(* have this effect, although their blocks run first.                      *)
OnlySaveMasksRegistration == unit = "launches" => Launches!OnlySaveMasksRegistration

(* SystemInfo is written only into a record that does not exist, so one    *)
(* that is on the server is never overwritten: not by a later launch whose *)
(* device info differs, nor by a resent put.                               *)
SystemInfoWrittenOnce == [][unit = "launches" => Launches!KeepsSystemInfo]_slots

(* When the queues are empty, the text view shows the record as the app    *)
(* knows it.                                                               *)
DisplayIsCurrent == unit = "saves" => Saves!DisplayIsCurrent

(* The comment on uniqueId says that it "uniquely identifies a device to   *)
(* the app's vendor". It does not hold of two devices that have restarted  *)
(* and were not unlocked yet: README, section 6.                           *)
UniquelyIdentifies == unit = "records" => Records!UniquelyIdentifies

(* A running app has a reference to a record of its own, and no device     *)
(* writes outside its record: the empty id of a locked device is kept from *)
(* meaning "Devices", the parent of all records, by the validation child:  *)
(* does. The screen ratio in a record agrees with the resolution           *)
(* getMobileDeviceInfo puts beside it, for every model but the iPhone X,   *)
(* and a pad modelName knows has one: only names of phones are spelled     *)
(* differently from the raw values screenRatio looks them up with          *)
(* ("iPhone 4s" and "iPhone 4S"), and have none.                           *)
DeviceRecordsAreSound ==
    /\ unit = "access" => TypeOK
    /\ unit = "launches" => Launches!TypeOK
    /\ unit = "records" => Records!TypeOK /\ Records!RecordsApart
    /\ unit = "machines" => Machines!RatiosButOneFit

(* "Screen ratio" is the ratio of "Screen resolution" in every record, as the  *)
(* keys of getMobileDeviceInfo say.                                            *)
RatioIsOfTheScreen == unit = "machines" => Machines!RatioIsOfTheScreen
=============================================================================
