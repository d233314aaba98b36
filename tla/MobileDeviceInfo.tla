-------------------------- MODULE MobileDeviceInfo --------------------------
(***************************************************************************)
(* What a device says about itself, and the place in the shared database   *)
(* it derives from that: MobileDeviceInfo, Device, and the references of   *)
(* FirebaseService, for several devices that write below "Devices".        *)
(*                                                                         *)
(* Here a put is applied at once (RealtimeDatabase and FirebaseService     *)
(* model the way it takes); what matters is whose data is where.           *)
(*                                                                         *)
(* UIDevice, UIScreen and uname() are external: a device has one machine   *)
(* identifier, <<kind, generation, variant>>, and the screen of its model, *)
(* and its identifierForVendor is nil after a restart until the first      *)
(* unlock.                                                                 *)
(***************************************************************************)
EXTENDS Integers, Sequences

CONSTANTS
    Phone,    \* the devices; a device stands for its vendor id as well
    Machine,  \* machine identifiers
    Absent    \* no reference; no vendor id

VARIABLES
    machine,   \* [Phone -> Machine]
    unlocked,  \* the devices whose identifierForVendor is not nil
    running,   \* the devices on which the app runs
    ref,       \* FirebaseService.ref on each device, or Absent
    tree       \* the leaves of the database: [at, by, val]

vars == <<machine, unlocked, running, ref, tree>>

-----------------------------------------------------------------------------
(* MobileDeviceInfo. *)

(* The rows of modelName's switch: the name, the kind and its variants     *)
(* ("i386" and "x86_64" are the Mac's).                                    *)
Rows == {
    <<"iPod Touch 5", "iPod", {<<5, 1>>}>>,
    <<"iPod Touch 6", "iPod", {<<7, 1>>}>>,
    <<"iPhone 4", "iPhone", {<<3, 1>>, <<3, 2>>, <<3, 3>>}>>,
    <<"iPhone 4s", "iPhone", {<<4, 1>>}>>,
    <<"iPhone 5", "iPhone", {<<5, 1>>, <<5, 2>>}>>,
    <<"iPhone 5c", "iPhone", {<<5, 3>>, <<5, 4>>}>>,
    <<"iPhone 5s", "iPhone", {<<6, 1>>, <<6, 2>>}>>,
    <<"iPhone 6", "iPhone", {<<7, 2>>}>>,
    <<"iPhone 6 Plus", "iPhone", {<<7, 1>>}>>,
    <<"iPhone 6s", "iPhone", {<<8, 1>>}>>,
    <<"iPhone 6s Plus", "iPhone", {<<8, 2>>}>>,
    <<"iPhone 5se", "iPhone", {<<8, 4>>}>>,
    <<"iPhone 7", "iPhone", {<<9, 1>>}>>,
    <<"iPhone 7 Plus", "iPhone", {<<9, 2>>, <<9, 4>>}>>,
    <<"iPhone 8", "iPhone", {<<10, 1>>, <<10, 4>>}>>,
    <<"iPhone 8 Plus", "iPhone", {<<10, 2>>, <<10, 5>>}>>,
    <<"iPhone X", "iPhone", {<<10, 3>>, <<10, 6>>}>>,
    <<"iPad 2", "iPad", {<<2, 1>>, <<2, 2>>, <<2, 3>>, <<2, 4>>}>>,
    <<"iPad 3", "iPad", {<<3, 1>>, <<3, 2>>, <<3, 3>>}>>,
    <<"iPad 4", "iPad", {<<3, 4>>, <<3, 5>>, <<3, 6>>}>>,
    <<"iPad Air", "iPad", {<<4, 1>>, <<4, 2>>, <<4, 3>>}>>,
    <<"iPad Air 2", "iPad", {<<5, 3>>, <<5, 4>>}>>,
    <<"iPad 5", "iPad", {<<6, 11>>, <<6, 12>>}>>,
    <<"iPad Mini", "iPad", {<<2, 5>>, <<2, 6>>, <<2, 7>>}>>,
    <<"iPad Mini 2", "iPad", {<<4, 4>>, <<4, 5>>, <<4, 6>>}>>,
    <<"iPad Mini 3", "iPad", {<<4, 7>>, <<4, 8>>, <<4, 9>>}>>,
    <<"iPad Mini 4", "iPad", {<<5, 1>>, <<5, 2>>}>>,
    <<"iPad Pro 9.7 Inch", "iPad", {<<6, 3>>, <<6, 4>>}>>,
    <<"iPad Pro 12.9 Inch", "iPad", {<<6, 7>>, <<6, 8>>}>>,
    <<"iPad Pro 12.9 Inch 2. Generation", "iPad", {<<7, 1>>, <<7, 2>>}>>,
    <<"iPad Pro 10.5 Inch", "iPad", {<<7, 3>>, <<7, 4>>}>>,
    <<"Apple TV", "AppleTV", {<<5, 3>>}>>,
    <<"Apple TV 4K", "AppleTV", {<<6, 2>>}>>,
    <<"HomePod", "AudioAccessory", {<<1, 1>>}>>,
    <<"Simulator", "Mac", {<<32, 0>>, <<64, 0>>}>>}

Matches(row, m) == row[2] = m[1] /\ <<m[2], m[3]>> \in row[3]
Listed(m) == \E row \in Rows : Matches(row, m)

(* The default row returns the machine string, which is no model's name. *)
MachineString == "machineString"
modelName(m) ==
    IF Listed(m) THEN (CHOOSE row \in Rows : Matches(row, m))[1] ELSE MachineString

(* UIScreen.main.nativeBounds, as <<height, width>> in pixels, of the      *)
(* machines the app runs on; iPhone9,3, which is not listed, is an         *)
(* iPhone 7.                                                               *)
nativeBounds(m) ==
    CASE modelName(m) \in {"iPhone 4", "iPhone 4s"} -> <<960, 640>>
      [] modelName(m) \in {"iPod Touch 5", "iPod Touch 6", "iPhone 5", "iPhone 5c",
                           "iPhone 5s", "iPhone 5se"} -> <<1136, 640>>
      [] modelName(m) \in {"iPhone 6 Plus", "iPhone 6s Plus", "iPhone 7 Plus",
                           "iPhone 8 Plus"} -> <<1920, 1080>>
      [] modelName(m) = "iPhone X" -> <<2436, 1125>>
      [] modelName(m) \in {"iPad 2", "iPad Mini"} -> <<1024, 768>>
      [] modelName(m) = "iPad Pro 10.5 Inch" -> <<2224, 1668>>
      [] modelName(m) \in {"iPad Pro 12.9 Inch", "iPad Pro 12.9 Inch 2. Generation"} ->
             <<2732, 2048>>
      [] m[1] = "iPad" /\ modelName(m) \notin
             {"iPad 2", "iPad Mini", "iPad Pro 10.5 Inch", "iPad Pro 12.9 Inch",
              "iPad Pro 12.9 Inch 2. Generation"} -> <<2048, 1536>>
      [] OTHER -> <<1334, 750>>

(* The text "height x width" is the pair. *)
screenResolution(m) == nativeBounds(m)

(* The lists of screenRatio, as raw values of DeviceTypeModel. *)
oldIphones   == {"iPhone 4", "iPhone 4S"}
newerIphones == {"iPhone 5", "iPhone 5C", "iPhone 5S", "iPhone SE", "iPhone 6",
                 "iPhone 6 Plus", "iPhone 6S", "iPhone 6S Plus", "iPhone 7",
                 "iPhone 7 Plus", "iPhone 8", "iPhone 8 Plus", "iPhone X",
                 "iPhone XS", "iPhone XS Max", "iPhone XR"}
ipads        == {"iPad 2", "iPad 3", "iPad 4", "iPad 5", "iPad Air", "iPad Air 2",
                 "iPad Mini", "iPad Mini 2", "iPad Mini 3", "iPad Mini 4",
                 "iPad Pro", "iPad Pro 9.7 Inch", "iPad Pro 10.5 Inch",
                 "iPad Pro 12.9 Inch", "iPad Pro 12.9 Inch 2. Generation"}

(* A name that is no raw value, or is on no list, has no known ratio. *)
screenRatio(m) ==
    CASE modelName(m) \in oldIphones -> "3:2"
      [] modelName(m) \in ipads -> "4:3"
      [] modelName(m) \in newerIphones -> "16:9"
      [] OTHER -> "unknown"

uniqueId(d) == IF d \in unlocked THEN d ELSE ""

(* Keys whose value is always "". *)
Unfilled == {"Serial number", "MAC address", "IMEI", "Device type", "Workplace",
          "Inventory number", "Project", "Sticker",
          "Department or Project device", "Responsible person"}
getMobileDeviceInfo(d) ==
    [k \in Unfilled \cup {"manufactoring", "model", "OS", "name",
                       "Screen resolution", "Screen ratio", "UUID"} |->
        CASE k = "model" -> modelName(machine[d])
          [] k = "Screen resolution" -> screenResolution(machine[d])
          [] k = "Screen ratio" -> screenRatio(machine[d])
          [] k = "UUID" -> uniqueId(d)
          [] OTHER -> ""]

-----------------------------------------------------------------------------
(* Device. *)

(* The keys without which the initializer returns nil. *)
Required == {"manufactoring", "model", "OS", "name", "Screen resolution",
             "Screen ratio", "UUID"} \cup Unfilled
toAnyObject(info) ==
    [model |-> info["model"], screenResolution |-> info["Screen resolution"],
     screenRatio |-> info["Screen ratio"], uuid |-> info["UUID"]]

-----------------------------------------------------------------------------
(* References. *)

Devices == <<"Devices">>
Child   == {"SystemInfo", "ManualInfo"}

(* A deviation: any string is a path. *)
anyPathString(key) == TRUE

(* child: throws unless the path string is one the database allows; no     *)
(* handler catches the exception, so the process aborts.                   *)
validPathString(key) == key # ""

(* An empty piece of a path string is dropped. *)
childFromString(path, key) == IF key = "" THEN path ELSE Append(path, key)

IsBelow(path, at) == Len(path) < Len(at) /\ SubSeq(at, 1, Len(path)) = path
exists(path) == \E leaf \in tree : IsBelow(path, leaf.at)

(* updateChildValues replaces the children it names. *)
updateChildValues(d, child, val) ==
    LET at == Append(ref[d], child)
    IN  tree' = {leaf \in tree : leaf.at # at}
                \cup {[at |-> at, by |-> d, val |-> val]}

-----------------------------------------------------------------------------
(* The one type invariant of the module. *)
TypeOK ==
    /\ machine \in [Phone -> Machine]
    /\ unlocked \subseteq Phone
    /\ running \subseteq Phone
    /\ \A d \in Phone : ref[d] = Absent
                        \/ ref[d] \in {Devices} \cup {Append(Devices, e) : e \in Phone}
    /\ \A leaf \in tree : leaf.at[Len(leaf.at)] \in Child /\ leaf.by \in Phone

Init ==
    /\ machine \in [Phone -> Machine]
    /\ unlocked = Phone /\ running = {}
    /\ ref = [d \in Phone |-> Absent]
    /\ tree = {}

(* loadDataFromDb up to its read: without a Device there is no reference;  *)
(* a launch whose reference cannot be built aborts, and leaves no trace.   *)
Launch(d) ==
    LET info == getMobileDeviceInfo(d)
        isDevice == Required \subseteq DOMAIN info IN
    /\ d \notin running
    /\ isDevice => validPathString(info["UUID"])
    /\ running' = running \cup {d}
    /\ ref' = IF isDevice
              THEN [ref EXCEPT ![d] = childFromString(Devices, info["UUID"])]
              ELSE ref
    /\ UNCHANGED <<machine, unlocked, tree>>

(* The block of loadDataFromDb, and Save.  The device's info is that of    *)
(* the launch: nothing it is made of changes while the process lives.      *)
Register(d) ==
    /\ d \in running /\ ref[d] # Absent /\ ~exists(ref[d])
    /\ updateChildValues(d, "SystemInfo", toAnyObject(getMobileDeviceInfo(d)))
    /\ UNCHANGED <<machine, unlocked, running, ref>>

Save(d) ==
    /\ d \in running /\ ref[d] # Absent
    /\ updateChildValues(d, "ManualInfo", [project |-> "", responsiblePerson |-> ""])
    /\ UNCHANGED <<machine, unlocked, running, ref>>

Quit(d) ==
    /\ d \in running
    /\ running' = running \ {d}
    /\ ref' = [ref EXCEPT ![d] = Absent]
    /\ UNCHANGED <<machine, unlocked, tree>>

(* The device (external). *)
Restart(d) ==
    /\ unlocked' = unlocked \ {d}
    /\ running' = running \ {d}
    /\ ref' = [ref EXCEPT ![d] = Absent]
    /\ UNCHANGED <<machine, tree>>

Unlock(d) ==
    /\ d \notin unlocked
    /\ unlocked' = unlocked \cup {d}
    /\ UNCHANGED <<machine, running, ref, tree>>

Next == \E d \in Phone : Launch(d) \/ Register(d) \/ Save(d) \/ Quit(d)
                         \/ Restart(d) \/ Unlock(d)

Spec == Init /\ [][Next]_vars

-----------------------------------------------------------------------------
(* Properties. *)

(* A running app has a reference to a record of its own (the dictionary    *)
(* has every key the initializer of Device requires), and no device ever   *)
(* writes outside its own record: the empty id of a locked device is kept  *)
(* from meaning "Devices", the parent of all records, by the validation    *)
(* child: does.                                                            *)
RecordsApart ==
    /\ \A d \in running : ref[d] = Append(Devices, d)
    /\ \A leaf \in tree : IsBelow(Append(Devices, leaf.by), leaf.at)

SystemInfos == {leaf \in tree : leaf.at[Len(leaf.at)] = "SystemInfo"}

(* height : width is a : b, to one percent (1136 x 640 counts as 16:9).    *)
Near(height, width, a, b) ==
    LET off == height * b - width * a
    IN  100 * off <= width * a /\ -100 * off <= width * a

(* The ratio in a record, where it is known, is that of the resolution in  *)
(* the same record.                                                        *)
RatioFits(info) ==
    LET height == info.screenResolution[1]
        width  == info.screenResolution[2]
    IN  CASE info.screenRatio = "3:2"  -> Near(height, width, 3, 2)
          [] info.screenRatio = "4:3"  -> Near(height, width, 4, 3)
          [] info.screenRatio = "16:9" -> Near(height, width, 16, 9)
          [] info.screenRatio = "unknown" -> TRUE

(* What the record says of the screen, "Screen resolution" and "Screen     *)
(* ratio", is about one screen.                                            *)
RatioIsOfTheScreen == \A leaf \in SystemInfos : RatioFits(leaf.val)

(* A recorded ratio contradicts the resolution recorded beside it for no   *)
(* model but the iPhone X; and a pad modelName knows always has one: of    *)
(* the names modelName returns, only phones' are spelled differently from  *)
(* the raw values screenRatio looks them up with ("iPhone 4s" and          *)
(* "iPhone 4S"), and fall back to "unknown".                               *)
RatiosButOneFit ==
    \A leaf \in SystemInfos :
        /\ leaf.val.model # "iPhone X" => RatioFits(leaf.val)
        /\ (machine[leaf.by][1] = "iPad" /\ Listed(machine[leaf.by]))
               => leaf.val.screenRatio # "unknown"

(* The comment on uniqueId says that it "uniquely identifies a device to   *)
(* the app's vendor". It does not hold of two devices that have restarted  *)
(* and were not unlocked yet: README, section 6.                           *)
UniquelyIdentifies ==
    \A d, e \in Phone : uniqueId(d) = uniqueId(e) => d = e
=============================================================================
