------------------------------ MODULE FileNames ------------------------------
(* leveldb's db/filename.cc and the decimal numbers of util/logging.cc: how     *)
(* files are named, how the names in the directory are taken apart again, and   *)
(* what DBImpl::DeleteObsoleteFiles then removes. A name is the letters before  *)
(* its digits, the digits, and what follows them.                                *)
EXTENDS Integers, Sequences, SequencesExt, FiniteSetsExt

CONSTANTS
    kMaxUint64,     \* greatest file number
    Pad,            \* the width of %06llu
    MaxDigits,      \* digits of the greatest number
    FileNumbers,    \* numbers files are made with
    Strangers       \* names of files that others put into the directory

VARIABLES
    made,           \* files of the database: <<kind, number>>
    live,           \* those of them that are still needed
    dir,            \* names in the directory
    removed         \* names DeleteObsoleteFiles has removed

vars == <<made, live, dir, removed>>

Name(head, digits, tail) == [head |-> head, digits |-> digits, tail |-> tail]

-----------------------------------------------------------------------------

(* The decimal digits of num, at least width of them.                            *)
AppendNumberTo(num, width) ==
    LET len == Max({width, Min({d \in 1 .. MaxDigits : num < 10 ^ d})})
    IN  [i \in 1 .. len |-> (num \div 10 ^ (len - i)) % 10]

MakeFileName(number, suffix) == Name("", AppendNumberTo(number, Pad), suffix)

LogFileName(number) == MakeFileName(number, ".log")
TableFileName(number) == MakeFileName(number, ".ldb")
SSTTableFileName(number) == MakeFileName(number, ".sst")
TempFileName(number) == MakeFileName(number, ".dbtmp")
DescriptorFileName(number) == Name("MANIFEST-", AppendNumberTo(number, Pad), "")
CurrentFileName == Name("CURRENT", <<>>, "")
LockFileName == Name("LOCK", <<>>, "")
InfoLogFileName == Name("LOG", <<>>, "")
OldInfoLogFileName == Name("LOG.old", <<>>, "")

FileName(kind, number) ==
    CASE kind = "log"      -> LogFileName(number)
      [] kind = "table"    -> TableFileName(number)
      [] kind = "oldtable" -> SSTTableFileName(number)
      [] kind = "temp"     -> TempFileName(number)
      [] kind = "manifest" -> DescriptorFileName(number)

(* Digit by digit, refused before the number would pass kMaxUint64.              *)
ConsumeDecimalNumber(digits) ==
    LET end == FoldLeft(LAMBDA r, delta :
                            IF \/ ~r.ok
                               \/ r.val > kMaxUint64 \div 10
                               \/ r.val = kMaxUint64 \div 10 /\ delta > kMaxUint64 % 10
                            THEN [r EXCEPT !.ok = FALSE]
                            ELSE [r EXCEPT !.val = @ * 10 + delta],
                        [ok |-> TRUE, val |-> 0], digits)
    IN  [end EXCEPT !.ok = @ /\ digits # <<>>]

NotOwned == [ok |-> FALSE]
Owned(type, number) == [ok |-> TRUE, type |-> type, number |-> number]

ParseFileName(f) ==
    LET num == ConsumeDecimalNumber(f.digits)
    IN  CASE f = CurrentFileName -> Owned("current", 0)
          [] f = LockFileName -> Owned("lock", 0)
          [] f \in {InfoLogFileName, OldInfoLogFileName} -> Owned("infolog", 0)
          [] f.head = "MANIFEST-" /\ num.ok /\ f.tail = "" -> Owned("manifest", num.val)
          [] f.head = "" /\ num.ok /\ f.tail = ".log" -> Owned("log", num.val)
          [] f.head = "" /\ num.ok /\ f.tail \in {".sst", ".ldb"} -> Owned("table", num.val)
          [] f.head = "" /\ num.ok /\ f.tail = ".dbtmp" -> Owned("temp", num.val)
          [] OTHER -> NotOwned

-----------------------------------------------------------------------------
Kinds == {"log", "table", "oldtable", "temp", "manifest"}

(* The type a kind of file is parsed as: tables have an old name and a new one.  *)
TypeOf(kind) == IF kind = "oldtable" THEN "table" ELSE kind

Init ==
    /\ made = {} /\ live = {} /\ removed = {}
    /\ dir = {CurrentFileName, LockFileName, InfoLogFileName} \cup Strangers

(* NewFileNumber gives each file a number of its own.                            *)
Make(kind, number) ==
    /\ \A f \in made : f[2] # number
    /\ made' = made \cup {<<kind, number>>}
    /\ live' = live \cup {<<kind, number>>}
    /\ dir' = dir \cup {FileName(kind, number)}
    /\ UNCHANGED removed

(* SanitizeOptions renames LOG before a new one is opened.                       *)
Reopen ==
    /\ dir' = dir \cup {OldInfoLogFileName}
    /\ UNCHANGED <<made, live, removed>>

Retire(f) ==
    /\ f \in live
    /\ live' = live \ {f}
    /\ UNCHANGED <<made, dir, removed>>

(* The switch of DeleteObsoleteFiles: logs and manifests are kept from the       *)
(* oldest that is needed on, tables and temporary files by their number alone.   *)
Keep(parsed) ==
    \/ ~parsed.ok
    \/ parsed.type \in {"current", "lock", "infolog"}
    \/ \E f \in live :
          IF parsed.type \in {"log", "manifest"}
          THEN f[1] = parsed.type /\ f[2] <= parsed.number
          ELSE f[1] \in {"table", "oldtable", "temp"} /\ f[2] = parsed.number

DeleteObsoleteFiles ==
    \E gone \in {{f \in dir : ~Keep(ParseFileName(f))}} :
        /\ gone # {}
        /\ dir' = dir \ gone
        /\ removed' = removed \cup gone
        /\ UNCHANGED <<made, live>>

Next ==
    \/ \E kind \in Kinds, number \in FileNumbers : Make(kind, number)
    \/ Reopen
    \/ \E f \in live : Retire(f)
    \/ DeleteObsoleteFiles

Spec == Init /\ [][Next]_vars

-----------------------------------------------------------------------------
(* The one type invariant of the module.                                         *)
TypeOK ==
    /\ live \subseteq made /\ made \subseteq Kinds \X FileNumbers
    /\ \A f \in dir \cup removed : \A i \in DOMAIN f.digits : f.digits[i] \in 0 .. 9

(* Every name the database makes, as wide as its number may be, is recognised    *)
(* with its type and number, the greatest number included.                       *)
NamesParseBack ==
    \A f \in made : ParseFileName(FileName(f[1], f[2])) = Owned(TypeOf(f[1]), f[2])

(* Whatever is made, retired and swept, the file of each live number is there    *)
(* under a name that no other file of the database has.                          *)
LiveFilesKept ==
    /\ \A f \in live : FileName(f[1], f[2]) \in dir
    /\ \A f, g \in made : FileName(f[1], f[2]) = FileName(g[1], g[2]) => f = g
    /\ {CurrentFileName, LockFileName, InfoLogFileName} \subseteq dir

ValueOf(digits) ==
    MapThenSumSet(LAMBDA i : digits[i] * 10 ^ (Len(digits) - i), DOMAIN digits)

(* What is removed carries, digit for digit, a number the database could have    *)
(* given out: a longer number is not wrapped round to one that is dead.          *)
StrangersKept ==
    \A f \in removed :
        /\ f.tail \in {".log", ".sst", ".ldb", ".dbtmp"} \/ f.head = "MANIFEST-"
        /\ ValueOf(f.digits) <= kMaxUint64
=============================================================================
