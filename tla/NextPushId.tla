------------------------------ MODULE NextPushId ------------------------------
(* FNextPushId: the key under which childByAutoId puts an entry, a time stamp    *)
(* followed by random digits. In the millisecond of the last call the random     *)
(* digits are those of the last call, one higher.                                *)
(*                                                                               *)
(* An id is the sequence of its digits: the characters of PUSH_CHARS stand in    *)
(* the order of their codes, so that ids compare as their digits do.             *)
EXTENDS Integers, Sequences, SequencesExt, FiniteSets

CONSTANTS
    Base,          \* 64: the length of PUSH_CHARS
    TimeDigits,    \* 8
    RandDigits,    \* 12
    Randoms,       \* what the random digits may come out as
    MaxCalls       \* bound: ids made

VARIABLES
    now,            \* the server's time as this client knows it, in milliseconds
    lastPushTime,
    lastRandChars,  \* a static array: zeros at first
    outside,        \* how often the place before the array was incremented
    ids             \* every call: [time, id]

vars == <<now, lastPushTime, lastRandChars, outside, ids>>

Times == 0 .. Base ^ TimeDigits - 1

-----------------------------------------------------------------------------
(* now % 64 fills the places from the last to the first.                          *)
TimeStampChars(t) == [i \in 1 .. TimeDigits |-> (t \div (Base ^ (TimeDigits - i))) % Base]

(* Where the loop stops: the last digit that is not at its maximum, 0 if all are. *)
Stop(rand) == SelectLastInSeq(rand, LAMBDA d : d # Base - 1)

(* The digits behind it become 0 and it is counted up. When the loop runs through, *)
(* all are 0 and the increment falls on what lies before the array.                *)
Increment(rand) ==
    [i \in 1 .. RandDigits |->
        IF i > Stop(rand) THEN 0 ELSE IF i = Stop(rand) THEN rand[i] + 1 ELSE rand[i]]

-----------------------------------------------------------------------------
Init ==
    /\ now \in Times /\ now # 0
    /\ lastPushTime = 0 /\ lastRandChars = [i \in 1 .. RandDigits |-> 0]
    /\ outside = 0 /\ ids = <<>>

(* The clock goes on, or the offset of the server's time is received anew.         *)
Clock(t) ==
    /\ t # now /\ Len(ids) < MaxCalls
    /\ now' = t
    /\ UNCHANGED <<lastPushTime, lastRandChars, outside, ids>>

get ==
    /\ Len(ids) < MaxCalls
    /\ lastPushTime' = now
    /\ IF now = lastPushTime
       THEN /\ lastRandChars' = Increment(lastRandChars)
            /\ outside' = outside + (IF Stop(lastRandChars) = 0 THEN 1 ELSE 0)
       ELSE lastRandChars' \in Randoms /\ UNCHANGED outside
    /\ ids' = Append(ids, [time |-> now, id |-> TimeStampChars(now) \o lastRandChars'])
    /\ UNCHANGED now

Next == get \/ \E t \in Times \ {0} : Clock(t)

Spec == Init /\ [][Next]_vars

-----------------------------------------------------------------------------
Less(a, b) == \E i \in DOMAIN a : a[i] < b[i] /\ \A j \in 1 .. i - 1 : a[j] = b[j]

(* The calls from the i-th to the j-th see a clock that does not go back.          *)
ClockGoesOn(i, j) == \A k \in i .. j - 1 : ids[k].time <= ids[k + 1].time

(* The one type invariant of the module: every digit has a character, and nothing *)
(* but the array is written.                                                       *)
TypeOK ==
    /\ lastPushTime \in Times /\ outside = 0
    /\ \A i \in DOMAIN ids : \A d \in DOMAIN ids[i].id : ids[i].id[d] \in 0 .. Base - 1

(* "The resulting list will be chronologically-sorted": while the clock does not   *)
(* go back, every id is greater than the ones before it, within a millisecond and  *)
(* across the border of two; so no two of them are the same.                       *)
ChronologicallySorted ==
    \A i, j \in DOMAIN ids : i < j /\ ClockGoesOn(i, j) => Less(ids[i].id, ids[j].id)

(* Whatever the clock does, an id of a later time is greater.                      *)
LaterIsGreater ==
    \A i, j \in DOMAIN ids : ids[i].time < ids[j].time => Less(ids[i].id, ids[j].id)
=============================================================================
