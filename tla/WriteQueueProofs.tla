-------------------------- MODULE WriteQueueProofs --------------------------
(***************************************************************************)
(* Group commit for every number of writer threads, every size of batches  *)
(* and of groups and every pattern of failures: what DBImpl::Write         *)
(* promises to the writers it answers for.                                 *)
(***************************************************************************)
EXTENDS WriteQueue, TLAPS, SequenceTheorems, WellFoundedInduction

Writing == {"log", "sync", "insert", "finish"}

(* The writers in the queue wait, but for the head, which acts; a writer   *)
(* that left the queue was told its status.                                *)
Distinct == \A i, j \in DOMAIN queue : queue[i] = queue[j] => i = j
Members ==
  \A t \in Thread : IF t \in ToSet(queue) THEN w[t].pc \notin {"idle", "returned"}
                    ELSE w[t].pc \in {"idle", "awake", "returned"}
HeadActs == \A t \in Thread : w[t].pc \in Acting => queue # << >> /\ t = queue[1]
StatusIsOk == \A t \in Thread : t \in ToSet(queue) => w[t].status = "ok" \/ w[t].pc = "finish"
QueueInv == Distinct /\ Members /\ HeadActs /\ StatusIsOk

(* The group is a part of the queue from its head on, and nobody in it     *)
(* asks for a sync that the head does not ask for.                         *)
GroupIsPrefix ==
  \A t \in Thread : w[t].pc \in Writing =>
    /\ Len(group) \in 1 .. Len(queue) /\ w[t].size > 0
    /\ \A i \in DOMAIN group : group[i] = queue[i] /\ (w[group[i]].sync => w[t].sync)
NoGroup == (\A t \in Thread : w[t].pc \notin Writing) => group = << >>
GroupInv == GroupIsPrefix /\ NoGroup

(* The queue is in the order of the calls, behind everyone who left it. *)
CallsInv ==
  /\ \A t \in Thread : Called(t) => t \in ToSet(called)
  /\ \A i, j \in DOMAIN queue : i < j => Earlier(queue[i], queue[j])
  /\ \A s, t \in Thread : Called(s) /\ s \notin ToSet(queue) /\ t \in ToSet(queue) => Earlier(s, t)

(* What was applied, in order; and where it stands against the last        *)
(* sequence number.                                                        *)
IsApplied(t) == \E x \in applied : x[1] = t
Before(x, y) == Earlier(x[1], y[1]) /\ x[2] + w[x[1]].size <= y[2]
Total == Size(group, Len(group))
InOrder == \A x, y \in applied : x = y \/ Before(x, y) \/ Before(y, x)
AppliedIsPast(x) == x[1] \notin ToSet(queue) /\ x[2] + w[x[1]].size <= seq + 1
AppliedIsNow(x) ==
  /\ x[1] \in ToSet(group) /\ seq + 1 <= x[2] /\ x[2] + w[x[1]].size <= seq + 1 + Total
  /\ \A t \in Thread : w[t].pc \in Writing => w[t].pc = "finish"
Placed == \A x \in applied : /\ w[x[1]].size > 0 /\ Called(x[1])
                             /\ AppliedIsPast(x) \/ AppliedIsNow(x)
AppliedInv == InOrder /\ Placed

(* Every record of the log is that of the group being written, or its      *)
(* writers have been told.                                                 *)
LastRecord == [group |-> group, base |-> seq + 1]
Told(r) == \A t \in ToSet(log[r].group) :
             /\ t \in Thread /\ Called(t) /\ t \notin ToSet(queue)
             /\ w[t].status = "ok" /\ w[t].size > 0 => IsApplied(t)
LogInv == \A r \in DOMAIN log : Told(r) \/ (group # << >> /\ log[r] = LastRecord)

(* How far the head has come with its group. *)
Stage ==
  \A t \in Thread :
    /\ w[t].pc \in {"sync", "insert"} \/ (w[t].pc = "finish" /\ w[t].status = "ok")
         => log # << >> /\ log[Len(log)] = LastRecord
    /\ w[t].pc = "insert" \/ (w[t].pc = "finish" /\ w[t].status = "ok")
         => (w[t].sync => synced = Len(log))
    /\ w[t].pc = "finish" /\ w[t].status = "ok"
         => \A i \in DOMAIN group : w[group[i]].size > 0 => IsApplied(group[i])
    /\ w[t].pc \in {"log", "sync", "insert"} => w[t].status = "ok"
Durable(t) ==
  /\ IsApplied(t)
  /\ \E r \in DOMAIN log : t \in ToSet(log[r].group) /\ (w[t].sync => r <= synced)
LeftIsDurable ==
  \A t \in Thread : Called(t) /\ t \notin ToSet(queue) /\ w[t].status = "ok" /\ w[t].size > 0
                      => Durable(t)
DurableInv == LogInv /\ Stage /\ LeftIsDurable

(* After a failed sync the head is about to stop all writes, or has. *)
SyncInv ==
  syncFailed =>
    /\ bgError \/ \E t \in Thread : w[t].pc = "finish" /\ w[t].status = "syncerror"
    /\ \A t \in Thread : w[t].pc \notin {"log", "sync", "insert"}

(* The inductive invariant behind GroupCommitIsSound and                   *)
(* SyncErrorStopsWrites.                                                   *)
Inv == /\ TypeOK /\ QueueInv /\ GroupInv /\ CallsInv
       /\ AppliedInv /\ DurableInv /\ SyncInv

-----------------------------------------------------------------------------
(* A set of numbers that is not empty has a least element. *)
LEMMA LeastNumber ==
    ASSUME NEW T, T \subseteq Nat, T # {}
    PROVE  \E m \in T : \A k \in T : m <= k
<1> DEFINE R == OpToRel(<, Nat)
<1>1. IsWellFoundedOn(R, Nat)
  BY NatLessThanWellFounded
<1>2. PICK x \in T : \A y \in T : ~(<<y, x>> \in R)
  <2> HIDE DEF R
  <2> QED BY <1>1, WFMin
<1>3. \A y \in T : <<y, x>> \in R <=> y < x
  BY DEF OpToRel
<1>4. \A y \in T : ~(y < x)
  BY <1>2, <1>3
<1> QED BY <1>4

(* Numbers have running sums: were k the least length without them, those  *)
(* of length k - 1 could be extended.                                      *)
SumsOf(s, a, k) == /\ s \in [0 .. k -> Nat] /\ s[0] = 0
                   /\ \A n \in 1 .. k : s[n] = s[n - 1] + a[n]
LEMMA SumsExist ==
    ASSUME NEW a \in Seq(Nat), NEW k \in 0 .. Len(a)
    PROVE  \E s : SumsOf(s, a, k)
<1> DEFINE Bad == {n \in 0 .. Len(a) : ~\E s : SumsOf(s, a, n)}
<1>0. Len(a) \in Nat /\ \A n \in 1 .. Len(a) : a[n] \in Nat
  BY LenProperties, ElementOfSeq
<1> SUFFICES ASSUME Bad # {} PROVE FALSE
  BY <1>0
<1>1. PICK m \in Bad : \A n \in Bad : m <= n
  <2>1. Bad \subseteq Nat
    BY <1>0
  <2> HIDE DEF Bad
  <2> QED BY <2>1, LeastNumber
<1>2. CASE m = 0
  <2>1. SumsOf([n \in 0 .. 0 |-> 0], a, 0)
    BY DEF SumsOf
  <2> QED BY <1>2, <2>1
<1>3. CASE m # 0
  <2>1. m - 1 \in 0 .. Len(a) /\ m \in 1 .. Len(a) /\ ~(m <= m - 1) /\ m - 1 \in Nat
    BY <1>0, <1>3
  <2>2. PICK s : SumsOf(s, a, m - 1)
    BY <1>1, <2>1
  <2> DEFINE t == [n \in 0 .. m |-> IF n = m THEN s[m - 1] + a[m] ELSE s[n]]
  <2>3. \A n \in 0 .. (m - 1) : s[n] \in Nat /\ n \in 0 .. m /\ n # m /\ t[n] = s[n]
    BY <2>1, <2>2 DEF SumsOf
  <2>4. m - 1 \in 0 .. (m - 1) /\ 0 \in 0 .. (m - 1)
    BY <2>1
  <2>5. t \in [0 .. m -> Nat]
    <3> HIDE DEF t
    <3>0. s[m - 1] \in Nat /\ a[m] \in Nat
      BY <1>0, <2>1, <2>3, <2>4
    <3>1. s[m - 1] + a[m] \in Nat
      BY <3>0
    <3>2. \A n \in 0 .. m : n = m \/ n \in 0 .. (m - 1)
      BY <2>1
    <3> QED BY <2>3, <3>1, <3>2 DEF t
  <2>6. t[0] = 0
    BY <2>2, <2>3, <2>4 DEF SumsOf
  <2>7. ASSUME NEW n \in 1 .. m PROVE t[n] = t[n - 1] + a[n]
    <3>1. n - 1 \in 0 .. (m - 1)
      BY <2>1
    <3>2. t[n - 1] = s[n - 1]
      BY <2>3, <3>1
    <3>3. CASE n = m
      BY <2>1, <3>2, <3>3
    <3>4. CASE n # m
      <4>1. n \in 1 .. (m - 1) /\ n \in 0 .. (m - 1)
        BY <2>1, <3>4
      <4> QED BY <2>2, <2>3, <3>2, <4>1 DEF SumsOf
    <3> QED BY <3>3, <3>4
  <2> HIDE DEF t
  <2>8. SumsOf(t, a, m)
    BY <2>5, <2>6, <2>7 DEF SumsOf
  <2> QED BY <2>8
<1> QED BY <1>2, <1>3

(* So Sum is what its recursion says. *)
LEMMA SumRecursion ==
    ASSUME NEW a \in Seq(Nat)
    PROVE  /\ Sum(a, 0) = 0
           /\ \A k \in 0 .. Len(a) : Sum(a, k) \in Nat
           /\ \A k \in 1 .. Len(a) : Sum(a, k) = Sum(a, k - 1) + a[k]
<1> DEFINE D == 0 .. Len(a)
           f == CHOOSE g : g = [n \in D |-> IF n = 0 THEN 0 ELSE g[n - 1] + a[n]]
<1>0. Len(a) \in Nat
  BY LenProperties
<1>1. PICK s : SumsOf(s, a, Len(a))
  BY <1>0, SumsExist
<1>2. s = [n \in D |-> IF n = 0 THEN 0 ELSE s[n - 1] + a[n]]
  <2>1. \A n \in D : s[n] = IF n = 0 THEN 0 ELSE s[n - 1] + a[n]
    BY <1>0, <1>1 DEF SumsOf
  <2>2. s = [n \in D |-> s[n]]
    BY <1>1 DEF SumsOf
  <2> QED BY <2>1, <2>2
<1>3. f = [n \in D |-> IF n = 0 THEN 0 ELSE f[n - 1] + a[n]]
  BY <1>2
<1>4. \A k \in D : Sum(a, k) = f[k]
  BY DEF Sum
<1> HIDE DEF f
<1>5. f[0] = 0 /\ \A k \in 1 .. Len(a) : f[k] = f[k - 1] + a[k]
  BY <1>0, <1>3
<1>6. \A k \in D : f[k] \in Nat
  <2> DEFINE Bad == {k \in D : f[k] \notin Nat}
  <2> SUFFICES ASSUME Bad # {} PROVE FALSE
    OBVIOUS
  <2>1. PICK m \in Bad : \A n \in Bad : m <= n
    <3>1. Bad \subseteq Nat
      BY <1>0
    <3> HIDE DEF Bad
    <3> QED BY <3>1, LeastNumber
  <2>2. m # 0 /\ m \in 1 .. Len(a)
    BY <1>0, <1>5
  <2>3. m - 1 \in D /\ m - 1 \notin Bad
    BY <1>0, <2>1, <2>2
  <2>4. f[m - 1] \in Nat /\ a[m] \in Nat
    BY <2>2, <2>3, ElementOfSeq
  <2> QED BY <1>5, <2>1, <2>2, <2>4
<1>7. 0 \in D /\ \A k \in 1 .. Len(a) : k \in D /\ k - 1 \in D
  BY <1>0
<1> QED BY <1>4, <1>5, <1>6, <1>7

-----------------------------------------------------------------------------
(* The sizes of batches add up, for any writers ts. *)
LEMMA SequenceFacts ==
    ASSUME NEW S, NEW s \in Seq(S)
    PROVE  /\ Len(s) \in Nat /\ DOMAIN s = 1 .. Len(s)
           /\ \A i \in 1 .. Len(s) : s[i] \in S
           /\ ToSet(s) = {s[i] : i \in 1 .. Len(s)}
BY LenProperties, ElementOfSeq DEF ToSet

LEMMA SizeSteps ==
    ASSUME w \in [Thread -> Writer], NEW ts \in Seq(Thread)
    PROVE  /\ Size(ts, 0) = 0
           /\ \A k \in 0 .. Len(ts) : Size(ts, k) \in Nat
           /\ \A k \in 1 .. Len(ts) : Size(ts, k) = Size(ts, k - 1) + w[ts[k]].size
<1> DEFINE a == [i \in DOMAIN ts |-> w[ts[i]].size]
<1>1. Len(ts) \in Nat /\ DOMAIN ts = 1 .. Len(ts) /\ \A i \in 1 .. Len(ts) : ts[i] \in Thread
  BY SequenceFacts
<1>2. \A i \in 1 .. Len(ts) : w[ts[i]].size \in Nat
  BY <1>1 DEF Writer
<1>3. a \in [1 .. Len(ts) -> Nat]
  BY <1>1, <1>2
<1>4. a \in Seq(Nat) /\ Len(a) = Len(ts)
  <2> HIDE DEF a
  <2> QED BY <1>1, <1>3, SeqDef, LenProperties
<1>5. \A k \in 1 .. Len(ts) : a[k] = w[ts[k]].size
  BY <1>1
<1>6. \A k : Size(ts, k) = Sum(a, k)
  BY DEF Size
<1> HIDE DEF a
<1> QED BY <1>4, <1>5, <1>6, SumRecursion

LEMMA SizeGrows ==
    ASSUME w \in [Thread -> Writer], NEW ts \in Seq(Thread),
           NEW j \in 0 .. Len(ts), NEW k \in 0 .. Len(ts), j <= k
    PROVE  Size(ts, j) <= Size(ts, k)
<1> DEFINE Bad == {n \in 0 .. Len(ts) : j <= n /\ ~(Size(ts, j) <= Size(ts, n))}
<1>0. Len(ts) \in Nat /\ \A i \in 1 .. Len(ts) : ts[i] \in Thread
  BY SequenceFacts
<1> SUFFICES ASSUME Bad # {} PROVE FALSE
  BY <1>0
<1>1. PICK m \in Bad : \A n \in Bad : m <= n
  <2>1. Bad \subseteq Nat
    BY <1>0
  <2> HIDE DEF Bad
  <2> QED BY <2>1, LeastNumber
<1>2. m # j
  <2>1. Size(ts, j) \in Nat
    BY SizeSteps
  <2> QED BY <1>1, <2>1
<1>3. m \in 1 .. Len(ts) /\ m - 1 \in 0 .. Len(ts) /\ j <= m - 1 /\ ~(m <= m - 1)
  BY <1>0, <1>2
<1>4. Size(ts, j) <= Size(ts, m - 1)
  BY <1>1, <1>3
<1>5. Size(ts, m) = Size(ts, m - 1) + w[ts[m]].size /\ w[ts[m]].size \in Nat
  BY <1>0, <1>3, SizeSteps DEF Writer
<1>6. Size(ts, j) \in Nat /\ Size(ts, m - 1) \in Nat
  BY <1>3, SizeSteps
<1>7. Size(ts, j) <= Size(ts, m)
  BY <1>4, <1>5, <1>6
<1> QED BY <1>7

(* They stay what they are while the writers in ts keep their batches. *)
LEMMA SizeKept ==
    ASSUME NEW ts \in Seq(Thread), \A i \in DOMAIN ts : w'[ts[i]].size = w[ts[i]].size
    PROVE  \A k : Sum([i \in DOMAIN ts |-> w'[ts[i]].size], k) = Size(ts, k)
<1>1. [i \in DOMAIN ts |-> w'[ts[i]].size] = [i \in DOMAIN ts |-> w[ts[i]].size]
  OBVIOUS
<1> QED BY <1>1 DEF Size

LEMMA TotalKept ==
    ASSUME TypeOK, group' = group, \A i \in DOMAIN group : w'[group[i]].size = w[group[i]].size
    PROVE  Total' = Total
<1>1. \A k : Sum([i \in DOMAIN group |-> w'[group[i]].size], k) = Size(group, k)
  BY SizeKept DEF TypeOK
<1> QED BY <1>1 DEF Total, Size

(* BuildBatchGroup takes the queue from its head on, up to some writer.    *)
(* Only a group whose head asks for sync takes writers that ask for it.    *)
LEMMA GroupBuilt ==
    ASSUME TypeOK, queue # << >>, NEW t \in Thread, t = queue[1]
    PROVE  \E n \in 1 .. Len(queue) :
             /\ BuildBatchGroup(t) = SubSeq(queue, 1, n)
             /\ \A i \in 1 .. n : w[queue[i]].sync => w[t].sync
<1> DEFINE max == IF w[t].size <= SmallBatch THEN w[t].size + SmallBatch ELSE MaxGroup
           fits(n) == \A i \in 2 .. n : /\ w[queue[i]].sync => w[t].sync
                                        /\ w[queue[i]].size > 0 => Size(queue, i) <= max
           Stops(n) == fits(n) /\ (n < Len(queue) => ~fits(n + 1))
           c == CHOOSE n \in DOMAIN queue : Stops(n)
<1>0. Len(queue) \in Nat /\ Len(queue) > 0 /\ DOMAIN queue = 1 .. Len(queue)
  BY SequenceFacts, EmptySeq DEF TypeOK
<1>1. BuildBatchGroup(t) = SubSeq(queue, 1, c)
  BY DEF BuildBatchGroup
<1>2. \E n \in DOMAIN queue : Stops(n)
  <2> HIDE DEF max
  <2>1. fits(1)
    OBVIOUS
  <2> DEFINE Full == {n \in 1 .. Len(queue) : ~fits(n)}
  <2>2. CASE Full = {}
    <3>1. fits(Len(queue))
      BY <1>0, <2>2
    <3> HIDE DEF fits
    <3> QED BY <1>0, <3>1
  <2>3. CASE Full # {}
    <3>0. Full \subseteq Nat
      BY <1>0
    <3> HIDE DEF fits
    <3>1. PICK m \in Full : \A n \in Full : m <= n
      <4> HIDE DEF Full
      <4> QED BY <2>3, <3>0, LeastNumber
    <3>2. m # 1
      BY <2>1
    <3>3. m - 1 \in 1 .. Len(queue) /\ ~(m <= m - 1) /\ (m - 1) + 1 = m
      BY <1>0, <3>1, <3>2
    <3>4. fits(m - 1)
      BY <3>1, <3>3
    <3> QED BY <1>0, <3>1, <3>3, <3>4
  <2> QED BY <2>2, <2>3
<1>3. c \in 1 .. Len(queue) /\ fits(c)
  <2> HIDE DEF fits
  <2> QED BY <1>0, <1>2
<1> HIDE DEF c
<1>4. \A i \in 1 .. c : w[queue[i]].sync => w[t].sync
  <2> SUFFICES ASSUME NEW i \in 1 .. c, w[queue[i]].sync PROVE w[t].sync
    OBVIOUS
  <2>1. CASE i = 1
    BY <2>1
  <2>2. CASE i # 1
    <3>1. i \in 2 .. c
      BY <1>0, <1>3, <2>2
    <3> QED BY <1>3, <3>1
  <2> QED BY <2>1, <2>2
<1> QED BY <1>1, <1>3, <1>4

-----------------------------------------------------------------------------
(* Steps in which nobody comes or goes and the head gets no further with   *)
(* its group.                                                              *)
Keeps == \A t \in Thread : /\ w'[t].size = w[t].size /\ w'[t].sync = w[t].sync
                           /\ w'[t].status = w[t].status
Settled == Writing \cup {"idle"}
Quiet ==
  /\ UNCHANGED <<queue, group, seq, log, synced, applied, called, syncFailed>>
  /\ Keeps
  /\ \A t \in Thread : w[t].pc \in Settled \/ w'[t].pc \in Settled => w'[t].pc = w[t].pc
  /\ bgError => bgError'

LEMMA QuietStep ==
    ASSUME Inv, Quiet, TypeOK', Members', HeadActs'
    PROVE  Inv'
<1>1. /\ queue' = queue /\ group' = group /\ seq' = seq /\ log' = log /\ synced' = synced
      /\ applied' = applied /\ called' = called /\ syncFailed' = syncFailed
  BY DEF Quiet
<1>2. \A t \in Thread : /\ w'[t].size = w[t].size /\ w'[t].sync = w[t].sync
                        /\ w'[t].status = w[t].status
  BY DEF Quiet, Keeps
<1>3. \A t \in Thread, p \in Settled : w'[t].pc = p <=> w[t].pc = p
  BY DEF Quiet, Settled
<1>4. \A t \in Thread : /\ w'[t].pc = "idle" <=> w[t].pc = "idle"
                        /\ w'[t].pc = "log" <=> w[t].pc = "log"
                        /\ w'[t].pc = "sync" <=> w[t].pc = "sync"
                        /\ w'[t].pc = "insert" <=> w[t].pc = "insert"
                        /\ w'[t].pc = "finish" <=> w[t].pc = "finish"
  BY <1>3 DEF Settled, Writing
<1>5. \A s, t : Earlier(s, t)' <=> Earlier(s, t)
  BY <1>1 DEF Earlier
<1>6. \A t \in Thread : Called(t)' <=> Called(t)
  BY <1>4 DEF Called
<1>7. Total' = Total
  <2>1. \A i \in DOMAIN group : group[i] \in Thread
    BY SequenceFacts DEF Inv, TypeOK
  <2> QED BY <1>1, <1>2, <2>1, TotalKept DEF Inv
<1>8. QueueInv'
  BY <1>1, <1>2, <1>4 DEF Inv, QueueInv, Distinct, StatusIsOk
<1>9. \A t \in Thread : w'[t].pc \in Writing <=> w[t].pc \in Writing
  BY <1>4 DEF Writing
<1>10. GroupInv'
  <2>1. \A i \in DOMAIN group : group[i] \in Thread
    BY SequenceFacts DEF Inv, TypeOK
  <2>2. GroupIsPrefix'
    BY <1>1, <1>2, <1>9, <2>1 DEF Inv, GroupInv, GroupIsPrefix
  <2>3. NoGroup'
    BY <1>1, <1>9 DEF Inv, GroupInv, NoGroup
  <2> QED BY <2>2, <2>3 DEF GroupInv
<1>11. CallsInv'
  BY <1>1, <1>5, <1>6 DEF Inv, CallsInv
<1>12. \A x \in applied : x[1] \in Thread
  BY DEF Inv, TypeOK
<1>13. AppliedInv'
  <2>1. \A x, y \in applied : Before(x, y)' <=> Before(x, y)
    BY <1>2, <1>5, <1>12 DEF Before
  <2>2. InOrder'
    BY <1>1, <2>1 DEF Inv, AppliedInv, InOrder
  <2>3. \A x \in applied : AppliedIsPast(x)' <=> AppliedIsPast(x)
    BY <1>1, <1>2, <1>12 DEF AppliedIsPast
  <2>4. \A x \in applied : AppliedIsNow(x)' <=> AppliedIsNow(x)
    BY <1>1, <1>2, <1>4, <1>7, <1>9, <1>12 DEF AppliedIsNow
  <2>5. Placed'
    BY <1>1, <1>2, <1>6, <1>12, <2>3, <2>4 DEF Inv, AppliedInv, Placed
  <2> QED BY <2>2, <2>5 DEF AppliedInv
<1>14. \A t : IsApplied(t)' <=> IsApplied(t)
  BY <1>1 DEF IsApplied
<1>15. LastRecord' = LastRecord
  BY <1>1 DEF LastRecord
<1>16. LogInv'
  <2>1. \A r \in DOMAIN log : Told(r)' <=> Told(r)
    BY <1>1, <1>2, <1>6, <1>14 DEF Told
  <2> QED BY <1>1, <1>15, <2>1 DEF Inv, DurableInv, LogInv
<1>17. Stage'
  <2>1. \A i \in DOMAIN group : group[i] \in Thread
    BY SequenceFacts DEF Inv, TypeOK
  <2> QED BY <1>1, <1>2, <1>4, <1>14, <1>15, <2>1 DEF Inv, DurableInv, Stage
<1>18. LeftIsDurable'
  <2>1. \A t \in Thread : Durable(t)' <=> Durable(t)
    BY <1>1, <1>2, <1>14 DEF Durable
  <2> QED BY <1>1, <1>2, <1>6, <2>1 DEF Inv, DurableInv, LeftIsDurable
<1>19. SyncInv'
  <2>1. bgError => bgError'
    BY DEF Quiet
  <2> QED BY <1>1, <1>2, <1>4, <2>1 DEF Inv, SyncInv
<1> QED BY <1>8, <1>10, <1>11, <1>13, <1>16, <1>17, <1>18, <1>19 DEF Inv, DurableInv

-----------------------------------------------------------------------------
(* One writer gets to another place. *)
Places == {"idle", "wait", "awake", "returned"} \cup Acting
LEMMA PcFacts ==
    ASSUME w \in [Thread -> Writer], NEW t \in Thread, NEW p \in Places, w' = Pc(t, p)
    PROVE  /\ w' \in [Thread -> Writer] /\ Keeps
           /\ \A s \in Thread : w'[s].pc = IF s = t THEN p ELSE w[s].pc
<1>1. \A s \in Thread : w'[s] = IF s = t THEN [w[s] EXCEPT !.pc = p] ELSE w[s]
  BY DEF Pc
<1>2. \A s \in Thread : w'[s] \in Writer
  BY <1>1 DEF Writer, Places
<1>3. w' = [s \in Thread |-> w'[s]]
  BY DEF Pc
<1>4. \A s \in Thread : w[s] \in Writer
  OBVIOUS
<1>5. Keeps
  BY <1>1, <1>4 DEF Keeps, Writer
<1>6. \A s \in Thread : w'[s].pc = IF s = t THEN p ELSE w[s].pc
  BY <1>1, <1>4 DEF Writer
<1> QED BY <1>2, <1>3, <1>5, <1>6

LEMMA WriterIs ==
    ASSUME NEW p \in Places, NEW n \in Nat, NEW b \in BOOLEAN, NEW d \in BOOLEAN,
           NEW st \in {"ok", "error", "syncerror"}
    PROVE  [pc |-> p, size |-> n, sync |-> b, delay |-> d, status |-> st] \in Writer
BY DEF Writer, Places

LEMMA WriterPut ==
    ASSUME NEW r \in Writer, NEW p \in Places, NEW d \in BOOLEAN, NEW st \in {"ok", "error", "syncerror"}
    PROVE  /\ [r EXCEPT !.pc = p, !.delay = d] \in Writer
           /\ [r EXCEPT !.pc = p, !.status = st] \in Writer
           /\ [r EXCEPT !.pc = p] \in Writer
BY DEF Writer, Places

(* What the type invariant says of everything but the writers. *)
StoreUnchanged == UNCHANGED <<queue, group, seq, log, synced, applied, called, syncFailed>>

LEMMA TypeKept ==
    ASSUME TypeOK, StoreUnchanged, w' \in [Thread -> Writer], mutex' \in Thread \cup {NULL},
           bgError' \in BOOLEAN
    PROVE  TypeOK'
BY DEF TypeOK, StoreUnchanged

LEMMA WakeStep == ASSUME Inv, NEW t \in Thread, Wake(t) PROVE Inv'
<1> USE DEF Inv
<1>1. /\ w[t].pc = "awake" /\ StoreUnchanged /\ bgError' = bgError
      /\ mutex' \in Thread \cup {NULL}
  BY DEF Wake, TypeOK, StoreUnchanged, store, history
<1>2. ASSUME NEW p \in {"returned", "room", "wait"}, w' = Pc(t, p),
             p = "returned" => t \notin ToSet(queue),
             p = "room" => queue # << >> /\ t = queue[1] /\ t \in ToSet(queue),
             p = "wait" => t \in ToSet(queue)
      PROVE  Inv'
  <2>1. /\ w' \in [Thread -> Writer] /\ Keeps
        /\ \A s \in Thread : w'[s].pc = IF s = t THEN p ELSE w[s].pc
    BY <1>2, PcFacts DEF TypeOK, Places, Acting
  <2>2. TypeOK'
    BY <1>1, <2>1, TypeKept DEF TypeOK
  <2>3. queue' = queue
    BY <1>1 DEF StoreUnchanged
  <2>4. Members'
    BY <1>2, <2>1, <2>3 DEF QueueInv, Members
  <2>5. HeadActs'
    BY <1>2, <2>1, <2>3 DEF QueueInv, HeadActs, Acting
  <2>6. Quiet
    BY <1>1, <1>2, <2>1 DEF Quiet, StoreUnchanged, Settled, Writing
  <2> QED BY <2>2, <2>4, <2>5, <2>6, QuietStep
<1>3. CASE w[t].status # "ok" /\ w' = Pc(t, "returned")
  <2>1. t \notin ToSet(queue)
    BY <1>1, <1>3 DEF QueueInv, StatusIsOk
  <2> QED BY <1>2, <1>3, <2>1
<1>4. CASE t \notin ToSet(queue) /\ w' = Pc(t, "returned")
  BY <1>2, <1>4
<1>5. CASE queue # << >> /\ Head(queue) = t /\ w' = Pc(t, "room")
  <2>1. Len(queue) \in Nat \ {0} /\ queue[1] = Head(queue)
    BY <1>5, EmptySeq, HeadTailProperties DEF TypeOK
  <2>2. t \in ToSet(queue)
    BY <1>5, <2>1, SequenceFacts DEF TypeOK
  <2> QED BY <1>2, <1>5, <2>1, <2>2
<1>6. CASE t \in ToSet(queue) /\ w' = Pc(t, "wait")
  BY <1>2, <1>6
<1> QED BY <1>3, <1>4, <1>5, <1>6 DEF Wake

(* The head sleeps, waits for the background thread, or is back from it. *)
LEMMA WaitStep ==
    ASSUME Inv, NEW t \in Thread, MakeRoomSleeps(t) \/ MakeRoomWaits(t) \/ BackToRoom(t)
    PROVE  Inv'
<1> USE DEF Inv
<1>1. /\ w[t].pc \in {"room", "sleep", "bgawake"} /\ StoreUnchanged /\ bgError' = bgError
      /\ mutex' \in Thread \cup {NULL}
  BY DEF MakeRoomSleeps, MakeRoomWaits, BackToRoom, TypeOK, StoreUnchanged, store, history
<1>2. PICK p \in {"room", "sleep", "bgwait"} :
        /\ w' \in [Thread -> Writer] /\ Keeps
        /\ \A s \in Thread : w'[s].pc = IF s = t THEN p ELSE w[s].pc
  <2>1. CASE MakeRoomSleeps(t)
    <3>1. /\ \A s \in Thread : w'[s] = IF s = t THEN [w[s] EXCEPT !.pc = "sleep", !.delay = FALSE] ELSE w[s]
          /\ w' = [s \in Thread |-> w'[s]]
      BY <2>1 DEF MakeRoomSleeps, TypeOK
    <3>2. \A s \in Thread : w[s] \in Writer
      BY DEF TypeOK
    <3>3. \A s \in Thread : w'[s] \in Writer
      <4>1. FALSE \in BOOLEAN /\ "sleep" \in Places
        BY DEF Places, Acting
      <4>2. [w[t] EXCEPT !.pc = "sleep", !.delay = FALSE] \in Writer
        <5>1. "ok" \in {"ok", "error", "syncerror"}
          OBVIOUS
        <5> QED BY <3>2, <4>1, <5>1, WriterPut, Zenon
      <4> QED BY <3>1, <3>2, <4>2
    <3>4. Keeps
      BY <3>1, <3>2 DEF Keeps, Writer
    <3>5. \A s \in Thread : w'[s].pc = IF s = t THEN "sleep" ELSE w[s].pc
      BY <3>1, <3>2 DEF Writer
    <3> QED BY <3>1, <3>3, <3>4, <3>5
  <2>2. CASE MakeRoomWaits(t)
    BY <2>2, PcFacts DEF MakeRoomWaits, TypeOK, Places, Acting
  <2>3. CASE BackToRoom(t)
    BY <2>3, PcFacts DEF BackToRoom, TypeOK, Places, Acting
  <2> QED BY <2>1, <2>2, <2>3
<1>3. TypeOK'
  BY <1>1, <1>2, TypeKept DEF TypeOK
<1>4. queue' = queue
  BY <1>1 DEF StoreUnchanged
<1>5. Members'
  BY <1>1, <1>2, <1>4 DEF QueueInv, Members
<1>6. HeadActs'
  BY <1>1, <1>2, <1>4 DEF QueueInv, HeadActs, Acting
<1>7. Quiet
  BY <1>1, <1>2 DEF Quiet, StoreUnchanged, Settled, Writing
<1> QED BY <1>3, <1>5, <1>6, <1>7, QuietStep

(* The background thread signals the head, or there is no step at all. *)
LEMMA BackgroundStep ==
    ASSUME Inv, CompactMemTable \/ CompactLevel0 \/ RecordBackgroundError \/ UNCHANGED vars
    PROVE  Inv'
<1> USE DEF Inv
<1>1. /\ StoreUnchanged /\ bgError' \in {bgError, TRUE} /\ mutex' \in Thread \cup {NULL}
      /\ SignalAll \/ w' = w
  BY DEF CompactMemTable, CompactLevel0, RecordBackgroundError, vars, TypeOK, StoreUnchanged, store, history
<1>2. \A s \in Thread : w[s] \in Writer
  BY DEF TypeOK
<1>3. \A s \in Thread : \/ w[s].pc = "bgwait" /\ w'[s] = [w[s] EXCEPT !.pc = "bgawake"]
                        \/ w'[s] = w[s]
  BY <1>1 DEF SignalAll
<1>4. w' = [s \in Thread |-> w'[s]]
  BY <1>1 DEF SignalAll, TypeOK
<1>5. \A s \in Thread : w'[s] \in Writer
  BY <1>2, <1>3 DEF Writer, Acting
<1>6. \A s \in Thread : w'[s].pc = w[s].pc \/ (w[s].pc = "bgwait" /\ w'[s].pc = "bgawake")
  BY <1>2, <1>3 DEF Writer
<1>7. Keeps
  BY <1>2, <1>3 DEF Keeps, Writer
<1>8. bgError' \in BOOLEAN /\ (bgError => bgError')
  <2>1. CASE bgError' = bgError
    BY <2>1 DEF TypeOK
  <2>2. CASE bgError' = TRUE
    BY <2>2
  <2> QED BY <1>1, <2>1, <2>2
<1>9. w' \in [Thread -> Writer]
  BY <1>4, <1>5
<1>10. TypeOK'
  BY <1>1, <1>8, <1>9, TypeKept
<1>11. queue' = queue
  BY <1>1 DEF StoreUnchanged
<1>12. Members'
  BY <1>6, <1>11 DEF QueueInv, Members
<1>13. HeadActs'
  BY <1>6, <1>11 DEF QueueInv, HeadActs, Acting
<1>14. Quiet
  BY <1>1, <1>6, <1>7, <1>8 DEF Quiet, StoreUnchanged, Settled, Writing
<1> QED BY <1>10, <1>12, <1>13, <1>14, QuietStep

-----------------------------------------------------------------------------
(* A writer joins the queue. *)
LEMMA GroupInQueue ==
    ASSUME Inv
    PROVE  \A i \in DOMAIN group : group[i] \in Thread /\ group[i] \in ToSet(queue)
<1>1. /\ Len(group) \in Nat /\ DOMAIN group = 1 .. Len(group)
      /\ \A i \in 1 .. Len(group) : group[i] \in Thread
  BY SequenceFacts DEF Inv, TypeOK
<1>2. Len(queue) \in Nat /\ DOMAIN queue = 1 .. Len(queue) /\ ToSet(queue) = {queue[i] : i \in 1 .. Len(queue)}
  BY SequenceFacts DEF Inv, TypeOK
<1>3. CASE \E t \in Thread : w[t].pc \in Writing
  BY <1>1, <1>2, <1>3 DEF Inv, GroupInv, GroupIsPrefix
<1>4. CASE \A t \in Thread : w[t].pc \notin Writing
  <2>1. group = << >>
    BY <1>4 DEF Inv, GroupInv, NoGroup
  <2>2. Len(group) = 0
    BY <2>1, EmptySeq
  <2> QED BY <1>1, <2>2
<1> QED BY <1>3, <1>4

LEMMA AppendFacts ==
    ASSUME NEW S, NEW s \in Seq(S), NEW e \in S
    PROVE  /\ Append(s, e) \in Seq(S) /\ Len(Append(s, e)) = Len(s) + 1
           /\ DOMAIN Append(s, e) = 1 .. (Len(s) + 1)
           /\ \A i \in 1 .. Len(s) : Append(s, e)[i] = s[i]
           /\ Append(s, e)[Len(s) + 1] = e
           /\ ToSet(Append(s, e)) = ToSet(s) \cup {e}
<1>1. Len(s) \in Nat /\ DOMAIN s = 1 .. Len(s) /\ ToSet(s) = {s[i] : i \in 1 .. Len(s)}
  BY SequenceFacts
<1>2. /\ Append(s, e) \in Seq(S) /\ Len(Append(s, e)) = Len(s) + 1
      /\ \A i \in 1 .. Len(s) : Append(s, e)[i] = s[i]
      /\ Append(s, e)[Len(s) + 1] = e
  BY AppendProperties
<1>3. /\ DOMAIN Append(s, e) = 1 .. (Len(s) + 1)
      /\ ToSet(Append(s, e)) = {Append(s, e)[i] : i \in 1 .. (Len(s) + 1)}
  BY <1>2, SequenceFacts
<1>4. \A i : i \in 1 .. (Len(s) + 1) <=> (i \in 1 .. Len(s) \/ i = Len(s) + 1)
  BY <1>1
<1> QED BY <1>1, <1>2, <1>3, <1>4

LEMMA CallStep ==
    ASSUME Inv, NEW t \in Thread, NEW size \in Sizes, NEW sync \in Syncs, Call(t, size, sync)
    PROVE  Inv'
<1> USE DEF Inv
<1>1. /\ w[t].pc = "idle" /\ queue' = Append(queue, t) /\ called' = Append(called, t)
      /\ group' = group /\ seq' = seq /\ log' = log /\ synced' = synced /\ applied' = applied
      /\ syncFailed' = syncFailed /\ bgError' = bgError
      /\ mutex' \in Thread \cup {NULL}
  BY DEF Call, store
<1>2. PICK p \in {"room", "wait"} :
        /\ w' = [w EXCEPT ![t] = [pc |-> p, size |-> size, sync |-> sync, delay |-> size > 0, status |-> "ok"]]
        /\ p = "room" => queue = << >>
  BY DEF Call
<1>3. \A s \in Thread : s # t => w'[s] = w[s]
  BY <1>2 DEF TypeOK
<1>4. w'[t].pc = p
  BY <1>2 DEF TypeOK
<1>5. w' \in [Thread -> Writer]
  <2>1. size \in Nat /\ sync \in BOOLEAN /\ (size > 0) \in BOOLEAN /\ "ok" \in {"ok", "error", "syncerror"}
    BY WriterAssumption
  <2>2. p \in Places
    BY DEF Places, Acting
  <2>3. [pc |-> p, size |-> size, sync |-> sync, delay |-> size > 0, status |-> "ok"] \in Writer
    BY <2>1, <2>2, WriterIs, Zenon
  <2> QED BY <1>2, <2>3 DEF TypeOK
<1>6. /\ Len(queue) \in Nat /\ DOMAIN queue = 1 .. Len(queue)
      /\ ToSet(queue) = {queue[i] : i \in 1 .. Len(queue)}
      /\ \A i \in 1 .. Len(queue) : queue[i] \in Thread
  BY SequenceFacts DEF TypeOK
<1>7. /\ queue' \in Seq(Thread) /\ Len(queue') = Len(queue) + 1
      /\ DOMAIN queue' = 1 .. (Len(queue) + 1)
      /\ \A i \in 1 .. Len(queue) : queue'[i] = queue[i]
      /\ queue'[Len(queue) + 1] = t
      /\ ToSet(queue') = ToSet(queue) \cup {t}
  BY <1>1, AppendFacts DEF TypeOK
<1>8. /\ Len(called) \in Nat /\ DOMAIN called = 1 .. Len(called)
      /\ ToSet(called) = {called[i] : i \in 1 .. Len(called)}
  BY SequenceFacts DEF TypeOK
<1>9. /\ called' \in Seq(Thread) /\ DOMAIN called' = 1 .. (Len(called) + 1)
      /\ \A i \in 1 .. Len(called) : called'[i] = called[i]
      /\ called'[Len(called) + 1] = t
      /\ ToSet(called') = ToSet(called) \cup {t}
  BY <1>1, AppendFacts DEF TypeOK
<1>10. t \notin ToSet(queue)
  BY <1>1 DEF QueueInv, Members
<1>11. \A i \in 1 .. (Len(queue) + 1) : i \in 1 .. Len(queue) \/ i = Len(queue) + 1
  BY <1>6
<1>12. TypeOK'
  BY <1>1, <1>5, <1>7, <1>9 DEF TypeOK
<1>13. QueueInv'
  <2>1. Distinct'
    BY <1>6, <1>7, <1>10, <1>11 DEF QueueInv, Distinct
  <2>2. Members'
    BY <1>3, <1>4, <1>7 DEF QueueInv, Members
  <2>3. HeadActs'
    <3> SUFFICES ASSUME NEW s \in Thread, w'[s].pc \in Acting PROVE queue' # << >> /\ s = queue'[1]
      BY DEF HeadActs
    <3>1. queue' # << >>
      BY <1>6, <1>7, EmptySeq
    <3>2. CASE s = t
      <4>1. queue = << >>
        BY <1>2, <1>4, <3>2 DEF Acting
      <4>2. Len(queue) = 0
        BY <4>1, EmptySeq
      <4> QED BY <1>7, <3>1, <3>2, <4>2
    <3>3. CASE s # t
      <4>1. queue # << >> /\ s = queue[1]
        BY <1>3, <3>3 DEF QueueInv, HeadActs
      <4>2. 1 \in 1 .. Len(queue)
        BY <1>6, <4>1, EmptySeq DEF TypeOK
      <4> QED BY <1>7, <3>1, <4>1, <4>2
    <3> QED BY <3>2, <3>3
  <2>4. w'[t].status = "ok"
    BY <1>2 DEF TypeOK
  <2>5. StatusIsOk'
    BY <1>3, <1>7, <2>4 DEF QueueInv, StatusIsOk
  <2> QED BY <2>1, <2>2, <2>3, <2>5 DEF QueueInv
<1>14. \A i \in DOMAIN group : group[i] \in Thread /\ group[i] # t
  BY <1>10, GroupInQueue
<1>15. \A s \in Thread : w'[s].pc \in Writing => s # t /\ w[s].pc \in Writing
  BY <1>3, <1>4 DEF Writing
<1>16. \A s \in Thread : w[s].pc \in Writing => w'[s] = w[s]
  BY <1>1, <1>3 DEF Writing
<1>17. GroupInv'
  <2>1. GroupIsPrefix'
    <3> SUFFICES ASSUME NEW s \in Thread, w'[s].pc \in Writing
                 PROVE  /\ Len(group) \in 1 .. Len(queue') /\ w'[s].size > 0
                        /\ \A i \in DOMAIN group : group[i] = queue'[i] /\ (w'[group[i]].sync => w'[s].sync)
      BY <1>1 DEF GroupIsPrefix
    <3>1. s # t /\ w[s].pc \in Writing /\ w'[s] = w[s]
      BY <1>3, <1>15
    <3>2. /\ Len(group) \in 1 .. Len(queue) /\ w[s].size > 0
          /\ \A i \in DOMAIN group : group[i] = queue[i] /\ (w[group[i]].sync => w[s].sync)
      BY <3>1 DEF GroupInv, GroupIsPrefix
    <3>3. \A i \in DOMAIN group : i \in 1 .. Len(queue)
      BY <1>6, <3>2, SequenceFacts DEF TypeOK
    <3>4. Len(group) \in 1 .. Len(queue')
      BY <1>6, <1>7, <3>2
    <3> QED BY <1>3, <1>7, <1>14, <3>1, <3>2, <3>3, <3>4
  <2>2. NoGroup'
    BY <1>1, <1>16 DEF GroupInv, NoGroup
  <2> QED BY <2>1, <2>2 DEF GroupInv
<1>18. \A r, s : Earlier(r, s) => Earlier(r, s)'
  BY <1>8, <1>9 DEF Earlier
<1>19. \A s \in ToSet(called) : Earlier(s, t)'
  <2> SUFFICES ASSUME NEW s, NEW a \in 1 .. Len(called), s = called[a] PROVE Earlier(s, t)'
    BY <1>8
  <2>1. a \in DOMAIN called' /\ Len(called) + 1 \in DOMAIN called' /\ a < Len(called) + 1
    BY <1>8, <1>9
  <2> QED BY <1>9, <2>1 DEF Earlier
<1>20. \A s \in Thread : s # t => (Called(s)' <=> Called(s))
  BY <1>3 DEF Called
<1>21. \A s \in ToSet(queue) : s \in Thread /\ Called(s)
  BY <1>6 DEF QueueInv, Members, Called
<1>22. CallsInv'
  <2>1. \A s \in Thread : Called(s)' => s \in ToSet(called')
    BY <1>9, <1>20 DEF CallsInv
  <2>2. ASSUME NEW i \in DOMAIN queue', NEW j \in DOMAIN queue', i < j
        PROVE  Earlier(queue[i], queue[j])'
    <3>1. i \in 1 .. Len(queue)
      BY <1>6, <1>7, <2>2
    <3>2. CASE j \in 1 .. Len(queue)
      BY <1>6, <1>7, <1>18, <2>2, <3>1, <3>2 DEF CallsInv
    <3>3. CASE j = Len(queue) + 1
      <4>1. queue[i] \in ToSet(called)
        BY <1>6, <1>21, <3>1 DEF CallsInv
      <4> QED BY <1>7, <1>19, <3>1, <3>3, <4>1
    <3> QED BY <1>7, <1>11, <3>2, <3>3
  <2>3. ASSUME NEW s \in Thread, NEW u \in Thread, Called(s)', s \notin ToSet(queue'), u \in ToSet(queue')
        PROVE  Earlier(s, u)'
    <3>1. s # t /\ Called(s) /\ s \notin ToSet(queue)
      BY <1>7, <1>20, <2>3
    <3>2. CASE u \in ToSet(queue)
      BY <1>18, <3>1, <3>2 DEF CallsInv
    <3>3. CASE u = t
      BY <1>19, <3>1, <3>3 DEF CallsInv
    <3> QED BY <1>7, <2>3, <3>2, <3>3
  <2> QED BY <2>1, <2>2, <2>3 DEF CallsInv
<1>23. Total' = Total
  BY <1>1, <1>3, <1>14, TotalKept
<1>24. \A x \in applied : x[1] \in Thread /\ x[1] # t
  BY <1>1 DEF TypeOK, AppliedInv, Placed, Called
<1>25. AppliedInv'
  <2>1. \A x, y \in applied : Before(x, y) => Before(x, y)'
    BY <1>3, <1>18, <1>24 DEF Before
  <2>2. InOrder'
    BY <1>1, <2>1 DEF AppliedInv, InOrder
  <2>3. \A x \in applied : AppliedIsPast(x) => AppliedIsPast(x)'
    BY <1>1, <1>3, <1>7, <1>24 DEF AppliedIsPast
  <2>4. \A x \in applied : AppliedIsNow(x) => AppliedIsNow(x)'
    BY <1>1, <1>3, <1>15, <1>23, <1>24 DEF AppliedIsNow
  <2>5. Placed'
    BY <1>1, <1>3, <1>20, <1>24, <2>3, <2>4 DEF AppliedInv, Placed
  <2> QED BY <2>2, <2>5 DEF AppliedInv
<1>26. \A s : IsApplied(s)' <=> IsApplied(s)
  BY <1>1 DEF IsApplied
<1>27. LastRecord' = LastRecord
  BY <1>1 DEF LastRecord
<1>28. LogInv'
  <2>1. \A r \in DOMAIN log : Told(r) => Told(r)'
    BY <1>1, <1>3, <1>7, <1>20, <1>26 DEF Told, Called
  <2> QED BY <1>1, <1>27, <2>1 DEF DurableInv, LogInv
<1>29. Stage'
  <2> SUFFICES ASSUME NEW s \in Thread, w'[s].pc \in Writing
               PROVE  /\ w'[s].pc \in {"sync", "insert"} \/ (w'[s].pc = "finish" /\ w'[s].status = "ok")
                           => log # << >> /\ log[Len(log)] = LastRecord
                      /\ w'[s].pc = "insert" \/ (w'[s].pc = "finish" /\ w'[s].status = "ok")
                           => (w'[s].sync => synced = Len(log))
                      /\ w'[s].pc = "finish" /\ w'[s].status = "ok"
                           => \A i \in DOMAIN group : w'[group[i]].size > 0 => IsApplied(group[i])
                      /\ w'[s].pc \in {"log", "sync", "insert"} => w'[s].status = "ok"
    BY <1>1, <1>26, <1>27 DEF Stage, Writing
  <2>1. s # t /\ w'[s] = w[s]
    BY <1>3, <1>15
  <2> QED BY <1>3, <1>14, <2>1 DEF DurableInv, Stage
<1>30. LeftIsDurable'
  <2>1. \A s \in Thread : s # t /\ Durable(s) => Durable(s)'
    BY <1>1, <1>3, <1>26 DEF Durable
  <2> QED BY <1>3, <1>7, <1>20, <2>1 DEF DurableInv, LeftIsDurable
<1>31. SyncInv'
  BY <1>1, <1>3, <1>4 DEF SyncInv
<1> QED BY <1>12, <1>13, <1>17, <1>22, <1>25, <1>28, <1>29, <1>30, <1>31 DEF DurableInv

-----------------------------------------------------------------------------
(* The head gets on with its group. *)
Moves(t, p, st) ==
  /\ w[t].pc \in {"log", "sync", "insert"} /\ p \in Writing /\ (st = "ok" \/ p = "finish")
  /\ UNCHANGED <<queue, group, seq, called>>
  /\ w' \in [Thread -> Writer]
  /\ \A s \in Thread : /\ w'[s].size = w[s].size /\ w'[s].sync = w[s].sync
                       /\ s # t => w'[s] = w[s]
  /\ w'[t].pc = p /\ w'[t].status = st

LEMMA PcMoves ==
    ASSUME Inv, NEW t \in Thread, NEW p \in Writing, w[t].pc \in {"log", "sync", "insert"},
           w' = Pc(t, p), UNCHANGED <<queue, group, seq, called>>
    PROVE  Moves(t, p, "ok")
<1>1. p \in Places
  BY DEF Places, Acting, Writing
<1>2. /\ w' \in [Thread -> Writer] /\ Keeps
      /\ \A s \in Thread : w'[s].pc = IF s = t THEN p ELSE w[s].pc
  BY <1>1, PcFacts DEF Inv, TypeOK
<1>3. w[t].status = "ok"
  BY DEF Inv, DurableInv, Stage
<1>4. \A s \in Thread : s # t => w'[s] = w[s]
  BY DEF Pc, Inv, TypeOK
<1> QED BY <1>2, <1>3, <1>4 DEF Moves, Keeps

LEMMA FailMoves ==
    ASSUME Inv, NEW t \in Thread, NEW st \in {"error", "syncerror"}, w[t].pc \in {"log", "sync"},
           w' = [w EXCEPT ![t].pc = "finish", ![t].status = st], UNCHANGED <<queue, group, seq, called>>
    PROVE  Moves(t, "finish", st)
<1>1. \A s \in Thread : w[s] \in Writer
  BY DEF Inv, TypeOK
<1>2. /\ \A s \in Thread : w'[s] = IF s = t THEN [w[s] EXCEPT !.pc = "finish", !.status = st] ELSE w[s]
      /\ w' = [s \in Thread |-> w'[s]]
  BY DEF Inv, TypeOK
<1>3. \A s \in Thread : w'[s] \in Writer
  BY <1>1, <1>2 DEF Writer, Acting
<1>4. \A s \in Thread : w'[s].size = w[s].size /\ w'[s].sync = w[s].sync
  <2>1. [w[t] EXCEPT !.pc = "finish", !.status = st].size = w[t].size
    BY <1>1 DEF Writer
  <2>2. [w[t] EXCEPT !.pc = "finish", !.status = st].sync = w[t].sync
    BY <1>1 DEF Writer
  <2> QED BY <1>2, <2>1, <2>2, Zenon
<1>5. w'[t].pc = "finish" /\ w'[t].status = st
  BY <1>1, <1>2 DEF Writer
<1>6. \A s \in Thread : s # t => w'[s] = w[s]
  BY <1>2
<1>7. w' \in [Thread -> Writer]
  BY <1>2, <1>3
<1> QED BY <1>4, <1>5, <1>6, <1>7 DEF Moves, Writing

LEMMA HeadMoves ==
    ASSUME Inv, NEW t \in Thread, NEW p, NEW st, Moves(t, p, st)
    PROVE  /\ queue # << >> /\ t = queue[1] /\ group # << >>
           /\ \A s \in Thread : s # t => w[s].pc \notin Acting /\ w'[s].pc \notin Acting
           /\ QueueInv' /\ GroupInv' /\ CallsInv'
           /\ Total' = Total /\ LastRecord' = LastRecord
           /\ \A s \in Thread : Called(s)' <=> Called(s)
           /\ \A r, s : Earlier(r, s)' <=> Earlier(r, s)
<1> USE DEF Inv
<1>1. /\ queue' = queue /\ group' = group /\ seq' = seq /\ called' = called
      /\ w[t].pc \in {"log", "sync", "insert"} /\ p \in Writing /\ (st = "ok" \/ p = "finish")
      /\ \A s \in Thread : /\ w'[s].size = w[s].size /\ w'[s].sync = w[s].sync
                           /\ s # t => w'[s] = w[s]
      /\ w'[t].pc = p /\ w'[t].status = st
  BY DEF Moves
<1>2. queue # << >> /\ t = queue[1]
  BY <1>1 DEF QueueInv, HeadActs, Acting
<1>3. \A s \in Thread : s # t => w[s].pc \notin Acting /\ w'[s].pc \notin Acting
  BY <1>1, <1>2 DEF QueueInv, HeadActs
<1>4. /\ Len(group) \in 1 .. Len(queue) /\ w[t].size > 0
      /\ \A i \in DOMAIN group : group[i] = queue[i] /\ (w[group[i]].sync => w[t].sync)
  BY <1>1 DEF GroupInv, GroupIsPrefix, Writing
<1>5. group # << >>
  <2>1. Len(group) # 0
    BY <1>4
  <2> QED BY <2>1, EmptySeq
<1>6. \A i \in DOMAIN group : group[i] \in Thread
  BY GroupInQueue
<1>7. t \in ToSet(queue)
  <2>1. Len(queue) \in Nat \ {0}
    BY <1>2, EmptySeq DEF TypeOK
  <2> QED BY <1>2, <2>1, SequenceFacts DEF TypeOK
<1>8. QueueInv'
  <2>1. Distinct'
    BY <1>1 DEF QueueInv, Distinct
  <2>2. Members'
    BY <1>1, <1>7 DEF QueueInv, Members, Writing
  <2>3. HeadActs'
    BY <1>1, <1>2, <1>3 DEF HeadActs
  <2>4. StatusIsOk'
    BY <1>1 DEF QueueInv, StatusIsOk
  <2> QED BY <2>1, <2>2, <2>3, <2>4 DEF QueueInv
<1>9. GroupInv'
  <2>1. \A s \in Thread : w'[s].pc \in Writing => s = t
    BY <1>3 DEF Writing, Acting
  <2>2. GroupIsPrefix'
    BY <1>1, <1>4, <1>6, <2>1 DEF GroupIsPrefix
  <2>3. NoGroup'
    BY <1>1 DEF NoGroup
  <2> QED BY <2>2, <2>3 DEF GroupInv
<1>10. \A s \in Thread : Called(s)' <=> Called(s)
  BY <1>1 DEF Called, Writing
<1>11. \A r, s : Earlier(r, s)' <=> Earlier(r, s)
  BY <1>1 DEF Earlier
<1>12. CallsInv'
  BY <1>1, <1>10, <1>11 DEF CallsInv
<1>13. Total' = Total
  BY <1>1, <1>6, TotalKept
<1>14. LastRecord' = LastRecord
  BY <1>1 DEF LastRecord
<1> QED BY <1>2, <1>3, <1>5, <1>8, <1>9, <1>10, <1>11, <1>12, <1>13, <1>14

(* Nothing of the group has been applied yet; and until it is, nothing     *)
(* changes for the batches that were applied before.                       *)
LEMMA OldApplied ==
    ASSUME Inv, NEW t \in Thread, NEW p, NEW st, Moves(t, p, st)
    PROVE  /\ \A x \in applied : AppliedIsPast(x) /\ AppliedIsPast(x)'
           /\ \A x, y \in applied : Before(x, y)' <=> Before(x, y)
           /\ \A x \in applied : w'[x[1]].size > 0 /\ Called(x[1])'
           /\ applied' = applied => AppliedInv'
<1> USE DEF Inv
<1>1. /\ queue' = queue /\ seq' = seq /\ w[t].pc \in {"log", "sync", "insert"}
      /\ \A s \in Thread : w'[s].size = w[s].size
  BY DEF Moves
<1>2. \A x \in applied : x[1] \in Thread
  BY DEF TypeOK
<1>3. \A x \in applied : AppliedIsPast(x)
  BY <1>1 DEF AppliedInv, Placed, AppliedIsNow, Writing
<1>4. \A x \in applied : AppliedIsPast(x)'
  BY <1>1, <1>2, <1>3 DEF AppliedIsPast
<1>5. \A x, y \in applied : Before(x, y)' <=> Before(x, y)
  <2>1. \A r, s : Earlier(r, s)' <=> Earlier(r, s)
    BY HeadMoves
  <2> QED BY <1>1, <1>2, <2>1 DEF Before
<1>6. \A x \in applied : w'[x[1]].size > 0 /\ Called(x[1])'
  <2>1. \A s \in Thread : Called(s)' <=> Called(s)
    BY HeadMoves
  <2> QED BY <1>1, <1>2, <2>1 DEF AppliedInv, Placed
<1>7. ASSUME applied' = applied PROVE AppliedInv'
  BY <1>4, <1>5, <1>6, <1>7 DEF AppliedInv, InOrder, Placed
<1> QED BY <1>3, <1>4, <1>5, <1>6, <1>7

(* What a writer was promised stays true while logs and memtables grow. *)
LEMMA PromisesKept ==
    ASSUME Inv, NEW t \in Thread, NEW p, NEW st, Moves(t, p, st),
           applied \subseteq applied', DOMAIN log \subseteq DOMAIN log',
           \A r \in DOMAIN log : log'[r] = log[r], synced \in Nat, synced' \in Nat, synced <= synced'
    PROVE  LeftIsDurable' /\ \A r \in DOMAIN log : Told(r) => Told(r)'
<1> USE DEF Inv
<1>1. queue' = queue /\ \A s \in Thread : s # t => w'[s] = w[s]
  BY DEF Moves
<1>2. t \in ToSet(queue)
  <2>1. queue # << >> /\ t = queue[1]
    BY HeadMoves
  <2>2. Len(queue) \in Nat \ {0}
    BY <2>1, EmptySeq DEF TypeOK
  <2> QED BY <2>1, <2>2, SequenceFacts DEF TypeOK
<1>3. \A s : IsApplied(s) => IsApplied(s)'
  BY DEF IsApplied
<1>4. \A s \in Thread : Called(s)' <=> Called(s)
  BY HeadMoves
<1>5. \A r \in DOMAIN log : Told(r) => Told(r)'
  BY <1>1, <1>2, <1>3, <1>4 DEF Told
<1>6. ASSUME NEW s \in Thread, s # t, Durable(s) PROVE Durable(s)'
  <2>1. PICK r \in DOMAIN log : s \in ToSet(log[r].group) /\ (w[s].sync => r <= synced)
    BY <1>6 DEF Durable
  <2>2. DOMAIN log = 1 .. Len(log) /\ Len(log) \in Nat
    BY SequenceFacts DEF TypeOK
  <2>3. r \in DOMAIN log' /\ log'[r] = log[r] /\ r \in Nat
    BY <2>1, <2>2
  <2>4. w'[s].sync => r <= synced'
    BY <1>1, <1>6, <2>1, <2>3
  <2>5. IsApplied(s)'
    BY <1>3, <1>6 DEF Durable
  <2> QED BY <2>1, <2>3, <2>4, <2>5 DEF Durable
<1>7. LeftIsDurable'
  <2> SUFFICES ASSUME NEW s \in Thread, Called(s)', s \notin ToSet(queue)', w'[s].status = "ok", w'[s].size > 0
               PROVE  Durable(s)'
    BY DEF LeftIsDurable
  <2>1. s # t /\ Called(s) /\ s \notin ToSet(queue) /\ w'[s] = w[s]
    BY <1>1, <1>2, <1>4
  <2> QED BY <1>6, <2>1 DEF DurableInv, LeftIsDurable
<1> QED BY <1>5, <1>7

LEMMA LogFacts ==
    ASSUME TypeOK
    PROVE  /\ LastRecord \in [group : Seq(Thread), base : Nat]
           /\ Len(log) \in Nat /\ DOMAIN log = 1 .. Len(log) /\ synced \in Nat /\ synced <= Len(log)
<1>1. Len(log) \in Nat /\ DOMAIN log = 1 .. Len(log)
  BY SequenceFacts DEF TypeOK
<1>2. seq + 1 \in Nat
  BY DEF TypeOK
<1> QED BY <1>1, <1>2 DEF TypeOK, LastRecord

LEMMA AddRecordStep == ASSUME Inv, NEW t \in Thread, AddRecord(t) PROVE Inv'
<1> USE DEF Inv
<1>1. PICK p \in {"sync", "insert"} : w' = Pc(t, p) /\ (p = "insert" => ~w[t].sync)
  BY DEF AddRecord
<1>2. /\ w[t].pc = "log" /\ log' = Append(log, LastRecord) /\ mutex' = mutex /\ bgError' = bgError
      /\ queue' = queue /\ group' = group /\ seq' = seq /\ called' = called
      /\ synced' = synced /\ applied' = applied /\ syncFailed' = syncFailed
  BY DEF AddRecord, LastRecord, history
<1>3. Moves(t, p, "ok")
  BY <1>1, <1>2, PcMoves DEF Writing
<1>4. /\ w' \in [Thread -> Writer] /\ w'[t].pc = p /\ w'[t].status = "ok" /\ w'[t].sync = w[t].sync
      /\ \A s \in Thread : s # t => w'[s] = w[s]
  BY <1>3 DEF Moves
<1>5. /\ \A s \in Thread : s # t => w'[s].pc \notin Acting
      /\ QueueInv' /\ GroupInv' /\ CallsInv' /\ LastRecord' = LastRecord /\ group # << >>
  BY <1>3, HeadMoves
<1>6. AppliedInv'
  BY <1>2, <1>3, OldApplied
<1>7. /\ LastRecord \in [group : Seq(Thread), base : Nat]
      /\ Len(log) \in Nat /\ DOMAIN log = 1 .. Len(log) /\ synced \in Nat /\ synced <= Len(log)
  BY LogFacts
<1>8. /\ log' \in Seq([group : Seq(Thread), base : Nat]) /\ Len(log') = Len(log) + 1
      /\ DOMAIN log' = 1 .. (Len(log) + 1)
      /\ \A i \in 1 .. Len(log) : log'[i] = log[i]
      /\ log'[Len(log) + 1] = LastRecord
  BY <1>2, <1>7, AppendFacts DEF TypeOK
<1>9. synced' \in 0 .. Len(log')
  BY <1>2, <1>7, <1>8
<1>10. TypeOK'
  BY <1>2, <1>4, <1>8, <1>9 DEF TypeOK
<1>11. LeftIsDurable' /\ \A r \in DOMAIN log : Told(r) => Told(r)'
  <2>1. DOMAIN log \subseteq DOMAIN log' /\ synced <= synced' /\ synced' \in Nat
    BY <1>2, <1>7, <1>8
  <2> QED BY <1>2, <1>3, <1>7, <1>8, <2>1, PromisesKept
<1>12. LogInv'
  <2> SUFFICES ASSUME NEW r \in DOMAIN log'
               PROVE  Told(r)' \/ (group' # << >> /\ log'[r] = LastRecord')
    BY DEF LogInv
  <2>1. r \in DOMAIN log \/ r = Len(log) + 1
    BY <1>7, <1>8
  <2> QED BY <1>2, <1>5, <1>7, <1>8, <1>11, <2>1 DEF DurableInv, LogInv
<1>13. Stage'
  <2>1. log' # << >> /\ log'[Len(log')] = LastRecord
    <3>1. Len(log') # 0
      BY <1>7, <1>8
    <3> QED BY <1>8, <3>1, EmptySeq
  <2> QED BY <1>1, <1>4, <1>5, <2>1 DEF Stage, Acting
<1>14. SyncInv'
  BY <1>2 DEF SyncInv
<1> QED BY <1>5, <1>6, <1>10, <1>11, <1>12, <1>13, <1>14 DEF DurableInv

(* The three steps that leave log and memtable as they are. *)
LEMMA NothingNew ==
    ASSUME Inv, NEW t \in Thread, NEW p, NEW st, Moves(t, p, st), UNCHANGED <<log, applied>>,
           synced' \in 0 .. Len(log), synced <= synced'
    PROVE  /\ LeftIsDurable' /\ LogInv' /\ AppliedInv' /\ QueueInv' /\ GroupInv' /\ CallsInv'
           /\ LastRecord' = LastRecord
           /\ mutex' = mutex /\ bgError' = bgError /\ syncFailed' \in BOOLEAN => TypeOK'
<1> USE DEF Inv
<1>1. log' = log /\ applied' = applied
  OBVIOUS
<1>2. Len(log) \in Nat /\ synced \in Nat /\ synced' \in Nat
  BY LogFacts
<1>3. LeftIsDurable' /\ \A r \in DOMAIN log : Told(r) => Told(r)'
  BY <1>1, <1>2, PromisesKept
<1>4. LastRecord' = LastRecord /\ QueueInv' /\ GroupInv' /\ CallsInv'
  BY HeadMoves
<1>5. group' = group
  BY DEF Moves
<1>6. LogInv'
  BY <1>1, <1>3, <1>4, <1>5 DEF DurableInv, LogInv
<1>7. AppliedInv'
  BY <1>1, OldApplied
<1>8. ASSUME mutex' = mutex, bgError' = bgError, syncFailed' \in BOOLEAN PROVE TypeOK'
  <2>1. w' \in [Thread -> Writer] /\ queue' = queue /\ seq' = seq /\ called' = called
    BY DEF Moves
  <2> QED BY <1>1, <1>5, <1>8, <2>1 DEF TypeOK
<1> QED BY <1>3, <1>4, <1>6, <1>7, <1>8

LEMMA AddRecordFailsStep == ASSUME Inv, NEW t \in Thread, AddRecordFails(t) PROVE Inv'
<1> USE DEF Inv
<1>1. /\ w[t].pc = "log" /\ w' = [w EXCEPT ![t].pc = "finish", ![t].status = "error"]
      /\ queue' = queue /\ group' = group /\ seq' = seq /\ called' = called /\ log' = log
      /\ synced' = synced /\ applied' = applied /\ syncFailed' = syncFailed
      /\ mutex' = mutex /\ bgError' = bgError
  BY DEF AddRecordFails, store, history
<1>2. Moves(t, "finish", "error")
  BY <1>1, FailMoves
<1>3. w'[t].pc = "finish" /\ w'[t].status = "error" /\ \A s \in Thread : s # t => w'[s] = w[s]
  BY <1>2 DEF Moves
<1>4. synced' \in 0 .. Len(log) /\ synced <= synced'
  BY <1>1, LogFacts DEF TypeOK
<1>5. syncFailed' \in BOOLEAN
  BY <1>1 DEF TypeOK
<1>6. /\ LeftIsDurable' /\ LogInv' /\ AppliedInv' /\ QueueInv' /\ GroupInv' /\ CallsInv' /\ TypeOK'
  BY <1>1, <1>2, <1>4, <1>5, NothingNew
<1>7. \A s \in Thread : s # t => w'[s].pc \notin Acting
  BY <1>2, HeadMoves
<1>8. Stage'
  BY <1>3, <1>7 DEF Stage, Acting
<1>9. SyncInv'
  BY <1>1 DEF SyncInv
<1> QED BY <1>6, <1>8, <1>9 DEF DurableInv

LEMMA SyncStep == ASSUME Inv, NEW t \in Thread, Sync(t) PROVE Inv'
<1> USE DEF Inv
<1>1. /\ w[t].pc = "sync" /\ w' = Pc(t, "insert")
      /\ queue' = queue /\ group' = group /\ seq' = seq /\ called' = called /\ log' = log
      /\ synced' = Len(log) /\ applied' = applied /\ syncFailed' = syncFailed
      /\ mutex' = mutex /\ bgError' = bgError
  BY DEF Sync, history
<1>2. Moves(t, "insert", "ok")
  BY <1>1, PcMoves DEF Writing
<1>3. w'[t].pc = "insert" /\ w'[t].status = "ok" /\ \A s \in Thread : s # t => w'[s] = w[s]
  BY <1>2 DEF Moves
<1>4. synced' \in 0 .. Len(log) /\ synced <= synced'
  BY <1>1, LogFacts
<1>5. syncFailed' \in BOOLEAN
  BY <1>1 DEF TypeOK
<1>6. /\ LeftIsDurable' /\ LogInv' /\ AppliedInv' /\ QueueInv' /\ GroupInv' /\ CallsInv' /\ TypeOK'
      /\ LastRecord' = LastRecord
  BY <1>1, <1>2, <1>4, <1>5, NothingNew
<1>7. \A s \in Thread : s # t => w'[s].pc \notin Acting
  BY <1>2, HeadMoves
<1>8. log # << >> /\ log[Len(log)] = LastRecord
  BY <1>1 DEF DurableInv, Stage
<1>9. Stage'
  BY <1>1, <1>3, <1>6, <1>7, <1>8 DEF Stage, Acting
<1>10. SyncInv'
  BY <1>1 DEF SyncInv
<1> QED BY <1>6, <1>9, <1>10 DEF DurableInv

LEMMA SyncFailsStep == ASSUME Inv, NEW t \in Thread, SyncFails(t) PROVE Inv'
<1> USE DEF Inv
<1>1. /\ w[t].pc = "sync" /\ w' = [w EXCEPT ![t].pc = "finish", ![t].status = "syncerror"]
      /\ queue' = queue /\ group' = group /\ seq' = seq /\ called' = called /\ log' = log
      /\ synced' = synced /\ applied' = applied /\ mutex' = mutex /\ bgError' = bgError
  BY DEF SyncFails, history
<1>2. Moves(t, "finish", "syncerror")
  BY <1>1, FailMoves
<1>3. w'[t].pc = "finish" /\ w'[t].status = "syncerror" /\ \A s \in Thread : s # t => w'[s] = w[s]
  BY <1>2 DEF Moves
<1>4. synced' \in 0 .. Len(log) /\ synced <= synced'
  BY <1>1, LogFacts DEF TypeOK
<1>5. syncFailed' \in BOOLEAN
  BY DEF SyncFails
<1>6. /\ LeftIsDurable' /\ LogInv' /\ AppliedInv' /\ QueueInv' /\ GroupInv' /\ CallsInv' /\ TypeOK'
  BY <1>1, <1>2, <1>4, <1>5, NothingNew
<1>7. \A s \in Thread : s # t => w'[s].pc \notin Acting
  BY <1>2, HeadMoves
<1>8. Stage'
  BY <1>3, <1>7 DEF Stage, Acting
<1>9. SyncInv'
  BY <1>3, <1>7 DEF SyncInv, Acting
<1> QED BY <1>6, <1>8, <1>9 DEF DurableInv

-----------------------------------------------------------------------------
(* The batches of the group take the numbers after the last sequence       *)
(* number, each as many as it is long.                                     *)
LEMMA Numbers ==
    ASSUME Inv, NEW i \in DOMAIN group
    PROVE  /\ Base(i) \in Nat /\ seq + 1 <= Base(i)
           /\ Base(i) + w[group[i]].size <= seq + 1 + Total
           /\ \A j \in DOMAIN group : i < j => Base(i) + w[group[i]].size <= Base(j)
<1>0. /\ w \in [Thread -> Writer] /\ group \in Seq(Thread) /\ seq \in Nat
  BY DEF Inv, TypeOK
<1>1. Len(group) \in Nat /\ DOMAIN group = 1 .. Len(group) /\ group[i] \in Thread
  BY <1>0, SequenceFacts
<1>2. i - 1 \in 0 .. Len(group) /\ i \in 0 .. Len(group) /\ Len(group) \in 0 .. Len(group) /\ i <= Len(group)
  BY <1>1
<1>3. Size(group, i - 1) \in Nat /\ Size(group, i) = Size(group, i - 1) + w[group[i]].size
  BY <1>0, <1>1, <1>2, SizeSteps
<1>4. w[group[i]].size \in Nat
  BY <1>0, <1>1 DEF Writer
<1>5. Total \in Nat /\ Size(group, i) <= Total
  BY <1>0, <1>2, SizeSteps, SizeGrows DEF Total
<1>6. ASSUME NEW j \in DOMAIN group, i < j PROVE Base(i) + w[group[i]].size <= Base(j)
  <2>1. j - 1 \in 0 .. Len(group) /\ i <= j - 1
    BY <1>1, <1>6
  <2>2. Size(group, i) <= Size(group, j - 1) /\ Size(group, j - 1) \in Nat
    BY <1>0, <1>2, <2>1, SizeSteps, SizeGrows
  <2> QED BY <1>0, <1>3, <1>4, <2>2 DEF Base
<1> QED BY <1>0, <1>3, <1>4, <1>5, <1>6 DEF Base

LEMMA InsertIntoStep == ASSUME Inv, NEW t \in Thread, InsertInto(t) PROVE Inv'
<1> USE DEF Inv
<1> DEFINE put == {i \in DOMAIN group : w[group[i]].size > 0}
           new == {<<group[i], Base(i)>> : i \in put}
<1>1. /\ w[t].pc = "insert" /\ w' = Pc(t, "finish")
      /\ queue' = queue /\ group' = group /\ seq' = seq /\ called' = called /\ log' = log
      /\ synced' = synced /\ syncFailed' = syncFailed /\ mutex' = mutex /\ bgError' = bgError
      /\ applied' = applied \cup new
  BY DEF InsertInto, history
<1>2. Moves(t, "finish", "ok")
  BY <1>1, PcMoves DEF Writing
<1>3. /\ w' \in [Thread -> Writer] /\ w'[t].pc = "finish" /\ w'[t].status = "ok"
      /\ \A s \in Thread : s # t => w'[s] = w[s]
      /\ \A s \in Thread : w'[s].size = w[s].size /\ w'[s].sync = w[s].sync
  BY <1>2 DEF Moves
<1>4. /\ \A s \in Thread : s # t => w'[s].pc \notin Acting
      /\ QueueInv' /\ GroupInv' /\ CallsInv' /\ LastRecord' = LastRecord /\ Total' = Total
      /\ \A s \in Thread : Called(s)' <=> Called(s)
      /\ \A r, s : Earlier(r, s)' <=> Earlier(r, s)
  BY <1>2, HeadMoves
<1>5. /\ \A x \in applied : AppliedIsPast(x) /\ AppliedIsPast(x)'
      /\ \A x, y \in applied : Before(x, y)' <=> Before(x, y)
      /\ \A x \in applied : w'[x[1]].size > 0 /\ Called(x[1])'
  BY <1>2, OldApplied
<1>6. \A i \in DOMAIN group : group[i] \in Thread /\ group[i] \in ToSet(queue)
  BY GroupInQueue
<1>7. /\ Len(group) \in Nat /\ DOMAIN group = 1 .. Len(group)
      /\ ToSet(group) = {group[i] : i \in 1 .. Len(group)}
  BY SequenceFacts DEF TypeOK
<1>8. new \subseteq Thread \X Nat
  BY <1>6, Numbers
<1>9. TypeOK'
  BY <1>1, <1>3, <1>8 DEF TypeOK
<1>10. \A x \in new : \E i \in DOMAIN group : /\ x[1] = group[i] /\ x[2] = Base(i) /\ w[group[i]].size > 0
                                              /\ x = <<group[i], Base(i)>>
  OBVIOUS
<1>11. \A i \in DOMAIN group : w[group[i]].size > 0 => \E x \in new : x[1] = group[i]
  <2> SUFFICES ASSUME NEW i \in DOMAIN group, w[group[i]].size > 0 PROVE \E x \in new : x[1] = group[i]
    OBVIOUS
  <2>1. <<group[i], Base(i)>> \in new
    OBVIOUS
  <2> QED BY <2>1
<1> HIDE DEF new
<1>12. InOrder'
  <2> SUFFICES ASSUME NEW x \in applied', NEW y \in applied'
               PROVE  x = y \/ Before(x, y)' \/ Before(y, x)'
    BY DEF InOrder
  <2>1. CASE x \in applied /\ y \in applied
    BY <1>5, <2>1 DEF AppliedInv, InOrder
  <2>2. ASSUME NEW a \in applied, NEW b \in new PROVE Before(a, b)'
    <3>1. PICK i \in DOMAIN group : b[1] = group[i] /\ b[2] = Base(i)
      BY <1>10
    <3>2. a[1] \in Thread /\ a[2] \in Nat /\ a[1] \notin ToSet(queue) /\ Called(a[1]) /\ a[2] + w[a[1]].size <= seq + 1
      BY <1>5 DEF AppliedIsPast, TypeOK, AppliedInv, Placed
    <3>3. Earlier(a[1], b[1])
      BY <1>6, <3>1, <3>2 DEF CallsInv
    <3>4. Base(i) \in Nat /\ seq + 1 <= Base(i) /\ seq \in Nat
      BY Numbers DEF TypeOK
    <3>5. w[a[1]].size \in Nat
      BY <3>2 DEF TypeOK, Writer
    <3>6. a[2] + w[a[1]].size <= b[2]
      BY <3>1, <3>2, <3>4, <3>5
    <3> QED BY <1>3, <1>4, <3>2, <3>3, <3>6 DEF Before
  <2>3. CASE x \in new /\ y \in new
    <3>1. PICK i \in DOMAIN group : x[1] = group[i] /\ x[2] = Base(i) /\ x = <<group[i], Base(i)>>
      BY <1>10, <2>3
    <3>2. PICK j \in DOMAIN group : y[1] = group[j] /\ y[2] = Base(j) /\ y = <<group[j], Base(j)>>
      BY <1>10, <2>3
    <3>3. ASSUME NEW a \in DOMAIN group, NEW b \in DOMAIN group, a < b
          PROVE  /\ Earlier(group[a], group[b])'
                 /\ Base(a) + w'[group[a]].size <= Base(b)
      <4>1. /\ Len(group) \in 1 .. Len(queue) /\ Len(queue) \in Nat /\ DOMAIN queue = 1 .. Len(queue)
            /\ group[a] = queue[a] /\ group[b] = queue[b]
        BY <1>1, SequenceFacts DEF GroupInv, GroupIsPrefix, Writing, TypeOK
      <4>2. a \in DOMAIN queue /\ b \in DOMAIN queue
        BY <1>7, <4>1
      <4>3. Earlier(group[a], group[b])
        BY <3>3, <4>1, <4>2 DEF CallsInv
      <4>4. Earlier(group[a], group[b])'
        BY <1>1, <1>4, <4>3
      <4> QED BY <1>3, <1>6, <3>3, <4>4, Numbers
    <3>4. CASE i = j
      BY <3>1, <3>2, <3>4
    <3>5. CASE i < j
      BY <1>1, <3>1, <3>2, <3>3, <3>5 DEF Before
    <3>6. CASE j < i
      BY <1>1, <3>1, <3>2, <3>3, <3>6 DEF Before
    <3> QED BY <1>7, <3>4, <3>5, <3>6
  <2> QED BY <1>1, <2>1, <2>2, <2>3
<1>13. Placed'
  <2> SUFFICES ASSUME NEW x \in applied'
               PROVE  w'[x[1]].size > 0 /\ Called(x[1])' /\ (AppliedIsPast(x)' \/ AppliedIsNow(x)')
    BY DEF Placed
  <2>1. CASE x \in applied
    BY <1>5, <2>1
  <2>2. CASE x \in new
    <3>1. PICK i \in DOMAIN group : x[1] = group[i] /\ x[2] = Base(i) /\ w[group[i]].size > 0
      BY <1>10, <2>2
    <3>2. /\ Base(i) \in Nat /\ seq + 1 <= Base(i)
          /\ Base(i) + w[group[i]].size <= seq + 1 + Total
      BY Numbers
    <3>3. group[i] \in Thread /\ group[i] \in ToSet(queue) /\ group[i] \in ToSet(group)
      BY <1>6, <1>7
    <3>4. Called(group[i])
      BY <3>3 DEF QueueInv, Members, Called
    <3>5. w'[x[1]].size > 0 /\ Called(x[1])'
      BY <1>3, <1>4, <3>1, <3>3, <3>4
    <3>6. \A s \in Thread : w'[s].pc \in Writing => w'[s].pc = "finish"
      BY <1>3, <1>4 DEF Writing, Acting
    <3>7. AppliedIsNow(x)'
      BY <1>1, <1>3, <1>4, <3>1, <3>2, <3>3, <3>6 DEF AppliedIsNow
    <3> QED BY <3>5, <3>7
  <2> QED BY <1>1, <2>1, <2>2
<1>14. LeftIsDurable' /\ \A r \in DOMAIN log : Told(r) => Told(r)'
  <2>1. synced \in Nat /\ synced' \in Nat /\ synced <= synced' /\ applied \subseteq applied'
    BY <1>1, LogFacts
  <2> QED BY <1>1, <1>2, <2>1, PromisesKept
<1>15. LogInv'
  BY <1>1, <1>4, <1>14 DEF DurableInv, LogInv
<1>16. Stage'
  <2>1. log # << >> /\ log[Len(log)] = LastRecord /\ (w[t].sync => synced = Len(log))
    BY <1>1 DEF DurableInv, Stage
  <2>2. \A i \in DOMAIN group : w'[group[i]].size > 0 => IsApplied(group[i])'
    BY <1>1, <1>3, <1>6, <1>11 DEF IsApplied
  <2> QED BY <1>1, <1>3, <1>4, <2>1, <2>2 DEF Stage, Acting
<1>17. SyncInv'
  BY <1>1 DEF SyncInv
<1> QED BY <1>4, <1>9, <1>12, <1>13, <1>14, <1>15, <1>16, <1>17 DEF DurableInv, AppliedInv

-----------------------------------------------------------------------------
(* The first n writers leave the queue. *)
Popped(n) == {queue[i] : i \in 1 .. n}

LEMMA PopFacts ==
    ASSUME Inv, NEW h \in Thread, w[h].pc \in Acting, NEW n \in 1 .. Len(queue),
           NEW st \in {"ok", "error"}, NEW ns, PopGroup(queue[n], st, ns)
    PROVE  /\ queue' = SubSeq(queue, n + 1, Len(queue)) /\ seq' = ns /\ mutex' = NULL
           /\ w' \in [Thread -> Writer]
           /\ \A s \in Thread : /\ w'[s].size = w[s].size /\ w'[s].sync = w[s].sync
                                /\ w'[s].pc \notin Acting
           /\ \A s \in Popped(n) : w'[s].pc \in {"returned", "awake"} /\ w'[s].status = st
           /\ \A s \in Thread : s \notin Popped(n) => w'[s].status = w[s].status
           /\ \A s \in Thread : s \notin Popped(n) =>
                w'[s].pc = w[s].pc \/ (s \in ToSet(queue) /\ w'[s].pc = "awake")
<1> USE DEF Inv
<1>1. /\ Len(queue) \in Nat /\ DOMAIN queue = 1 .. Len(queue)
      /\ ToSet(queue) = {queue[i] : i \in 1 .. Len(queue)}
      /\ \A i \in 1 .. Len(queue) : queue[i] \in Thread
  BY SequenceFacts DEF TypeOK
<1>2. queue # << >> /\ h = queue[1]
  BY DEF QueueInv, HeadActs
<1>3. Head(queue) = queue[1] /\ 1 \in 1 .. n
  BY <1>1, <1>2, HeadTailProperties DEF TypeOK
<1>4. (CHOOSE i \in DOMAIN queue : queue[i] = queue[n]) = n
  <2>1. n \in DOMAIN queue /\ \A i \in DOMAIN queue : queue[i] = queue[n] => i = n
    BY <1>1 DEF QueueInv, Distinct
  <2> QED BY <2>1
<1>5. ToSet(SubSeq(queue, 1, n)) = Popped(n)
  <2>1. \A i \in 1 .. n : queue[i] \in Thread
    BY <1>1
  <2>2. n \in Int /\ 1 \in Int /\ 1 <= n
    BY <1>1
  <2>3. /\ SubSeq(queue, 1, n) \in Seq(Thread) /\ Len(SubSeq(queue, 1, n)) = n
        /\ \A i \in 1 .. n : SubSeq(queue, 1, n)[i] = queue[i]
    BY <2>1, <2>2, SubSeqProperties
  <2>4. ToSet(SubSeq(queue, 1, n)) = {SubSeq(queue, 1, n)[i] : i \in 1 .. n}
    BY <2>3, SequenceFacts
  <2> QED BY <2>3, <2>4 DEF Popped
<1> DEFINE rest == SubSeq(queue, n + 1, Len(queue))
<1>6. /\ queue' = rest /\ seq' = ns /\ mutex' = NULL
      /\ w' = [s \in Thread |->
                 IF s = Head(queue) THEN [w[s] EXCEPT !.pc = "returned", !.status = st]
                 ELSE IF s \in Popped(n) THEN [w[s] EXCEPT !.pc = "awake", !.status = st]
                 ELSE IF rest # << >> /\ s = Head(rest) THEN [w[s] EXCEPT !.pc = "awake"]
                 ELSE w[s]]
  BY <1>4, <1>5 DEF PopGroup
<1>7. queue[1] \in Popped(n)
  BY <1>3 DEF Popped
<1>8. rest # << >> => Head(rest) \in ToSet(queue)
  <2> SUFFICES ASSUME rest # << >> PROVE Head(rest) \in ToSet(queue)
    OBVIOUS
  <2>1. n + 1 <= Len(queue)
    <3> SUFFICES ASSUME Len(queue) < n + 1 PROVE FALSE
      BY <1>1
    <3>1. rest = << >>
      BY <1>1, SubSeqEmpty
    <3> QED BY <3>1
  <2>2. n + 1 \in 1 .. Len(queue) /\ Len(queue) \in (n + 1) .. Len(queue)
    BY <1>1, <2>1
  <2>3. Head(rest) = queue[n + 1]
    BY <2>2, HeadTailOfSubSeq DEF TypeOK
  <2> QED BY <1>1, <2>2, <2>3
<1> HIDE DEF rest
<1>9. \A s \in Thread : w[s] \in Writer
  BY DEF TypeOK
<1>10. \A s \in Thread : s \in Popped(n) =>
         \E p \in {"returned", "awake"} : w'[s] = [w[s] EXCEPT !.pc = p, !.status = st]
  BY <1>3, <1>6
<1>11. \A s \in Thread : s \notin Popped(n) =>
         w'[s] = w[s] \/ (s \in ToSet(queue) /\ w'[s] = [w[s] EXCEPT !.pc = "awake"])
  BY <1>3, <1>6, <1>7, <1>8
<1>12. \A s \in Thread : w'[s] \in Writer
  <2> SUFFICES ASSUME NEW s \in Thread PROVE w'[s] \in Writer
    OBVIOUS
  <2>1. CASE s \in Popped(n)
    BY <1>9, <1>10, <2>1 DEF Writer
  <2>2. CASE s \notin Popped(n)
    BY <1>9, <1>11, <2>2 DEF Writer
  <2> QED BY <2>1, <2>2
<1>13. ASSUME NEW s \in Thread PROVE w'[s].size = w[s].size /\ w'[s].sync = w[s].sync
  <2>1. CASE s \in Popped(n)
    <3>1. PICK p \in {"returned", "awake"} : w'[s] = [w[s] EXCEPT !.pc = p, !.status = st]
      BY <1>10, <2>1
    <3>2. w'[s].size = w[s].size
      BY <1>9, <3>1 DEF Writer
    <3>3. w'[s].sync = w[s].sync
      BY <1>9, <3>1 DEF Writer
    <3> QED BY <3>2, <3>3
  <2>2. CASE w'[s] = w[s]
    BY <2>2, Zenon
  <2>3. CASE w'[s] = [w[s] EXCEPT !.pc = "awake"]
    <3>2. w'[s].size = w[s].size
      BY <1>9, <2>3 DEF Writer
    <3>3. w'[s].sync = w[s].sync
      BY <1>9, <2>3 DEF Writer
    <3> QED BY <3>2, <3>3
  <2> QED BY <1>11, <2>1, <2>2, <2>3
<1>14. \A s \in Popped(n) : s \in Thread
  BY <1>1 DEF Popped
<1>15. \A s \in Popped(n) : w'[s].pc \in {"returned", "awake"} /\ w'[s].status = st
  <2> SUFFICES ASSUME NEW s \in Popped(n) PROVE w'[s].pc \in {"returned", "awake"} /\ w'[s].status = st
    OBVIOUS
  <2>1. PICK p \in {"returned", "awake"} : w'[s] = [w[s] EXCEPT !.pc = p, !.status = st]
    BY <1>10, <1>14
  <2> QED BY <1>9, <1>14, <2>1 DEF Writer
<1>16. \A s \in Thread : s \notin Popped(n) =>
         /\ w'[s].status = w[s].status
         /\ w'[s].pc = w[s].pc \/ (s \in ToSet(queue) /\ w'[s].pc = "awake")
  <2> SUFFICES ASSUME NEW s \in Thread, s \notin Popped(n)
               PROVE  /\ w'[s].status = w[s].status
                      /\ w'[s].pc = w[s].pc \/ (s \in ToSet(queue) /\ w'[s].pc = "awake")
    OBVIOUS
  <2>1. CASE w'[s] = w[s]
    BY <2>1
  <2>2. CASE s \in ToSet(queue) /\ w'[s] = [w[s] EXCEPT !.pc = "awake"]
    BY <1>9, <2>2 DEF Writer
  <2> QED BY <1>11, <2>1, <2>2
<1>17. \A s \in Thread : w'[s].pc \notin Acting
  <2> SUFFICES ASSUME NEW s \in Thread PROVE w'[s].pc \notin Acting
    OBVIOUS
  <2>1. CASE s \in Popped(n)
    BY <1>15, <2>1 DEF Acting
  <2>2. CASE s \notin Popped(n)
    <3>1. w[s].pc \notin Acting
      BY <1>2, <1>7, <2>2 DEF QueueInv, HeadActs
    <3> QED BY <1>16, <2>2, <3>1 DEF Acting
  <2> QED BY <2>1, <2>2
<1>18. w' \in [Thread -> Writer]
  BY <1>6, <1>12
<1> QED BY <1>6, <1>13, <1>15, <1>16, <1>17, <1>18 DEF rest

(* What a step needs to pop the first n writers and keep the invariant:    *)
(* if they are told success, they got it; and no record of the log and     *)
(* nothing in the memtable is that of a group still being written.         *)
LEMMA PopStep ==
    ASSUME Inv, NEW h \in Thread, w[h].pc \in Acting, NEW n \in 1 .. Len(queue),
           NEW st \in {"ok", "error"}, NEW ns \in Nat, PopGroup(queue[n], st, ns),
           group' = << >>, UNCHANGED <<log, synced, applied, called, syncFailed>>,
           bgError' \in BOOLEAN, syncFailed => bgError', seq <= ns,
           \A s \in Popped(n) : st = "ok" /\ w[s].size > 0 => Durable(s),
           \A r \in DOMAIN log : Told(r) \/ ToSet(log[r].group) \subseteq Popped(n),
           \A x \in applied : AppliedIsPast(x) \/ (x[1] \in Popped(n) /\ x[2] + w[x[1]].size <= ns + 1)
    PROVE  Inv'
<1> USE DEF Inv
<1>1. /\ Len(queue) \in Nat /\ DOMAIN queue = 1 .. Len(queue)
      /\ ToSet(queue) = {queue[i] : i \in 1 .. Len(queue)}
      /\ \A i \in 1 .. Len(queue) : queue[i] \in Thread
  BY SequenceFacts DEF TypeOK
<1>2. /\ queue' = SubSeq(queue, n + 1, Len(queue)) /\ seq' = ns /\ mutex' = NULL
      /\ w' \in [Thread -> Writer]
      /\ \A s \in Thread : w'[s].size = w[s].size /\ w'[s].sync = w[s].sync /\ w'[s].pc \notin Acting
      /\ \A s \in Popped(n) : w'[s].pc \in {"returned", "awake"} /\ w'[s].status = st
      /\ \A s \in Thread : s \notin Popped(n) => w'[s].status = w[s].status
      /\ \A s \in Thread : s \notin Popped(n) =>
           w'[s].pc = w[s].pc \/ (s \in ToSet(queue) /\ w'[s].pc = "awake")
  BY PopFacts
<1>3. log' = log /\ synced' = synced /\ applied' = applied /\ called' = called /\ syncFailed' = syncFailed
  OBVIOUS
<1>4. /\ queue' \in Seq(Thread) /\ Len(queue') = Len(queue) - n
      /\ \A i \in 1 .. (Len(queue) - n) : queue'[i] = queue[n + i]
  <2>1. \A i \in (n + 1) .. Len(queue) : queue[i] \in Thread
    BY <1>1
  <2>2. n + 1 \in Int /\ Len(queue) \in Int
    BY <1>1
  <2>3. /\ queue' \in Seq(Thread)
        /\ Len(queue') = IF n + 1 <= Len(queue) THEN Len(queue) - (n + 1) + 1 ELSE 0
        /\ \A i \in 1 .. (Len(queue) - (n + 1) + 1) : queue'[i] = queue[(n + 1) + i - 1]
    BY <1>2, <2>1, <2>2, SubSeqProperties
  <2>4. Len(queue') = Len(queue) - n
    BY <1>1, <2>3
  <2>5. \A i \in 1 .. (Len(queue) - n) : i \in 1 .. (Len(queue) - (n + 1) + 1) /\ (n + 1) + i - 1 = n + i
    BY <1>1
  <2> QED BY <2>3, <2>4, <2>5
<1>5. DOMAIN queue' = 1 .. (Len(queue) - n) /\ ToSet(queue') = {queue'[i] : i \in 1 .. (Len(queue) - n)}
  BY <1>4, SequenceFacts
<1>6. \A i \in 1 .. (Len(queue) - n) : n + i \in 1 .. Len(queue) /\ n + i \notin 1 .. n
  BY <1>1
<1>7. \A i \in 1 .. Len(queue) : i \in 1 .. n \/ (i - n \in 1 .. (Len(queue) - n) /\ n + (i - n) = i)
  BY <1>1
<1>8. \A i \in 1 .. n : i \in 1 .. Len(queue)
  BY <1>1
<1>9. Popped(n) \subseteq ToSet(queue) /\ Popped(n) \subseteq Thread
  BY <1>1, <1>8 DEF Popped
<1>10. \A s : s \in ToSet(queue') <=> s \in ToSet(queue) /\ s \notin Popped(n)
  <2>1. ASSUME NEW i \in 1 .. (Len(queue) - n) PROVE queue'[i] \in ToSet(queue) /\ queue'[i] \notin Popped(n)
    <3>1. n + i \in 1 .. Len(queue) /\ n + i \notin 1 .. n /\ queue'[i] = queue[n + i]
      BY <1>4, <1>6
    <3>2. \A j \in 1 .. n : queue[j] # queue[n + i]
      BY <1>1, <1>8, <3>1 DEF QueueInv, Distinct
    <3> QED BY <1>1, <3>1, <3>2 DEF Popped
  <2>2. ASSUME NEW i \in 1 .. Len(queue), queue[i] \notin Popped(n) PROVE queue[i] \in ToSet(queue')
    <3>1. i \notin 1 .. n
      BY <2>2 DEF Popped
    <3>2. i - n \in 1 .. (Len(queue) - n) /\ n + (i - n) = i
      BY <1>7, <3>1
    <3>3. queue'[i - n] = queue[n + (i - n)]
      BY <1>4, <3>2
    <3>4. queue'[i - n] = queue[i]
      BY <3>2, <3>3
    <3> QED BY <1>5, <3>2, <3>4
  <2> QED BY <1>1, <1>5, <2>1, <2>2
<1>11. TypeOK'
  BY <1>2, <1>3, <1>4, EmptySeq DEF TypeOK
<1>12. \A s \in Thread : Called(s)' <=> Called(s)
  BY <1>2, <1>9 DEF Called, QueueInv, Members
<1>13. QueueInv'
  <2>1. Distinct'
    BY <1>1, <1>4, <1>5, <1>6 DEF QueueInv, Distinct
  <2>2. Members'
    <3> SUFFICES ASSUME NEW s \in Thread
                 PROVE  IF s \in ToSet(queue') THEN w'[s].pc \notin {"idle", "returned"}
                                               ELSE w'[s].pc \in {"idle", "awake", "returned"}
      BY DEF Members
    <3>1. CASE s \in Popped(n)
      BY <1>2, <1>10, <3>1
    <3>2. CASE s \notin Popped(n)
      BY <1>2, <1>10, <3>2 DEF QueueInv, Members
    <3> QED BY <3>1, <3>2
  <2>3. HeadActs'
    BY <1>2 DEF HeadActs
  <2>4. StatusIsOk'
    <3> SUFFICES ASSUME NEW s \in Thread, s \in ToSet(queue') PROVE w'[s].status = "ok"
      BY DEF StatusIsOk
    <3>1. s \in ToSet(queue) /\ s \notin Popped(n) /\ w'[s].status = w[s].status
      BY <1>2, <1>10
    <3>2. queue[1] \in Popped(n)
      BY <1>1 DEF Popped
    <3>3. w[s].pc # "finish"
      BY <3>1, <3>2 DEF QueueInv, HeadActs, Acting
    <3> QED BY <3>1, <3>3 DEF QueueInv, StatusIsOk
  <2> QED BY <2>1, <2>2, <2>3, <2>4 DEF QueueInv
<1>14. GroupInv'
  BY <1>2 DEF GroupInv, GroupIsPrefix, NoGroup, Acting, Writing
<1>15. \A r, s : Earlier(r, s)' <=> Earlier(r, s)
  BY <1>3 DEF Earlier
<1>16. CallsInv'
  <2>1. \A s \in Thread : Called(s)' => s \in ToSet(called')
    BY <1>3, <1>12 DEF CallsInv
  <2>2. ASSUME NEW i \in DOMAIN queue', NEW j \in DOMAIN queue', i < j
        PROVE  Earlier(queue[i], queue[j])'
    <3>1. n + i \in DOMAIN queue /\ n + j \in DOMAIN queue /\ n + i < n + j
      BY <1>1, <1>5, <1>6, <2>2
    <3>2. Earlier(queue[n + i], queue[n + j])
      BY <3>1 DEF CallsInv
    <3>3. queue'[i] = queue[n + i] /\ queue'[j] = queue[n + j]
      BY <1>4, <1>5
    <3>4. \A a, b : a = queue[n + i] /\ b = queue[n + j] => Earlier(a, b)'
      BY <1>15, <3>2
    <3> QED BY <3>3, <3>4
  <2>3. ASSUME NEW s \in Thread, NEW u \in Thread, Called(s)', s \notin ToSet(queue'), u \in ToSet(queue')
        PROVE  Earlier(s, u)'
    <3>1. u \in ToSet(queue) /\ u \notin Popped(n) /\ Called(s)
      BY <1>10, <1>12, <2>3
    <3>2. CASE s \notin ToSet(queue)
      BY <1>15, <3>1, <3>2 DEF CallsInv
    <3>3. CASE s \in Popped(n)
      <4>1. PICK i \in 1 .. n : s = queue[i]
        BY <3>3 DEF Popped
      <4>2. PICK j \in 1 .. Len(queue) : u = queue[j]
        BY <1>1, <3>1
      <4>3. j \notin 1 .. n
        BY <3>1, <4>2 DEF Popped
      <4>4. i \in DOMAIN queue /\ j \in DOMAIN queue /\ i < j
        BY <1>1, <4>3
      <4>5. Earlier(s, u)
        BY <4>1, <4>2, <4>4 DEF CallsInv
      <4> QED BY <1>15, <4>5
    <3> QED BY <1>10, <2>3, <3>2, <3>3
  <2> QED BY <2>1, <2>2, <2>3 DEF CallsInv
<1>17. \A x \in applied : x[1] \in Thread /\ x[2] \in Nat
  BY DEF TypeOK
<1>18. AppliedInv'
  <2>1. \A x, y \in applied : Before(x, y)' <=> Before(x, y)
    BY <1>2, <1>15, <1>17 DEF Before
  <2>2. InOrder'
    BY <1>3, <2>1 DEF AppliedInv, InOrder
  <2>3. ASSUME NEW x \in applied PROVE AppliedIsPast(x)'
    <3>1. w[x[1]].size \in Nat /\ seq \in Nat
      BY <1>17 DEF TypeOK, Writer
    <3>2. x[2] + w[x[1]].size <= ns + 1
      BY <1>17, <3>1 DEF AppliedIsPast
    <3>3. x[1] \notin ToSet(queue')
      BY <1>10 DEF AppliedIsPast
    <3> QED BY <1>2, <1>17, <3>2, <3>3 DEF AppliedIsPast
  <2>4. Placed'
    BY <1>2, <1>3, <1>12, <1>17, <2>3 DEF AppliedInv, Placed
  <2> QED BY <2>2, <2>4 DEF AppliedInv
<1>19. \A s : IsApplied(s)' <=> IsApplied(s)
  BY <1>3 DEF IsApplied
<1>20. \A s \in Thread : Durable(s) => Durable(s)'
  BY <1>2, <1>3, <1>19 DEF Durable
<1>21. LogInv'
  <2> SUFFICES ASSUME NEW r \in DOMAIN log PROVE Told(r)'
    BY <1>3 DEF LogInv
  <2> SUFFICES ASSUME NEW s \in ToSet(log[r].group)
               PROVE  /\ s \in Thread /\ Called(s)' /\ s \notin ToSet(queue')
                      /\ w'[s].status = "ok" /\ w'[s].size > 0 => IsApplied(s)'
    BY <1>3 DEF Told
  <2>1. CASE Told(r)
    <3>1. /\ s \in Thread /\ Called(s) /\ s \notin ToSet(queue)
          /\ w[s].status = "ok" /\ w[s].size > 0 => IsApplied(s)
      BY <2>1 DEF Told
    <3>2. s \notin Popped(n)
      BY <1>9, <3>1
    <3> QED BY <1>2, <1>10, <1>12, <1>19, <3>1, <3>2
  <2>2. CASE ToSet(log[r].group) \subseteq Popped(n)
    <3>1. s \in Popped(n) /\ s \in Thread /\ s \in ToSet(queue)
      BY <1>9, <2>2
    <3>2. Called(s)
      BY <3>1 DEF QueueInv, Members, Called
    <3>3. w'[s].status = "ok" /\ w'[s].size > 0 => Durable(s)
      BY <1>2, <3>1
    <3> QED BY <1>10, <1>12, <1>19, <3>1, <3>2, <3>3 DEF Durable
  <2> QED BY <2>1, <2>2
<1>22. Stage'
  BY <1>2 DEF Stage, Acting
<1>23. LeftIsDurable'
  <2> SUFFICES ASSUME NEW s \in Thread, Called(s)', s \notin ToSet(queue'), w'[s].status = "ok", w'[s].size > 0
               PROVE  Durable(s)'
    BY DEF LeftIsDurable
  <2>1. CASE s \in Popped(n)
    BY <1>2, <1>20, <2>1
  <2>2. CASE s \notin Popped(n)
    BY <1>2, <1>10, <1>12, <1>20, <2>2 DEF DurableInv, LeftIsDurable
  <2> QED BY <2>1, <2>2
<1>24. SyncInv'
  BY <1>2, <1>3 DEF SyncInv, Acting
<1> QED BY <1>11, <1>13, <1>14, <1>16, <1>18, <1>21, <1>22, <1>23, <1>24 DEF DurableInv

-----------------------------------------------------------------------------
(* While the head makes room, no group is being written. *)
LEMMA InRoom ==
    ASSUME Inv, NEW t \in Thread, w[t].pc = "room"
    PROVE  /\ queue # << >> /\ t = queue[1] /\ 1 \in 1 .. Len(queue) /\ Popped(1) = {t}
           /\ group = << >> /\ w[t].status = "ok"
           /\ \A s \in Thread : s # t => w[s].pc \notin Acting
           /\ \A r \in DOMAIN log : Told(r)
           /\ \A x \in applied : AppliedIsPast(x)
           /\ syncFailed => bgError
<1> USE DEF Inv
<1>1. queue # << >> /\ t = queue[1]
  BY DEF QueueInv, HeadActs, Acting
<1>2. /\ Len(queue) \in Nat \ {0} /\ ToSet(queue) = {queue[i] : i \in 1 .. Len(queue)}
  BY <1>1, EmptySeq, SequenceFacts DEF TypeOK
<1>3. \A s \in Thread : s # t => w[s].pc \notin Acting
  BY <1>1 DEF QueueInv, HeadActs
<1>4. \A s \in Thread : w[s].pc \notin Writing
  BY <1>3 DEF Writing, Acting
<1>5. group = << >>
  BY <1>4 DEF GroupInv, NoGroup
<1>6. t \in ToSet(queue) /\ 1 \in 1 .. Len(queue)
  BY <1>1, <1>2
<1>7. w[t].status = "ok"
  BY <1>6 DEF QueueInv, StatusIsOk
<1>8. Popped(1) = {t}
  <2>1. \A i : i \in 1 .. 1 <=> i = 1
    OBVIOUS
  <2> QED BY <1>1, <2>1 DEF Popped
<1>9. \A x \in applied : AppliedIsPast(x)
  <2>1. ToSet(group) = {}
    <3>1. Len(group) = 0 /\ ToSet(group) = {group[i] : i \in 1 .. Len(group)}
      <4>1. group \in Seq(Thread)
        BY DEF TypeOK
      <4>2. Len(group) = 0
        BY <1>5, EmptySeq
      <4>3. ToSet(group) = {group[i] : i \in 1 .. Len(group)}
        BY <4>1, SequenceFacts
      <4> QED BY <4>2, <4>3
    <3>2. \A s \in ToSet(group) : FALSE
      BY <3>1
    <3> QED BY <3>2
  <2> QED BY <2>1 DEF AppliedInv, Placed, AppliedIsNow
<1>10. \A r \in DOMAIN log : Told(r)
  BY <1>5 DEF DurableInv, LogInv
<1>11. syncFailed => bgError
  BY <1>4 DEF SyncInv, Writing
<1> QED BY <1>1, <1>3, <1>5, <1>6, <1>7, <1>8, <1>9, <1>10, <1>11

LEMMA MakeRoomFailsStep == ASSUME Inv, NEW t \in Thread, MakeRoomFails(t) PROVE Inv'
<1>1. /\ w[t].pc = "room" /\ PopGroup(t, "error", seq) /\ group' = group /\ bgError' = bgError
      /\ log' = log /\ synced' = synced /\ applied' = applied /\ called' = called /\ syncFailed' = syncFailed
  BY DEF MakeRoomFails, history
<1>2. /\ t = queue[1] /\ 1 \in 1 .. Len(queue) /\ group = << >>
      /\ \A r \in DOMAIN log : Told(r)
      /\ \A x \in applied : AppliedIsPast(x)
      /\ syncFailed => bgError
  BY <1>1, InRoom
<1>3. PopGroup(queue[1], "error", seq) /\ group' = << >> /\ w[t].pc \in Acting
  BY <1>1, <1>2 DEF Acting
<1>4. seq \in Nat /\ seq <= seq /\ bgError' \in BOOLEAN /\ (syncFailed => bgError')
  BY <1>1, <1>2 DEF Inv, TypeOK
<1> QED BY <1>1, <1>2, <1>3, <1>4, PopStep

(* With room, a NULL batch is popped and a group of any other is begun. *)
LEMMA RoomFoundStep ==
    ASSUME Inv, NEW t \in Thread, w[t].pc = "room", ~bgError, RoomFound(t),
           UNCHANGED <<bgError, log, synced, applied, called, syncFailed>>
    PROVE  Inv'
<1> USE DEF Inv
<1>1. /\ log' = log /\ synced' = synced /\ applied' = applied /\ called' = called
      /\ syncFailed' = syncFailed /\ bgError' = bgError
  OBVIOUS
<1>2. /\ queue # << >> /\ t = queue[1] /\ 1 \in 1 .. Len(queue) /\ Popped(1) = {t}
      /\ group = << >> /\ w[t].status = "ok"
      /\ \A s \in Thread : s # t => w[s].pc \notin Acting
      /\ \A r \in DOMAIN log : Told(r)
      /\ \A x \in applied : AppliedIsPast(x)
      /\ syncFailed => bgError
  BY InRoom
<1>3. CASE w[t].size = 0
  <2>1. PopGroup(queue[1], "ok", seq) /\ group' = << >> /\ w[t].pc \in Acting
    BY <1>2, <1>3 DEF RoomFound, Acting
  <2>2. seq \in Nat /\ seq <= seq /\ bgError' \in BOOLEAN /\ (syncFailed => bgError')
    BY <1>1, <1>2 DEF TypeOK
  <2>3. \A s \in Popped(1) : ~(w[s].size > 0)
    BY <1>2, <1>3
  <2> QED BY <1>1, <1>2, <2>1, <2>2, <2>3, PopStep
<1>4. CASE w[t].size # 0
  <2>1. /\ group' = BuildBatchGroup(t) /\ w' = Pc(t, "log") /\ mutex' = NULL
        /\ queue' = queue /\ seq' = seq
    BY <1>4 DEF RoomFound
  <2>2. /\ w' \in [Thread -> Writer] /\ Keeps
        /\ \A s \in Thread : w'[s].pc = IF s = t THEN "log" ELSE w[s].pc
    BY <2>1, PcFacts DEF TypeOK, Places, Acting
  <2>3. \A s \in Thread : /\ w'[s].size = w[s].size /\ w'[s].sync = w[s].sync
                          /\ w'[s].status = w[s].status
    BY <2>2 DEF Keeps
  <2>4. PICK n \in 1 .. Len(queue) : /\ group' = SubSeq(queue, 1, n)
                                     /\ \A i \in 1 .. n : w[queue[i]].sync => w[t].sync
    BY <1>2, <2>1, GroupBuilt
  <2>5. /\ Len(queue) \in Nat /\ DOMAIN queue = 1 .. Len(queue)
        /\ ToSet(queue) = {queue[i] : i \in 1 .. Len(queue)}
        /\ \A i \in 1 .. Len(queue) : queue[i] \in Thread
    BY SequenceFacts DEF TypeOK
  <2>6. /\ group' \in Seq(Thread) /\ Len(group') = n
        /\ \A i \in 1 .. n : group'[i] = queue[i] /\ queue[i] \in Thread
    <3>1. \A i \in 1 .. n : queue[i] \in Thread
      BY <2>5
    <3>2. n \in Int /\ 1 \in Int /\ 1 <= n
      BY <2>5
    <3>3. /\ SubSeq(queue, 1, n) \in Seq(Thread) /\ Len(SubSeq(queue, 1, n)) = n
          /\ \A i \in 1 .. n : SubSeq(queue, 1, n)[i] = queue[i]
      BY <3>1, <3>2, SubSeqProperties
    <3> QED BY <2>4, <3>1, <3>3
  <2>7. DOMAIN group' = 1 .. n
    BY <2>6, SequenceFacts
  <2>8. TypeOK'
    BY <1>1, <2>1, <2>2, <2>6 DEF TypeOK
  <2>9. t \in ToSet(queue)
    BY <1>2, <2>5
  <2>10. \A s \in Thread : s # t => w'[s].pc \notin Acting
    BY <1>2, <2>2
  <2>11. QueueInv'
    BY <1>2, <2>1, <2>2, <2>3, <2>9, <2>10 DEF QueueInv, Distinct, Members, HeadActs, StatusIsOk
  <2>12. w[t].size > 0
    BY <1>4 DEF TypeOK, Writer
  <2>13. GroupInv'
    <3>1. \A s \in Thread : w'[s].pc \in Writing => s = t
      BY <2>10 DEF Writing, Acting
    <3>2. GroupIsPrefix'
      BY <2>1, <2>3, <2>4, <2>6, <2>7, <2>12, <3>1 DEF GroupIsPrefix
    <3>3. NoGroup'
      BY <2>2 DEF NoGroup, Writing
    <3> QED BY <3>2, <3>3 DEF GroupInv
  <2>14. \A r, s : Earlier(r, s)' <=> Earlier(r, s)
    BY <1>1 DEF Earlier
  <2>15. \A s \in Thread : Called(s)' <=> Called(s)
    BY <2>2 DEF Called
  <2>16. CallsInv'
    BY <1>1, <2>1, <2>14, <2>15 DEF CallsInv
  <2>17. \A x \in applied : x[1] \in Thread
    BY DEF TypeOK
  <2>18. AppliedInv'
    <3>1. \A x, y \in applied : Before(x, y)' <=> Before(x, y)
      BY <2>3, <2>14, <2>17 DEF Before
    <3>2. InOrder'
      BY <1>1, <3>1 DEF AppliedInv, InOrder
    <3>3. \A x \in applied : AppliedIsPast(x)'
      BY <1>2, <2>1, <2>3, <2>17 DEF AppliedIsPast
    <3>4. Placed'
      BY <1>1, <2>3, <2>15, <2>17, <3>3 DEF AppliedInv, Placed
    <3> QED BY <3>2, <3>4 DEF AppliedInv
  <2>19. \A s : IsApplied(s)' <=> IsApplied(s)
    BY <1>1 DEF IsApplied
  <2>20. LogInv'
    <3>1. \A r \in DOMAIN log : Told(r)'
      BY <1>1, <1>2, <2>1, <2>3, <2>15, <2>19 DEF Told
    <3> QED BY <1>1, <3>1 DEF LogInv
  <2>21. Stage'
    BY <1>2, <2>2, <2>3, <2>10 DEF Stage, Acting
  <2>22. LeftIsDurable'
    <3>1. \A s \in Thread : Durable(s)' <=> Durable(s)
      BY <1>1, <2>3, <2>19 DEF Durable
    <3> QED BY <2>1, <2>3, <2>15, <3>1 DEF DurableInv, LeftIsDurable
  <2>23. SyncInv'
    BY <1>1, <1>2 DEF SyncInv
  <2> QED BY <2>8, <2>11, <2>13, <2>16, <2>18, <2>20, <2>21, <2>22, <2>23 DEF DurableInv
<1> QED BY <1>3, <1>4

LEMMA FinishStep == ASSUME Inv, NEW t \in Thread, Finish(t) PROVE Inv'
<1> USE DEF Inv
<1> DEFINE n == Len(group)
           st == IF w[t].status = "ok" THEN "ok" ELSE "error"
<1>1. /\ w[t].pc = "finish" /\ bgError' = (bgError \/ w[t].status = "syncerror")
      /\ PopGroup(group[n], st, seq + Total) /\ group' = << >>
      /\ log' = log /\ synced' = synced /\ applied' = applied /\ called' = called /\ syncFailed' = syncFailed
  BY DEF Finish, history, Total
<1>2. queue # << >> /\ t = queue[1] /\ w[t].pc \in Acting
  BY <1>1 DEF QueueInv, HeadActs, Acting
<1>3. \A s \in Thread : s # t => w[s].pc \notin Acting
  BY <1>2 DEF QueueInv, HeadActs
<1>4. /\ n \in 1 .. Len(queue)
      /\ \A i \in DOMAIN group : group[i] = queue[i] /\ (w[group[i]].sync => w[t].sync)
  BY <1>1 DEF GroupInv, GroupIsPrefix, Writing
<1>5. /\ n \in Nat /\ DOMAIN group = 1 .. n /\ ToSet(group) = {group[i] : i \in 1 .. n}
      /\ \A i \in 1 .. n : group[i] \in Thread
  BY SequenceFacts DEF TypeOK
<1>6. n \in 1 .. n /\ n \in 0 .. n
  BY <1>4, <1>5
<1>7. Popped(n) = ToSet(group)
  BY <1>4, <1>5 DEF Popped
<1>8. PopGroup(queue[n], st, seq + Total)
  <2>1. group[n] = queue[n]
    BY <1>4, <1>5, <1>6
  <2> QED BY <1>1, <2>1
<1>9. Total \in Nat /\ seq \in Nat
  BY <1>6, SizeSteps DEF Total, TypeOK
<1>10. seq + Total \in Nat /\ seq <= seq + Total
  BY <1>9
<1>11. bgError' \in BOOLEAN
  BY <1>1
<1>12. syncFailed => bgError'
  <2> SUFFICES ASSUME syncFailed, ~bgError PROVE w[t].status = "syncerror"
    BY <1>1
  <2>1. PICK s \in Thread : w[s].pc = "finish" /\ w[s].status = "syncerror"
    BY DEF SyncInv
  <2> QED BY <1>3, <2>1 DEF Acting
<1>13. ASSUME NEW s \in Popped(n), st = "ok", w[s].size > 0 PROVE Durable(s)
  <2>1. w[t].status = "ok"
    BY <1>13
  <2>2. PICK i \in DOMAIN group : s = group[i]
    BY <1>5, <1>7
  <2>3. /\ log # << >> /\ log[Len(log)] = LastRecord /\ (w[t].sync => synced = Len(log))
        /\ IsApplied(s)
    BY <1>1, <1>13, <2>1, <2>2 DEF DurableInv, Stage
  <2>4. Len(log) \in DOMAIN log /\ Len(log) \in Nat
    BY <2>3, EmptySeq, LogFacts DEF TypeOK
  <2>5. s \in ToSet(log[Len(log)].group)
    BY <1>7, <2>3 DEF LastRecord
  <2>6. w[s].sync => Len(log) <= synced
    BY <1>4, <2>2, <2>3, <2>4
  <2> QED BY <2>3, <2>4, <2>5, <2>6 DEF Durable
<1>14. \A r \in DOMAIN log : Told(r) \/ ToSet(log[r].group) \subseteq Popped(n)
  BY <1>7 DEF DurableInv, LogInv, LastRecord
<1>15. ASSUME NEW x \in applied
       PROVE  AppliedIsPast(x) \/ (x[1] \in Popped(n) /\ x[2] + w[x[1]].size <= (seq + Total) + 1)
  <2>1. CASE AppliedIsNow(x)
    <3>1. x[1] \in ToSet(group) /\ x[2] + w[x[1]].size <= seq + 1 + Total
      BY <2>1 DEF AppliedIsNow
    <3>2. seq + 1 + Total = (seq + Total) + 1
      BY <1>9
    <3> QED BY <1>7, <3>1, <3>2
  <2> QED BY <2>1 DEF AppliedInv, Placed
<1>16. st \in {"ok", "error"}
  OBVIOUS
<1> HIDE DEF n, st
<1> QED BY <1>1, <1>2, <1>4, <1>8, <1>10, <1>11, <1>12, <1>13, <1>14, <1>15, <1>16, PopStep

-----------------------------------------------------------------------------
LEMMA InvInit == Init => Inv
<1> SUFFICES ASSUME Init PROVE Inv
  OBVIOUS
<1>1. /\ mutex = NULL /\ queue = << >> /\ group = << >> /\ called = << >> /\ log = << >>
      /\ seq = 0 /\ synced = 0 /\ applied = {} /\ bgError = FALSE /\ syncFailed = FALSE
      /\ w = [t \in Thread |-> [pc |-> "idle", size |-> 0, sync |-> FALSE, delay |-> FALSE, status |-> "ok"]]
  BY DEF Init
<1>2. w \in [Thread -> Writer]
  <2>1. "idle" \in Places /\ 0 \in Nat /\ FALSE \in BOOLEAN /\ "ok" \in {"ok", "error", "syncerror"}
    BY DEF Places
  <2>2. [pc |-> "idle", size |-> 0, sync |-> FALSE, delay |-> FALSE, status |-> "ok"] \in Writer
    BY <2>1, WriterIs, Zenon
  <2> QED BY <1>1, <2>2
<1>3. \A t \in Thread : w[t].pc = "idle" /\ w[t].status = "ok"
  BY <1>1
<1>4. /\ queue \in Seq(Thread) /\ group \in Seq(Thread) /\ called \in Seq(Thread)
      /\ log \in Seq([group : Seq(Thread), base : Nat]) /\ Len(log) = 0 /\ Len(queue) = 0
  BY <1>1, EmptySeq
<1>5. /\ DOMAIN log = {} /\ DOMAIN queue = {} /\ ToSet(queue) = {}
  <2>1. DOMAIN log = 1 .. 0 /\ DOMAIN queue = 1 .. 0 /\ ToSet(queue) = {queue[i] : i \in 1 .. 0}
    BY <1>4, SequenceFacts
  <2> QED BY <2>1
<1>6. TypeOK
  <2>1. bgError \in BOOLEAN /\ syncFailed \in BOOLEAN
    BY <1>1, Zenon
  <2>2. synced \in 0 .. Len(log) /\ seq \in Nat /\ applied \in SUBSET (Thread \X Nat)
    BY <1>1, <1>4
  <2> QED BY <1>1, <1>2, <1>4, <2>1, <2>2 DEF TypeOK
<1>7. QueueInv
  BY <1>3, <1>5 DEF QueueInv, Distinct, Members, HeadActs, StatusIsOk, Acting
<1>8. GroupInv
  BY <1>1, <1>3 DEF GroupInv, GroupIsPrefix, NoGroup, Writing
<1>9. CallsInv
  BY <1>3, <1>5 DEF CallsInv, Called
<1>10. AppliedInv
  BY <1>1 DEF AppliedInv, InOrder, Placed
<1>11. DurableInv
  BY <1>3, <1>5 DEF DurableInv, LogInv, Stage, LeftIsDurable, Called
<1>12. SyncInv
  BY <1>1 DEF SyncInv
<1> QED BY <1>6, <1>7, <1>8, <1>9, <1>10, <1>11, <1>12 DEF Inv

LEMMA InvStep == Inv /\ [Next]_vars => Inv'
<1> SUFFICES ASSUME Inv, [Next]_vars PROVE Inv'
  OBVIOUS
<1>1. CASE \E t \in Thread, size \in Sizes, sync \in Syncs : Call(t, size, sync)
  BY <1>1, CallStep
<1>2. ASSUME NEW t \in Thread, Step(t) PROVE Inv'
  <2>1. CASE Wake(t)
    BY <2>1, WakeStep
  <2>2. CASE MakeRoomFails(t)
    BY <2>2, MakeRoomFailsStep
  <2>3. CASE MakeRoomSleeps(t) \/ MakeRoomWaits(t) \/ BackToRoom(t)
    BY <2>3, WaitStep
  <2>4. CASE MakeRoomThere(t)
    BY <2>4, RoomFoundStep DEF MakeRoomThere, history
  <2>5. CASE MakeRoomSwitches(t)
    BY <2>5, RoomFoundStep DEF MakeRoomSwitches, history
  <2>6. CASE AddRecord(t) \/ AddRecordFails(t)
    BY <2>6, AddRecordStep, AddRecordFailsStep
  <2>7. CASE Sync(t) \/ SyncFails(t)
    BY <2>7, SyncStep, SyncFailsStep
  <2>8. CASE InsertInto(t) \/ Finish(t)
    BY <2>8, InsertIntoStep, FinishStep
  <2> QED BY <1>2, <2>1, <2>2, <2>3, <2>4, <2>5, <2>6, <2>7, <2>8 DEF Step
<1>3. CASE CompactMemTable \/ CompactLevel0 \/ RecordBackgroundError \/ UNCHANGED vars
  BY <1>3, BackgroundStep
<1> QED BY <1>1, <1>2, <1>3 DEF Next

(* The queue, the group, the log and the memtable of DBImpl::Write fit     *)
(* together at every step of every writer.                                 *)
THEOREM QueueInvariance == Spec => []Inv
<1> QED BY InvInit, InvStep, PTL DEF Spec

(* Group commit keeps its promise to every writer, whoever wrote for it:   *)
(* a write that returned success from DBImpl::Write is logged and applied, *)
(* and synced if it asked for it; writes take effect in the order of their *)
(* calls under numbers of their own; and what the last sequence number     *)
(* makes visible is complete.                                              *)
THEOREM GroupCommit == Spec => []GroupCommitIsSound
<1>1. Inv => GroupCommitIsSound
  <2> SUFFICES ASSUME Inv PROVE GroupCommitIsSound
    OBVIOUS
  <2> USE DEF Inv
  <2>1. AckedWritesAreDurable
    <3> SUFFICES ASSUME NEW t \in Thread, Returned(t), w[t].status = "ok", w[t].size > 0 PROVE Durable(t)
      BY DEF AckedWritesAreDurable, Durable, IsApplied
    <3>1. Called(t) /\ t \notin ToSet(queue)
      BY DEF Returned, Called, QueueInv, Members
    <3> QED BY <3>1 DEF DurableInv, LeftIsDurable
  <2>2. \A x \in applied : x[1] \in Thread /\ x[2] \in Nat /\ w[x[1]].size \in Nat /\ w[x[1]].size > 0
    BY DEF TypeOK, Writer, AppliedInv, Placed
  <2>3. AppliedInCallOrder
    <3> SUFFICES ASSUME NEW x \in applied, NEW y \in applied, x # y, x[2] <= y[2] PROVE Before(x, y)
      BY DEF AppliedInCallOrder, Before
    <3>1. ~Before(y, x)
      BY <2>2 DEF Before
    <3> QED BY <3>1 DEF AppliedInv, InOrder
  <2>4. ASSUME NEW x \in applied, x[2] > seq PROVE x[1] \in ToSet(group)
    <3>1. ~AppliedIsPast(x)
      BY <2>2, <2>4 DEF AppliedIsPast, TypeOK
    <3> QED BY <3>1 DEF AppliedInv, Placed, AppliedIsNow
  <2>5. ASSUME NEW r \in DOMAIN log, NEW t \in ToSet(log[r].group), log[r].base <= seq,
               w[t].status = "ok", w[t].size > 0
        PROVE  IsApplied(t)
    <3>1. log[r] # LastRecord
      BY <2>5 DEF LastRecord, TypeOK
    <3> QED BY <2>5, <3>1 DEF DurableInv, LogInv, Told
  <2> QED BY <2>1, <2>3, <2>4, <2>5 DEF GroupCommitIsSound, VisibleIsWhole, IsApplied
<1> QED BY <1>1, QueueInvariance, PTL

(* Once a sync of the log has failed, no batch reaches a memtable: the     *)
(* head that saw it records bg_error_ before it lets the next writer on.   *)
THEOREM SyncErrors == Spec => SyncErrorStopsWrites
<1>1. Inv /\ [Next]_vars => [syncFailed => applied' = applied]_vars
  <2> SUFFICES ASSUME Inv, [Next]_vars, syncFailed PROVE applied' = applied
    OBVIOUS
  <2>1. \A t \in Thread : ~InsertInto(t)
    BY DEF Inv, SyncInv, InsertInto
  <2>2. CASE UNCHANGED vars
    BY <2>2 DEF vars
  <2>3. CASE \E t \in Thread, size \in Sizes, sync \in Syncs : Call(t, size, sync)
    BY <2>3 DEF Call, store
  <2>4. CASE CompactMemTable \/ CompactLevel0 \/ RecordBackgroundError
    BY <2>4 DEF CompactMemTable, CompactLevel0, RecordBackgroundError, store
  <2>5. ASSUME NEW t \in Thread, Step(t) PROVE applied' = applied
    BY <2>1, <2>5 DEF Step, Wake, MakeRoomFails, MakeRoomSleeps, MakeRoomWaits, BackToRoom, MakeRoomThere,
         MakeRoomSwitches, AddRecord, AddRecordFails, Sync, SyncFails, Finish, store
  <2> QED BY <2>2, <2>3, <2>4, <2>5 DEF Next
<1> QED BY <1>1, QueueInvariance, PTL DEF Spec, SyncErrorStopsWrites
=============================================================================
