---------------------------- MODULE DBImplProofs ----------------------------
EXTENDS DBImpl, TLAPS, FiniteSetTheorems, SequenceTheorems

(* Nothing in use is removed (DBImpl::DeleteObsoleteFiles, LogAndApply,     *)
(* BackgroundCompaction, Recover), proved for every value of the constants. *)
(*                                                                          *)
(* The argument.  FilesInUseAreKept speaks of the tables named by the       *)
(* manifest, but DeleteObsoleteFiles spares only those of live versions and *)
(* of pending_outputs_.  LogAndApply releases the lock between the record   *)
(* in the manifest and the new version, so the two differ meanwhile: IInv   *)
(* says by how much (CurrentOK), that the tables of the edit under way are  *)
(* there all the same (CompactionOK, MemCompactionOK), and that a number is *)
(* never given to two files (FilesOK), so that deleting one file by its     *)
(* number never deletes another.                                            *)
(*                                                                          *)
(* The module proceeds from the operators of VersionSet and DBImpl (orders, *)
(* lists, the builder, the merge, the recovery of a log), through one lemma *)
(* per action, to NextKeeps and the theorem.                                *)
-----------------------------------------------------------------------------
(* The places, the elements and the set of elements of a sequence.          *)
LEMMA SequenceFacts ==
  ASSUME NEW S, NEW s \in Seq(S)
  PROVE  /\ Len(s) \in Nat /\ DOMAIN s = 1 .. Len(s)
         /\ \A i \in 1 .. Len(s) : s[i] \in S
         /\ ToSet(s) = {s[i] : i \in 1 .. Len(s)} /\ ToSet(s) \subseteq S
  BY LenProperties, ElementOfSeq DEF ToSet

(* A set of numbers that is not empty has a least element, and a greatest   *)
(* when it is bounded.                                                      *)
LEMMA LeastNumber ==
  ASSUME NEW T, T \subseteq Nat, T # {}
  PROVE  \E x \in T : \A k \in T : x <= k
<1> DEFINE R == OpToRel(<, Nat)
<1>1. IsWellFoundedOn(R, Nat)
  BY NatLessThanWellFounded
<1>2. PICK x \in T : \A y \in T : ~(<<y, x>> \in R)
  <2> HIDE DEF R
  <2> QED BY <1>1, WFMin
<1>3. \A y \in T : <<y, x>> \in R <=> y < x
  BY DEF OpToRel
<1>4. \A y \in T : ~(y < x)
  BY <1>2, <1>3
<1> QED BY <1>4

(* Min and Max of the community modules, whose CHOOSE has a witness here.   *)
LEMMA MinIsLeast ==
  ASSUME NEW T, T \subseteq Nat, T # {}
  PROVE  Min(T) \in T /\ \A k \in T : Min(T) <= k
<1>1. \E x \in T : \A k \in T : x <= k
  BY LeastNumber
<1> QED BY <1>1 DEF Min

(* The greatest of finitely many numbers is one of them.                    *)
LEMMA MaxIsGreatest ==
  ASSUME NEW n \in Nat, NEW T, T \subseteq 0 .. n, T # {}
  PROVE  Max(T) \in T
<1> DEFINE Below == {n - k : k \in T}
<1>1. Below \subseteq Nat /\ Below # {}
  <2>1. \A k \in T : n - k \in Nat
    OBVIOUS
  <2>2. PICK k \in T : TRUE
    OBVIOUS
  <2>3. n - k \in Below
    OBVIOUS
  <2> QED BY <2>1, <2>3
<1>2. PICK b \in Below : \A k \in Below : b <= k
  <2> HIDE DEF Below
  <2> QED BY <1>1, LeastNumber
<1>3. PICK x \in T : b = n - x
  OBVIOUS
<1>4. ASSUME NEW k \in T PROVE x >= k
  <2>1. n - k \in Below
    OBVIOUS
  <2>2. b <= n - k
    BY <1>2, <2>1
  <2>3. x \in Int /\ k \in Int
    OBVIOUS
  <2> HIDE DEF Below
  <2> QED BY <1>3, <2>2, <2>3
<1> QED BY <1>4 DEF Max

(* What holds at the start and is kept by every step holds to the end. *)
LEMMA Walk ==
  ASSUME NEW n \in Nat, NEW T, NEW f, f[0] \in T,
         \A i \in 1 .. n : f[i - 1] \in T => f[i] \in T
  PROVE  \A i \in 0 .. n : f[i] \in T
<1> DEFINE Bad == {i \in 0 .. n : f[i] \notin T}
<1> SUFFICES ASSUME Bad # {} PROVE FALSE
  OBVIOUS
<1>1. PICK b \in Bad : \A i \in Bad : b <= i
  <2>1. Bad \subseteq Nat
    OBVIOUS
  <2> HIDE DEF Bad
  <2> QED BY <2>1, LeastNumber
<1>2. b # 0 /\ b \in 1 .. n /\ b - 1 \in 0 .. n /\ ~(b <= b - 1)
  BY <1>1
<1>3. f[b - 1] \in T
  BY <1>1, <1>2
<1> QED BY <1>1, <1>2, <1>3

(* A recursion over 0 .. n whose step G maps T to T has a solution in T.    *)
Solves(f, n, base, G) == f = [i \in 0 .. n |-> IF i = 0 THEN base ELSE G[<<i, f[i - 1]>>]]
(* A recursive function whose base and step stay in a set exists, with its  *)
(* values in that set.                                                      *)
LEMMA RecursionExists ==
  ASSUME NEW n \in Nat, NEW T, NEW base \in T, NEW G \in [(1 .. n) \X T -> T]
  PROVE  \E f \in [0 .. n -> T] : Solves(f, n, base, G)
<1> DEFINE Good(k, f) == /\ f \in [0 .. k -> T] /\ f[0] = base
                         /\ \A i \in 1 .. k : f[i] = G[<<i, f[i - 1]>>]
           Bad == {k \in 0 .. n : ~\E f : Good(k, f)}
<1>1. Bad = {}
  <2> SUFFICES ASSUME Bad # {} PROVE FALSE
    OBVIOUS
  <2>1. PICK b \in Bad : \A k \in Bad : b <= k
    <3>1. Bad \subseteq Nat
      OBVIOUS
    <3> HIDE DEF Bad
    <3> QED BY <3>1, LeastNumber
  <2>2. b # 0
    <3>1. Good(0, [i \in 0 .. 0 |-> base])
      OBVIOUS
    <3> QED BY <3>1, <2>1
  <2>3. b \in 1 .. n /\ b - 1 \in 0 .. n /\ ~(b <= b - 1) /\ b - 1 \in Nat
    BY <2>1, <2>2
  <2>4. PICK f : Good(b - 1, f)
    BY <2>1, <2>3
  <2> DEFINE g == [i \in 0 .. b |-> IF i = b THEN G[<<b, f[b - 1]>>] ELSE f[i]]
  <2>5. b - 1 \in 0 .. (b - 1) /\ f[b - 1] \in T /\ <<b, f[b - 1]>> \in (1 .. n) \X T
    BY <2>3, <2>4
  <2>6. G[<<b, f[b - 1]>>] \in T
    BY <2>5
  <2>7. \A i \in 0 .. b : i = b \/ i \in 0 .. (b - 1)
    BY <2>3
  <2>8. g \in [0 .. b -> T]
    BY <2>4, <2>6, <2>7
  <2>9. \A i \in 0 .. (b - 1) : i \in 0 .. b /\ i # b /\ g[i] = f[i]
    BY <2>3
  <2>10. g[0] = base
    <3>1. 0 \in 0 .. (b - 1)
      BY <2>3
    <3> QED BY <2>4, <2>9, <3>1
  <2>11. ASSUME NEW i \in 1 .. b PROVE g[i] = G[<<i, g[i - 1]>>]
    <3>1. i - 1 \in 0 .. (b - 1) /\ i \in 0 .. b
      BY <2>3
    <3>2. g[i - 1] = f[i - 1]
      BY <2>9, <3>1
    <3>3. CASE i = b
      BY <3>1, <3>2, <3>3
    <3>4. CASE i # b
      <4>1. i \in 1 .. (b - 1) /\ i \in 0 .. (b - 1)
        BY <2>3, <3>4
      <4>2. g[i] = f[i] /\ f[i] = G[<<i, f[i - 1]>>]
        BY <2>4, <2>9, <4>1
      <4> QED BY <3>2, <4>2
    <3> QED BY <3>3, <3>4
  <2> HIDE DEF g
  <2>12. Good(b, g)
    BY <2>8, <2>10, <2>11
  <2> QED BY <2>1, <2>12
<1>2. PICK f : Good(n, f)
  BY <1>1
<1>3. ASSUME NEW i \in 0 .. n PROVE f[i] = IF i = 0 THEN base ELSE G[<<i, f[i - 1]>>]
  BY <1>2
<1>4. f = [i \in 0 .. n |-> f[i]]
  BY <1>2
<1>5. Solves(f, n, base, G)
  BY <1>3, <1>4 DEF Solves
<1> QED BY <1>2, <1>5
-----------------------------------------------------------------------------
(* In a strict total order of a finite set, every place is taken. *)
StrictOrder(S, R) == /\ \A x \in S : <<x, x>> \notin R
                     /\ \A x, y, z \in S : <<x, y>> \in R /\ <<y, z>> \in R => <<x, z>> \in R
                     /\ \A x, y \in S : x # y => <<x, y>> \in R \/ <<y, x>> \in R
Rank(S, R, x) == Cardinality({y \in S : <<y, x>> \in R})
(* In a finite strict order the ranks are the numbers below the size, each  *)
(* taken by one element.                                                    *)
LEMMA EveryRankIsTaken ==
  ASSUME NEW S, IsFiniteSet(S), NEW R, StrictOrder(S, R)
  PROVE  /\ Cardinality(S) \in Nat
         /\ \A x \in S : Rank(S, R, x) \in 0 .. Cardinality(S) - 1
         /\ \A x, y \in S : Rank(S, R, x) = Rank(S, R, y) => x = y
         /\ \A i \in 1 .. Cardinality(S) : \E x \in S : Rank(S, R, x) = i - 1
<1> DEFINE P(x) == {y \in S : <<y, x>> \in R}
           n == Cardinality(S)
<1>1. n \in Nat
  BY FS_CardinalityType
<1>2. \A x \in S : P(x) \in SUBSET S /\ x \notin P(x)
  BY DEF StrictOrder
<1>3. ASSUME NEW x \in S
      PROVE  IsFiniteSet(P(x)) /\ Cardinality(P(x)) \in Nat /\ Cardinality(P(x)) < n
  <2>1. P(x) \in SUBSET S /\ P(x) # S
    BY <1>2
  <2> HIDE DEF P
  <2>2. IsFiniteSet(P(x)) /\ Cardinality(P(x)) <= n /\ Cardinality(P(x)) # n
    BY <2>1, FS_Subset
  <2>3. Cardinality(P(x)) \in Nat
    BY <2>2, FS_CardinalityType
  <2> QED BY <1>1, <2>2, <2>3
<1>4. ASSUME NEW x \in S, NEW y \in S, <<x, y>> \in R
      PROVE  Cardinality(P(x)) # Cardinality(P(y))
  <2>1. P(x) \in SUBSET P(y) /\ P(x) # P(y)
    <3>1. \A z \in P(x) : z \in P(y)
      BY <1>4 DEF StrictOrder
    <3>2. x \in P(y) /\ x \notin P(x)
      BY <1>2, <1>4
    <3> QED BY <3>1, <3>2
  <2>2. IsFiniteSet(P(y))
    BY <1>3
  <2> HIDE DEF P
  <2> QED BY <2>1, <2>2, FS_Subset
<1>5. ASSUME NEW x \in S, NEW y \in S, x # y
      PROVE  Cardinality(P(x)) # Cardinality(P(y))
  <2> HIDE DEF P
  <2> QED BY <1>4, <1>5 DEF StrictOrder
<1> DEFINE f == [x \in S |-> Cardinality(P(x))]
<1>6. f \in Injection(S, 0 .. n - 1)
  <2>1. f \in [S -> 0 .. n - 1]
    <3>1. \A x \in S : Cardinality(P(x)) \in 0 .. n - 1
      <4> HIDE DEF P, n
      <4> QED BY <1>1, <1>3
    <3> HIDE DEF P, n
    <3> QED BY <3>1
  <2>2. \A x, y \in S : f[x] = f[y] => x = y
    BY <1>5
  <2> HIDE DEF f
  <2> QED BY <2>1, <2>2 DEF Injection, IsInjective
<1>7. IsFiniteSet(0 .. n - 1) /\ Cardinality(0 .. n - 1) = n
  BY <1>1, FS_Interval
<1>8. f \in Surjection(S, 0 .. n - 1)
  <2> HIDE DEF f, n
  <2>1. Cardinality(S) = Cardinality(0 .. n - 1)
    BY <1>7 DEF n
  <2> QED BY <1>6, <1>7, <2>1, FS_Injection
<1>9. \A i \in 1 .. n : \E x \in S : f[x] = i - 1
  <2> TAKE i \in 1 .. n
  <2>1. i - 1 \in 0 .. n - 1
    BY <1>1
  <2> HIDE DEF f, n
  <2> QED BY <1>8, <2>1 DEF Surjection
<1>10. \A x \in S : f[x] = Rank(S, R, x) /\ f[x] \in 0 .. n - 1
  BY <1>1, <1>3 DEF Rank
<1>11. \A x, y \in S : f[x] = f[y] => x = y
  BY <1>5
<1> HIDE DEF f
<1> QED BY <1>1, <1>9, <1>10, <1>11

(* So InOrder lists a set: what it returns is a sequence of its elements,   *)
(* and each of them is in it.  (One lemma per order: a lemma cannot have an *)
(* operator for a parameter.)                                               *)
Lists(s, S) == s \in Seq(S) /\ ToSet(s) = S /\ Len(s) = Cardinality(S)
(* A sequence whose i-th element is the one of rank i - 1 lists the set.    *)
LEMMA PlacesList ==
  ASSUME NEW S, IsFiniteSet(S), NEW R, StrictOrder(S, R), NEW s,
         NEW V, s \in [1 .. Cardinality(S) -> V],
         \A i \in 1 .. Cardinality(S) : (\E x \in S : Rank(S, R, x) = i - 1)
                                           => s[i] \in S /\ Rank(S, R, s[i]) = i - 1
  PROVE  Lists(s, S) /\ \A i \in 1 .. Len(s) : Rank(S, R, s[i]) = i - 1
<1> DEFINE n == Cardinality(S)
<1>1. /\ n \in Nat
      /\ \A x \in S : Rank(S, R, x) \in 0 .. n - 1
      /\ \A x, y \in S : Rank(S, R, x) = Rank(S, R, y) => x = y
      /\ \A i \in 1 .. n : \E x \in S : Rank(S, R, x) = i - 1
  BY EveryRankIsTaken
<1> HIDE DEF n
<1>2. s \in [1 .. n -> V]
  BY DEF n
<1>3. \A i \in 1 .. n : s[i] \in S /\ Rank(S, R, s[i]) = i - 1
  BY <1>1 DEF n
<1>4. s \in [1 .. n -> S]
  BY <1>2, <1>3
<1>5. s \in Seq(S) /\ Len(s) = n
  BY <1>1, <1>4
<1>6. ASSUME NEW x \in S PROVE x \in ToSet(s)
  <2> DEFINE i == Rank(S, R, x) + 1
  <2>1. i \in 1 .. n /\ i - 1 = Rank(S, R, x)
    BY <1>1
  <2> HIDE DEF i
  <2>2. s[i] = x
    BY <1>1, <1>3, <2>1
  <2> QED BY <1>4, <2>1, <2>2 DEF ToSet
<1>7. ToSet(s) \subseteq S
  BY <1>3, <1>4 DEF ToSet
<1> QED BY <1>3, <1>5, <1>6, <1>7 DEF Lists, n

(* Ascending, the order in which RecoverLogFile replays the logs, lists the *)
(* numbers it is given.                                                     *)
LEMMA AscendingLists ==
  ASSUME NEW S, S \subseteq Nat, IsFiniteSet(S)
  PROVE  /\ Lists(Ascending(S), S)
         /\ Len(Ascending(S)) > 1 => Ascending(S)[1] < Ascending(S)[2]
<1> DEFINE R == {p \in S \X S : p[1] < p[2]}
           s == Ascending(S)
<1>1. StrictOrder(S, R)
  BY DEF StrictOrder
<1>2. ASSUME NEW x \in S PROVE Rank(S, R, x) = Cardinality({y \in S : y < x})
  <2>1. {y \in S : <<y, x>> \in R} = {y \in S : y < x}
    OBVIOUS
  <2> QED BY <2>1 DEF Rank
<1> DEFINE V == {s[i] : i \in 1 .. Cardinality(S)}
<1>3. /\ s \in [1 .. Cardinality(S) -> V]
      /\ \A i \in 1 .. Cardinality(S) : (\E x \in S : Rank(S, R, x) = i - 1)
                                           => s[i] \in S /\ Rank(S, R, s[i]) = i - 1
  <2>1. s = [i \in 1 .. Cardinality(S) |-> CHOOSE x \in S : Cardinality({y \in S : y < x}) = i - 1]
    BY DEF Ascending, InOrder
  <2>2. s \in [1 .. Cardinality(S) -> V]
    <3> HIDE DEF s
    <3> QED BY <2>1
  <2>3. \A i \in 1 .. Cardinality(S) : s[i] = CHOOSE x \in S : Cardinality({y \in S : y < x}) = i - 1
    <3> HIDE DEF s
    <3> QED BY <2>1
  <2> HIDE DEF s, R, V
  <2>4. ASSUME NEW i \in 1 .. Cardinality(S), \E x \in S : Rank(S, R, x) = i - 1
        PROVE  s[i] \in S /\ Rank(S, R, s[i]) = i - 1
    <3>1. \E x \in S : Cardinality({y \in S : y < x}) = i - 1
      BY <1>2, <2>4
    <3>2. s[i] \in S /\ Cardinality({y \in S : y < s[i]}) = i - 1
      BY <2>3, <3>1
    <3> QED BY <1>2, <3>2
  <2> QED BY <2>2, <2>4
<1>4. Lists(s, S) /\ \A i \in 1 .. Len(s) : Rank(S, R, s[i]) = i - 1
  <2> HIDE DEF R, s, V
  <2> QED BY <1>1, <1>3, PlacesList
<1>5. ASSUME Len(s) > 1 PROVE s[1] < s[2]
  <2> HIDE DEF s
  <2>1. Len(s) \in Nat /\ 1 \in 1 .. Len(s) /\ 2 \in 1 .. Len(s) /\ s[1] \in S /\ s[2] \in S
    BY <1>4, <1>5, SequenceFacts DEF Lists
  <2>2. Rank(S, R, s[1]) = 0 /\ Rank(S, R, s[2]) = 1
    <3> HIDE DEF R
    <3>1. Rank(S, R, s[1]) = 1 - 1 /\ Rank(S, R, s[2]) = 2 - 1
      BY <1>4, <2>1
    <3> QED BY <3>1
  <2>3. IsFiniteSet({y \in S : <<y, s[1]>> \in R})
    BY FS_Subset
  <2>4. {y \in S : <<y, s[1]>> \in R} = {}
    BY <2>2, <2>3, FS_EmptySet DEF Rank
  <2>5. s[1] # s[2]
    BY <2>2
  <2>6. ~(s[2] < s[1]) /\ s[1] \in Nat /\ s[2] \in Nat
    BY <2>1, <2>4
  <2> QED BY <2>1, <2>5, <2>6
<1> QED BY <1>4, <1>5
-----------------------------------------------------------------------------
(* Types, and what the numbers of files are for. *)
InternalKey == [k : Key, s : 1 .. MaxSeq]
Meta == [number : Nat, file_size : Nat, smallest : InternalKey, largest : InternalKey]
UniqueNumbers(fs) == \A f, g \in fs : f.number = g.number => f = g

(* The fields of an entry, and its internal key.                            *)
LEMMA EntryFacts ==
  ASSUME NEW x \in Entry
  PROVE  /\ x.k \in Int /\ x.s \in Int /\ x.del \in BOOLEAN
         /\ x = [k |-> x.k, s |-> x.s, del |-> x.del]
         /\ IKey(x) \in InternalKey
<1>1. Key \subseteq Int /\ MaxSeq \in Nat
  BY DBAssumption
<1>2. x.k \in Key /\ x.s \in 1 .. MaxSeq /\ x.del \in BOOLEAN
  BY DEF Entry
<1>3. x = [k |-> x.k, s |-> x.s, del |-> x.del]
  BY DEF Entry
<1>4. IKey(x) \in InternalKey
  BY <1>2 DEF IKey, InternalKey
<1> QED BY <1>1, <1>2, <1>3, <1>4

(* The fields of a FileMetaData.                                            *)
LEMMA MetaFacts ==
  ASSUME NEW f \in Meta
  PROVE  /\ f.number \in Nat /\ f.file_size \in Nat /\ f.smallest \in InternalKey
         /\ f.smallest.k \in Int /\ f.smallest.s \in Int
         /\ f.smallest = [k |-> f.smallest.k, s |-> f.smallest.s]
<1>1. Key \subseteq Int /\ MaxSeq \in Nat
  BY DBAssumption
<1>2. f.number \in Nat /\ f.file_size \in Nat /\ f.smallest \in InternalKey
  BY DEF Meta
<1>3. f.smallest.k \in Key /\ f.smallest.s \in 1 .. MaxSeq
  BY <1>2 DEF InternalKey
<1>4. f.smallest = [k |-> f.smallest.k, s |-> f.smallest.s]
  BY <1>2 DEF InternalKey
<1>5. f.smallest.k \in Int
  BY <1>1, <1>3
<1>6. f.smallest.s \in Int
  BY <1>1, <1>3
<1> QED BY <1>2, <1>4, <1>5, <1>6

(* The entries of a memtable or of merged inputs, in the order of their keys. *)
LEMMA EntriesList ==
  ASSUME NEW S, S \subseteq Entry, IsFiniteSet(S)
  PROVE  Lists(InKeyOrder(S), S)
<1> DEFINE R == {p \in S \X S : EntryBefore(p[1], p[2])}
           s == InKeyOrder(S)
           V == {s[i] : i \in 1 .. Cardinality(S)}
<1> DEFINE d(x) == IF x.del THEN 1 ELSE 0
           B(x, y) == x.k < y.k \/ (x.k = y.k /\ x.s > y.s) \/ (x.k = y.k /\ x.s = y.s /\ d(x) < d(y))
<1>a. \A x \in S : x.k \in Int /\ x.s \in Int /\ d(x) \in Int
  BY EntryFacts
<1>b. ASSUME NEW x \in S, NEW y \in S, x.k = y.k, x.s = y.s, d(x) = d(y) PROVE x = y
  <2>1. x.del \in BOOLEAN /\ y.del \in BOOLEAN
    BY EntryFacts
  <2>2. x.del = y.del
    BY <1>b, <2>1
  <2>3. x = [k |-> x.k, s |-> x.s, del |-> x.del] /\ y = [k |-> y.k, s |-> y.s, del |-> y.del]
    BY EntryFacts
  <2> QED BY <1>b, <2>2, <2>3
<1>c. \A x, y \in S : EntryBefore(x, y) <=> B(x, y)
  BY DEF EntryBefore, ILess, IKey, Entry
<1>d. \A x, y \in S : <<x, y>> \in R <=> B(x, y)
  BY <1>c
<1>1. StrictOrder(S, R)
  <2> HIDE DEF R, d
  <2>1. \A x \in S : ~B(x, x)
    BY <1>a
  <2>2. \A x, y, z \in S : B(x, y) /\ B(y, z) => B(x, z)
    BY <1>a
  <2>3. \A x, y \in S : x # y => B(x, y) \/ B(y, x)
    BY <1>a, <1>b
  <2> HIDE DEF B
  <2> QED BY <1>d, <2>1, <2>2, <2>3 DEF StrictOrder
<1>2. ASSUME NEW x \in S PROVE Rank(S, R, x) = Cardinality({y \in S : EntryBefore(y, x)})
  <2>1. {y \in S : <<y, x>> \in R} = {y \in S : EntryBefore(y, x)}
    OBVIOUS
  <2> QED BY <2>1 DEF Rank
<1>3. /\ s \in [1 .. Cardinality(S) -> V]
      /\ \A i \in 1 .. Cardinality(S) : (\E x \in S : Rank(S, R, x) = i - 1)
                                           => s[i] \in S /\ Rank(S, R, s[i]) = i - 1
  <2>1. s = [i \in 1 .. Cardinality(S) |->
               CHOOSE x \in S : Cardinality({y \in S : EntryBefore(y, x)}) = i - 1]
    BY DEF InKeyOrder, InOrder
  <2>2. s \in [1 .. Cardinality(S) -> V]
    <3> HIDE DEF s
    <3> QED BY <2>1
  <2>3. \A i \in 1 .. Cardinality(S) :
          s[i] = CHOOSE x \in S : Cardinality({y \in S : EntryBefore(y, x)}) = i - 1
    <3> HIDE DEF s
    <3> QED BY <2>1
  <2> HIDE DEF s, R, V
  <2>4. ASSUME NEW i \in 1 .. Cardinality(S), \E x \in S : Rank(S, R, x) = i - 1
        PROVE  s[i] \in S /\ Rank(S, R, s[i]) = i - 1
    <3>1. \E x \in S : Cardinality({y \in S : EntryBefore(y, x)}) = i - 1
      BY <1>2, <2>4
    <3>2. s[i] \in S /\ Cardinality({y \in S : EntryBefore(y, s[i])}) = i - 1
      BY <2>3, <3>1
    <3> QED BY <1>2, <3>2
  <2> QED BY <2>2, <2>4
<1> HIDE DEF R, s, V
<1>4. Lists(s, S)
  BY <1>1, <1>3, PlacesList
<1> QED BY <1>4 DEF s

(* The files of a level, by their smallest keys. *)
LEMMA FilesList ==
  ASSUME NEW S, S \subseteq Meta, UniqueNumbers(S), IsFiniteSet(S)
  PROVE  Lists(InOrder(S, BySmallestKey), S)
<1> DEFINE R == {p \in S \X S : BySmallestKey(p[1], p[2])}
           s == InOrder(S, BySmallestKey)
           V == {s[i] : i \in 1 .. Cardinality(S)}
<1> DEFINE B(x, y) == \/ x.smallest.k < y.smallest.k
                      \/ x.smallest.k = y.smallest.k /\ x.smallest.s > y.smallest.s
                      \/ x.smallest.k = y.smallest.k /\ x.smallest.s = y.smallest.s /\ x.number < y.number
<1>a. \A x \in S : x.smallest.k \in Int /\ x.smallest.s \in Int /\ x.number \in Int
  <2> TAKE x \in S
  <2>1. x \in Meta
    OBVIOUS
  <2>2. x.smallest.k \in Int /\ x.smallest.s \in Int /\ x.number \in Nat
    BY <2>1, MetaFacts
  <2> QED BY <2>2
<1>b. \A x, y \in S : x.number = y.number => x = y
  BY DEF UniqueNumbers
<1>c. \A x, y \in S : x.smallest = y.smallest <=>
                        x.smallest.k = y.smallest.k /\ x.smallest.s = y.smallest.s
  <2>1. \A x \in S : x.smallest = [k |-> x.smallest.k, s |-> x.smallest.s]
    BY MetaFacts
  <2> QED BY <2>1
<1>d. \A x, y \in S : <<x, y>> \in R <=> B(x, y)
  BY <1>c DEF BySmallestKey, ILess
<1>1. StrictOrder(S, R)
  <2> HIDE DEF R
  <2>1. \A x \in S : ~B(x, x)
    BY <1>a
  <2>2. \A x, y, z \in S : B(x, y) /\ B(y, z) => B(x, z)
    BY <1>a
  <2>3. \A x, y \in S : x # y => B(x, y) \/ B(y, x)
    BY <1>a, <1>b
  <2> HIDE DEF B
  <2> QED BY <1>d, <2>1, <2>2, <2>3 DEF StrictOrder
<1>2. ASSUME NEW x \in S PROVE Rank(S, R, x) = Cardinality({y \in S : BySmallestKey(y, x)})
  <2>1. {y \in S : <<y, x>> \in R} = {y \in S : BySmallestKey(y, x)}
    OBVIOUS
  <2> QED BY <2>1 DEF Rank
<1>3. /\ s \in [1 .. Cardinality(S) -> V]
      /\ \A i \in 1 .. Cardinality(S) : (\E x \in S : Rank(S, R, x) = i - 1)
                                           => s[i] \in S /\ Rank(S, R, s[i]) = i - 1
  <2>1. s = [i \in 1 .. Cardinality(S) |->
               CHOOSE x \in S : Cardinality({y \in S : BySmallestKey(y, x)}) = i - 1]
    BY DEF InOrder
  <2>2. s \in [1 .. Cardinality(S) -> V]
    <3> HIDE DEF s
    <3> QED BY <2>1
  <2>3. \A i \in 1 .. Cardinality(S) :
          s[i] = CHOOSE x \in S : Cardinality({y \in S : BySmallestKey(y, x)}) = i - 1
    <3> HIDE DEF s
    <3> QED BY <2>1
  <2> HIDE DEF s, R, V
  <2>4. ASSUME NEW i \in 1 .. Cardinality(S), \E x \in S : Rank(S, R, x) = i - 1
        PROVE  s[i] \in S /\ Rank(S, R, s[i]) = i - 1
    <3>1. \E x \in S : Cardinality({y \in S : BySmallestKey(y, x)}) = i - 1
      BY <1>2, <2>4
    <3>2. s[i] \in S /\ Cardinality({y \in S : BySmallestKey(y, s[i])}) = i - 1
      BY <2>3, <3>1
    <3> QED BY <1>2, <3>2
  <2> QED BY <2>2, <2>4
<1> HIDE DEF R, s, V
<1>4. Lists(s, S)
  BY <1>1, <1>3, PlacesList
<1> QED BY <1>4 DEF s

(* The files of level 0, newest first. *)
LEMMA NewestList ==
  ASSUME NEW S, S \subseteq Meta, UniqueNumbers(S), IsFiniteSet(S)
  PROVE  Lists(NewestFirst(S), S)
<1> DEFINE R == {p \in S \X S : p[1].number > p[2].number}
           s == NewestFirst(S)
           V == {s[i] : i \in 1 .. Cardinality(S)}
<1>1. StrictOrder(S, R)
  BY DEF StrictOrder, Meta, UniqueNumbers
<1>2. ASSUME NEW x \in S PROVE Rank(S, R, x) = Cardinality({y \in S : y.number > x.number})
  <2>1. {y \in S : <<y, x>> \in R} = {y \in S : y.number > x.number}
    OBVIOUS
  <2> QED BY <2>1 DEF Rank
<1>3. /\ s \in [1 .. Cardinality(S) -> V]
      /\ \A i \in 1 .. Cardinality(S) : (\E x \in S : Rank(S, R, x) = i - 1)
                                           => s[i] \in S /\ Rank(S, R, s[i]) = i - 1
  <2>1. s = [i \in 1 .. Cardinality(S) |->
               CHOOSE x \in S : Cardinality({y \in S : y.number > x.number}) = i - 1]
    BY DEF NewestFirst, InOrder
  <2>2. s \in [1 .. Cardinality(S) -> V]
    <3> HIDE DEF s
    <3> QED BY <2>1
  <2>3. \A i \in 1 .. Cardinality(S) :
          s[i] = CHOOSE x \in S : Cardinality({y \in S : y.number > x.number}) = i - 1
    <3> HIDE DEF s
    <3> QED BY <2>1
  <2> HIDE DEF s, R, V
  <2>4. ASSUME NEW i \in 1 .. Cardinality(S), \E x \in S : Rank(S, R, x) = i - 1
        PROVE  s[i] \in S /\ Rank(S, R, s[i]) = i - 1
    <3>1. \E x \in S : Cardinality({y \in S : y.number > x.number}) = i - 1
      BY <1>2, <2>4
    <3>2. s[i] \in S /\ Cardinality({y \in S : y.number > s[i].number}) = i - 1
      BY <2>3, <3>1
    <3> QED BY <1>2, <3>2
  <2> QED BY <2>2, <2>4
<1> HIDE DEF R, s, V
<1>4. Lists(s, S)
  BY <1>1, <1>3, PlacesList
<1> QED BY <1>4 DEF s
-----------------------------------------------------------------------------
(* The recursive functions of VersionSet and DBImpl: each has a value, and  *)
(* the value has a type.                                                    *)
LEMMA FilesInRangeInside ==
  ASSUME NEW S, NEW files \in Seq(S), NEW lo, NEW hi
  PROVE  FilesInRange(files, lo, hi) \in Seq(ToSet(files))
<1> DEFINE n == Len(files)
           T == Seq(ToSet(files))
           Step(i, x) == IF AfterFile(lo, files[i]) \/ BeforeFile(hi, files[i]) THEN x
                         ELSE Append(x, files[i])
           G == [p \in (1 .. n) \X T |-> Step(p[1], p[2])]
           g == CHOOSE f : f = [i \in 0 .. n |-> IF i = 0 THEN << >> ELSE Step(i, f[i - 1])]
<1>1. n \in Nat /\ << >> \in T /\ \A i \in 1 .. n : files[i] \in ToSet(files)
  BY SequenceFacts DEF ToSet
<1>2. ASSUME NEW i \in 1 .. n, NEW x \in T PROVE Step(i, x) \in T
  BY <1>1
<1> HIDE DEF T, n, Step
<1>3. G \in [(1 .. n) \X T -> T]
  BY <1>2
<1>4. PICK f \in [0 .. n -> T] : Solves(f, n, << >>, G)
  <2> HIDE DEF G
  <2> QED BY <1>1, <1>3, RecursionExists
<1>5. f = [i \in 0 .. n |-> IF i = 0 THEN << >> ELSE Step(i, f[i - 1])]
  <2>1. ASSUME NEW i \in 1 .. n PROVE G[<<i, f[i - 1]>>] = Step(i, f[i - 1])
    <3>1. f[i - 1] \in T
      BY <1>1
    <3> QED BY <3>1
  <2> HIDE DEF G
  <2> QED BY <1>1, <1>4, <2>1 DEF Solves
<1>6. g = [i \in 0 .. n |-> IF i = 0 THEN << >> ELSE Step(i, g[i - 1])]
  <2> HIDE DEF G
  <2> QED BY <1>5
<1> HIDE DEF g, G
<1>7. \A i \in 0 .. n : g[i] \in T
  <2>1. g[0] = << >> /\ \A i \in 1 .. n : g[i] = Step(i, g[i - 1])
    BY <1>1, <1>6
  <2> QED BY <1>1, <1>2, <2>1, Walk
<1>8. FilesInRange(files, lo, hi) = g[n]
  BY DEF FilesInRange, g, Step, n
<1> QED BY <1>1, <1>7, <1>8 DEF T

(* Sizes add up to a number, and no files to nothing. *)
LEMMA TotalFileSizeIsNumber ==
  ASSUME NEW files \in Seq(Meta)
  PROVE  TotalFileSize(files) \in Nat /\ (files = << >> => TotalFileSize(files) = 0)
<1> DEFINE n == Len(files)
           T == Nat
           base == 0
           Step(i, x) == x + files[i].file_size
           G == [p \in (1 .. n) \X T |-> Step(p[1], p[2])]
           g == CHOOSE f : f = [i \in 0 .. n |-> IF i = 0 THEN base ELSE Step(i, f[i - 1])]
<1>1. n \in Nat /\ base \in T
  BY SequenceFacts
<1>2. ASSUME NEW i \in 1 .. n, NEW x \in T PROVE Step(i, x) \in T
  <2>1. files[i].file_size \in Nat
    BY <1>1, SequenceFacts, MetaFacts
  <2> QED BY <2>1
<1> HIDE DEF T, n, base, Step
<1>3. G \in [(1 .. n) \X T -> T]
  BY <1>2
<1>4. PICK f \in [0 .. n -> T] : Solves(f, n, base, G)
  <2> HIDE DEF G
  <2> QED BY <1>1, <1>3, RecursionExists
<1>5. f = [i \in 0 .. n |-> IF i = 0 THEN base ELSE Step(i, f[i - 1])]
  <2>1. ASSUME NEW i \in 1 .. n PROVE G[<<i, f[i - 1]>>] = Step(i, f[i - 1])
    <3>1. f[i - 1] \in T
      BY <1>1
    <3> QED BY <3>1
  <2> HIDE DEF G, g
  <2>2. \A i \in 0 .. n : f[i] = IF i = 0 THEN base ELSE G[<<i, f[i - 1]>>]
    BY <1>4 DEF Solves
  <2>3. \A i \in 0 .. n : f[i] = IF i = 0 THEN base ELSE Step(i, f[i - 1])
    <3>1. \A i \in 0 .. n : i = 0 \/ i \in 1 .. n
      BY <1>1
    <3> QED BY <2>1, <2>2, <3>1
  <2>4. f = [i \in 0 .. n |-> f[i]]
    OBVIOUS
  <2> QED BY <2>3, <2>4
<1>6. g = [i \in 0 .. n |-> IF i = 0 THEN base ELSE Step(i, g[i - 1])]
  <2> HIDE DEF G
  <2> QED BY <1>5
<1> HIDE DEF g, G
<1>7. g[0] = base /\ \A i \in 0 .. n : g[i] \in T
  <2>1. g[0] = base /\ \A i \in 1 .. n : g[i] = Step(i, g[i - 1])
    BY <1>1, <1>6
  <2>2. \A i \in 1 .. n : g[i - 1] \in T => g[i] \in T
    BY <1>2, <2>1
  <2> HIDE DEF Solves
  <2> QED BY <1>1, <2>1, <2>2, Walk
<1>8. TotalFileSize(files) = g[n]
  BY DEF TotalFileSize, g, Step, n, base
<1>9. files = << >> => n = 0
  BY EmptySeq DEF n
<1>10. \A i \in 0 .. n : g[i] \in Nat
  BY <1>7 DEF T
<1> QED BY <1>1, <1>7, <1>8, <1>9, <1>10 DEF base

(* A level that is empty is not full. *)
LEMMA MaxBytesIsPositive ==
  ASSUME NEW level \in Nat \ {0}
  PROVE  MaxBytesForLevel(level) \in Nat \ {0}
<1> DEFINE n == level - 1
           T == Nat \ {0}
           base == LevelSize
           Step(i, x) == x * LevelFactor
           G == [p \in (1 .. n) \X T |-> Step(p[1], p[2])]
           g == CHOOSE f : f = [i \in 0 .. n |-> IF i = 0 THEN base ELSE Step(i, f[i - 1])]
<1>1. n \in Nat /\ base \in T
  BY LevelAssumption
<1>2. ASSUME NEW i \in 1 .. n, NEW x \in T PROVE Step(i, x) \in T
  <2>1. LevelSize \in Nat \ {0} /\ LevelFactor \in Nat \ {0}
    BY LevelAssumption
  <2>2. x * LevelFactor \in Nat \ {0}
    BY <2>1
  <2> QED BY <2>1, <2>2
<1> HIDE DEF T, n, base, Step
<1>3. G \in [(1 .. n) \X T -> T]
  BY <1>2
<1>4. PICK f \in [0 .. n -> T] : Solves(f, n, base, G)
  <2> HIDE DEF G
  <2> QED BY <1>1, <1>3, RecursionExists
<1>5. f = [i \in 0 .. n |-> IF i = 0 THEN base ELSE Step(i, f[i - 1])]
  <2>1. ASSUME NEW i \in 1 .. n PROVE G[<<i, f[i - 1]>>] = Step(i, f[i - 1])
    <3>1. f[i - 1] \in T
      BY <1>1
    <3> QED BY <3>1
  <2> HIDE DEF G, g
  <2>2. \A i \in 0 .. n : f[i] = IF i = 0 THEN base ELSE G[<<i, f[i - 1]>>]
    BY <1>4 DEF Solves
  <2>3. \A i \in 0 .. n : f[i] = IF i = 0 THEN base ELSE Step(i, f[i - 1])
    <3>1. \A i \in 0 .. n : i = 0 \/ i \in 1 .. n
      BY <1>1
    <3> QED BY <2>1, <2>2, <3>1
  <2>4. f = [i \in 0 .. n |-> f[i]]
    OBVIOUS
  <2> QED BY <2>3, <2>4
<1>6. g = [i \in 0 .. n |-> IF i = 0 THEN base ELSE Step(i, g[i - 1])]
  <2> HIDE DEF G
  <2> QED BY <1>5
<1> HIDE DEF g, G
<1>7. g[0] = base /\ \A i \in 0 .. n : g[i] \in T
  <2>1. g[0] = base /\ \A i \in 1 .. n : g[i] = Step(i, g[i - 1])
    BY <1>1, <1>6
  <2>2. \A i \in 1 .. n : g[i - 1] \in T => g[i] \in T
    BY <1>2, <2>1
  <2> HIDE DEF Solves
  <2> QED BY <1>1, <2>1, <2>2, Walk
<1>8. MaxBytesForLevel(level) = g[n]
  BY DEF MaxBytesForLevel, g, Step, n, base
<1> QED BY <1>1, <1>7, <1>8 DEF T, n

(* The level that Finalize picks is one that has a next level. *)
LEMMA CompactionLevelIsLevel ==
  ASSUME NEW v
  PROVE  CompactionLevel(v) \in 0 .. NumLevels - 2
<1> DEFINE n == NumLevels - 2
           T == 0 .. NumLevels - 2
           base == 0
           Step(i, x) == IF Above(Score(v, i), Score(v, x)) THEN i ELSE x
           G == [p \in (1 .. n) \X T |-> Step(p[1], p[2])]
           g == CHOOSE f : f = [i \in 0 .. n |-> IF i = 0 THEN base ELSE Step(i, f[i - 1])]
<1>1. n \in Nat /\ base \in T
  BY LevelAssumption
<1>2. ASSUME NEW i \in 1 .. n, NEW x \in T PROVE Step(i, x) \in T
  OBVIOUS
<1> HIDE DEF T, n, base, Step
<1>3. G \in [(1 .. n) \X T -> T]
  BY <1>2
<1>4. PICK f \in [0 .. n -> T] : Solves(f, n, base, G)
  <2> HIDE DEF G
  <2> QED BY <1>1, <1>3, RecursionExists
<1>5. f = [i \in 0 .. n |-> IF i = 0 THEN base ELSE Step(i, f[i - 1])]
  <2>1. ASSUME NEW i \in 1 .. n PROVE G[<<i, f[i - 1]>>] = Step(i, f[i - 1])
    <3>1. f[i - 1] \in T
      BY <1>1
    <3> QED BY <3>1
  <2> HIDE DEF G, g
  <2>2. \A i \in 0 .. n : f[i] = IF i = 0 THEN base ELSE G[<<i, f[i - 1]>>]
    BY <1>4 DEF Solves
  <2>3. \A i \in 0 .. n : f[i] = IF i = 0 THEN base ELSE Step(i, f[i - 1])
    <3>1. \A i \in 0 .. n : i = 0 \/ i \in 1 .. n
      BY <1>1
    <3> QED BY <2>1, <2>2, <3>1
  <2>4. f = [i \in 0 .. n |-> f[i]]
    OBVIOUS
  <2> QED BY <2>3, <2>4
<1>6. g = [i \in 0 .. n |-> IF i = 0 THEN base ELSE Step(i, g[i - 1])]
  <2> HIDE DEF G
  <2> QED BY <1>5
<1> HIDE DEF g, G
<1>7. g[0] = base /\ \A i \in 0 .. n : g[i] \in T
  <2>1. g[0] = base /\ \A i \in 1 .. n : g[i] = Step(i, g[i - 1])
    BY <1>1, <1>6
  <2>2. \A i \in 1 .. n : g[i - 1] \in T => g[i] \in T
    BY <1>2, <2>1
  <2> HIDE DEF Solves
  <2> QED BY <1>1, <2>1, <2>2, Walk
<1>8. CompactionLevel(v) = g[n]
  BY DEF CompactionLevel, g, Step, n, base
<1> QED BY <1>1, <1>7, <1>8 DEF T, n

(* The loop of a compaction: what it has so far is always tables that are   *)
(* not empty, made of entries.                                              *)
TableSeq == Seq(Entry) \ {<< >>}
Merging(cc) == [key : Key \cup {NULL}, last : 1 .. MaxSeq \cup {MaxSequence}, gp : 0 .. Len(cc.grand),
                over : Nat, seen : BOOLEAN, done : Seq(TableSeq), out : Seq(Entry)]
(* ShouldStopBefore moves its pointer within the grandparents only.         *)
LEMMA StopFacts ==
  ASSUME NEW cc, cc.grand \in Seq(Meta), NEW st \in Merging(cc), NEW e
  PROVE  /\ ShouldStopBefore(cc, st, e).gp \in 0 .. Len(cc.grand)
         /\ ShouldStopBefore(cc, st, e).over \in Nat
<1> DEFINE passed == {i \in st.gp + 1 .. Len(cc.grand) :
                        \A j \in st.gp + 1 .. i : ILess(cc.grand[j].largest, IKey(e))}
           n == Cardinality(passed)
           more == IF st.seen THEN TotalFileSize(SubSeq(cc.grand, st.gp + 1, st.gp + n)) ELSE 0
<1>1. st.gp \in 0 .. Len(cc.grand) /\ st.over \in Nat /\ Len(cc.grand) \in Nat
  BY SequenceFacts DEF Merging
<1>2. IsFiniteSet(st.gp + 1 .. Len(cc.grand))
      /\ Cardinality(st.gp + 1 .. Len(cc.grand)) <= Len(cc.grand) - st.gp
  <2>1. st.gp + 1 \in Int /\ Len(cc.grand) \in Int
    BY <1>1
  <2>2. IsFiniteSet(st.gp + 1 .. Len(cc.grand)) /\ Cardinality(st.gp + 1 .. Len(cc.grand)) =
          IF st.gp + 1 > Len(cc.grand) THEN 0 ELSE Len(cc.grand) - (st.gp + 1) + 1
    BY <2>1, FS_Interval
  <2> QED BY <1>1, <2>2
<1>3. n \in Nat /\ st.gp + n \in 0 .. Len(cc.grand)
  <2>1. passed \in SUBSET (st.gp + 1 .. Len(cc.grand))
    OBVIOUS
  <2> HIDE DEF passed
  <2>2. IsFiniteSet(passed) /\ n <= Cardinality(st.gp + 1 .. Len(cc.grand)) /\ n \in Nat
    BY <1>2, <2>1, FS_Subset, FS_CardinalityType
  <2>3. Cardinality(st.gp + 1 .. Len(cc.grand)) \in Nat
    BY <1>2, FS_CardinalityType
  <2> HIDE DEF n
  <2> QED BY <1>1, <1>2, <2>2, <2>3
<1> HIDE DEF n
<1>4. SubSeq(cc.grand, st.gp + 1, st.gp + n) \in Seq(Meta)
  <2>1. st.gp + 1 \in Int /\ st.gp + n \in Int
    BY <1>1, <1>3
  <2>2. \A i \in st.gp + 1 .. st.gp + n : i \in 1 .. Len(cc.grand)
    BY <1>1, <1>3
  <2>3. \A i \in st.gp + 1 .. st.gp + n : cc.grand[i] \in Meta
    BY <2>2, SequenceFacts
  <2> QED BY <2>1, <2>3, SubSeqProperties
<1>5. more \in Nat
  <2>1. TotalFileSize(SubSeq(cc.grand, st.gp + 1, st.gp + n)) \in Nat
    BY <1>4, TotalFileSizeIsNumber
  <2> QED BY <2>1
<1> HIDE DEF more
<1>6. ShouldStopBefore(cc, st, e) = Progress(st.gp + n, st.over + more)
  BY DEF ShouldStopBefore, PassFiles, more, n
<1>7. st.over + more \in Nat
  BY <1>1, <1>5
<1>8. Progress(st.gp + n, st.over + more).gp = st.gp + n
      /\ Progress(st.gp + n, st.over + more).over \in {0, st.over + more}
  BY DEF Progress
<1> QED BY <1>3, <1>6, <1>7, <1>8

(* FinishCompactionOutputFile keeps the state of the merge well formed.     *)
LEMMA FinishOutputTyped ==
  ASSUME NEW cc, NEW st \in Merging(cc), st.out # << >>
  PROVE  FinishOutput(st) \in Merging(cc)
<1>1. st.out \in TableSeq /\ st.done \in Seq(TableSeq)
  BY DEF Merging, TableSeq
<1>2. Append(st.done, st.out) \in Seq(TableSeq)
  BY <1>1
<1>3. << >> \in Seq(Entry)
  OBVIOUS
<1> QED BY <1>2, <1>3 DEF Merging, FinishOutput

(* One turn of the loop of DoCompactionWork keeps the state of the merge    *)
(* well formed.                                                             *)
LEMMA CompactEntryTyped ==
  ASSUME NEW cc, cc.grand \in Seq(Meta), NEW snap, NEW st \in Merging(cc), NEW e \in Entry
  PROVE  CompactEntry(cc, snap, st, e) \in Merging(cc)
<1> DEFINE sb == ShouldStopBefore(cc, st, e)
           s1 == IF sb.stop /\ st.out # << >> THEN FinishOutput(st) ELSE st
           s2 == [s1 EXCEPT !.gp = sb.gp, !.over = sb.over, !.seen = TRUE]
           s3 == [s2 EXCEPT !.key = e.k, !.last = e.s,
                            !.out = IF Drop(cc, st, e, snap) THEN @ ELSE Append(@, e)]
<1>1. sb.gp \in 0 .. Len(cc.grand) /\ sb.over \in Nat
  BY StopFacts
<1> HIDE DEF sb
<1>2. s1 \in Merging(cc)
  BY FinishOutputTyped
<1> HIDE DEF s1
<1>3. s2 \in Merging(cc)
  BY <1>1, <1>2 DEF Merging
<1> HIDE DEF s2
<1>4. s3 \in Merging(cc)
  <2>1. e.k \in Key /\ e.s \in 1 .. MaxSeq
    BY DEF Entry
  <2>2. s2.out \in Seq(Entry)
    BY <1>3 DEF Merging
  <2>3. Append(s2.out, e) \in Seq(Entry)
    BY <2>2
  <2> DEFINE o == IF Drop(cc, st, e, snap) THEN s2.out ELSE Append(s2.out, e)
  <2>4. o \in Seq(Entry)
    BY <2>2, <2>3
  <2>5. s3 = [s2 EXCEPT !.key = e.k, !.last = e.s, !.out = o]
    BY <1>3 DEF Merging
  <2> HIDE DEF o, s3
  <2> QED BY <1>3, <2>1, <2>4, <2>5 DEF Merging
<1> HIDE DEF s3
<1>5. CompactEntry(cc, snap, st, e) = CutIfFull(s3)
  BY DEF CompactEntry, CutBefore, s1, s2, s3, sb
<1>6. CASE Len(s3.out) >= MaxFileSize
  <2>1. s3.out # << >>
    BY <1>6, LevelAssumption, EmptySeq
  <2> QED BY <1>4, <1>5, <1>6, <2>1, FinishOutputTyped DEF CutIfFull
<1>7. CASE ~(Len(s3.out) >= MaxFileSize)
  BY <1>4, <1>5, <1>7 DEF CutIfFull
<1> QED BY <1>6, <1>7

(* So is the state after all the entries. *)
LEMMA MergeIntoTyped ==
  ASSUME NEW cc, cc.grand \in Seq(Meta), NEW snap, NEW entries \in Seq(Entry)
  PROVE  MergeInto(cc, snap, entries) \in Merging(cc)
<1> DEFINE n == Len(entries)
           T == Merging(cc)
           base == NothingWritten
           Step(i, x) == CompactEntry(cc, snap, x, entries[i])
           G == [p \in (1 .. n) \X T |-> Step(p[1], p[2])]
           g == CHOOSE f : f = [i \in 0 .. n |-> IF i = 0 THEN base ELSE Step(i, f[i - 1])]
<1>1. n \in Nat /\ base \in T
  <2>1. n \in Nat /\ Len(cc.grand) \in Nat
    BY SequenceFacts
  <2>2. << >> \in Seq(TableSeq) /\ << >> \in Seq(Entry)
    OBVIOUS
  <2>3. 0 \in 0 .. Len(cc.grand)
    BY <2>1
  <2> QED BY <2>1, <2>2, <2>3 DEF NothingWritten, Merging
<1>2. ASSUME NEW i \in 1 .. n, NEW x \in T PROVE Step(i, x) \in T
  <2>1. entries[i] \in Entry
    BY <1>1, SequenceFacts
  <2> QED BY <2>1, CompactEntryTyped
<1> HIDE DEF T, n, base, Step
<1>3. G \in [(1 .. n) \X T -> T]
  BY <1>2
<1>4. PICK f \in [0 .. n -> T] : Solves(f, n, base, G)
  <2> HIDE DEF G
  <2> QED BY <1>1, <1>3, RecursionExists
<1>5. f = [i \in 0 .. n |-> IF i = 0 THEN base ELSE Step(i, f[i - 1])]
  <2>1. ASSUME NEW i \in 1 .. n PROVE G[<<i, f[i - 1]>>] = Step(i, f[i - 1])
    <3>1. f[i - 1] \in T
      BY <1>1
    <3> QED BY <3>1
  <2> HIDE DEF G, g
  <2>2. \A i \in 0 .. n : f[i] = IF i = 0 THEN base ELSE G[<<i, f[i - 1]>>]
    BY <1>4 DEF Solves
  <2>3. \A i \in 0 .. n : f[i] = IF i = 0 THEN base ELSE Step(i, f[i - 1])
    <3>1. \A i \in 0 .. n : i = 0 \/ i \in 1 .. n
      BY <1>1
    <3> QED BY <2>1, <2>2, <3>1
  <2>4. f = [i \in 0 .. n |-> f[i]]
    OBVIOUS
  <2> QED BY <2>3, <2>4
<1>6. g = [i \in 0 .. n |-> IF i = 0 THEN base ELSE Step(i, g[i - 1])]
  <2> HIDE DEF G
  <2> QED BY <1>5
<1> HIDE DEF g, G
<1>7. g[0] = base /\ \A i \in 0 .. n : g[i] \in T
  <2>1. g[0] = base /\ \A i \in 1 .. n : g[i] = Step(i, g[i - 1])
    BY <1>1, <1>6
  <2>2. \A i \in 1 .. n : g[i - 1] \in T => g[i] \in T
    BY <1>2, <2>1
  <2> HIDE DEF Solves
  <2> QED BY <1>1, <2>1, <2>2, Walk
<1>8. MergeInto(cc, snap, entries) = g[n]
  BY DEF MergeInto, g, Step, n, base
<1> QED BY <1>1, <1>7, <1>8 DEF T, n

(* DoCompactionWork writes tables of entries, none of them empty: the       *)
(* outputs the compaction has left to write.                                *)
LEMMA CompactionOutputsTyped ==
  ASSUME NEW cc, cc.grand \in Seq(Meta), NEW snap,
         InputEntries(cc) \subseteq Entry, IsFiniteSet(InputEntries(cc))
  PROVE  CompactionOutputs(cc, snap) \in Seq(TableSeq)
<1> DEFINE entries == InKeyOrder(InputEntries(cc))
           st == MergeInto(cc, snap, entries)
<1>1. entries \in Seq(Entry)
  BY EntriesList, SeqMonotonic DEF Lists
<1>2. st \in Merging(cc)
  <2> HIDE DEF entries
  <2> QED BY <1>1, MergeIntoTyped
<1>3. st.done \in Seq(TableSeq) /\ st.out \in Seq(Entry)
  <2> HIDE DEF st
  <2> QED BY <1>2 DEF Merging
<1>4. st.out # << >> => Append(st.done, st.out) \in Seq(TableSeq)
  <2> HIDE DEF st
  <2> QED BY <1>3 DEF TableSeq
<1> QED BY <1>3, <1>4 DEF CompactionOutputs, OutputsOf
-----------------------------------------------------------------------------
(* There are finitely many entries, and finitely many files with different  *)
(* numbers below a bound.                                                   *)
LEMMA EntryIsFinite == IsFiniteSet(Entry)
<1> DEFINE K == (Key \X (1 .. MaxSeq)) \X BOOLEAN
           f == [p \in K |-> [k |-> p[1][1], s |-> p[1][2], del |-> p[2]]]
<1>1. IsFiniteSet(K)
  <2>1. IsFiniteSet(Key) /\ MaxSeq \in Nat
    BY DBAssumption
  <2>2. IsFiniteSet(1 .. MaxSeq)
    BY <2>1, FS_Interval
  <2>3. IsFiniteSet(BOOLEAN)
    <3>1. IsFiniteSet({TRUE})
      BY FS_Singleton
    <3>2. IsFiniteSet({TRUE} \cup {FALSE})
      BY <3>1, FS_AddElement
    <3>3. {TRUE} \cup {FALSE} = BOOLEAN
      OBVIOUS
    <3> QED BY <3>2, <3>3
  <2>4. IsFiniteSet(Key \X (1 .. MaxSeq))
    BY <2>1, <2>2, FS_Product
  <2> QED BY <2>3, <2>4, FS_Product
<1>2. f \in [K -> Entry]
  BY DEF Entry
<1>3. ASSUME NEW x \in Entry PROVE \E p \in K : f[p] = x
  <2>1. <<<<x.k, x.s>>, x.del>> \in K
    BY DEF Entry
  <2>2. f[<<<<x.k, x.s>>, x.del>>] = x
    BY <2>1, EntryFacts
  <2> QED BY <2>1, <2>2
<1>4. f \in Surjection(K, Entry)
  <2> HIDE DEF f, K
  <2> QED BY <1>2, <1>3 DEF Surjection
<1> HIDE DEF f, K
<1> QED BY <1>1, <1>4, FS_Surjection

(* Files with different numbers below a bound are finitely many.            *)
LEMMA FilesAreFinite ==
  ASSUME NEW S, S \subseteq Meta, UniqueNumbers(S), NEW n \in Nat, \A f \in S : f.number < n
  PROVE  IsFiniteSet(S)
<1> DEFINE g == [x \in S |-> x.number]
<1>1. \A x \in S : x.number \in 0 .. n
  BY DEF Meta
<1>2. g \in Injection(S, 0 .. n)
  <2>1. g \in [S -> 0 .. n]
    BY <1>1
  <2>2. \A x, y \in S : g[x] = g[y] => x = y
    BY DEF UniqueNumbers
  <2> HIDE DEF g
  <2> QED BY <2>1, <2>2 DEF Injection, IsInjective
<1>3. IsFiniteSet(0 .. n)
  BY FS_Interval
<1> HIDE DEF g
<1> QED BY <1>2, <1>3, FS_Injection

(* The file of a set of entries that is not empty. *)
LEMMA FileMetaTyped ==
  ASSUME NEW n \in Nat, NEW entries, entries \subseteq Entry, entries # {}
  PROVE  FileMeta(n, entries) \in Meta /\ FileMeta(n, entries).number = n
<1> DEFINE s == InKeyOrder(entries)
<1>1. IsFiniteSet(entries)
  BY EntryIsFinite, FS_Subset
<1>2. s \in Seq(entries) /\ ToSet(s) = entries
  BY <1>1, EntriesList DEF Lists
<1> HIDE DEF s
<1>3. Len(s) \in Nat /\ s # << >>
  <2>1. s = << >> => ToSet(s) = {}
    BY DEF ToSet
  <2> QED BY <1>2, <2>1, SequenceFacts
<1>4. 1 \in 1 .. Len(s) /\ Len(s) \in 1 .. Len(s)
  BY <1>2, <1>3, EmptySeq
<1>5. s[1] \in Entry /\ s[Len(s)] \in Entry
  BY <1>2, <1>4, SequenceFacts
<1>6. IKey(s[1]) \in InternalKey /\ IKey(s[Len(s)]) \in InternalKey
  BY <1>5, EntryFacts
<1> QED BY <1>3, <1>6 DEF FileMeta, MetaOf, Meta, s

(* SaveTo puts the files of a level in order, and drops none.               *)
LEMMA SaveToLists ==
  ASSUME NEW v, NEW b, NEW l \in Level,
         NEW S, S = {f \in ToSet(v[l]) \cup b[l].added : f.number \notin b[l].deleted},
         S \subseteq Meta, UniqueNumbers(S), IsFiniteSet(S)
  PROVE  SaveTo(v, b)[l] \in Seq(S) /\ ToSet(SaveTo(v, b)[l]) = S
<1>1. SaveTo(v, b)[l] = InOrder(S, BySmallestKey)
  BY DEF SaveTo
<1>2. Lists(InOrder(S, BySmallestKey), S)
  BY FilesList
<1> QED BY <1>1, <1>2 DEF Lists

(* SaveTo gives every level its list.                                       *)
LEMMA SaveToDomain ==
  ASSUME NEW v, NEW b, NEW T, \A l \in Level : SaveTo(v, b)[l] \in T
  PROVE  SaveTo(v, b) \in [Level -> T]
BY DEF SaveTo
-----------------------------------------------------------------------------
(* The files an edit adds; those the manifest has ever added; those of the  *)
(* edit of a memtable compaction or of Open that is not yet installed.      *)
EditFiles(e) == {x[2] : x \in e.add}
ManifestFiles == UNION {EditFiles(manifest[i]) : i \in DOMAIN manifest}
MemEdit == open = "recovering" \/ m.stage \in {"apply", "install"}
MemFiles == IF MemEdit THEN EditFiles(m.edit) ELSE {}
CompactionEdit == c.stage \in {"apply", "install"}
Outputs == IF c.stage # "none" THEN ToSet(c.files) ELSE {}
AllFiles == ManifestFiles \cup MemFiles \cup Outputs

(* The files of a level after the edits of a manifest, and what an edit     *)
(* makes of the files of a level.                                           *)
Live(edits, level) == {f \in Applied(edits)[level].added : f.number \notin Applied(edits)[level].deleted}
After(files, e, level) ==
  {f \in files \cup At(e.add, level) : f.number \notin StillDeleted(<<e>>, 1, level)}

EditOK(e) == e.add \subseteq Level \X Meta /\ e.next \in Nat /\ e.seq \in Nat
Numbered(e) == EndOfManifest.next <= e.next /\ e.next <= vs.next
VersionOK(v) == /\ v \in [Level -> Seq(Meta)]
                /\ \A l \in Level : \A f \in ToSet(v[l]) : f \in ManifestFiles /\ f.number \in DOMAIN tables

PhaseOK ==
  /\ open \in {"closed", "recovering", "open", "closing"}
  /\ open \in {"closed", "recovering"} => c.stage = "none" /\ reader = NULL /\ seek = NULL /\ imm = NULL /\ manual = NULL
  /\ open = "closed" => m.stage = "none"
  /\ open = "recovering" => m.stage = "recover"
  /\ open = "closing" => manual = NULL

DataOK ==
  /\ tables \in [DOMAIN tables -> SUBSET Entry]
  /\ mem \subseteq Entry /\ (imm = NULL \/ imm \subseteq Entry)
  /\ IsFiniteSet(DOMAIN logs) /\ DOMAIN logs \subseteq Nat
  /\ logs \in [DOMAIN logs -> Seq(Seq(Entry))]

NumbersOK ==
  /\ vs = [next |-> vs.next, log |-> vs.log, seq |-> vs.seq, logfile |-> vs.logfile]
  /\ vs.next \in Nat /\ vs.seq \in Nat
  /\ manifest \in Seq({manifest[i] : i \in DOMAIN manifest}) /\ manifest # << >>
  /\ \A i \in DOMAIN manifest : EditOK(manifest[i])
  /\ open # "closed" => EndOfManifest.next <= vs.next

FilesOK ==
  /\ UniqueNumbers(AllFiles)
  /\ \A f \in ManifestFiles : f.number < EndOfManifest.next
  /\ open # "closed" => \A f \in AllFiles : f.number < vs.next

VersionsOK ==
  /\ VersionOK(current)
  /\ c.stage # "none" => VersionOK(c.version)
  /\ reader # NULL => VersionOK(reader.version)
  /\ \A l \in Level : \A f \in Live(manifest, l) : f.number \in DOMAIN tables

CompactionOK == c.stage # "none" =>
  /\ c = [level |-> c.level, version |-> c.version, in0 |-> c.in0, in1 |-> c.in1, pointer |-> c.pointer,
          grand |-> c.grand, manual |-> c.manual, trivial |-> c.trivial, files |-> c.files,
          stage |-> c.stage, left |-> c.left, edit |-> c.edit]
  /\ c.level \in 0 .. NumLevels - 2
  /\ c.in0 \in Seq(ToSet(c.version[c.level])) /\ c.in1 \in Seq(ToSet(c.version[c.level + 1]))
  /\ c.left \in Seq(TableSeq) /\ c.stage \in {"work", "apply", "install"}
  /\ c.files \in Seq(Meta)
  /\ \A f \in ToSet(c.files) : f.number \in DOMAIN tables /\ f.number \in pending
  /\ CompactionEdit => /\ m.stage = "none" /\ EditOK(c.edit) /\ Numbered(c.edit)
                       /\ \A f \in ToSet(c.files) : f.number < c.edit.next
                       /\ EditFiles(c.edit) \subseteq ToSet(c.files) \cup ToSet(c.in0)
  /\ c.stage = "install" => EditFiles(c.edit) \subseteq ManifestFiles

MemCompactionOK ==
  /\ open # "recovering" /\ m.stage # "none" =>
       /\ m = [number |-> m.number, base |-> m.base, stage |-> m.stage, edit |-> m.edit]
       /\ m.stage \in {"build", "apply", "install"}
       /\ m.stage = "build" =>
            /\ m.edit = NULL /\ imm # NULL /\ m.number \in Nat /\ m.number < vs.next
            /\ \A f \in AllFiles : f.number # m.number
       /\ m.stage = "install" => EditFiles(m.edit) \subseteq ManifestFiles
       /\ c.stage # "none" => c.stage = "work"
  /\ MemEdit => /\ EditOK(m.edit) /\ Numbered(m.edit)
                /\ \A f \in EditFiles(m.edit) : f.number < m.edit.next /\ f.number \in DOMAIN tables

CurrentOK ==
  open # "closed" /\ ~bgError => \A l \in Level : Live(manifest, l) \subseteq
    IF open # "recovering" /\ m.stage = "install" THEN After(ToSet(current[l]), m.edit, l)
    ELSE IF c.stage = "install" THEN After(ToSet(current[l]), c.edit, l)
    ELSE ToSet(current[l])

SeekOK == seek # NULL => seek[1] \in 0 .. NumLevels - 2 /\ seek[2] \in ToSet(current[seek[1]])

ManualOK ==
  /\ manual # NULL =>
       /\ manual = [stage |-> manual.stage, level |-> manual.level, top |-> manual.top, lo |-> manual.lo,
                    hi |-> manual.hi, begin |-> manual.begin, posted |-> manual.posted, done |-> manual.done]
       /\ manual.level \in Nat /\ manual.top \in 1 .. NumLevels - 1 /\ manual.level < manual.top
       /\ manual.posted => ~manual.done /\ manual.stage = "level"
  /\ ManualCompactionKept

IInv == /\ PhaseOK /\ DataOK /\ NumbersOK /\ FilesOK /\ VersionsOK /\ CompactionOK /\ MemCompactionOK
        /\ CurrentOK /\ SeekOK /\ ManualOK
-----------------------------------------------------------------------------
(* Edits and the files of the levels.                                       *)
LEMMA AtFacts ==
  ASSUME NEW e, e.add \subseteq Level \X Meta, NEW l \in Level
  PROVE  /\ At(e.add, l) = {x[2] : x \in {y \in e.add : y[1] = l}}
         /\ At(e.add, l) \subseteq EditFiles(e) /\ EditFiles(e) \subseteq Meta
         /\ \A f \in EditFiles(e) : \E k \in Level : <<k, f>> \in e.add
<1>1. \A x \in e.add : x = <<x[1], x[2]>> /\ x[1] \in Level /\ x[2] \in Meta
  OBVIOUS
<1>2. At(e.add, l) = {x[2] : x \in {y \in e.add : y[1] = l}}
  BY DEF At
<1>3. At(e.add, l) \subseteq EditFiles(e) /\ EditFiles(e) \subseteq Meta
  BY <1>1, <1>2 DEF EditFiles
<1>4. \A f \in EditFiles(e) : \E k \in Level : <<k, f>> \in e.add
  <2> TAKE f \in EditFiles(e)
  <2>1. PICK x \in e.add : f = x[2]
    BY DEF EditFiles
  <2>2. <<x[1], f>> \in e.add
    BY <1>1, <2>1
  <2> QED BY <1>1, <2>1, <2>2
<1> QED BY <1>2, <1>3, <1>4

(* The Builder of one edit. *)
LEMMA OneEdit ==
  ASSUME NEW e, NEW l \in Level
  PROVE  /\ Applied(<<e>>)[l].added = At(e.add, l)
         /\ Applied(<<e>>)[l].deleted = StillDeleted(<<e>>, 1, l)
         /\ StillDeleted(<<e>>, 1, l) = {n \in At(e.del, l) : n \notin AddedAt(e, l)}
<1> DEFINE M == <<e>>
<1>1. DOMAIN M = {1} /\ M[1] = e /\ Len(M) = 1 /\ 1 .. 1 = {1}
  OBVIOUS
<1> HIDE DEF M
<1>2. /\ Applied(M)[l].added = UNION {At(M[i].add, l) : i \in DOMAIN M}
      /\ Applied(M)[l].deleted = UNION {StillDeleted(M, i, l) : i \in DOMAIN M}
  BY DEF Applied
<1>3. StillDeleted(M, 1, l) = {n \in At(e.del, l) : n \notin AddedAt(e, l)}
  BY <1>1 DEF StillDeleted
<1>4. UNION {At(M[i].add, l) : i \in DOMAIN M} = At(e.add, l)
  BY <1>1
<1>5. UNION {StillDeleted(M, i, l) : i \in DOMAIN M} = StillDeleted(M, 1, l)
  BY <1>1
<1> QED BY <1>2, <1>3, <1>4, <1>5 DEF M

(* An edit more: what is live was live or is added, and is not deleted.     *)
LEMMA LiveAfterEdit ==
  ASSUME NEW S, NEW M \in Seq(S), NEW e, NEW l \in Level,
         NEW fs, UniqueNumbers(fs), At(e.add, l) \subseteq fs, Applied(M)[l].added \subseteq fs
  PROVE  Live(Append(M, e), l) \subseteq After(Live(M, l), e, l)
<1> DEFINE N == Append(M, e)
           n == Len(M)
<1>1. /\ n \in Nat /\ DOMAIN M = 1 .. n /\ DOMAIN N = 1 .. n + 1 /\ Len(N) = n + 1
      /\ N[n + 1] = e /\ \A i \in 1 .. n : N[i] = M[i]
  <2>1. M \in Seq(S \cup {e})
    BY SeqMonotonic
  <2> QED BY <2>1, AppendProperties, LenProperties
<1>2. /\ Applied(M)[l].added = UNION {At(M[i].add, l) : i \in DOMAIN M}
      /\ Applied(M)[l].deleted = UNION {StillDeleted(M, i, l) : i \in DOMAIN M}
      /\ Applied(N)[l].added = UNION {At(N[i].add, l) : i \in DOMAIN N}
      /\ Applied(N)[l].deleted = UNION {StillDeleted(N, i, l) : i \in DOMAIN N}
  BY DEF Applied
<1> HIDE DEF N, n
<1>3. StillDeleted(N, n + 1, l) = StillDeleted(<<e>>, 1, l)
  <2>1. StillDeleted(<<e>>, 1, l) = {k \in At(e.del, l) : k \notin AddedAt(e, l)}
    BY OneEdit
  <2>2. n + 1 .. Len(N) = {n + 1}
    BY <1>1
  <2>3. StillDeleted(N, n + 1, l) = {k \in At(e.del, l) : k \notin AddedAt(e, l)}
    BY <1>1, <2>2 DEF StillDeleted
  <2> QED BY <2>1, <2>3
<1>4. ASSUME NEW f \in Live(N, l) PROVE f \in After(Live(M, l), e, l)
  <2>1. f \in Applied(N)[l].added /\ f.number \notin Applied(N)[l].deleted
    BY DEF Live
  <2>2. f.number \notin StillDeleted(<<e>>, 1, l)
    <3>1. n + 1 \in DOMAIN N
      BY <1>1
    <3> QED BY <1>2, <1>3, <2>1, <3>1
  <2>3. CASE f \in At(e.add, l)
    BY <2>2, <2>3 DEF After
  <2>4. CASE f \notin At(e.add, l)
    <3>1. PICK i \in DOMAIN N : f \in At(N[i].add, l)
      BY <1>2, <2>1
    <3>2. i \in 1 .. n /\ f \in At(M[i].add, l)
      BY <1>1, <2>4, <3>1
    <3>3. f \in Applied(M)[l].added
      BY <1>1, <1>2, <3>2
    <3>4. f.number \notin AddedAt(e, l)
      <4>1. f \in fs
        BY <3>3
      <4> QED BY <2>4, <4>1 DEF AddedAt, UniqueNumbers
    <3>5. f.number \notin Applied(M)[l].deleted
      <4> SUFFICES ASSUME f.number \in Applied(M)[l].deleted PROVE FALSE
        OBVIOUS
      <4>1. PICK j \in DOMAIN M : f.number \in StillDeleted(M, j, l)
        BY <1>2
      <4>2. f.number \in At(M[j].del, l) /\ \A k \in j .. n : f.number \notin AddedAt(M[k], l)
        BY <4>1 DEF StillDeleted, n
      <4>3. j \in 1 .. n /\ N[j] = M[j] /\ j \in DOMAIN N
        BY <1>1, <4>1
      <4>4. ASSUME NEW k \in j .. Len(N) PROVE f.number \notin AddedAt(N[k], l)
        <5>1. k = n + 1 \/ (k \in j .. n /\ k \in 1 .. n)
          BY <1>1, <4>3
        <5> QED BY <1>1, <3>4, <4>2, <5>1
      <4>5. f.number \in StillDeleted(N, j, l)
        BY <4>2, <4>3, <4>4 DEF StillDeleted
      <4> QED BY <1>2, <2>1, <4>3, <4>5
    <3> QED BY <2>2, <3>3, <3>5 DEF After, Live
  <2> QED BY <2>3, <2>4
<1> QED BY <1>4 DEF N

(* Installing an edit. *)
LEMMA InstalledLists ==
  ASSUME NEW v, NEW e, NEW l \in Level, ToSet(v[l]) \cup At(e.add, l) \subseteq Meta,
         UniqueNumbers(ToSet(v[l]) \cup At(e.add, l)),
         NEW n \in Nat, \A f \in ToSet(v[l]) \cup At(e.add, l) : f.number < n
  PROVE  /\ SaveTo(v, Applied(<<e>>))[l] \in Seq(Meta)
         /\ ToSet(SaveTo(v, Applied(<<e>>))[l]) = After(ToSet(v[l]), e, l)
<1> DEFINE S == After(ToSet(v[l]), e, l)
<1>1. S = {f \in ToSet(v[l]) \cup Applied(<<e>>)[l].added : f.number \notin Applied(<<e>>)[l].deleted}
  BY OneEdit DEF After
<1>2. S \subseteq ToSet(v[l]) \cup At(e.add, l)
  BY DEF After
<1> HIDE DEF S
<1>3. S \subseteq Meta /\ UniqueNumbers(S)
  BY <1>2 DEF UniqueNumbers
<1>4. IsFiniteSet(S)
  BY <1>2, <1>3, FilesAreFinite
<1>5. SaveTo(v, Applied(<<e>>))[l] \in Seq(S) /\ ToSet(SaveTo(v, Applied(<<e>>))[l]) = S
  BY <1>1, <1>3, <1>4, SaveToLists
<1>6. SaveTo(v, Applied(<<e>>))[l] \in Seq(Meta)
  BY <1>3, <1>5, SeqMonotonic
<1> QED BY <1>5, <1>6 DEF S

(* Replaying a manifest. *)
LEMMA ReplayLists ==
  ASSUME NEW M, NEW l \in Level, Applied(M)[l].added \subseteq Meta,
         UniqueNumbers(Applied(M)[l].added),
         NEW n \in Nat, \A f \in Applied(M)[l].added : f.number < n
  PROVE  Replay(M)[l] \in Seq(Meta) /\ ToSet(Replay(M)[l]) = Live(M, l)
<1> DEFINE S == Live(M, l)
<1>1. S \subseteq Applied(M)[l].added
  BY DEF Live
<1>2. S = {f \in ToSet(EmptyVersion[l]) \cup Applied(M)[l].added : f.number \notin Applied(M)[l].deleted}
  <2>1. ToSet(EmptyVersion[l]) = {}
    BY DEF EmptyVersion, ToSet
  <2> QED BY <2>1 DEF Live
<1> HIDE DEF S
<1>3. S \subseteq Meta /\ UniqueNumbers(S)
  BY <1>1 DEF UniqueNumbers
<1>4. IsFiniteSet(S)
  BY <1>1, <1>3, FilesAreFinite
<1>5. Replay(M)[l] \in Seq(S) /\ ToSet(Replay(M)[l]) = S
  BY <1>2, <1>3, <1>4, SaveToLists DEF Replay
<1>6. Replay(M)[l] \in Seq(Meta)
  BY <1>3, <1>5, SeqMonotonic
<1> QED BY <1>5, <1>6 DEF S

(* The numbers of the files of a version.                                   *)
LEMMA FilesOfFacts ==
  ASSUME NEW v, NEW D, \A l \in Level : \A f \in ToSet(v[l]) : f.number \in D
  PROVE  FilesOf(v) \subseteq D
BY DEF FilesOf
-----------------------------------------------------------------------------
(* What the picks return: files of the level, and a level that has a next.  *)
Lower == 0 .. NumLevels - 2
(* A level that a compaction may start from has a level below it.           *)
LEMMA LowerFacts ==
  /\ NumLevels \in Nat /\ NumLevels > 1
  /\ \A l \in Lower : l \in Level /\ l + 1 \in Level /\ l \in Nat
BY LevelAssumption DEF Lower, Level

(* GetOverlappingInputs returns files of the level it searches.             *)
LEMMA OverlappingInside ==
  ASSUME NEW v, NEW level, v[level] \in Seq(Meta), NEW lo, NEW hi
  PROVE  GetOverlappingInputs(v, level, lo, hi) \in Seq(ToSet(v[level]))
BY FilesInRangeInside DEF GetOverlappingInputs, InWidest

(* So does the level-0 extension of PickCompaction.                         *)
LEMMA WithOverlappingInside ==
  ASSUME NEW v, NEW level, v[level] \in Seq(Meta), NEW f \in ToSet(v[level])
  PROVE  WithOverlapping(v, level, f).level = level
         /\ WithOverlapping(v, level, f).files \in Seq(ToSet(v[level]))
<1>1. level = 0 => GetOverlappingInputs(v, 0, f.smallest.k, f.largest.k) \in Seq(ToSet(v[level]))
  BY OverlappingInside
<1>2. <<f>> \in Seq(ToSet(v[level]))
  OBVIOUS
<1> QED BY <1>1, <1>2 DEF WithOverlapping, Inputs

(* The file after the compaction pointer, or the first: one of the files of *)
(* the level.                                                               *)
LEMMA FromPointerInside ==
  ASSUME NEW files \in Seq(Meta), files # << >>, NEW pointer
  PROVE  FromPointer(files, pointer) \in ToSet(files)
<1> DEFINE after == {i \in DOMAIN files : pointer = NULL \/ ILess(pointer, files[i].largest)}
<1>1. DOMAIN files = 1 .. Len(files) /\ Len(files) \in Nat /\ 1 \in DOMAIN files
  BY SequenceFacts, EmptySeq
<1>2. after \subseteq Nat /\ after \subseteq DOMAIN files
  BY <1>1
<1> HIDE DEF after
<1>3. FirstOr(after, 1) \in DOMAIN files
  BY <1>1, <1>2, MinIsLeast DEF FirstOr
<1> QED BY <1>3 DEF FromPointer, ToSet, after

(* A level whose compaction score has reached 1 has a file, so              *)
(* PickCompaction never takes one from an empty level.                      *)
LEMMA FullLevelHasFiles ==
  ASSUME NEW v \in [Level -> Seq(Meta)], SizeCompaction(v)
  PROVE  v[CompactionLevel(v)] # << >>
<1> DEFINE level == CompactionLevel(v)
<1>1. level \in Lower /\ level \in Level /\ level \in Nat
  BY CompactionLevelIsLevel, LowerFacts DEF Lower
<1>2. Score(v, level)[1] >= Score(v, level)[2]
  BY DEF SizeCompaction, AtLimit
<1>3. SUFFICES ASSUME v[level] = << >> PROVE FALSE
  OBVIOUS
<1> HIDE DEF level
<1>4. CASE level = 0
  <2>1. Score(v, level) = <<Len(v[0]), L0Trigger>>
    BY <1>4 DEF Score
  <2>2. Len(v[0]) = 0 /\ L0Trigger \in Nat \ {0}
    BY <1>3, <1>4, LevelAssumption, EmptySeq
  <2> QED BY <1>2, <2>1, <2>2
<1>5. CASE level # 0
  <2>1. Score(v, level) = <<TotalFileSize(v[level]), MaxBytesForLevel(level)>>
    BY <1>5 DEF Score
  <2>2. TotalFileSize(v[level]) = 0
    BY <1>1, <1>3, TotalFileSizeIsNumber
  <2>3. MaxBytesForLevel(level) \in Nat \ {0}
    BY <1>1, <1>5, MaxBytesIsPositive
  <2> QED BY <1>2, <2>1, <2>2, <2>3
<1> QED BY <1>4, <1>5

(* PickCompaction takes its files from one level of the current version.    *)
LEMMA PickedBySizeOrSeek ==
  ASSUME NEW v \in [Level -> Seq(Meta)], NEW charged, NEW ptrs, NEW inputs,
         charged # NULL => charged[1] \in Lower /\ charged[2] \in ToSet(v[charged[1]]),
         inputs = PickCompaction(v, charged, ptrs), inputs # NULL
  PROVE  inputs.level \in Lower /\ inputs.files \in Seq(ToSet(v[inputs.level]))
<1>1. CASE SizeCompaction(v)
  <2> DEFINE level == CompactionLevel(v)
             f == FromPointer(v[level], ptrs[level])
  <2>1. level \in Lower /\ level \in Level
    BY CompactionLevelIsLevel, LowerFacts DEF Lower
  <2>2. v[level] \in Seq(Meta) /\ v[level] # << >>
    BY <1>1, <2>1, FullLevelHasFiles
  <2> HIDE DEF level
  <2>3. f \in ToSet(v[level])
    BY <2>2, FromPointerInside
  <2>4. inputs = PickBySize(v, ptrs)[level]
    BY <1>1 DEF PickCompaction, level
  <2>5. PickBySize(v, ptrs)[level] = WithOverlapping(v, level, f)
    BY <2>1 DEF PickBySize, Lower
  <2> HIDE DEF f
  <2> QED BY <2>1, <2>2, <2>3, <2>4, <2>5, WithOverlappingInside
<1>2. CASE ~SizeCompaction(v)
  <2>1. charged # NULL /\ inputs = WithOverlapping(v, charged[1], charged[2])
    BY <1>2 DEF PickCompaction
  <2>2. charged[1] \in Lower /\ v[charged[1]] \in Seq(Meta) /\ charged[2] \in ToSet(v[charged[1]])
    BY <2>1, LowerFacts
  <2> QED BY <2>1, <2>2, WithOverlappingInside
<1> QED BY <1>1, <1>2

(* VersionSet::CompactRange takes its files from the level it was asked     *)
(* for.                                                                     *)
LEMMA PickedByHand ==
  ASSUME NEW v \in [Level -> Seq(Meta)], NEW level \in Lower, NEW lo, NEW hi, NEW inputs,
         inputs = CompactRange(v, level, lo, hi), inputs # NULL
  PROVE  inputs.level \in Lower /\ inputs.files \in Seq(ToSet(v[inputs.level]))
<1> DEFINE files == GetOverlappingInputs(v, level, lo, hi)
           enough == {i \in DOMAIN files : TotalFileSize(SubSeq(files, 1, i)) >= MaxFileSize}
           S == ToSet(v[level])
<1>1. files \in Seq(S)
  BY LowerFacts, OverlappingInside
<1> HIDE DEF files, S
<1>2. enough \subseteq Nat /\ enough \subseteq DOMAIN files /\ DOMAIN files = 1 .. Len(files) /\ Len(files) \in Nat
  BY <1>1, SequenceFacts
<1>3. FirstOutputOf(files, enough) \in Seq(S)
  <2> HIDE DEF enough
  <2>1. CASE enough = {}
    BY <1>1, <2>1 DEF FirstOutputOf
  <2>2. CASE enough # {}
    <3>1. Min(enough) \in 1 .. Len(files)
      BY <1>2, <2>2, MinIsLeast
    <3>2. \A i \in 1 .. Min(enough) : files[i] \in S
      <4>1. \A i \in 1 .. Min(enough) : i \in 1 .. Len(files)
        BY <1>2, <3>1
      <4> QED BY <1>1, <4>1, SequenceFacts
    <3>3. SubSeq(files, 1, Min(enough)) \in Seq(S)
      BY <3>1, <3>2, SubSeqProperties
    <3> QED BY <2>2, <3>3 DEF FirstOutputOf
  <2> QED BY <2>1, <2>2
<1>4. LimitInputs(level, files) \in Seq(S)
  BY <1>1, <1>3 DEF LimitInputs
<1>5. inputs = Inputs(level, LimitInputs(level, files))
  BY DEF CompactRange, CompactInputs, files
<1> QED BY <1>4, <1>5 DEF Inputs, S

(* SetupOtherInputs stays in the version.                                   *)
ChosenOK(p, v, level) ==
  /\ p.level = level /\ p.version = v
  /\ p.in0 \in Seq(ToSet(v[level])) /\ p.in1 \in Seq(ToSet(v[level + 1])) /\ p.grand \in Seq(Meta)
(* The inputs that SetupOtherInputs settles on are files of the two levels. *)
LEMMA ChosenInside ==
  ASSUME NEW v \in [Level -> Seq(Meta)], NEW level \in Lower, NEW in0 \in Seq(ToSet(v[level])),
         NEW in1 \in Seq(ToSet(v[level + 1])), NEW all, NEW largest
  PROVE  ChosenOK(Chosen(v, level, in0, in1, all, largest), v, level)
<1>1. level + 2 < NumLevels => InputsIn(v, level + 2, all) \in Seq(Meta)
  <2> SUFFICES ASSUME level + 2 < NumLevels PROVE InputsIn(v, level + 2, all) \in Seq(Meta)
    OBVIOUS
  <2>1. level + 2 \in Level
    BY LowerFacts DEF Level
  <2>2. v[level + 2] \in Seq(Meta)
    BY <2>1
  <2>3. InputsIn(v, level + 2, all) \in Seq(ToSet(v[level + 2]))
    BY <2>2, OverlappingInside DEF InputsIn
  <2>4. ToSet(v[level + 2]) \subseteq Meta
    BY <2>2, SequenceFacts
  <2> QED BY <2>3, <2>4, SeqMonotonic
<1>2. << >> \in Seq(Meta)
  OBVIOUS
<1> QED BY <1>1, <1>2 DEF ChosenOK, Chosen

(* SetupOtherInputs, with or without the wider set of level files, takes    *)
(* its inputs from the two levels.                                          *)
LEMMA SetupInside ==
  ASSUME NEW v \in [Level -> Seq(Meta)], NEW level \in Lower, NEW in0 \in Seq(ToSet(v[level]))
  PROVE  ChosenOK(SetupOtherInputs(v, level, in0), v, level)
<1>1. v[level] \in Seq(Meta) /\ v[level + 1] \in Seq(Meta)
  BY LowerFacts
<1>2. \A r : InputsIn(v, level, r) \in Seq(ToSet(v[level]))
  BY <1>1, OverlappingInside DEF InputsIn
<1>3. \A r : InputsIn(v, level + 1, r) \in Seq(ToSet(v[level + 1]))
  BY <1>1, OverlappingInside DEF InputsIn
<1> DEFINE r0 == GetRange(in0)
           in1 == InputsIn(v, level + 1, r0)
           all == GetRange(in0 \o in1)
           p == Chosen(v, level, in0, in1, all, r0.largest)
           exp0 == InputsIn(v, level, all)
           rx == GetRange(exp0)
           exp1 == InputsIn(v, level + 1, rx)
<1>4. in1 \in Seq(ToSet(v[level + 1])) /\ exp1 \in Seq(ToSet(v[level + 1])) /\ exp0 \in Seq(ToSet(v[level]))
  BY <1>2, <1>3
<1>5. ChosenOK(p, v, level)
  <2> HIDE DEF in1, all, r0
  <2> QED BY <1>4, ChosenInside
<1>6. ChosenOK(Expanded(v, level, exp0, exp1, rx), v, level)
  <2> HIDE DEF exp0, exp1, rx
  <2> QED BY <1>4, ChosenInside DEF Expanded
<1>7. SetupOtherInputs(v, level, in0) = IF in1 = << >> THEN p ELSE ExpandTo(v, p, exp0, InputsIn(v, p.level + 1, rx), rx)
  BY DEF SetupOtherInputs, ParentsOf, OtherInputs, WithParents, ExpandBy, ExpandInto
<1>8. p.level = level
  BY <1>5 DEF ChosenOK
<1> HIDE DEF p, exp0, rx, in1
<1>9. SetupOtherInputs(v, level, in0) = IF in1 = << >> THEN p ELSE ExpandTo(v, p, exp0, exp1, rx)
  BY <1>7, <1>8
<1>10. ExpandTo(v, p, exp0, exp1, rx) = p \/ ExpandTo(v, p, exp0, exp1, rx) = Expanded(v, level, exp0, exp1, rx)
  BY <1>8 DEF ExpandTo
<1> QED BY <1>5, <1>6, <1>9, <1>10

(* The level for the table of a memtable.                                   *)
LEMMA MemLevelIsLevel ==
  ASSUME NEW v, NEW lo, NEW hi
  PROVE  PickLevelForMemTableOutput(v, lo, hi) \in Level
<1> DEFINE mayPass(level) ==
             /\ ~OverlapInLevel(v, level + 1, lo, hi)
             /\ level + 2 < NumLevels =>
                  TotalFileSize(GetOverlappingInputs(v, level + 2, lo, hi)) <= MaxGrandParentOverlap
           T == {n \in 0 .. MaxMemLevel : n = MaxMemLevel \/ ~mayPass(n)}
<1>1. NumLevels \in Nat /\ NumLevels > 1 /\ MaxMemLevel \in 0 .. NumLevels - 1
  BY LevelAssumption
<1>2. T \subseteq Nat /\ T \subseteq Level /\ T # {}
  <2> HIDE DEF mayPass
  <2>1. MaxMemLevel \in T
    BY <1>1
  <2>2. T \subseteq Nat /\ T \subseteq Level
    BY <1>1 DEF Level
  <2> QED BY <2>1, <2>2
<1>3. PickLevelForMemTableOutput(v, lo, hi) = IF OverlapInLevel(v, 0, lo, hi) THEN 0 ELSE Min(T)
  BY DEF PickLevelForMemTableOutput
<1>4. 0 \in Level
  BY <1>1 DEF Level
<1> HIDE DEF T
<1>5. Min(T) \in T
  BY <1>2, MinIsLeast
<1> QED BY <1>2, <1>3, <1>4, <1>5

(* The file charged with a seek: not one of the last level, for a lookup    *)
(* that read a second file went on to a deeper level or stayed in level 0.  *)
LEMMA ChargedFile ==
  ASSUME NEW v \in [Level -> Seq(Meta)], \A l \in Level : UniqueNumbers(ToSet(v[l])),
         NEW n \in Nat, \A l \in Level : \A f \in ToSet(v[l]) : f.number < n,
         NEW tabs, NEW ikey, NEW f, f = SeekFile(v, tabs, ikey), f # NULL
  PROVE  f[1] \in Lower /\ f[2] \in ToSet(v[f[1]])
<1> DEFINE S == {g \in ToSet(v[0]) : g.smallest.k <= ikey.k /\ ikey.k <= g.largest.k}
           newest == NewestFirst(S)
           T == LevelsReached(v, ikey)
           levels == Ascending(T)
           a == OfLevel0(newest)
           b == OneOfLevel(v, ikey, levels)
           order == a \o b
           hits == Hits(order, tabs, ikey)
<1>1. 0 \in Level /\ NumLevels \in Nat /\ NumLevels > 1 /\ v[0] \in Seq(Meta)
  BY LowerFacts DEF Level
<1>2. ToSet(v[0]) \subseteq Meta /\ S \subseteq ToSet(v[0])
  BY <1>1, SequenceFacts
<1>3. newest \in Seq(S)
  <2> HIDE DEF S
  <2>1. S \subseteq Meta /\ UniqueNumbers(S) /\ \A g \in S : g.number < n
    BY <1>1, <1>2 DEF UniqueNumbers
  <2>2. IsFiniteSet(S)
    BY <2>1, FilesAreFinite
  <2> QED BY <2>1, <2>2, NewestList DEF Lists
<1>4. T \subseteq 1 .. NumLevels - 1 /\ IsFiniteSet(T) /\ T \subseteq Nat
  <2>1. T \subseteq 1 .. NumLevels - 1
    BY DEF LevelsReached
  <2>2. IsFiniteSet(1 .. NumLevels - 1)
    BY <1>1, FS_Interval
  <2> HIDE DEF T
  <2>3. T \in SUBSET (1 .. NumLevels - 1) /\ T \subseteq Nat
    BY <1>1, <2>1
  <2>4. IsFiniteSet(T)
    BY <2>2, <2>3, FS_Subset
  <2> QED BY <2>1, <2>3, <2>4
<1>5. levels \in Seq(T) /\ (Len(levels) > 1 => levels[1] < levels[2])
  <2> HIDE DEF T
  <2> QED BY <1>4, AscendingLists DEF Lists
<1> HIDE DEF S, newest, levels
<1>6. /\ Len(newest) \in Nat /\ DOMAIN newest = 1 .. Len(newest)
      /\ Len(levels) \in Nat /\ DOMAIN levels = 1 .. Len(levels)
  BY <1>3, <1>5, SequenceFacts
<1>7. a \in [1 .. Len(newest) -> {<<0, g>> : g \in S}]
  <2>1. \A i \in 1 .. Len(newest) : newest[i] \in S
    BY <1>3, SequenceFacts
  <2> QED BY <1>6, <2>1 DEF OfLevel0
<1> DEFINE X == {<<levels[j], FileOfLevel(v, levels[j], ikey)>> : j \in 1 .. Len(levels)}
<1>8. b \in [1 .. Len(levels) -> X]
  BY <1>6 DEF OneOfLevel
<1>9. \A j \in 1 .. Len(levels) : b[j] = <<levels[j], FileOfLevel(v, levels[j], ikey)>>
  BY <1>6 DEF OneOfLevel
<1> DEFINE Y == {<<0, g>> : g \in S} \cup X
<1> HIDE DEF a, b, X
<1> DEFINE Z == {<<0, g>> : g \in S}
<1>10. a \in Seq(Y) /\ b \in Seq(Y) /\ Len(a) = Len(newest) /\ Len(b) = Len(levels)
  <2> HIDE DEF Z
  <2>1. a \in [1 .. Len(newest) -> Z]
    BY <1>7 DEF Z
  <2>2. a \in Seq(Z) /\ Len(a) = Len(newest)
    BY <1>6, <2>1
  <2>3. b \in Seq(X) /\ Len(b) = Len(levels)
    BY <1>6, <1>8
  <2>4. Z \subseteq Y /\ X \subseteq Y
    BY DEF Z
  <2> HIDE DEF Y
  <2> QED BY <2>2, <2>3, <2>4, SeqMonotonic
<1> HIDE DEF Y, Z
<1>11. /\ Len(order) = Len(a) + Len(b) /\ order \in Seq(Y) /\ DOMAIN order = 1 .. Len(order)
       /\ \A i \in 1 .. Len(a) + Len(b) : order[i] = IF i <= Len(a) THEN a[i] ELSE b[i - Len(a)]
  BY <1>10, ConcatProperties, LenProperties
<1>12. f = Charged(order, hits)
  BY DEF SeekFile, ChargedInOrder, ForEachOverlapping, S, newest, levels, a, b
<1>13. hits \subseteq DOMAIN order
  BY DEF Hits
<1> HIDE DEF order, hits
<1>14. Len(order) > 1 /\ f = order[1]
  <2>1. f = order[1] /\ (IF hits = {} THEN Len(order) ELSE Min(hits)) > 1
    BY <1>12 DEF Charged
  <2>2. Len(order) \in Nat
    BY <1>6, <1>10, <1>11
  <2>3. hits # {} => Min(hits) \in 1 .. Len(order)
    <3>1. hits \subseteq Nat
      BY <1>11, <1>13
    <3> QED BY <1>11, <1>13, <3>1, MinIsLeast
  <2> QED BY <2>1, <2>2, <2>3
<1>15. CASE Len(a) # 0
  <2>1. 1 \in 1 .. Len(a) + Len(b) /\ 1 <= Len(a) /\ 1 \in 1 .. Len(newest)
    BY <1>6, <1>10, <1>15
  <2>2. order[1] = a[1]
    BY <1>11, <2>1
  <2>3. a[1] \in {<<0, g>> : g \in S}
    BY <1>7, <2>1
  <2>4. PICK g \in S : f = <<0, g>>
    BY <1>14, <2>2, <2>3
  <2>5. f[1] = 0 /\ f[2] = g
    BY <2>4
  <2> QED BY <1>1, <1>2, <2>5 DEF Lower
<1>16. CASE Len(a) = 0
  <2>1. Len(levels) > 1 /\ 1 \in 1 .. Len(levels) /\ 2 \in 1 .. Len(levels) /\ 1 \in 1 .. Len(a) + Len(b)
    BY <1>6, <1>10, <1>11, <1>14, <1>16
  <2>2. order[1] = b[1]
    BY <1>11, <1>16, <2>1
  <2>3. f = <<levels[1], FileOfLevel(v, levels[1], ikey)>>
    BY <1>9, <1>14, <2>1, <2>2
  <2>4. levels[1] \in T /\ levels[2] \in T /\ levels[1] < levels[2]
    BY <1>5, <2>1, SequenceFacts
  <2>5. FindFile(v[levels[1]], ikey) \in DOMAIN v[levels[1]]
    BY <2>4 DEF LevelsReached
  <2>6. FileOfLevel(v, levels[1], ikey) \in ToSet(v[levels[1]])
    BY <2>5 DEF FileOfLevel, ToSet
  <2>7. levels[1] \in 1 .. NumLevels - 1 /\ levels[2] \in 1 .. NumLevels - 1
    BY <1>4, <2>4
  <2>8. levels[1] \in Lower
    BY <1>1, <2>4, <2>7 DEF Lower
  <2> QED BY <2>3, <2>6, <2>8
<1> QED BY <1>15, <1>16
-----------------------------------------------------------------------------
(* Reading the logs again: what Open has gathered.                          *)
Tables == UNION {[D -> SUBSET Entry] : D \in SUBSET (DOMAIN tables \cup Nat)}
Gathered == [mem : SUBSET Entry, next : Nat, tabs : Tables, add : SUBSET ({0} \X Meta),
             compactions : Nat, seq : Nat, logfile : Nat \cup {NULL}]
GatheredOK(st) ==
  /\ EndOfManifest.next < st.next /\ DOMAIN tables \subseteq DOMAIN st.tabs
  /\ \A f \in EditFiles(st) : /\ EndOfManifest.next < f.number /\ f.number < st.next
                              /\ f.number \in DOMAIN st.tabs
  /\ UniqueNumbers(EditFiles(st))
Recovering == {st \in Gathered : GatheredOK(st)}

(* Recovery: a log record goes into the memtable and raises the last        *)
(* sequence number.                                                         *)
LEMMA InsertKeeps ==
  ASSUME NEW st \in Recovering, NEW r \in Seq(Entry)
  PROVE  Insert(st, r) \in Recovering
<1>1. st \in Gathered /\ GatheredOK(st)
  BY DEF Recovering
<1>2. ToSet(r) \subseteq Entry /\ Len(r) \in Nat
  BY SequenceFacts
<1>3. LastOf(r, st.seq) \in Nat
  <2>1. r # << >> => Len(r) \in 1 .. Len(r)
    BY <1>2, EmptySeq
  <2>2. r # << >> => r[Len(r)] \in Entry
    BY <2>1, SequenceFacts
  <2>3. r # << >> => r[Len(r)].s \in Nat
    BY <2>2, DBAssumption DEF Entry
  <2> QED BY <1>1, <2>3 DEF LastOf, Gathered
<1>4. Insert(st, r) = [st EXCEPT !.mem = st.mem \cup ToSet(r), !.seq = LastOf(r, st.seq)]
  BY <1>1 DEF Insert, Gathered
<1>5. Insert(st, r) \in Gathered
  BY <1>1, <1>2, <1>3, <1>4 DEF Gathered
<1>6. /\ Insert(st, r).next = st.next /\ Insert(st, r).tabs = st.tabs /\ Insert(st, r).add = st.add
  BY <1>1, <1>4 DEF Gathered
<1>7. GatheredOK(Insert(st, r))
  BY <1>1, <1>6 DEF GatheredOK, EditFiles
<1> QED BY <1>5, <1>7 DEF Recovering

(* Recovery: a memtable that is written takes a fresh number, and the edit  *)
(* names the table written.                                                 *)
LEMMA FlushKeeps ==
  ASSUME NEW st \in Recovering, st.mem # {}, EndOfManifest.next \in Nat
  PROVE  FlushRecovered(st) \in Recovering
<1> DEFINE f == FileMeta(st.next, st.mem)
           t == With(st.tabs, st.next, st.mem)
           new == FlushRecovered(st)
<1>1. st \in Gathered /\ GatheredOK(st) /\ st.next \in Nat /\ st.mem \subseteq Entry /\ st.tabs \in Tables
  BY DEF Recovering, Gathered
<1>2. f \in Meta /\ f.number = st.next
  BY <1>1, FileMetaTyped
<1> HIDE DEF f
<1>3. PICK D \in SUBSET (DOMAIN tables \cup Nat) : st.tabs \in [D -> SUBSET Entry]
  BY <1>1 DEF Tables
<1>4. t \in [D \cup {st.next} -> SUBSET Entry] /\ DOMAIN t = DOMAIN st.tabs \cup {st.next}
  BY <1>1, <1>3 DEF With
<1>5. t \in Tables
  <2>1. D \cup {st.next} \in SUBSET (DOMAIN tables \cup Nat)
    BY <1>1
  <2> HIDE DEF t
  <2> QED BY <1>4, <2>1 DEF Tables
<1> HIDE DEF t
<1>6. new = [st EXCEPT !.mem = {}, !.next = st.next + 1, !.tabs = t, !.add = st.add \cup {<<0, f>>},
                       !.compactions = st.compactions + 1]
  BY <1>1 DEF FlushRecovered, Gathered, t, f
<1>7. new \in Gathered
  <2>1. st.add \cup {<<0, f>>} \in SUBSET ({0} \X Meta)
    BY <1>1, <1>2 DEF Gathered
  <2>2. /\ st.next + 1 \in Nat /\ st.compactions + 1 \in Nat /\ {} \in SUBSET Entry
        /\ st.seq \in Nat /\ st.logfile \in Nat \cup {NULL}
    BY <1>1 DEF Gathered
  <2>3. new = [mem |-> {}, next |-> st.next + 1, tabs |-> t, add |-> st.add \cup {<<0, f>>},
               compactions |-> st.compactions + 1, seq |-> st.seq, logfile |-> st.logfile]
    BY <1>1, <1>6 DEF Gathered
  <2> HIDE DEF new
  <2> QED BY <1>5, <2>1, <2>2, <2>3 DEF Gathered
<1>8. new.next = st.next + 1 /\ new.tabs = t /\ new.add = st.add \cup {<<0, f>>}
  <2>1. DOMAIN st = {"mem", "next", "tabs", "add", "compactions", "seq", "logfile"}
    BY <1>1 DEF Gathered
  <2> HIDE DEF new
  <2> QED BY <1>6, <2>1
<1>9. EditFiles(new) = EditFiles(st) \cup {f}
  <2> HIDE DEF new
  <2>1. <<0, f>>[2] = f
    OBVIOUS
  <2>2. EditFiles(new) = {x[2] : x \in st.add \cup {<<0, f>>}}
    BY <1>8 DEF EditFiles
  <2>3. {x[2] : x \in st.add \cup {<<0, f>>}} = {x[2] : x \in st.add} \cup {f}
    BY <2>1
  <2> QED BY <2>2, <2>3 DEF EditFiles
<1>10. /\ EndOfManifest.next < st.next /\ DOMAIN tables \subseteq DOMAIN st.tabs
       /\ \A g \in EditFiles(st) : /\ EndOfManifest.next < g.number /\ g.number < st.next
                                   /\ g.number \in DOMAIN st.tabs
       /\ UniqueNumbers(EditFiles(st))
       /\ \A g \in EditFiles(st) : g.number \in Nat
  <2>1. \A g \in EditFiles(st) : g \in Meta
    BY <1>1 DEF EditFiles, Gathered
  <2>2. \A g \in EditFiles(st) : g.number \in Nat
    BY <2>1, MetaFacts
  <2> QED BY <1>1, <2>2 DEF GatheredOK
<1> HIDE DEF new
<1>11. \A g \in EditFiles(new) : /\ EndOfManifest.next < g.number /\ g.number < st.next + 1
                                 /\ g.number \in DOMAIN t
  BY <1>1, <1>2, <1>4, <1>9, <1>10
<1>12. UniqueNumbers(EditFiles(new))
  <2>1. \A g \in EditFiles(st) : g.number # f.number
    BY <1>1, <1>2, <1>10
  <2> QED BY <1>9, <1>10, <2>1 DEF UniqueNumbers
<1>13. EndOfManifest.next < st.next + 1 /\ DOMAIN tables \subseteq DOMAIN t
  BY <1>1, <1>4, <1>10
<1>14. GatheredOK(new)
  BY <1>8, <1>11, <1>12, <1>13 DEF GatheredOK
<1> QED BY <1>7, <1>14 DEF Recovering, new

(* Recovery: the memtable is written when it is full.                       *)
LEMMA FlushIfFullKeeps ==
  ASSUME NEW st \in Recovering, EndOfManifest.next \in Nat
  PROVE  FlushIfFull(st) \in Recovering
<1>1. CASE Cardinality(st.mem) > WriteBufferSize
  <2>1. WriteBufferSize \in Nat /\ Cardinality({}) = 0
    BY DBAssumption, FS_EmptySet
  <2>2. st.mem # {}
    BY <1>1, <2>1
  <2> QED BY <1>1, <2>2, FlushKeeps DEF FlushIfFull
<1>2. CASE ~(Cardinality(st.mem) > WriteBufferSize)
  BY <1>2 DEF FlushIfFull
<1> QED BY <1>1, <1>2

(* Recovery: so it stays for all the records of a log file.                 *)
LEMMA RecordsKeep ==
  ASSUME NEW st \in Recovering, EndOfManifest.next \in Nat, NEW records \in Seq(Seq(Entry))
  PROVE  ReadRecords(st, records) \in Recovering
<1> DEFINE n == Len(records)
           T == Recovering
           base == [st EXCEPT !.compactions = 0]
           Step(i, x) == FlushIfFull(Insert(x, records[i]))
           G == [p \in (1 .. n) \X T |-> Step(p[1], p[2])]
           g == CHOOSE f : f = [i \in 0 .. n |-> IF i = 0 THEN base ELSE Step(i, f[i - 1])]
<1>1. n \in Nat /\ base \in T
  <2>1. n \in Nat
    BY SequenceFacts
  <2>2. st \in Gathered /\ GatheredOK(st)
    BY DEF Recovering
  <2>3. base \in Gathered /\ base.next = st.next /\ base.tabs = st.tabs /\ base.add = st.add
    BY <2>2 DEF Gathered
  <2> HIDE DEF base
  <2>4. GatheredOK(base)
    BY <2>2, <2>3 DEF GatheredOK, EditFiles
  <2> QED BY <2>1, <2>3, <2>4 DEF Recovering
<1>2. ASSUME NEW i \in 1 .. n, NEW x \in T PROVE Step(i, x) \in T
  <2>1. records[i] \in Seq(Entry)
    BY <1>1, SequenceFacts
  <2>2. Insert(x, records[i]) \in Recovering
    BY <2>1, InsertKeeps
  <2> QED BY <2>2, FlushIfFullKeeps
<1> HIDE DEF T, n, base, Step
<1>3. G \in [(1 .. n) \X T -> T]
  BY <1>2
<1>4. PICK f \in [0 .. n -> T] : Solves(f, n, base, G)
  <2> HIDE DEF G
  <2> QED BY <1>1, <1>3, RecursionExists
<1>5. f = [i \in 0 .. n |-> IF i = 0 THEN base ELSE Step(i, f[i - 1])]
  <2>1. ASSUME NEW i \in 1 .. n PROVE G[<<i, f[i - 1]>>] = Step(i, f[i - 1])
    <3>1. f[i - 1] \in T
      BY <1>1
    <3> QED BY <3>1
  <2> HIDE DEF G, g
  <2>2. \A i \in 0 .. n : f[i] = IF i = 0 THEN base ELSE G[<<i, f[i - 1]>>]
    BY <1>4 DEF Solves
  <2>3. \A i \in 0 .. n : f[i] = IF i = 0 THEN base ELSE Step(i, f[i - 1])
    <3>1. \A i \in 0 .. n : i = 0 \/ i \in 1 .. n
      BY <1>1
    <3> QED BY <2>1, <2>2, <3>1
  <2>4. f = [i \in 0 .. n |-> f[i]]
    OBVIOUS
  <2> QED BY <2>3, <2>4
<1>6. g = [i \in 0 .. n |-> IF i = 0 THEN base ELSE Step(i, g[i - 1])]
  <2> HIDE DEF G
  <2> QED BY <1>5
<1> HIDE DEF g, G
<1>7. g[0] = base /\ \A i \in 0 .. n : g[i] \in T
  <2>1. g[0] = base /\ \A i \in 1 .. n : g[i] = Step(i, g[i - 1])
    BY <1>1, <1>6
  <2>2. \A i \in 1 .. n : g[i - 1] \in T => g[i] \in T
    BY <1>2, <2>1
  <2> HIDE DEF Solves
  <2> QED BY <1>1, <2>1, <2>2, Walk
<1>8. ReadRecords(st, records) = g[n]
  BY DEF ReadRecords, g, Step, n, base
<1> QED BY <1>1, <1>7, <1>8 DEF T, n

(* Recovery: one log file, with its end (the log is reused, or the memtable *)
(* is written) and MarkFileNumberUsed.                                      *)
LEMMA LogKeeps ==
  ASSUME NEW st \in Recovering, EndOfManifest.next \in Nat, NEW n \in Nat, NEW last,
         logs[n] \in Seq(Seq(Entry))
  PROVE  RecoverLogFile(st, n, last) \in Recovering
<1> DEFINE s1 == ReadRecords(st, logs[n])
           s2 == EndOfLog(s1, n, last)
           s3 == MarkFileNumberUsed(s2, n)
<1>1. s1 \in Recovering
  BY RecordsKeep
<1> HIDE DEF s1
<1>2. s2 \in Recovering
  <2>1. [s1 EXCEPT !.logfile = n] \in Recovering
    <3> DEFINE new == [s1 EXCEPT !.logfile = n]
    <3>1. s1 \in Gathered /\ GatheredOK(s1)
      BY <1>1 DEF Recovering
    <3>2. new \in Gathered /\ new.next = s1.next /\ new.tabs = s1.tabs /\ new.add = s1.add
      BY <3>1 DEF Gathered
    <3> HIDE DEF new
    <3>3. GatheredOK(new)
      BY <3>1, <3>2 DEF GatheredOK, EditFiles
    <3> QED BY <3>2, <3>3 DEF Recovering, new
  <2>2. s1.mem # {} => FlushRecovered(s1) \in Recovering
    BY <1>1, FlushKeeps
  <2> QED BY <1>1, <2>1, <2>2 DEF EndOfLog
<1> HIDE DEF s2
<1>3. s3 \in Recovering
  <2>1. s2 \in Gathered /\ GatheredOK(s2) /\ s2.next \in Nat
    BY <1>2 DEF Recovering, Gathered
  <2> DEFINE next == IF s2.next <= n THEN n + 1 ELSE s2.next
  <2>2. next \in Nat /\ s2.next <= next
    BY <2>1
  <2>3. s3 = [s2 EXCEPT !.next = next]
    BY <2>1 DEF MarkFileNumberUsed, Gathered
  <2> HIDE DEF next
  <2>4. s3 \in Gathered /\ s3.next = next /\ s3.tabs = s2.tabs /\ s3.add = s2.add
    BY <2>1, <2>2, <2>3 DEF Gathered
  <2> HIDE DEF s3
  <2>5. EditFiles(s3) = EditFiles(s2)
    BY <2>4 DEF EditFiles
  <2>6. EndOfManifest.next < s3.next
    BY <2>1, <2>2, <2>4 DEF GatheredOK
  <2>7. \A f \in EditFiles(s3) : f.number \in Nat
    <3>1. \A f \in EditFiles(s2) : f \in Meta
      BY <2>1 DEF EditFiles, Gathered
    <3> QED BY <2>5, <3>1, MetaFacts
  <2>8. \A f \in EditFiles(s3) : f.number < s3.next
    BY <2>1, <2>2, <2>4, <2>5, <2>7 DEF GatheredOK
  <2>9. GatheredOK(s3)
    BY <2>1, <2>4, <2>5, <2>6, <2>8 DEF GatheredOK
  <2> QED BY <2>4, <2>9 DEF Recovering
<1> QED BY <1>3 DEF RecoverLogFile, s1, s2, s3

(* Recovery: all the log files that are to be replayed, in the order of     *)
(* their numbers.                                                           *)
LEMMA LogsKeep ==
  ASSUME BeforeLogs \in Recovering, EndOfManifest.next \in Nat, logs \in [DOMAIN logs -> Seq(Seq(Entry))],
         DOMAIN logs \subseteq Nat, NEW todo \in Seq(DOMAIN logs)
  PROVE  RecoverLogs(todo) \in Recovering
<1> DEFINE n == Len(todo)
           T == Recovering
           base == BeforeLogs
           Step(i, x) == RecoverLogFile(x, todo[i], i = Len(todo))
           G == [p \in (1 .. n) \X T |-> Step(p[1], p[2])]
           g == CHOOSE f : f = [i \in 0 .. n |-> IF i = 0 THEN base ELSE Step(i, f[i - 1])]
<1>1. n \in Nat /\ base \in T
  BY SequenceFacts
<1>2. ASSUME NEW i \in 1 .. n, NEW x \in T PROVE Step(i, x) \in T
  <2>1. todo[i] \in DOMAIN logs
    BY <1>1, SequenceFacts
  <2>2. todo[i] \in Nat /\ logs[todo[i]] \in Seq(Seq(Entry))
    BY <2>1
  <2> QED BY <2>2, LogKeeps
<1> HIDE DEF T, n, base, Step
<1>3. G \in [(1 .. n) \X T -> T]
  BY <1>2
<1>4. PICK f \in [0 .. n -> T] : Solves(f, n, base, G)
  <2> HIDE DEF G
  <2> QED BY <1>1, <1>3, RecursionExists
<1>5. f = [i \in 0 .. n |-> IF i = 0 THEN base ELSE Step(i, f[i - 1])]
  <2>1. ASSUME NEW i \in 1 .. n PROVE G[<<i, f[i - 1]>>] = Step(i, f[i - 1])
    <3>1. f[i - 1] \in T
      BY <1>1
    <3> QED BY <3>1
  <2> HIDE DEF G, g
  <2>2. \A i \in 0 .. n : f[i] = IF i = 0 THEN base ELSE G[<<i, f[i - 1]>>]
    BY <1>4 DEF Solves
  <2>3. \A i \in 0 .. n : f[i] = IF i = 0 THEN base ELSE Step(i, f[i - 1])
    <3>1. \A i \in 0 .. n : i = 0 \/ i \in 1 .. n
      BY <1>1
    <3> QED BY <2>1, <2>2, <3>1
  <2>4. f = [i \in 0 .. n |-> f[i]]
    OBVIOUS
  <2> QED BY <2>3, <2>4
<1>6. g = [i \in 0 .. n |-> IF i = 0 THEN base ELSE Step(i, g[i - 1])]
  <2> HIDE DEF G
  <2> QED BY <1>5
<1> HIDE DEF g, G
<1>7. g[0] = base /\ \A i \in 0 .. n : g[i] \in T
  <2>1. g[0] = base /\ \A i \in 1 .. n : g[i] = Step(i, g[i - 1])
    <3>1. 0 \in 0 .. n /\ \A i \in 1 .. n : i \in 0 .. n /\ i # 0
      BY <1>1
    <3>2. \A i \in 0 .. n : g[i] = IF i = 0 THEN base ELSE Step(i, g[i - 1])
      BY <1>6, Zenon
    <3> QED BY <3>1, <3>2
  <2>2. \A i \in 1 .. n : g[i - 1] \in T => g[i] \in T
    BY <1>2, <2>1
  <2> HIDE DEF Solves
  <2> QED BY <1>1, <2>1, <2>2, Walk
<1>8. RecoverLogs(todo) = g[n]
  BY DEF RecoverLogs, g, Step, n, base
<1> QED BY <1>1, <1>7, <1>8 DEF T, n

(* What Recover leaves behind: the tables, and an edit that names only      *)
(* tables that were written.                                                *)
LEMMA RecoveredTyped ==
  ASSUME EndOfManifest.next \in Nat, EndOfManifest.seq \in Nat, tables \in [DOMAIN tables -> SUBSET Entry],
         logs \in [DOMAIN logs -> Seq(Seq(Entry))], DOMAIN logs \subseteq Nat, IsFiniteSet(DOMAIN logs)
  PROVE  Recovered \in Recovering
<1> DEFINE T == {n \in DOMAIN logs : n >= EndOfManifest.log}
           todo == Ascending(T)
<1>1. BeforeLogs \in Recovering
  <2>1. tables \in Tables
    BY DEF Tables
  <2>2. BeforeLogs \in Gathered
    BY <2>1 DEF BeforeLogs, Gathered
  <2>3. GatheredOK(BeforeLogs)
    BY DEF BeforeLogs, GatheredOK, EditFiles, UniqueNumbers
  <2> QED BY <2>2, <2>3 DEF Recovering
<1>2. T \subseteq Nat /\ IsFiniteSet(T) /\ T \subseteq DOMAIN logs
  <2>1. T \in SUBSET (DOMAIN logs)
    OBVIOUS
  <2> QED BY <2>1, FS_Subset
<1> HIDE DEF T
<1>3. todo \in Seq(T)
  BY <1>2, AscendingLists DEF Lists
<1>4. todo \in Seq(DOMAIN logs)
  <2> HIDE DEF todo
  <2> QED BY <1>2, <1>3, SeqMonotonic
<1> HIDE DEF todo
<1>5. RecoverLogs(todo) \in Recovering
  BY <1>1, <1>4, LogsKeep
<1> QED BY <1>5 DEF Recovered, todo, T
-----------------------------------------------------------------------------
(* What the invariant says of the manifest and of the files.                *)
LEMMA ManifestFacts ==
  ASSUME NumbersOK
  PROVE  /\ Len(manifest) \in Nat /\ DOMAIN manifest = 1 .. Len(manifest) /\ Len(manifest) \in DOMAIN manifest
         /\ EndOfManifest \in {manifest[i] : i \in DOMAIN manifest} /\ EditOK(EndOfManifest)
         /\ ManifestFiles \subseteq Meta
         /\ \A l \in Level : Applied(manifest)[l].added \subseteq ManifestFiles
<1>1. manifest \in Seq({manifest[i] : i \in DOMAIN manifest}) /\ manifest # << >>
  BY DEF NumbersOK
<1>2. Len(manifest) \in Nat /\ DOMAIN manifest = 1 .. Len(manifest) /\ Len(manifest) \in DOMAIN manifest
  BY <1>1, LenProperties, EmptySeq
<1>3. \A i \in DOMAIN manifest : EditOK(manifest[i])
  BY DEF NumbersOK
<1>4. ManifestFiles \subseteq Meta
  <2>1. \A i \in DOMAIN manifest : EditFiles(manifest[i]) \subseteq Meta
    BY <1>3 DEF EditOK, EditFiles
  <2> QED BY <2>1 DEF ManifestFiles
<1>5. ASSUME NEW l \in Level PROVE Applied(manifest)[l].added \subseteq ManifestFiles
  <2>1. Applied(manifest)[l].added = UNION {At(manifest[i].add, l) : i \in DOMAIN manifest}
    BY DEF Applied
  <2>2. \A i \in DOMAIN manifest : At(manifest[i].add, l) \subseteq EditFiles(manifest[i])
    BY DEF At, EditFiles
  <2> QED BY <2>1, <2>2 DEF ManifestFiles
<1> QED BY <1>2, <1>3, <1>4, <1>5 DEF EndOfManifest

(* The files the invariant is about are FileMetaData with numbers.          *)
LEMMA FilesTyped ==
  ASSUME IInv
  PROVE  /\ ManifestFiles \subseteq Meta /\ MemFiles \subseteq Meta /\ Outputs \subseteq Meta
         /\ AllFiles \subseteq Meta /\ \A f \in AllFiles : f.number \in Nat
<1>1. ManifestFiles \subseteq Meta
  BY ManifestFacts DEF IInv
<1>2. MemFiles \subseteq Meta
  BY DEF IInv, MemCompactionOK, MemFiles, EditOK, EditFiles
<1>3. Outputs \subseteq Meta
  BY SequenceFacts DEF IInv, CompactionOK, Outputs
<1> QED BY <1>1, <1>2, <1>3, MetaFacts DEF AllFiles

(* Steps that leave the files, the versions and the compactions alone.      *)
LEMMA QuietKeeps ==
  ASSUME IInv, DataOK', SeekOK', ManualOK',
         UNCHANGED <<open, current, tables, manifest, m, c, pending>>,
         vs' = [next |-> vs.next, log |-> vs.log, seq |-> vs.seq, logfile |-> vs.logfile]',
         vs'.next \in Nat, vs'.seq \in Nat, vs.next <= vs'.next, bgError => bgError',
         imm # NULL => imm' # NULL,
         reader' = reader \/ (reader' # NULL => reader'.version = current),
         open \in {"closed", "recovering"} => reader' = NULL /\ seek' = NULL /\ imm' = NULL /\ manual' = NULL,
         open = "closing" => manual' = NULL
  PROVE  IInv'
<1>1. /\ AllFiles' = AllFiles /\ ManifestFiles' = ManifestFiles /\ EndOfManifest' = EndOfManifest
      /\ MemEdit' = MemEdit /\ CompactionEdit' = CompactionEdit /\ MemFiles' = MemFiles
  BY DEF AllFiles, ManifestFiles, MemFiles, MemEdit, Outputs, EndOfManifest, CompactionEdit
<1>2. PhaseOK'
  BY DEF IInv, PhaseOK
<1>3. NumbersOK'
  BY <1>1, ManifestFacts DEF IInv, NumbersOK, EditOK
<1>4. FilesOK'
  <2>1. vs.next \in Nat
    BY DEF IInv, NumbersOK
  <2> QED BY <1>1, <2>1, FilesTyped DEF IInv, FilesOK
<1>5. VersionsOK'
  BY <1>1 DEF IInv, VersionsOK, VersionOK
<1>6. \A e : EditOK(e) /\ Numbered(e) => Numbered(e)'
  <2>1. vs.next \in Nat /\ EndOfManifest.next \in Nat
    BY ManifestFacts DEF IInv, NumbersOK, EditOK
  <2> QED BY <1>1, <2>1 DEF Numbered, EditOK
<1>7. CompactionOK'
  BY <1>1, <1>6 DEF IInv, CompactionOK
<1>8. MemCompactionOK'
  BY <1>1, <1>6 DEF IInv, MemCompactionOK, NumbersOK
<1>9. CurrentOK'
  BY DEF IInv, CurrentOK
<1> QED BY <1>2, <1>3, <1>4, <1>5, <1>7, <1>8, <1>9 DEF IInv
-----------------------------------------------------------------------------
(* Writers, readers and manual requests.                                    *)
LEMMA SameParts ==
  ASSUME IInv
  PROVE  /\ UNCHANGED <<tables, logs, mem, imm>> => DataOK'
         /\ UNCHANGED <<seek, current>> => SeekOK'
         /\ UNCHANGED <<manual, c>> /\ (bgError => bgError') => ManualOK'
BY DEF IInv, DataOK, SeekOK, ManualOK, ManualCompactionKept

(* The entries that a batch puts into the log and the memtable.             *)
LEMMA EntriesTyped ==
  ASSUME NEW b \in Batches, vs.seq \in Nat, vs.seq + Len(b) <= MaxSeq
  PROVE  Entries(b) \in Seq(Entry) /\ ToSet(Entries(b)) \subseteq Entry /\ Len(b) \in Nat
<1>1. b \in Seq([k : Key, del : BOOLEAN]) /\ MaxSeq \in Nat
  BY DBAssumption
<1>2. /\ Len(b) \in Nat /\ DOMAIN b = 1 .. Len(b)
      /\ \A i \in 1 .. Len(b) : b[i].k \in Key /\ b[i].del \in BOOLEAN
  <2>1. /\ Len(b) \in Nat /\ DOMAIN b = 1 .. Len(b)
        /\ \A i \in 1 .. Len(b) : b[i] \in [k : Key, del : BOOLEAN]
    BY <1>1, SequenceFacts
  <2> QED BY <2>1
<1>3. \A i \in 1 .. Len(b) : vs.seq + i \in 1 .. MaxSeq
  BY <1>1, <1>2
<1>4. Entries(b) = [i \in 1 .. Len(b) |-> [k |-> b[i].k, s |-> vs.seq + i, del |-> b[i].del]]
  BY <1>2 DEF Entries
<1>5. \A i \in 1 .. Len(b) : [k |-> b[i].k, s |-> vs.seq + i, del |-> b[i].del] \in Entry
  BY <1>2, <1>3 DEF Entry
<1>6. Entries(b) \in [1 .. Len(b) -> Entry]
  BY <1>4, <1>5
<1>7. Entries(b) \in Seq(Entry)
  BY <1>2, <1>6
<1> QED BY <1>2, <1>7, SequenceFacts

(* A record more in one of the logs.                                        *)
LEMMA RecordAppended ==
  ASSUME logs \in [DOMAIN logs -> Seq(Seq(Entry))], NEW n, NEW r \in Seq(Entry)
  PROVE  /\ [logs EXCEPT ![n] = Append(@, r)] \in [DOMAIN logs -> Seq(Seq(Entry))]
         /\ DOMAIN [logs EXCEPT ![n] = Append(@, r)] = DOMAIN logs
<1> DEFINE new == [logs EXCEPT ![n] = Append(@, r)]
<1>1. new = [x \in DOMAIN logs |-> IF x = n THEN Append(logs[n], r) ELSE logs[x]]
  OBVIOUS
<1>2. \A x \in DOMAIN logs : logs[x] \in Seq(Seq(Entry)) /\ Append(logs[x], r) \in Seq(Seq(Entry))
  OBVIOUS
<1> QED BY <1>1, <1>2

(* A write changes the memtable, its log and the last sequence number, no   *)
(* version and no table.                                                    *)
LEMMA WriteKeeps ==
  ASSUME IInv, NEW b \in Batches, NEW sync, Write(b, sync)
  PROVE  IInv'
<1> USE DEF Write, reads, disk, ghost
<1>1. vs.seq \in Nat /\ vs.next \in Nat /\ vs = [next |-> vs.next, log |-> vs.log, seq |-> vs.seq, logfile |-> vs.logfile]
  BY DEF IInv, NumbersOK
<1>2. Entries(b) \in Seq(Entry) /\ ToSet(Entries(b)) \subseteq Entry /\ Len(b) \in Nat
  BY <1>1, EntriesTyped
<1>3. vs' = [next |-> vs.next, log |-> vs.log, seq |-> vs.seq + Len(b), logfile |-> vs.logfile]
  BY <1>1
<1>4. DataOK'
  <2>1. logs' \in [DOMAIN logs -> Seq(Seq(Entry))] /\ DOMAIN logs' = DOMAIN logs
    BY <1>2, RecordAppended DEF IInv, DataOK
  <2>2. mem' \subseteq Entry
    BY <1>2 DEF IInv, DataOK
  <2> QED BY <2>1, <2>2 DEF IInv, DataOK
<1>5. SeekOK' /\ ManualOK'
  BY SameParts
<1>6. open = "open" /\ reader' = reader /\ UNCHANGED <<open, current, tables, manifest, m, c, pending, bgError, imm>>
  OBVIOUS
<1>7. vs'.seq \in Nat /\ vs'.next = vs.next /\ vs.next <= vs'.next
      /\ vs' = [next |-> vs'.next, log |-> vs'.log, seq |-> vs'.seq, logfile |-> vs'.logfile]
  BY <1>1, <1>2, <1>3
<1> QED BY <1>1, <1>4, <1>5, <1>6, <1>7, QuietKeeps

(* A write whose log cannot be synced records the error: no version and no  *)
(* table changes.                                                           *)
LEMMA WriteSyncFailsKeeps ==
  ASSUME IInv, NEW b \in Batches, WriteSyncFails(b)
  PROVE  IInv'
<1> USE DEF WriteSyncFails, reads, disk, ghost
<1>1. vs.seq \in Nat /\ vs.next \in Nat /\ vs = [next |-> vs.next, log |-> vs.log, seq |-> vs.seq, logfile |-> vs.logfile]
  BY DEF IInv, NumbersOK
<1>2. Entries(b) \in Seq(Entry) /\ Len(b) \in Nat
  BY <1>1, EntriesTyped
<1>3. vs' = [next |-> vs.next, log |-> vs.log, seq |-> vs.seq + Len(b), logfile |-> vs.logfile]
  BY <1>1
<1>4. DataOK'
  <2>1. logs' \in [DOMAIN logs -> Seq(Seq(Entry))] /\ DOMAIN logs' = DOMAIN logs
    BY <1>2, RecordAppended DEF IInv, DataOK
  <2> QED BY <2>1 DEF IInv, DataOK
<1>5. SeekOK' /\ ManualOK'
  BY SameParts
<1>6. open = "open" /\ reader' = reader /\ bgError' /\ UNCHANGED <<open, current, tables, manifest, m, c, pending, imm>>
  OBVIOUS
<1>7. vs'.seq \in Nat /\ vs'.next = vs.next /\ vs.next <= vs'.next
      /\ vs' = [next |-> vs'.next, log |-> vs'.log, seq |-> vs'.seq, logfile |-> vs'.logfile]
  BY <1>1, <1>2, <1>3
<1> QED BY <1>1, <1>4, <1>5, <1>6, <1>7, QuietKeeps

(* The switch to a new log leaves the manual request as it is, or only      *)
(* moves it to its next stage.                                              *)
LEMMA SwitchKeeps ==
  ASSUME IInv, SwitchMemTable, ManualOK'
  PROVE  IInv'
<1> USE DEF SwitchMemTable, reads, disk, ghost, MaybeScheduleCompaction
<1>1. vs.seq \in Nat /\ vs.next \in Nat /\ vs = [next |-> vs.next, log |-> vs.log, seq |-> vs.seq, logfile |-> vs.logfile]
  BY DEF IInv, NumbersOK
<1>2. vs' = [next |-> vs.next + 1, log |-> vs.log, seq |-> vs.seq, logfile |-> vs.next]
  BY <1>1
<1>3. DataOK'
  <2>1. logs' = [z \in DOMAIN logs \cup {vs.next} |-> IF z = vs.next THEN << >> ELSE logs[z]]
    BY DEF With
  <2>2. DOMAIN logs' = DOMAIN logs \cup {vs.next} /\ DOMAIN logs' \subseteq Nat
    BY <1>1, <2>1 DEF IInv, DataOK
  <2>3. IsFiniteSet(DOMAIN logs')
    <3>1. IsFiniteSet(DOMAIN logs)
      BY DEF IInv, DataOK
    <3>2. IsFiniteSet(DOMAIN logs \cup {vs.next})
      BY <3>1, FS_AddElement
    <3> QED BY <2>2, <3>2
  <2>4. \A z \in DOMAIN logs : logs[z] \in Seq(Seq(Entry))
    BY DEF IInv, DataOK
  <2>5. logs' \in [DOMAIN logs' -> Seq(Seq(Entry))]
    <3>1. << >> \in Seq(Seq(Entry))
      OBVIOUS
    <3>2. \A z \in DOMAIN logs \cup {vs.next} : logs'[z] \in Seq(Seq(Entry))
      BY <2>1, <2>4, <3>1
    <3>3. logs' = [z \in DOMAIN logs' |-> logs'[z]]
      BY <2>1
    <3> QED BY <2>2, <3>2, <3>3
  <2>6. mem \subseteq Entry /\ mem' = {} /\ imm' = mem /\ tables' = tables /\ tables \in [DOMAIN tables -> SUBSET Entry]
    BY DEF IInv, DataOK
  <2> QED BY <2>2, <2>3, <2>5, <2>6 DEF DataOK
<1>4. SeekOK'
  BY SameParts
<1>5. open = "open" /\ reader' = reader /\ imm = NULL /\ bgError' = bgError
      /\ UNCHANGED <<open, current, tables, manifest, m, c, pending>>
  OBVIOUS
<1>6. vs'.seq \in Nat /\ vs'.next \in Nat /\ vs.next <= vs'.next
      /\ vs' = [next |-> vs'.next, log |-> vs'.log, seq |-> vs'.seq, logfile |-> vs'.logfile]
  <2>1. vs'.next = vs.next + 1 /\ vs'.seq = vs.seq /\ vs'.log = vs.log /\ vs'.logfile = vs.next
    BY <1>2
  <2>2. vs'.seq \in Nat /\ vs'.next \in Nat /\ vs.next <= vs'.next
    BY <1>1, <2>1
  <2>3. vs' = [next |-> vs'.next, log |-> vs'.log, seq |-> vs'.seq, logfile |-> vs'.logfile]
    <3> HIDE DEF SwitchMemTable
    <3> QED BY <1>2, <2>1, Zenon
  <2> QED BY <2>2, <2>3
<1> QED BY <1>3, <1>4, <1>5, <1>6, QuietKeeps

(* MakeRoomForWrite takes a number for the new log that no table has.       *)
LEMMA MakeRoomKeeps ==
  ASSUME IInv, MakeRoomForWrite
  PROVE  IInv'
<1>1. SwitchMemTable /\ UNCHANGED <<manual, c, bgError>>
  BY DEF MakeRoomForWrite, SwitchMemTable
<1>2. ManualOK'
  BY <1>1, SameParts
<1> QED BY <1>1, <1>2, SwitchKeeps

(* Steps that change no file and no number.                                 *)
LEMMA StillKeeps ==
  ASSUME IInv, SeekOK', ManualOK',
         UNCHANGED <<open, current, tables, logs, manifest, m, c, pending, vs, mem, imm, bgError>>,
         reader' = reader \/ (reader' # NULL => reader'.version = current),
         open \in {"closed", "recovering"} => reader' = NULL /\ seek' = NULL /\ manual' = NULL,
         open = "closing" => manual' = NULL
  PROVE  IInv'
<1>1. vs.seq \in Nat /\ vs.next \in Nat /\ vs = [next |-> vs.next, log |-> vs.log, seq |-> vs.seq, logfile |-> vs.logfile]
  BY DEF IInv, NumbersOK
<1>2. DataOK'
  BY SameParts
<1>3. open \in {"closed", "recovering"} => imm' = NULL
  BY DEF IInv, PhaseOK
<1>4. vs'.seq \in Nat /\ vs'.next \in Nat /\ vs.next <= vs'.next
      /\ vs' = [next |-> vs'.next, log |-> vs'.log, seq |-> vs'.seq, logfile |-> vs'.logfile]
  BY <1>1
<1> QED BY <1>2, <1>3, <1>4, QuietKeeps

(* Snapshots, the start of a read (which pins the current version) and a    *)
(* background call with nothing to do.                                      *)
LEMMA ReaderKeeps ==
  ASSUME IInv, \/ GetSnapshot \/ \E i \in DOMAIN snapshots : ReleaseSnapshot(i)
               \/ \E n \in ToSet(snapshots) \cup {vs.seq} : ReadStart(n) \/ BackgroundNothing
  PROVE  IInv'
<1>1. UNCHANGED <<open, current, seek, manual, tables, logs, manifest, m, c, pending, vs, mem, imm, bgError>>
  BY DEF GetSnapshot, ReleaseSnapshot, ReadStart, BackgroundNothing, disk, reads, ghost
<1>2. reader' = reader \/ (open = "open" /\ reader'.version = current)
  BY DEF GetSnapshot, ReleaseSnapshot, ReadStart, BackgroundNothing, disk, reads, ghost
<1>3. SeekOK' /\ ManualOK'
  BY <1>1, SameParts
<1>4. /\ open \in {"closed", "recovering"} => reader' = NULL /\ seek' = NULL /\ manual' = NULL
      /\ open = "closing" => manual' = NULL
  BY <1>1, <1>2 DEF IInv, PhaseOK
<1> QED BY <1>1, <1>2, <1>3, <1>4, StillKeeps

(* A read that ends may charge a file of the current version with a seek:   *)
(* the file that may be compacted next.                                     *)
LEMMA ReadEndKeeps ==
  ASSUME IInv, NEW k \in Key, ReadEnd(k)
  PROVE  IInv'
<1> DEFINE ikey == SeekKey(k, reader.seq)
           f == IF /\ SaveValue(reader.mem, ikey) = NULL
                   /\ reader.imm = NULL \/ SaveValue(reader.imm, ikey) = NULL
                THEN SeekFile(reader.version, tables, ikey) ELSE NULL
<1>1. /\ UNCHANGED <<open, current, manual, tables, logs, manifest, m, c, pending, vs, mem, imm, bgError>>
      /\ reader' = NULL /\ reader # NULL
  BY DEF ReadEnd, disk, ghost
<1>2. seek' \in IF f # NULL /\ reader.version = current /\ seek = NULL THEN {seek, f} ELSE {seek}
  BY DEF ReadEnd
<1>3. SeekOK'
  <2>1. CASE seek' = seek
    BY <1>1, <2>1, SameParts
  <2>2. CASE seek' # seek
    <3>1. f # NULL /\ reader.version = current /\ seek' = f
      BY <1>2, <2>2
    <3>2. f = SeekFile(current, tables, ikey)
      BY <3>1
    <3> HIDE DEF f, ikey
    <3>3. current \in [Level -> Seq(Meta)] /\ \A l \in Level : ToSet(current[l]) \subseteq ManifestFiles
      BY DEF IInv, VersionsOK, VersionOK
    <3>4. \A l \in Level : UniqueNumbers(ToSet(current[l]))
      BY <3>3 DEF IInv, FilesOK, AllFiles, UniqueNumbers
    <3>5. EndOfManifest.next \in Nat /\ \A l \in Level : \A g \in ToSet(current[l]) : g.number < EndOfManifest.next
      BY <3>3, ManifestFacts DEF IInv, FilesOK, EditOK
    <3>6. f[1] \in Lower /\ f[2] \in ToSet(current[f[1]])
      BY <3>1, <3>2, <3>3, <3>4, <3>5, ChargedFile
    <3> QED BY <1>1, <3>1, <3>6 DEF SeekOK, Lower
  <2> QED BY <2>1, <2>2
<1>4. ManualOK'
  BY <1>1, SameParts
<1>5. open \notin {"closed", "recovering"}
  BY <1>1 DEF IInv, PhaseOK
<1>6. open = "closing" => manual' = NULL
  BY <1>1 DEF IInv, PhaseOK
<1> HIDE DEF f, ikey
<1> QED BY <1>1, <1>3, <1>4, <1>5, <1>6, StillKeeps

(* A caller of CompactRange that goes on with another stage has no request  *)
(* posted.                                                                  *)
LEMMA ManualStageKeeps ==
  ASSUME IInv, manual # NULL, manual.stage # "level", NEW x, manual' = [manual EXCEPT !.stage = x],
         UNCHANGED <<c, bgError>>
  PROVE  ManualOK'
<1>1. manual' = [stage |-> x, level |-> manual.level, top |-> manual.top, lo |-> manual.lo,
                 hi |-> manual.hi, begin |-> manual.begin, posted |-> manual.posted, done |-> manual.done]
  BY DEF IInv, ManualOK
<1>2. manual'.level = manual.level /\ manual'.top = manual.top /\ manual'.posted = manual.posted
      /\ manual'.done = manual.done
  BY <1>1
<1>3. /\ manual.level \in Nat /\ manual.top \in 1 .. NumLevels - 1 /\ manual.level < manual.top
      /\ ~manual.posted
  BY DEF IInv, ManualOK
<1>4. ManualCompactionKept'
  BY <1>3 DEF IInv, ManualOK, ManualCompactionKept
<1> QED BY <1>1, <1>2, <1>3, <1>4 DEF ManualOK

(* Every step of the caller of CompactRange, and its end in the background. *)
ManualStep == \/ \E r \in Ranges : CompactRangeCall(r[1], r[2])
              \/ CompactMemTableWaited \/ TEST_CompactRange \/ NextLevel \/ CompactNothing
(* CompactRange and its stages, TEST_CompactRange included: a request is    *)
(* posted, or found done and withdrawn.                                     *)
LEMMA ManualStepKeeps ==
  ASSUME IInv, ManualStep
  PROVE  IInv'
<1> USE DEF CompactRangeCall, CompactMemTableWaited, TEST_CompactRange, NextLevel, CompactNothing,
            disk, reads, ghost
<1>1. UNCHANGED <<open, current, seek, reader, tables, logs, manifest, m, c, pending, vs, mem, imm, bgError>>
  BY DEF ManualStep
<1>2. SeekOK'
  BY <1>1, SameParts
<1>3. manual # NULL => open \notin {"closed", "recovering", "closing"}
  BY DEF IInv, PhaseOK
<1>4. open \in {"closed", "recovering", "closing"} => manual' = NULL
  BY <1>3 DEF ManualStep, IsManual
<1>5. ManualOK'
  <2>1. ASSUME NEW r \in Ranges, CompactRangeCall(r[1], r[2]) PROVE ManualOK'
    <3> DEFINE deep == {l \in 1 .. NumLevels - 1 : OverlapInLevel(current, l, r[1], r[2])}
               top == Max(deep \cup {1})
    <3>1. NumLevels \in Nat /\ NumLevels > 1
      BY LevelAssumption
    <3>2. top \in 1 .. NumLevels - 1
      <4> DEFINE T == deep \cup {1}
      <4>1. T \subseteq 1 .. NumLevels - 1 /\ T \subseteq 0 .. NumLevels - 1 /\ T # {}
        BY <3>1
      <4> HIDE DEF T
      <4>2. Max(T) \in T
        <5>1. NumLevels - 1 \in Nat
          BY <3>1
        <5> QED BY <4>1, <5>1, MaxIsGreatest
      <4> QED BY <4>1, <4>2 DEF T
    <3>3. manual' = [stage |-> "flush", level |-> 0, top |-> top, lo |-> r[1], hi |-> r[2],
                     begin |-> r[1], posted |-> FALSE, done |-> FALSE]
      BY <2>1
    <3>4. manual = NULL
      BY <2>1
    <3> HIDE DEF top
    <3>5. ManualCompactionKept'
      BY <1>1, <3>4 DEF IInv, ManualOK, ManualCompactionKept
    <3> QED BY <3>1, <3>2, <3>3, <3>5 DEF ManualOK
  <2>2. CASE CompactMemTableWaited
    BY <1>1, <2>2, ManualStageKeeps
  <2>3. CASE TEST_CompactRange
    BY <1>1, <2>3 DEF IInv, ManualOK, ManualCompactionKept
  <2>4. CASE NextLevel
    <3>1. c.stage # "none" /\ c.manual /\ ~bgError => FALSE
      <4>1. open # "closing"
        BY <1>3, <2>4
      <4> QED BY <2>4, <4>1 DEF IInv, ManualOK, ManualCompactionKept
    <3>2. NumLevels \in Nat
      BY LevelAssumption
    <3>3. ManualCompactionKept'
      BY <1>1, <3>1 DEF ManualCompactionKept
    <3>4. CASE manual.level + 1 < manual.top
      <4>1. manual' = [stage |-> manual.stage, level |-> manual.level + 1, top |-> manual.top, lo |-> manual.lo,
                       hi |-> manual.hi, begin |-> manual.lo, posted |-> FALSE, done |-> FALSE]
        BY <2>4, <3>4 DEF IInv, ManualOK
      <4>2. manual.level \in Nat /\ manual.top \in 1 .. NumLevels - 1
        BY <2>4 DEF IInv, ManualOK
      <4> QED BY <3>2, <3>3, <3>4, <4>1, <4>2 DEF ManualOK
    <3>5. CASE ~(manual.level + 1 < manual.top)
      BY <2>4, <3>3, <3>5 DEF ManualOK
    <3> QED BY <3>4, <3>5
  <2>5. CASE CompactNothing
    <3>1. c.stage = "none"
      BY <2>5 DEF BackgroundIdle
    <3>2. CASE IsManual
      <4>1. manual' = [manual EXCEPT !.posted = FALSE, !.done = TRUE] /\ manual # NULL
        BY <2>5, <3>2 DEF IsManual
      <4> QED BY <1>1, <3>1, <4>1 DEF IInv, ManualOK, ManualCompactionKept
    <3>3. CASE ~IsManual
      <4>1. manual' = manual
        BY <2>5, <3>3
      <4> QED BY <1>1, <3>1, <4>1 DEF IInv, ManualOK, ManualCompactionKept
    <3> QED BY <3>2, <3>3
  <2> QED BY <2>1, <2>2, <2>3, <2>4, <2>5 DEF ManualStep
<1>6. open \in {"closed", "recovering"} => reader' = NULL /\ seek' = NULL
  BY <1>1 DEF IInv, PhaseOK
<1> QED BY <1>1, <1>2, <1>4, <1>5, <1>6, StillKeeps

(* CompactRange first has the memtable written.                             *)
LEMMA TEST_CompactMemTableKeeps ==
  ASSUME IInv, TEST_CompactMemTable
  PROVE  IInv'
<1>1. manual # NULL /\ manual.stage # "level" /\ manual' = [manual EXCEPT !.stage = "wait"]
  BY DEF TEST_CompactMemTable
<1>2. UNCHANGED <<c, bgError>>
  BY DEF TEST_CompactMemTable, SwitchMemTable
<1>3. ManualOK'
  BY <1>1, <1>2, ManualStageKeeps
<1>4. CASE SwitchMemTable
  BY <1>3, <1>4, SwitchKeeps
<1>5. CASE ~SwitchMemTable
  <2>1. UNCHANGED <<open, current, seek, reader, tables, logs, manifest, m, c, pending, vs, mem, imm, bgError>>
    BY <1>5 DEF TEST_CompactMemTable, disk, reads, ghost
  <2>2. open \notin {"closed", "recovering", "closing"}
    BY <1>1 DEF IInv, PhaseOK
  <2>3. SeekOK'
    BY <2>1, SameParts
  <2> QED BY <1>3, <2>1, <2>2, <2>3, StillKeeps
<1> QED BY <1>4, <1>5
-----------------------------------------------------------------------------
(* Tables that come and go.                                                 *)
LEMMA TableAdded ==
  ASSUME tables \in [DOMAIN tables -> SUBSET Entry], NEW n, NEW entries \in SUBSET Entry,
         tables' = With(tables, n, entries)
  PROVE  tables' \in [DOMAIN tables' -> SUBSET Entry] /\ DOMAIN tables' = DOMAIN tables \cup {n}
<1>1. tables' = [z \in DOMAIN tables \cup {n} |-> IF z = n THEN entries ELSE tables[z]]
  BY DEF With
<1>2. \A z \in DOMAIN tables : tables[z] \in SUBSET Entry
  OBVIOUS
<1> QED BY <1>1, <1>2

(* DeleteObsoleteFiles: a pending output stays, a table of a live version   *)
(* stays, and after an error nothing goes.                                  *)
LEMMA ObsoleteDeleted ==
  ASSUME DataOK, NEW live, NEW pend, NEW n, DeleteObsoleteFiles(live, pend, n), UNCHANGED mem,
         imm' = imm \/ imm' = NULL
  PROVE  /\ DataOK'
         /\ \A x \in DOMAIN tables : bgError \/ x \in pend => x \in DOMAIN tables'
         /\ \A v \in live : \A l \in Level : \A f \in ToSet(v[l]) :
              f.number \in DOMAIN tables => f.number \in DOMAIN tables'
<1> DEFINE keep == pend \cup UNION {FilesOf(v) : v \in live}
           dead == {x \in DOMAIN logs : x < n}
<1>1. /\ tables \in [DOMAIN tables -> SUBSET Entry] /\ logs \in [DOMAIN logs -> Seq(Seq(Entry))]
      /\ IsFiniteSet(DOMAIN logs) /\ DOMAIN logs \subseteq Nat
      /\ mem \subseteq Entry /\ (imm = NULL \/ imm \subseteq Entry)
  BY DEF DataOK
<1>2. \A v \in live : \A l \in Level : \A f \in ToSet(v[l]) : f.number \in keep
  BY DEF FilesOf
<1>3. CASE bgError
  <2>1. UNCHANGED <<tables, logs>>
    BY <1>3 DEF DeleteObsoleteFiles
  <2> QED BY <1>1, <2>1 DEF DataOK
<1>4. CASE ~bgError
  <2>1. tables' = [x \in DOMAIN tables \ (DOMAIN tables \ keep) |-> tables[x]]
        /\ logs' = [x \in DOMAIN logs \ dead |-> logs[x]]
    BY <1>4 DEF DeleteObsoleteFiles, Without
  <2> HIDE DEF keep, dead
  <2>2. DOMAIN tables' = DOMAIN tables \cap keep /\ tables' \in [DOMAIN tables' -> SUBSET Entry]
    BY <1>1, <2>1
  <2>3. DOMAIN logs' \in SUBSET (DOMAIN logs) /\ logs' \in [DOMAIN logs' -> Seq(Seq(Entry))]
    BY <1>1, <2>1
  <2>4. IsFiniteSet(DOMAIN logs')
    BY <1>1, <2>3, FS_Subset
  <2>5. DataOK'
    BY <1>1, <2>2, <2>3, <2>4 DEF DataOK
  <2>6. \A x \in DOMAIN tables : x \in pend => x \in DOMAIN tables'
    BY <2>2 DEF keep
  <2> QED BY <1>2, <1>4, <2>2, <2>5, <2>6
<1> QED BY <1>3, <1>4

(* The manifest with an edit more.                                          *)
LEMMA ManifestExtended ==
  ASSUME NumbersOK, NEW e, EditOK(e), manifest' = Append(manifest, e),
         UniqueNumbers(ManifestFiles \cup EditFiles(e))
  PROVE  /\ manifest' \in Seq({manifest'[i] : i \in DOMAIN manifest'}) /\ manifest' # << >>
         /\ \A i \in DOMAIN manifest' : EditOK(manifest'[i])
         /\ EndOfManifest' = e
         /\ ManifestFiles' = ManifestFiles \cup EditFiles(e)
         /\ \A l \in Level : Live(manifest', l) \subseteq After(Live(manifest, l), e, l)
<1> DEFINE n == Len(manifest)
           S == {manifest[i] : i \in DOMAIN manifest}
<1>1. manifest \in Seq(S) /\ \A i \in DOMAIN manifest : EditOK(manifest[i])
  BY DEF NumbersOK
<1>2. n \in Nat /\ DOMAIN manifest = 1 .. n
  BY ManifestFacts
<1> HIDE DEF S, n
<1>3. /\ manifest' \in Seq(S \cup {e}) /\ manifest' # << >> /\ Len(manifest') = n + 1
      /\ manifest'[n + 1] = e /\ \A i \in 1 .. n : manifest'[i] = manifest[i]
  <2>1. manifest \in Seq(S \cup {e})
    BY <1>1, SeqMonotonic
  <2> QED BY <2>1, AppendProperties DEF n
<1>4. DOMAIN manifest' = 1 .. n + 1
  BY <1>3, LenProperties
<1>5. \A i \in DOMAIN manifest' : (i = n + 1 /\ manifest'[i] = e) \/ (i \in DOMAIN manifest /\ manifest'[i] = manifest[i])
  BY <1>2, <1>3, <1>4
<1>6. manifest' \in Seq({manifest'[i] : i \in DOMAIN manifest'})
  <2> DEFINE M == manifest'
             R == {M[i] : i \in DOMAIN M}
  <2>1. M \in [1 .. n + 1 -> S \cup {e}] /\ DOMAIN M = 1 .. n + 1
    BY <1>2, <1>3, LenProperties
  <2> HIDE DEF M
  <2>2. M \in [1 .. n + 1 -> R]
    BY <2>1
  <2> HIDE DEF R
  <2>3. M \in Seq(R)
    BY <1>2, <2>2
  <2> QED BY <2>3 DEF R, M
<1>7. \A i \in DOMAIN manifest' : EditOK(manifest'[i])
  BY <1>1, <1>5
<1>8. EndOfManifest' = e
  BY <1>3 DEF EndOfManifest
<1>9. ManifestFiles' = ManifestFiles \cup EditFiles(e)
  <2>1. n + 1 \in DOMAIN manifest' /\ \A i \in DOMAIN manifest : i \in DOMAIN manifest' /\ manifest'[i] = manifest[i]
    BY <1>2, <1>3, <1>4
  <2>2. ManifestFiles' = UNION {EditFiles(manifest'[i]) : i \in DOMAIN manifest'}
    BY DEF ManifestFiles, EditFiles
  <2>3. \A x : x \in ManifestFiles' <=> x \in ManifestFiles \/ x \in EditFiles(e)
    BY <1>3, <1>5, <2>1, <2>2 DEF ManifestFiles
  <2> QED BY <2>3
<1>10. ASSUME NEW l \in Level PROVE Live(manifest', l) \subseteq After(Live(manifest, l), e, l)
  <2>1. Applied(manifest)[l].added \subseteq ManifestFiles \cup EditFiles(e)
    BY ManifestFacts
  <2>2. At(e.add, l) \subseteq ManifestFiles \cup EditFiles(e)
    BY DEF At, EditFiles
  <2>3. Live(Append(manifest, e), l) \subseteq After(Live(manifest, l), e, l)
    BY <1>1, <2>1, <2>2, LiveAfterEdit
  <2> QED BY <2>3
<1> QED BY <1>3, <1>6, <1>7, <1>8, <1>9, <1>10

(* The new current version.                                                 *)
LEMMA InstallFacts ==
  ASSUME IInv, open # "closed", NEW e, EditOK(e), EditFiles(e) \subseteq AllFiles, Install(e)
  PROVE  /\ current' \in [Level -> Seq(Meta)]
         /\ \A l \in Level : ToSet(current'[l]) = After(ToSet(current[l]), e, l)
         /\ \A l \in Level : ToSet(current'[l]) \subseteq ToSet(current[l]) \cup EditFiles(e)
         /\ seek' = NULL /\ vs'.next = vs.next /\ vs'.seq = vs.seq
         /\ vs' = [next |-> vs'.next, log |-> vs'.log, seq |-> vs'.seq, logfile |-> vs'.logfile]
<1>1. ASSUME NEW l \in Level
      PROVE  /\ current'[l] \in Seq(Meta) /\ ToSet(current'[l]) = After(ToSet(current[l]), e, l)
             /\ ToSet(current'[l]) \subseteq ToSet(current[l]) \cup EditFiles(e)
  <2> DEFINE S == ToSet(current[l]) \cup At(e.add, l)
  <2>1. At(e.add, l) \subseteq EditFiles(e)
    BY DEF At, EditFiles
  <2>2. ToSet(current[l]) \subseteq AllFiles
    BY DEF IInv, VersionsOK, VersionOK, AllFiles
  <2>3. S \subseteq AllFiles
    BY <2>1, <2>2
  <2> HIDE DEF S
  <2>4. S \subseteq Meta /\ UniqueNumbers(S) /\ vs.next \in Nat /\ \A f \in S : f.number < vs.next
    BY <2>3, FilesTyped DEF IInv, FilesOK, NumbersOK, UniqueNumbers
  <2>5. /\ SaveTo(current, Applied(<<e>>))[l] \in Seq(Meta)
        /\ ToSet(SaveTo(current, Applied(<<e>>))[l]) = After(ToSet(current[l]), e, l)
    BY <2>4, InstalledLists DEF S
  <2>6. current' = SaveTo(current, Applied(<<e>>))
    BY DEF Install
  <2>7. After(ToSet(current[l]), e, l) \subseteq ToSet(current[l]) \cup EditFiles(e)
    BY <2>1 DEF After
  <2> QED BY <2>5, <2>6, <2>7
<1>2. current' \in [Level -> Seq(Meta)]
  <2>1. current' = SaveTo(current, Applied(<<e>>))
    BY DEF Install
  <2> QED BY <1>1, <2>1, SaveToDomain
<1>3. /\ seek' = NULL /\ vs'.next = vs.next /\ vs'.seq = vs.seq
      /\ vs' = [next |-> vs'.next, log |-> vs'.log, seq |-> vs'.seq, logfile |-> vs'.logfile]
  <2>1. vs = [next |-> vs.next, log |-> vs.log, seq |-> vs.seq, logfile |-> vs.logfile]
    BY DEF IInv, NumbersOK
  <2>2. vs' = [next |-> vs.next, log |-> e.log, seq |-> vs.seq, logfile |-> vs.logfile] /\ seek' = NULL
    BY <2>1 DEF Install
  <2>3. vs'.next = vs.next /\ vs'.log = e.log /\ vs'.seq = vs.seq /\ vs'.logfile = vs.logfile
    BY <2>2
  <2> QED BY <2>2, <2>3
<1> QED BY <1>1, <1>2, <1>3
-----------------------------------------------------------------------------
(* The memtable compaction.                                                 *)
LEMMA StartMemKeeps ==
  ASSUME IInv, StartMemCompaction
  PROVE  IInv'
<1> USE DEF StartMemCompaction, disk, reads, ghost
<1>1. /\ imm # NULL /\ m.stage = "none" /\ (c.stage = "none" \/ c.stage = "work")
      /\ UNCHANGED <<open, mem, imm, current, seek, tables, logs, manifest, reader, bgError, c, manual>>
      /\ m' = [number |-> vs.next, base |-> current, stage |-> "build", edit |-> NULL]
      /\ pending \subseteq pending'
  OBVIOUS
<1>2. open \notin {"closed", "recovering"}
  BY <1>1 DEF IInv, PhaseOK
<1>3. vs.seq \in Nat /\ vs.next \in Nat /\ vs = [next |-> vs.next, log |-> vs.log, seq |-> vs.seq, logfile |-> vs.logfile]
  BY DEF IInv, NumbersOK
<1>4. vs' = [next |-> vs.next + 1, log |-> vs.log, seq |-> vs.seq, logfile |-> vs.logfile]
  BY <1>3
<1>5. /\ vs'.next = vs.next + 1 /\ vs'.seq = vs.seq
      /\ vs' = [next |-> vs'.next, log |-> vs'.log, seq |-> vs'.seq, logfile |-> vs'.logfile]
  <2> HIDE DEF StartMemCompaction
  <2> QED BY <1>4
<1> HIDE DEF StartMemCompaction
<1>6. /\ m'.number = vs.next /\ m'.stage = "build" /\ m'.edit = NULL
      /\ m' = [number |-> m'.number, base |-> m'.base, stage |-> m'.stage, edit |-> m'.edit]
  BY <1>1
<1>7. ~MemEdit /\ ~MemEdit' /\ ~CompactionEdit
  <2>1. ~MemEdit
    BY <1>1, <1>2 DEF MemEdit
  <2>2. open' # "recovering" /\ m'.stage \notin {"apply", "install"}
    BY <1>1, <1>2, <1>6
  <2>3. ~MemEdit'
    BY <2>2 DEF MemEdit
  <2>4. ~CompactionEdit
    BY <1>1 DEF CompactionEdit
  <2> QED BY <2>1, <2>3, <2>4
<1>8. /\ AllFiles' = AllFiles /\ ManifestFiles' = ManifestFiles /\ EndOfManifest' = EndOfManifest
  BY <1>1, <1>7 DEF AllFiles, ManifestFiles, MemFiles, Outputs, EndOfManifest
<1>9. EndOfManifest.next \in Nat /\ EndOfManifest.next <= vs.next
  BY <1>2, ManifestFacts DEF IInv, EditOK, NumbersOK
<1>10. PhaseOK'
  BY <1>1, <1>2 DEF IInv, PhaseOK
<1>11. DataOK' /\ SeekOK' /\ ManualOK'
  BY <1>1, SameParts
<1>12. NumbersOK'
  BY <1>1, <1>3, <1>5, <1>8, <1>9 DEF IInv, NumbersOK
<1>13. \A f \in AllFiles : f.number \in Nat /\ f.number < vs.next
  BY <1>2, FilesTyped DEF IInv, FilesOK
<1>14. FilesOK'
  BY <1>3, <1>5, <1>8, <1>13 DEF IInv, FilesOK
<1>15. VersionsOK'
  BY <1>1, <1>8 DEF IInv, VersionsOK, VersionOK
<1>16. CompactionOK'
  BY <1>1, <1>7 DEF IInv, CompactionOK, CompactionEdit
<1>17. MemCompactionOK'
  <2>1. /\ m' = [number |-> m'.number, base |-> m'.base, stage |-> m'.stage, edit |-> m'.edit]
        /\ m'.stage = "build" /\ m'.edit = NULL /\ imm' # NULL /\ m'.number \in Nat /\ m'.number < vs'.next
    BY <1>1, <1>3, <1>5, <1>6
  <2>2. \A f \in AllFiles' : f.number # m'.number
    BY <1>3, <1>6, <1>8, <1>13
  <2>3. c'.stage # "none" => c'.stage = "work"
    BY <1>1
  <2> QED BY <1>7, <2>1, <2>2, <2>3 DEF MemCompactionOK
<1>18. CurrentOK'
  <2>1. ~bgError => \A l \in Level : Live(manifest, l) \subseteq ToSet(current[l])
    BY <1>1, <1>2 DEF IInv, CurrentOK
  <2>2. m'.stage # "install" /\ ~(c'.stage = "install")
    BY <1>1, <1>6
  <2> QED BY <1>1, <2>1, <2>2 DEF CurrentOK
<1> QED BY <1>10, <1>11, <1>12, <1>14, <1>15, <1>16, <1>17, <1>18 DEF IInv

(* An error of the memtable compaction; its table and its record may be     *)
(* there all the same.                                                      *)
LEMMA MemFails ==
  ASSUME IInv, m.stage # "none", open # "recovering", m' = NoWork, bgError' = TRUE,
         UNCHANGED <<open, mem, imm, current, seek, vs, logs, reader, c, manual>>,
         DataOK', DOMAIN tables \subseteq DOMAIN tables',
         manifest' = manifest \/ (m.stage = "apply" /\ manifest' = Append(manifest, m.edit)),
         \A f \in Outputs : f.number \in pending => f.number \in pending'
  PROVE  IInv'
<1>1. open \notin {"closed", "recovering"}
  BY DEF IInv, PhaseOK
<1>2. ~MemEdit' /\ (c.stage # "none" => c.stage = "work") /\ ~CompactionEdit
  BY <1>1 DEF MemEdit, CompactionEdit, IInv, MemCompactionOK, NoWork
<1>3. vs.next \in Nat /\ EndOfManifest.next \in Nat /\ EndOfManifest.next <= vs.next
  BY <1>1, ManifestFacts DEF IInv, EditOK, NumbersOK
<1>4. /\ ManifestFiles \subseteq ManifestFiles' /\ AllFiles' \subseteq AllFiles
      /\ NumbersOK' /\ \A f \in ManifestFiles' : f.number < EndOfManifest'.next
      /\ \A l \in Level : \A f \in Live(manifest', l) : f.number \in DOMAIN tables'
  <2>1. CASE manifest' = manifest
    <3>1. ManifestFiles' = ManifestFiles /\ EndOfManifest' = EndOfManifest
      BY <2>1 DEF ManifestFiles, EndOfManifest
    <3>2. AllFiles' \subseteq AllFiles
      BY <1>2, <3>1 DEF AllFiles, MemFiles, Outputs
    <3>3. NumbersOK'
      BY <2>1, <3>1 DEF IInv, NumbersOK
    <3> QED BY <2>1, <3>1, <3>2, <3>3 DEF IInv, FilesOK, VersionsOK
  <2>2. CASE m.stage = "apply" /\ manifest' = Append(manifest, m.edit)
    <3>1. MemEdit
      BY <2>2 DEF MemEdit
    <3>2. /\ EditOK(m.edit) /\ EndOfManifest.next <= m.edit.next /\ m.edit.next <= vs.next
          /\ \A f \in EditFiles(m.edit) : f.number < m.edit.next /\ f.number \in DOMAIN tables
      BY <3>1 DEF IInv, MemCompactionOK, Numbered
    <3>3. MemFiles = EditFiles(m.edit) /\ UniqueNumbers(ManifestFiles \cup EditFiles(m.edit))
      BY <3>1 DEF MemFiles, IInv, FilesOK, AllFiles, UniqueNumbers
    <3>4. /\ manifest' \in Seq({manifest'[i] : i \in DOMAIN manifest'}) /\ manifest' # << >>
          /\ \A i \in DOMAIN manifest' : EditOK(manifest'[i])
          /\ EndOfManifest' = m.edit /\ ManifestFiles' = ManifestFiles \cup EditFiles(m.edit)
          /\ \A l \in Level : Live(manifest', l) \subseteq After(Live(manifest, l), m.edit, l)
      BY <2>2, <3>2, <3>3, ManifestExtended DEF IInv
    <3>5. AllFiles' \subseteq AllFiles
      BY <1>2, <3>3, <3>4 DEF AllFiles, MemFiles, Outputs
    <3>6. NumbersOK'
      BY <3>2, <3>4 DEF IInv, NumbersOK
    <3>7. \A f \in ManifestFiles' : f.number < EndOfManifest'.next
      <4>1. \A f \in ManifestFiles : f.number \in Nat /\ f.number < EndOfManifest.next
        BY ManifestFacts, MetaFacts DEF IInv, FilesOK
      <4> QED BY <1>3, <3>2, <3>4, <4>1 DEF EditOK
    <3>8. \A l \in Level : \A f \in Live(manifest', l) : f.number \in DOMAIN tables'
      <4>1. \A l \in Level : After(Live(manifest, l), m.edit, l) \subseteq Live(manifest, l) \cup EditFiles(m.edit)
        BY DEF After, At, EditFiles
      <4> QED BY <3>2, <3>4, <4>1 DEF IInv, VersionsOK
    <3> QED BY <3>4, <3>5, <3>6, <3>7, <3>8
  <2> QED BY <2>1, <2>2
<1>5. PhaseOK'
  BY <1>1 DEF IInv, PhaseOK
<1>6. SeekOK' /\ ManualOK'
  BY SameParts
<1>7. FilesOK'
  BY <1>1, <1>4 DEF IInv, FilesOK, UniqueNumbers
<1>8. VersionsOK'
  BY <1>4 DEF IInv, VersionsOK, VersionOK
<1>9. CompactionOK'
  BY <1>2 DEF IInv, CompactionOK, CompactionEdit, Outputs
<1>10. MemCompactionOK'
  BY <1>2 DEF MemCompactionOK, NoWork
<1>11. CurrentOK'
  BY DEF CurrentOK
<1> QED BY <1>4, <1>5, <1>6, <1>7, <1>8, <1>9, <1>10, <1>11 DEF IInv

(* WriteLevel0Table: the table is written under its number, and the edit    *)
(* adds it to the level picked.                                             *)
LEMMA BuildTableKeeps ==
  ASSUME IInv, BuildTable
  PROVE  IInv'
<1> DEFINE f == FileMeta(m.number, imm)
           level == PickLevelForMemTableOutput(m.base, f.smallest.k, f.largest.k)
           add == IF imm = {} THEN {} ELSE {<<level, f>>}
<1>1. m.stage = "build" /\ pending' = pending \ {m.number} /\ manifest' = manifest
      /\ tables' = IF imm = {} THEN tables ELSE With(tables, m.number, imm)
  BY DEF BuildTable
<1>2. /\ open \notin {"closed", "recovering"}
      /\ m = [number |-> m.number, base |-> m.base, stage |-> m.stage, edit |-> m.edit]
      /\ m.number \in Nat /\ m.number < vs.next /\ imm # NULL
      /\ \A g \in AllFiles : g.number # m.number
      /\ c.stage # "none" => c.stage = "work"
  <2>1. open # "recovering"
    BY <1>1 DEF IInv, PhaseOK
  <2>2. open # "closed"
    BY <1>1 DEF IInv, PhaseOK
  <2> QED BY <1>1, <2>1, <2>2 DEF IInv, MemCompactionOK
<1>3. imm \subseteq Entry /\ tables \in [DOMAIN tables -> SUBSET Entry]
  BY <1>2 DEF IInv, DataOK
<1>4. imm # {} => f \in Meta /\ f.number = m.number
  BY <1>2, <1>3, FileMetaTyped
<1>5. level \in Level
  BY MemLevelIsLevel
<1> HIDE DEF f, level
<1>6. /\ tables' \in [DOMAIN tables' -> SUBSET Entry] /\ DOMAIN tables \subseteq DOMAIN tables'
      /\ imm # {} => m.number \in DOMAIN tables'
  <2>1. CASE imm = {}
    BY <1>1, <1>3, <2>1
  <2>2. CASE imm # {}
    BY <1>1, <1>3, <2>2, TableAdded
  <2> QED BY <2>1, <2>2
<1>7. UNCHANGED <<open, mem, imm, current, seek, vs, logs, c, manual, reader>>
  BY DEF BuildTable, MemCompactionFails, reads, ghost
<1>8. DataOK'
  BY <1>6, <1>7 DEF IInv, DataOK
<1>9. \A g \in Outputs : g.number \in pending => g.number \in pending'
  BY <1>1, <1>2 DEF AllFiles
<1>10. CASE open = "closing"
  <2>1. m' = NoWork /\ bgError' = TRUE
    BY <1>10 DEF BuildTable, MemCompactionFails
  <2> QED BY <1>1, <1>2, <1>6, <1>7, <1>8, <1>9, <2>1, MemFails
<1>11. CASE open # "closing"
  <2> DEFINE e == LogAndApplyEdit([NoEdit EXCEPT !.add = add], vs.logfile)
  <2>1. m' = [m EXCEPT !.stage = "apply", !.edit = e] /\ bgError' = bgError
    BY <1>11 DEF BuildTable, f, level
  <2>2. e.add = add /\ e.next = vs.next /\ e.seq = vs.seq
    BY DEF LogAndApplyEdit, NumberedEdit, NoEdit
  <2> HIDE DEF e
  <2>3. /\ m'.stage = "apply" /\ m'.edit = e
        /\ m' = [number |-> m'.number, base |-> m'.base, stage |-> m'.stage, edit |-> m'.edit]
    <3>1. m' = [number |-> m.number, base |-> m.base, stage |-> "apply", edit |-> e]
      BY <1>2, <2>1
    <3>2. m'.number = m.number /\ m'.base = m.base /\ m'.stage = "apply" /\ m'.edit = e
      BY <3>1
    <3> QED BY <3>1, <3>2
  <2>4. vs.next \in Nat /\ vs.seq \in Nat /\ EndOfManifest.next \in Nat /\ EndOfManifest.next <= vs.next
    BY <1>2, ManifestFacts DEF IInv, EditOK, NumbersOK
  <2>5. EditOK(e) /\ EditFiles(e) = (IF imm = {} THEN {} ELSE {f})
    <3>1. CASE imm = {}
      BY <2>2, <2>4, <3>1 DEF EditOK, EditFiles
    <3>2. CASE imm # {}
      <4>1. e.add = {<<level, f>>} /\ <<level, f>>[2] = f
        BY <2>2, <3>2
      <4>2. {x[2] : x \in e.add} = {<<level, f>>[2]}
        BY <4>1
      <4>3. EditFiles(e) = {f}
        BY <4>1, <4>2 DEF EditFiles
      <4>4. EditOK(e)
        BY <1>4, <1>5, <2>2, <2>4, <3>2, <4>1 DEF EditOK
      <4> QED BY <3>2, <4>3, <4>4
    <3> QED BY <3>1, <3>2
  <2>6. ManifestFiles' = ManifestFiles /\ EndOfManifest' = EndOfManifest /\ Outputs' = Outputs
        /\ ~MemEdit /\ ~CompactionEdit /\ (MemFiles' \subseteq EditFiles(e)) /\ MemFiles = {}
    BY <1>1, <1>2, <1>7, <2>3 DEF ManifestFiles, EndOfManifest, Outputs, MemEdit, CompactionEdit, MemFiles, EditFiles
  <2>7. AllFiles' \subseteq AllFiles \cup EditFiles(e)
    BY <2>6 DEF AllFiles
  <2>8. FilesOK'
    <3>1. UniqueNumbers(AllFiles \cup EditFiles(e))
      BY <1>2, <1>4, <2>5 DEF IInv, FilesOK, UniqueNumbers
    <3>2. \A g \in AllFiles \cup EditFiles(e) : g.number < vs.next
      BY <1>2, <1>4, <2>5 DEF IInv, FilesOK
    <3> QED BY <1>7, <2>6, <2>7, <3>1, <3>2 DEF IInv, FilesOK, UniqueNumbers
  <2>9. PhaseOK'
    BY <1>2, <1>7 DEF IInv, PhaseOK
  <2>10. SeekOK' /\ ManualOK'
    BY <1>7, <2>1, SameParts
  <2>11. NumbersOK'
    BY <1>1, <1>7, <2>6 DEF IInv, NumbersOK
  <2>12. VersionsOK'
    BY <1>1, <1>6, <1>7, <2>6 DEF IInv, VersionsOK, VersionOK
  <2>13. CompactionOK'
    BY <1>2, <1>6, <1>7, <1>9 DEF IInv, CompactionOK, CompactionEdit, Outputs
  <2>14. MemCompactionOK'
    <3>1. EndOfManifest'.next <= m'.edit.next /\ m'.edit.next <= vs'.next
      BY <1>7, <2>2, <2>3, <2>4, <2>6
    <3>2. Numbered(m.edit)'
      BY <3>1 DEF Numbered
    <3>3. \A g \in EditFiles(m'.edit) : g.number < m'.edit.next /\ g.number \in DOMAIN tables'
      BY <1>2, <1>4, <1>6, <2>2, <2>3, <2>5
    <3>4. EditFiles(m.edit)' = EditFiles(m'.edit) /\ EditOK(m.edit)'
      BY <2>3, <2>5 DEF EditFiles, EditOK
    <3>5. c'.stage # "none" => c'.stage = "work"
      BY <1>2, <1>7
    <3>6. m'.stage # "build" /\ m'.stage # "install" /\ m'.stage \in {"build", "apply", "install"}
      BY <2>3
    <3> QED BY <2>3, <3>2, <3>3, <3>4, <3>5, <3>6 DEF MemCompactionOK
  <2>15. CurrentOK'
    BY <1>1, <1>2, <1>7, <2>1, <2>3 DEF IInv, CurrentOK
  <2> QED BY <1>8, <2>8, <2>9, <2>10, <2>11, <2>12, <2>13, <2>14, <2>15 DEF IInv
<1> QED BY <1>10, <1>11

(* A table or manifest record of the memtable that fails: the error keeps   *)
(* DeleteObsoleteFiles from removing anything.                              *)
LEMMA MemFailureKeeps ==
  ASSUME IInv, BuildTableFails \/ WriteManifestOfMemFails
  PROVE  IInv'
<1>1. /\ m.stage # "none" /\ m' = NoWork /\ bgError' = TRUE /\ tables' = tables
      /\ UNCHANGED <<open, mem, imm, current, seek, vs, logs, reader, c, manual>>
  BY DEF BuildTableFails, WriteManifestOfMemFails, MemCompactionFails, reads, ghost
<1>2. m.stage \in {"build", "apply"}
  BY DEF BuildTableFails, WriteManifestOfMemFails
<1>3. open # "recovering"
  BY <1>2 DEF IInv, PhaseOK
<1>4. manifest' = manifest \/ (m.stage = "apply" /\ manifest' = Append(manifest, m.edit))
  BY DEF BuildTableFails, WriteManifestOfMemFails
<1>5. \A f \in Outputs : f.number \in pending => f.number \in pending'
  <2>1. CASE BuildTableFails
    <3>1. \A f \in AllFiles : f.number # m.number
      BY <1>1, <1>3, <2>1 DEF BuildTableFails, IInv, MemCompactionOK
    <3> QED BY <2>1, <3>1 DEF BuildTableFails, AllFiles
  <2>2. CASE WriteManifestOfMemFails
    BY <2>2 DEF WriteManifestOfMemFails
  <2> QED BY <2>1, <2>2
<1>6. DataOK'
  BY <1>1, SameParts
<1> QED BY <1>1, <1>3, <1>4, <1>5, <1>6, MemFails

(* LogAndApply, without the lock: the record of the memtable is in the      *)
(* manifest, the version not yet installed.                                 *)
LEMMA WriteManifestOfMemKeeps ==
  ASSUME IInv, WriteManifestOfMem
  PROVE  IInv'
<1>1. /\ m.stage = "apply" /\ manifest' = Append(manifest, m.edit)
      /\ m' = [m EXCEPT !.stage = "install"]
      /\ UNCHANGED <<open, mem, imm, current, seek, vs, tables, logs, pending, reader, bgError, c, manual>>
  BY DEF WriteManifestOfMem, reads, ghost
<1>2. open \notin {"closed", "recovering"} /\ MemEdit
  BY <1>1 DEF IInv, PhaseOK, MemEdit
<1>3. /\ m = [number |-> m.number, base |-> m.base, stage |-> m.stage, edit |-> m.edit]
      /\ c.stage # "none" => c.stage = "work"
      /\ EditOK(m.edit) /\ EndOfManifest.next <= m.edit.next /\ m.edit.next <= vs.next
      /\ \A f \in EditFiles(m.edit) : f.number < m.edit.next /\ f.number \in DOMAIN tables
  BY <1>1, <1>2 DEF IInv, MemCompactionOK, Numbered
<1>4. MemFiles = EditFiles(m.edit) /\ UniqueNumbers(ManifestFiles \cup EditFiles(m.edit))
  BY <1>2 DEF MemFiles, IInv, FilesOK, AllFiles, UniqueNumbers
<1>5. /\ manifest' \in Seq({manifest'[i] : i \in DOMAIN manifest'}) /\ manifest' # << >>
      /\ \A i \in DOMAIN manifest' : EditOK(manifest'[i])
      /\ EndOfManifest' = m.edit /\ ManifestFiles' = ManifestFiles \cup EditFiles(m.edit)
      /\ \A l \in Level : Live(manifest', l) \subseteq After(Live(manifest, l), m.edit, l)
  BY <1>1, <1>3, <1>4, ManifestExtended DEF IInv
<1>6. /\ m'.number = m.number /\ m'.base = m.base /\ m'.stage = "install" /\ m'.edit = m.edit
      /\ m' = [number |-> m'.number, base |-> m'.base, stage |-> m'.stage, edit |-> m'.edit]
  <2>1. m' = [number |-> m.number, base |-> m.base, stage |-> "install", edit |-> m.edit]
    BY <1>1, <1>3
  <2>2. m'.number = m.number /\ m'.base = m.base /\ m'.stage = "install" /\ m'.edit = m.edit
    BY <2>1
  <2> QED BY <2>1, <2>2
<1>7. ~CompactionEdit /\ MemFiles' \subseteq EditFiles(m.edit) /\ AllFiles' \subseteq AllFiles
  <2>1. MemFiles' \subseteq EditFiles(m.edit)
    BY <1>6 DEF MemFiles, EditFiles
  <2> QED BY <1>1, <1>3, <1>4, <1>5, <2>1 DEF CompactionEdit, AllFiles, Outputs
<1>8. PhaseOK'
  BY <1>1, <1>2 DEF IInv, PhaseOK
<1>9. DataOK' /\ SeekOK' /\ ManualOK'
  BY <1>1, SameParts
<1>10. vs.next \in Nat /\ EndOfManifest.next \in Nat /\ \A f \in ManifestFiles : f.number \in Nat
  BY ManifestFacts, MetaFacts DEF IInv, EditOK, NumbersOK
<1>11. NumbersOK'
  BY <1>1, <1>3, <1>5 DEF IInv, NumbersOK
<1>12. \A f \in ManifestFiles' : f.number < EndOfManifest'.next
  BY <1>3, <1>5, <1>10 DEF IInv, FilesOK, EditOK
<1>13. FilesOK'
  BY <1>1, <1>7, <1>12 DEF IInv, FilesOK, UniqueNumbers
<1>14. VersionsOK'
  <2>1. \A l \in Level : After(Live(manifest, l), m.edit, l) \subseteq Live(manifest, l) \cup EditFiles(m.edit)
    BY DEF After, At, EditFiles
  <2>2. \A l \in Level : \A f \in Live(manifest', l) : f.number \in DOMAIN tables'
    BY <1>1, <1>3, <1>5, <2>1 DEF IInv, VersionsOK
  <2> QED BY <1>1, <1>5, <2>2 DEF IInv, VersionsOK, VersionOK
<1>15. CompactionOK'
  BY <1>1, <1>3, <1>7 DEF IInv, CompactionOK, CompactionEdit
<1>16. MemCompactionOK'
  <2>1. Numbered(m.edit)'
    BY <1>1, <1>3, <1>5, <1>6 DEF Numbered, EditOK
  <2> QED BY <1>1, <1>2, <1>3, <1>5, <1>6, <2>1 DEF MemCompactionOK, EditFiles
<1>17. CurrentOK'
  <2>1. ASSUME ~bgError, NEW l \in Level PROVE Live(manifest', l) \subseteq After(ToSet(current[l]), m.edit, l)
    <3>1. Live(manifest, l) \subseteq ToSet(current[l])
      BY <1>1, <1>2, <1>3, <2>1 DEF IInv, CurrentOK
    <3> QED BY <1>5, <3>1 DEF After
  <2>2. ~bgError' => \A l \in Level : Live(manifest', l) \subseteq After(ToSet(current'[l]), m'.edit, l)
    BY <1>1, <1>6, <2>1
  <2>3. open' # "recovering" /\ m'.stage = "install"
    <3>1. m'.stage = "install" /\ open' = open
      BY <1>1, <1>6
    <3> QED BY <1>1, <1>2, <1>6, <3>1
  <2> QED BY <2>2, <2>3 DEF CurrentOK
<1> QED BY <1>8, <1>9, <1>11, <1>13, <1>14, <1>15, <1>16, <1>17 DEF IInv

(* LogAndApply, the lock held again: the version is installed, and          *)
(* DeleteObsoleteFiles runs.                                                *)
LEMMA InstallMemKeeps ==
  ASSUME IInv, InstallMem
  PROVE  IInv'
<1>1. /\ m.stage = "install" /\ Install(m.edit) /\ m' = NoWork /\ imm' = NULL
      /\ DeleteObsoleteFiles(LiveVersions(current', c), pending, m.edit.log)
      /\ UNCHANGED <<open, mem, manifest, pending, reader, bgError, c, manual>>
  BY DEF InstallMem, reads, ghost
<1>2. open \notin {"closed", "recovering"} /\ MemEdit /\ ~MemEdit'
  BY <1>1 DEF IInv, PhaseOK, MemEdit, NoWork
<1>3. /\ EditOK(m.edit) /\ EditFiles(m.edit) \subseteq ManifestFiles /\ (c.stage # "none" => c.stage = "work")
      /\ \A f \in EditFiles(m.edit) : f.number \in DOMAIN tables
  BY <1>1, <1>2 DEF IInv, MemCompactionOK
<1>4. /\ current' \in [Level -> Seq(Meta)]
      /\ \A l \in Level : ToSet(current'[l]) = After(ToSet(current[l]), m.edit, l)
      /\ \A l \in Level : ToSet(current'[l]) \subseteq ToSet(current[l]) \cup EditFiles(m.edit)
      /\ seek' = NULL /\ vs'.next = vs.next /\ vs'.seq = vs.seq
      /\ vs' = [next |-> vs'.next, log |-> vs'.log, seq |-> vs'.seq, logfile |-> vs'.logfile]
  <2>1. EditFiles(m.edit) \subseteq AllFiles
    BY <1>3 DEF AllFiles
  <2> QED BY <1>1, <1>2, <1>3, <2>1, InstallFacts
<1>5. /\ DataOK'
      /\ \A x \in DOMAIN tables : bgError \/ x \in pending => x \in DOMAIN tables'
      /\ \A v \in LiveVersions(current', c) : \A l \in Level : \A f \in ToSet(v[l]) :
              f.number \in DOMAIN tables => f.number \in DOMAIN tables'
  BY <1>1, ObsoleteDeleted DEF IInv
<1>6. /\ ManifestFiles' = ManifestFiles /\ EndOfManifest' = EndOfManifest /\ Outputs' = Outputs
      /\ ~CompactionEdit /\ AllFiles' \subseteq AllFiles
  BY <1>1, <1>2, <1>3 DEF ManifestFiles, EndOfManifest, Outputs, CompactionEdit, AllFiles, MemFiles
<1>7. PhaseOK'
  BY <1>1, <1>2 DEF IInv, PhaseOK
<1>8. SeekOK' /\ ManualOK'
  BY <1>1, <1>4, SameParts DEF SeekOK
<1>9. NumbersOK'
  BY <1>1, <1>4, <1>6 DEF IInv, NumbersOK
<1>10. FilesOK'
  BY <1>1, <1>4, <1>6 DEF IInv, FilesOK, UniqueNumbers
<1>11. \A l \in Level : \A f \in ToSet(current'[l]) :
         f \in ManifestFiles /\ f.number \in DOMAIN tables /\ f.number \in DOMAIN tables'
  <2>1. \A l \in Level : \A f \in ToSet(current'[l]) : f \in ManifestFiles /\ f.number \in DOMAIN tables
    BY <1>3, <1>4 DEF IInv, VersionsOK, VersionOK
  <2>2. current' \in LiveVersions(current', c)
    BY DEF LiveVersions
  <2> QED BY <1>5, <2>1, <2>2
<1>12. ~bgError => \A l \in Level : Live(manifest, l) \subseteq ToSet(current'[l])
  BY <1>1, <1>2, <1>4 DEF IInv, CurrentOK
<1>13. VersionsOK'
  <2>1. VersionOK(current)'
    BY <1>4, <1>6, <1>11 DEF VersionOK
  <2>2. c.stage # "none" => VersionOK(c.version)'
    <3>1. c.stage # "none" => c.version \in LiveVersions(current', c) /\ VersionOK(c.version)
      BY DEF LiveVersions, IInv, VersionsOK
    <3> QED BY <1>1, <1>5, <1>6, <3>1 DEF VersionOK
  <2>3. reader # NULL => VersionOK(reader.version)'
    <3>1. reader # NULL => reader.version \in LiveVersions(current', c) /\ VersionOK(reader.version)
      BY DEF LiveVersions, IInv, VersionsOK
    <3> QED BY <1>1, <1>5, <1>6, <3>1 DEF VersionOK
  <2>4. \A l \in Level : \A f \in Live(manifest, l) : f.number \in DOMAIN tables'
    <3>1. \A l \in Level : \A f \in Live(manifest, l) : f.number \in DOMAIN tables
      BY DEF IInv, VersionsOK
    <3> QED BY <1>5, <1>11, <1>12, <3>1
  <2> QED BY <1>1, <2>1, <2>2, <2>3, <2>4 DEF VersionsOK
<1>14. CompactionOK'
  BY <1>1, <1>5, <1>6 DEF IInv, CompactionOK, CompactionEdit
<1>15. MemCompactionOK'
  BY <1>1, <1>2 DEF MemCompactionOK, NoWork
<1>16. CurrentOK'
  BY <1>1, <1>3, <1>12 DEF CurrentOK, NoWork
<1> QED BY <1>5, <1>7, <1>8, <1>9, <1>10, <1>13, <1>14, <1>15, <1>16 DEF IInv
-----------------------------------------------------------------------------
(* The compaction.                                                          *)

(* What BackgroundCompaction picks are files of a level that has a next.    *)
LEMMA PickedOK ==
  ASSUME IInv, open = "open", NEW inputs, inputs = Picked, inputs # NULL
  PROVE  inputs.level \in Lower /\ inputs.files \in Seq(ToSet(current[inputs.level]))
<1>1. current \in [Level -> Seq(Meta)]
  BY DEF IInv, VersionsOK, VersionOK
<1>2. seek # NULL => seek[1] \in Lower /\ seek[2] \in ToSet(current[seek[1]])
  BY DEF IInv, SeekOK, Lower
<1>3. CASE IsManual
  <2>1. manual.level \in Nat /\ manual.top \in 1 .. NumLevels - 1 /\ manual.level < manual.top
    BY <1>3 DEF IsManual, IInv, ManualOK
  <2>2. manual.level \in Lower
    BY <2>1, LowerFacts DEF Lower
  <2>3. inputs = CompactRange(current, manual.level, manual.begin, manual.hi)
    BY <1>3 DEF Picked
  <2> QED BY <1>1, <2>2, <2>3, PickedByHand
<1>4. CASE ~IsManual
  <2>1. inputs = PickCompaction(current, seek, pointers)
    BY <1>4 DEF Picked
  <2> QED BY <1>1, <1>2, <2>1, PickedBySizeOrSeek
<1> QED BY <1>3, <1>4

(* The elements of two sequences put together.                              *)
LEMMA ConcatElements ==
  ASSUME NEW A, NEW B, NEW s \in Seq(A), NEW t \in Seq(B)
  PROVE  ToSet(s \o t) = ToSet(s) \cup ToSet(t)
<1> DEFINE S == A \cup B
<1>1. s \in Seq(S) /\ t \in Seq(S)
  BY SeqMonotonic
<1> HIDE DEF S
<1>2. /\ Len(s) \in Nat /\ Len(t) \in Nat
      /\ ToSet(s) = {s[i] : i \in 1 .. Len(s)} /\ ToSet(t) = {t[i] : i \in 1 .. Len(t)}
  BY SequenceFacts
<1>3. /\ s \o t \in Seq(S) /\ Len(s \o t) = Len(s) + Len(t)
      /\ \A i \in 1 .. Len(s) + Len(t) : (s \o t)[i] = IF i <= Len(s) THEN s[i] ELSE t[i - Len(s)]
  BY <1>1, ConcatProperties
<1>4. ToSet(s \o t) = {(s \o t)[i] : i \in 1 .. Len(s) + Len(t)}
  BY <1>3, SequenceFacts
<1>5. ASSUME NEW i \in 1 .. Len(s) + Len(t) PROVE (s \o t)[i] \in ToSet(s) \cup ToSet(t)
  <2>1. CASE i <= Len(s)
    BY <1>2, <1>3, <2>1
  <2>2. CASE ~(i <= Len(s))
    <3>1. i - Len(s) \in 1 .. Len(t)
      BY <1>2, <2>2
    <3> QED BY <1>2, <1>3, <2>2, <3>1
  <2> QED BY <2>1, <2>2
<1>6. \A i \in 1 .. Len(s) : i \in 1 .. Len(s) + Len(t) /\ (s \o t)[i] = s[i]
  BY <1>2, <1>3
<1>7. \A i \in 1 .. Len(t) : i + Len(s) \in 1 .. Len(s) + Len(t) /\ (s \o t)[i + Len(s)] = t[i]
  BY <1>2, <1>3
<1>8. ToSet(s \o t) \subseteq ToSet(s) \cup ToSet(t)
  BY <1>4, <1>5
<1>9. ToSet(s) \subseteq ToSet(s \o t)
  BY <1>2, <1>4, <1>6
<1>10. ToSet(t) \subseteq ToSet(s \o t)
  BY <1>2, <1>4, <1>7
<1> QED BY <1>8, <1>9, <1>10

(* The elements of a sequence and one more.                                 *)
LEMMA AppendedElements ==
  ASSUME NEW A, NEW s \in Seq(A), NEW x \in A
  PROVE  Append(s, x) \in Seq(A) /\ ToSet(Append(s, x)) = ToSet(s) \cup {x}
<1>1. /\ Len(s) \in Nat /\ Append(s, x) \in Seq(A) /\ Len(Append(s, x)) = Len(s) + 1
      /\ \A i \in 1 .. Len(s) : Append(s, x)[i] = s[i]
      /\ Append(s, x)[Len(s) + 1] = x
  BY LenProperties, AppendProperties
<1>2. /\ ToSet(s) = {s[i] : i \in 1 .. Len(s)}
      /\ ToSet(Append(s, x)) = {Append(s, x)[i] : i \in 1 .. Len(s) + 1}
  BY <1>1, SequenceFacts
<1>3. ASSUME NEW i \in 1 .. Len(s) + 1 PROVE Append(s, x)[i] \in ToSet(s) \cup {x}
  <2>1. i \in 1 .. Len(s) \/ i = Len(s) + 1
    BY <1>1
  <2> QED BY <1>1, <1>2, <2>1
<1>4. \A i \in 1 .. Len(s) : s[i] \in ToSet(Append(s, x))
  <2> TAKE i \in 1 .. Len(s)
  <2>1. i \in 1 .. Len(s) + 1
    BY <1>1
  <2> QED BY <1>1, <1>2, <2>1
<1>5. x \in ToSet(Append(s, x))
  <2>1. Len(s) + 1 \in 1 .. Len(s) + 1
    BY <1>1
  <2> QED BY <1>1, <1>2, <2>1
<1> QED BY <1>1, <1>2, <1>3, <1>4, <1>5

(* What Begin makes of a choice.                                            *)
LEMMA BeginFacts ==
  ASSUME IInv, NEW level \in Lower, NEW p, ChosenOK(p, current, level), NEW trivial \in BOOLEAN,
         trivial => IsTrivialMove(p), NEW cc, cc = Begin(p, trivial)
  PROVE  /\ cc = [level |-> cc.level, version |-> cc.version, in0 |-> cc.in0, in1 |-> cc.in1,
                  pointer |-> cc.pointer, grand |-> cc.grand, manual |-> cc.manual, trivial |-> cc.trivial,
                  files |-> cc.files, stage |-> cc.stage, left |-> cc.left, edit |-> cc.edit]
         /\ cc.level = level /\ cc.version = current /\ cc.in0 = p.in0 /\ cc.in1 = p.in1 /\ cc.files = << >>
         /\ cc.manual = IsManual /\ cc.stage = IF trivial THEN "apply" ELSE "work"
         /\ cc.left \in Seq(TableSeq)
         /\ trivial => /\ cc.edit.add \subseteq Level \X Meta /\ cc.edit.next = vs.next /\ cc.edit.seq = vs.seq
                       /\ EditFiles(cc.edit) \subseteq ToSet(p.in0)
<1> DEFINE move == [add |-> {<<p.level + 1, p.in0[1]>>}, del |-> {<<p.level, p.in0[1].number>>},
                    pointers |-> {<<p.level, p.pointer>>}]
           e == LogAndApplyEdit(move, vs.log)
           left == CompactionOutputs(p, SmallestSnapshot)
<1>1. /\ p.level = level /\ p.version = current /\ p.in0 \in Seq(ToSet(current[level]))
      /\ p.in1 \in Seq(ToSet(current[level + 1])) /\ p.grand \in Seq(Meta)
  BY DEF ChosenOK
<1>2. cc = [level |-> level, version |-> current, in0 |-> p.in0, in1 |-> p.in1, pointer |-> p.pointer,
            grand |-> p.grand, manual |-> IsManual, trivial |-> trivial, files |-> << >>,
            stage |-> IF trivial THEN "apply" ELSE "work",
            left |-> IF trivial THEN << >> ELSE left, edit |-> IF trivial THEN e ELSE NULL]
  BY <1>1 DEF Begin
<1>3. e.add = {<<level + 1, p.in0[1]>>} /\ e.next = vs.next /\ e.seq = vs.seq
  BY <1>1 DEF LogAndApplyEdit, NumberedEdit
<1> HIDE DEF e, left
<1>4. /\ cc.level = level /\ cc.version = current /\ cc.in0 = p.in0 /\ cc.in1 = p.in1 /\ cc.files = << >>
      /\ cc.pointer = p.pointer /\ cc.grand = p.grand /\ cc.trivial = trivial
      /\ cc.manual = IsManual /\ cc.stage = IF trivial THEN "apply" ELSE "work"
      /\ cc.left = (IF trivial THEN << >> ELSE left) /\ cc.edit = (IF trivial THEN e ELSE NULL)
  BY <1>2
<1>5. cc = [level |-> cc.level, version |-> cc.version, in0 |-> cc.in0, in1 |-> cc.in1,
            pointer |-> cc.pointer, grand |-> cc.grand, manual |-> cc.manual, trivial |-> cc.trivial,
            files |-> cc.files, stage |-> cc.stage, left |-> cc.left, edit |-> cc.edit]
  BY <1>2, <1>4
<1>6. left \in Seq(TableSeq)
  <2>1. InputEntries(p) \subseteq Entry
    <3>1. \A f \in ToSet(p.in0 \o p.in1) : f.number \in DOMAIN tables
      <4>1. ToSet(p.in0 \o p.in1) = ToSet(p.in0) \cup ToSet(p.in1)
        BY <1>1, ConcatElements
      <4>2. ToSet(p.in0) \subseteq ToSet(current[level]) /\ ToSet(p.in1) \subseteq ToSet(current[level + 1])
        BY <1>1, SequenceFacts
      <4> QED BY <4>1, <4>2, LowerFacts DEF IInv, VersionsOK, VersionOK
    <3>2. tables \in [DOMAIN tables -> SUBSET Entry]
      BY DEF IInv, DataOK
    <3>3. \A f \in ToSet(p.in0 \o p.in1) : tables[f.number] \subseteq Entry
      BY <3>1, <3>2
    <3> QED BY <3>3 DEF InputEntries
  <2>2. IsFiniteSet(InputEntries(p))
    BY <2>1, EntryIsFinite, FS_Subset
  <2> QED BY <1>1, <2>1, <2>2, CompactionOutputsTyped DEF left
<1>7. cc.left \in Seq(TableSeq)
  BY <1>4, <1>6
<1>8. trivial => /\ e.add \subseteq Level \X Meta /\ EditFiles(e) \subseteq ToSet(p.in0)
  <2> SUFFICES ASSUME trivial PROVE e.add \subseteq Level \X Meta /\ EditFiles(e) \subseteq ToSet(p.in0)
    OBVIOUS
  <2>1. Len(p.in0) = 1
    BY DEF IsTrivialMove
  <2>2. p.in0[1] \in ToSet(p.in0) /\ ToSet(p.in0) \subseteq ToSet(current[level])
    BY <1>1, <2>1, SequenceFacts
  <2>3. ToSet(current[level]) \subseteq Meta
    <3>1. current[level] \in Seq(Meta)
      BY LowerFacts DEF IInv, VersionsOK, VersionOK
    <3> QED BY <3>1, SequenceFacts
  <2>4. level + 1 \in Level /\ p.in0[1] \in Meta
    BY <2>2, <2>3, LowerFacts
  <2>5. \A x \in e.add : x[2] = p.in0[1]
    BY <1>3
  <2> QED BY <1>3, <2>2, <2>4, <2>5 DEF EditFiles
<1> QED BY <1>3, <1>4, <1>5, <1>7, <1>8

(* BackgroundCompaction: what is picked comes from the current version,     *)
(* which the compaction then references.                                    *)
LEMMA StartCompactionKeeps ==
  ASSUME IInv, StartCompaction
  PROVE  IInv'
<1>1. /\ open = "open" /\ ~bgError /\ m.stage = "none" /\ c.stage = "none"
      /\ UNCHANGED <<open, mem, imm, current, seek, vs, tables, logs, manifest, pending, reader, bgError, m, manual>>
  BY DEF StartCompaction, BackgroundIdle, disk, reads, ghost
<1>2. PICK inputs, p : /\ inputs = Picked /\ inputs # NULL
                       /\ p = SetupOtherInputs(current, inputs.level, inputs.files)
                       /\ c' = Begin(p, ~IsManual /\ IsTrivialMove(p))
  BY DEF StartCompaction
<1> DEFINE level == inputs.level
           trivial == ~IsManual /\ IsTrivialMove(p)
<1>3. level \in Lower /\ inputs.files \in Seq(ToSet(current[level]))
  BY <1>1, <1>2, PickedOK
<1>4. current \in [Level -> Seq(Meta)]
  BY DEF IInv, VersionsOK, VersionOK
<1>5. ChosenOK(p, current, level)
  BY <1>2, <1>3, <1>4, SetupInside
<1>6. trivial \in BOOLEAN /\ (trivial => IsTrivialMove(p)) /\ c' = Begin(p, trivial)
  BY <1>2
<1> HIDE DEF trivial, level
<1>7. /\ c' = [level |-> c'.level, version |-> c'.version, in0 |-> c'.in0, in1 |-> c'.in1,
               pointer |-> c'.pointer, grand |-> c'.grand, manual |-> c'.manual, trivial |-> c'.trivial,
               files |-> c'.files, stage |-> c'.stage, left |-> c'.left, edit |-> c'.edit]
      /\ c'.level = level /\ c'.version = current /\ c'.in0 = p.in0 /\ c'.in1 = p.in1 /\ c'.files = << >>
      /\ c'.manual = IsManual /\ c'.stage = (IF trivial THEN "apply" ELSE "work")
      /\ c'.left \in Seq(TableSeq)
      /\ trivial => /\ c'.edit.add \subseteq Level \X Meta /\ c'.edit.next = vs.next /\ c'.edit.seq = vs.seq
                    /\ EditFiles(c'.edit) \subseteq ToSet(p.in0)
  BY <1>3, <1>5, <1>6, BeginFacts
<1>8. ToSet(c'.files) = {} /\ c'.files \in Seq(Meta)
  BY <1>7 DEF ToSet
<1>9. ~MemEdit /\ ~MemEdit' /\ MemFiles' = MemFiles /\ Outputs' = {} /\ Outputs = {}
  BY <1>1, <1>8 DEF MemEdit, MemFiles, Outputs
<1>10. AllFiles' = AllFiles /\ ManifestFiles' = ManifestFiles /\ EndOfManifest' = EndOfManifest
  BY <1>1, <1>9 DEF AllFiles, ManifestFiles, EndOfManifest
<1>11. PhaseOK'
  BY <1>1 DEF IInv, PhaseOK
<1>12. DataOK' /\ SeekOK'
  BY <1>1, SameParts
<1>13. NumbersOK' /\ FilesOK'
  BY <1>1, <1>10 DEF IInv, NumbersOK, FilesOK
<1>14. VersionsOK'
  BY <1>1, <1>7, <1>10 DEF IInv, VersionsOK, VersionOK
<1>15. vs.next \in Nat /\ vs.seq \in Nat /\ EndOfManifest.next \in Nat /\ EndOfManifest.next <= vs.next
  BY <1>1, ManifestFacts DEF IInv, EditOK, NumbersOK
<1>16. CompactionOK'
  <2>1. c'.level \in 0 .. NumLevels - 2
    BY <1>3, <1>7 DEF Lower
  <2>2. c'.in0 \in Seq(ToSet(c'.version[c'.level])) /\ c'.in1 \in Seq(ToSet(c'.version[c'.level + 1]))
    BY <1>5, <1>7 DEF ChosenOK
  <2>3. c'.stage \in {"work", "apply"}
    BY <1>7
  <2>4. ASSUME CompactionEdit'
        PROVE  /\ EditOK(c.edit)' /\ Numbered(c.edit)'
               /\ (EditFiles(c.edit))' \subseteq ToSet(c'.files) \cup ToSet(c'.in0)
    <3>1. trivial
      BY <1>7, <2>4 DEF CompactionEdit
    <3>2. EditOK(c.edit)'
      BY <1>7, <1>15, <3>1 DEF EditOK
    <3>3. EndOfManifest'.next <= c'.edit.next /\ c'.edit.next <= vs'.next
      BY <1>1, <1>7, <1>10, <1>15, <3>1
    <3>4. (EditFiles(c.edit))' \subseteq ToSet(c'.in0)
      BY <1>7, <3>1 DEF EditFiles
    <3> QED BY <3>2, <3>3, <3>4 DEF Numbered
  <2>5. /\ \A f \in ToSet(c'.files) : f.number \in DOMAIN tables' /\ f.number \in pending'
        /\ \A f \in ToSet(c'.files) : f.number < c'.edit.next
    BY <1>8
  <2>6. m'.stage = "none" /\ c'.stage # "install"
    BY <1>1, <2>3
  <2> QED BY <1>7, <1>8, <2>1, <2>2, <2>3, <2>4, <2>5, <2>6 DEF CompactionOK
<1>17. MemCompactionOK'
  BY <1>1, <1>9 DEF MemCompactionOK
<1>18. CurrentOK'
  <2>1. \A l \in Level : Live(manifest, l) \subseteq ToSet(current[l])
    BY <1>1 DEF IInv, CurrentOK
  <2>2. c'.stage # "install" /\ m'.stage # "install"
    BY <1>1, <1>7
  <2> QED BY <1>1, <2>1, <2>2 DEF CurrentOK
<1>19. ManualOK'
  <2>1. c'.manual => manual' # NULL /\ manual'.posted
    BY <1>1, <1>7 DEF IsManual
  <2> QED BY <1>1, <2>1 DEF IInv, ManualOK, ManualCompactionKept
<1> QED BY <1>11, <1>12, <1>13, <1>14, <1>16, <1>17, <1>18, <1>19 DEF IInv

(* OpenCompactionOutputFile and FinishCompactionOutputFile: an output has a *)
(* number no file has, and is pending.                                      *)
LEMMA WriteCompactionOutputKeeps ==
  ASSUME IInv, WriteCompactionOutput
  PROVE  IInv'
<1> DEFINE entries == ToSet(Head(c.left))
           f == FileMeta(vs.next, entries)
<1>1. /\ c.stage = "work" /\ m.stage = "none" /\ c.left # << >>
      /\ tables' = With(tables, vs.next, entries)
      /\ c' = [c EXCEPT !.left = Tail(@), !.files = Append(@, f)]
      /\ pending' = pending \cup {vs.next} /\ vs' = [vs EXCEPT !.next = @ + 1]
      /\ UNCHANGED <<open, mem, imm, current, seek, logs, manifest, reader, bgError, m, manual>>
  BY DEF WriteCompactionOutput, disk, reads, ghost
<1>2. open \in {"open", "closing"}
  BY <1>1 DEF IInv, PhaseOK
<1>3. vs.seq \in Nat /\ vs.next \in Nat /\ vs = [next |-> vs.next, log |-> vs.log, seq |-> vs.seq, logfile |-> vs.logfile]
  BY DEF IInv, NumbersOK
<1>4. /\ c = [level |-> c.level, version |-> c.version, in0 |-> c.in0, in1 |-> c.in1, pointer |-> c.pointer,
              grand |-> c.grand, manual |-> c.manual, trivial |-> c.trivial, files |-> c.files,
              stage |-> c.stage, left |-> c.left, edit |-> c.edit]
      /\ c.left \in Seq(TableSeq) /\ c.files \in Seq(Meta)
      /\ \A g \in ToSet(c.files) : g.number \in DOMAIN tables /\ g.number \in pending
  BY <1>1 DEF IInv, CompactionOK
<1>5. Head(c.left) \in TableSeq /\ Tail(c.left) \in Seq(TableSeq)
  BY <1>1, <1>4, HeadTailProperties
<1>6. entries \subseteq Entry /\ entries # {}
  <2>1. Head(c.left) \in Seq(Entry) /\ Head(c.left) # << >>
    BY <1>5 DEF TableSeq
  <2> DEFINE h == Head(c.left)
  <2>2. h \in Seq(Entry) /\ h # << >>
    BY <2>1
  <2> HIDE DEF h
  <2>3. Len(h) \in Nat /\ Len(h) # 0 /\ ToSet(h) = {h[i] : i \in 1 .. Len(h)} /\ ToSet(h) \subseteq Entry
    BY <2>2, SequenceFacts, EmptySeq
  <2>4. h[1] \in ToSet(h)
    BY <2>3
  <2> QED BY <2>3, <2>4 DEF h
<1> HIDE DEF entries
<1>7. f \in Meta /\ f.number = vs.next
  BY <1>3, <1>6, FileMetaTyped
<1> HIDE DEF f
<1>8. tables' \in [DOMAIN tables' -> SUBSET Entry] /\ DOMAIN tables' = DOMAIN tables \cup {vs.next}
  BY <1>1, <1>6, TableAdded DEF IInv, DataOK
<1>9. vs' = [next |-> vs.next + 1, log |-> vs.log, seq |-> vs.seq, logfile |-> vs.logfile]
  BY <1>1, <1>3
<1>10. /\ vs'.next = vs.next + 1 /\ vs'.seq = vs.seq
       /\ vs' = [next |-> vs'.next, log |-> vs'.log, seq |-> vs'.seq, logfile |-> vs'.logfile]
  BY <1>9
<1>11. c' = [level |-> c.level, version |-> c.version, in0 |-> c.in0, in1 |-> c.in1, pointer |-> c.pointer,
             grand |-> c.grand, manual |-> c.manual, trivial |-> c.trivial, files |-> Append(c.files, f),
             stage |-> "work", left |-> Tail(c.left), edit |-> c.edit]
  BY <1>1, <1>4
<1>12. /\ c'.level = c.level /\ c'.version = c.version /\ c'.in0 = c.in0 /\ c'.in1 = c.in1
       /\ c'.pointer = c.pointer /\ c'.grand = c.grand /\ c'.manual = c.manual /\ c'.trivial = c.trivial
       /\ c'.files = Append(c.files, f) /\ c'.stage = "work" /\ c'.left = Tail(c.left) /\ c'.edit = c.edit
  BY <1>11
<1>13. c' = [level |-> c'.level, version |-> c'.version, in0 |-> c'.in0, in1 |-> c'.in1, pointer |-> c'.pointer,
             grand |-> c'.grand, manual |-> c'.manual, trivial |-> c'.trivial, files |-> c'.files,
             stage |-> c'.stage, left |-> c'.left, edit |-> c'.edit]
  BY <1>11, <1>12
<1>14. c'.files \in Seq(Meta) /\ ToSet(c'.files) = ToSet(c.files) \cup {f}
  BY <1>4, <1>7, <1>12, AppendedElements
<1>15. ~MemEdit /\ ~MemEdit' /\ MemFiles' = MemFiles /\ Outputs' = Outputs \cup {f}
  <2>1. Outputs' = ToSet(c'.files) /\ Outputs = ToSet(c.files)
    BY <1>1, <1>12 DEF Outputs
  <2> QED BY <1>1, <1>2, <1>14, <2>1 DEF MemEdit, MemFiles
<1>16. AllFiles' = AllFiles \cup {f} /\ ManifestFiles' = ManifestFiles /\ EndOfManifest' = EndOfManifest
  BY <1>1, <1>15 DEF AllFiles, ManifestFiles, EndOfManifest
<1>17. \A g \in AllFiles : g.number \in Nat /\ g.number < vs.next
  BY <1>2, FilesTyped DEF IInv, FilesOK
<1>18. FilesOK'
  <2>1. UniqueNumbers(AllFiles \cup {f})
    BY <1>3, <1>7, <1>17 DEF IInv, FilesOK, UniqueNumbers
  <2>2. \A g \in AllFiles \cup {f} : g.number < vs.next + 1
    BY <1>3, <1>7, <1>17
  <2> QED BY <1>10, <1>16, <2>1, <2>2 DEF IInv, FilesOK, UniqueNumbers
<1>19. EndOfManifest.next \in Nat /\ EndOfManifest.next <= vs.next
  BY <1>2, ManifestFacts DEF IInv, EditOK, NumbersOK
<1>20. NumbersOK'
  BY <1>1, <1>3, <1>10, <1>16, <1>19 DEF IInv, NumbersOK
<1>21. PhaseOK'
  BY <1>1, <1>2 DEF IInv, PhaseOK
<1>22. DataOK'
  BY <1>1, <1>8 DEF IInv, DataOK
<1>23. SeekOK'
  BY <1>1, SameParts
<1>24. ManualOK'
  BY <1>1, <1>12 DEF IInv, ManualOK, ManualCompactionKept
<1>25. VersionsOK'
  BY <1>1, <1>8, <1>12, <1>16 DEF IInv, VersionsOK, VersionOK
<1>26. CompactionOK'
  <2>1. /\ c'.level \in 0 .. NumLevels - 2
        /\ c'.in0 \in Seq(ToSet(c'.version[c'.level])) /\ c'.in1 \in Seq(ToSet(c'.version[c'.level + 1]))
    BY <1>1, <1>12 DEF IInv, CompactionOK
  <2>2. \A g \in ToSet(c'.files) : g.number \in DOMAIN tables' /\ g.number \in pending'
    BY <1>1, <1>4, <1>7, <1>8, <1>14
  <2>3. ~CompactionEdit' /\ c'.stage \in {"work", "apply", "install"} /\ c'.stage # "install" /\ c'.left \in Seq(TableSeq)
    BY <1>5, <1>12 DEF CompactionEdit
  <2> QED BY <1>13, <1>14, <2>1, <2>2, <2>3 DEF CompactionOK
<1>27. MemCompactionOK'
  BY <1>1, <1>15 DEF MemCompactionOK
<1>28. CurrentOK'
  <2>1. ~bgError => \A l \in Level : Live(manifest, l) \subseteq ToSet(current[l])
    BY <1>1, <1>2 DEF IInv, CurrentOK
  <2>2. c'.stage # "install" /\ m'.stage # "install"
    BY <1>1, <1>12
  <2> QED BY <1>1, <2>1, <2>2 DEF CurrentOK
<1> QED BY <1>18, <1>20, <1>21, <1>22, <1>23, <1>24, <1>25, <1>26, <1>27, <1>28 DEF IInv
-----------------------------------------------------------------------------
(* A compaction that goes on: its record with another stage and edit.       *)
LEMMA CompactionStep ==
  ASSUME NEW s, NEW e,
         c' = [level |-> c.level, version |-> c.version, in0 |-> c.in0, in1 |-> c.in1, pointer |-> c.pointer,
               grand |-> c.grand, manual |-> c.manual, trivial |-> c.trivial, files |-> c.files,
               stage |-> s, left |-> c.left, edit |-> e]
  PROVE  /\ c' = [level |-> c'.level, version |-> c'.version, in0 |-> c'.in0, in1 |-> c'.in1,
                  pointer |-> c'.pointer, grand |-> c'.grand, manual |-> c'.manual, trivial |-> c'.trivial,
                  files |-> c'.files, stage |-> c'.stage, left |-> c'.left, edit |-> c'.edit]
         /\ c'.level = c.level /\ c'.version = c.version /\ c'.in0 = c.in0 /\ c'.in1 = c.in1
         /\ c'.manual = c.manual /\ c'.files = c.files /\ c'.left = c.left /\ c'.stage = s /\ c'.edit = e
<1>1. /\ c'.level = c.level /\ c'.version = c.version /\ c'.in0 = c.in0 /\ c'.in1 = c.in1
      /\ c'.pointer = c.pointer /\ c'.grand = c.grand /\ c'.manual = c.manual /\ c'.trivial = c.trivial
      /\ c'.files = c.files /\ c'.left = c.left /\ c'.stage = s /\ c'.edit = e
  OBVIOUS
<1> QED BY <1>1

(* The inputs of the compaction are files of the manifest, and there.       *)
LEMMA InputsAreThere ==
  ASSUME IInv, c.stage # "none"
  PROVE  \A f \in ToSet(c.in0) \cup ToSet(c.in1) : f \in ManifestFiles /\ f.number \in DOMAIN tables
<1>1. /\ c.level \in Lower /\ c.in0 \in Seq(ToSet(c.version[c.level]))
      /\ c.in1 \in Seq(ToSet(c.version[c.level + 1]))
  BY DEF IInv, CompactionOK, Lower
<1>2. c.level \in Level /\ c.level + 1 \in Level
  BY <1>1, LowerFacts
<1>3. ToSet(c.in0) \subseteq ToSet(c.version[c.level]) /\ ToSet(c.in1) \subseteq ToSet(c.version[c.level + 1])
  BY <1>1, SequenceFacts
<1> QED BY <1>2, <1>3 DEF IInv, VersionsOK, VersionOK

(* The edit of a compaction.                                                *)
LEMMA CompactionEditFacts ==
  ASSUME IInv, CompactionEdit
  PROVE  /\ EditOK(c.edit) /\ EndOfManifest.next <= c.edit.next /\ c.edit.next <= vs.next
         /\ c.edit.next \in Nat /\ EndOfManifest.next \in Nat /\ vs.next \in Nat
         /\ EditFiles(c.edit) \subseteq AllFiles /\ UniqueNumbers(ManifestFiles \cup EditFiles(c.edit))
         /\ \A f \in EditFiles(c.edit) : f.number < c.edit.next /\ f.number \in DOMAIN tables
<1>1. c.stage # "none"
  BY DEF CompactionEdit
<1>2. /\ EditOK(c.edit) /\ EndOfManifest.next <= c.edit.next /\ c.edit.next <= vs.next
      /\ \A f \in ToSet(c.files) : f.number < c.edit.next /\ f.number \in DOMAIN tables
      /\ EditFiles(c.edit) \subseteq ToSet(c.files) \cup ToSet(c.in0)
  BY <1>1 DEF IInv, CompactionOK, Numbered
<1>3. c.edit.next \in Nat /\ EndOfManifest.next \in Nat /\ vs.next \in Nat
  BY <1>2, ManifestFacts DEF IInv, EditOK, NumbersOK
<1>4. \A f \in ToSet(c.in0) : f \in ManifestFiles /\ f.number \in DOMAIN tables
  BY <1>1, InputsAreThere
<1>5. \A f \in ManifestFiles : f.number \in Nat /\ f.number < EndOfManifest.next
  BY ManifestFacts, MetaFacts DEF IInv, FilesOK
<1>6. \A f \in EditFiles(c.edit) : f.number < c.edit.next /\ f.number \in DOMAIN tables
  BY <1>2, <1>3, <1>4, <1>5
<1>7. EditFiles(c.edit) \subseteq AllFiles
  BY <1>1, <1>2, <1>4 DEF AllFiles, Outputs
<1>8. UniqueNumbers(ManifestFiles \cup EditFiles(c.edit))
  BY <1>7 DEF AllFiles, IInv, FilesOK, UniqueNumbers
<1> QED BY <1>2, <1>3, <1>6, <1>7, <1>8

(* The manifest gets that edit.                                             *)
LEMMA CompactionAppended ==
  ASSUME IInv, CompactionEdit, manifest' = Append(manifest, c.edit), UNCHANGED tables
  PROVE  /\ manifest' \in Seq({manifest'[i] : i \in DOMAIN manifest'}) /\ manifest' # << >>
         /\ \A i \in DOMAIN manifest' : EditOK(manifest'[i])
         /\ EndOfManifest' = c.edit /\ ManifestFiles' = ManifestFiles \cup EditFiles(c.edit)
         /\ \A f \in ManifestFiles' : f.number < EndOfManifest'.next
         /\ \A l \in Level : Live(manifest', l) \subseteq After(Live(manifest, l), c.edit, l)
         /\ \A l \in Level : \A f \in Live(manifest', l) : f.number \in DOMAIN tables'
<1>1. /\ EditOK(c.edit) /\ EndOfManifest.next <= c.edit.next /\ c.edit.next <= vs.next
      /\ c.edit.next \in Nat /\ EndOfManifest.next \in Nat /\ vs.next \in Nat
      /\ EditFiles(c.edit) \subseteq AllFiles /\ UniqueNumbers(ManifestFiles \cup EditFiles(c.edit))
      /\ \A f \in EditFiles(c.edit) : f.number < c.edit.next /\ f.number \in DOMAIN tables
  BY CompactionEditFacts
<1>2. /\ manifest' \in Seq({manifest'[i] : i \in DOMAIN manifest'}) /\ manifest' # << >>
      /\ \A i \in DOMAIN manifest' : EditOK(manifest'[i])
      /\ EndOfManifest' = c.edit /\ ManifestFiles' = ManifestFiles \cup EditFiles(c.edit)
      /\ \A l \in Level : Live(manifest', l) \subseteq After(Live(manifest, l), c.edit, l)
  BY <1>1, ManifestExtended DEF IInv
<1>3. \A f \in ManifestFiles' : f.number < EndOfManifest'.next
  <2>1. \A f \in ManifestFiles : f.number \in Nat /\ f.number < EndOfManifest.next
    BY ManifestFacts, MetaFacts DEF IInv, FilesOK
  <2> QED BY <1>1, <1>2, <2>1
<1>4. \A l \in Level : \A f \in Live(manifest', l) : f.number \in DOMAIN tables'
  <2>1. \A l \in Level : After(Live(manifest, l), c.edit, l) \subseteq Live(manifest, l) \cup EditFiles(c.edit)
    BY DEF After, At, EditFiles
  <2> QED BY <1>1, <1>2, <2>1 DEF IInv, VersionsOK
<1> QED BY <1>2, <1>3, <1>4

(* ... while the database is open.                                          *)
LEMMA CompactionRecorded ==
  ASSUME IInv, CompactionEdit, open # "closed", manifest' = Append(manifest, c.edit),
         UNCHANGED <<open, vs, tables>>
  PROVE  /\ NumbersOK' /\ EndOfManifest' = c.edit /\ ManifestFiles' = ManifestFiles \cup EditFiles(c.edit)
         /\ \A f \in ManifestFiles' : f.number < EndOfManifest'.next
         /\ \A l \in Level : Live(manifest', l) \subseteq After(Live(manifest, l), c.edit, l)
         /\ \A l \in Level : \A f \in Live(manifest', l) : f.number \in DOMAIN tables'
<1>1. c.edit.next <= vs.next
  BY CompactionEditFacts
<1>2. NumbersOK'
  BY <1>1, CompactionAppended DEF IInv, NumbersOK
<1> QED BY <1>2, CompactionAppended

(* DoCompactionWork has merged everything: InstallCompactionResults makes   *)
(* the edit.                                                                *)
LEMMA FinishCompactionKeeps ==
  ASSUME IInv, FinishCompaction
  PROVE  IInv'
<1> DEFINE edit == [add |-> {<<c.level + 1, f>> : f \in ToSet(c.files)},
                    del |-> {<<c.level, f.number>> : f \in ToSet(c.in0)}
                              \cup {<<c.level + 1, f.number>> : f \in ToSet(c.in1)},
                    pointers |-> {<<c.level, c.pointer>>}]
           e == LogAndApplyEdit(edit, vs.log)
<1>1. /\ c.stage = "work" /\ m.stage = "none" /\ open # "closing"
      /\ c' = [c EXCEPT !.stage = "apply", !.edit = e]
      /\ UNCHANGED <<open, mem, imm, current, seek, vs, tables, logs, manifest, pending, reader, bgError, m, manual>>
  BY DEF FinishCompaction, disk, reads, ghost
<1>2. open = "open"
  BY <1>1 DEF IInv, PhaseOK
<1>3. e.add = {<<c.level + 1, f>> : f \in ToSet(c.files)} /\ e.next = vs.next /\ e.seq = vs.seq
  BY DEF LogAndApplyEdit, NumberedEdit
<1> HIDE DEF e
<1>4. /\ c' = [level |-> c'.level, version |-> c'.version, in0 |-> c'.in0, in1 |-> c'.in1,
               pointer |-> c'.pointer, grand |-> c'.grand, manual |-> c'.manual, trivial |-> c'.trivial,
               files |-> c'.files, stage |-> c'.stage, left |-> c'.left, edit |-> c'.edit]
      /\ c'.level = c.level /\ c'.version = c.version /\ c'.in0 = c.in0 /\ c'.in1 = c.in1
      /\ c'.manual = c.manual /\ c'.files = c.files /\ c'.left = c.left /\ c'.stage = "apply" /\ c'.edit = e
  <2>1. c = [level |-> c.level, version |-> c.version, in0 |-> c.in0, in1 |-> c.in1, pointer |-> c.pointer,
             grand |-> c.grand, manual |-> c.manual, trivial |-> c.trivial, files |-> c.files,
             stage |-> c.stage, left |-> c.left, edit |-> c.edit]
    BY <1>1 DEF IInv, CompactionOK
  <2>2. c' = [level |-> c.level, version |-> c.version, in0 |-> c.in0, in1 |-> c.in1, pointer |-> c.pointer,
              grand |-> c.grand, manual |-> c.manual, trivial |-> c.trivial, files |-> c.files,
              stage |-> "apply", left |-> c.left, edit |-> e]
    BY <1>1, <2>1
  <2> QED BY <2>2, CompactionStep
<1>5. ~MemEdit /\ ~MemEdit' /\ MemFiles' = MemFiles /\ Outputs' = Outputs
  BY <1>1, <1>2, <1>4 DEF MemEdit, MemFiles, Outputs
<1>6. AllFiles' = AllFiles /\ ManifestFiles' = ManifestFiles /\ EndOfManifest' = EndOfManifest
  BY <1>1, <1>5 DEF AllFiles, ManifestFiles, EndOfManifest
<1>7. /\ c.level \in 0 .. NumLevels - 2
      /\ c.in0 \in Seq(ToSet(c.version[c.level])) /\ c.in1 \in Seq(ToSet(c.version[c.level + 1]))
      /\ c.left \in Seq(TableSeq) /\ c.files \in Seq(Meta)
      /\ \A f \in ToSet(c.files) : f.number \in DOMAIN tables /\ f.number \in pending
  BY <1>1 DEF IInv, CompactionOK
<1>8. vs.next \in Nat /\ vs.seq \in Nat /\ EndOfManifest.next \in Nat /\ EndOfManifest.next <= vs.next
  BY <1>2, ManifestFacts DEF IInv, EditOK, NumbersOK
<1>9. EditOK(e) /\ EditFiles(e) \subseteq ToSet(c.files)
  <2>1. c.level + 1 \in Level
    BY <1>7, LowerFacts DEF Lower
  <2>2. ToSet(c.files) \subseteq Meta
    BY <1>7, SequenceFacts
  <2>3. \A x \in e.add : \E f \in ToSet(c.files) : x = <<c.level + 1, f>>
    BY <1>3
  <2>4. \A x \in e.add : x[2] \in ToSet(c.files)
    <3> TAKE x \in e.add
    <3>1. PICK f \in ToSet(c.files) : x = <<c.level + 1, f>>
      BY <2>3
    <3>2. x[2] = f
      BY <3>1
    <3> QED BY <3>1, <3>2
  <2>5. e.add \subseteq Level \X Meta
    BY <1>3, <2>1, <2>2
  <2> QED BY <1>3, <1>8, <2>4, <2>5 DEF EditOK, EditFiles
<1>10. PhaseOK'
  BY <1>1, <1>2 DEF IInv, PhaseOK
<1>11. DataOK' /\ SeekOK'
  BY <1>1, SameParts
<1>12. NumbersOK' /\ FilesOK'
  BY <1>1, <1>6 DEF IInv, NumbersOK, FilesOK
<1>13. VersionsOK'
  BY <1>1, <1>4, <1>6 DEF IInv, VersionsOK, VersionOK
<1>14. CompactionOK'
  <2>1. EndOfManifest'.next <= c'.edit.next /\ c'.edit.next <= vs'.next
    BY <1>1, <1>3, <1>4, <1>6, <1>8
  <2>2. Numbered(c.edit)' /\ EditOK(c.edit)'
    BY <1>4, <1>9, <2>1 DEF Numbered, EditOK
  <2>3. (EditFiles(c.edit))' \subseteq ToSet(c'.files) \cup ToSet(c'.in0)
    BY <1>4, <1>9 DEF EditFiles
  <2>4. \A f \in ToSet(c'.files) : f.number < c'.edit.next
    <3>1. \A f \in ToSet(c.files) : f \in AllFiles
      BY <1>1 DEF AllFiles, Outputs
    <3> QED BY <1>2, <1>3, <1>4, <3>1 DEF IInv, FilesOK
  <2>5. c'.stage # "install" /\ c'.stage \in {"work", "apply", "install"} /\ m'.stage = "none"
    BY <1>1, <1>4
  <2>6. /\ c'.level \in 0 .. NumLevels - 2
        /\ c'.in0 \in Seq(ToSet(c'.version[c'.level])) /\ c'.in1 \in Seq(ToSet(c'.version[c'.level + 1]))
        /\ c'.left \in Seq(TableSeq) /\ c'.files \in Seq(Meta)
        /\ \A f \in ToSet(c'.files) : f.number \in DOMAIN tables' /\ f.number \in pending'
    BY <1>1, <1>4, <1>7
  <2> QED BY <1>4, <2>2, <2>3, <2>4, <2>5, <2>6 DEF CompactionOK
<1>15. MemCompactionOK'
  BY <1>1, <1>5 DEF MemCompactionOK
<1>16. CurrentOK'
  <2>1. ~bgError => \A l \in Level : Live(manifest, l) \subseteq ToSet(current[l])
    BY <1>1, <1>2 DEF IInv, CurrentOK
  <2>2. c'.stage # "install" /\ m'.stage # "install"
    BY <1>1, <1>4
  <2> QED BY <1>1, <2>1, <2>2 DEF CurrentOK
<1>17. ManualOK'
  BY <1>1, <1>4 DEF IInv, ManualOK, ManualCompactionKept
<1> QED BY <1>10, <1>11, <1>12, <1>13, <1>14, <1>15, <1>16, <1>17 DEF IInv
-----------------------------------------------------------------------------
(* LogAndApply, without the lock: the edit of the compaction is in the      *)
(* manifest.                                                                *)
LEMMA WriteManifestOfCompactionKeeps ==
  ASSUME IInv, WriteManifestOfCompaction
  PROVE  IInv'
<1>1. /\ c.stage = "apply" /\ manifest' = Append(manifest, c.edit)
      /\ UNCHANGED <<open, mem, imm, current, seek, vs, tables, logs, pending, reader, bgError, m, manual>>
  BY DEF WriteManifestOfCompaction, reads, ghost
<1>2. open \notin {"closed", "recovering"} /\ CompactionEdit /\ c.stage # "none"
  BY <1>1 DEF IInv, PhaseOK, CompactionEdit
<1>3. m.stage = "none"
  BY <1>2 DEF IInv, CompactionOK
<1>4. c' = [level |-> c.level, version |-> c.version, in0 |-> c.in0, in1 |-> c.in1, pointer |-> c.pointer,
            grand |-> c.grand, manual |-> c.manual, trivial |-> c.trivial, files |-> c.files,
            stage |-> "install", left |-> c.left, edit |-> c.edit]
  <2>1. c = [level |-> c.level, version |-> c.version, in0 |-> c.in0, in1 |-> c.in1, pointer |-> c.pointer,
             grand |-> c.grand, manual |-> c.manual, trivial |-> c.trivial, files |-> c.files,
             stage |-> c.stage, left |-> c.left, edit |-> c.edit]
    BY <1>2 DEF IInv, CompactionOK
  <2>2. c' = [c EXCEPT !.stage = "install"]
    BY DEF WriteManifestOfCompaction
  <2> QED BY <2>1, <2>2
<1>5. /\ c' = [level |-> c'.level, version |-> c'.version, in0 |-> c'.in0, in1 |-> c'.in1,
               pointer |-> c'.pointer, grand |-> c'.grand, manual |-> c'.manual, trivial |-> c'.trivial,
               files |-> c'.files, stage |-> c'.stage, left |-> c'.left, edit |-> c'.edit]
      /\ c'.level = c.level /\ c'.version = c.version /\ c'.in0 = c.in0 /\ c'.in1 = c.in1
      /\ c'.manual = c.manual /\ c'.files = c.files /\ c'.left = c.left /\ c'.stage = "install" /\ c'.edit = c.edit
  BY <1>4, CompactionStep
<1>6. /\ EditOK(c.edit) /\ c.edit.next <= vs.next /\ c.edit.next \in Nat
      /\ EditFiles(c.edit) \subseteq AllFiles
  BY <1>2, CompactionEditFacts
<1>7. /\ NumbersOK' /\ EndOfManifest' = c.edit /\ ManifestFiles' = ManifestFiles \cup EditFiles(c.edit)
      /\ \A f \in ManifestFiles' : f.number < EndOfManifest'.next
      /\ \A l \in Level : Live(manifest', l) \subseteq After(Live(manifest, l), c.edit, l)
      /\ \A l \in Level : \A f \in Live(manifest', l) : f.number \in DOMAIN tables'
  BY <1>1, <1>2, CompactionRecorded
<1>8. ~MemEdit /\ ~MemEdit' /\ MemFiles' = MemFiles /\ Outputs' = Outputs /\ AllFiles' \subseteq AllFiles
  <2>1. ~MemEdit /\ ~MemEdit'
    BY <1>1, <1>2, <1>3 DEF MemEdit
  <2>2. MemFiles' = MemFiles
    BY <2>1 DEF MemFiles
  <2>3. Outputs' = Outputs
    BY <1>2, <1>5 DEF Outputs
  <2> QED BY <1>6, <1>7, <2>1, <2>2, <2>3 DEF AllFiles
<1>9. PhaseOK'
  BY <1>1, <1>2 DEF IInv, PhaseOK
<1>10. DataOK' /\ SeekOK'
  BY <1>1, SameParts
<1>11. FilesOK'
  BY <1>1, <1>7, <1>8 DEF IInv, FilesOK, UniqueNumbers
<1>12. VersionsOK'
  BY <1>1, <1>5, <1>7 DEF IInv, VersionsOK, VersionOK
<1>13. CompactionOK'
  <2>1. Numbered(c.edit)' /\ EditOK(c.edit)'
    BY <1>1, <1>5, <1>6, <1>7 DEF Numbered, EditOK
  <2>2. (EditFiles(c.edit))' = EditFiles(c.edit)
    BY <1>5 DEF EditFiles
  <2>3. /\ EditFiles(c.edit) \subseteq ToSet(c.files) \cup ToSet(c.in0)
        /\ \A f \in ToSet(c.files) : f.number < c.edit.next
        /\ c.level \in 0 .. NumLevels - 2
        /\ c.in0 \in Seq(ToSet(c.version[c.level])) /\ c.in1 \in Seq(ToSet(c.version[c.level + 1]))
        /\ c.left \in Seq(TableSeq) /\ c.files \in Seq(Meta)
        /\ \A f \in ToSet(c.files) : f.number \in DOMAIN tables /\ f.number \in pending
    BY <1>2 DEF IInv, CompactionOK
  <2>4. /\ (EditFiles(c.edit))' \subseteq ToSet(c'.files) \cup ToSet(c'.in0)
        /\ (EditFiles(c.edit))' \subseteq ManifestFiles'
        /\ \A f \in ToSet(c'.files) : f.number < c'.edit.next
    BY <1>5, <1>7, <2>2, <2>3
  <2>5. /\ c'.level \in 0 .. NumLevels - 2
        /\ c'.in0 \in Seq(ToSet(c'.version[c'.level])) /\ c'.in1 \in Seq(ToSet(c'.version[c'.level + 1]))
        /\ c'.left \in Seq(TableSeq) /\ c'.files \in Seq(Meta)
        /\ \A f \in ToSet(c'.files) : f.number \in DOMAIN tables' /\ f.number \in pending'
    BY <1>1, <1>5, <2>3
  <2>6. m'.stage = "none" /\ c'.stage \in {"work", "apply", "install"}
    BY <1>1, <1>3, <1>5
  <2> QED BY <1>5, <2>1, <2>4, <2>5, <2>6 DEF CompactionOK
<1>14. MemCompactionOK'
  BY <1>1, <1>3, <1>8 DEF MemCompactionOK
<1>15. CurrentOK'
  <2>1. ASSUME ~bgError, NEW l \in Level PROVE Live(manifest', l) \subseteq After(ToSet(current[l]), c.edit, l)
    <3>1. Live(manifest, l) \subseteq ToSet(current[l])
      BY <1>1, <1>2, <1>3, <2>1 DEF IInv, CurrentOK
    <3> QED BY <1>7, <3>1 DEF After
  <2>2. ~bgError' => \A l \in Level : Live(manifest', l) \subseteq After(ToSet(current'[l]), c'.edit, l)
    BY <1>1, <1>5, <2>1
  <2>3. m'.stage # "install" /\ c'.stage = "install"
    BY <1>1, <1>3, <1>5
  <2> QED BY <2>2, <2>3 DEF CurrentOK
<1>16. ManualOK'
  BY <1>1, <1>2, <1>5 DEF IInv, ManualOK, ManualCompactionKept
<1> QED BY <1>7, <1>9, <1>10, <1>11, <1>12, <1>13, <1>14, <1>15, <1>16 DEF IInv

(* The request of the compaction that has ended.                            *)
LEMMA AfterManualKeeps ==
  ASSUME IInv, NEW ok \in BOOLEAN, ~Withdrawn, AfterManual(ok), c' = NoWork
  PROVE  ManualOK' /\ (manual = NULL => manual' = NULL)
<1>1. ManualCompactionKept'
  BY DEF ManualCompactionKept, NoWork
<1>2. CASE c.manual
  <2> DEFINE begin == IF ok THEN c.in0[Len(c.in0)].largest.k ELSE manual.begin
  <2>1. manual = [stage |-> manual.stage, level |-> manual.level, top |-> manual.top, lo |-> manual.lo,
                  hi |-> manual.hi, begin |-> manual.begin, posted |-> manual.posted, done |-> manual.done]
        /\ manual.level \in Nat /\ manual.top \in 1 .. NumLevels - 1 /\ manual.level < manual.top
        /\ manual # NULL
    BY <1>2 DEF Withdrawn, IsManual, IInv, ManualOK
  <2>2. manual' = [manual EXCEPT !.posted = FALSE, !.done = ~ok, !.begin = begin]
    BY <1>2 DEF AfterManual
  <2> HIDE DEF begin
  <2>3. manual' = [stage |-> manual.stage, level |-> manual.level, top |-> manual.top, lo |-> manual.lo,
                   hi |-> manual.hi, begin |-> begin, posted |-> FALSE, done |-> ~ok]
    BY <2>1, <2>2
  <2>4. /\ manual'.stage = manual.stage /\ manual'.level = manual.level /\ manual'.top = manual.top
        /\ manual'.lo = manual.lo /\ manual'.hi = manual.hi /\ manual'.begin = begin
        /\ manual'.posted = FALSE /\ manual'.done = ~ok
    BY <2>3
  <2>5. manual' = [stage |-> manual'.stage, level |-> manual'.level, top |-> manual'.top, lo |-> manual'.lo,
                   hi |-> manual'.hi, begin |-> manual'.begin, posted |-> manual'.posted, done |-> manual'.done]
    BY <2>3, <2>4
  <2> QED BY <1>1, <1>2, <2>1, <2>4, <2>5 DEF ManualOK
<1>3. CASE ~c.manual
  <2>1. manual' = manual
    BY <1>3 DEF AfterManual
  <2> QED BY <1>1, <2>1 DEF IInv, ManualOK
<1> QED BY <1>2, <1>3

(* CleanupCompaction after an error: the outputs are no longer pending, the *)
(* error keeps them.                                                        *)
LEMMA CompactionFailsKeeps ==
  ASSUME IInv, CompactionFails
  PROVE  IInv'
<1>1. /\ c.stage # "none" /\ m.stage = "none" /\ c' = NoWork /\ bgError' = TRUE /\ AfterManual(FALSE)
      /\ ~Withdrawn
      /\ UNCHANGED <<open, mem, imm, current, seek, vs, tables, logs, reader, m>>
      /\ manifest' = manifest \/ (c.stage = "apply" /\ manifest' = Append(manifest, c.edit))
  BY DEF CompactionFails, CompactionError, reads, ghost
<1>2. open \notin {"closed", "recovering"}
  BY <1>1 DEF IInv, PhaseOK
<1>3. c'.stage = "none" /\ ~MemEdit /\ ~MemEdit' /\ MemFiles' = MemFiles /\ Outputs' = {}
  <2>1. c'.stage = "none"
    BY <1>1 DEF NoWork
  <2>2. ~MemEdit /\ ~MemEdit'
    BY <1>1, <1>2 DEF MemEdit
  <2> QED BY <2>1, <2>2 DEF MemFiles, Outputs
<1>4. /\ NumbersOK' /\ ManifestFiles \subseteq ManifestFiles' /\ AllFiles' \subseteq AllFiles
      /\ \A f \in ManifestFiles' : f.number < EndOfManifest'.next
      /\ \A l \in Level : \A f \in Live(manifest', l) : f.number \in DOMAIN tables'
  <2>1. CASE manifest' = manifest
    <3>1. ManifestFiles' = ManifestFiles /\ EndOfManifest' = EndOfManifest
      BY <2>1 DEF ManifestFiles, EndOfManifest
    <3>2. AllFiles' \subseteq AllFiles
      BY <1>3, <3>1 DEF AllFiles
    <3>3. NumbersOK'
      BY <1>1, <2>1, <3>1 DEF IInv, NumbersOK
    <3> QED BY <1>1, <2>1, <3>1, <3>2, <3>3 DEF IInv, FilesOK, VersionsOK
  <2>2. CASE c.stage = "apply" /\ manifest' = Append(manifest, c.edit)
    <3>1. CompactionEdit
      BY <2>2 DEF CompactionEdit
    <3>2. EditFiles(c.edit) \subseteq AllFiles
      BY <3>1, CompactionEditFacts
    <3>3. /\ NumbersOK' /\ ManifestFiles' = ManifestFiles \cup EditFiles(c.edit)
          /\ \A f \in ManifestFiles' : f.number < EndOfManifest'.next
          /\ \A l \in Level : \A f \in Live(manifest', l) : f.number \in DOMAIN tables'
      BY <1>1, <1>2, <2>2, <3>1, CompactionRecorded
    <3> QED BY <1>3, <3>2, <3>3 DEF AllFiles
  <2> QED BY <1>1, <2>1, <2>2
<1>5. ManualOK' /\ (manual = NULL => manual' = NULL)
  BY <1>1, AfterManualKeeps
<1>6. PhaseOK'
  BY <1>1, <1>2, <1>5 DEF IInv, PhaseOK
<1>7. DataOK' /\ SeekOK'
  BY <1>1, SameParts
<1>8. FilesOK'
  BY <1>1, <1>2, <1>4 DEF IInv, FilesOK, UniqueNumbers
<1>9. VersionsOK'
  BY <1>1, <1>3, <1>4 DEF IInv, VersionsOK, VersionOK
<1>10. CompactionOK'
  BY <1>3 DEF CompactionOK
<1>11. MemCompactionOK'
  BY <1>1, <1>3 DEF MemCompactionOK
<1>12. CurrentOK'
  BY <1>1 DEF CurrentOK
<1> QED BY <1>4, <1>5, <1>6, <1>7, <1>8, <1>9, <1>10, <1>11, <1>12 DEF IInv

(* LogAndApply, the lock held again: the version of the compaction is       *)
(* installed, its outputs stop being pending, and DeleteObsoleteFiles runs. *)
LEMMA InstallCompactionKeeps ==
  ASSUME IInv, InstallCompaction
  PROVE  IInv'
<1>1. /\ c.stage = "install" /\ c' = NoWork /\ Install(c.edit) /\ AfterManual(TRUE) /\ ~Withdrawn
      /\ \/ UNCHANGED <<tables, logs>>
         \/ DeleteObsoleteFiles(LiveVersions(current', NoWork), pending', vs.log)
      /\ UNCHANGED <<open, mem, imm, manifest, reader, bgError, m>>
  BY DEF InstallCompaction, reads, ghost
<1>2. open \notin {"closed", "recovering"} /\ CompactionEdit /\ c.stage # "none"
  BY <1>1 DEF IInv, PhaseOK, CompactionEdit
<1>3. m.stage = "none" /\ EditFiles(c.edit) \subseteq ManifestFiles
  BY <1>1, <1>2 DEF IInv, CompactionOK
<1>4. EditOK(c.edit) /\ EditFiles(c.edit) \subseteq AllFiles /\ \A f \in EditFiles(c.edit) : f.number \in DOMAIN tables
  BY <1>2, CompactionEditFacts
<1>5. /\ current' \in [Level -> Seq(Meta)]
      /\ \A l \in Level : ToSet(current'[l]) = After(ToSet(current[l]), c.edit, l)
      /\ \A l \in Level : ToSet(current'[l]) \subseteq ToSet(current[l]) \cup EditFiles(c.edit)
      /\ seek' = NULL /\ vs'.next = vs.next /\ vs'.seq = vs.seq
      /\ vs' = [next |-> vs'.next, log |-> vs'.log, seq |-> vs'.seq, logfile |-> vs'.logfile]
  BY <1>1, <1>2, <1>4, InstallFacts
<1>6. /\ DataOK'
      /\ \A x \in DOMAIN tables : bgError => x \in DOMAIN tables'
      /\ \A v \in LiveVersions(current', NoWork) : \A l \in Level : \A f \in ToSet(v[l]) :
              f.number \in DOMAIN tables => f.number \in DOMAIN tables'
  <2>1. CASE UNCHANGED <<tables, logs>>
    BY <1>1, <2>1, SameParts
  <2>2. CASE DeleteObsoleteFiles(LiveVersions(current', NoWork), pending', vs.log)
    BY <1>1, <2>2, ObsoleteDeleted DEF IInv
  <2> QED BY <1>1, <2>1, <2>2
<1>7. c'.stage = "none" /\ ~MemEdit /\ ~MemEdit' /\ MemFiles' = MemFiles /\ Outputs' = {}
  <2>1. c'.stage = "none"
    BY <1>1 DEF NoWork
  <2>2. ~MemEdit /\ ~MemEdit'
    BY <1>1, <1>2, <1>3 DEF MemEdit
  <2> QED BY <2>1, <2>2 DEF MemFiles, Outputs
<1>8. ManifestFiles' = ManifestFiles /\ EndOfManifest' = EndOfManifest /\ AllFiles' \subseteq AllFiles
  BY <1>1, <1>7 DEF ManifestFiles, EndOfManifest, AllFiles
<1>9. ManualOK' /\ (manual = NULL => manual' = NULL)
  BY <1>1, AfterManualKeeps
<1>10. PhaseOK'
  BY <1>1, <1>2, <1>9 DEF IInv, PhaseOK
<1>11. SeekOK'
  BY <1>5 DEF SeekOK
<1>12. NumbersOK'
  BY <1>1, <1>5, <1>8 DEF IInv, NumbersOK
<1>13. FilesOK'
  BY <1>1, <1>5, <1>8 DEF IInv, FilesOK, UniqueNumbers
<1>14. \A l \in Level : \A f \in ToSet(current'[l]) :
         f \in ManifestFiles /\ f.number \in DOMAIN tables /\ f.number \in DOMAIN tables'
  <2>1. \A l \in Level : \A f \in ToSet(current'[l]) : f \in ManifestFiles /\ f.number \in DOMAIN tables
    BY <1>3, <1>4, <1>5 DEF IInv, VersionsOK, VersionOK
  <2>2. current' \in LiveVersions(current', NoWork)
    BY DEF LiveVersions
  <2> QED BY <1>6, <2>1, <2>2
<1>15. ~bgError => \A l \in Level : Live(manifest, l) \subseteq ToSet(current'[l])
  BY <1>1, <1>2, <1>3, <1>5 DEF IInv, CurrentOK
<1>16. VersionsOK'
  <2>1. VersionOK(current)'
    BY <1>5, <1>8, <1>14 DEF VersionOK
  <2>2. reader # NULL => VersionOK(reader.version)'
    <3>1. reader # NULL => reader.version \in LiveVersions(current', NoWork) /\ VersionOK(reader.version)
      BY DEF LiveVersions, IInv, VersionsOK
    <3> QED BY <1>1, <1>6, <1>8, <3>1 DEF VersionOK
  <2>3. \A l \in Level : \A f \in Live(manifest, l) : f.number \in DOMAIN tables'
    <3>1. \A l \in Level : \A f \in Live(manifest, l) : f.number \in DOMAIN tables
      BY DEF IInv, VersionsOK
    <3> QED BY <1>6, <1>14, <1>15, <3>1
  <2> QED BY <1>1, <1>7, <2>1, <2>2, <2>3 DEF VersionsOK
<1>17. CompactionOK'
  BY <1>7 DEF CompactionOK
<1>18. MemCompactionOK'
  BY <1>1, <1>3, <1>7 DEF MemCompactionOK
<1>19. CurrentOK'
  BY <1>1, <1>3, <1>7, <1>15 DEF CurrentOK
<1> QED BY <1>6, <1>9, <1>10, <1>11, <1>12, <1>13, <1>16, <1>17, <1>18, <1>19 DEF IInv
-----------------------------------------------------------------------------
(* Closing, crashing and opening again.                                     *)
LEMMA CloseKeeps ==
  ASSUME IInv, Close
  PROVE  IInv'
<1>1. /\ open = "open" /\ open' = "closing" /\ manual = NULL /\ reader = NULL
      /\ UNCHANGED <<mem, imm, current, seek, vs, tables, logs, manifest, pending, reader, bgError, m, c, manual>>
  BY DEF Close, disk, reads, ghost
<1>2. MemEdit' = MemEdit /\ CompactionEdit' = CompactionEdit
  BY <1>1 DEF MemEdit, CompactionEdit
<1>3. MemFiles' = MemFiles /\ Outputs' = Outputs /\ ManifestFiles' = ManifestFiles /\ EndOfManifest' = EndOfManifest
  BY <1>1, <1>2 DEF MemFiles, Outputs, ManifestFiles, EndOfManifest
<1>4. AllFiles' = AllFiles
  BY <1>3 DEF AllFiles
<1>5. PhaseOK'
  BY <1>1 DEF PhaseOK
<1>6. DataOK' /\ SeekOK' /\ ManualOK'
  BY <1>1, SameParts
<1>7. NumbersOK' /\ FilesOK'
  BY <1>1, <1>3, <1>4 DEF IInv, NumbersOK, FilesOK
<1>8. VersionsOK'
  BY <1>1, <1>3 DEF IInv, VersionsOK, VersionOK
<1>9. CompactionOK'
  BY <1>1, <1>2, <1>3 DEF IInv, CompactionOK, Numbered
<1>10. MemCompactionOK'
  BY <1>1, <1>2, <1>3, <1>4 DEF IInv, MemCompactionOK, Numbered
<1>11. CurrentOK'
  BY <1>1 DEF IInv, CurrentOK
<1> QED BY <1>5, <1>6, <1>7, <1>8, <1>9, <1>10, <1>11 DEF IInv

(* Only the files are left.                                                 *)
LEMMA CutKeeps ==
  ASSUME DataOK, NEW keep, \A n \in DOMAIN logs : keep[n] \in Nat /\ keep[n] <= Len(logs[n]), Cut(keep)
  PROVE  DOMAIN logs' = DOMAIN logs /\ logs' \in [DOMAIN logs' -> Seq(Seq(Entry))]
<1>1. logs' = [n \in DOMAIN logs |-> SubSeq(logs[n], 1, keep[n])]
  BY DEF Cut
<1>2. ASSUME NEW n \in DOMAIN logs PROVE SubSeq(logs[n], 1, keep[n]) \in Seq(Seq(Entry))
  <2> DEFINE T == Seq(Entry)
             s == logs[n]
             k == keep[n]
  <2>1. s \in Seq(T) /\ k \in Nat /\ k <= Len(s)
    BY DEF DataOK
  <2> HIDE DEF T, s, k
  <2>2. Len(s) \in Nat /\ \A i \in 1 .. Len(s) : s[i] \in T
    BY <2>1, SequenceFacts
  <2>3. \A i \in 1 .. k : s[i] \in T
    BY <2>1, <2>2
  <2>4. SubSeq(s, 1, k) \in Seq(T)
    BY <2>1, <2>3, SubSeqProperties
  <2> QED BY <2>4 DEF T, s, k
<1> QED BY <1>1, <1>2

(* What is lost with the memory of the process: everything but the files,   *)
(* among which the manifest may have got the edit of the compaction.        *)
LEMMA ForgetKeeps ==
  ASSUME IInv, Forget, UNCHANGED tables,
         manifest' = manifest \/ (CompactionEdit /\ manifest' = Append(manifest, c.edit)),
         DOMAIN logs' = DOMAIN logs, logs' \in [DOMAIN logs' -> Seq(Seq(Entry))]
  PROVE  IInv'
<1>1. /\ open' = "closed" /\ mem' = {} /\ imm' = NULL /\ current' = EmptyVersion /\ seek' = NULL
      /\ vs' = NoNumbers /\ m' = NoWork /\ c' = NoWork /\ manual' = NULL /\ reader' = NULL
  BY DEF Forget
<1>2. m'.stage = "none" /\ c'.stage = "none"
  BY <1>1 DEF NoWork
<1>3. ~MemEdit' /\ MemFiles' = {} /\ Outputs' = {}
  BY <1>1, <1>2 DEF MemEdit, MemFiles, Outputs
<1>4. /\ manifest' \in Seq({manifest'[i] : i \in DOMAIN manifest'}) /\ manifest' # << >>
      /\ \A i \in DOMAIN manifest' : EditOK(manifest'[i])
      /\ AllFiles' \subseteq AllFiles /\ \A f \in ManifestFiles' : f.number < EndOfManifest'.next
      /\ \A l \in Level : \A f \in Live(manifest', l) : f.number \in DOMAIN tables'
  <2>1. CASE manifest' = manifest
    <3>1. ManifestFiles' = ManifestFiles /\ EndOfManifest' = EndOfManifest
      BY <2>1 DEF ManifestFiles, EndOfManifest
    <3>2. AllFiles' \subseteq AllFiles
      BY <1>3, <3>1 DEF AllFiles
    <3> QED BY <2>1, <3>1, <3>2 DEF IInv, NumbersOK, FilesOK, VersionsOK
  <2>2. CASE CompactionEdit /\ manifest' = Append(manifest, c.edit)
    <3>1. ManifestFiles' = ManifestFiles \cup EditFiles(c.edit) /\ EditFiles(c.edit) \subseteq AllFiles
      BY <2>2, CompactionAppended, CompactionEditFacts
    <3>2. AllFiles' \subseteq AllFiles
      BY <1>3, <3>1 DEF AllFiles
    <3> QED BY <2>2, <3>2, CompactionAppended
  <2> QED BY <2>1, <2>2
<1>5. PhaseOK'
  BY <1>1, <1>2 DEF PhaseOK
<1>6. DataOK'
  BY <1>1 DEF IInv, DataOK
<1>7. SeekOK' /\ ManualOK'
  BY <1>1, <1>2 DEF SeekOK, ManualOK, ManualCompactionKept
<1>8. NumbersOK'
  <2>1. /\ vs'.next = 2 /\ vs'.seq = 0 /\ vs'.log = 0 /\ vs'.logfile = 0
        /\ vs' = [next |-> 2, log |-> 0, seq |-> 0, logfile |-> 0]
    BY <1>1 DEF NoNumbers
  <2>2. vs' = [next |-> vs'.next, log |-> vs'.log, seq |-> vs'.seq, logfile |-> vs'.logfile]
    BY <2>1
  <2> QED BY <1>1, <1>4, <2>1, <2>2 DEF NumbersOK
<1>9. FilesOK'
  BY <1>1, <1>3, <1>4 DEF IInv, FilesOK, UniqueNumbers
<1>10. VersionsOK'
  <2>1. current' \in [Level -> Seq(Meta)] /\ \A l \in Level : ToSet(current'[l]) = {}
    BY <1>1 DEF EmptyVersion, ToSet
  <2>2. VersionOK(current)'
    BY <2>1 DEF VersionOK
  <2> QED BY <1>1, <1>2, <1>4, <2>2 DEF VersionsOK
<1>11. CompactionOK' /\ MemCompactionOK' /\ CurrentOK'
  BY <1>1, <1>2, <1>3 DEF CompactionOK, MemCompactionOK, CurrentOK
<1> QED BY <1>5, <1>6, <1>7, <1>8, <1>9, <1>10, <1>11 DEF IInv

(* A crash, which may cost the logs what was not synced, and the end of a   *)
(* close.                                                                   *)
LEMMA CrashKeeps ==
  ASSUME IInv, Crash \/ Closed
  PROVE  IInv'
<1>1. Forget /\ UNCHANGED <<tables, manifest>>
  BY DEF Crash, Closed
<1>2. DOMAIN logs' = DOMAIN logs /\ logs' \in [DOMAIN logs' -> Seq(Seq(Entry))]
  <2>1. DataOK
    BY DEF IInv
  <2>2. \A n \in DOMAIN logs : Len(logs[n]) \in Nat
    <3>1. \A n \in DOMAIN logs : logs[n] \in Seq(Seq(Entry))
      BY <2>1 DEF DataOK
    <3> QED BY <3>1, LenProperties
  <2>3. CASE Crash
    <3>1. PICK keep \in [DOMAIN logs -> 0 .. MaxSeq] :
            /\ \A n \in DOMAIN logs : keep[n] \in synced[n] .. Len(logs[n])
            /\ Cut(keep)
      BY <2>3 DEF Crash
    <3>2. \A n \in DOMAIN logs : keep[n] \in Nat /\ keep[n] <= Len(logs[n])
      BY <3>1, DBAssumption
    <3> QED BY <2>1, <3>1, <3>2, CutKeeps
  <2>4. CASE Closed
    <3> DEFINE keep == [n \in DOMAIN logs |-> Len(logs[n])]
    <3>1. Cut(keep)
      BY <2>4 DEF Closed
    <3>2. \A n \in DOMAIN logs : keep[n] \in Nat /\ keep[n] <= Len(logs[n])
      BY <2>2
    <3> HIDE DEF keep
    <3> QED BY <2>1, <3>1, <3>2, CutKeeps
  <2> QED BY <2>3, <2>4
<1> QED BY <1>1, <1>2, ForgetKeeps

(* The compaction of a request that is gone ends the process.               *)
LEMMA UseWithdrawnKeeps ==
  ASSUME IInv, UseWithdrawn
  PROVE  IInv'
<1> DEFINE keep == [n \in DOMAIN logs |-> Len(logs[n])]
<1>1. Forget /\ UNCHANGED tables /\ Cut(keep)
  BY DEF UseWithdrawn
<1>2. manifest' = manifest \/ (CompactionEdit /\ manifest' = Append(manifest, c.edit))
  BY DEF UseWithdrawn, CompactionError, CompactionEdit
<1>3. \A n \in DOMAIN logs : keep[n] \in Nat /\ keep[n] <= Len(logs[n])
  <2>1. \A n \in DOMAIN logs : logs[n] \in Seq(Seq(Entry))
    BY DEF IInv, DataOK
  <2> QED BY <2>1, LenProperties
<1> HIDE DEF keep
<1>4. DOMAIN logs' = DOMAIN logs /\ logs' \in [DOMAIN logs' -> Seq(Seq(Entry))]
  BY <1>1, <1>3, CutKeeps DEF IInv
<1> QED BY <1>1, <1>2, <1>4, ForgetKeeps

(* Recover: the version of the manifest, and the edit with the tables made  *)
(* from the logs.                                                           *)
LEMMA ReplayedVersion ==
  ASSUME IInv
  PROVE  /\ Replay(manifest) \in [Level -> Seq(Meta)]
         /\ \A l \in Level : ToSet(Replay(manifest)[l]) = Live(manifest, l)
         /\ \A l \in Level : Live(manifest, l) \subseteq ManifestFiles
<1>1. ManifestFiles \subseteq Meta /\ ManifestFiles \subseteq AllFiles
  BY FilesTyped DEF AllFiles
<1>2. UniqueNumbers(ManifestFiles) /\ EndOfManifest.next \in Nat
      /\ \A f \in ManifestFiles : f.number < EndOfManifest.next
  BY <1>1, ManifestFacts DEF IInv, FilesOK, UniqueNumbers, EditOK
<1>3. \A l \in Level : Applied(manifest)[l].added \subseteq ManifestFiles
  BY ManifestFacts DEF IInv
<1>4. ASSUME NEW l \in Level
      PROVE  Replay(manifest)[l] \in Seq(Meta) /\ ToSet(Replay(manifest)[l]) = Live(manifest, l)
  <2>1. /\ Applied(manifest)[l].added \subseteq Meta /\ UniqueNumbers(Applied(manifest)[l].added)
        /\ \A f \in Applied(manifest)[l].added : f.number < EndOfManifest.next
    BY <1>1, <1>2, <1>3 DEF UniqueNumbers
  <2> QED BY <1>2, <2>1, ReplayLists
<1>5. Replay(manifest) \in [Level -> Seq(Meta)]
  BY <1>4, SaveToDomain DEF Replay
<1>6. \A l \in Level : Live(manifest, l) \subseteq ManifestFiles
  BY <1>3 DEF Live
<1> QED BY <1>4, <1>5, <1>6

(* A new log file is empty.                                                 *)
LEMMA LogAdded ==
  ASSUME DataOK, NEW n \in Nat, logs' = With(logs, n, << >>)
  PROVE  /\ IsFiniteSet(DOMAIN logs') /\ DOMAIN logs' \subseteq Nat
         /\ logs' \in [DOMAIN logs' -> Seq(Seq(Entry))]
<1>1. /\ IsFiniteSet(DOMAIN logs) /\ DOMAIN logs \subseteq Nat
      /\ \A z \in DOMAIN logs : logs[z] \in Seq(Seq(Entry))
  BY DEF DataOK
<1>2. logs' = [z \in DOMAIN logs \cup {n} |-> IF z = n THEN << >> ELSE logs[z]]
  BY DEF With
<1>3. DOMAIN logs' = DOMAIN logs \cup {n}
  BY <1>2
<1>4. IsFiniteSet(DOMAIN logs \cup {n})
  BY <1>1, FS_AddElement
<1>5. << >> \in Seq(Seq(Entry))
  OBVIOUS
<1>6. \A z \in DOMAIN logs \cup {n} : logs'[z] \in Seq(Seq(Entry))
  BY <1>1, <1>2, <1>5
<1>7. logs' = [z \in DOMAIN logs' |-> logs'[z]]
  BY <1>2
<1> QED BY <1>1, <1>3, <1>4, <1>6, <1>7

(* Recover: the manifest is replayed, the logs are read, and the tables     *)
(* written are in the edit of Open.                                         *)
LEMMA RecoverKeeps ==
  ASSUME IInv, Recover
  PROVE  IInv'
<1>1. /\ open = "closed" /\ open' = "recovering" /\ current' = Replay(manifest)
      /\ UNCHANGED <<imm, seek, manifest, pending, reader, bgError, c, manual>>
  BY DEF Recover, reads, ghost
<1> DEFINE st == Recovered
           fresh == st.logfile = NULL
           n == IF fresh THEN st.next ELSE st.logfile
           next == IF fresh THEN st.next + 1 ELSE st.next
           e == NumberedEdit([NoEdit EXCEPT !.add = st.add], n, next, st.seq)
<1>2. /\ tables' = st.tabs /\ mem' = st.mem
      /\ logs' = IF fresh THEN With(logs, n, << >>) ELSE logs
      /\ vs' = [next |-> next, log |-> EndOfManifest.log, seq |-> st.seq, logfile |-> n]
      /\ m' = [stage |-> "recover", edit |-> e]
  BY DEF Recover
<1>3. e.add = st.add /\ e.next = next /\ e.seq = st.seq
  BY DEF NumberedEdit, NoEdit
<1>4. c.stage = "none" /\ reader = NULL /\ seek = NULL /\ imm = NULL /\ manual = NULL /\ m.stage = "none"
  BY <1>1 DEF IInv, PhaseOK
<1>5. EndOfManifest.next \in Nat /\ EndOfManifest.seq \in Nat
  BY ManifestFacts DEF IInv, EditOK
<1>6. st \in Recovering
  BY <1>5, RecoveredTyped DEF IInv, DataOK
<1> HIDE DEF st, e
<1>7. /\ st.mem \in SUBSET Entry /\ st.next \in Nat /\ st.tabs \in Tables /\ st.add \in SUBSET ({0} \X Meta)
      /\ st.seq \in Nat /\ st.logfile \in Nat \cup {NULL}
      /\ EndOfManifest.next < st.next /\ DOMAIN tables \subseteq DOMAIN st.tabs
      /\ \A f \in EditFiles(st) : /\ EndOfManifest.next < f.number /\ f.number < st.next
                                  /\ f.number \in DOMAIN st.tabs
      /\ UniqueNumbers(EditFiles(st))
  BY <1>6 DEF Recovering, Gathered, GatheredOK
<1>8. n \in Nat /\ next \in Nat /\ st.next <= next
  BY <1>7
<1> HIDE DEF n, next
<1>9. /\ vs'.next = next /\ vs'.seq = st.seq /\ vs'.log = EndOfManifest.log /\ vs'.logfile = n
      /\ m'.stage = "recover" /\ m'.edit = e
  BY <1>2
<1>10. vs' = [next |-> vs'.next, log |-> vs'.log, seq |-> vs'.seq, logfile |-> vs'.logfile]
  BY <1>2, <1>9
<1>11. EditFiles(e) = EditFiles(st) /\ EditOK(e)
  <2>1. 0 \in Level
    BY LevelAssumption DEF Level
  <2>2. st.add \subseteq Level \X Meta
    BY <1>7, <2>1
  <2> QED BY <1>3, <1>7, <1>8, <2>2 DEF EditFiles, EditOK
<1>12. EditFiles(e) \subseteq Meta
  <2>1. \A x \in e.add : x[2] \in Meta
    BY <1>11 DEF EditOK
  <2> QED BY <2>1 DEF EditFiles
<1>13. ASSUME NEW f \in EditFiles(e)
        PROVE  /\ f.number \in Nat /\ EndOfManifest.next < f.number /\ f.number < next
               /\ f.number \in DOMAIN st.tabs
  <2>1. f \in EditFiles(st) /\ f \in Meta
    BY <1>11, <1>12
  <2>2. f.number \in Nat
    BY <2>1, MetaFacts
  <2>3. EndOfManifest.next < f.number /\ f.number < st.next /\ f.number \in DOMAIN st.tabs
    BY <1>7, <2>1
  <2>4. f.number < next
    BY <1>7, <1>8, <2>2, <2>3
  <2> QED BY <2>2, <2>3, <2>4
<1>14. MemEdit' /\ (MemFiles' = EditFiles(e)) /\ Outputs' = {} /\ ManifestFiles' = ManifestFiles /\ EndOfManifest' = EndOfManifest
  <2>1. MemEdit'
    BY <1>1 DEF MemEdit
  <2>2. MemFiles' = EditFiles(m'.edit)
    BY <2>1 DEF MemFiles, EditFiles
  <2>3. Outputs' = {}
    BY <1>1, <1>4 DEF Outputs
  <2> QED BY <1>1, <1>9, <2>1, <2>2, <2>3 DEF ManifestFiles, EndOfManifest
<1>15. AllFiles' = ManifestFiles \cup EditFiles(e)
  BY <1>14 DEF AllFiles
<1>16. PhaseOK'
  BY <1>1, <1>4, <1>9 DEF PhaseOK
<1>17. DataOK'
  <2>1. IsFiniteSet(DOMAIN logs') /\ DOMAIN logs' \subseteq Nat /\ logs' \in [DOMAIN logs' -> Seq(Seq(Entry))]
    <3>1. CASE fresh
      <4>1. logs' = With(logs, n, << >>)
        BY <1>2, <3>1
      <4> QED BY <1>8, <4>1, LogAdded DEF IInv
    <3>2. CASE ~fresh
      <4>1. logs' = logs
        BY <1>2, <3>2
      <4> QED BY <4>1 DEF IInv, DataOK
    <3> QED BY <3>1, <3>2
  <2>2. tables' \in [DOMAIN tables' -> SUBSET Entry]
    <3>1. PICK D \in SUBSET (DOMAIN tables \cup Nat) : st.tabs \in [D -> SUBSET Entry]
      BY <1>7 DEF Tables
    <3> QED BY <1>2, <3>1
  <2> QED BY <1>1, <1>2, <1>4, <1>7, <2>1, <2>2 DEF DataOK
<1>18. SeekOK' /\ ManualOK'
  BY <1>1, <1>4 DEF SeekOK, ManualOK, ManualCompactionKept
<1>19. NumbersOK'
  <2>1. EndOfManifest'.next <= vs'.next
    BY <1>5, <1>7, <1>8, <1>9, <1>14
  <2> QED BY <1>1, <1>7, <1>8, <1>9, <1>10, <2>1 DEF IInv, NumbersOK
<1>20. FilesOK'
  <2>1. \A f \in ManifestFiles : f \in Meta /\ f.number \in Nat /\ f.number < EndOfManifest.next
    BY ManifestFacts, MetaFacts DEF IInv, FilesOK
  <2>2. \A f \in EditFiles(e) : /\ f.number \in Nat /\ EndOfManifest.next < f.number
                                /\ f.number < next
    BY <1>13
  <2>3. UniqueNumbers(ManifestFiles) /\ UniqueNumbers(EditFiles(e))
    BY <1>7, <1>11 DEF IInv, FilesOK, UniqueNumbers, AllFiles
  <2>4. UniqueNumbers(ManifestFiles \cup EditFiles(e))
    BY <1>5, <2>1, <2>2, <2>3 DEF UniqueNumbers
  <2>5. \A f \in ManifestFiles \cup EditFiles(e) : f.number < vs'.next
    BY <1>5, <1>7, <1>8, <1>9, <2>1, <2>2
  <2>6. \A f \in ManifestFiles' : f.number < EndOfManifest'.next
    BY <1>14, <2>1
  <2>7. UniqueNumbers(AllFiles)'
    BY <1>15, <2>4 DEF UniqueNumbers
  <2> QED BY <1>15, <2>5, <2>6, <2>7 DEF FilesOK
<1>21. /\ current' \in [Level -> Seq(Meta)] /\ \A l \in Level : ToSet(current'[l]) = Live(manifest, l)
       /\ \A l \in Level : Live(manifest, l) \subseteq ManifestFiles
  BY <1>1, ReplayedVersion
<1>22. \A l \in Level : \A f \in Live(manifest, l) : f.number \in DOMAIN tables'
  BY <1>2, <1>7 DEF IInv, VersionsOK
<1>23. VersionsOK'
  <2>1. VersionOK(current)'
    BY <1>14, <1>21, <1>22 DEF VersionOK
  <2> QED BY <1>1, <1>4, <1>22, <2>1 DEF VersionsOK
<1>24. CompactionOK'
  BY <1>1, <1>4 DEF CompactionOK
<1>25. MemCompactionOK'
  <2>1. EndOfManifest'.next <= m'.edit.next /\ m'.edit.next <= vs'.next
    BY <1>3, <1>5, <1>7, <1>8, <1>9, <1>14
  <2>2. Numbered(m.edit)' /\ EditOK(m.edit)'
    BY <1>9, <1>11, <2>1 DEF Numbered, EditOK
  <2>3. \A f \in EditFiles(e) : f.number \in Nat /\ f.number < e.next /\ f.number \in DOMAIN tables'
    BY <1>2, <1>3, <1>13
  <2>4. \A f \in EditFiles(m.edit)' : f.number < m'.edit.next /\ f.number \in DOMAIN tables'
    BY <1>9, <2>3 DEF EditFiles
  <2> QED BY <1>1, <2>2, <2>4 DEF MemCompactionOK
<1>26. CurrentOK'
  <2>1. \A l \in Level : Live(manifest', l) \subseteq ToSet(current'[l])
    BY <1>1, <1>21
  <2>2. open' = "recovering" /\ c'.stage # "install"
    BY <1>1, <1>4
  <2> QED BY <2>1, <2>2 DEF CurrentOK
<1> QED BY <1>16, <1>17, <1>18, <1>19, <1>20, <1>23, <1>24, <1>25, <1>26 DEF IInv
-----------------------------------------------------------------------------
(* The snapshot that starts a new manifest.                                 *)
LEMMA SnapshotFacts ==
  ASSUME IInv, NEW e, e = WriteSnapshot(current)
  PROVE  /\ EditOK(e) /\ e.del = {} /\ EditFiles(e) \subseteq ManifestFiles
         /\ \A l \in Level : At(e.add, l) = ToSet(current[l])
<1>1. e.add = UNION {{<<l, f>> : f \in ToSet(current[l])} : l \in Level}
      /\ e.del = {} /\ e.next = vs.next /\ e.seq = vs.seq
  BY DEF WriteSnapshot
<1>2. current \in [Level -> Seq(Meta)]
      /\ \A l \in Level : \A f \in ToSet(current[l]) : f \in ManifestFiles
  BY DEF IInv, VersionsOK, VersionOK
<1>3. \A l \in Level : ToSet(current[l]) \subseteq Meta
  <2> TAKE l \in Level
  <2>1. current[l] \in Seq(Meta)
    BY <1>2
  <2> QED BY <2>1, SequenceFacts
<1>4. ASSUME NEW x \in e.add
      PROVE  x[1] \in Level /\ x[2] \in ToSet(current[x[1]]) /\ x = <<x[1], x[2]>>
  <2>1. PICK l \in Level : x \in {<<l, f>> : f \in ToSet(current[l])}
    BY <1>1
  <2>2. PICK f \in ToSet(current[l]) : x = <<l, f>>
    BY <2>1
  <2>3. x[1] = l /\ x[2] = f
    BY <2>2
  <2> QED BY <2>1, <2>2, <2>3
<1>5. EditFiles(e) \subseteq ManifestFiles
  BY <1>2, <1>4 DEF EditFiles
<1>6. e.add \subseteq Level \X Meta
  <2> SUFFICES ASSUME NEW x \in e.add PROVE x \in Level \X Meta
    OBVIOUS
  <2>1. x[1] \in Level /\ x[2] \in Meta /\ x = <<x[1], x[2]>>
    BY <1>3, <1>4
  <2>2. <<x[1], x[2]>> \in Level \X Meta
    BY <2>1
  <2> QED BY <2>1, <2>2
<1>7. EditOK(e)
  <2>1. vs.next \in Nat /\ vs.seq \in Nat
    BY DEF IInv, NumbersOK
  <2> QED BY <1>1, <1>6, <2>1 DEF EditOK
<1>8. ASSUME NEW l \in Level PROVE At(e.add, l) = ToSet(current[l])
  <2>1. At(e.add, l) = {x[2] : x \in {y \in e.add : y[1] = l}}
    BY <1>6, AtFacts
  <2>2. At(e.add, l) \subseteq ToSet(current[l])
    BY <1>4, <2>1
  <2>3. ASSUME NEW f \in ToSet(current[l]) PROVE f \in At(e.add, l)
    <3>1. <<l, f>> \in e.add /\ <<l, f>>[1] = l /\ <<l, f>>[2] = f
      BY <1>1
    <3> QED BY <2>1, <3>1
  <2> QED BY <2>2, <2>3
<1> QED BY <1>1, <1>5, <1>7, <1>8

(* A manifest of a snapshot and an edit.                                    *)
LEMMA NewManifest ==
  ASSUME IInv, NEW e, EditOK(e), UniqueNumbers(ManifestFiles \cup EditFiles(e)),
         manifest' = <<WriteSnapshot(current), e>>
  PROVE  /\ manifest' \in Seq({manifest'[i] : i \in DOMAIN manifest'}) /\ manifest' # << >>
         /\ \A i \in DOMAIN manifest' : EditOK(manifest'[i])
         /\ EndOfManifest' = e
         /\ ManifestFiles' \subseteq ManifestFiles \cup EditFiles(e)
         /\ EditFiles(e) \subseteq ManifestFiles'
         /\ \A l \in Level : ToSet(current[l]) \subseteq ManifestFiles'
         /\ \A l \in Level : Live(manifest', l) \subseteq After(ToSet(current[l]), e, l)
<1> DEFINE snap == WriteSnapshot(current)
<1>1. /\ EditOK(snap) /\ snap.del = {} /\ EditFiles(snap) \subseteq ManifestFiles
      /\ \A l \in Level : At(snap.add, l) = ToSet(current[l])
  BY SnapshotFacts
<1> HIDE DEF snap
<1>2. manifest' = <<snap, e>>
  BY DEF snap
<1>3. Len(manifest') = 2 /\ DOMAIN manifest' = {1, 2} /\ manifest'[1] = snap /\ manifest'[2] = e
      /\ manifest' # << >>
  BY <1>2
<1>4. manifest' \in Seq({manifest'[i] : i \in DOMAIN manifest'})
  <2> DEFINE M == manifest'
             R == {M[i] : i \in DOMAIN M}
  <2>1. M = <<snap, e>> /\ snap \in R /\ e \in R
    BY <1>2, <1>3
  <2> HIDE DEF M, R
  <2>2. M \in Seq(R)
    BY <2>1
  <2> QED BY <2>2 DEF M, R
<1>5. EndOfManifest' = e
  BY <1>3 DEF EndOfManifest
<1>6. ManifestFiles' = EditFiles(snap) \cup EditFiles(e)
  <2>1. ManifestFiles' = UNION {EditFiles(manifest'[i]) : i \in DOMAIN manifest'}
    BY DEF ManifestFiles, EditFiles
  <2>2. \A x : x \in ManifestFiles' <=> x \in EditFiles(snap) \/ x \in EditFiles(e)
    BY <1>3, <2>1
  <2> QED BY <2>2
<1>7. \A l \in Level : ToSet(current[l]) \subseteq EditFiles(snap)
  <2>1. \A l \in Level : At(snap.add, l) \subseteq EditFiles(snap)
    BY DEF At, EditFiles
  <2> QED BY <1>1, <2>1
<1>8. ASSUME NEW l \in Level PROVE Live(manifest', l) \subseteq After(ToSet(current[l]), e, l)
  <2> DEFINE M == <<snap>>
             fs == ManifestFiles \cup EditFiles(e)
  <2>1. Applied(M)[l].added = ToSet(current[l])
    BY <1>1, OneEdit
  <2>2. Applied(M)[l].added \subseteq fs /\ At(e.add, l) \subseteq fs /\ UniqueNumbers(fs)
    <3>1. At(e.add, l) \subseteq EditFiles(e)
      BY DEF At, EditFiles
    <3> QED BY <1>1, <1>7, <2>1, <3>1
  <2>3. M \in Seq({snap}) /\ Append(M, e) = <<snap, e>>
    <3>1. M \in Seq({snap})
      OBVIOUS
    <3>2. Append(<<snap>>, e) = <<snap, e>>
      <4> DEFINE A == Append(<<snap>>, e)
                 B == <<snap, e>>
                 T == {snap, e}
      <4>1. <<snap>> \in Seq(T) /\ Len(<<snap>>) = 1 /\ <<snap>>[1] = snap /\ e \in T
        OBVIOUS
      <4>2. A \in Seq(T) /\ Len(A) = 2 /\ A[1] = snap /\ A[2] = e
        <5>1. /\ A \in Seq(T) /\ Len(A) = Len(<<snap>>) + 1
              /\ \A i \in 1 .. Len(<<snap>>) : A[i] = <<snap>>[i]
              /\ A[Len(<<snap>>) + 1] = e
          BY <4>1, AppendProperties
        <5> QED BY <4>1, <5>1
      <4>3. B \in Seq(T) /\ Len(B) = 2 /\ B[1] = snap /\ B[2] = e
        OBVIOUS
      <4> HIDE DEF A, B, T
      <4>4. \A i \in 1 .. Len(A) : A[i] = B[i]
        BY <4>2, <4>3
      <4>5. A = B
        BY <4>2, <4>3, <4>4, SeqEqual
      <4> QED BY <4>5 DEF A, B
    <3> QED BY <3>1, <3>2
  <2>4. Live(M, l) \subseteq ToSet(current[l])
    BY <2>1 DEF Live
  <2> HIDE DEF M, fs
  <2>5. Live(Append(M, e), l) \subseteq After(Live(M, l), e, l)
    BY <2>2, <2>3, LiveAfterEdit
  <2>6. After(Live(M, l), e, l) \subseteq After(ToSet(current[l]), e, l)
    BY <2>4 DEF After
  <2>7. Live(manifest', l) = Live(Append(M, e), l)
    BY <1>2, <2>3
  <2> QED BY <2>5, <2>6, <2>7
<1>9. \A i \in DOMAIN manifest' : EditOK(manifest'[i])
  BY <1>1, <1>3
<1> QED BY <1>1, <1>3, <1>4, <1>5, <1>6, <1>7, <1>8, <1>9

(* Open: the edit of Recover goes into the manifest, or into a new one with *)
(* a snapshot, and the version is installed.                                *)
LEMMA OpenKeeps ==
  ASSUME IInv, Open
  PROVE  IInv'
<1> DEFINE save == ~ReuseLogs \/ m.edit.add # {}
<1>1. /\ open = "recovering" /\ open' = "open" /\ m' = NoWork
      /\ manifest' = (IF ~ReuseLogs THEN <<WriteSnapshot(current), m.edit>>
                      ELSE IF save THEN Append(manifest, m.edit) ELSE manifest)
      /\ IF save THEN Install(m.edit) ELSE UNCHANGED <<current, seek, vs>>
      /\ DeleteObsoleteFiles(LiveVersions(current', NoWork), {}, vs'.log)
      /\ UNCHANGED <<mem, imm, pending, reader, bgError, c, manual>>
  BY DEF Open, reads, ghost
<1>2. c.stage = "none" /\ reader = NULL /\ seek = NULL /\ imm = NULL /\ manual = NULL /\ MemEdit
  BY <1>1 DEF IInv, PhaseOK, MemEdit
<1>3. /\ EditOK(m.edit) /\ EndOfManifest.next <= m.edit.next /\ m.edit.next <= vs.next
      /\ \A f \in EditFiles(m.edit) : f.number < m.edit.next /\ f.number \in DOMAIN tables
  BY <1>2 DEF IInv, MemCompactionOK, Numbered
<1>4. MemFiles = EditFiles(m.edit) /\ EditFiles(m.edit) \subseteq AllFiles
      /\ UniqueNumbers(ManifestFiles \cup EditFiles(m.edit))
  BY <1>2 DEF MemFiles, IInv, FilesOK, AllFiles, UniqueNumbers
<1>5. vs.next \in Nat /\ vs.seq \in Nat /\ EndOfManifest.next \in Nat /\ m.edit.next \in Nat
      /\ EndOfManifest.next <= vs.next
  BY <1>1, <1>3, ManifestFacts DEF IInv, EditOK, NumbersOK
<1>6. /\ current' \in [Level -> Seq(Meta)]
      /\ \A l \in Level : ToSet(current'[l]) \subseteq ToSet(current[l]) \cup EditFiles(m.edit)
      /\ seek' = NULL /\ vs'.next = vs.next /\ vs'.seq = vs.seq
      /\ vs' = [next |-> vs'.next, log |-> vs'.log, seq |-> vs'.seq, logfile |-> vs'.logfile]
      /\ save => \A l \in Level : ToSet(current'[l]) = After(ToSet(current[l]), m.edit, l)
      /\ ~save => current' = current
  <2>1. CASE save
    BY <1>1, <1>3, <1>4, <2>1, InstallFacts
  <2>2. CASE ~save
    BY <1>1, <1>2, <2>2 DEF IInv, VersionsOK, VersionOK, NumbersOK
  <2> QED BY <2>1, <2>2
<1>7. \A l \in Level : \A f \in ToSet(current[l]) : f \in ManifestFiles /\ f.number \in DOMAIN tables
  BY DEF IInv, VersionsOK, VersionOK
<1>8. \A f \in ManifestFiles : f.number \in Nat /\ f.number < EndOfManifest.next
  BY ManifestFacts, MetaFacts DEF IInv, FilesOK
<1>9. \A l \in Level : After(Live(manifest, l), m.edit, l) \subseteq Live(manifest, l) \cup EditFiles(m.edit)
  BY DEF After, At, EditFiles
<1>10. \A l \in Level : \A f \in Live(manifest, l) : f.number \in DOMAIN tables
  BY DEF IInv, VersionsOK
<1>11. ~bgError => \A l \in Level : Live(manifest, l) \subseteq ToSet(current[l])
  BY <1>1, <1>2 DEF IInv, CurrentOK
<1>12. /\ manifest' \in Seq({manifest'[i] : i \in DOMAIN manifest'}) /\ manifest' # << >>
       /\ \A i \in DOMAIN manifest' : EditOK(manifest'[i])
       /\ EndOfManifest'.next <= vs.next
       /\ ManifestFiles' \subseteq AllFiles /\ \A f \in ManifestFiles' : f.number < EndOfManifest'.next
       /\ \A l \in Level : ToSet(current'[l]) \subseteq ManifestFiles'
       /\ \A l \in Level : \A f \in Live(manifest', l) : f.number \in DOMAIN tables
       /\ ~bgError => \A l \in Level : Live(manifest', l) \subseteq ToSet(current'[l])
  <2>1. CASE ~ReuseLogs
    <3>1. /\ manifest' \in Seq({manifest'[i] : i \in DOMAIN manifest'}) /\ manifest' # << >>
          /\ \A i \in DOMAIN manifest' : EditOK(manifest'[i])
          /\ EndOfManifest' = m.edit
          /\ ManifestFiles' \subseteq ManifestFiles \cup EditFiles(m.edit)
          /\ EditFiles(m.edit) \subseteq ManifestFiles'
          /\ \A l \in Level : ToSet(current[l]) \subseteq ManifestFiles'
          /\ \A l \in Level : Live(manifest', l) \subseteq After(ToSet(current[l]), m.edit, l)
      BY <1>1, <1>3, <1>4, <2>1, NewManifest
    <3>2. \A l \in Level : Live(manifest', l) \subseteq ToSet(current'[l])
      BY <1>6, <2>1, <3>1
    <3>3. \A f \in ManifestFiles' : f.number < EndOfManifest'.next
      BY <1>3, <1>5, <1>8, <3>1
    <3>4. ManifestFiles' \subseteq AllFiles
      BY <1>4, <3>1 DEF AllFiles
    <3>5. \A l \in Level : ToSet(current'[l]) \subseteq ManifestFiles'
      BY <1>6, <3>1
    <3>6. \A l \in Level : \A f \in Live(manifest', l) : f.number \in DOMAIN tables
      BY <1>3, <1>6, <1>7, <3>2
    <3> QED BY <1>3, <3>1, <3>2, <3>3, <3>4, <3>5, <3>6
  <2>2. CASE ReuseLogs /\ save
    <3>1. manifest' = Append(manifest, m.edit)
      BY <1>1, <2>2
    <3>2. /\ manifest' \in Seq({manifest'[i] : i \in DOMAIN manifest'}) /\ manifest' # << >>
          /\ \A i \in DOMAIN manifest' : EditOK(manifest'[i])
          /\ EndOfManifest' = m.edit /\ ManifestFiles' = ManifestFiles \cup EditFiles(m.edit)
          /\ \A l \in Level : Live(manifest', l) \subseteq After(Live(manifest, l), m.edit, l)
      BY <1>3, <1>4, <3>1, ManifestExtended DEF IInv
    <3>3. ~bgError => \A l \in Level : Live(manifest', l) \subseteq ToSet(current'[l])
      <4>1. ~bgError => \A l \in Level : After(Live(manifest, l), m.edit, l) \subseteq After(ToSet(current[l]), m.edit, l)
        BY <1>11 DEF After
      <4> QED BY <1>6, <2>2, <3>2, <4>1
    <3>4. \A f \in ManifestFiles' : f.number < EndOfManifest'.next
      BY <1>3, <1>5, <1>8, <3>2
    <3>5. ManifestFiles' \subseteq AllFiles
      BY <1>4, <3>2 DEF AllFiles
    <3>6. \A l \in Level : ToSet(current'[l]) \subseteq ManifestFiles'
      BY <1>6, <1>7, <3>2
    <3>7. \A l \in Level : \A f \in Live(manifest', l) : f.number \in DOMAIN tables
      BY <1>3, <1>9, <1>10, <3>2
    <3> QED BY <1>3, <3>2, <3>3, <3>4, <3>5, <3>6, <3>7
  <2>3. CASE ReuseLogs /\ ~save
    <3>1. manifest' = manifest /\ current' = current
      BY <1>1, <1>6, <2>3
    <3>2. ManifestFiles' = ManifestFiles /\ EndOfManifest' = EndOfManifest
      BY <3>1 DEF ManifestFiles, EndOfManifest
    <3> QED BY <1>5, <1>7, <1>8, <1>10, <1>11, <3>1, <3>2 DEF IInv, NumbersOK, AllFiles
  <2> QED BY <2>1, <2>2, <2>3
<1>13. /\ DataOK' /\ \A x \in DOMAIN tables : bgError => x \in DOMAIN tables'
       /\ \A v \in LiveVersions(current', NoWork) : \A l \in Level : \A f \in ToSet(v[l]) :
              f.number \in DOMAIN tables => f.number \in DOMAIN tables'
  BY <1>1, ObsoleteDeleted DEF IInv
<1>14. \A l \in Level : \A f \in ToSet(current'[l]) : f.number \in DOMAIN tables'
  <2>1. \A l \in Level : \A f \in ToSet(current'[l]) : f.number \in DOMAIN tables
    BY <1>3, <1>6, <1>7
  <2>2. current' \in LiveVersions(current', NoWork)
    BY DEF LiveVersions
  <2> QED BY <1>13, <2>1, <2>2
<1>15. \A l \in Level : \A f \in Live(manifest', l) : f.number \in DOMAIN tables'
  BY <1>12, <1>13, <1>14
<1>16. ~MemEdit' /\ MemFiles' = {} /\ Outputs' = {} /\ AllFiles' = ManifestFiles'
  <2>1. m'.stage = "none" /\ c'.stage = "none"
    BY <1>1, <1>2 DEF NoWork
  <2>2. ~MemEdit'
    BY <1>1, <2>1 DEF MemEdit
  <2>3. MemFiles' = {} /\ Outputs' = {}
    BY <2>1, <2>2 DEF MemFiles, Outputs
  <2> QED BY <2>2, <2>3 DEF AllFiles
<1>17. m'.stage = "none" /\ c'.stage = "none"
  BY <1>1, <1>2 DEF NoWork
<1>18. PhaseOK'
  BY <1>1 DEF PhaseOK
<1>19. SeekOK' /\ ManualOK'
  BY <1>1, <1>2, <1>6, <1>17 DEF SeekOK, ManualOK, ManualCompactionKept
<1>20. NumbersOK'
  BY <1>5, <1>6, <1>12 DEF NumbersOK
<1>21. FilesOK'
  <2>1. \A f \in AllFiles : f.number < vs.next
    BY <1>1 DEF IInv, FilesOK
  <2>2. \A f \in AllFiles' : f.number < vs'.next
    BY <1>6, <1>12, <1>16, <2>1
  <2>3. UniqueNumbers(AllFiles)'
    BY <1>12, <1>16 DEF IInv, FilesOK, UniqueNumbers
  <2> QED BY <1>12, <2>2, <2>3 DEF FilesOK
<1>22. VersionsOK'
  <2>1. VersionOK(current)'
    BY <1>6, <1>12, <1>14 DEF VersionOK
  <2>2. reader' = NULL
    BY <1>1, <1>2
  <2> QED BY <1>15, <1>17, <2>1, <2>2 DEF VersionsOK
<1>23. CompactionOK' /\ MemCompactionOK'
  BY <1>16, <1>17 DEF CompactionOK, MemCompactionOK
<1>24. CurrentOK'
  BY <1>1, <1>12, <1>17 DEF CurrentOK
<1> QED BY <1>13, <1>18, <1>19, <1>20, <1>21, <1>22, <1>23, <1>24 DEF IInv
-----------------------------------------------------------------------------
(* The empty directory, every step, and what the invariant is for.          *)
LEMMA InitOK == Init => IInv
<1> SUFFICES ASSUME Init PROVE IInv
  OBVIOUS
<1>1. /\ open = "closed" /\ mem = {} /\ imm = NULL /\ current = EmptyVersion /\ seek = NULL
      /\ vs = [next |-> 2, log |-> 0, seq |-> 0, logfile |-> 0]
      /\ tables = << >> /\ logs = << >> /\ manifest = <<NewDB>>
      /\ m.stage = "none" /\ c.stage = "none" /\ manual = NULL /\ reader = NULL
  BY DEF Init, NoNumbers, NoWork
<1>2. NewDB.add = {} /\ NewDB.next = 2 /\ NewDB.seq = 0
  BY DEF NewDB, NumberedEdit, NoEdit
<1>3. EditOK(NewDB) /\ EditFiles(NewDB) = {} /\ \A l \in Level : At(NewDB.add, l) = {}
  BY <1>2 DEF EditOK, EditFiles, At
<1>4. /\ DOMAIN manifest = {1} /\ manifest[1] = NewDB /\ Len(manifest) = 1
      /\ manifest # << >> /\ EndOfManifest = NewDB
  BY <1>1 DEF EndOfManifest
<1>5. manifest \in Seq({manifest[i] : i \in DOMAIN manifest})
  <2> DEFINE R == {manifest[i] : i \in DOMAIN manifest}
  <2>1. manifest = <<NewDB>> /\ NewDB \in R
    BY <1>1, <1>4
  <2> HIDE DEF R
  <2>2. manifest \in Seq(R)
    BY <2>1
  <2> QED BY <2>2 DEF R
<1>6. ~MemEdit /\ ManifestFiles = {} /\ AllFiles = {}
  <2>1. ~MemEdit
    BY <1>1 DEF MemEdit
  <2>2. ManifestFiles = {}
    BY <1>3, <1>4 DEF ManifestFiles
  <2> QED BY <1>1, <2>1, <2>2 DEF AllFiles, MemFiles, Outputs
<1>7. \A l \in Level : Live(manifest, l) = {}
  BY <1>1, <1>3, OneEdit DEF Live
<1>8. PhaseOK
  BY <1>1 DEF PhaseOK
<1>9. DataOK
  <2>1. tables \in [DOMAIN tables -> SUBSET Entry] /\ logs \in [DOMAIN logs -> Seq(Seq(Entry))] /\ DOMAIN logs = {}
    BY <1>1
  <2>2. IsFiniteSet(DOMAIN logs)
    BY <2>1, FS_EmptySet
  <2> QED BY <1>1, <2>1, <2>2 DEF DataOK
<1>10. NumbersOK
  <2>1. vs = [next |-> vs.next, log |-> vs.log, seq |-> vs.seq, logfile |-> vs.logfile] /\ vs.next = 2 /\ vs.seq = 0
    BY <1>1
  <2> QED BY <1>1, <1>3, <1>4, <1>5, <2>1 DEF NumbersOK
<1>11. FilesOK
  BY <1>1, <1>6 DEF FilesOK, UniqueNumbers
<1>12. VersionsOK
  <2>1. current \in [Level -> Seq(Meta)] /\ \A l \in Level : ToSet(current[l]) = {}
    BY <1>1 DEF EmptyVersion, ToSet
  <2> QED BY <1>1, <1>7, <2>1 DEF VersionsOK, VersionOK
<1>13. CompactionOK /\ MemCompactionOK /\ CurrentOK /\ SeekOK /\ ManualOK
  BY <1>1, <1>6 DEF CompactionOK, MemCompactionOK, CurrentOK, SeekOK, ManualOK, ManualCompactionKept
<1> QED BY <1>8, <1>9, <1>10, <1>11, <1>12, <1>13 DEF IInv

(* A step that changes nothing.                                             *)
LEMMA StutterKeeps ==
  ASSUME IInv, UNCHANGED vars
  PROVE  IInv'
<1>1. /\ UNCHANGED <<open, current, tables, logs, manifest, m, c, pending, vs, mem, imm, bgError>>
      /\ UNCHANGED <<seek, reader, manual>>
  BY DEF vars
<1>2. SeekOK' /\ ManualOK'
  BY <1>1, SameParts
<1>3. open \in {"closed", "recovering"} => reader' = NULL /\ seek' = NULL /\ manual' = NULL
  BY <1>1 DEF IInv, PhaseOK
<1>4. open = "closing" => manual' = NULL
  BY <1>1 DEF IInv, PhaseOK
<1> QED BY <1>1, <1>2, <1>3, <1>4, StillKeeps

(* Every step of the database keeps the invariant.                          *)
LEMMA NextKeeps ==
  ASSUME IInv, [Next]_vars
  PROVE  IInv'
<1>1. CASE Writer
  BY <1>1, WriteKeeps, WriteSyncFailsKeeps, MakeRoomKeeps DEF Writer
<1>2. CASE Reader
  BY <1>2, ReaderKeeps, ReadEndKeeps DEF Reader
<1>3. CASE Background
  <2>1. CASE StartMemCompaction
    BY <2>1, StartMemKeeps
  <2>2. CASE BuildTable
    BY <2>2, BuildTableKeeps
  <2>3. CASE WriteManifestOfMem
    BY <2>3, WriteManifestOfMemKeeps
  <2>4. CASE InstallMem
    BY <2>4, InstallMemKeeps
  <2>5. CASE BackgroundNothing
    BY <2>5, ReaderKeeps
  <2>6. CASE CompactNothing
    BY <2>6, ManualStepKeeps DEF ManualStep
  <2>7. CASE StartCompaction
    BY <2>7, StartCompactionKeeps
  <2>8. CASE WriteCompactionOutput
    BY <2>8, WriteCompactionOutputKeeps
  <2>9. CASE FinishCompaction
    BY <2>9, FinishCompactionKeeps
  <2>10. CASE WriteManifestOfCompaction
    BY <2>10, WriteManifestOfCompactionKeeps
  <2>11. CASE InstallCompaction
    BY <2>11, InstallCompactionKeeps
  <2> QED BY <1>3, <2>1, <2>2, <2>3, <2>4, <2>5, <2>6, <2>7, <2>8, <2>9, <2>10, <2>11 DEF Background
<1>4. CASE BackgroundFault
  BY <1>4, MemFailureKeeps, CompactionFailsKeeps, UseWithdrawnKeeps DEF BackgroundFault
<1>5. CASE Manual
  BY <1>5, ManualStepKeeps, TEST_CompactMemTableKeeps DEF Manual, ManualStep
<1>6. CASE Lifecycle
  BY <1>6, CrashKeeps, CloseKeeps, RecoverKeeps, OpenKeeps DEF Lifecycle
<1>7. CASE UNCHANGED vars
  BY <1>7, StutterKeeps
<1> QED BY <1>1, <1>2, <1>3, <1>4, <1>5, <1>6, <1>7 DEF Next

(* What the invariant is for: a table the manifest names is in a version    *)
(* that is kept, or in one about to be installed.                           *)
LEMMA NothingGoes == IInv => NothingInUseGoes
<1> SUFFICES ASSUME IInv PROVE NothingInUseGoes
  OBVIOUS
<1>1. FilesOf(Replay(manifest)) \subseteq DOMAIN tables
  <2>1. \A l \in Level : \A f \in ToSet(Replay(manifest)[l]) : f.number \in DOMAIN tables
    BY ReplayedVersion DEF IInv, VersionsOK
  <2> QED BY <2>1, FilesOfFacts
<1>2. ASSUME c.stage # "none"
      PROVE  {f.number : f \in ToSet(c.in0 \o c.in1 \o c.files)} \subseteq DOMAIN tables
  <2>1. \A f \in ToSet(c.in0) \cup ToSet(c.in1) : f.number \in DOMAIN tables
    BY <1>2, InputsAreThere
  <2>2. /\ c.in0 \in Seq(ToSet(c.version[c.level])) /\ c.in1 \in Seq(ToSet(c.version[c.level + 1]))
        /\ c.files \in Seq(Meta) /\ \A f \in ToSet(c.files) : f.number \in DOMAIN tables
    BY <1>2 DEF IInv, CompactionOK
  <2> DEFINE A == ToSet(c.version[c.level])
             B == ToSet(c.version[c.level + 1])
             in == c.in0 \o c.in1
  <2>3. in \in Seq(A \cup B) /\ ToSet(in) = ToSet(c.in0) \cup ToSet(c.in1)
    <3>1. c.in0 \in Seq(A \cup B) /\ c.in1 \in Seq(A \cup B)
      BY <2>2, SeqMonotonic
    <3> QED BY <2>2, <3>1, ConcatProperties, ConcatElements
  <2> HIDE DEF A, B, in
  <2>4. ToSet(in \o c.files) = ToSet(in) \cup ToSet(c.files)
    BY <2>2, <2>3, ConcatElements
  <2>5. \A f \in ToSet(in \o c.files) : f.number \in DOMAIN tables
    BY <2>1, <2>2, <2>3, <2>4
  <2> QED BY <2>5 DEF in
<1>3. ASSUME m.stage \notin {"none", "build"}
      PROVE  {a[2].number : a \in m.edit.add} \subseteq DOMAIN tables
  <2>1. MemEdit
    BY <1>3 DEF IInv, MemCompactionOK, MemEdit
  <2>2. \A f \in EditFiles(m.edit) : f.number \in DOMAIN tables
    BY <2>1 DEF IInv, MemCompactionOK
  <2> QED BY <2>2 DEF EditFiles
<1>4. NeededFilesExist
  BY <1>1, <1>2, <1>3 DEF NeededFilesExist
<1>5. PinnedFilesExist
  <2>1. reader # NULL => FilesOf(reader.version) \subseteq DOMAIN tables
    <3>1. reader # NULL => \A l \in Level : \A f \in ToSet(reader.version[l]) : f.number \in DOMAIN tables
      BY DEF IInv, VersionsOK, VersionOK
    <3> QED BY <3>1, FilesOfFacts
  <2> QED BY <2>1 DEF PinnedFilesExist
<1>6. ManualCompactionKept
  BY DEF IInv, ManualOK
<1> QED BY <1>4, <1>5, <1>6 DEF NothingInUseGoes

(* Whatever the interleaving of writers, readers, the background thread,    *)
(* manual requests, faults, crashes and recoveries, and for every value of  *)
(* the constants: DeleteObsoleteFiles removes no table that the manifest    *)
(* names, that a reader has pinned, or that the compaction under way reads  *)
(* or wrote (those are in pending_outputs_), and unless an error was        *)
(* recorded the request of a manual compaction is still there when          *)
(* BackgroundCompaction ends it. (Spec states no fairness.)                 *)
THEOREM FilesInUseAreKept == Spec => []NothingInUseGoes
<1>1. Init => IInv
  BY InitOK
<1>2. IInv /\ [Next]_vars => IInv'
  BY NextKeeps
<1>3. IInv => NothingInUseGoes
  BY NothingGoes
<1> QED BY <1>1, <1>2, <1>3, PTL DEF Spec
=============================================================================
