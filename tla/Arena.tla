------------------------------- MODULE Arena --------------------------------
(* leveldb's util/arena.h and util/arena.cc: memory is cut from blocks of       *)
(* BlockBytes, large pieces get blocks of their own, and nothing is given back  *)
(* before the arena goes.  An address is [block, off]; block 0 is NULL, and     *)
(* every block begins aligned.                                                  *)
EXTENDS Integers, Sequences, FiniteSets, TLAPS

CONSTANTS
    BlockBytes,    \* kBlockSize
    Align,         \* the alignment of AllocateAligned
    PointerBytes,  \* sizeof(char*)
    Sizes,         \* the sizes asked for
    MaxPieces      \* bound: allocations

VARIABLES
    blocks,        \* the sizes of the blocks
    ptr,           \* alloc_ptr_
    remaining,     \* alloc_bytes_remaining_
    usage,         \* memory_usage_
    pieces         \* what was handed out: [block, off, size, aligned]

vars == <<blocks, ptr, remaining, usage, pieces>>

ASSUME ArenaAssumption ==
    /\ BlockBytes \in Nat \ {0} /\ Align \in Nat \ {0} /\ PointerBytes \in Nat
    /\ BlockBytes % Align = 0 /\ Sizes \subseteq Nat \ {0}

Init ==
    /\ blocks = << >>
    /\ ptr = [block |-> 0, off |-> 0]
    /\ remaining = 0
    /\ usage = 0
    /\ pieces = {}

(* A deviation: the pointer does not move over the slop.                        *)
CutInSlop(bytes, slop, aligned) ==
    /\ pieces' = pieces \union {[block |-> ptr.block, off |-> ptr.off + slop, size |-> bytes,
                                 aligned |-> aligned]}
    /\ ptr' = [ptr EXCEPT !.off = @ + bytes]
    /\ remaining' = remaining - (slop + bytes)
    /\ UNCHANGED <<blocks, usage>>

(* A piece of the current block, behind slop bytes.                             *)
Cut(bytes, slop, aligned) ==
    /\ pieces' = pieces \union {[block |-> ptr.block, off |-> ptr.off + slop, size |-> bytes,
                                 aligned |-> aligned]}
    /\ ptr' = [ptr EXCEPT !.off = @ + slop + bytes]
    /\ remaining' = remaining - (slop + bytes)
    /\ UNCHANGED <<blocks, usage>>

AllocateNewBlock(bytes) ==
    /\ blocks' = Append(blocks, bytes)
    /\ usage' = usage + bytes + PointerBytes

(* A piece of more than a quarter of a block gets its own and leaves the        *)
(* current block as it is.                                                      *)
AllocateFallback(bytes, aligned) ==
    LET new == Len(blocks) + 1
    IN  /\ pieces' = pieces \union {[block |-> new, off |-> 0, size |-> bytes, aligned |-> aligned]}
        /\ IF bytes > BlockBytes \div 4
           THEN AllocateNewBlock(bytes) /\ UNCHANGED <<ptr, remaining>>
           ELSE /\ AllocateNewBlock(BlockBytes)
                /\ ptr' = [block |-> new, off |-> bytes]
                /\ remaining' = BlockBytes - bytes

Allocate(bytes) ==
    /\ Cardinality(pieces) < MaxPieces
    /\ IF bytes <= remaining THEN Cut(bytes, 0, FALSE) ELSE AllocateFallback(bytes, FALSE)

Slop == IF ptr.off % Align = 0 THEN 0 ELSE Align - (ptr.off % Align)

AllocateAligned(bytes) ==
    /\ Cardinality(pieces) < MaxPieces
    /\ IF bytes + Slop <= remaining THEN Cut(bytes, Slop, TRUE) ELSE AllocateFallback(bytes, TRUE)

Next == \E bytes \in Sizes : Allocate(bytes) \/ AllocateAligned(bytes)

Spec == Init /\ [][Next]_vars

-----------------------------------------------------------------------------
(* The one type invariant of the module.                                        *)
TypeOK ==
    /\ blocks \in Seq(Nat \ {0})
    /\ ptr \in [block : Nat, off : Nat]
    /\ remaining \in Nat /\ usage \in Nat
    /\ pieces \subseteq [block : Nat, off : Nat, size : Nat, aligned : BOOLEAN]

(* Every piece lies inside its block: the bytes skipped for an alignment count  *)
(* against what alloc_bytes_remaining_ says is left.                            *)
PiecesFit == \A p \in pieces : p.block \in DOMAIN blocks /\ p.off + p.size <= blocks[p.block]

(* No two pieces share a byte: the nodes of a skip list and the entries it      *)
(* refers to come from the same arena.                                          *)
PiecesApart ==
    \A p, q \in pieces :
        p # q => \/ p.block # q.block
                 \/ p.off + p.size <= q.off
                 \/ q.off + q.size <= p.off

(* The assertion of AllocateAligned.                                            *)
AlignedWhenAsked == \A p \in pieces : p.aligned => p.off % Align = 0

(* Every piece handed out, from the current block or from one of its own, lies  *)
(* in its block, shares no byte with another piece and is aligned when          *)
(* AllocateAligned made it.                                                     *)
ArenaSafe == PiecesFit /\ PiecesApart /\ AlignedWhenAsked

-----------------------------------------------------------------------------
(* The proof, for every block size, alignment and sequence of allocations.      *)

(* The part the invariants rest on: what is left of the current block is what  *)
(* lies behind alloc_ptr_, and no piece lies there.                             *)
RestIsFree ==
    /\ ptr.block = 0 => remaining = 0
    /\ ptr.block > 0 => /\ ptr.block \in DOMAIN blocks
                        /\ ptr.off + remaining = blocks[ptr.block]
    /\ \A p \in pieces : p.block = ptr.block => p.off + p.size <= ptr.off

IInv == TypeOK /\ RestIsFree /\ PiecesFit /\ PiecesApart /\ AlignedWhenAsked

(* The slop brings the pointer to the next multiple of the alignment.           *)
LEMMA SlopAligns ==
    ASSUME TypeOK
    PROVE  Slop \in Nat /\ (ptr.off + Slop) % Align = 0
<1> USE ArenaAssumption
<1>1. ptr.off \in Nat /\ Align \in Nat /\ Align > 0
  BY DEF TypeOK
<1>2. ASSUME NEW o \in Nat, NEW a \in Nat, a > 0, o % a # 0
      PROVE  (o + (a - (o % a))) % a = 0 /\ a - (o % a) \in Nat
  <2> DEFINE q == o \div a
             m == o % a
  <2>1. q \in Nat /\ m \in Nat /\ m < a /\ o = a * q + m
    BY <1>2, SMTT(30)
  <2>2. o + (a - m) = a * (q + 1)
    BY <1>2, <2>1, SMTT(30)
  <2>3. (a * (q + 1)) % a = 0
    BY <1>2, <2>1, SMTT(30)
  <2> QED
    BY <1>2, <2>1, <2>2, <2>3
<1> QED
  BY <1>1, <1>2 DEF Slop

(* Allocate and AllocateAligned out of the current block.                       *)
LEMMA CutKeeps ==
    ASSUME IInv, NEW bytes \in Sizes, NEW slop \in Nat, NEW aligned \in BOOLEAN,
           bytes + slop <= remaining, aligned => (ptr.off + slop) % Align = 0,
           Cut(bytes, slop, aligned)
    PROVE  IInv'
<1> USE ArenaAssumption DEF IInv
<1> DEFINE new == [block |-> ptr.block, off |-> ptr.off + slop, size |-> bytes, aligned |-> aligned]
<1>1. /\ pieces' = pieces \union {new}
      /\ ptr' = [ptr EXCEPT !.off = ptr.off + slop + bytes]
      /\ remaining' = remaining - (slop + bytes)
      /\ blocks' = blocks /\ usage' = usage
  BY DEF Cut
<1>2. /\ bytes \in Nat /\ bytes > 0
      /\ ptr \in [block : Nat, off : Nat] /\ remaining \in Nat
      /\ new \in [block : Nat, off : Nat, size : Nat, aligned : BOOLEAN]
      /\ ptr'.block = ptr.block /\ ptr'.off = ptr.off + slop + bytes
  BY <1>1 DEF TypeOK
<1>3. ptr.block > 0 /\ ptr.block \in DOMAIN blocks /\ ptr.off + remaining = blocks[ptr.block]
  BY <1>2 DEF RestIsFree
<1>4. TypeOK'
  <2>1. ptr' \in [block : Nat, off : Nat]
    BY <1>1, <1>2
  <2>2. remaining' \in Nat
    BY <1>1, <1>2
  <2>3. pieces' \subseteq [block : Nat, off : Nat, size : Nat, aligned : BOOLEAN]
    BY <1>1, <1>2 DEF TypeOK
  <2> QED
    BY <1>1, <2>1, <2>2, <2>3 DEF TypeOK
<1>5. \A p \in pieces : p.block = ptr.block => p.off + p.size <= ptr.off
  BY DEF RestIsFree
<1>t. pieces \subseteq [block : Nat, off : Nat, size : Nat, aligned : BOOLEAN]
  BY DEF TypeOK
<1>6. RestIsFree'
  <2>1. \A p \in pieces' : p.block = ptr'.block => p.off + p.size <= ptr'.off
    <3> SUFFICES ASSUME NEW p \in pieces', p.block = ptr'.block PROVE p.off + p.size <= ptr'.off
      OBVIOUS
    <3>1. CASE p \in pieces
      BY <1>1, <1>2, <1>5, <1>t, <3>1
    <3>2. CASE p = new
      BY <1>1, <1>2, <3>2
    <3> QED
      BY <1>1, <3>1, <3>2
  <2> QED
    BY <1>1, <1>2, <1>3, <2>1 DEF RestIsFree
<1>7. PiecesFit'
  BY <1>1, <1>2, <1>3 DEF PiecesFit
<1>8. PiecesApart'
  <2>1. \A p \in pieces : p.block = new.block => p.off + p.size <= new.off
    BY <1>2, <1>5, <1>t
  <2> QED
    BY <1>1, <2>1 DEF PiecesApart
<1>9. AlignedWhenAsked'
  BY <1>1 DEF AlignedWhenAsked
<1> QED
  BY <1>4, <1>6, <1>7, <1>8, <1>9

(* Allocate and AllocateAligned with a new block.                               *)
LEMMA FallbackKeeps ==
    ASSUME IInv, NEW bytes \in Sizes, NEW aligned \in BOOLEAN, AllocateFallback(bytes, aligned)
    PROVE  IInv'
<1> USE ArenaAssumption DEF IInv
<1> DEFINE b == Len(blocks) + 1
           new == [block |-> b, off |-> 0, size |-> bytes, aligned |-> aligned]
<1>t. /\ bytes \in Nat /\ bytes > 0 /\ Len(blocks) \in Nat /\ blocks \in Seq(Nat \ {0})
      /\ ptr \in [block : Nat, off : Nat] /\ remaining \in Nat /\ usage \in Nat
      /\ pieces \subseteq [block : Nat, off : Nat, size : Nat, aligned : BOOLEAN]
      /\ new \in [block : Nat, off : Nat, size : Nat, aligned : BOOLEAN]
      /\ new.block = b /\ new.off = 0 /\ new.size = bytes
  BY DEF TypeOK
<1>1. pieces' = pieces \union {new}
  BY DEF AllocateFallback
<1>2. PICK size \in Nat \ {0} :
         /\ blocks' = Append(blocks, size) /\ usage' = usage + size + PointerBytes
         /\ bytes <= size
         /\ \/ ptr' = ptr /\ remaining' = remaining
            \/ ptr' = [block |-> b, off |-> bytes] /\ remaining' = size - bytes
  <2>1. CASE bytes > BlockBytes \div 4
    BY <1>t, <2>1 DEF AllocateFallback, AllocateNewBlock
  <2>2. CASE ~(bytes > BlockBytes \div 4)
    <3>1. bytes <= BlockBytes
      BY <1>t, <2>2
    <3> QED
      BY <1>t, <2>2, <3>1 DEF AllocateFallback, AllocateNewBlock
  <2> QED
    BY <2>1, <2>2
<1>3. /\ blocks' \in Seq(Nat \ {0}) /\ Len(blocks') = b /\ blocks'[b] = size
      /\ \A i \in DOMAIN blocks : i \in DOMAIN blocks' /\ blocks'[i] = blocks[i] /\ i # b /\ i \in Nat
      /\ b \in DOMAIN blocks' /\ b > 0
  BY <1>t, <1>2
<1>4. \A p \in pieces : p.block \in DOMAIN blocks /\ p.block # b
  BY <1>t, <1>3 DEF PiecesFit
<1>5. TypeOK'
  BY <1>t, <1>1, <1>2, <1>3 DEF TypeOK
<1>6. RestIsFree'
  <2>1. CASE ptr' = ptr /\ remaining' = remaining
    <3>1. ptr.block # b
      BY <1>t, <1>3 DEF RestIsFree
    <3> QED
      BY <1>t, <1>1, <1>3, <2>1, <3>1 DEF RestIsFree
  <2>2. CASE ptr' = [block |-> b, off |-> bytes] /\ remaining' = size - bytes
    BY <1>t, <1>1, <1>2, <1>3, <1>4, <2>2 DEF RestIsFree
  <2> QED
    BY <1>2, <2>1, <2>2
<1>7. PiecesFit'
  BY <1>t, <1>1, <1>2, <1>3 DEF PiecesFit
<1>8. PiecesApart'
  BY <1>t, <1>1, <1>4 DEF PiecesApart
<1>9. AlignedWhenAsked'
  <2>1. 0 % Align = 0
    OBVIOUS
  <2> QED
    BY <1>t, <1>1, <2>1 DEF AlignedWhenAsked
<1> QED
  BY <1>5, <1>6, <1>7, <1>8, <1>9

(* Every allocation of the arena keeps the pieces apart, inside their blocks    *)
(* and aligned.                                                                 *)
THEOREM ArenaIsSound == Spec => [](TypeOK /\ ArenaSafe)
<1>1. Init => IInv
  BY DEF Init, IInv, TypeOK, RestIsFree, PiecesFit, PiecesApart, AlignedWhenAsked
<1>2. IInv /\ [Next]_vars => IInv'
  <2> SUFFICES ASSUME IInv, [Next]_vars PROVE IInv'
    OBVIOUS
  <2>1. CASE UNCHANGED vars
    BY <2>1 DEF vars, IInv, TypeOK, RestIsFree, PiecesFit, PiecesApart, AlignedWhenAsked
  <2>2. ASSUME NEW bytes \in Sizes, Allocate(bytes) PROVE IInv'
    <3>1. CASE bytes <= remaining
      <4>1. bytes + 0 <= remaining
        BY <3>1, ArenaAssumption
      <4> QED
        BY <2>2, <3>1, <4>1, CutKeeps DEF Allocate
    <3>2. CASE ~(bytes <= remaining)
      BY <2>2, <3>2, FallbackKeeps DEF Allocate
    <3> QED
      BY <3>1, <3>2
  <2>3. ASSUME NEW bytes \in Sizes, AllocateAligned(bytes) PROVE IInv'
    <3>s. Slop \in Nat /\ (ptr.off + Slop) % Align = 0
      BY SlopAligns DEF IInv
    <3>1. CASE bytes + Slop <= remaining
      BY <2>3, <3>s, <3>1, CutKeeps DEF AllocateAligned
    <3>2. CASE ~(bytes + Slop <= remaining)
      BY <2>3, <3>2, FallbackKeeps DEF AllocateAligned
    <3> QED
      BY <3>1, <3>2
  <2> QED
    BY <2>1, <2>2, <2>3 DEF Next
<1>3. IInv => TypeOK /\ ArenaSafe
  BY DEF IInv, ArenaSafe
<1> QED
  BY <1>1, <1>2, <1>3, PTL DEF Spec
=============================================================================
