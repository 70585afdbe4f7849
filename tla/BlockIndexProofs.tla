-------------------------- MODULE BlockIndexProofs --------------------------
(***************************************************************************)
(* What adding a key to the expiry index and pruning it do, for every      *)
(* index, shared by the proofs about both storages.                        *)
(***************************************************************************)
EXTENDS BlockIndex, FiniteSetTheorems, WellFoundedInduction, TLAPS

IndexType == [Blocks -> SUBSET Keys]

(* An index small enough for the storage between two operations. *)
Bounded(idx) ==
  /\ IsFiniteSet(IndexedBlocks(idx))
  /\ Cardinality(IndexedBlocks(idx)) <= MaxBlocks

(* A non-empty set of block numbers has a lowest one: the BTreeMap has a first
   entry whenever prune() asks for it. *)
LEMMA LowestExists ==
  ASSUME NEW S, S \subseteq Nat, S # {}
  PROVE  \E x \in S : \A y \in S : x <= y
<1>1. PICK x \in S : \A y \in S : ~(<<y, x>> \in OpToRel(<, Nat))
  BY NatLessThanWellFounded, WFMin
<1>2. \A y \in S : ~(y < x)
  BY <1>1 DEF OpToRel
<1> QED BY <1>2

(* The first entry of the BTreeMap is one of its entries, and the lowest. *)
LEMMA OldestBlockIsLowest ==
  ASSUME NEW idx \in IndexType, IndexedBlocks(idx) # {}
  PROVE  /\ OldestBlock(idx) \in IndexedBlocks(idx)
         /\ \A c \in IndexedBlocks(idx) : OldestBlock(idx) <= c
<1>1. IndexedBlocks(idx) \subseteq Nat
  BY BlocksAssumption DEF IndexedBlocks
<1>2. \E b \in IndexedBlocks(idx) : \A c \in IndexedBlocks(idx) : b <= c
  BY <1>1, LowestExists
<1> QED BY <1>2 DEF OldestBlock

(* An index over the limit has a block to drop. *)
LEMMA OverfullNotEmpty ==
  ASSUME NEW idx \in IndexType, IsFiniteSet(IndexedBlocks(idx)), TooManyBlocks(idx)
  PROVE  IndexedBlocks(idx) # {}
BY FS_EmptySet, MaxBlocksAssumption, FS_CardinalityType DEF TooManyBlocks

(* Adding a key adds at most one block. *)
LEMMA AddToIndexProps ==
  ASSUME NEW idx \in IndexType, NEW b \in Blocks, NEW k \in Keys
  PROVE  /\ AddToIndex(idx, b, k) \in IndexType
         /\ IndexedBlocks(AddToIndex(idx, b, k)) = IndexedBlocks(idx) \cup {b}
         /\ \A c \in Blocks : AddToIndex(idx, b, k)[c] =
                                IF c = b THEN idx[c] \cup {k} ELSE idx[c]
BY DEF AddToIndex, IndexType, IndexedBlocks

(* Pruning drops exactly the oldest block when there are too many. *)
LEMMA PrunedIndexProps ==
  ASSUME NEW idx \in IndexType, IsFiniteSet(IndexedBlocks(idx))
  PROVE  /\ PrunedIndex(idx) \in IndexType
         /\ PrunedKeys(idx) \subseteq Keys
         /\ IndexedBlocks(PrunedIndex(idx)) =
              IF TooManyBlocks(idx) THEN IndexedBlocks(idx) \ {OldestBlock(idx)}
                                    ELSE IndexedBlocks(idx)
         /\ \A c \in Blocks : \A k \in idx[c] :
              k \in PrunedKeys(idx) \/ k \in PrunedIndex(idx)[c]
<1>1. CASE TooManyBlocks(idx)
  <2>1. OldestBlock(idx) \in Blocks
    BY <1>1, OverfullNotEmpty, OldestBlockIsLowest DEF IndexedBlocks
  <2> QED BY <1>1, <2>1 DEF PrunedIndex, PrunedKeys, IndexType, IndexedBlocks
<1>2. CASE ~TooManyBlocks(idx)
  BY <1>2 DEF PrunedIndex, PrunedKeys, IndexType, IndexedBlocks
<1> QED BY <1>1, <1>2

(* One prune() after one insertion brings the index back under its bound. *)
LEMMA PruneRestoresBound ==
  ASSUME NEW idx \in IndexType, Bounded(idx), NEW b \in Blocks, NEW k \in Keys
  PROVE  Bounded(PrunedIndex(AddToIndex(idx, b, k)))
<1> DEFINE new_idx == AddToIndex(idx, b, k)
<1>1. /\ new_idx \in IndexType
      /\ IndexedBlocks(new_idx) = IndexedBlocks(idx) \cup {b}
  BY AddToIndexProps
<1>2. /\ IsFiniteSet(IndexedBlocks(new_idx))
      /\ Cardinality(IndexedBlocks(new_idx)) \in Nat
      /\ Cardinality(IndexedBlocks(new_idx)) <= MaxBlocks + 1
  <2> DEFINE old == IndexedBlocks(idx)
  <2>1. /\ IsFiniteSet(old \cup {b})
        /\ Cardinality(old \cup {b}) = IF b \in old THEN Cardinality(old)
                                        ELSE Cardinality(old) + 1
    BY FS_AddElement DEF Bounded
  <2>2. Cardinality(old) \in Nat /\ Cardinality(old) <= MaxBlocks
    BY FS_CardinalityType DEF Bounded
  <2> HIDE DEF old, new_idx
  <2> QED BY <1>1, <2>1, <2>2, MaxBlocksAssumption DEF old
<1>3. CASE TooManyBlocks(new_idx)
  <2> DEFINE o == OldestBlock(new_idx)
  <2>1. o \in IndexedBlocks(new_idx)
    BY <1>1, <1>2, <1>3, OverfullNotEmpty, OldestBlockIsLowest
  <2>2. IndexedBlocks(PrunedIndex(new_idx)) = IndexedBlocks(new_idx) \ {o}
    BY <1>1, <1>2, <1>3, PrunedIndexProps
  <2> HIDE DEF new_idx, o
  <2>3. /\ IsFiniteSet(IndexedBlocks(new_idx) \ {o})
        /\ Cardinality(IndexedBlocks(new_idx) \ {o})
             = Cardinality(IndexedBlocks(new_idx)) - 1
    BY <1>2, <2>1, FS_RemoveElement
  <2>4. Bounded(PrunedIndex(new_idx))
    BY <2>2, <2>3, <1>2, MaxBlocksAssumption DEF Bounded
  <2> QED BY <2>4 DEF new_idx
<1>4. CASE ~TooManyBlocks(new_idx)
  BY <1>1, <1>2, <1>4, MaxBlocksAssumption DEF Bounded, PrunedIndex, TooManyBlocks
<1> QED BY <1>3, <1>4

(* prune() removes keys that were indexed, and adds none. *)
LEMMA PruneShrinks ==
  ASSUME NEW idx \in IndexType, IsFiniteSet(IndexedBlocks(idx))
  PROVE  /\ \A k \in PrunedKeys(idx) : \E b \in Blocks : k \in idx[b]
         /\ \A b \in Blocks : PrunedIndex(idx)[b] \subseteq idx[b]
<1>1. CASE TooManyBlocks(idx)
  <2>1. OldestBlock(idx) \in Blocks
    BY <1>1, OverfullNotEmpty, OldestBlockIsLowest DEF IndexedBlocks
  <2> QED BY <1>1, <2>1 DEF PrunedIndex, PrunedKeys, IndexType
<1>2. CASE ~TooManyBlocks(idx)
  BY <1>2 DEF PrunedIndex, PrunedKeys
<1> QED BY <1>1, <1>2

(* A bounded index is not pruned. *)
LEMMA BoundedStays ==
  ASSUME NEW idx, Bounded(idx)
  PROVE  PrunedIndex(idx) = idx /\ PrunedKeys(idx) = {}
<1>1. Cardinality(IndexedBlocks(idx)) \in Nat
  BY FS_CardinalityType DEF Bounded
<1>2. ~TooManyBlocks(idx)
  BY <1>1, MaxBlocksAssumption DEF Bounded, TooManyBlocks
<1> QED BY <1>2 DEF PrunedIndex, PrunedKeys
=============================================================================
