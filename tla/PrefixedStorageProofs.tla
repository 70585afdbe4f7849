----------------------- MODULE PrefixedStorageProofs -----------------------
(***************************************************************************)
(* For every set of keys, prefixes and blocks, every use the callers make  *)
(* of the slots, and every `max_blocks`: the prefixed storage keeps its    *)
(* index bounded and leaks nothing, and it implements the windowed store   *)
(* for the records that have a key of their own.                           *)
(***************************************************************************)
EXTENDS PrefixedStorage, BlockIndexProofs

(* The inductive invariant: the properties themselves, together. *)
IInv == TypeOK /\ IndexBounded /\ NothingLeaks

(* What each step does to the records: the part of IInv that is about slots. *)
LEMMA SlotFacts == \A s \in Slots : KeyOf(s) \in Keys
BY SlotsAssumption DEF KeyOf

LEMMA EntryFacts == \A e \in Entries : e \in StorageEntry /\ e.block_number \in Blocks
BY DEF Entries, StorageEntry

(* Insertion, with the prune() that ends it, preserves the invariant. *)
LEMMA InsertPreserves ==
  ASSUME IInv, NEW s \in Slots, NEW e \in Entries, insert_prefix(s, e)
  PROVE  IInv'
<1> DEFINE idx == AddToIndex(ephemeral_records, e.block_number, KeyOf(s))
           recs == [prefixed_records EXCEPT ![s] = e]
<1>1. /\ e \in StorageEntry
      /\ e.block_number \in Blocks
      /\ KeyOf(s) \in Keys
      /\ ephemeral_records \in IndexType
      /\ Bounded(ephemeral_records)
  BY SlotFacts, EntryFacts DEF IInv, TypeOK, IndexBounded, IndexType, Bounded
<1>2. /\ idx \in IndexType
      /\ IndexedBlocks(idx) = IndexedBlocks(ephemeral_records) \cup {e.block_number}
      /\ \A c \in Blocks : idx[c] = IF c = e.block_number
                                      THEN ephemeral_records[c] \cup {KeyOf(s)}
                                      ELSE ephemeral_records[c]
  BY <1>1, AddToIndexProps
<1>3. /\ ephemeral_records' = PrunedIndex(idx)
      /\ prefixed_records' = [t \in Slots |->
           IF KeyOf(t) \in PrunedKeys(idx) THEN NoRecord ELSE recs[t]]
  BY DEF insert_prefix, prune
<1>4. Bounded(ephemeral_records')
  BY <1>1, <1>3, PruneRestoresBound
<1>5. IsFiniteSet(IndexedBlocks(idx))
  BY <1>1, <1>2, FS_AddElement DEF Bounded
<1> HIDE DEF idx
<1>6. TypeOK'
  <2>1. ephemeral_records' \in [Blocks -> SUBSET Keys]
    BY <1>2, <1>3, <1>5, PrunedIndexProps DEF IndexType
  <2>2. recs \in [Slots -> StorageEntry \cup {NoRecord}]
    BY <1>1 DEF IInv, TypeOK
  <2> QED BY <2>1, <2>2, <1>3 DEF TypeOK
<1>7. NothingLeaks'
  <2>1. SUFFICES ASSUME NEW t \in Slots, Stored(t)'
                 PROVE  \E b \in Blocks : KeyOf(t) \in ephemeral_records'[b]
    BY DEF NothingLeaks, KeyOf
  <2>2. KeyOf(t) \notin PrunedKeys(idx) /\ recs[t] # NoRecord
    BY <1>3, <2>1 DEF Stored
  <2>3. \E b \in Blocks : KeyOf(t) \in idx[b]
    <3>1. CASE t = s
      BY <3>1, <1>1, <1>2
    <3>2. CASE t # s
      <4>1. Stored(t)
        BY <3>2, <2>2 DEF Stored, IInv, TypeOK
      <4> QED BY <4>1, <1>2 DEF IInv, NothingLeaks
    <3> QED BY <3>1, <3>2
  <2> QED BY <1>2, <1>3, <1>5, <2>2, <2>3, PrunedIndexProps
<1> QED BY <1>4, <1>6, <1>7 DEF IInv, IndexBounded, Bounded

(* A record that changes or goes under an unchanged index. *)
LEMMA OverwritePreserves ==
  ASSUME IInv, NEW s \in Slots, NEW r \in StorageEntry \cup {NoRecord}, Stored(s),
         prefixed_records' = [prefixed_records EXCEPT ![s] = r],
         UNCHANGED ephemeral_records
  PROVE  IInv'
<1>1. TypeOK'
  BY DEF IInv, TypeOK
<1>2. IndexBounded'
  BY DEF IInv, IndexBounded
<1>3. \A t \in Slots : Stored(t)' => Stored(t)
  BY DEF IInv, TypeOK, Stored
<1>4. NothingLeaks'
  BY <1>3 DEF IInv, NothingLeaks, KeyOf
<1> QED BY <1>1, <1>2, <1>4 DEF IInv

LEMMA StepPreserves == IInv /\ [Next]_vars => IInv'
<1> SUFFICES ASSUME IInv, [Next]_vars PROVE IInv'
  OBVIOUS
<1>1. ASSUME NEW s \in Slots, NEW e \in Entries, insert_prefix(s, e) PROVE IInv'
  BY <1>1, InsertPreserves
<1>2. ASSUME NEW s \in Slots, NEW e \in Entries, replace_prefixed(s, e) PROVE IInv'
  BY <1>2, EntryFacts, OverwritePreserves DEF replace_prefixed
<1>3. ASSUME NEW k \in Keys, NEW e \in Entries, replace(k, e) PROVE IInv'
  BY <1>3, EntryFacts, OverwritePreserves DEF replace, Matches
<1>4. ASSUME NEW s \in Deletable, delete_prefix(s) PROVE IInv'
  BY <1>4, DeletableAssumption, OverwritePreserves DEF delete_prefix
<1>5. ASSUME NEW k \in Keys, delete(k) PROVE IInv'
  BY <1>5, OverwritePreserves DEF delete, Matches
<1>6. CASE UNCHANGED vars
  BY <1>6 DEF vars, IInv, TypeOK, IndexBounded, NothingLeaks, Stored, KeyOf, IndexedBlocks
<1> QED BY <1>1, <1>2, <1>3, <1>4, <1>5, <1>6 DEF Next

LEMMA InitialState == new => IInv
<1> SUFFICES ASSUME new PROVE IInv
  OBVIOUS
<1>1. TypeOK
  BY DEF new, TypeOK, EmptyIndex
<1>2. IndexedBlocks(ephemeral_records) = {}
  BY DEF new, EmptyIndex, IndexedBlocks
<1>3. IndexBounded
  BY <1>2, FS_EmptySet, MaxBlocksAssumption DEF IndexBounded
<1>4. NothingLeaks
  BY DEF new, NothingLeaks, Stored
<1> QED BY <1>1, <1>3, <1>4 DEF IInv

(* The type invariant of the storage holds in every reachable state. *)
THEOREM TypeCorrect == Spec => []TypeOK
<1>1. IInv => TypeOK
  BY DEF IInv
<1> QED BY <1>1, InitialState, StepPreserves, PTL DEF Spec

(* However out of order blocks arrive, pruning at most one block per insertion
   keeps the index within `max_blocks`. *)
THEOREM IndexStaysBounded == Spec => []IndexBounded
<1>1. IInv => IndexBounded
  BY DEF IInv
<1> QED BY <1>1, InitialState, StepPreserves, PTL DEF Spec

(* No interleaving of insertions, replacements and deletions under any prefixes
   leaves a record that no prune() will ever remove. *)
THEOREM NothingEverLeaks == Spec => []NothingLeaks
<1>1. IInv => NothingLeaks
  BY DEF IInv
<1> QED BY <1>1, InitialState, StepPreserves, PTL DEF Spec
-----------------------------------------------------------------------------
(* Of the slots told apart the index is exact: their key is indexed at one block only,
   and only while the slot holds a record. *)
Exact ==
  \A s \in Apart : \A b \in Blocks : KeyOf(s) \in ephemeral_records[b] =>
    /\ Stored(s)
    /\ \A c \in Blocks : KeyOf(s) \in ephemeral_records[c] => b = c

LEMMA ApartFacts ==
  \A s \in Apart : s \in Slots /\ s \notin Deletable /\ \A t \in Slots : KeyOf(t) = KeyOf(s) => t = s
BY DEF Apart

(* What an insertion does to the index, key by key, and to the records. *)
LEMMA InsertIndex ==
  ASSUME IInv, NEW s \in Slots, NEW e \in Entries, insert_prefix(s, e)
  PROVE  LET idx == AddToIndex(ephemeral_records, e.block_number, KeyOf(s))
             dropped(b) == TooManyBlocks(idx) /\ b = OldestBlock(idx)
         IN /\ e.block_number \in Blocks
            /\ idx \in IndexType
            /\ IsFiniteSet(IndexedBlocks(idx))
            /\ IndexedBlocks(idx) = IndexedBlocks(ephemeral_records) \cup {e.block_number}
            /\ \A c \in Blocks, k \in Keys :
                 k \in idx[c] <=> k \in ephemeral_records[c] \/ (c = e.block_number /\ k = KeyOf(s))
            /\ ephemeral_records' = PrunedIndex(idx)
            /\ TooManyBlocks(idx) => OldestBlock(idx) \in Blocks
            /\ \A b \in Blocks, k \in Keys : k \in ephemeral_records'[b] <=> k \in idx[b] /\ ~dropped(b)
            /\ \A t \in Slots : prefixed_records'[t] =
                 IF KeyOf(t) \in PrunedKeys(idx) THEN NoRecord ELSE IF t = s THEN e ELSE prefixed_records[t]
<1> DEFINE idx == AddToIndex(ephemeral_records, e.block_number, KeyOf(s))
<1>1. /\ e.block_number \in Blocks
      /\ KeyOf(s) \in Keys
      /\ ephemeral_records \in IndexType
      /\ IsFiniteSet(IndexedBlocks(ephemeral_records))
  BY SlotFacts, EntryFacts DEF IInv, TypeOK, IndexBounded, IndexType
<1>2. /\ idx \in IndexType
      /\ IndexedBlocks(idx) = IndexedBlocks(ephemeral_records) \cup {e.block_number}
      /\ \A c \in Blocks : idx[c] = IF c = e.block_number
                                      THEN ephemeral_records[c] \cup {KeyOf(s)}
                                      ELSE ephemeral_records[c]
  BY <1>1, AddToIndexProps
<1>3. ephemeral_records' = PrunedIndex(idx)
  BY DEF insert_prefix, prune
<1>4. \A t \in Slots : prefixed_records'[t] =
        IF KeyOf(t) \in PrunedKeys(idx) THEN NoRecord ELSE IF t = s THEN e ELSE prefixed_records[t]
  <2>1. \A t \in Slots : prefixed_records'[t] =
          IF KeyOf(t) \in PrunedKeys(idx) THEN NoRecord ELSE [prefixed_records EXCEPT ![s] = e][t]
    BY DEF insert_prefix, prune
  <2>2. \A t \in Slots : [prefixed_records EXCEPT ![s] = e][t] = IF t = s THEN e ELSE prefixed_records[t]
    BY DEF IInv, TypeOK
  <2> HIDE DEF idx
  <2> QED BY <2>1, <2>2
<1>5. IsFiniteSet(IndexedBlocks(idx))
  BY <1>1, <1>2, FS_AddElement
<1> HIDE DEF idx
<1>6. TooManyBlocks(idx) => OldestBlock(idx) \in Blocks
  BY <1>2, <1>5, OverfullNotEmpty, OldestBlockIsLowest DEF IndexedBlocks
<1>7. \A b \in Blocks, k \in Keys :
        k \in ephemeral_records'[b] <=> k \in idx[b] /\ ~(TooManyBlocks(idx) /\ b = OldestBlock(idx))
  BY <1>2, <1>3, <1>6 DEF PrunedIndex, IndexType
<1>8. ASSUME NEW c \in Blocks, NEW k \in Keys
      PROVE  k \in idx[c] <=> k \in ephemeral_records[c] \/ (c = e.block_number /\ k = KeyOf(s))
  <2>1. idx[c] = IF c = e.block_number THEN ephemeral_records[c] \cup {KeyOf(s)}
                                       ELSE ephemeral_records[c]
    BY <1>2
  <2> QED BY <2>1
<1> QED BY <1>1, <1>2, <1>3, <1>4, <1>5, <1>6, <1>7, <1>8 DEF idx

LEMMA InsertKeepsExact ==
  ASSUME IInv, Exact, NEW s \in Slots, NEW e \in Entries, insert_prefix(s, e)
  PROVE  Exact'
<1> DEFINE idx == AddToIndex(ephemeral_records, e.block_number, KeyOf(s))
           last(b) == TooManyBlocks(idx) /\ b = OldestBlock(idx)
<1>1. /\ e.block_number \in Blocks
      /\ \A c \in Blocks, k \in Keys :
           k \in idx[c] <=> k \in ephemeral_records[c] \/ (c = e.block_number /\ k = KeyOf(s))
      /\ TooManyBlocks(idx) => OldestBlock(idx) \in Blocks
      /\ \A b \in Blocks, k \in Keys : k \in ephemeral_records'[b] <=> k \in idx[b] /\ ~last(b)
      /\ \A t \in Slots : prefixed_records'[t] =
           IF KeyOf(t) \in PrunedKeys(idx) THEN NoRecord ELSE IF t = s THEN e ELSE prefixed_records[t]
  BY InsertIndex
<1> HIDE DEF idx
<1>2. ASSUME NEW t \in Apart, NEW b \in Blocks, KeyOf(t) \in ephemeral_records'[b]
      PROVE  Stored(t)' /\ \A c \in Blocks : KeyOf(t) \in ephemeral_records'[c] => b = c
  <2>1. t \in Slots /\ KeyOf(t) \in Keys /\ (KeyOf(s) = KeyOf(t) => s = t)
    BY ApartFacts, SlotFacts
  <2>2. KeyOf(t) \in idx[b] /\ ~last(b)
    BY <1>1, <1>2, <2>1
  <2>3. \A c \in Blocks : KeyOf(t) \in idx[c] => b = c
    <3>1. CASE t = s
      <4>1. \A c \in Blocks : KeyOf(t) \notin ephemeral_records[c]
        BY <3>1 DEF Exact, insert_prefix
      <4> QED BY <4>1, <2>1, <2>2, <1>1
    <3>2. CASE t # s
      <4>1. KeyOf(s) # KeyOf(t)
        BY <3>2, <2>1
      <4>2. \A c \in Blocks : KeyOf(t) \in idx[c] <=> KeyOf(t) \in ephemeral_records[c]
        BY <4>1, <2>1, <1>1
      <4> QED BY <4>2, <2>2 DEF Exact
    <3> QED BY <3>1, <3>2
  <2>4. KeyOf(t) \notin PrunedKeys(idx)
    BY <1>1, <2>2, <2>3 DEF PrunedKeys
  <2>5. Stored(t)'
    <3>1. CASE t = s
      BY <3>1, <2>1, <2>4, <1>1, EntryFacts, NoRecordAssumption DEF Stored
    <3>2. CASE t # s
      <4>1. KeyOf(s) # KeyOf(t)
        BY <3>2, <2>1
      <4>2. Stored(t)
        BY <4>1, <2>1, <2>2, <1>1 DEF Exact
      <4> QED BY <3>2, <4>2, <2>1, <2>4, <1>1 DEF Stored
    <3> QED BY <3>1, <3>2
  <2>6. \A c \in Blocks : KeyOf(t) \in ephemeral_records'[c] => b = c
    BY <2>1, <2>3, <1>1
  <2> QED BY <2>5, <2>6
<1> QED BY <1>2 DEF Exact, KeyOf

(* The block the refinement mapping chooses is the one the key is under. *)
LEMMA InsertedAtIsUnique ==
  ASSUME Exact, NEW s \in Apart, Stored(s), NEW b \in Blocks,
         KeyOf(s) \in ephemeral_records[b]
  PROVE  InsertedAt(s) = b
<1>1. \A c \in Blocks : KeyOf(s) \in ephemeral_records[c] => c = b
  BY DEF Exact
<1> QED BY <1>1 DEF InsertedAt

(* An insertion makes the window of blocks move. *)
LEMMA InsertMovesWindow ==
  ASSUME IInv, NEW s \in Slots, NEW e \in Entries, insert_prefix(s, e)
  PROVE  IndexedBlocks(ephemeral_records') =
           Window!Newest(IndexedBlocks(ephemeral_records) \cup {e.block_number})
<1> DEFINE idx == AddToIndex(ephemeral_records, e.block_number, KeyOf(s))
           win == IndexedBlocks(ephemeral_records)
           bn == e.block_number
<1>1. /\ idx \in IndexType
      /\ IsFiniteSet(IndexedBlocks(idx))
      /\ IndexedBlocks(idx) = win \cup {bn}
      /\ ephemeral_records' = PrunedIndex(idx)
  BY InsertIndex
<1>2. IndexedBlocks(PrunedIndex(idx)) =
        IF TooManyBlocks(idx) THEN IndexedBlocks(idx) \ {OldestBlock(idx)}
                              ELSE IndexedBlocks(idx)
  BY <1>1, PrunedIndexProps
<1>3. OldestBlock(idx) = Window!Lowest(win \cup {bn})
  BY <1>1 DEF OldestBlock, Window!Lowest
<1>4. Window!Cardinality(win \cup {bn}) = Cardinality(win \cup {bn})
  BY Zenon DEF Window!Cardinality, Cardinality
<1> HIDE DEF idx, win, bn
<1>5. IndexedBlocks(ephemeral_records') = Window!Newest(win \cup {bn})
  BY <1>1, <1>2, <1>3, <1>4 DEF TooManyBlocks, Window!Newest
<1> QED BY <1>5 DEF win, bn

(* The insertion block of a record told apart, after an insertion: that of the
   insertion if it is its own, or the one before, while the window has it. *)
LEMMA InsertedAtAfter ==
  ASSUME IInv, Exact, NEW s \in Slots, NEW e \in Entries, insert_prefix(s, e),
         NEW t \in Apart, NEW at, at = IF t = s THEN e.block_number ELSE InsertedAt(t)
  PROVE  InsertedAt(t)' = IF at \in IndexedBlocks(ephemeral_records') THEN at ELSE NoRecord
<1> DEFINE idx == AddToIndex(ephemeral_records, e.block_number, KeyOf(s))
<1>1. /\ e.block_number \in Blocks
      /\ idx \in IndexType
      /\ IsFiniteSet(IndexedBlocks(idx))
      /\ \A c \in Blocks, k \in Keys :
           k \in idx[c] <=> k \in ephemeral_records[c] \/ (c = e.block_number /\ k = KeyOf(s))
      /\ ephemeral_records' = PrunedIndex(idx)
      /\ \A b \in Blocks, k \in Keys :
           k \in ephemeral_records'[b] <=> k \in idx[b] /\ ~(TooManyBlocks(idx) /\ b = OldestBlock(idx))
      /\ \A u \in Slots : prefixed_records'[u] =
           IF KeyOf(u) \in PrunedKeys(idx) THEN NoRecord ELSE IF u = s THEN e ELSE prefixed_records[u]
  BY InsertIndex
<1>2. Exact'
  BY InsertKeepsExact
<1>3. t \in Slots /\ KeyOf(t) \in Keys /\ (KeyOf(s) = KeyOf(t) => s = t)
  BY ApartFacts, SlotFacts
<1> HIDE DEF idx
<1>4. CASE t # s /\ ~Stored(t)
  <2>1. at = NoRecord
    BY <1>4 DEF InsertedAt
  <2>2. ~Stored(t)'
    BY <1>4, <1>1, <1>3 DEF Stored
  <2> QED BY <2>1, <2>2 DEF InsertedAt
<1>5. CASE t = s \/ Stored(t)
  <2>1. at \in Blocks /\ KeyOf(t) \in idx[at]
    <3>1. CASE t = s
      BY <3>1, <1>1, <1>3
    <3>2. CASE t # s
      <4>1. PICK b \in Blocks : KeyOf(t) \in ephemeral_records[b]
        BY <1>5, <3>2, <1>3 DEF IInv, NothingLeaks
      <4>2. at = b
        BY <1>5, <3>2, <4>1, InsertedAtIsUnique
      <4> QED BY <4>1, <4>2, <1>1, <1>3
    <3> QED BY <3>1, <3>2
  <2>2. \A c \in Blocks : KeyOf(t) \in idx[c] => c = at
    <3>1. CASE t = s
      <4>1. \A c \in Blocks : KeyOf(t) \notin ephemeral_records[c]
        BY <3>1 DEF Exact, insert_prefix
      <4> QED BY <3>1, <4>1, <1>1, <1>3
    <3>2. CASE t # s
      <4>1. \A c \in Blocks : KeyOf(t) \in idx[c] <=> KeyOf(t) \in ephemeral_records[c]
        BY <3>2, <1>1, <1>3
      <4> QED BY <4>1, <2>1 DEF Exact
    <3> QED BY <3>1, <3>2
  <2>3. CASE TooManyBlocks(idx) /\ at = OldestBlock(idx)
    <3>1. ~Stored(t)'
      BY <2>1, <2>3, <1>1, <1>3 DEF Stored, PrunedKeys
    <3>2. at \notin IndexedBlocks(ephemeral_records')
      BY <2>3, <1>1, PrunedIndexProps
    <3> QED BY <3>1, <3>2 DEF InsertedAt
  <2>4. CASE ~(TooManyBlocks(idx) /\ at = OldestBlock(idx))
    <3>1. KeyOf(t) \in ephemeral_records'[at]
      BY <2>1, <2>4, <1>1, <1>3
    <3>2. Stored(t)'
      BY <2>1, <3>1, <1>2 DEF Exact, KeyOf
    <3>3. \A c \in Blocks : KeyOf(t) \in ephemeral_records'[c] => c = at
      BY <2>2, <1>1, <1>3
    <3>4. (CHOOSE b \in Blocks : KeyOf(t) \in ephemeral_records'[b]) = at
      BY <2>1, <3>1, <3>3
    <3>5. InsertedAt(t)' = at
      BY <3>2, <3>4 DEF InsertedAt, KeyOf
    <3>6. at \in IndexedBlocks(ephemeral_records')
      BY <2>1, <3>1 DEF IndexedBlocks
    <3> QED BY <3>5, <3>6
  <2> QED BY <2>3, <2>4
<1> QED BY <1>4, <1>5

(* An insertion is a step of the windowed store, into one of its slots or elsewhere. *)
LEMMA InsertIsStep ==
  ASSUME IInv, Exact, NEW s \in Slots, NEW e \in Entries, insert_prefix(s, e)
  PROVE  Window!Next
<1> DEFINE bn == e.block_number
           live == [t \in Apart |-> InsertedAt(t)]
           at == IF s \in Apart THEN [live EXCEPT ![s] = bn] ELSE live
           win == IndexedBlocks(ephemeral_records')
<1>1. bn \in Blocks
  BY EntryFacts
<1>2. \A t \in Apart : at[t] = IF t = s THEN bn ELSE InsertedAt(t)
  OBVIOUS
<1>3. ASSUME NEW t \in Apart
      PROVE  InsertedAt(t)' = IF at[t] \in win THEN at[t] ELSE NoRecord
  <2> HIDE DEF at, win
  <2>1. InsertedAt(t)' = IF at[t] \in IndexedBlocks(ephemeral_records') THEN at[t] ELSE NoRecord
    BY <1>2, InsertedAtAfter
  <2> QED BY <2>1 DEF win
<1>4. Apart' = Apart
  BY DEF Apart, KeyOf
<1>5. live' = [t \in Apart |-> IF at[t] \in win THEN at[t] ELSE NoRecord]
  <2> HIDE DEF at, win
  <2>1. live' = [t \in Apart |-> InsertedAt(t)']
    BY <1>4
  <2> QED BY <2>1, <1>3
<1>6. win = Window!Newest(IndexedBlocks(ephemeral_records) \cup {bn})
  BY InsertMovesWindow
<1>7. Window!Enter(bn, at)
  <2> HIDE DEF at, bn
  <2> QED BY <1>5, <1>6 DEF Window!Enter
<1>8. CASE s \in Apart
  <2>1. live[s] = NoRecord
    BY <1>8 DEF InsertedAt, insert_prefix
  <2>2. Window!Store(s, bn)
    <3> HIDE DEF bn
    <3> QED BY <1>7, <1>8, <2>1 DEF Window!Store
  <2> QED BY <1>1, <1>8, <2>2 DEF Window!Next
<1>9. CASE s \notin Apart
  <2>1. Window!StoreElsewhere(bn)
    <3> HIDE DEF bn
    <3> QED BY <1>7, <1>9 DEF Window!StoreElsewhere
  <2> QED BY <1>1, <2>1 DEF Window!Next
<1> QED BY <1>8, <1>9

(* Overwriting a record leaves the window as it is, and so does the deletion of one
   that may be deleted. *)
LEMMA OverwriteIsStutter ==
  ASSUME IInv, Exact, NEW s \in Slots, NEW r \in StorageEntry \cup {NoRecord}, Stored(s),
         r = NoRecord => s \in Deletable,
         prefixed_records' = [prefixed_records EXCEPT ![s] = r],
         UNCHANGED ephemeral_records
  PROVE  Exact' /\ UNCHANGED Window!vars
<1>1. \A t \in Apart : Stored(t)' <=> Stored(t)
  BY ApartFacts DEF Stored, IInv, TypeOK
<1>2. Exact'
  BY <1>1 DEF Exact, KeyOf
<1>3. \A t \in Apart : InsertedAt(t)' = InsertedAt(t)
  BY <1>1 DEF InsertedAt, KeyOf
<1> QED BY <1>2, <1>3 DEF Window!vars, IndexedBlocks

(* The storage implements the windowed store: whatever goes on under shared or deleted
   keys, every record with a key of its own expires with its own insertion block. *)
THEOREM StorageImplementsWindow == Spec => ImplementsWindow
<1> DEFINE WInv == IInv /\ Exact
<1>1. new => WInv /\ Window!Init
  <2> SUFFICES ASSUME new PROVE WInv /\ Window!Init
    OBVIOUS
  <2>1. \A b \in Blocks : ephemeral_records[b] = {}
    BY DEF new, EmptyIndex
  <2>2. \A t \in Apart : InsertedAt(t) = NoRecord
    BY ApartFacts DEF new, InsertedAt, Stored
  <2>3. Exact
    BY <2>1 DEF Exact
  <2>4. IndexedBlocks(ephemeral_records) = {}
    BY <2>1 DEF IndexedBlocks
  <2> QED BY <2>2, <2>3, <2>4, InitialState DEF Window!Init
<1>2. WInv /\ [Next]_vars => WInv' /\ [Window!Next]_(Window!vars)
  <2> SUFFICES ASSUME WInv, [Next]_vars PROVE Exact' /\ [Window!Next]_(Window!vars)
    BY StepPreserves
  <2>1. ASSUME NEW s \in Slots, NEW e \in Entries, insert_prefix(s, e)
        PROVE  Exact' /\ [Window!Next]_(Window!vars)
    BY <2>1, InsertKeepsExact, InsertIsStep
  <2>2. ASSUME NEW s \in Slots, NEW e \in Entries, replace_prefixed(s, e)
        PROVE  Exact' /\ [Window!Next]_(Window!vars)
    BY <2>2, EntryFacts, NoRecordAssumption, OverwriteIsStutter DEF replace_prefixed
  <2>3. ASSUME NEW k \in Keys, NEW e \in Entries, replace(k, e)
        PROVE  Exact' /\ [Window!Next]_(Window!vars)
    BY <2>3, EntryFacts, NoRecordAssumption, OverwriteIsStutter DEF replace, Matches
  <2>4. ASSUME NEW s \in Deletable, delete_prefix(s)
        PROVE  Exact' /\ [Window!Next]_(Window!vars)
    BY <2>4, DeletableAssumption, OverwriteIsStutter DEF delete_prefix
  <2>5. ASSUME NEW k \in Keys, delete(k)
        PROVE  Exact' /\ [Window!Next]_(Window!vars)
    BY <2>5, OverwriteIsStutter DEF delete, Matches
  <2>6. CASE UNCHANGED vars
    <3>1. Exact'
      BY <2>6 DEF vars, Exact, Stored, KeyOf
    <3>2. UNCHANGED Window!vars
      BY <2>6 DEF Window!vars, vars, InsertedAt, Stored, KeyOf, IndexedBlocks
    <3> QED BY <3>1, <3>2
  <2> QED BY <2>1, <2>2, <2>3, <2>4, <2>5, <2>6 DEF Next
<1> HIDE DEF WInv
<1> QED BY <1>1, <1>2, PTL DEF Spec, ImplementsWindow, Window!Spec
=============================================================================
