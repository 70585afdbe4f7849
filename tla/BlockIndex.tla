----------------------------- MODULE BlockIndex -----------------------------
(***************************************************************************)
(* The expiry index that both record storages of essentials/src/storage.rs *)
(* keep in `ephemeral_records: BTreeMap<BlockNumber, HashSet<K>>`: the     *)
(* keys recorded at each block.  The map never holds an empty HashSet (a   *)
(* block is created by the insertion of its first key and dropped whole),  *)
(* so the index is a total function from blocks to sets of keys in which   *)
(* {} stands for "no such block".                                          *)
(***************************************************************************)
EXTENDS Integers, FiniteSets

CONSTANTS Keys,      \* the keys of records (hashes)
          Blocks,    \* the block numbers a record may carry
          MaxBlocks  \* RecordsStorageConfig::max_blocks

ASSUME BlocksAssumption == Blocks \subseteq Nat

ASSUME MaxBlocksAssumption == MaxBlocks \in Nat

RecordType == {"Onchain", "Offchain", "Persistent"}

(* StorageEntry; the encoded payload is opaque to the storage. *)
StorageEntry == [record_type : RecordType, block_number : Blocks]

EmptyIndex == [b \in Blocks |-> {}]

(* The keys of the BTreeMap. *)
IndexedBlocks(idx) == {b \in Blocks : idx[b] # {}}

(* `ephemeral_records.entry(block_number).or_default().insert(key)` *)
AddToIndex(idx, b, k) == [idx EXCEPT ![b] = @ \cup {k}]

(* The first entry of the BTreeMap: the lowest block number, which need not be
   the block that was inserted first. *)
OldestBlock(idx) ==
  CHOOSE b \in IndexedBlocks(idx) : \A c \in IndexedBlocks(idx) : b <= c

(* A wrong condition, off by one. *)
MaxBlocksReached(idx) == Cardinality(IndexedBlocks(idx)) >= MaxBlocks

(* The condition under which prune() removes something. *)
TooManyBlocks(idx) == Cardinality(IndexedBlocks(idx)) > MaxBlocks

(* The keys whose records prune() removes. *)
PrunedKeys(idx) == IF TooManyBlocks(idx) THEN idx[OldestBlock(idx)] ELSE {}

(* The index prune() leaves: at most one block is dropped per call. *)
PrunedIndex(idx) ==
  IF TooManyBlocks(idx) THEN [idx EXCEPT ![OldestBlock(idx)] = {}] ELSE idx
=============================================================================
