---------------------------- MODULE PlainStorage ----------------------------
(***************************************************************************)
(* HashedPlainRecordsStorage of essentials/src/storage.rs: records         *)
(* addressed by a key, expiring by block, with persistent records kept out *)
(* of the expiry index.  (`last_block` is written and never read.)         *)
(***************************************************************************)
EXTENDS BlockIndex

CONSTANTS TypesOf,   \* the record types the callers write under each key
          NoRecord   \* marks a key that has no record

ASSUME TypesOfAssumption == TypesOf \in [Keys -> SUBSET RecordType]

ASSUME NoRecordAssumption == NoRecord \notin StorageEntry

VARIABLES direct_records,    \* the record of every key, or NoRecord
          ephemeral_records  \* the expiry index

vars == <<direct_records, ephemeral_records>>

Stored(k) == direct_records[k] # NoRecord

Entries(k) == {e \in StorageEntry : e.record_type \in TypesOf[k]}

Persistent(k) == Stored(k) /\ direct_records[k].record_type = "Persistent"
-----------------------------------------------------------------------------
new ==
  /\ direct_records = [k \in Keys |-> NoRecord]
  /\ ephemeral_records = EmptyIndex

(* A wrong prune() that never removes anything. *)
prune_never(recs, idx) ==
  /\ ephemeral_records' = idx
  /\ direct_records' = recs

prune(recs, idx) ==
  /\ ephemeral_records' = PrunedIndex(idx)
  /\ direct_records' =
       [k \in Keys |-> IF k \in PrunedKeys(idx) THEN NoRecord ELSE recs[k]]

(* A wrong insertion that, like the prefixed storage, indexes persistent records. *)
insert_indexed(k, e) ==
  /\ ~Stored(k)
  /\ prune([direct_records EXCEPT ![k] = e],
           AddToIndex(ephemeral_records, e.block_number, k))

(* A wrong insertion that indexes on-chain records only. *)
insert_onchain(k, e) ==
  /\ ~Stored(k)
  /\ prune([direct_records EXCEPT ![k] = e],
           IF e.record_type = "Onchain"
             THEN AddToIndex(ephemeral_records, e.block_number, k)
             ELSE ephemeral_records)

(* A wrong insertion that indexes the record and not the key. *)
insert_record(k, e) ==
  /\ ~Stored(k)
  /\ direct_records' = [direct_records EXCEPT ![k] = e]
  /\ ephemeral_records' = AddToIndex(ephemeral_records, e.block_number, e)

(* A duplicate is refused and changes nothing. *)
insert(k, e) ==
  /\ ~Stored(k)
  /\ prune([direct_records EXCEPT ![k] = e],
           IF e.record_type = "Persistent"
             THEN ephemeral_records
             ELSE AddToIndex(ephemeral_records, e.block_number, k))

(* The index keeps the block of the insertion, and the type it was made for. *)
replace(k, e) ==
  /\ Stored(k)
  /\ direct_records' = [direct_records EXCEPT ![k] = e]
  /\ UNCHANGED ephemeral_records

(* The key stays in the index. *)
delete(k) ==
  /\ Stored(k)
  /\ direct_records' = [direct_records EXCEPT ![k] = NoRecord]
  /\ UNCHANGED ephemeral_records

Next ==
  \E k \in Keys :
    \/ \E e \in Entries(k) : insert(k, e)
    \/ \E e \in Entries(k) : replace(k, e)
    \/ delete(k)

Spec == new /\ [][Next]_vars
-----------------------------------------------------------------------------
TypeOK ==
  /\ direct_records \in [Keys -> StorageEntry \cup {NoRecord}]
  /\ ephemeral_records \in [Blocks -> SUBSET Keys]

(* The index never holds more than `max_blocks` blocks. *)
IndexBounded ==
  /\ IsFiniteSet(IndexedBlocks(ephemeral_records))
  /\ Cardinality(IndexedBlocks(ephemeral_records)) <= MaxBlocks

(* Every record that is meant to expire can be reached by a later prune().  (For
   callers that keep persistent records under keys of their own.) *)
NothingLeaks ==
  \A k \in Keys : Stored(k) /\ ~Persistent(k) =>
    \E b \in Blocks : k \in ephemeral_records[b]

(* What the comment of RecordType::Persistent promises ("not pruned
   automatically"): a persistent record leaves the storage only by a delete of
   its key.  (For the same callers.) *)
PersistentNotPruned ==
  [][\A k \in Keys : Persistent(k) => Stored(k)' \/ delete(k)]_vars
=============================================================================
