-------------------------- MODULE PrefixedStorage --------------------------
(***************************************************************************)
(* HashedPrefixedRecordsStorage of essentials/src/storage.rs, the storage  *)
(* behind the collector: records addressed by a prefix and a key, expiring *)
(* by block through an index of keys only.                                 *)
(*                                                                         *)
(* `last_block` is left out: it is written and never read.  The prefix     *)
(* maps themselves (created on first use, never removed) carry no          *)
(* information beyond the records they hold.                               *)
(***************************************************************************)
EXTENDS BlockIndex

CONSTANTS Prefixes,   \* the prefixes records are grouped by
          Slots,      \* the (prefix, key) pairs the callers use
          Deletable,  \* the slots the callers delete
          UsedTypes,  \* the record types the callers write
          NoRecord    \* marks a slot that holds nothing

ASSUME SlotsAssumption == Slots \subseteq Prefixes \X Keys

ASSUME DeletableAssumption == Deletable \subseteq Slots

ASSUME UsedTypesAssumption == UsedTypes \subseteq RecordType

ASSUME NoRecordAssumption == NoRecord \notin StorageEntry

VARIABLES prefixed_records,  \* the record of every slot, or NoRecord
          ephemeral_records  \* the expiry index

vars == <<prefixed_records, ephemeral_records>>

KeyOf(s) == s[2]

(* The entries callers may write. *)
Entries == {e \in StorageEntry : e.record_type \in UsedTypes}

Stored(s) == prefixed_records[s] # NoRecord

(* The slots an unprefixed lookup of `k` may end at: the prefix maps are
   scanned in HashMap order, and the first hit is taken. *)
Matches(k) == {s \in Slots : KeyOf(s) = k /\ Stored(s)}
-----------------------------------------------------------------------------
new ==
  /\ prefixed_records = [s \in Slots |-> NoRecord]
  /\ ephemeral_records = EmptyIndex

(* A wrong prune() that never removes anything. *)
prune_never(recs, idx) ==
  /\ ephemeral_records' = idx
  /\ prefixed_records' = recs

(* The prune at the end of an insertion: keys that leave the index are removed
   from the maps of all prefixes. *)
prune(recs, idx) ==
  /\ ephemeral_records' = PrunedIndex(idx)
  /\ prefixed_records' =
       [s \in Slots |-> IF KeyOf(s) \in PrunedKeys(idx) THEN NoRecord ELSE recs[s]]

(* A wrong insertion that, like the plain storage, does not index persistent
   records. *)
insert_prefix_plain(s, e) ==
  /\ ~Stored(s)
  /\ prune([prefixed_records EXCEPT ![s] = e],
           IF e.record_type = "Persistent" THEN ephemeral_records
           ELSE AddToIndex(ephemeral_records, e.block_number, KeyOf(s)))

(* Insertion into a free slot.  A duplicate is refused and changes nothing;
   persistent records are indexed like all others. *)
insert_prefix(s, e) ==
  /\ ~Stored(s)
  /\ prune([prefixed_records EXCEPT ![s] = e],
           AddToIndex(ephemeral_records, e.block_number, KeyOf(s)))

(* A wrong replacement that indexes the new entry as well. *)
replace_prefixed_indexed(s, e) ==
  /\ Stored(s)
  /\ prefixed_records' = [prefixed_records EXCEPT ![s] = e]
  /\ ephemeral_records' = AddToIndex(ephemeral_records, e.block_number, KeyOf(s))

(* The new entry takes the old one's place; the index keeps the block of the
   insertion. *)
replace_prefixed(s, e) ==
  /\ Stored(s)
  /\ prefixed_records' = [prefixed_records EXCEPT ![s] = e]
  /\ UNCHANGED ephemeral_records

replace(k, e) ==
  \E s \in Matches(k) :
    /\ prefixed_records' = [prefixed_records EXCEPT ![s] = e]
    /\ UNCHANGED ephemeral_records

(* The record goes; its key stays in the index. *)
delete_prefix(s) ==
  /\ Stored(s)
  /\ prefixed_records' = [prefixed_records EXCEPT ![s] = NoRecord]
  /\ UNCHANGED ephemeral_records

delete(k) ==
  \E s \in Matches(k) :
    /\ s \in Deletable
    /\ prefixed_records' = [prefixed_records EXCEPT ![s] = NoRecord]
    /\ UNCHANGED ephemeral_records

Next ==
  \/ \E s \in Slots, e \in Entries : insert_prefix(s, e)
  \/ \E s \in Slots, e \in Entries : replace_prefixed(s, e)
  \/ \E k \in Keys, e \in Entries : replace(k, e)
  \/ \E s \in Deletable : delete_prefix(s)
  \/ \E k \in Keys : delete(k)

Spec == new /\ [][Next]_vars
-----------------------------------------------------------------------------
(* Records are entries, and the index holds keys. *)
TypeOK ==
  /\ prefixed_records \in [Slots -> StorageEntry \cup {NoRecord}]
  /\ ephemeral_records \in [Blocks -> SUBSET Keys]

(* Whatever order blocks arrive in, the single block that one prune() drops is
   enough: the index never holds more than `max_blocks` blocks. *)
IndexBounded ==
  /\ IsFiniteSet(IndexedBlocks(ephemeral_records))
  /\ Cardinality(IndexedBlocks(ephemeral_records)) <= MaxBlocks

(* Nothing leaks: every stored record can still be reached by a later prune(),
   whichever prefix it is under and whatever was replaced or deleted before. *)
NothingLeaks ==
  \A s \in Slots : Stored(s) =>
    \E b \in Blocks : KeyOf(s) \in ephemeral_records[b]

-----------------------------------------------------------------------------
(* The slots whose records the index tells apart from all others: their key is used
   under one prefix, and they are not deleted. *)
Apart == {s \in Slots \ Deletable : \A t \in Slots : KeyOf(t) = KeyOf(s) => t = s}

(* The block a stored record was inserted at, as the index has it. *)
InsertedAt(s) ==
  IF Stored(s)
    THEN CHOOSE b \in Blocks : KeyOf(s) \in ephemeral_records[b]
    ELSE NoRecord

Window == INSTANCE WindowedStore
            WITH Slots <- Apart,
                 window <- IndexedBlocks(ephemeral_records),
                 live <- [s \in Apart |-> InsertedAt(s)],
                 Nowhere <- NoRecord

(* The storage is a window over the `max_blocks` highest blocks.  Whatever goes on
   under keys that are shared or deleted, every record with a key of its own,
   persistent or not, expires with the block it was inserted at and not before,
   whatever replaces it. *)
ImplementsWindow == Window!Spec
=============================================================================
