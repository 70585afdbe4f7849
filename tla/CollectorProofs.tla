--------------------------- MODULE CollectorProofs ---------------------------
(***************************************************************************)
(* Theorems on the collector, for every relay chain, any candidates and    *)
(* any capacities.  In three layers, each an inductive invariant on top of *)
(* the one before: the types and the order of the reports, for both ways   *)
(* to follow the chain; that the state keeps in step with finality, and    *)
(* the reports with the events, when finalized heads are followed; and     *)
(* that the storage still has what the tracker is going to read, when it   *)
(* keeps enough blocks for the updates that can be on their way.           *)
(***************************************************************************)
EXTENDS Collector, BlockIndexProofs

Kinds == {"Backed", "Included", "TimedOut", "DisputeInitiated", "DisputeConcluded"}

AnyRecord == {Plain, Absent} \cup CandidateRecords \cup DisputeInfos(Candidates)

(* The storage between two operations. *)
StorageOK(st) ==
  /\ st \in [rec : [Slots -> AnyRecord], idx : IndexType]
  /\ Bounded(st.idx)
  /\ \A c \in Candidates :
       /\ st.rec[<<"Candidate", c>>] \in CandidateRecords \cup {Absent}
       /\ st.rec[<<"Dispute", c>>] \in DisputeInfos({c}) \cup {Absent}

CollectorState ==
  [number : Blocks, hashes : Seq(Heads), backed : Seq(Candidates), included : Seq(Candidates),
   timed_out : Seq(Candidates), disputes : Seq(DisputeInfos(Candidates)), session : Nat, finalized : Blocks]

TaskTypes ==
  /\ processing \in Heads \cup {Absent}
  /\ stage \in Stages
  /\ stage = "idle" <=> processing = Absent
  /\ channel \in Seq(Updates) /\ Len(channel) <= Capacity
  /\ tracker \in [number : Blocks, hashes : Seq(Heads), found : BOOLEAN, panicked : BOOLEAN]

ChainEvents == Kinds \X Candidates \X Heads

ChainTypes ==
  /\ chain.events \subseteq ChainEvents
  /\ chain.finalized \in Heads \cup {Absent}
  /\ chain.replay = Absent \/ chain.replay \subseteq ChainEvents
  /\ chain = [events |-> chain.events, finalized |-> chain.finalized, best |-> chain.best,
              announced |-> chain.announced, repeats |-> chain.repeats, replay |-> chain.replay]
  /\ ghost = [noted |-> ghost.noted, told |-> ghost.told, skipped |-> ghost.skipped]

TypeInv == StorageOK(storage) /\ state \in CollectorState /\ TaskTypes /\ ChainTypes

(* The numbers of the blocks grow from the tracker over the channel to the state. *)
OrderInv ==
  /\ stage = "updating" => state.number < NumberOf[processing]
  /\ \A k \in 1..Len(state.hashes) : NumberOf[state.hashes[k]] = state.number
  /\ state.hashes = <<>> => state.number = 0
  /\ \A k \in 1..Len(tracker.hashes) : NumberOf[tracker.hashes[k]] = tracker.number
  /\ tracker.number <= state.number /\ (state.hashes # <<>> => tracker.number < state.number)
  /\ \A i \in 1..Len(channel) : channel[i].hashes = <<>> => channel[i].number = 0
  /\ ReportsInOrder

(* When finalized heads are followed, every one of them is the next block. *)
InStep ==
  /\ chain.replay = Absent
  /\ processing # Absent => processing = chain.finalized
  /\ FinalizedNumber = state.number + IF stage = "updating" THEN 1 ELSE 0
  /\ chain.finalized # Absent => FinalizedNumber >= 1
  /\ \A x \in chain.events :
       chain.finalized # Absent /\ x[3] \in AncestorsOf[chain.finalized] \cup {chain.finalized}
  /\ chain.announced \subseteq {h \in Heads : NumberOf[h] <= FinalizedNumber}

FinalInv == InStep /\ ReportsFaithful

(* The options with which the storage keeps a block until the tracker has read it:
   the updates in the channel, the block the tracker has, the one being collected and
   the best heads ahead of it fit in. *)
KeepsEnough == MaxLead >= 1 /\ MaxBlocks >= Capacity + 2 + MaxLead

BackedBefore(c) == \E g \in Heads : <<"Backed", c, g>> \in chain.events

(* A storage that belongs to a collector at block n, which has seen the backing of the
   candidates cs: a head is only indexed at its own number, a candidate only after it was
   backed, and no header is stored ahead of its block. *)
IndexInv(st, n, cs) ==
  /\ \A b \in IndexedBlocks(st.idx) : b <= n + MaxLead
  /\ \A h \in Heads, b \in Blocks : h \in st.idx[b] => b = NumberOf[h]
  /\ \A c \in Candidates :
       Holds(st, "CandidatesParachains", c) \/ (\E b \in Blocks : c \in st.idx[b]) => c \in cs
  /\ \A g \in Heads : Holds(st, "RelayBlockHeader", g) => NumberOf[g] <= n
  /\ \A c \in Candidates :
       /\ Holds(st, "Candidate", c) => Holds(st, "CandidatesParachains", c)
       /\ Holds(st, "Dispute", c) => Holds(st, "Candidate", c)

LagInv ==
  /\ tracker.hashes # <<>> => tracker.number + Len(channel) + 1 >= state.number
  /\ \A i \in 1..Len(channel) :
       channel[i].hashes # <<>> => channel[i].number + Len(channel) - i + 1 >= state.number

Traced ==
  /\ \A k \in 1..Len(tracker.hashes) : Holds(storage, "BlockData", tracker.hashes[k])
  /\ \A i \in 1..Len(channel) : \A k \in 1..Len(channel[i].hashes) :
       Holds(storage, "BlockData", channel[i].hashes[k])
  /\ stage # "announcing" => \A k \in 1..Len(state.hashes) : Holds(storage, "BlockData", state.hashes[k])

StoreInv ==
  /\ IndexInv(storage, state.number, {c \in Candidates : BackedBefore(c)})
  /\ LagInv /\ Traced
  /\ stage = "announcing" => state.hashes = <<processing>>
  /\ EveryBlockTraced

-----------------------------------------------------------------------------
(* The storage. *)
LEMMA KeyFacts ==
  /\ Heads \subseteq Keys /\ Candidates \subseteq Keys
  /\ \A h \in Heads : SessionKey[SessionOf[h]] \in Keys /\ SessionOf[h] \in Sessions /\ SessionOf[h] \in Nat
                      /\ NumberOf[h] \in Blocks
  /\ \A i \in Sessions : SessionKey[i] \in Keys /\ SessionKey[i] \notin Heads \cup Candidates
  /\ Heads \cap Candidates = {}
  /\ Blocks \subseteq Nat /\ 0 \in Blocks
BY KeysAssumption, ChainAssumption, BlocksAssumption DEF Sessions

(* A record has one of the types; what is Absent has none. *)
LEMMA RecordFacts ==
  /\ Absent # Plain /\ Absent \notin CandidateRecords
  /\ \A c \in Candidates : DisputeInfos({c}) \subseteq DisputeInfos(Candidates) /\ Absent \notin DisputeInfos({c})
<1>1. \A c \in Candidates : DisputeInfos({c}) \subseteq DisputeInfos(Candidates)
  BY DEF DisputeInfos
<1> QED BY <1>1, AbsentAssumption

(* The index while a key is added and before the prune. *)
LEMMA AddedFacts ==
  ASSUME NEW st, StorageOK(st), NEW k \in Keys, NEW n \in Blocks
  PROVE  /\ AddToIndex(st.idx, n, k) \in IndexType
         /\ IsFiniteSet(IndexedBlocks(AddToIndex(st.idx, n, k)))
         /\ Bounded(PrunedIndex(AddToIndex(st.idx, n, k)))
         /\ IndexedBlocks(AddToIndex(st.idx, n, k)) = IndexedBlocks(st.idx) \cup {n}
         /\ \A b \in Blocks : AddToIndex(st.idx, n, k)[b] = IF b = n THEN st.idx[b] \cup {k} ELSE st.idx[b]
<1>1. st.idx \in IndexType /\ Bounded(st.idx)
  BY DEF StorageOK
<1>2. IsFiniteSet(IndexedBlocks(st.idx) \cup {n})
  BY <1>1, FS_AddElement DEF Bounded
<1> QED BY <1>1, <1>2, AddToIndexProps, PruneRestoresBound

(* What a write does. *)
LEMMA WrittenEffect ==
  ASSUME NEW st, StorageOK(st), NEW p \in Prefixes, NEW k \in Keys, NEW v, NEW n \in Blocks,
         NEW new, new = Written(st, p, k, v, n), NEW idx, idx = AddToIndex(st.idx, n, k)
  PROVE  /\ \A q \in Prefixes, j \in Keys :
              new.rec[<<q, j>>] = IF j \in PrunedKeys(idx) THEN Absent
                                  ELSE IF q = p /\ j = k THEN v ELSE st.rec[<<q, j>>]
         /\ \A b \in Blocks : new.idx[b] \subseteq IF b = n THEN st.idx[b] \cup {k} ELSE st.idx[b]
         /\ IndexedBlocks(new.idx) \subseteq IndexedBlocks(st.idx) \cup {n}
         /\ v \in AnyRecord => new.rec \in [Slots -> AnyRecord]
         /\ new = [rec |-> new.rec, idx |-> PrunedIndex(idx)]
<1>1. /\ idx \in IndexType /\ IsFiniteSet(IndexedBlocks(idx))
      /\ IndexedBlocks(idx) = IndexedBlocks(st.idx) \cup {n}
      /\ \A b \in Blocks : idx[b] = IF b = n THEN st.idx[b] \cup {k} ELSE st.idx[b]
  BY AddedFacts
<1>2. /\ st.rec \in [Slots -> AnyRecord] /\ \A q \in Prefixes, j \in Keys : <<q, j>> \in Slots
      /\ Absent \in AnyRecord
  BY DEF StorageOK, Slots, AnyRecord
<1>3. /\ \A b \in Blocks : PrunedIndex(idx)[b] \subseteq idx[b]
      /\ IndexedBlocks(PrunedIndex(idx)) \subseteq IndexedBlocks(idx)
  BY <1>1, PruneShrinks, PrunedIndexProps
<1>4. PICK put : put = [st.rec EXCEPT ![<<p, k>>] = v]
  OBVIOUS
<1>5. /\ \A q \in Prefixes, j \in Keys : put[<<q, j>>] = IF q = p /\ j = k THEN v ELSE st.rec[<<q, j>>]
      /\ v \in AnyRecord => put \in [Slots -> AnyRecord]
  BY <1>2, <1>4
<1>6. PICK rec : rec = [s \in Slots |-> IF s[2] \in PrunedKeys(idx) THEN Absent ELSE put[s]]
  OBVIOUS
<1>7. new = [rec |-> rec, idx |-> PrunedIndex(idx)]
  BY <1>4, <1>6 DEF Written, Pruned
<1>8. \A q \in Prefixes, j \in Keys : rec[<<q, j>>] = IF j \in PrunedKeys(idx) THEN Absent ELSE put[<<q, j>>]
  BY <1>2, <1>6
<1>9. v \in AnyRecord => rec \in [Slots -> AnyRecord]
  BY <1>2, <1>5, <1>6
<1>10. new.rec = rec /\ new.idx = PrunedIndex(idx)
  BY <1>7
<1>11. \A b \in Blocks : new.idx[b] \subseteq IF b = n THEN st.idx[b] \cup {k} ELSE st.idx[b]
  BY <1>1, <1>3, <1>10
<1>12. IndexedBlocks(new.idx) \subseteq IndexedBlocks(st.idx) \cup {n}
  BY <1>1, <1>3, <1>10
<1> QED BY <1>5, <1>7, <1>8, <1>9, <1>10, <1>11, <1>12

(* The values that may be written to a slot. *)
Fits(p, k, v) ==
  /\ v \in AnyRecord
  /\ p = "Candidate" /\ k \in Candidates => v \in CandidateRecords
  /\ p = "Dispute" /\ k \in Candidates => v \in DisputeInfos({k})

LEMMA WrittenOK ==
  ASSUME NEW st, StorageOK(st), NEW p \in Prefixes, NEW k \in Keys, NEW v, Fits(p, k, v), NEW n \in Blocks
  PROVE  StorageOK(Written(st, p, k, v, n))
<1>1. PICK idx : idx = AddToIndex(st.idx, n, k)
  OBVIOUS
<1>2. PICK new : new = Written(st, p, k, v, n)
  OBVIOUS
<1>3. idx \in IndexType /\ IsFiniteSet(IndexedBlocks(idx)) /\ Bounded(PrunedIndex(idx))
  BY <1>1, AddedFacts
<1>4. /\ new = [rec |-> new.rec, idx |-> PrunedIndex(idx)] /\ new.rec \in [Slots -> AnyRecord]
      /\ \A q \in Prefixes, j \in Keys :
           new.rec[<<q, j>>] = IF j \in PrunedKeys(idx) THEN Absent
                               ELSE IF q = p /\ j = k THEN v ELSE st.rec[<<q, j>>]
  BY <1>1, <1>2, WrittenEffect DEF Fits
<1>5. PrunedIndex(idx) \in IndexType
  BY <1>3, PrunedIndexProps
<1>6. \A c \in Candidates : c \in Keys /\ "Candidate" \in Prefixes /\ "Dispute" \in Prefixes
  BY KeyFacts DEF Prefixes
<1>7. \A c \in Candidates :
        /\ new.rec[<<"Candidate", c>>] \in CandidateRecords \cup {Absent}
        /\ new.rec[<<"Dispute", c>>] \in DisputeInfos({c}) \cup {Absent}
  BY <1>4, <1>6 DEF StorageOK, Fits
<1>8. new \in [rec : [Slots -> AnyRecord], idx : IndexType] /\ new.idx = PrunedIndex(idx)
  BY <1>4, <1>5
<1> QED BY <1>2, <1>3, <1>7, <1>8 DEF StorageOK

LEMMA ReplacedOK ==
  ASSUME NEW st, StorageOK(st), NEW p \in Prefixes, NEW k \in Keys, NEW v, Holds(st, p, k) => Fits(p, k, v)
  PROVE  /\ StorageOK(Replaced(st, p, k, v))
         /\ Replaced(st, p, k, v).idx = st.idx
         /\ \A q \in Prefixes, j \in Keys : Holds(Replaced(st, p, k, v), q, j) => Holds(st, q, j)
         /\ v # Absent => \A q \in Prefixes, j \in Keys : Holds(Replaced(st, p, k, v), q, j) <=> Holds(st, q, j)
<1>1. CASE ~Holds(st, p, k)
  BY <1>1 DEF Replaced
<1>2. CASE Holds(st, p, k)
  <2>1. PICK new : new = [st EXCEPT !.rec[<<p, k>>] = v]
    OBVIOUS
  <2>2. /\ st \in [rec : [Slots -> AnyRecord], idx : IndexType] /\ v \in AnyRecord
        /\ \A q \in Prefixes, j \in Keys : <<q, j>> \in Slots
    BY <1>2 DEF StorageOK, Fits, Slots
  <2>3. new \in [rec : [Slots -> AnyRecord], idx : IndexType] /\ new.idx = st.idx
        /\ \A q \in Prefixes, j \in Keys : new.rec[<<q, j>>] = IF q = p /\ j = k THEN v ELSE st.rec[<<q, j>>]
    BY <2>1, <2>2
  <2>4. \A c \in Candidates : c \in Keys /\ "Candidate" \in Prefixes /\ "Dispute" \in Prefixes
    BY KeyFacts DEF Prefixes
  <2>5. StorageOK(new)
    BY <1>2, <2>3, <2>4 DEF StorageOK, Fits
  <2>6. Replaced(st, p, k, v) = new
    BY <1>2, <2>1 DEF Replaced
  <2> QED BY <1>2, <2>3, <2>5, <2>6 DEF Holds
<1> QED BY <1>1, <1>2

(* Only the account keys of an old session are deleted. *)
LEMMA DeletedOK ==
  ASSUME NEW st, StorageOK(st), NEW k \in Keys
  PROVE  /\ StorageOK(Deleted(st, "AccountKeys", k))
         /\ Deleted(st, "AccountKeys", k).idx = st.idx
         /\ \A q \in Prefixes, j \in Keys :
              q # "AccountKeys" => Deleted(st, "AccountKeys", k).rec[<<q, j>>] = st.rec[<<q, j>>]
<1>1. PICK new : new = Deleted(st, "AccountKeys", k)
  OBVIOUS
<1>2. /\ st \in [rec : [Slots -> AnyRecord], idx : IndexType] /\ Absent \in AnyRecord
      /\ \A q \in Prefixes, j \in Keys : <<q, j>> \in Slots
      /\ \A c \in Candidates : c \in Keys /\ "Candidate" \in Prefixes /\ "Dispute" \in Prefixes
  BY KeyFacts DEF StorageOK, AnyRecord, Slots, Prefixes
<1>3. /\ new \in [rec : [Slots -> AnyRecord], idx : IndexType] /\ new.idx = st.idx
      /\ \A q \in Prefixes, j \in Keys : q # "AccountKeys" => new.rec[<<q, j>>] = st.rec[<<q, j>>]
  BY <1>1, <1>2 DEF Deleted
<1>4. StorageOK(new)
  BY <1>2, <1>3 DEF StorageOK
<1> QED BY <1>1, <1>3, <1>4

LEMMA PlainFits ==
  ASSUME NEW p \in Prefixes, p \notin {"Candidate", "Dispute"}, NEW k
  PROVE  Fits(p, k, Plain)
BY DEF Fits, AnyRecord

LEMMA InitStorageOK == Init => StorageOK(storage)
<1> SUFFICES ASSUME Init PROVE StorageOK(storage)
  OBVIOUS
<1>1. storage = [rec |-> [s \in Slots |-> Absent], idx |-> EmptyIndex]
  BY DEF Init
<1>2. [s \in Slots |-> Absent] \in [Slots -> AnyRecord]
  BY DEF AnyRecord
<1>3. EmptyIndex \in IndexType /\ IndexedBlocks(EmptyIndex) = {}
  BY DEF EmptyIndex, IndexType, IndexedBlocks
<1>4. Bounded(EmptyIndex)
  BY <1>3, FS_EmptySet, MaxBlocksAssumption DEF Bounded
<1>5. \A c \in Candidates : <<"Candidate", c>> \in Slots /\ <<"Dispute", c>> \in Slots
  BY KeyFacts DEF Slots, Prefixes
<1> QED BY <1>1, <1>2, <1>3, <1>4, <1>5 DEF StorageOK

LEMMA WriteSessionOK ==
  ASSUME NEW st, StorageOK(st), NEW h \in Heads
  PROVE  StorageOK(WriteSession(st, h))
<1>1. PICK s : s = SessionOf[h]
  OBVIOUS
<1>2. SessionKey[s] \in Keys /\ NumberOf[h] \in Blocks /\ "AccountKeys" \in Prefixes
  BY <1>1, KeyFacts DEF Prefixes
<1>3. PICK new : new = Written(st, "AccountKeys", SessionKey[s], Plain, NumberOf[h])
  OBVIOUS
<1>4. StorageOK(new)
  BY <1>2, <1>3, PlainFits, WrittenOK
<1>5. s - 2 \in Sessions => StorageOK(Deleted(new, "AccountKeys", SessionKey[s - 2]))
  BY <1>4, KeyFacts, DeletedOK
<1> QED BY <1>1, <1>3, <1>4, <1>5 DEF WriteSession

(* process_new_head(), once the state is at the number of the head. *)
LEMMA FinishTypes ==
  ASSUME NEW st, StorageOK(st), NEW cs \in CollectorState, NEW h \in Heads, FinishNewHead(st, cs, h)
  PROVE  /\ StorageOK(storage')
         /\ state' \in CollectorState
         /\ stage' \in {"announcing", "candidates"}
         /\ \E n \in Nat : state' = [cs EXCEPT !.session = n]
<1>1. /\ {"RelayBlockHeader", "BlockData"} \subseteq Prefixes \ {"Candidate", "Dispute"}
      /\ h \in Keys /\ NumberOf[h] \in Blocks /\ SessionOf[h] \in Nat
  BY KeyFacts DEF Prefixes
<1>2. PICK listed : listed = Written(st, "RelayBlockHeader", h, Plain, NumberOf[h])
  OBVIOUS
<1>3. PICK stored : stored = WriteSession(listed, h)
  OBVIOUS
<1>4. StorageOK(listed)
  BY <1>1, <1>2, PlainFits, WrittenOK
<1>5. StorageOK(stored)
  BY <1>3, <1>4, WriteSessionOK
<1>6. StorageOK(Written(stored, "BlockData", h, Plain, NumberOf[h]))
  BY <1>1, <1>5, PlainFits, WrittenOK
<1>7. /\ cs = [cs EXCEPT !.session = cs.session] /\ cs.session \in Nat
      /\ [cs EXCEPT !.session = SessionOf[h]] \in CollectorState
  BY <1>1 DEF CollectorState
<1> QED BY <1>1, <1>2, <1>3, <1>5, <1>6, <1>7 DEF FinishNewHead, WriteBlockData

LEMMA EmptyFacts == Updates \subseteq [number : Nat, hashes : Seq(Heads), backed : Seq(Candidates),
   included : Seq(Candidates), timed_out : Seq(Candidates), disputes : SUBSET DisputeInfos(Candidates)]
BY KeyFacts DEF Updates

(* The new state of update_state(). *)
LEMMA NewStateType ==
  ASSUME NEW h \in Heads, NEW session \in Nat, NEW finalized \in Blocks
  PROVE  NewState(NumberOf[h], <<h>>, session, finalized) \in CollectorState
BY KeyFacts DEF NewState, CollectorState

(* What update_state() reports. *)
LEMMA ReportType ==
  ASSUME NEW cs \in CollectorState
  PROVE  [number |-> cs.number, hashes |-> cs.hashes, backed |-> cs.backed, included |-> cs.included,
          timed_out |-> cs.timed_out, disputes |-> Concluded(cs.disputes)] \in Updates
<1>1. cs.disputes \in Seq(DisputeInfos(Candidates))
  BY DEF CollectorState
<1>2. Concluded(cs.disputes) \subseteq DisputeInfos(Candidates)
  BY <1>1 DEF Concluded
<1> QED BY <1>2 DEF CollectorState, Updates

LEMMA InitTypeInv == Init => TypeInv
<1> SUFFICES ASSUME Init PROVE TypeInv
  OBVIOUS
<1>1. state \in CollectorState
  BY KeyFacts DEF Init, NewState, CollectorState
<1>2. TaskTypes
  BY KeyFacts, OptionsAssumption DEF Init, TaskTypes, Stages
<1>3. ChainTypes
  BY DEF Init, ChainTypes
<1> QED BY <1>1, <1>2, <1>3, InitStorageOK DEF TypeInv

LEMMA HeadTypes ==
  ASSUME NEW st, StorageOK(st), NEW cs \in CollectorState, NEW h \in Heads, process_new_head(st, cs, h)
  PROVE  StorageOK(storage') /\ state' \in CollectorState /\ stage' \in Stages \ {"idle"}
<1>1. CASE NumberOf[h] > cs.number
  <2>1. "InboundOutboundHrmpChannels" \in Prefixes \ {"Candidate", "Dispute"} /\ h \in Keys /\ NumberOf[h] \in Blocks
    BY KeyFacts DEF Prefixes
  <2>2. StorageOK(Written(st, "InboundOutboundHrmpChannels", h, Plain, NumberOf[h]))
    BY <2>1, PlainFits, WrittenOK
  <2>3. cs.number \in Nat /\ NumberOf[h] \in Nat
    BY KeyFacts DEF CollectorState
  <2> QED BY <1>1, <2>2, <2>3 DEF process_new_head, Stages
<1>2. CASE NumberOf[h] = cs.number
  <2>1. PICK forked : forked = [cs EXCEPT !.hashes = Append(@, h)]
    OBVIOUS
  <2>2. forked \in CollectorState
    <3>1. cs.hashes \in Seq(Heads)
      BY DEF CollectorState
    <3>2. Append(cs.hashes, h) \in Seq(Heads)
      BY <3>1
    <3> QED BY <2>1, <3>2 DEF CollectorState
  <2>3. FinishNewHead(st, forked, h)
    BY <1>2, <2>1, KeyFacts DEF process_new_head, CollectorState
  <2> QED BY <2>2, <2>3, FinishTypes DEF Stages
<1>3. CASE NumberOf[h] < cs.number
  BY <1>3, KeyFacts DEF process_new_head, CollectorState, Stages
<1> QED BY <1>1, <1>2, <1>3 DEF process_new_head

(* What the announcement of a head leaves alone, and what it starts from. *)
LEMMA FinalizeFacts ==
  ASSUME TypeInv, NEW h \in Heads, Finalize(h)
  PROVE  /\ stage = "idle" /\ processing = Absent /\ UNCHANGED <<channel, tracker, ghost>>
         /\ chain'.finalized = h /\ chain'.events = chain.events
         /\ ChainTypes'
         /\ \E cs \in CollectorState :
              /\ \E n \in Blocks : cs = [state EXCEPT !.finalized = n]
              /\ \/ Followed # "Finalized" /\ NotFollowed(storage, cs)
                 \/ Followed = "Finalized" /\ processing' = h /\ process_new_head(storage, cs, h)
<1>1. stage = "idle" /\ processing = Absent /\ UNCHANGED <<channel, tracker, ghost>>
  BY DEF Finalize, process_new_finalized_head, TypeInv, TaskTypes
<1>2. /\ chain' = [Announced(h, "Finalized") EXCEPT !.finalized = h]
      /\ chain = [events |-> chain.events, finalized |-> chain.finalized, best |-> chain.best,
                  announced |-> chain.announced, repeats |-> chain.repeats, replay |-> chain.replay]
      /\ chain.events \subseteq ChainEvents
  BY DEF Finalize, TypeInv, ChainTypes
<1>3. /\ chain'.finalized = h /\ chain'.events = chain.events
      /\ chain'.replay = Absent \/ chain'.replay \subseteq ChainEvents
      /\ chain' = [events |-> chain'.events, finalized |-> chain'.finalized, best |-> chain'.best,
                   announced |-> chain'.announced, repeats |-> chain'.repeats, replay |-> chain'.replay]
  <2>1. PICK a : a = Announced(h, "Finalized")
    OBVIOUS
  <2>2. /\ a = [events |-> a.events, finalized |-> a.finalized, best |-> a.best,
                announced |-> a.announced, repeats |-> a.repeats, replay |-> a.replay]
        /\ a.events = chain.events
        /\ a.replay = Absent \/ a.replay \subseteq ChainEvents
    BY <1>2, <2>1 DEF Announced, TypeInv, ChainTypes
  <2>3. chain' = [a EXCEPT !.finalized = h]
    BY <1>2, <2>1
  <2> QED BY <2>2, <2>3
<1>4. ChainTypes'
  BY <1>1, <1>2, <1>3 DEF ChainTypes, TypeInv
<1>5. PICK cs : cs = IF state.finalized < NumberOf[h] THEN [state EXCEPT !.finalized = NumberOf[h]] ELSE state
  OBVIOUS
<1>6. cs \in CollectorState /\ \E n \in Blocks : cs = [state EXCEPT !.finalized = n]
  <2>1. state \in CollectorState /\ NumberOf[h] \in Blocks
    BY KeyFacts DEF TypeInv
  <2>2. state = [state EXCEPT !.finalized = state.finalized] /\ state.finalized \in Blocks
    BY <2>1 DEF CollectorState
  <2>3. cs \in CollectorState
    BY <1>5, <2>1 DEF CollectorState
  <2> QED BY <1>5, <2>1, <2>2, <2>3
<1>7. \/ Followed # "Finalized" /\ NotFollowed(storage, cs)
      \/ Followed = "Finalized" /\ processing' = h /\ process_new_head(storage, cs, h)
  BY <1>5 DEF Finalize, process_new_finalized_head
<1> QED BY <1>1, <1>3, <1>4, <1>6, <1>7

LEMMA NewBestFacts ==
  ASSUME TypeInv, NEW h \in Heads, NewBest(h)
  PROVE  /\ stage = "idle" /\ processing = Absent /\ UNCHANGED <<channel, tracker, ghost>>
         /\ chain'.finalized = chain.finalized /\ chain'.events = chain.events
         /\ Followed = "Finalized" => chain'.announced = chain.announced /\ chain'.replay = chain.replay
         /\ ChainTypes'
         /\ NumberOf[h] > 0 /\ NumberOf[h] <= FinalizedNumber + MaxLead
         /\ \E st \in {storage, Written(storage, "RelevantFinalizedBlockNumber", h, Plain, NumberOf[h])} :
              \/ Followed # "Best" /\ NotFollowed(st, state)
              \/ /\ Followed = "Best" /\ processing' = h
                 /\ \/ stage' = "candidates" /\ UNCHANGED <<storage, state>>
                    \/ process_new_head(st, state, h)
<1>1. stage = "idle" /\ processing = Absent /\ UNCHANGED <<channel, tracker, ghost>>
      /\ NumberOf[h] > 0 /\ NumberOf[h] <= FinalizedNumber + MaxLead
  BY DEF NewBest, process_new_best_head, TypeInv, TaskTypes
<1>2. /\ chain' = [Announced(h, "Best") EXCEPT !.best = h]
      /\ chain = [events |-> chain.events, finalized |-> chain.finalized, best |-> chain.best,
                  announced |-> chain.announced, repeats |-> chain.repeats, replay |-> chain.replay]
      /\ chain.events \subseteq ChainEvents
  BY DEF NewBest, TypeInv, ChainTypes
<1>3. /\ chain'.finalized = chain.finalized /\ chain'.events = chain.events
      /\ Followed = "Finalized" => chain'.announced = chain.announced /\ chain'.replay = chain.replay
      /\ chain'.replay = Absent \/ chain'.replay \subseteq ChainEvents
      /\ chain' = [events |-> chain'.events, finalized |-> chain'.finalized, best |-> chain'.best,
                   announced |-> chain'.announced, repeats |-> chain'.repeats, replay |-> chain'.replay]
  <2>1. PICK a : a = Announced(h, "Best")
    OBVIOUS
  <2>2. /\ a = [events |-> a.events, finalized |-> a.finalized, best |-> a.best,
                announced |-> a.announced, repeats |-> a.repeats, replay |-> a.replay]
        /\ a.events = chain.events /\ a.finalized = chain.finalized
        /\ Followed = "Finalized" => a = chain
        /\ a.replay = Absent \/ a.replay \subseteq ChainEvents
    BY <1>2, <2>1 DEF Announced, TypeInv, ChainTypes
  <2>3. chain' = [a EXCEPT !.best = h]
    BY <1>2, <2>1
  <2> QED BY <2>2, <2>3
<1>4. ChainTypes'
  BY <1>1, <1>2, <1>3 DEF ChainTypes, TypeInv
<1>5. PICK known : known <=> Holds(storage, "RelevantFinalizedBlockNumber", h)
  OBVIOUS
<1>6. PICK stored : stored = IF state.finalized = 0 THEN storage
                             ELSE Written(storage, "RelevantFinalizedBlockNumber", h, Plain, NumberOf[h])
  OBVIOUS
<1>7. PICK st : st = IF Followed # "Best" /\ known THEN storage ELSE stored
  OBVIOUS
<1>8. \/ Followed # "Best" /\ NotFollowed(st, state)
      \/ /\ Followed = "Best" /\ processing' = h
         /\ \/ stage' = "candidates" /\ UNCHANGED <<storage, state>>
            \/ process_new_head(st, state, h)
  BY <1>5, <1>6, <1>7 DEF NewBest, process_new_best_head
<1> QED BY <1>1, <1>3, <1>4, <1>6, <1>7, <1>8

-----------------------------------------------------------------------------
(* The candidate events. *)
LEMMA EventFacts ==
  ASSUME TypeInv, NEW e \in Kinds, NEW c \in Candidates, NextEvent(e, c)
  PROVE  /\ processing \in Heads /\ UNCHANGED <<processing, channel, tracker>>
         /\ stage \in {"candidates", "initiated", "concluded"}
         /\ stage' \in {"candidates", "initiated", "concluded"}
         /\ chain'.finalized = chain.finalized /\ chain'.announced = chain.announced
         /\ chain'.events \subseteq chain.events \cup {<<e, c, processing>>}
         /\ chain.events \subseteq chain'.events
         /\ chain.replay = Absent =>
              /\ chain'.replay = Absent /\ Possible(e, c, processing)
              /\ <<e, c, processing>> \in chain'.events
         /\ ghost' = [noted |-> ghost'.noted, told |-> ghost'.told, skipped |-> ghost'.skipped] => ChainTypes'
<1>1. EventStage[e] \in {"candidates", "initiated", "concluded"}
  BY DEF EventStage, Kinds
<1>2. /\ processing \in Heads /\ UNCHANGED <<processing, channel, tracker>>
      /\ stage' = EventStage[e] /\ stage \in Earlier[EventStage[e]]
  BY DEF NextEvent, TypeInv, TaskTypes
<1>3. stage \in {"candidates", "initiated", "concluded"}
  BY <1>1, <1>2 DEF Earlier
<1>4. /\ chain = [events |-> chain.events, finalized |-> chain.finalized, best |-> chain.best,
                  announced |-> chain.announced, repeats |-> chain.repeats, replay |-> chain.replay]
      /\ chain.events \subseteq ChainEvents /\ <<e, c, processing>> \in ChainEvents
      /\ chain.replay = Absent \/ chain.replay \subseteq ChainEvents
      /\ chain.finalized \in Heads \cup {Absent}
  BY <1>2 DEF TypeInv, ChainTypes, ChainEvents
<1>5. CASE chain.replay = Absent
  <2>1. chain' = [chain EXCEPT !.events = @ \cup {<<e, c, processing>>}] /\ Possible(e, c, processing)
    BY <1>5 DEF NextEvent
  <2> QED BY <1>1, <1>2, <1>3, <1>4, <1>5, <2>1 DEF ChainTypes
<1>6. CASE chain.replay # Absent
  <2>1. chain' = [chain EXCEPT !.replay = @ \ {<<e, c, processing>>}]
    BY <1>6 DEF NextEvent
  <2> QED BY <1>1, <1>2, <1>3, <1>4, <1>6, <2>1 DEF ChainTypes
<1> QED BY <1>5, <1>6

(* What every handler of a candidate event keeps. *)
SameBlock ==
  /\ StorageOK(storage') /\ state' \in CollectorState
  /\ state'.number = state.number /\ state'.hashes = state.hashes
  /\ ghost' = [noted |-> ghost'.noted, told |-> ghost'.told, skipped |-> ghost'.skipped]

LEMMA NoteTypes ==
  ASSUME TypeInv, NEW e, NEW c, Note(e, c) \/ ghost' = ghost
  PROVE  ghost' = [noted |-> ghost'.noted, told |-> ghost'.told, skipped |-> ghost'.skipped]
<1>1. ghost = [noted |-> ghost.noted, told |-> ghost.told, skipped |-> ghost.skipped]
  BY DEF TypeInv, ChainTypes
<1> QED BY <1>1 DEF Note

LEMMA NoteSkips ==
  ASSUME TypeInv, NEW e, NEW c, Note(e, c) \/ ghost' = ghost
  PROVE  ghost'.skipped = ghost.skipped
<1>1. ghost = [noted |-> ghost.noted, told |-> ghost.told, skipped |-> ghost.skipped]
  BY DEF TypeInv, ChainTypes
<1> QED BY <1>1 DEF Note

LEMMA BackedTypes ==
  ASSUME TypeInv, NEW c \in Candidates, process_candidate_backed(c)
  PROVE  SameBlock
<1>1. /\ StorageOK(storage) /\ state \in CollectorState /\ state.number \in Blocks
      /\ c \in Keys /\ RelayParentOf[c] \in Keys /\ NumberOf[RelayParentOf[c]] \in Blocks
      /\ {"CandidatesParachains", "RelayBlockHeader"} \subseteq Prefixes \ {"Candidate", "Dispute"}
      /\ "Candidate" \in Prefixes
  BY KeyFacts, ChainAssumption DEF TypeInv, CollectorState, Prefixes
<1>2. PICK record : record = [backed |-> state.number, included |-> 0, timed_out |-> 0,
                              disputed |-> 0, concluded |-> 0]
  OBVIOUS
<1>3. Fits("Candidate", c, record)
  BY <1>1, <1>2, KeyFacts DEF Fits, AnyRecord, CandidateRecords
<1>4. PICK listed : listed = Written(storage, "CandidatesParachains", c, Plain, state.number)
  OBVIOUS
<1>5. PICK fetched : fetched = Written(listed, "RelayBlockHeader", RelayParentOf[c], Plain,
                                       NumberOf[RelayParentOf[c]])
  OBVIOUS
<1>6. StorageOK(listed)
  BY <1>1, <1>4, PlainFits, WrittenOK
<1>7. StorageOK(fetched)
  BY <1>1, <1>5, <1>6, PlainFits, WrittenOK
<1>8. StorageOK(Written(listed, "Candidate", c, record, state.number))
  BY <1>1, <1>3, <1>6, WrittenOK
<1>9. StorageOK(Written(fetched, "Candidate", c, record, state.number))
  BY <1>1, <1>3, <1>7, WrittenOK
<1>10. \/ UNCHANGED <<storage, state, ghost>>
       \/ /\ storage' = Written(listed, "Candidate", c, record, state.number)
          /\ state' = [state EXCEPT !.backed = Append(@, c)] /\ Note("Backed", c)
       \/ /\ storage' = Written(fetched, "Candidate", c, record, state.number)
          /\ state' = [state EXCEPT !.backed = Append(@, c)] /\ Note("Backed", c)
       \/ storage' = listed /\ UNCHANGED <<state, ghost>>
  BY <1>2, <1>4, <1>5 DEF process_candidate_backed
<1>11. StorageOK(storage')
  BY <1>1, <1>6, <1>8, <1>9, <1>10
<1>12. state' = state \/ state' = [state EXCEPT !.backed = Append(@, c)]
  BY <1>10
<1>13. [state EXCEPT !.backed = Append(@, c)] \in CollectorState
  <2>1. Append(state.backed, c) \in Seq(Candidates)
    BY <1>1 DEF CollectorState
  <2> QED BY <1>1, <2>1 DEF CollectorState
<1>14. state' \in CollectorState /\ state'.number = state.number /\ state'.hashes = state.hashes
  BY <1>1, <1>12, <1>13 DEF CollectorState
<1>15. Note("Backed", c) \/ ghost' = ghost
  BY <1>10
<1> QED BY <1>11, <1>14, <1>15, NoteTypes DEF SameBlock

(* A candidate record can be completed with the number of the block. *)
LEMMA RecordTypes ==
  ASSUME NEW r \in CandidateRecords, NEW n \in Blocks
  PROVE  /\ [r EXCEPT !.included = n] \in CandidateRecords
         /\ [r EXCEPT !.timed_out = n] \in CandidateRecords
         /\ [r EXCEPT !.disputed = n, !.concluded = 0] \in CandidateRecords
         /\ [r EXCEPT !.disputed = n, !.concluded = n] \in CandidateRecords
BY KeyFacts DEF CandidateRecords

LEMMA CandidateFits ==
  ASSUME NEW c \in Candidates, NEW r \in CandidateRecords
  PROVE  Fits("Candidate", c, r)
BY DEF Fits, AnyRecord

(* The record of a stored candidate. *)
LEMMA HeldCandidate ==
  ASSUME NEW st, StorageOK(st), NEW c \in Candidates, Holds(st, "Candidate", c)
  PROVE  st.rec[<<"Candidate", c>>] \in CandidateRecords
BY DEF StorageOK, Holds

LEMMA IncludedTypes ==
  ASSUME TypeInv, NEW c \in Candidates, process_candidate_included(c)
  PROVE  SameBlock
<1>1. StorageOK(storage) /\ state \in CollectorState /\ state.number \in Blocks /\ c \in Keys /\ "Candidate" \in Prefixes
  BY KeyFacts DEF TypeInv, CollectorState, Prefixes
<1>2. CASE ~Holds(storage, "Candidate", c)
  BY <1>1, <1>2, NoteTypes DEF process_candidate_included, SameBlock
<1>3. CASE Holds(storage, "Candidate", c)
  <2>1. CandidateRecord(c) \in CandidateRecords
    BY <1>1, <1>3, HeldCandidate DEF CandidateRecord
  <2>2. PICK r : r = [CandidateRecord(c) EXCEPT !.included = state.number]
    OBVIOUS
  <2>3. /\ storage' = Replaced(storage, "Candidate", c, r)
        /\ state' = [state EXCEPT !.included = Append(@, c)] /\ Note("Included", c)
    BY <1>3, <2>2 DEF process_candidate_included
  <2>4. Fits("Candidate", c, r)
    BY <1>1, <2>1, <2>2, RecordTypes, CandidateFits
  <2>5. StorageOK(storage')
    BY <1>1, <2>3, <2>4, ReplacedOK
  <2>6. Append(state.included, c) \in Seq(Candidates)
    BY <1>1 DEF CollectorState
  <2>7. state' \in CollectorState /\ state'.number = state.number /\ state'.hashes = state.hashes
    BY <1>1, <2>3, <2>6 DEF CollectorState
  <2> QED BY <2>3, <2>5, <2>7, NoteTypes DEF SameBlock
<1> QED BY <1>2, <1>3

LEMMA TimedOutTypes ==
  ASSUME TypeInv, NEW c \in Candidates, process_candidate_timed_out(c)
  PROVE  SameBlock
<1>1. StorageOK(storage) /\ state \in CollectorState /\ state.number \in Blocks /\ c \in Keys /\ "Candidate" \in Prefixes
  BY KeyFacts DEF TypeInv, CollectorState, Prefixes
<1>2. CASE ~Holds(storage, "Candidate", c)
  BY <1>1, <1>2, NoteTypes DEF process_candidate_timed_out, SameBlock
<1>3. CASE Holds(storage, "Candidate", c)
  <2>1. CandidateRecord(c) \in CandidateRecords
    BY <1>1, <1>3, HeldCandidate DEF CandidateRecord
  <2>2. PICK r : r = [CandidateRecord(c) EXCEPT !.timed_out = state.number]
    OBVIOUS
  <2>3. /\ storage' = Replaced(storage, "Candidate", c, r)
        /\ state' = [state EXCEPT !.timed_out = Append(@, c)] /\ Note("TimedOut", c)
    BY <1>3, <2>2 DEF process_candidate_timed_out
  <2>4. Fits("Candidate", c, r)
    BY <1>1, <2>1, <2>2, RecordTypes, CandidateFits
  <2>5. StorageOK(storage')
    BY <1>1, <2>3, <2>4, ReplacedOK
  <2>6. Append(state.timed_out, c) \in Seq(Candidates)
    BY <1>1 DEF CollectorState
  <2>7. state' \in CollectorState /\ state'.number = state.number /\ state'.hashes = state.hashes
    BY <1>1, <2>3, <2>6 DEF CollectorState
  <2> QED BY <2>3, <2>5, <2>7, NoteTypes DEF SameBlock
<1> QED BY <1>2, <1>3

LEMMA InitiatedTypes ==
  ASSUME TypeInv, NEW c \in Candidates, process_dispute_initiated(c)
  PROVE  SameBlock
<1>1. StorageOK(storage) /\ state \in CollectorState /\ state.number \in Blocks /\ c \in Keys
      /\ {"Candidate", "Dispute"} \subseteq Prefixes /\ ghost' = ghost
  BY KeyFacts DEF TypeInv, CollectorState, Prefixes, process_dispute_initiated
<1>2. CASE ~Findable(c)
  BY <1>1, <1>2, NoteTypes DEF process_dispute_initiated, SameBlock
<1>3. CASE Findable(c)
  <2>1. CandidateRecord(c) \in CandidateRecords
    BY <1>1, <1>3, HeldCandidate DEF CandidateRecord, Findable
  <2>2. PICK info : info = [candidate |-> c, initiated |-> state.number, concluded |-> 0]
    OBVIOUS
  <2>3. PICK r : r = [CandidateRecord(c) EXCEPT !.disputed = state.number, !.concluded = 0]
    OBVIOUS
  <2>4. PICK started : started = Written(storage, "Dispute", c, info, state.number)
    OBVIOUS
  <2>5. /\ storage' = storage \/ storage' = Replaced(started, "Candidate", c, r)
        /\ state' = [state EXCEPT !.disputes = Append(@, info)]
    BY <1>3, <2>2, <2>3, <2>4 DEF process_dispute_initiated
  <2>6. info \in DisputeInfos({c}) /\ info \in DisputeInfos(Candidates)
    BY <1>1, <2>2, KeyFacts DEF DisputeInfos
  <2>7. Fits("Dispute", c, info)
    BY <2>6 DEF Fits, AnyRecord
  <2>8. StorageOK(started)
    BY <1>1, <2>4, <2>7, WrittenOK
  <2>9. Fits("Candidate", c, r)
    BY <1>1, <2>1, <2>3, RecordTypes, CandidateFits
  <2>10. StorageOK(storage')
    BY <1>1, <2>5, <2>8, <2>9, ReplacedOK
  <2>11. Append(state.disputes, info) \in Seq(DisputeInfos(Candidates))
    BY <1>1, <2>6 DEF CollectorState
  <2>12. state' \in CollectorState /\ state'.number = state.number /\ state'.hashes = state.hashes
    BY <1>1, <2>5, <2>11 DEF CollectorState
  <2> QED BY <1>1, <2>10, <2>12, NoteTypes DEF SameBlock
<1> QED BY <1>2, <1>3

LEMMA ConcludedTypes ==
  ASSUME TypeInv, NEW c \in Candidates, process_dispute_concluded(c)
  PROVE  SameBlock
<1>1. StorageOK(storage) /\ state \in CollectorState /\ state.number \in Blocks /\ c \in Keys
      /\ {"Candidate", "Dispute"} \subseteq Prefixes
  BY KeyFacts DEF TypeInv, CollectorState, Prefixes
<1>2. CASE ~Findable(c)
  BY <1>1, <1>2, NoteTypes DEF process_dispute_concluded, SameBlock
<1>3. CASE Findable(c)
  <2>1. CandidateRecord(c) \in CandidateRecords
    BY <1>1, <1>3, HeldCandidate DEF CandidateRecord, Findable
  <2>2. PICK info : info = [storage.rec[<<"Dispute", c>>] EXCEPT !.concluded = state.number]
    OBVIOUS
  <2>3. PICK r : r = [CandidateRecord(c) EXCEPT !.disputed = state.number, !.concluded = state.number]
    OBVIOUS
  <2>4. Fits("Candidate", c, r)
    BY <1>1, <2>1, <2>3, RecordTypes, CandidateFits
  <2>5. CASE ~Holds(storage, "Dispute", c)
    <3>1. storage' = Replaced(storage, "Candidate", c, r) /\ UNCHANGED <<state, ghost>>
      BY <1>3, <2>3, <2>5 DEF process_dispute_concluded
    <3>2. StorageOK(storage')
      BY <1>1, <2>4, <3>1, ReplacedOK
    <3> QED BY <1>1, <3>1, <3>2, NoteTypes DEF SameBlock
  <2>6. CASE Holds(storage, "Dispute", c)
    <3>1. storage.rec[<<"Dispute", c>>] \in DisputeInfos({c})
      BY <1>1, <2>6 DEF StorageOK, Holds
    <3>2. info \in DisputeInfos({c}) /\ info \in DisputeInfos(Candidates)
      BY <1>1, <2>2, <3>1 DEF DisputeInfos
    <3>3. PICK ended : ended = Replaced(storage, "Dispute", c, info)
      OBVIOUS
    <3>4. /\ storage' = Replaced(ended, "Candidate", c, r)
          /\ state' = [state EXCEPT !.disputes = Append(@, info)] /\ Note("DisputeConcluded", c)
      BY <1>3, <2>2, <2>3, <2>6, <3>3 DEF process_dispute_concluded
    <3>5. Fits("Dispute", c, info)
      BY <3>2 DEF Fits, AnyRecord
    <3>6. StorageOK(ended)
      BY <1>1, <3>3, <3>5, ReplacedOK
    <3>7. StorageOK(storage')
      BY <1>1, <2>4, <3>4, <3>6, ReplacedOK
    <3>8. Append(state.disputes, info) \in Seq(DisputeInfos(Candidates))
      BY <1>1, <3>2 DEF CollectorState
    <3>9. state' \in CollectorState /\ state'.number = state.number /\ state'.hashes = state.hashes
      BY <1>1, <3>4, <3>8 DEF CollectorState
    <3> QED BY <3>4, <3>7, <3>9, NoteTypes DEF SameBlock
  <2> QED BY <2>5, <2>6
<1> QED BY <1>2, <1>3
-----------------------------------------------------------------------------
(* The first layer. *)
LEMMA InitOrderInv == Init => OrderInv
<1> SUFFICES ASSUME Init PROVE OrderInv
  OBVIOUS
<1>1. /\ state.number = 0 /\ state.hashes = <<>> /\ tracker.number = 0 /\ tracker.hashes = <<>>
      /\ channel = <<>> /\ stage = "idle"
  BY DEF Init, NewState
<1> QED BY <1>1 DEF OrderInv, ReportsInOrder

(* Nothing about the order changes while the block and the reports stay. *)
LEMMA OrderStays ==
  ASSUME OrderInv, UNCHANGED <<processing, channel, tracker>>,
         stage' # "updating" \/ stage' = stage,
         state'.number = state.number, state'.hashes = state.hashes
  PROVE  OrderInv'
BY DEF OrderInv, ReportsInOrder

LEMMA EventKeepsOrder ==
  ASSUME TypeInv, OrderInv, NEW c \in Candidates,
         \/ process_candidate_backed(c) \/ process_candidate_included(c) \/ process_candidate_timed_out(c)
         \/ process_dispute_initiated(c) \/ process_dispute_concluded(c)
  PROVE  TypeInv' /\ OrderInv'
<1>1. \E e \in Kinds : NextEvent(e, c)
  BY DEF process_candidate_backed, process_candidate_included, process_candidate_timed_out,
         process_dispute_initiated, process_dispute_concluded, Kinds
<1>2. SameBlock
  BY BackedTypes, IncludedTypes, TimedOutTypes, InitiatedTypes, ConcludedTypes
<1>3. /\ processing \in Heads /\ UNCHANGED <<processing, channel, tracker>>
      /\ stage \in {"candidates", "initiated", "concluded"}
      /\ stage' \in {"candidates", "initiated", "concluded"}
      /\ ChainTypes'
  BY <1>1, <1>2, EventFacts DEF SameBlock
<1>4. TaskTypes'
  BY <1>3 DEF TypeInv, TaskTypes, Stages
<1>5. OrderInv'
  BY <1>2, <1>3, OrderStays DEF SameBlock
<1> QED BY <1>2, <1>3, <1>4, <1>5 DEF SameBlock, TypeInv

(* A head that is processed. *)
LEMMA HeadOrder ==
  ASSUME TypeInv, OrderInv, NEW st, NEW cs \in CollectorState, NEW h \in Heads, StorageOK(st),
         cs.number = state.number, cs.hashes = state.hashes, NumberOf[h] > 0, stage = "idle",
         processing' = h, UNCHANGED <<channel, tracker>>, process_new_head(st, cs, h)
  PROVE  OrderInv' /\ stage' \in Stages \ {"idle"} /\ StorageOK(storage') /\ state' \in CollectorState
<1>1. stage' \in Stages \ {"idle"} /\ StorageOK(storage') /\ state' \in CollectorState
  BY HeadTypes
<1>2. cs.number \in Nat /\ NumberOf[h] \in Nat /\ cs.hashes \in Seq(Heads)
  BY KeyFacts DEF CollectorState
<1>3. CASE NumberOf[h] > cs.number
  <2>1. state' = cs /\ stage' = "updating"
    BY <1>2, <1>3 DEF process_new_head
  <2> QED BY <1>1, <1>2, <1>3, <2>1 DEF OrderInv, ReportsInOrder
<1>4. CASE NumberOf[h] = cs.number
  <2>1. PICK forked : forked = [cs EXCEPT !.hashes = Append(@, h)]
    OBVIOUS
  <2>2. Append(cs.hashes, h) \in Seq(Heads)
    BY <1>2
  <2>3. forked \in CollectorState /\ forked.number = cs.number /\ forked.hashes = Append(cs.hashes, h)
    BY <2>1, <2>2 DEF CollectorState
  <2>4. FinishNewHead(st, forked, h)
    BY <1>2, <1>4, <2>1 DEF process_new_head
  <2>5. stage' # "updating" /\ \E n \in Nat : state' = [forked EXCEPT !.session = n]
    BY <2>3, <2>4, FinishTypes
  <2>6. state'.number = cs.number /\ state'.hashes = Append(cs.hashes, h)
    BY <2>3, <2>5 DEF CollectorState
  <2>7. state.hashes # <<>> /\ tracker.number < state.number
    BY <1>4 DEF OrderInv
  <2>8. \A k \in 1..Len(state'.hashes) : NumberOf[state'.hashes[k]] = state.number
    BY <1>2, <1>4, <2>6 DEF OrderInv
  <2>9. state'.number = state.number /\ state'.hashes # <<>>
    BY <1>2, <2>6
  <2> QED BY <1>1, <2>5, <2>7, <2>8, <2>9 DEF OrderInv, ReportsInOrder
<1>5. CASE NumberOf[h] < cs.number
  <2>1. state' = cs /\ stage' = "candidates"
    BY <1>2, <1>5 DEF process_new_head
  <2> QED BY <1>1, <2>1, OrderStays DEF OrderInv, ReportsInOrder
<1> QED BY <1>1, <1>2, <1>3, <1>4, <1>5

LEMMA FinalizeKeepsOrder ==
  ASSUME TypeInv, OrderInv, NEW h \in Heads, Finalize(h)
  PROVE  TypeInv' /\ OrderInv'
<1>1. /\ stage = "idle" /\ processing = Absent /\ UNCHANGED <<channel, tracker, ghost>>
      /\ ChainTypes' /\ StorageOK(storage) /\ state \in CollectorState
  BY FinalizeFacts DEF TypeInv
<1>2. PICK cs \in CollectorState :
        /\ \E n \in Blocks : cs = [state EXCEPT !.finalized = n]
        /\ \/ Followed # "Finalized" /\ NotFollowed(storage, cs)
           \/ Followed = "Finalized" /\ processing' = h /\ process_new_head(storage, cs, h)
  BY FinalizeFacts
<1>3. cs.number = state.number /\ cs.hashes = state.hashes
  BY <1>1, <1>2 DEF CollectorState
<1>4. CASE NotFollowed(storage, cs)
  <2>1. storage' = storage /\ state' = cs /\ stage' = "idle" /\ processing' = Absent
    BY <1>4 DEF NotFollowed
  <2>2. TaskTypes' /\ OrderInv'
    BY <1>1, <1>3, <2>1, OrderStays DEF TypeInv, TaskTypes
  <2> QED BY <1>1, <2>1, <2>2 DEF TypeInv
<1>5. CASE processing' = h /\ process_new_head(storage, cs, h)
  <2>1. NumberOf[h] > 0
    <3>1. FinalizedNumber \in Nat
      BY KeyFacts DEF FinalizedNumber, TypeInv, ChainTypes
    <3> QED BY <3>1 DEF Finalize
  <2>2. OrderInv' /\ stage' \in Stages \ {"idle"} /\ StorageOK(storage') /\ state' \in CollectorState
    BY <1>1, <1>3, <1>5, <2>1, HeadOrder
  <2>3. h # Absent
    BY AbsentAssumption
  <2>4. TaskTypes'
    BY <1>1, <1>5, <2>2, <2>3 DEF TypeInv, TaskTypes
  <2> QED BY <1>1, <2>2, <2>4 DEF TypeInv
<1> QED BY <1>2, <1>4, <1>5

LEMMA NewBestKeepsOrder ==
  ASSUME TypeInv, OrderInv, NEW h \in Heads, NewBest(h)
  PROVE  TypeInv' /\ OrderInv'
<1>1. /\ stage = "idle" /\ processing = Absent /\ UNCHANGED <<channel, tracker, ghost>>
      /\ ChainTypes' /\ StorageOK(storage) /\ state \in CollectorState /\ NumberOf[h] > 0
  BY NewBestFacts DEF TypeInv
<1>2. PICK st \in {storage, Written(storage, "RelevantFinalizedBlockNumber", h, Plain, NumberOf[h])} :
        \/ Followed # "Best" /\ NotFollowed(st, state)
        \/ /\ Followed = "Best" /\ processing' = h
           /\ \/ stage' = "candidates" /\ UNCHANGED <<storage, state>>
              \/ process_new_head(st, state, h)
  BY NewBestFacts
<1>3. StorageOK(st)
  <2>1. "RelevantFinalizedBlockNumber" \in Prefixes \ {"Candidate", "Dispute"} /\ h \in Keys /\ NumberOf[h] \in Blocks
    BY KeyFacts DEF Prefixes
  <2> QED BY <1>1, <2>1, PlainFits, WrittenOK
<1>4. CASE NotFollowed(st, state)
  <2>1. storage' = st /\ state' = state /\ stage' = "idle" /\ processing' = Absent
    BY <1>4 DEF NotFollowed
  <2>2. TaskTypes' /\ OrderInv'
    BY <1>1, <2>1, OrderStays DEF TypeInv, TaskTypes
  <2> QED BY <1>1, <1>3, <2>1, <2>2 DEF TypeInv
<1>5. CASE processing' = h /\ stage' = "candidates" /\ UNCHANGED <<storage, state>>
  <2>1. h # Absent
    BY AbsentAssumption
  <2>2. TaskTypes'
    BY <1>1, <1>5, <2>1 DEF TypeInv, TaskTypes, Stages
  <2>3. OrderInv'
    BY <1>1, <1>5 DEF OrderInv, ReportsInOrder
  <2> QED BY <1>1, <1>5, <2>2, <2>3 DEF TypeInv
<1>6. CASE processing' = h /\ process_new_head(st, state, h)
  <2>1. OrderInv' /\ stage' \in Stages \ {"idle"} /\ StorageOK(storage') /\ state' \in CollectorState
    BY <1>1, <1>3, <1>6, HeadOrder
  <2>2. h # Absent
    BY AbsentAssumption
  <2>3. TaskTypes'
    BY <1>1, <1>6, <2>1, <2>2 DEF TypeInv, TaskTypes
  <2> QED BY <1>1, <2>1, <2>3 DEF TypeInv
<1> QED BY <1>2, <1>4, <1>5, <1>6

(* What update_state() does before it finishes. *)
LEMMA UpdateFacts ==
  ASSUME TypeInv, update_state
  PROVE  /\ processing \in Heads /\ stage = "updating" /\ Len(channel) < Capacity
         /\ \E rep \in Updates :
              /\ rep = [number |-> state.number, hashes |-> state.hashes, backed |-> state.backed,
                        included |-> state.included, timed_out |-> state.timed_out,
                        disputes |-> Concluded(state.disputes)]
              /\ channel' = Append(channel, rep)
         /\ \E cs \in CollectorState :
              /\ cs = NewState(NumberOf[processing], <<processing>>, state.session, state.finalized)
              /\ FinishNewHead(storage, cs, processing)
         /\ state' \in CollectorState /\ StorageOK(storage') /\ stage' \in {"announcing", "candidates"}
         /\ state'.number = NumberOf[processing] /\ state'.hashes = <<processing>>
         /\ state'.finalized = state.finalized
         /\ state'.backed = <<>> /\ state'.included = <<>> /\ state'.timed_out = <<>> /\ state'.disputes = <<>>
         /\ UNCHANGED <<processing, tracker, chain, ghost>>
<1>1. /\ processing \in Heads /\ stage = "updating" /\ Len(channel) < Capacity /\ state \in CollectorState
      /\ StorageOK(storage) /\ UNCHANGED <<processing, tracker, chain, ghost>>
  BY DEF update_state, TypeInv, TaskTypes
<1>2. PICK rep : rep = [number |-> state.number, hashes |-> state.hashes, backed |-> state.backed,
                        included |-> state.included, timed_out |-> state.timed_out,
                        disputes |-> Concluded(state.disputes)]
  OBVIOUS
<1>3. rep \in Updates
  BY <1>1, <1>2, ReportType
<1>4. channel' = Append(channel, rep)
  BY <1>2 DEF update_state
<1>5. PICK cs : cs = NewState(NumberOf[processing], <<processing>>, state.session, state.finalized)
  OBVIOUS
<1>6. cs \in CollectorState
  BY <1>1, <1>5, NewStateType DEF CollectorState
<1>7. FinishNewHead(storage, cs, processing)
  BY <1>5 DEF update_state
<1>8. PICK n \in Nat : state' = [cs EXCEPT !.session = n]
  BY <1>1, <1>6, <1>7, FinishTypes
<1>9. /\ state'.number = NumberOf[processing] /\ state'.hashes = <<processing>>
      /\ state'.finalized = state.finalized
      /\ state'.backed = <<>> /\ state'.included = <<>> /\ state'.timed_out = <<>> /\ state'.disputes = <<>>
  BY <1>5, <1>8 DEF NewState
<1>10. state' \in CollectorState /\ StorageOK(storage') /\ stage' \in {"announcing", "candidates"}
  BY <1>1, <1>6, <1>7, FinishTypes
<1> QED BY <1>1, <1>2, <1>3, <1>4, <1>5, <1>6, <1>7, <1>9, <1>10

LEMMA UpdateKeepsOrder ==
  ASSUME TypeInv, OrderInv, update_state
  PROVE  TypeInv' /\ OrderInv'
<1>1. /\ processing \in Heads /\ processing # Absent /\ NumberOf[processing] \in Nat
      /\ stage = "updating" /\ Len(channel) < Capacity
      /\ state' \in CollectorState /\ StorageOK(storage') /\ stage' \in {"announcing", "candidates"}
      /\ state'.number = NumberOf[processing] /\ state'.hashes = <<processing>>
      /\ UNCHANGED <<processing, tracker, chain, ghost>>
  BY UpdateFacts, KeyFacts, AbsentAssumption
<1>2. PICK rep \in Updates : /\ rep.number = state.number /\ rep.hashes = state.hashes
                             /\ channel' = Append(channel, rep)
  BY UpdateFacts
<1>3. /\ channel \in Seq(Updates) /\ Capacity \in Nat /\ state \in CollectorState
      /\ tracker \in [number : Blocks, hashes : Seq(Heads), found : BOOLEAN, panicked : BOOLEAN]
  BY OptionsAssumption DEF TypeInv, TaskTypes
<1>4. /\ channel' \in Seq(Updates) /\ Len(channel') = Len(channel) + 1 /\ Len(channel) \in Nat
      /\ \A i \in 1..Len(channel) : channel'[i] = channel[i]
      /\ channel'[Len(channel) + 1] = rep
  BY <1>2, <1>3
<1>5. TaskTypes'
  BY <1>1, <1>3, <1>4 DEF TypeInv, TaskTypes, Stages
<1>6. ChainTypes'
  BY <1>1 DEF TypeInv, ChainTypes
<1>7. /\ state.number \in Nat /\ tracker.number \in Nat /\ state.number < NumberOf[processing]
      /\ \A i \in 1..Len(channel) : channel[i].number \in Nat
  <2>1. \A i \in 1..Len(channel) : channel[i] \in Updates
    BY <1>3
  <2>2. \A m \in Updates : m.number \in Nat
    BY KeyFacts DEF Updates
  <2>3. state.number \in Nat /\ tracker.number \in Nat
    BY <1>3, KeyFacts DEF CollectorState
  <2> QED BY <1>1, <2>1, <2>2, <2>3 DEF OrderInv
<1>8. ReportsInOrder'
  <2>1. ASSUME NEW i \in 1..Len(channel'), channel'[i].hashes # <<>>
        PROVE  /\ tracker'.number < channel'[i].number /\ channel'[i].number < state'.number
               /\ \A j \in i + 1..Len(channel') :
                    channel'[j].hashes # <<>> => channel'[i].number < channel'[j].number
               /\ \A k \in 1..Len(channel'[i].hashes) : NumberOf[channel'[i].hashes[k]] = channel'[i].number
    <3>1. CASE i = Len(channel) + 1
      BY <1>1, <1>2, <1>4, <1>7, <2>1, <3>1 DEF OrderInv
    <3>2. CASE i \in 1..Len(channel)
      <4>1. /\ channel[i].hashes # <<>> /\ tracker.number < channel[i].number /\ channel[i].number < state.number
            /\ \A j \in i + 1..Len(channel) : channel[j].hashes # <<>> => channel[i].number < channel[j].number
            /\ \A k \in 1..Len(channel[i].hashes) : NumberOf[channel[i].hashes[k]] = channel[i].number
        BY <1>4, <2>1, <3>2 DEF OrderInv, ReportsInOrder
      <4>2. \A j \in i + 1..Len(channel') : j \in i + 1..Len(channel) \/ j = Len(channel) + 1
        BY <1>4, <3>2
      <4> QED BY <1>1, <1>2, <1>4, <1>7, <3>2, <4>1, <4>2
    <3> QED BY <1>4, <2>1, <3>1, <3>2
  <2> QED BY <2>1 DEF ReportsInOrder
<1>9. OrderInv'
  <2>1. \A i \in 1..Len(channel') : channel'[i].hashes = <<>> => channel'[i].number = 0
    BY <1>2, <1>4 DEF OrderInv
  <2>2. \A k \in 1..Len(state'.hashes) : NumberOf[state'.hashes[k]] = state'.number
    BY <1>1
  <2>3. tracker'.number < state'.number
    BY <1>1, <1>7 DEF OrderInv
  <2> QED BY <1>1, <1>7, <1>8, <2>1, <2>2, <2>3 DEF OrderInv
<1> QED BY <1>1, <1>5, <1>6, <1>9 DEF TypeInv

LEMMA NewSessionType ==
  NewSession \in Updates /\ NewSession.hashes = <<>> /\ NewSession.number = 0
BY KeyFacts DEF NewSession, Updates

LEMMA BroadcastKeepsOrder ==
  ASSUME TypeInv, OrderInv, broadcast_new_session
  PROVE  TypeInv' /\ OrderInv'
<1>1. /\ processing \in Heads /\ stage = "announcing" /\ stage' = "candidates" /\ Len(channel) < Capacity
      /\ storage' = Written(storage, "BlockData", processing, Plain, NumberOf[processing])
      /\ UNCHANGED <<state, processing, tracker, chain, ghost>> /\ channel' = Append(channel, NewSession)
      /\ StorageOK(storage)
  BY DEF broadcast_new_session, WriteBlockData, TypeInv, TaskTypes
<1>2. StorageOK(storage')
  <2>1. "BlockData" \in Prefixes \ {"Candidate", "Dispute"} /\ processing \in Keys /\ NumberOf[processing] \in Blocks
    BY <1>1, KeyFacts DEF Prefixes
  <2> QED BY <1>1, <2>1, PlainFits, WrittenOK
<1>3. channel \in Seq(Updates) /\ Capacity \in Nat
  BY OptionsAssumption DEF TypeInv, TaskTypes
<1>4. /\ channel' \in Seq(Updates) /\ Len(channel') = Len(channel) + 1 /\ Len(channel) \in Nat
      /\ \A i \in 1..Len(channel) : channel'[i] = channel[i]
      /\ channel'[Len(channel) + 1] = NewSession
  BY <1>1, <1>3, NewSessionType
<1>5. TaskTypes' /\ ChainTypes'
  BY <1>1, <1>3, <1>4 DEF TypeInv, TaskTypes, Stages, ChainTypes
<1>6. ReportsInOrder'
  <2>1. ASSUME NEW i \in 1..Len(channel'), channel'[i].hashes # <<>>
        PROVE  /\ tracker'.number < channel'[i].number /\ channel'[i].number < state'.number
               /\ \A j \in i + 1..Len(channel') :
                    channel'[j].hashes # <<>> => channel'[i].number < channel'[j].number
               /\ \A k \in 1..Len(channel'[i].hashes) : NumberOf[channel'[i].hashes[k]] = channel'[i].number
    <3>1. i \in 1..Len(channel)
      BY <1>4, <2>1, NewSessionType
    <3>2. \A j \in i + 1..Len(channel') : j \in i + 1..Len(channel) \/ j = Len(channel) + 1
      BY <1>4, <3>1
    <3>3. /\ channel[i].hashes # <<>> /\ tracker.number < channel[i].number /\ channel[i].number < state.number
          /\ \A j \in i + 1..Len(channel) : channel[j].hashes # <<>> => channel[i].number < channel[j].number
          /\ \A k \in 1..Len(channel[i].hashes) : NumberOf[channel[i].hashes[k]] = channel[i].number
      BY <1>4, <2>1, <3>1 DEF OrderInv, ReportsInOrder
    <3>4. \A j \in i + 1..Len(channel') : channel'[j].hashes # <<>> => j \in i + 1..Len(channel)
      BY <1>4, <3>2, NewSessionType
    <3>5. \A j \in i + 1..Len(channel) : channel'[j] = channel[j]
      BY <1>4, <3>1
    <3> QED BY <1>1, <1>4, <3>1, <3>3, <3>4, <3>5
  <2> QED BY <2>1 DEF ReportsInOrder
<1>7. OrderInv'
  <2>1. \A i \in 1..Len(channel') : channel'[i].hashes = <<>> => channel'[i].number = 0
    BY <1>4, NewSessionType DEF OrderInv
  <2> QED BY <1>1, <1>6, <2>1 DEF OrderInv
<1> QED BY <1>1, <1>2, <1>5, <1>7 DEF TypeInv

(* The tracker's steps. *)
LEMMA TailFacts ==
  ASSUME NEW S, NEW q \in Seq(S), q # <<>>
  PROVE  /\ Tail(q) \in Seq(S) /\ Len(Tail(q)) = Len(q) - 1 /\ Len(q) \in Nat \ {0} /\ Head(q) = q[1] /\ q[1] \in S
         /\ \A i \in 1..Len(Tail(q)) : Tail(q)[i] = q[i + 1] /\ i + 1 \in 1..Len(q)
OBVIOUS

LEMMA TrackerKeepsOrder ==
  ASSUME TypeInv, OrderInv, Tracker
  PROVE  TypeInv' /\ OrderInv'
<1> USE DEF TrackerBusy
<1>1. /\ channel \in Seq(Updates) /\ Len(channel) <= Capacity /\ Capacity \in Nat /\ StorageOK(storage)
      /\ state \in CollectorState
      /\ tracker \in [number : Blocks, hashes : Seq(Heads), found : BOOLEAN, panicked : BOOLEAN]
      /\ ghost = [noted |-> ghost.noted, told |-> ghost.told, skipped |-> ghost.skipped]
  BY OptionsAssumption DEF TypeInv, TaskTypes, ChainTypes
<1>2. UNCHANGED <<storage, state, processing, stage, chain>>
  BY DEF Tracker, TrackerTakes, TrackerReadsInherent, TrackerReadsRest
<1>3. CASE TrackerTakes
  <2>1. PICK m : m = Head(channel)
    OBVIOUS
  <2>2. /\ channel # <<>> /\ channel' = Tail(channel) /\ ghost' = [ghost EXCEPT !.told = @ \cup Report(m)]
        /\ tracker.hashes = <<>>
        /\ tracker' = IF m = NewSession THEN tracker
                      ELSE [tracker EXCEPT !.number = m.number, !.hashes = m.hashes]
    BY <1>3, <2>1 DEF TrackerTakes
  <2>3. /\ channel' \in Seq(Updates) /\ Len(channel') = Len(channel) - 1 /\ Len(channel) \in Nat \ {0}
        /\ m = channel[1] /\ m \in Updates /\ 1 \in 1..Len(channel)
        /\ \A i \in 1..Len(channel') : channel'[i] = channel[i + 1] /\ i + 1 \in 1..Len(channel)
    BY <1>1, <2>1, <2>2, TailFacts
  <2>4. /\ tracker' \in [number : Blocks, hashes : Seq(Heads), found : BOOLEAN, panicked : BOOLEAN]
        /\ tracker'.number \in {tracker.number, m.number}
        /\ \/ tracker'.number = tracker.number /\ tracker'.hashes = <<>>
           \/ tracker'.number = m.number /\ tracker'.hashes = m.hashes
    BY <1>1, <2>2, <2>3 DEF Updates
  <2>5. /\ tracker.number \in Nat /\ m.number \in Nat /\ state.number \in Nat /\ tracker'.number \in Nat
        /\ \A i \in 1..Len(channel) : channel[i].number \in Nat
    <3>1. \A i \in 1..Len(channel) : channel[i] \in Updates
      BY <1>1
    <3>2. \A u \in Updates : u.number \in Nat
      BY KeyFacts DEF Updates
    <3>3. state.number \in Nat /\ tracker.number \in Nat
      BY <1>1, KeyFacts DEF CollectorState
    <3> QED BY <2>3, <2>4, <3>1, <3>2, <3>3
  <2>6. TaskTypes' /\ ChainTypes'
    <3>1. ghost' = [noted |-> ghost'.noted, told |-> ghost'.told, skipped |-> ghost'.skipped]
      BY <1>1, <2>2
    <3>2. ChainTypes'
      BY <1>2, <3>1 DEF TypeInv, ChainTypes
    <3>3. Len(channel') <= Capacity
      BY <1>1, <2>3
    <3>4. TaskTypes'
      BY <1>2, <2>3, <2>4, <3>3 DEF TypeInv, TaskTypes
    <3> QED BY <3>2, <3>4
  <2>7. m.hashes # <<>> \/ m.number = 0
    BY <2>3 DEF OrderInv
  <2>8. m.hashes # <<>> =>
          /\ tracker.number < m.number /\ m.number < state.number
          /\ \A j \in 2..Len(channel) : channel[j].hashes # <<>> => m.number < channel[j].number
          /\ \A k \in 1..Len(m.hashes) : NumberOf[m.hashes[k]] = m.number
    <3>1. 1 \in 1..Len(channel) /\ m = channel[1] /\ \A j \in 2..Len(channel) : j \in 1 + 1..Len(channel)
      BY <2>3
    <3>2. ReportsInOrder
      BY DEF OrderInv
    <3> QED BY <3>1, <3>2 DEF ReportsInOrder
  <2>9. \A i \in 1..Len(channel) : channel[i].hashes # <<>> => tracker.number < channel[i].number
    BY DEF OrderInv, ReportsInOrder
  <2>10. \A j \in 2..Len(channel) : channel[j].hashes # <<>> => tracker'.number < channel[j].number
    <3>1. ASSUME NEW j \in 2..Len(channel), channel[j].hashes # <<>> PROVE tracker'.number < channel[j].number
      <4>1. j \in 1..Len(channel)
        OBVIOUS
      <4> QED BY <2>4, <2>5, <2>7, <2>8, <2>9, <3>1, <4>1
    <3> QED BY <3>1
  <2>11. ReportsInOrder'
    <3>1. ASSUME NEW i \in 1..Len(channel'), channel'[i].hashes # <<>>
          PROVE  /\ tracker'.number < channel'[i].number /\ channel'[i].number < state'.number
                 /\ \A j \in i + 1..Len(channel') :
                      channel'[j].hashes # <<>> => channel'[i].number < channel'[j].number
                 /\ \A k \in 1..Len(channel'[i].hashes) : NumberOf[channel'[i].hashes[k]] = channel'[i].number
      <4>1. channel'[i] = channel[i + 1] /\ i + 1 \in 2..Len(channel) /\ i + 1 \in 1..Len(channel)
        BY <2>3
      <4>2. /\ channel[i + 1].number < state.number
            /\ \A j \in (i + 1) + 1..Len(channel) :
                 channel[j].hashes # <<>> => channel[i + 1].number < channel[j].number
            /\ \A k \in 1..Len(channel[i + 1].hashes) : NumberOf[channel[i + 1].hashes[k]] = channel[i + 1].number
        BY <3>1, <4>1 DEF OrderInv, ReportsInOrder
      <4>3. \A j \in i + 1..Len(channel') : j + 1 \in (i + 1) + 1..Len(channel) /\ channel'[j] = channel[j + 1]
        BY <2>3, <3>1
      <4> QED BY <1>2, <2>10, <3>1, <4>1, <4>2, <4>3
    <3> QED BY <3>1 DEF ReportsInOrder
  <2>12. OrderInv'
    <3>1. \A i \in 1..Len(channel') : channel'[i].hashes = <<>> => channel'[i].number = 0
      BY <2>3 DEF OrderInv
    <3>2. \A k \in 1..Len(tracker'.hashes) : NumberOf[tracker'.hashes[k]] = tracker'.number
      BY <2>4, <2>7, <2>8
    <3>3. tracker.number <= state.number /\ (state.hashes # <<>> => tracker.number < state.number)
      BY DEF OrderInv
    <3>4. tracker'.number <= state'.number /\ (state'.hashes # <<>> => tracker'.number < state'.number)
      BY <1>2, <2>4, <2>5, <2>7, <2>8, <3>3
    <3> QED BY <1>2, <2>11, <3>1, <3>2, <3>4 DEF OrderInv
  <2> QED BY <1>1, <1>2, <2>6, <2>12 DEF TypeInv
<1>4. CASE TrackerReadsInherent \/ TrackerReadsRest
  <2>1. /\ channel' = channel /\ tracker.hashes # <<>>
        /\ \/ tracker'.hashes = tracker.hashes
           \/ tracker'.hashes = Tail(tracker.hashes)
        /\ tracker'.number = tracker.number
        /\ ghost' = [noted |-> ghost'.noted, told |-> ghost'.told, skipped |-> ghost'.skipped]
    BY <1>1, <1>4 DEF TrackerReadsInherent, TrackerReadsRest
  <2>2. /\ Tail(tracker.hashes) \in Seq(Heads)
        /\ \A k \in 1..Len(Tail(tracker.hashes)) :
             Tail(tracker.hashes)[k] = tracker.hashes[k + 1] /\ k + 1 \in 1..Len(tracker.hashes)
    BY <1>1, <2>1, TailFacts
  <2>3. tracker' \in [number : Blocks, hashes : Seq(Heads), found : BOOLEAN, panicked : BOOLEAN]
    BY <1>1, <1>4, <2>2 DEF TrackerReadsInherent, TrackerReadsRest
  <2>4. TaskTypes' /\ ChainTypes'
    BY <1>2, <2>1, <2>3 DEF TypeInv, TaskTypes, ChainTypes
  <2>5. \A k \in 1..Len(tracker'.hashes) : NumberOf[tracker'.hashes[k]] = tracker'.number
    <3>1. \A k \in 1..Len(tracker.hashes) : NumberOf[tracker.hashes[k]] = tracker.number
      BY DEF OrderInv
    <3>2. CASE tracker'.hashes = tracker.hashes
      BY <2>1, <3>1, <3>2
    <3>3. CASE tracker'.hashes = Tail(tracker.hashes)
      BY <2>1, <2>2, <3>1, <3>3
    <3> QED BY <2>1, <3>2, <3>3
  <2>6. OrderInv'
    BY <1>2, <2>1, <2>5 DEF OrderInv, ReportsInOrder
  <2> QED BY <1>1, <1>2, <2>4, <2>6 DEF TypeInv
<1> QED BY <1>3, <1>4 DEF Tracker

LEMMA DoneKeepsOrder ==
  ASSUME TypeInv, OrderInv, EventsDone
  PROVE  TypeInv' /\ OrderInv'
<1>1. /\ stage' = "idle" /\ processing' = Absent /\ UNCHANGED <<storage, state, channel, tracker, chain, ghost>>
  BY DEF EventsDone
<1>2. TaskTypes' /\ ChainTypes'
  BY <1>1 DEF TypeInv, TaskTypes, ChainTypes, Stages
<1>3. OrderInv'
  BY <1>1 DEF OrderInv, ReportsInOrder
<1> QED BY <1>1, <1>2, <1>3 DEF TypeInv

LEMMA NextKeepsOrder == TypeInv /\ OrderInv /\ [Next]_vars => TypeInv' /\ OrderInv'
<1> SUFFICES ASSUME TypeInv, OrderInv, [Next]_vars PROVE TypeInv' /\ OrderInv'
  OBVIOUS
<1>1. CASE vars' = vars
  BY <1>1 DEF vars, TypeInv, TaskTypes, ChainTypes, OrderInv, ReportsInOrder
<1>2. CASE \E h \in Heads : Finalize(h) \/ NewBest(h)
  BY <1>2, FinalizeKeepsOrder, NewBestKeepsOrder
<1>3. CASE \E c \in Candidates :
             \/ process_candidate_backed(c) \/ process_candidate_included(c) \/ process_candidate_timed_out(c)
             \/ process_dispute_initiated(c) \/ process_dispute_concluded(c)
  BY <1>3, EventKeepsOrder
<1>4. CASE update_state \/ broadcast_new_session \/ EventsDone \/ Tracker
  BY <1>4, UpdateKeepsOrder, BroadcastKeepsOrder, DoneKeepsOrder, TrackerKeepsOrder
<1> QED BY <1>1, <1>2, <1>3, <1>4 DEF Next

LEMMA OrderInductive == Spec => [](TypeInv /\ OrderInv)
<1>1. Init => TypeInv /\ OrderInv
  BY InitTypeInv, InitOrderInv
<1>2. (TypeInv /\ OrderInv) /\ [Next]_vars => (TypeInv /\ OrderInv)'
  BY NextKeepsOrder
<1> QED BY <1>1, <1>2, PTL DEF Spec

(* Every record, report and task of the collector has its type, and the channel never
   holds more than its capacity. *)
THEOREM TypeCorrect == Spec => []TypeOK
<1>1. TypeInv => TypeOK
  BY DEF TypeInv, TypeOK, TaskTypes, StorageOK, IndexType, CandidateRecord
<1> QED BY <1>1, OrderInductive, PTL

(* The blocks reported to the tracker have ascending numbers, below the one being
   collected, however the best chain is reorganised: process_new_head() reports a block
   only when the next one is higher. *)
THEOREM ReportsComeInOrder == Spec => []ReportsInOrder
<1>1. OrderInv => ReportsInOrder
  BY DEF OrderInv
<1> QED BY <1>1, OrderInductive, PTL
-----------------------------------------------------------------------------
(* The second layer: finalized heads are followed. *)
LEMMA InStepFinalize ==
  ASSUME Followed = "Finalized", TypeInv, InStep, NEW h \in Heads, Finalize(h)
  PROVE  /\ InStep' /\ stage' = "updating" /\ processing' = h /\ NumberOf[h] = state.number + 1
         /\ state' \in CollectorState /\ \E n \in Blocks : state' = [state EXCEPT !.finalized = n]
         /\ UNCHANGED <<channel, tracker, ghost>> /\ stage = "idle"
         /\ storage' = IF HrmpChannels
                         THEN Written(storage, "InboundOutboundHrmpChannels", h, Plain, NumberOf[h])
                         ELSE storage
<1>1. /\ stage = "idle" /\ UNCHANGED <<channel, tracker, ghost>>
      /\ chain'.finalized = h /\ chain'.events = chain.events
  BY FinalizeFacts
<1>2. PICK cs \in CollectorState : /\ \E n \in Blocks : cs = [state EXCEPT !.finalized = n]
                                   /\ processing' = h /\ process_new_head(storage, cs, h)
  BY FinalizeFacts
<1>3. /\ state \in CollectorState /\ state.number \in Nat /\ NumberOf[h] \in Nat /\ FinalizedNumber \in Nat
      /\ NumberOf[h] = FinalizedNumber + 1
  BY KeyFacts DEF TypeInv, ChainTypes, CollectorState, FinalizedNumber, Finalize
<1>4. FinalizedNumber = state.number
  BY <1>1, <1>3 DEF InStep
<1>5. cs.number = state.number
  BY <1>2, <1>3 DEF CollectorState
<1>6. /\ state' = cs /\ stage' = "updating"
      /\ storage' = IF HrmpChannels
                      THEN Written(storage, "InboundOutboundHrmpChannels", h, Plain, NumberOf[h])
                      ELSE storage
  BY <1>2, <1>3, <1>4, <1>5 DEF process_new_head
<1>7. /\ chain.replay = Absent
      /\ chain.announced \subseteq {g \in Heads : NumberOf[g] <= FinalizedNumber}
      /\ \A x \in chain.events :
           chain.finalized # Absent /\ x[3] \in AncestorsOf[chain.finalized] \cup {chain.finalized}
  BY DEF InStep
<1>8. h \notin chain.announced
  BY <1>3, <1>7
<1>9. chain' = [[chain EXCEPT !.announced = @ \cup {h}, !.replay = Absent] EXCEPT !.finalized = h]
  BY <1>8 DEF Finalize, Announced
<1>10. chain'.replay = Absent /\ chain'.announced = chain.announced \cup {h}
  <2>1. chain = [events |-> chain.events, finalized |-> chain.finalized, best |-> chain.best,
                 announced |-> chain.announced, repeats |-> chain.repeats, replay |-> chain.replay]
    BY DEF TypeInv, ChainTypes
  <2> QED BY <1>9, <2>1
<1>11. FinalizedNumber' = NumberOf[h]
  BY <1>1, AbsentAssumption DEF FinalizedNumber
<1>12. \A x \in chain'.events :
         chain'.finalized # Absent /\ x[3] \in AncestorsOf[chain'.finalized] \cup {chain'.finalized}
  <2>1. chain.finalized # Absent => chain.finalized \in AncestorsOf[h]
    BY DEF Finalize
  <2>2. chain.finalized # Absent => AncestorsOf[chain.finalized] \cup {chain.finalized} \subseteq AncestorsOf[h]
    BY <2>1, ChainAssumption
  <2> QED BY <1>1, <1>7, <2>2, AbsentAssumption
<1>13. InStep'
  <2>1. chain'.announced \subseteq {g \in Heads : NumberOf[g] <= FinalizedNumber'}
    <3>1. ASSUME NEW g \in chain.announced PROVE g \in Heads /\ NumberOf[g] <= NumberOf[h]
      <4>1. g \in Heads /\ NumberOf[g] <= FinalizedNumber /\ NumberOf[g] \in Nat
        BY <1>7, KeyFacts
      <4> QED BY <4>1, <1>3
    <3> QED BY <1>3, <1>10, <1>11, <3>1
  <2> QED BY <1>1, <1>2, <1>3, <1>4, <1>5, <1>6, <1>10, <1>11, <1>12, <2>1 DEF InStep
<1> QED BY <1>1, <1>2, <1>3, <1>4, <1>6, <1>13

LEMMA InStepNewBest ==
  ASSUME Followed = "Finalized", TypeInv, InStep, NEW h \in Heads, NewBest(h)
  PROVE  /\ InStep' /\ UNCHANGED <<state, stage, processing, channel, tracker, ghost>> /\ stage = "idle"
         /\ chain'.events = chain.events
         /\ NumberOf[h] <= state.number + MaxLead
         /\ storage' \in {storage, Written(storage, "RelevantFinalizedBlockNumber", h, Plain, NumberOf[h])}
<1>1. /\ stage = "idle" /\ processing = Absent /\ UNCHANGED <<channel, tracker, ghost>>
      /\ chain'.finalized = chain.finalized /\ chain'.events = chain.events
      /\ chain'.announced = chain.announced /\ chain'.replay = chain.replay
      /\ NumberOf[h] <= FinalizedNumber + MaxLead
  BY NewBestFacts
<1>2. PICK st \in {storage, Written(storage, "RelevantFinalizedBlockNumber", h, Plain, NumberOf[h])} :
        NotFollowed(st, state)
  BY NewBestFacts
<1>3. storage' = st /\ state' = state /\ stage' = "idle" /\ processing' = Absent
  BY <1>2 DEF NotFollowed
<1>4. state.number \in Nat
  BY KeyFacts DEF TypeInv, CollectorState
<1>5. FinalizedNumber = state.number
  BY <1>1, <1>4 DEF InStep
<1>6. InStep'
  BY <1>1, <1>3 DEF InStep, FinalizedNumber
<1> QED BY <1>1, <1>2, <1>3, <1>5, <1>6

LEMMA InStepUpdate ==
  ASSUME TypeInv, InStep, update_state
  PROVE  InStep' /\ processing \in Heads /\ NumberOf[processing] = state.number + 1
<1>1. /\ processing \in Heads /\ stage = "updating" /\ stage' \in {"announcing", "candidates"}
      /\ state'.number = NumberOf[processing] /\ UNCHANGED <<processing, chain>>
      /\ processing # Absent /\ NumberOf[processing] \in Nat
  BY UpdateFacts, AbsentAssumption, KeyFacts
<1>2. FinalizedNumber = NumberOf[processing] /\ FinalizedNumber = state.number + 1
  BY <1>1 DEF InStep, FinalizedNumber
<1>3. FinalizedNumber' = FinalizedNumber
  BY <1>1 DEF FinalizedNumber
<1> QED BY <1>1, <1>2, <1>3 DEF InStep

(* While the events of a head are processed, the state has its number. *)
LEMMA EventNumber ==
  ASSUME TypeInv, InStep, NEW e \in Kinds, NEW c \in Candidates, NextEvent(e, c)
  PROVE  /\ processing \in Heads /\ processing = chain.finalized /\ NumberOf[processing] = state.number
         /\ state.number \in Nat /\ state.number >= 1
         /\ Possible(e, c, processing) /\ <<e, c, processing>> \in chain'.events
<1>1. /\ processing \in Heads /\ stage \in {"candidates", "initiated", "concluded"} /\ processing # Absent
  BY EventFacts, AbsentAssumption
<1>2. chain.replay = Absent /\ processing = chain.finalized
  BY <1>1 DEF InStep
<1>3. Possible(e, c, processing) /\ <<e, c, processing>> \in chain'.events
  BY <1>2, EventFacts
<1>4. state.number \in Nat
  BY KeyFacts DEF TypeInv, CollectorState
<1>5. FinalizedNumber = NumberOf[processing] /\ FinalizedNumber = state.number /\ FinalizedNumber >= 1
  BY <1>1, <1>2, <1>4 DEF InStep, FinalizedNumber
<1> QED BY <1>1, <1>2, <1>3, <1>4, <1>5

LEMMA InStepEvent ==
  ASSUME TypeInv, InStep, NEW e \in Kinds, NEW c \in Candidates, NextEvent(e, c), state'.number = state.number
  PROVE  InStep'
<1>1. /\ processing \in Heads /\ processing # Absent /\ UNCHANGED processing
      /\ stage \in {"candidates", "initiated", "concluded"}
      /\ stage' \in {"candidates", "initiated", "concluded"}
      /\ chain'.finalized = chain.finalized /\ chain'.announced = chain.announced
      /\ chain'.events \subseteq chain.events \cup {<<e, c, processing>>}
      /\ chain.replay = Absent => chain'.replay = Absent
  BY EventFacts, AbsentAssumption
<1>2. processing = chain.finalized /\ chain'.replay = Absent
  BY <1>1 DEF InStep
<1>3. \A x \in chain'.events :
        chain'.finalized # Absent /\ x[3] \in AncestorsOf[chain'.finalized] \cup {chain'.finalized}
  BY <1>1, <1>2 DEF InStep
<1>4. FinalizedNumber' = FinalizedNumber
  BY <1>1 DEF FinalizedNumber
<1> QED BY <1>1, <1>2, <1>3, <1>4 DEF InStep

(* What is reported for a state and for the channel. *)
LEMMA SameReport ==
  ASSUME NEW a, NEW b, a.number = b.number, a.backed = b.backed, a.included = b.included,
         a.timed_out = b.timed_out, a.disputes = b.disputes
  PROVE  Report(a) = Report(b)
BY DEF Report

ToReport(cs) == Report([cs EXCEPT !.disputes = Concluded(@)])

OnChannel(ch) == UNION {Report(ch[i]) : i \in 1..Len(ch)}

LEMMA ToReportParts ==
  ASSUME NEW cs \in CollectorState
  PROVE  ToReport(cs) = {<<"Backed", cs.backed[i], cs.number>> : i \in 1..Len(cs.backed)} \cup
                        {<<"Included", cs.included[i], cs.number>> : i \in 1..Len(cs.included)} \cup
                        {<<"TimedOut", cs.timed_out[i], cs.number>> : i \in 1..Len(cs.timed_out)} \cup
                        {<<"DisputeConcluded", d.candidate, cs.number>> : d \in Concluded(cs.disputes)}
<1>1. PICK r : r = [cs EXCEPT !.disputes = Concluded(@)]
  OBVIOUS
<1>2. /\ r.number = cs.number /\ r.backed = cs.backed /\ r.included = cs.included
      /\ r.timed_out = cs.timed_out /\ r.disputes = Concluded(cs.disputes)
  BY <1>1 DEF CollectorState
<1> QED BY <1>1, <1>2 DEF ToReport, Report

LEMMA SameToReport ==
  ASSUME NEW a \in CollectorState, NEW b \in CollectorState, a.number = b.number, a.backed = b.backed,
         a.included = b.included, a.timed_out = b.timed_out, Concluded(a.disputes) = Concluded(b.disputes)
  PROVE  ToReport(a) = ToReport(b)
<1>1. PICK ra : ra = [a EXCEPT !.disputes = Concluded(@)]
  OBVIOUS
<1>2. PICK rb : rb = [b EXCEPT !.disputes = Concluded(@)]
  OBVIOUS
<1>3. /\ ra.number = rb.number /\ ra.backed = rb.backed /\ ra.included = rb.included
      /\ ra.timed_out = rb.timed_out /\ ra.disputes = rb.disputes
  BY <1>1, <1>2 DEF CollectorState
<1> QED BY <1>1, <1>2, <1>3, SameReport DEF ToReport

LEMMA OnChannelAppend ==
  ASSUME NEW ch \in Seq(Updates), NEW m
  PROVE  OnChannel(Append(ch, m)) = OnChannel(ch) \cup Report(m)
<1>1. PICK longer : longer = Append(ch, m)
  OBVIOUS
<1>2. /\ Len(longer) = Len(ch) + 1 /\ Len(ch) \in Nat /\ longer[Len(ch) + 1] = m
      /\ \A i \in 1..Len(ch) : longer[i] = ch[i]
  BY <1>1
<1>3. 1..Len(longer) = 1..Len(ch) \cup {Len(ch) + 1}
  BY <1>2
<1>4. OnChannel(longer) = OnChannel(ch) \cup Report(m)
  <2>1. ASSUME NEW x \in OnChannel(longer) PROVE x \in OnChannel(ch) \cup Report(m)
    <3>1. PICK i \in 1..Len(longer) : x \in Report(longer[i])
      BY <2>1 DEF OnChannel
    <3> QED BY <1>2, <1>3, <3>1 DEF OnChannel
  <2>2. OnChannel(ch) \subseteq OnChannel(longer)
    <3>1. ASSUME NEW x \in OnChannel(ch) PROVE x \in OnChannel(longer)
      <4>1. PICK i \in 1..Len(ch) : x \in Report(ch[i])
        BY <3>1 DEF OnChannel
      <4> QED BY <1>2, <1>3, <4>1 DEF OnChannel
    <3> QED BY <3>1
  <2>3. Report(m) \subseteq OnChannel(longer)
    <3>1. Len(ch) + 1 \in 1..Len(longer)
      BY <1>2
    <3> QED BY <1>2, <3>1 DEF OnChannel
  <2> QED BY <2>1, <2>2, <2>3
<1> QED BY <1>1, <1>4

LEMMA OnChannelTail ==
  ASSUME NEW ch \in Seq(Updates), ch # <<>>
  PROVE  OnChannel(ch) = Report(Head(ch)) \cup OnChannel(Tail(ch))
<1>1. PICK rest : rest = Tail(ch)
  OBVIOUS
<1>2. /\ Len(rest) = Len(ch) - 1 /\ Len(ch) \in Nat \ {0} /\ Head(ch) = ch[1]
      /\ \A i \in 1..Len(rest) : rest[i] = ch[i + 1] /\ i + 1 \in 1..Len(ch)
  BY <1>1, TailFacts
<1>3. \A i \in 1..Len(ch) : i = 1 \/ (i - 1 \in 1..Len(rest) /\ rest[i - 1] = ch[i])
  <2>1. ASSUME NEW i \in 1..Len(ch), i # 1 PROVE i - 1 \in 1..Len(rest) /\ rest[i - 1] = ch[i]
    <3>1. i - 1 \in 1..Len(rest) /\ (i - 1) + 1 = i
      BY <1>2, <2>1
    <3> QED BY <1>2, <3>1
  <2> QED BY <2>1
<1>4. ASSUME NEW x \in OnChannel(ch) PROVE x \in Report(Head(ch)) \cup OnChannel(rest)
  <2>1. PICK i \in 1..Len(ch) : x \in Report(ch[i])
    BY <1>4 DEF OnChannel
  <2> QED BY <1>2, <1>3, <2>1 DEF OnChannel
<1>5. ASSUME NEW x \in OnChannel(rest) PROVE x \in OnChannel(ch)
  <2>1. PICK i \in 1..Len(rest) : x \in Report(rest[i])
    BY <1>5 DEF OnChannel
  <2> QED BY <1>2, <2>1 DEF OnChannel
<1>6. Report(Head(ch)) \subseteq OnChannel(ch)
  <2>1. 1 \in 1..Len(ch)
    BY <1>2
  <2> QED BY <1>2, <2>1 DEF OnChannel
<1> QED BY <1>1, <1>4, <1>5, <1>6

LEMMA AppendedReport ==
  ASSUME NEW q \in Seq(Candidates), NEW c \in Candidates, NEW kind, NEW n
  PROVE  {<<kind, Append(q, c)[i], n>> : i \in 1..Len(Append(q, c))}
           = {<<kind, q[i], n>> : i \in 1..Len(q)} \cup {<<kind, c, n>>}
<1>1. PICK longer : longer = Append(q, c)
  OBVIOUS
<1>2. /\ Len(longer) = Len(q) + 1 /\ Len(q) \in Nat /\ longer[Len(q) + 1] = c
      /\ \A i \in 1..Len(q) : longer[i] = q[i]
  BY <1>1
<1>3. 1..Len(longer) = 1..Len(q) \cup {Len(q) + 1}
  BY <1>2
<1>4. {<<kind, longer[i], n>> : i \in 1..Len(longer)} = {<<kind, q[i], n>> : i \in 1..Len(q)} \cup {<<kind, c, n>>}
  BY <1>2, <1>3
<1> QED BY <1>1, <1>4

LEMMA ConcludedAppend ==
  ASSUME NEW ds \in Seq(DisputeInfos(Candidates)), NEW info
  PROVE  Concluded(Append(ds, info)) = Concluded(ds) \cup (IF info.concluded # 0 THEN {info} ELSE {})
<1>1. PICK longer : longer = Append(ds, info)
  OBVIOUS
<1>2. /\ Len(longer) = Len(ds) + 1 /\ Len(ds) \in Nat /\ longer[Len(ds) + 1] = info
      /\ DOMAIN longer = DOMAIN ds \cup {Len(ds) + 1}
      /\ \A i \in DOMAIN ds : longer[i] = ds[i]
  BY <1>1
<1>3. ASSUME NEW d \in Concluded(longer) PROVE d \in Concluded(ds) \cup (IF info.concluded # 0 THEN {info} ELSE {})
  <2>1. PICK i \in DOMAIN longer : longer[i].concluded # 0 /\ d = longer[i]
    BY <1>3 DEF Concluded
  <2>2. CASE i \in DOMAIN ds
    BY <1>2, <2>1, <2>2 DEF Concluded
  <2>3. CASE i = Len(ds) + 1
    BY <1>2, <2>1, <2>3
  <2> QED BY <1>2, <2>1, <2>2, <2>3
<1>4. ASSUME NEW d \in Concluded(ds) PROVE d \in Concluded(longer)
  <2>1. PICK i \in DOMAIN ds : ds[i].concluded # 0 /\ d = ds[i]
    BY <1>4 DEF Concluded
  <2>2. i \in DOMAIN longer /\ longer[i] = ds[i]
    BY <1>2, <2>1
  <2> QED BY <2>1, <2>2 DEF Concluded
<1>5. info.concluded # 0 => info \in Concluded(longer)
  <2>1. Len(ds) + 1 \in DOMAIN longer /\ longer[Len(ds) + 1] = info
    BY <1>2
  <2> QED BY <2>1 DEF Concluded
<1> QED BY <1>1, <1>3, <1>4, <1>5

(* The reports and the events. *)
Faithful == ghost.noted = ghost.told \cup OnChannel(channel) \cup ToReport(state)

LEMMA FaithfulIsReportsFaithful == ReportsFaithful <=> Faithful
BY DEF ReportsFaithful, Faithful, OnChannel, ToReport

LEMMA BackedFaithful ==
  ASSUME TypeInv, InStep, Faithful, NEW c \in Candidates, process_candidate_backed(c)
  PROVE  Faithful'
<1>1. NextEvent("Backed", c) /\ "Backed" \in Kinds
  BY DEF process_candidate_backed, Kinds
<1>2. UNCHANGED channel /\ NumberOf[processing] = state.number
  BY <1>1, EventFacts, EventNumber
<1>3. \/ UNCHANGED <<state, ghost>>
      \/ state' = [state EXCEPT !.backed = Append(@, c)] /\ Note("Backed", c)
  BY DEF process_candidate_backed
<1>4. state \in CollectorState /\ state.backed \in Seq(Candidates) /\ state' \in CollectorState
      /\ ghost = [noted |-> ghost.noted, told |-> ghost.told, skipped |-> ghost.skipped]
  BY BackedTypes DEF TypeInv, CollectorState, SameBlock, ChainTypes
<1>5. CASE UNCHANGED <<state, ghost>>
  BY <1>2, <1>5 DEF Faithful
<1>6. CASE state' = [state EXCEPT !.backed = Append(@, c)] /\ Note("Backed", c)
  <2>1. /\ state'.number = state.number /\ state'.backed = Append(state.backed, c)
        /\ state'.included = state.included /\ state'.timed_out = state.timed_out /\ state'.disputes = state.disputes
    BY <1>4, <1>6 DEF CollectorState
  <2>2. ToReport(state') = ToReport(state) \cup {<<"Backed", c, state.number>>}
    <3>1. {<<"Backed", state'.backed[i], state'.number>> : i \in 1..Len(state'.backed)}
            = {<<"Backed", state.backed[i], state.number>> : i \in 1..Len(state.backed)} \cup {<<"Backed", c, state.number>>}
      BY <1>4, <2>1, AppendedReport
    <3>2. PICK b : b = {<<"Backed", state.backed[k], state.number>> : k \in 1..Len(state.backed)}
      OBVIOUS
    <3>3. PICK i : i = {<<"Included", state.included[k], state.number>> : k \in 1..Len(state.included)}
      OBVIOUS
    <3>4. PICK t : t = {<<"TimedOut", state.timed_out[k], state.number>> : k \in 1..Len(state.timed_out)}
      OBVIOUS
    <3>5. PICK d : d = {<<"DisputeConcluded", x.candidate, state.number>> : x \in Concluded(state.disputes)}
      OBVIOUS
    <3>6. ToReport(state) = b \cup i \cup t \cup d
      BY <1>4, <3>2, <3>3, <3>4, <3>5, ToReportParts
    <3>7. ToReport(state') = (b \cup {<<"Backed", c, state.number>>}) \cup i \cup t \cup d
      BY <1>4, <2>1, <3>1, <3>2, <3>3, <3>4, <3>5, ToReportParts
    <3> QED BY <3>6, <3>7
  <2>3. ghost'.noted = ghost.noted \cup {<<"Backed", c, state.number>>} /\ ghost'.told = ghost.told
    BY <1>2, <1>4, <1>6 DEF Note
  <2>4. ToReport(state)' = ToReport(state')
    BY DEF ToReport, Report, Concluded
  <2> QED BY <1>2, <2>2, <2>3, <2>4 DEF Faithful
<1> QED BY <1>3, <1>5, <1>6

LEMMA IncludedFaithful ==
  ASSUME TypeInv, InStep, Faithful, NEW c \in Candidates, process_candidate_included(c)
  PROVE  Faithful'
<1>1. NextEvent("Included", c) /\ "Included" \in Kinds
  BY DEF process_candidate_included, Kinds
<1>2. UNCHANGED channel /\ NumberOf[processing] = state.number
  BY <1>1, EventFacts, EventNumber
<1>3. \/ UNCHANGED <<state, ghost>>
      \/ state' = [state EXCEPT !.included = Append(@, c)] /\ Note("Included", c)
  BY DEF process_candidate_included
<1>4. state \in CollectorState /\ state.included \in Seq(Candidates) /\ state' \in CollectorState
      /\ ghost = [noted |-> ghost.noted, told |-> ghost.told, skipped |-> ghost.skipped]
  BY IncludedTypes DEF TypeInv, CollectorState, SameBlock, ChainTypes
<1>5. CASE UNCHANGED <<state, ghost>>
  BY <1>2, <1>5 DEF Faithful
<1>6. CASE state' = [state EXCEPT !.included = Append(@, c)] /\ Note("Included", c)
  <2>1. /\ state'.number = state.number /\ state'.included = Append(state.included, c)
        /\ state'.backed = state.backed /\ state'.timed_out = state.timed_out /\ state'.disputes = state.disputes
    BY <1>4, <1>6 DEF CollectorState
  <2>2. ToReport(state') = ToReport(state) \cup {<<"Included", c, state.number>>}
    <3>1. {<<"Included", state'.included[i], state'.number>> : i \in 1..Len(state'.included)}
            = {<<"Included", state.included[i], state.number>> : i \in 1..Len(state.included)}
              \cup {<<"Included", c, state.number>>}
      BY <1>4, <2>1, AppendedReport
    <3>2. PICK b : b = {<<"Backed", state.backed[k], state.number>> : k \in 1..Len(state.backed)}
      OBVIOUS
    <3>3. PICK i : i = {<<"Included", state.included[k], state.number>> : k \in 1..Len(state.included)}
      OBVIOUS
    <3>4. PICK t : t = {<<"TimedOut", state.timed_out[k], state.number>> : k \in 1..Len(state.timed_out)}
      OBVIOUS
    <3>5. PICK d : d = {<<"DisputeConcluded", x.candidate, state.number>> : x \in Concluded(state.disputes)}
      OBVIOUS
    <3>6. ToReport(state) = b \cup i \cup t \cup d
      BY <1>4, <3>2, <3>3, <3>4, <3>5, ToReportParts
    <3>7. ToReport(state') = b \cup (i \cup {<<"Included", c, state.number>>}) \cup t \cup d
      BY <1>4, <2>1, <3>1, <3>2, <3>3, <3>4, <3>5, ToReportParts
    <3> QED BY <3>6, <3>7
  <2>3. ghost'.noted = ghost.noted \cup {<<"Included", c, state.number>>} /\ ghost'.told = ghost.told
    BY <1>2, <1>4, <1>6 DEF Note
  <2>4. ToReport(state)' = ToReport(state')
    BY DEF ToReport, Report, Concluded
  <2> QED BY <1>2, <2>2, <2>3, <2>4 DEF Faithful
<1> QED BY <1>3, <1>5, <1>6

LEMMA TimedOutFaithful ==
  ASSUME TypeInv, InStep, Faithful, NEW c \in Candidates, process_candidate_timed_out(c)
  PROVE  Faithful'
<1>1. NextEvent("TimedOut", c) /\ "TimedOut" \in Kinds
  BY DEF process_candidate_timed_out, Kinds
<1>2. UNCHANGED channel /\ NumberOf[processing] = state.number
  BY <1>1, EventFacts, EventNumber
<1>3. \/ UNCHANGED <<state, ghost>>
      \/ state' = [state EXCEPT !.timed_out = Append(@, c)] /\ Note("TimedOut", c)
  BY DEF process_candidate_timed_out
<1>4. state \in CollectorState /\ state.timed_out \in Seq(Candidates) /\ state' \in CollectorState
      /\ ghost = [noted |-> ghost.noted, told |-> ghost.told, skipped |-> ghost.skipped]
  BY TimedOutTypes DEF TypeInv, CollectorState, SameBlock, ChainTypes
<1>5. CASE UNCHANGED <<state, ghost>>
  BY <1>2, <1>5 DEF Faithful
<1>6. CASE state' = [state EXCEPT !.timed_out = Append(@, c)] /\ Note("TimedOut", c)
  <2>1. /\ state'.number = state.number /\ state'.timed_out = Append(state.timed_out, c)
        /\ state'.backed = state.backed /\ state'.included = state.included /\ state'.disputes = state.disputes
    BY <1>4, <1>6 DEF CollectorState
  <2>2. ToReport(state') = ToReport(state) \cup {<<"TimedOut", c, state.number>>}
    <3>1. {<<"TimedOut", state'.timed_out[i], state'.number>> : i \in 1..Len(state'.timed_out)}
            = {<<"TimedOut", state.timed_out[i], state.number>> : i \in 1..Len(state.timed_out)}
              \cup {<<"TimedOut", c, state.number>>}
      BY <1>4, <2>1, AppendedReport
    <3>2. PICK b : b = {<<"Backed", state.backed[k], state.number>> : k \in 1..Len(state.backed)}
      OBVIOUS
    <3>3. PICK i : i = {<<"Included", state.included[k], state.number>> : k \in 1..Len(state.included)}
      OBVIOUS
    <3>4. PICK t : t = {<<"TimedOut", state.timed_out[k], state.number>> : k \in 1..Len(state.timed_out)}
      OBVIOUS
    <3>5. PICK d : d = {<<"DisputeConcluded", x.candidate, state.number>> : x \in Concluded(state.disputes)}
      OBVIOUS
    <3>6. ToReport(state) = b \cup i \cup t \cup d
      BY <1>4, <3>2, <3>3, <3>4, <3>5, ToReportParts
    <3>7. ToReport(state') = b \cup i \cup (t \cup {<<"TimedOut", c, state.number>>}) \cup d
      BY <1>4, <2>1, <3>1, <3>2, <3>3, <3>4, <3>5, ToReportParts
    <3> QED BY <3>6, <3>7
  <2>3. ghost'.noted = ghost.noted \cup {<<"TimedOut", c, state.number>>} /\ ghost'.told = ghost.told
    BY <1>2, <1>4, <1>6 DEF Note
  <2>4. ToReport(state)' = ToReport(state')
    BY DEF ToReport, Report, Concluded
  <2> QED BY <1>2, <2>2, <2>3, <2>4 DEF Faithful
<1> QED BY <1>3, <1>5, <1>6

(* A dispute that starts is kept for later, and not reported. *)
LEMMA InitiatedFaithful ==
  ASSUME TypeInv, InStep, Faithful, NEW c \in Candidates, process_dispute_initiated(c)
  PROVE  Faithful'
<1>1. NextEvent("DisputeInitiated", c) /\ "DisputeInitiated" \in Kinds
  BY DEF process_dispute_initiated, Kinds
<1>2. UNCHANGED <<channel, ghost>>
  BY <1>1, EventFacts DEF process_dispute_initiated
<1>3. PICK info : info = [candidate |-> c, initiated |-> state.number, concluded |-> 0]
  OBVIOUS
<1>4. UNCHANGED state \/ state' = [state EXCEPT !.disputes = Append(@, info)]
  BY <1>3 DEF process_dispute_initiated
<1>5. state \in CollectorState /\ state.disputes \in Seq(DisputeInfos(Candidates)) /\ state' \in CollectorState
  BY InitiatedTypes DEF TypeInv, CollectorState, SameBlock
<1>6. CASE UNCHANGED state
  BY <1>2, <1>6 DEF Faithful
<1>7. CASE state' = [state EXCEPT !.disputes = Append(@, info)]
  <2>1. /\ state'.number = state.number /\ state'.disputes = Append(state.disputes, info)
        /\ state'.backed = state.backed /\ state'.included = state.included /\ state'.timed_out = state.timed_out
    BY <1>5, <1>7 DEF CollectorState
  <2>2. Concluded(state'.disputes) = Concluded(state.disputes)
    BY <1>3, <1>5, <2>1, ConcludedAppend
  <2>3. ToReport(state') = ToReport(state)
    BY <1>5, <2>1, <2>2, ToReportParts
  <2>4. ToReport(state)' = ToReport(state')
    BY DEF ToReport, Report, Concluded
  <2> QED BY <1>2, <2>3, <2>4 DEF Faithful
<1> QED BY <1>4, <1>6, <1>7

LEMMA ConcludedFaithful ==
  ASSUME TypeInv, InStep, Faithful, NEW c \in Candidates, process_dispute_concluded(c)
  PROVE  Faithful'
<1>1. NextEvent("DisputeConcluded", c) /\ "DisputeConcluded" \in Kinds
  BY DEF process_dispute_concluded, Kinds
<1>2. /\ UNCHANGED channel /\ NumberOf[processing] = state.number
      /\ state.number \in Nat /\ state.number >= 1 /\ state.number \in Blocks
  BY <1>1, EventFacts, EventNumber DEF TypeInv, CollectorState
<1>3. PICK info : info = [storage.rec[<<"Dispute", c>>] EXCEPT !.concluded = state.number]
  OBVIOUS
<1>4. \/ UNCHANGED <<state, ghost>>
      \/ /\ Holds(storage, "Dispute", c)
         /\ state' = [state EXCEPT !.disputes = Append(@, info)] /\ Note("DisputeConcluded", c)
  BY <1>3 DEF process_dispute_concluded
<1>5. state \in CollectorState /\ state.disputes \in Seq(DisputeInfos(Candidates)) /\ state' \in CollectorState
      /\ ghost = [noted |-> ghost.noted, told |-> ghost.told, skipped |-> ghost.skipped]
  BY ConcludedTypes DEF TypeInv, CollectorState, SameBlock, ChainTypes
<1>6. CASE UNCHANGED <<state, ghost>>
  BY <1>2, <1>6 DEF Faithful
<1>7. CASE /\ Holds(storage, "Dispute", c)
           /\ state' = [state EXCEPT !.disputes = Append(@, info)] /\ Note("DisputeConcluded", c)
  <2>1. /\ state'.number = state.number /\ state'.disputes = Append(state.disputes, info)
        /\ state'.backed = state.backed /\ state'.included = state.included /\ state'.timed_out = state.timed_out
    BY <1>5, <1>7 DEF CollectorState
  <2>2. storage.rec[<<"Dispute", c>>] \in DisputeInfos({c})
    BY <1>7 DEF TypeInv, StorageOK, Holds
  <2>3. info.candidate = c /\ info.concluded # 0
    BY <1>2, <1>3, <2>2 DEF DisputeInfos
  <2>4. Concluded(state'.disputes) = Concluded(state.disputes) \cup {info}
    BY <1>5, <2>1, <2>3, ConcludedAppend
  <2>5. {<<"DisputeConcluded", d.candidate, state'.number>> : d \in Concluded(state'.disputes)}
          = {<<"DisputeConcluded", d.candidate, state.number>> : d \in Concluded(state.disputes)}
            \cup {<<"DisputeConcluded", c, state.number>>}
    BY <2>1, <2>3, <2>4
  <2>6. ToReport(state') = ToReport(state) \cup {<<"DisputeConcluded", c, state.number>>}
    <3>1. PICK b : b = {<<"Backed", state.backed[k], state.number>> : k \in 1..Len(state.backed)}
      OBVIOUS
    <3>2. PICK i : i = {<<"Included", state.included[k], state.number>> : k \in 1..Len(state.included)}
      OBVIOUS
    <3>3. PICK t : t = {<<"TimedOut", state.timed_out[k], state.number>> : k \in 1..Len(state.timed_out)}
      OBVIOUS
    <3>4. PICK d : d = {<<"DisputeConcluded", x.candidate, state.number>> : x \in Concluded(state.disputes)}
      OBVIOUS
    <3>5. ToReport(state) = b \cup i \cup t \cup d
      BY <1>5, <3>1, <3>2, <3>3, <3>4, ToReportParts
    <3>6. ToReport(state') = b \cup i \cup t \cup (d \cup {<<"DisputeConcluded", c, state.number>>})
      BY <1>5, <2>1, <2>5, <3>1, <3>2, <3>3, <3>4, ToReportParts
    <3> QED BY <3>5, <3>6
  <2>7. ghost'.noted = ghost.noted \cup {<<"DisputeConcluded", c, state.number>>} /\ ghost'.told = ghost.told
    BY <1>2, <1>5, <1>7 DEF Note
  <2>8. ToReport(state)' = ToReport(state')
    BY DEF ToReport, Report, Concluded
  <2> QED BY <1>2, <2>6, <2>7, <2>8 DEF Faithful
<1> QED BY <1>4, <1>6, <1>7

(* update_state() moves what is to be reported to the channel. *)
LEMMA UpdateFaithful ==
  ASSUME TypeInv, Faithful, update_state
  PROVE  Faithful'
<1>1. /\ state' \in CollectorState /\ UNCHANGED ghost /\ channel \in Seq(Updates) /\ state \in CollectorState
      /\ state'.backed = <<>> /\ state'.included = <<>> /\ state'.timed_out = <<>> /\ state'.disputes = <<>>
  BY UpdateFacts DEF TypeInv, TaskTypes
<1>2. PICK rep \in Updates :
        /\ rep = [number |-> state.number, hashes |-> state.hashes, backed |-> state.backed,
                  included |-> state.included, timed_out |-> state.timed_out,
                  disputes |-> Concluded(state.disputes)]
        /\ channel' = Append(channel, rep)
  BY UpdateFacts
<1>3. Report(rep) = ToReport(state)
  BY <1>1, <1>2, ToReportParts DEF Report
<1>4. OnChannel(channel') = OnChannel(channel) \cup ToReport(state)
  BY <1>1, <1>2, <1>3, OnChannelAppend
<1>5. ToReport(state') = {}
  <2>1. Concluded(state'.disputes) = {}
    BY <1>1 DEF Concluded
  <2>2. 1..Len(<<>>) = {}
    OBVIOUS
  <2> QED BY <1>1, <2>1, <2>2, ToReportParts
<1>6. ToReport(state)' = ToReport(state') /\ OnChannel(channel)' = OnChannel(channel')
  BY DEF ToReport, Report, Concluded, OnChannel
<1> QED BY <1>1, <1>4, <1>5, <1>6 DEF Faithful

LEMMA BroadcastFaithful ==
  ASSUME TypeInv, Faithful, broadcast_new_session
  PROVE  Faithful'
<1>1. /\ UNCHANGED <<state, ghost>> /\ channel' = Append(channel, NewSession) /\ channel \in Seq(Updates)
  BY DEF broadcast_new_session, TypeInv, TaskTypes
<1>2. Report(NewSession) = {}
  BY DEF Report, NewSession
<1>3. OnChannel(channel') = OnChannel(channel)
  BY <1>1, <1>2, OnChannelAppend
<1>4. ToReport(state)' = ToReport(state') /\ OnChannel(channel)' = OnChannel(channel')
  BY DEF ToReport, Report, Concluded, OnChannel
<1> QED BY <1>1, <1>3, <1>4 DEF Faithful

LEMMA TrackerFaithful ==
  ASSUME TypeInv, Faithful, Tracker
  PROVE  Faithful'
<1>1. UNCHANGED <<storage, state, processing, stage, chain>>
  BY DEF Tracker, TrackerTakes, TrackerReadsInherent, TrackerReadsRest
<1>2. channel \in Seq(Updates) /\ ghost = [noted |-> ghost.noted, told |-> ghost.told, skipped |-> ghost.skipped]
  BY DEF TypeInv, TaskTypes, ChainTypes
<1>3. CASE TrackerTakes
  <2>1. channel # <<>> /\ channel' = Tail(channel) /\ ghost' = [ghost EXCEPT !.told = @ \cup Report(Head(channel))]
    BY <1>3 DEF TrackerTakes
  <2>2. ghost'.noted = ghost.noted /\ ghost'.told = ghost.told \cup Report(Head(channel))
    BY <1>2, <2>1
  <2>3. OnChannel(channel) = Report(Head(channel)) \cup OnChannel(channel')
    BY <1>2, <2>1, OnChannelTail
  <2>4. OnChannel(channel)' = OnChannel(channel')
    BY DEF Report, OnChannel
  <2> QED BY <1>1, <2>2, <2>3, <2>4 DEF Faithful
<1>4. CASE TrackerReadsInherent \/ TrackerReadsRest
  <2>1. channel' = channel /\ ghost'.noted = ghost.noted /\ ghost'.told = ghost.told
    BY <1>2, <1>4 DEF TrackerReadsInherent, TrackerReadsRest
  <2> QED BY <1>1, <2>1 DEF Faithful
<1> QED BY <1>3, <1>4 DEF Tracker

LEMMA FinalNext ==
  ASSUME Followed = "Finalized", TypeInv, FinalInv, [Next]_vars
  PROVE  FinalInv'
<1> SUFFICES InStep' /\ Faithful'
  BY DEF FinalInv, ReportsFaithful, Faithful, OnChannel, ToReport
<1>1. InStep /\ Faithful
  BY FaithfulIsReportsFaithful DEF FinalInv
<1>2. CASE vars' = vars
  BY <1>2, <1>1 DEF vars, InStep, FinalizedNumber, Faithful
<1>3. ASSUME NEW h \in Heads, Finalize(h) PROVE InStep' /\ Faithful'
  <2>1. /\ InStep' /\ UNCHANGED <<channel, ghost>> /\ state' \in CollectorState /\ state \in CollectorState
        /\ \E n \in Blocks : state' = [state EXCEPT !.finalized = n]
    BY <1>1, <1>3, InStepFinalize DEF TypeInv
  <2>2. /\ state'.number = state.number /\ state'.backed = state.backed /\ state'.included = state.included
        /\ state'.timed_out = state.timed_out /\ state'.disputes = state.disputes
    BY <2>1 DEF CollectorState
  <2>3. ToReport(state') = ToReport(state)
    BY <2>1, <2>2, SameToReport
  <2>4. ToReport(state)' = ToReport(state')
    BY DEF ToReport, Report, Concluded
  <2> QED BY <1>1, <2>1, <2>3, <2>4 DEF Faithful
<1>4. ASSUME NEW h \in Heads, NewBest(h) PROVE InStep' /\ Faithful'
  <2>1. InStep' /\ UNCHANGED <<state, channel, ghost>>
    BY <1>1, <1>4, InStepNewBest
  <2> QED BY <1>1, <2>1 DEF Faithful
<1>5. CASE update_state
  BY <1>1, <1>5, InStepUpdate, UpdateFaithful
<1>6. CASE broadcast_new_session
  <2>1. /\ UNCHANGED <<state, processing, chain>> /\ stage = "announcing" /\ stage' = "candidates"
    BY <1>6 DEF broadcast_new_session
  <2>2. InStep'
    BY <1>1, <2>1 DEF InStep, FinalizedNumber
  <2> QED BY <1>1, <1>6, <2>2, BroadcastFaithful
<1>7. ASSUME NEW c \in Candidates,
             \/ process_candidate_backed(c) \/ process_candidate_included(c) \/ process_candidate_timed_out(c)
             \/ process_dispute_initiated(c) \/ process_dispute_concluded(c)
      PROVE  InStep' /\ Faithful'
  <2>1. \E e \in Kinds : NextEvent(e, c)
    BY <1>7 DEF process_candidate_backed, process_candidate_included, process_candidate_timed_out,
                process_dispute_initiated, process_dispute_concluded, Kinds
  <2>2. state'.number = state.number
    BY <1>7, BackedTypes, IncludedTypes, TimedOutTypes, InitiatedTypes, ConcludedTypes DEF SameBlock
  <2>3. InStep'
    BY <1>1, <2>1, <2>2, InStepEvent
  <2>4. Faithful'
    BY <1>1, <1>7, BackedFaithful, IncludedFaithful, TimedOutFaithful, InitiatedFaithful, ConcludedFaithful
  <2> QED BY <2>3, <2>4
<1>8. CASE EventsDone
  <2>1. /\ stage \in {"candidates", "initiated", "concluded"} /\ stage' = "idle" /\ processing' = Absent
        /\ UNCHANGED <<state, channel, chain, ghost>>
    BY <1>8 DEF EventsDone
  <2>2. InStep'
    BY <1>1, <2>1 DEF InStep, FinalizedNumber
  <2>3. Faithful'
    BY <1>1, <2>1 DEF Faithful
  <2> QED BY <2>2, <2>3
<1>9. CASE Tracker
  <2>1. UNCHANGED <<state, processing, stage, chain>>
    BY <1>9 DEF Tracker, TrackerTakes, TrackerReadsInherent, TrackerReadsRest
  <2>2. InStep'
    BY <1>1, <2>1 DEF InStep, FinalizedNumber
  <2> QED BY <1>1, <1>9, <2>2, TrackerFaithful
<1>10. CASE \E c \in Candidates :
              \/ process_candidate_backed(c) \/ process_candidate_included(c) \/ process_candidate_timed_out(c)
              \/ process_dispute_initiated(c) \/ process_dispute_concluded(c)
  BY <1>7, <1>10
<1> QED BY <1>2, <1>3, <1>4, <1>5, <1>6, <1>8, <1>9, <1>10 DEF Next

LEMMA InitFinalInv == Init => FinalInv
<1> SUFFICES ASSUME Init PROVE FinalInv
  OBVIOUS
<1>1. /\ state = NewState(0, <<>>, 0, 0) /\ channel = <<>> /\ stage = "idle" /\ processing = Absent
      /\ chain = [events |-> {}, finalized |-> Absent, best |-> Absent, announced |-> {}, repeats |-> 0,
                  replay |-> Absent]
      /\ ghost = [noted |-> {}, told |-> {}, skipped |-> {}]
  BY DEF Init
<1>2. InStep
  BY <1>1 DEF InStep, FinalizedNumber, NewState
<1>3. state \in CollectorState
  BY InitTypeInv DEF TypeInv
<1>4. ToReport(state) = {}
  <2>1. /\ state.backed = <<>> /\ state.included = <<>> /\ state.timed_out = <<>> /\ state.disputes = <<>>
    BY <1>1 DEF NewState
  <2>2. Concluded(state.disputes) = {}
    BY <2>1 DEF Concluded
  <2>3. 1..Len(<<>>) = {}
    OBVIOUS
  <2> QED BY <1>3, <2>1, <2>2, <2>3, ToReportParts
<1>5. OnChannel(channel) = {}
  BY <1>1 DEF OnChannel
<1>6. Faithful
  BY <1>1, <1>4, <1>5 DEF Faithful
<1> QED BY <1>2, <1>6, FaithfulIsReportsFaithful DEF FinalInv

LEMMA FinalInductive ==
  ASSUME Followed = "Finalized"
  PROVE  Spec => [](TypeInv /\ OrderInv /\ FinalInv)
<1>1. Init => FinalInv
  BY InitFinalInv
<1>2. (TypeInv /\ FinalInv) /\ [Next]_vars => FinalInv'
  BY FinalNext
<1> QED BY <1>1, <1>2, OrderInductive, PTL DEF Spec

(* When finalized heads are followed, what happens to candidates and disputes in a block
   is reported with that block and with no other, however far the tracker lags behind. *)
THEOREM EventsReportedOnce == Followed = "Finalized" => (Spec => []ReportsFaithful)
<1> SUFFICES ASSUME Followed = "Finalized" PROVE Spec => []ReportsFaithful
  OBVIOUS
<1>1. FinalInv => ReportsFaithful
  BY DEF FinalInv
<1> QED BY <1>1, FinalInductive, PTL
-----------------------------------------------------------------------------
(* The third layer: the storage keeps enough blocks. *)
LEMMA IntervalSize ==
  ASSUME NEW S, NEW lo \in Nat, NEW hi \in Nat, S \subseteq lo..hi, lo <= hi
  PROVE  Cardinality(S) <= hi - lo + 1
<1>1. IsFiniteSet(lo..hi) /\ Cardinality(lo..hi) = hi - lo + 1
  BY FS_Interval
<1>2. Cardinality(S) <= Cardinality(lo..hi)
  BY <1>1, FS_Subset
<1> QED BY <1>1, <1>2

(* A key whose blocks are recent survives the next write. *)
Recent(st, n, j) == \A b \in Blocks : j \in st.idx[b] => b + Capacity + 1 >= n

LEMMA RecentNotPruned ==
  ASSUME KeepsEnough, NEW st, StorageOK(st), NEW n \in Nat, NEW b \in Blocks, NEW k \in Keys, NEW j \in Keys,
         \A x \in IndexedBlocks(st.idx) : x <= n + MaxLead, b <= n + MaxLead,
         Recent(st, n, j), j = k => b + Capacity + 1 >= n,
         NEW idx, idx = AddToIndex(st.idx, b, k)
  PROVE  j \notin PrunedKeys(idx)
<1> SUFFICES ASSUME j \in PrunedKeys(idx) PROVE FALSE
  OBVIOUS
<1>1. /\ idx \in IndexType /\ IsFiniteSet(IndexedBlocks(idx)) /\ IndexedBlocks(idx) = IndexedBlocks(st.idx) \cup {b}
      /\ \A x \in Blocks : idx[x] = IF x = b THEN st.idx[x] \cup {k} ELSE st.idx[x]
  BY AddedFacts
<1>2. TooManyBlocks(idx) /\ j \in idx[OldestBlock(idx)]
  BY DEF PrunedKeys
<1>3. PICK o : o = OldestBlock(idx)
  OBVIOUS
<1>4. o \in IndexedBlocks(idx) /\ \A x \in IndexedBlocks(idx) : o <= x
  BY <1>1, <1>2, <1>3, OverfullNotEmpty, OldestBlockIsLowest
<1>5. o \in Blocks /\ o \in Nat /\ b \in Nat
  BY <1>4, BlocksAssumption DEF IndexedBlocks
<1>6. o + Capacity + 1 >= n
  BY <1>1, <1>2, <1>3, <1>5 DEF Recent
<1>7. Capacity \in Nat /\ MaxLead \in Nat /\ MaxBlocks \in Nat /\ MaxBlocks >= Capacity + 2 + MaxLead
  BY OptionsAssumption, MaxBlocksAssumption DEF KeepsEnough
<1>8. PICK top : top = n + MaxLead
  OBVIOUS
<1>9. \A x \in IndexedBlocks(idx) : x <= top
  BY <1>1, <1>8
<1>10. IndexedBlocks(idx) \subseteq Nat
  BY BlocksAssumption DEF IndexedBlocks
<1>11. IndexedBlocks(idx) \subseteq o..top /\ o <= top /\ top \in Nat
  BY <1>4, <1>5, <1>7, <1>8, <1>9, <1>10
<1>12. Cardinality(IndexedBlocks(idx)) <= top - o + 1
  BY <1>5, <1>11, IntervalSize
<1>13. Cardinality(IndexedBlocks(idx)) \in Nat /\ Cardinality(IndexedBlocks(idx)) > MaxBlocks
  BY <1>1, <1>2, FS_CardinalityType DEF TooManyBlocks
<1> QED BY <1>5, <1>6, <1>7, <1>8, <1>12, <1>13

(* What survives a change of the storage: the recent blocks. *)
Kept(old, new, n) ==
  \A h \in Heads :
    NumberOf[h] + Capacity + 1 >= n /\ Holds(old, "BlockData", h) => Holds(new, "BlockData", h)

LEMMA WriteKeeps ==
  ASSUME KeepsEnough, NEW n \in Nat, NEW cs, NEW st, StorageOK(st), IndexInv(st, n, cs),
         NEW p \in Prefixes, NEW k \in Keys, NEW v, Fits(p, k, v), v # Absent,
         NEW b \in Blocks, b <= n + MaxLead, k \in Heads => b = NumberOf[k], k \in Candidates => k \in cs,
         p = "RelayBlockHeader" /\ k \in Heads => NumberOf[k] <= n,
         p = "Candidate" => Holds(st, "CandidatesParachains", k),
         p = "Dispute" => Holds(st, "Candidate", k),
         NEW new, new = Written(st, p, k, v, b)
  PROVE  /\ StorageOK(new) /\ IndexInv(new, n, cs) /\ Kept(st, new, n)
         /\ \A j \in Keys : Recent(st, n, j) /\ (j = k => b + Capacity + 1 >= n) =>
              /\ \A q \in Prefixes : Holds(st, q, j) => Holds(new, q, j)
              /\ j = k => Holds(new, p, k)
              /\ Recent(new, n, j)
         /\ \A q \in Prefixes, j \in Keys : Holds(new, q, j) => Holds(st, q, j) \/ (q = p /\ j = k)
<1>1. PICK idx : idx = AddToIndex(st.idx, b, k)
  OBVIOUS
<1>2. StorageOK(new)
  BY WrittenOK
<1>3. /\ \A q \in Prefixes, j \in Keys :
           new.rec[<<q, j>>] = IF j \in PrunedKeys(idx) THEN Absent
                               ELSE IF q = p /\ j = k THEN v ELSE st.rec[<<q, j>>]
      /\ \A x \in Blocks : new.idx[x] \subseteq IF x = b THEN st.idx[x] \cup {k} ELSE st.idx[x]
      /\ IndexedBlocks(new.idx) \subseteq IndexedBlocks(st.idx) \cup {b}
  BY <1>1, WrittenEffect
<1>4. /\ \A q \in Prefixes, j \in Keys : Holds(new, q, j) => Holds(st, q, j) \/ (q = p /\ j = k)
      /\ \A q \in Prefixes, j \in Keys :
           j \notin PrunedKeys(idx) => (Holds(new, q, j) <=> Holds(st, q, j) \/ (q = p /\ j = k))
      /\ \A q \in Prefixes, j \in Keys : j \in PrunedKeys(idx) => ~Holds(new, q, j)
  BY <1>3 DEF Holds
<1>5. /\ \A x \in IndexedBlocks(st.idx) : x <= n + MaxLead
      /\ \A h \in Heads, x \in Blocks : h \in st.idx[x] => x = NumberOf[h]
  BY DEF IndexInv
<1>6. \A j \in Keys : Recent(st, n, j) /\ (j = k => b + Capacity + 1 >= n) => j \notin PrunedKeys(idx)
  BY <1>1, <1>5, RecentNotPruned
<1>7. ASSUME NEW j \in Keys, Recent(st, n, j), j = k => b + Capacity + 1 >= n
      PROVE  /\ \A q \in Prefixes : Holds(st, q, j) => Holds(new, q, j)
             /\ j = k => Holds(new, p, k)
             /\ Recent(new, n, j)
  <2>1. Recent(new, n, j)
    BY <1>3, <1>7 DEF Recent
  <2> QED BY <1>4, <1>6, <1>7, <2>1
<1>8. Kept(st, new, n)
  <2>1. ASSUME NEW h \in Heads, NumberOf[h] + Capacity + 1 >= n, Holds(st, "BlockData", h)
        PROVE  Holds(new, "BlockData", h)
    <3>1. h \in Keys /\ "BlockData" \in Prefixes
      BY KeyFacts DEF Prefixes
    <3>2. Recent(st, n, h) /\ (h = k => b + Capacity + 1 >= n)
      BY <1>5, <2>1 DEF Recent
    <3> QED BY <1>7, <2>1, <3>1, <3>2
  <2> QED BY <2>1 DEF Kept
<1>9. IndexInv(new, n, cs)
  <2>1. /\ \A c \in Candidates : c \in Keys
        /\ \A h \in Heads : h \in Keys
        /\ {"Candidate", "CandidatesParachains", "Dispute", "RelayBlockHeader"} \subseteq Prefixes
    BY KeyFacts DEF Prefixes
  <2>2. \A x \in IndexedBlocks(new.idx) : x <= n + MaxLead
    BY <1>3, <1>5
  <2>3. \A h \in Heads, x \in Blocks : h \in new.idx[x] => x = NumberOf[h]
    <3>1. ASSUME NEW h \in Heads, NEW x \in Blocks, h \in new.idx[x] PROVE x = NumberOf[h]
      <4>1. h \in st.idx[x] \/ (x = b /\ h = k)
        BY <1>3, <3>1
      <4> QED BY <1>5, <4>1
    <3> QED BY <3>1
  <2>4. \A c \in Candidates :
          Holds(new, "CandidatesParachains", c) \/ (\E x \in Blocks : c \in new.idx[x]) => c \in cs
    <3>1. ASSUME NEW c \in Candidates, Holds(new, "CandidatesParachains", c) PROVE c \in cs
      BY <1>4, <2>1, <3>1 DEF IndexInv
    <3>2. ASSUME NEW c \in Candidates, NEW x \in Blocks, c \in new.idx[x] PROVE c \in cs
      <4>1. c \in st.idx[x] \/ c = k
        BY <1>3, <3>2
      <4> QED BY <4>1 DEF IndexInv
    <3> QED BY <3>1, <3>2
  <2>5. \A g \in Heads : Holds(new, "RelayBlockHeader", g) => NumberOf[g] <= n
    BY <1>4, <2>1 DEF IndexInv
  <2>6. \A c \in Candidates :
          /\ Holds(new, "Candidate", c) => Holds(new, "CandidatesParachains", c)
          /\ Holds(new, "Dispute", c) => Holds(new, "Candidate", c)
    <3>1. ASSUME NEW c \in Candidates
          PROVE  /\ Holds(new, "Candidate", c) => Holds(new, "CandidatesParachains", c)
                 /\ Holds(new, "Dispute", c) => Holds(new, "Candidate", c)
      <4>1. /\ Holds(st, "Candidate", c) => Holds(st, "CandidatesParachains", c)
            /\ Holds(st, "Dispute", c) => Holds(st, "Candidate", c)
        BY DEF IndexInv
      <4>2. CASE c \in PrunedKeys(idx)
        BY <1>4, <2>1, <4>2
      <4>3. CASE c \notin PrunedKeys(idx)
        BY <1>4, <2>1, <4>1, <4>3
      <4> QED BY <4>2, <4>3
    <3> QED BY <3>1
  <2> QED BY <2>2, <2>3, <2>4, <2>5, <2>6 DEF IndexInv
<1> QED BY <1>2, <1>4, <1>7, <1>8, <1>9

(* A change that leaves the index and what the invariant looks at. *)
LEMMA SameIndexInv ==
  ASSUME NEW n, NEW cs, NEW st, IndexInv(st, n, cs), NEW new, new.idx = st.idx,
         \A q \in {"Candidate", "CandidatesParachains", "Dispute", "RelayBlockHeader", "BlockData"}, j \in Keys :
           Holds(new, q, j) <=> Holds(st, q, j)
  PROVE  IndexInv(new, n, cs) /\ Kept(st, new, n)
<1>1. /\ \A c \in Candidates : c \in Keys
      /\ \A h \in Heads : h \in Keys
  BY KeyFacts
<1>2. Kept(st, new, n)
  BY <1>1 DEF Kept
<1>3. IndexInv(new, n, cs)
  BY <1>1 DEF IndexInv
<1> QED BY <1>2, <1>3

LEMMA ReplaceKeeps ==
  ASSUME NEW n, NEW cs, NEW st, StorageOK(st), IndexInv(st, n, cs), NEW c \in Candidates,
         NEW p \in {"Candidate", "Dispute"}, NEW v, Holds(st, p, c) => Fits(p, c, v),
         NEW new, new = Replaced(st, p, c, v)
  PROVE  /\ StorageOK(new) /\ IndexInv(new, n, cs) /\ Kept(st, new, n)
         /\ \A q \in Prefixes, j \in Keys : Holds(new, q, j) <=> Holds(st, q, j)
<1>1. c \in Keys /\ {"Candidate", "Dispute"} \subseteq Prefixes
      /\ {"Candidate", "CandidatesParachains", "Dispute", "RelayBlockHeader", "BlockData"} \subseteq Prefixes
  BY KeyFacts DEF Prefixes
<1>2. CASE ~Holds(st, p, c)
  <2>1. new = st
    BY <1>2 DEF Replaced
  <2> QED BY <2>1 DEF Kept
<1>3. CASE Holds(st, p, c)
  <2>1. v # Absent
    BY <1>3, RecordFacts DEF Fits
  <2>2. /\ StorageOK(new) /\ new.idx = st.idx
        /\ \A q \in Prefixes, j \in Keys : Holds(new, q, j) <=> Holds(st, q, j)
    BY <1>1, <1>3, <2>1, ReplacedOK
  <2> QED BY <1>1, <2>2, SameIndexInv
<1> QED BY <1>2, <1>3

LEMMA DeleteKeeps ==
  ASSUME NEW n, NEW cs, NEW st, StorageOK(st), IndexInv(st, n, cs), NEW k \in Keys,
         NEW new, new = Deleted(st, "AccountKeys", k)
  PROVE  StorageOK(new) /\ IndexInv(new, n, cs) /\ Kept(st, new, n)
<1>1. /\ StorageOK(new) /\ new.idx = st.idx
      /\ \A q \in Prefixes, j \in Keys : q # "AccountKeys" => new.rec[<<q, j>>] = st.rec[<<q, j>>]
  BY DeletedOK
<1>2. {"Candidate", "CandidatesParachains", "Dispute", "RelayBlockHeader", "BlockData"} \subseteq Prefixes \ {"AccountKeys"}
  BY DEF Prefixes
<1>3. \A q \in {"Candidate", "CandidatesParachains", "Dispute", "RelayBlockHeader", "BlockData"}, j \in Keys :
        Holds(new, q, j) <=> Holds(st, q, j)
  BY <1>1, <1>2 DEF Holds
<1> QED BY <1>1, <1>3, SameIndexInv

LEMMA KeptTransitive ==
  ASSUME NEW a, NEW b, NEW c, NEW n, Kept(a, b, n), Kept(b, c, n)
  PROVE  Kept(a, c, n)
BY DEF Kept

(* The invariant allows for more blocks and more candidates. *)
LEMMA IndexInvMore ==
  ASSUME NEW n \in Nat, NEW m \in Nat, n <= m, NEW cs, NEW ds, cs \subseteq ds, NEW st, IndexInv(st, n, cs)
  PROVE  IndexInv(st, m, ds)
<1>1. MaxLead \in Nat /\ \A h \in Heads : NumberOf[h] \in Nat
  BY OptionsAssumption, KeyFacts
<1>2. \A b \in IndexedBlocks(st.idx) : b \in Nat /\ b <= n + MaxLead
  BY BlocksAssumption DEF IndexInv, IndexedBlocks
<1>3. \A b \in IndexedBlocks(st.idx) : b <= m + MaxLead
  BY <1>1, <1>2
<1>4. \A g \in Heads : Holds(st, "RelayBlockHeader", g) => NumberOf[g] <= m
  BY <1>1 DEF IndexInv
<1> QED BY <1>3, <1>4 DEF IndexInv

(* The tracker's blocks are recent, and stay traced when the storage keeps recent ones. *)
Backings == {c \in Candidates : BackedBefore(c)}

LEMMA StoreFacts ==
  ASSUME TypeInv, OrderInv, StoreInv
  PROVE  /\ state.number \in Nat /\ state.number \in Blocks /\ Len(channel) \in Nat /\ Len(channel) <= Capacity
         /\ Capacity \in Nat /\ MaxLead \in Nat
         /\ StorageOK(storage) /\ IndexInv(storage, state.number, Backings)
         /\ \A k \in 1..Len(tracker.hashes) :
              /\ tracker.hashes[k] \in Heads /\ NumberOf[tracker.hashes[k]] \in Nat
              /\ NumberOf[tracker.hashes[k]] + Len(channel) + 1 >= state.number
              /\ Holds(storage, "BlockData", tracker.hashes[k])
         /\ \A i \in 1..Len(channel) : \A k \in 1..Len(channel[i].hashes) :
              /\ channel[i].hashes[k] \in Heads /\ NumberOf[channel[i].hashes[k]] \in Nat
              /\ NumberOf[channel[i].hashes[k]] + Len(channel) >= state.number
              /\ Holds(storage, "BlockData", channel[i].hashes[k])
         /\ \A k \in 1..Len(state.hashes) :
              state.hashes[k] \in Heads /\ NumberOf[state.hashes[k]] = state.number
<1>1. /\ state \in CollectorState /\ channel \in Seq(Updates) /\ Len(channel) <= Capacity /\ StorageOK(storage)
      /\ tracker \in [number : Blocks, hashes : Seq(Heads), found : BOOLEAN, panicked : BOOLEAN]
  BY DEF TypeInv, TaskTypes
<1>2. state.number \in Nat /\ state.number \in Blocks /\ Len(channel) \in Nat /\ Capacity \in Nat /\ MaxLead \in Nat
      /\ state.hashes \in Seq(Heads) /\ tracker.hashes \in Seq(Heads)
  <2>1. state.number \in Blocks /\ state.hashes \in Seq(Heads)
    BY <1>1 DEF CollectorState
  <2>2. Len(channel) \in Nat /\ tracker.hashes \in Seq(Heads)
    BY <1>1
  <2> QED BY <2>1, <2>2, KeyFacts, OptionsAssumption
<1>3. ASSUME NEW k \in 1..Len(tracker.hashes)
      PROVE  /\ tracker.hashes[k] \in Heads /\ NumberOf[tracker.hashes[k]] \in Nat
             /\ NumberOf[tracker.hashes[k]] + Len(channel) + 1 >= state.number
             /\ Holds(storage, "BlockData", tracker.hashes[k])
  <2>1. tracker.hashes[k] \in Heads /\ tracker.hashes # <<>>
    BY <1>2
  <2>2. NumberOf[tracker.hashes[k]] = tracker.number
    BY DEF OrderInv
  <2>3. tracker.number + Len(channel) + 1 >= state.number
    BY <2>1 DEF StoreInv, LagInv
  <2>4. Holds(storage, "BlockData", tracker.hashes[k])
    BY DEF StoreInv, Traced
  <2> QED BY <2>1, <2>2, <2>3, <2>4, KeyFacts
<1>4. ASSUME NEW i \in 1..Len(channel), NEW k \in 1..Len(channel[i].hashes)
      PROVE  /\ channel[i].hashes[k] \in Heads /\ NumberOf[channel[i].hashes[k]] \in Nat
             /\ NumberOf[channel[i].hashes[k]] + Len(channel) >= state.number
             /\ Holds(storage, "BlockData", channel[i].hashes[k])
  <2>1. channel[i] \in Updates
    BY <1>1
  <2>2. channel[i].hashes \in Seq(Heads)
    BY <2>1 DEF Updates
  <2>3. channel[i].hashes[k] \in Heads /\ channel[i].hashes # <<>>
    BY <2>2
  <2>4. NumberOf[channel[i].hashes[k]] = channel[i].number
    BY <2>3 DEF OrderInv, ReportsInOrder
  <2>5. channel[i].number + Len(channel) - i + 1 >= state.number
    BY <2>3 DEF StoreInv, LagInv
  <2>6. Holds(storage, "BlockData", channel[i].hashes[k])
    BY DEF StoreInv, Traced
  <2>7. NumberOf[channel[i].hashes[k]] \in Nat /\ i \in Nat /\ i >= 1
    <3>1. \A h \in Heads : NumberOf[h] \in Nat
      BY KeyFacts
    <3> QED BY <2>3, <3>1
  <2>8. NumberOf[channel[i].hashes[k]] + Len(channel) >= state.number
    BY <1>2, <2>4, <2>5, <2>7
  <2> QED BY <2>3, <2>6, <2>7, <2>8
<1>5. \A k \in 1..Len(state.hashes) : state.hashes[k] \in Heads /\ NumberOf[state.hashes[k]] = state.number
  BY <1>2 DEF OrderInv
<1>6. IndexInv(storage, state.number, Backings)
  BY DEF StoreInv, Backings
<1> QED BY <1>1, <1>2, <1>3, <1>4, <1>5, <1>6

(* An action that only changes the storage, and keeps the recent blocks. *)
LEMMA StorageChanges ==
  ASSUME TypeInv, OrderInv, StoreInv, UNCHANGED <<channel, tracker>>, ghost'.skipped = ghost.skipped,
         state'.number = state.number, state'.hashes = state.hashes,
         stage # "announcing", stage' # "announcing",
         Kept(storage, storage', state.number), IndexInv(storage', state.number, Backings')
  PROVE  StoreInv'
<1>1. \A k \in 1..Len(tracker'.hashes) : Holds(storage', "BlockData", tracker'.hashes[k])
  BY StoreFacts DEF Kept
<1>2. ASSUME NEW i \in 1..Len(channel), NEW k \in 1..Len(channel[i].hashes)
      PROVE  Holds(storage', "BlockData", channel[i].hashes[k])
  <2>1. PICK h : h = channel[i].hashes[k]
    OBVIOUS
  <2>2. /\ h \in Heads /\ NumberOf[h] \in Nat /\ Holds(storage, "BlockData", h)
        /\ NumberOf[h] + Len(channel) >= state.number /\ Len(channel) <= Capacity
        /\ Len(channel) \in Nat /\ Capacity \in Nat /\ state.number \in Nat
    BY <2>1, StoreFacts
  <2>3. NumberOf[h] + Capacity + 1 >= state.number
    BY <2>2
  <2> QED BY <2>1, <2>2, <2>3 DEF Kept
<1>3. ASSUME NEW k \in 1..Len(state.hashes) PROVE Holds(storage', "BlockData", state.hashes[k])
  <2>1. /\ state.hashes[k] \in Heads /\ NumberOf[state.hashes[k]] = state.number
        /\ Capacity \in Nat /\ state.number \in Nat
    BY StoreFacts
  <2>2. Holds(storage, "BlockData", state.hashes[k])
    BY DEF StoreInv, Traced
  <2>3. NumberOf[state.hashes[k]] + Capacity + 1 >= state.number
    BY <2>1
  <2> QED BY <2>1, <2>2, <2>3 DEF Kept
<1>4. Traced'
  BY <1>1, <1>2, <1>3 DEF Traced
<1>5. LagInv'
  BY DEF LagInv, StoreInv
<1>6. EveryBlockTraced'
  BY DEF StoreInv, EveryBlockTraced
<1> QED BY <1>4, <1>5, <1>6 DEF StoreInv, Backings

LEMMA SessionKeeps ==
  ASSUME KeepsEnough, NEW n \in Nat, NEW cs, NEW st, StorageOK(st), IndexInv(st, n, cs),
         NEW h \in Heads, NumberOf[h] = n, NEW new, new = WriteSession(st, h)
  PROVE  StorageOK(new) /\ IndexInv(new, n, cs) /\ Kept(st, new, n)
<1>1. PICK s : s = SessionOf[h]
  OBVIOUS
<1>2. PICK written : written = Written(st, "AccountKeys", SessionKey[s], Plain, NumberOf[h])
  OBVIOUS
<1>3. /\ SessionKey[s] \in Keys /\ SessionKey[s] \notin Heads \cup Candidates /\ n \in Blocks
      /\ "AccountKeys" \in Prefixes /\ n <= n + MaxLead
      /\ Fits("AccountKeys", SessionKey[s], Plain) /\ Plain # Absent
  BY <1>1, KeyFacts, OptionsAssumption, PlainFits, RecordFacts DEF Prefixes
<1>4. StorageOK(written) /\ IndexInv(written, n, cs) /\ Kept(st, written, n)
  BY <1>2, <1>3, WriteKeeps
<1>5. new = st \/ new = written
      \/ (s - 2 \in Sessions /\ new = Deleted(written, "AccountKeys", SessionKey[s - 2]))
  BY <1>1, <1>2 DEF WriteSession
<1>6. CASE new = st
  BY <1>6 DEF Kept
<1>7. CASE s - 2 \in Sessions /\ new = Deleted(written, "AccountKeys", SessionKey[s - 2])
  <2>1. SessionKey[s - 2] \in Keys
    BY <1>7, KeyFacts
  <2>2. StorageOK(new) /\ IndexInv(new, n, cs) /\ Kept(written, new, n)
    BY <1>4, <1>7, <2>1, DeleteKeeps
  <2> QED BY <1>4, <2>2, KeptTransitive
<1> QED BY <1>4, <1>5, <1>6, <1>7

LEMMA BlockDataKeeps ==
  ASSUME KeepsEnough, NEW n \in Nat, NEW cs, NEW st, StorageOK(st), IndexInv(st, n, cs),
         NEW h \in Heads, NumberOf[h] = n, NEW new, new = WriteBlockData(st, h)
  PROVE  IndexInv(new, n, cs) /\ Kept(st, new, n) /\ Holds(new, "BlockData", h)
<1>1. /\ h \in Keys /\ h \notin Candidates /\ n \in Blocks /\ n <= n + MaxLead /\ "BlockData" \in Prefixes
      /\ Fits("BlockData", h, Plain) /\ Plain # Absent /\ n + Capacity + 1 >= n
  BY KeyFacts, OptionsAssumption, PlainFits, RecordFacts DEF Prefixes
<1>2. new = Written(st, "BlockData", h, Plain, n)
  BY DEF WriteBlockData
<1>3. Recent(st, n, h)
  BY <1>1 DEF IndexInv, Recent
<1> QED BY <1>1, <1>2, <1>3, WriteKeeps

LEMMA FinishKeeps ==
  ASSUME KeepsEnough, NEW n \in Nat, NEW ds, NEW st, StorageOK(st), IndexInv(st, n, ds),
         NEW h \in Heads, NumberOf[h] = n, ~Holds(st, "RelayBlockHeader", h), NEW cs, FinishNewHead(st, cs, h)
  PROVE  IndexInv(storage', n, ds) /\ Kept(st, storage', n)
         /\ (stage' # "announcing" => Holds(storage', "BlockData", h))
<1>1. PICK listed : listed = Written(st, "RelayBlockHeader", h, Plain, NumberOf[h])
  OBVIOUS
<1>2. PICK stored : stored = WriteSession(listed, h)
  OBVIOUS
<1>3. /\ h \in Keys /\ h \notin Candidates /\ n \in Blocks /\ n <= n + MaxLead /\ "RelayBlockHeader" \in Prefixes
      /\ Fits("RelayBlockHeader", h, Plain) /\ Plain # Absent
  BY KeyFacts, OptionsAssumption, PlainFits, RecordFacts DEF Prefixes
<1>4. StorageOK(listed) /\ IndexInv(listed, n, ds) /\ Kept(st, listed, n)
  BY <1>1, <1>3, WriteKeeps
<1>5. StorageOK(stored) /\ IndexInv(stored, n, ds) /\ Kept(listed, stored, n)
  BY <1>2, <1>4, SessionKeeps
<1>6. Kept(st, stored, n)
  BY <1>4, <1>5, KeptTransitive
<1>7. PICK data : data = WriteBlockData(stored, h)
  OBVIOUS
<1>8. IndexInv(data, n, ds) /\ Kept(stored, data, n) /\ Holds(data, "BlockData", h)
  BY <1>5, <1>7, BlockDataKeeps
<1>9. Kept(st, data, n)
  BY <1>6, <1>8, KeptTransitive
<1>10. \/ storage' = stored /\ stage' = "announcing"
       \/ storage' = data /\ stage' = "candidates"
  BY <1>1, <1>2, <1>7 DEF FinishNewHead
<1> QED BY <1>5, <1>6, <1>8, <1>9, <1>10

LEMMA FinalizeStored ==
  ASSUME Followed = "Finalized", KeepsEnough, TypeInv, OrderInv, InStep, StoreInv, NEW h \in Heads, Finalize(h)
  PROVE  StoreInv'
<1>1. /\ stage' = "updating" /\ NumberOf[h] = state.number + 1 /\ stage = "idle"
      /\ UNCHANGED <<channel, tracker, ghost>> /\ chain'.events = chain.events
      /\ storage' = IF HrmpChannels
                      THEN Written(storage, "InboundOutboundHrmpChannels", h, Plain, NumberOf[h])
                      ELSE storage
  BY InStepFinalize, FinalizeFacts
<1>2. state'.number = state.number /\ state'.hashes = state.hashes
  BY InStepFinalize DEF TypeInv, CollectorState
<1>3. /\ h \in Keys /\ h \notin Candidates /\ NumberOf[h] \in Blocks /\ "InboundOutboundHrmpChannels" \in Prefixes
      /\ Fits("InboundOutboundHrmpChannels", h, Plain) /\ Plain # Absent
  BY KeyFacts, PlainFits, RecordFacts DEF Prefixes
<1>4. /\ StorageOK(storage) /\ IndexInv(storage, state.number, Backings) /\ state.number \in Nat
      /\ NumberOf[h] <= state.number + MaxLead
  BY <1>1, StoreFacts DEF KeepsEnough
<1>5. Kept(storage, storage', state.number) /\ IndexInv(storage', state.number, Backings)
  <2>1. CASE storage' = storage
    BY <1>4, <2>1 DEF Kept
  <2>2. CASE storage' = Written(storage, "InboundOutboundHrmpChannels", h, Plain, NumberOf[h])
    BY <1>3, <1>4, <2>2, WriteKeeps
  <2> QED BY <1>1, <2>1, <2>2
<1>6. Backings' = Backings
  BY <1>1 DEF Backings, BackedBefore
<1> QED BY <1>1, <1>2, <1>5, <1>6, StorageChanges

LEMMA NewBestStored ==
  ASSUME Followed = "Finalized", KeepsEnough, TypeInv, OrderInv, InStep, StoreInv, NEW h \in Heads, NewBest(h)
  PROVE  StoreInv'
<1>1. /\ UNCHANGED <<state, stage, processing, channel, tracker, ghost>> /\ stage = "idle"
      /\ chain'.events = chain.events /\ NumberOf[h] <= state.number + MaxLead
      /\ storage' \in {storage, Written(storage, "RelevantFinalizedBlockNumber", h, Plain, NumberOf[h])}
  BY InStepNewBest
<1>2. /\ h \in Keys /\ h \notin Candidates /\ NumberOf[h] \in Blocks /\ "RelevantFinalizedBlockNumber" \in Prefixes
      /\ Fits("RelevantFinalizedBlockNumber", h, Plain) /\ Plain # Absent
  BY KeyFacts, PlainFits, RecordFacts DEF Prefixes
<1>3. StorageOK(storage) /\ IndexInv(storage, state.number, Backings) /\ state.number \in Nat
  BY StoreFacts
<1>4. Kept(storage, storage', state.number) /\ IndexInv(storage', state.number, Backings)
  <2>1. CASE storage' = storage
    BY <1>3, <2>1 DEF Kept
  <2>2. CASE storage' = Written(storage, "RelevantFinalizedBlockNumber", h, Plain, NumberOf[h])
    BY <1>1, <1>2, <1>3, <2>2, WriteKeeps
  <2> QED BY <1>1, <2>1, <2>2
<1>5. Backings' = Backings
  BY <1>1 DEF Backings, BackedBefore
<1> QED BY <1>1, <1>4, <1>5, StorageChanges

LEMMA UpdateStored ==
  ASSUME KeepsEnough, TypeInv, OrderInv, InStep, StoreInv, update_state
  PROVE  StoreInv'
<1>1. /\ processing \in Heads /\ stage = "updating" /\ Len(channel) < Capacity
      /\ stage' \in {"announcing", "candidates"}
      /\ state'.number = NumberOf[processing] /\ state'.hashes = <<processing>>
      /\ UNCHANGED <<processing, tracker, chain, ghost>>
  BY UpdateFacts
<1>2. PICK n \in Nat : n = state.number + 1 /\ NumberOf[processing] = n
  BY InStepUpdate, StoreFacts
<1>3. PICK rep \in Updates : /\ rep.number = state.number /\ rep.hashes = state.hashes
                             /\ channel' = Append(channel, rep)
  BY UpdateFacts
<1>4. PICK cs : FinishNewHead(storage, cs, processing)
  BY UpdateFacts
<1>5. /\ StorageOK(storage) /\ IndexInv(storage, state.number, Backings)
      /\ state.number \in Nat /\ Len(channel) \in Nat /\ Capacity \in Nat
  BY StoreFacts
<1>6. ~Holds(storage, "RelayBlockHeader", processing)
  BY <1>1, <1>2, <1>5 DEF IndexInv
<1>7. IndexInv(storage, n, Backings)
  BY <1>2, <1>5, IndexInvMore
<1>8. /\ IndexInv(storage', n, Backings) /\ Kept(storage, storage', n)
      /\ stage' # "announcing" => Holds(storage', "BlockData", processing)
  BY <1>1, <1>2, <1>4, <1>5, <1>6, <1>7, FinishKeeps
<1>9. Backings' = Backings
  BY <1>1 DEF Backings, BackedBefore
<1>10. /\ channel \in Seq(Updates) /\ Len(channel') = Len(channel) + 1
       /\ \A i \in 1..Len(channel) : channel'[i] = channel[i]
       /\ channel'[Len(channel) + 1] = rep
  BY <1>3 DEF TypeInv, TaskTypes
<1>11. LagInv'
  <2>1. tracker'.hashes # <<>> => tracker'.number + Len(channel') + 1 >= state'.number
    <3>1. tracker.number \in Nat
      BY KeyFacts DEF TypeInv, TaskTypes
    <3>2. tracker.hashes # <<>> => tracker.number + Len(channel) + 1 >= state.number
      BY DEF StoreInv, LagInv
    <3> QED BY <1>1, <1>2, <1>5, <1>10, <3>1, <3>2
  <2>2. ASSUME NEW i \in 1..Len(channel'), channel'[i].hashes # <<>>
        PROVE  channel'[i].number + Len(channel') - i + 1 >= state'.number
    <3>1. CASE i = Len(channel) + 1
      BY <1>1, <1>2, <1>3, <1>5, <1>10, <3>1
    <3>2. CASE i \in 1..Len(channel)
      <4>1. channel[i].number + Len(channel) - i + 1 >= state.number
        BY <1>10, <2>2, <3>2 DEF StoreInv, LagInv
      <4>2. channel[i].number \in Nat
        <5>1. channel[i] \in Updates
          BY <1>10, <3>2
        <5> QED BY <5>1, KeyFacts DEF Updates
      <4> QED BY <1>1, <1>2, <1>5, <1>10, <3>2, <4>1, <4>2
    <3> QED BY <1>5, <1>10, <2>2, <3>1, <3>2
  <2> QED BY <2>1, <2>2 DEF LagInv
<1>12. Traced'
  <2>1. ASSUME NEW k \in 1..Len(tracker.hashes) PROVE Holds(storage', "BlockData", tracker.hashes[k])
    <3>1. PICK h : h = tracker.hashes[k]
      OBVIOUS
    <3>2. h \in Heads /\ NumberOf[h] \in Nat /\ NumberOf[h] + Len(channel) + 1 >= state.number
          /\ Holds(storage, "BlockData", h)
      BY <3>1, StoreFacts
    <3>3. NumberOf[h] + Capacity + 1 >= n
      BY <1>1, <1>2, <1>5, <3>2
    <3> QED BY <1>8, <3>1, <3>2, <3>3 DEF Kept
  <2>2. ASSUME NEW i \in 1..Len(channel), NEW k \in 1..Len(channel[i].hashes)
        PROVE  Holds(storage', "BlockData", channel[i].hashes[k])
    <3>1. PICK h : h = channel[i].hashes[k]
      OBVIOUS
    <3>2. h \in Heads /\ NumberOf[h] \in Nat /\ NumberOf[h] + Len(channel) >= state.number
          /\ Holds(storage, "BlockData", h)
      BY <3>1, StoreFacts
    <3>3. NumberOf[h] + Capacity + 1 >= n
      BY <1>1, <1>2, <1>5, <3>2
    <3> QED BY <1>8, <3>1, <3>2, <3>3 DEF Kept
  <2>3. ASSUME NEW k \in 1..Len(state.hashes) PROVE Holds(storage', "BlockData", state.hashes[k])
    <3>1. state.hashes[k] \in Heads /\ NumberOf[state.hashes[k]] = state.number
      BY StoreFacts
    <3>2. Holds(storage, "BlockData", state.hashes[k])
      BY <1>1 DEF StoreInv, Traced
    <3>3. NumberOf[state.hashes[k]] + Capacity + 1 >= n
      BY <1>2, <1>5, <3>1
    <3> QED BY <1>8, <3>1, <3>2, <3>3 DEF Kept
  <2>4. ASSUME NEW i \in 1..Len(channel'), NEW k \in 1..Len(channel'[i].hashes)
        PROVE  Holds(storage', "BlockData", channel'[i].hashes[k])
    <3>1. CASE i = Len(channel) + 1
      BY <1>3, <1>10, <2>3, <2>4, <3>1
    <3>2. CASE i \in 1..Len(channel)
      BY <1>10, <2>2, <2>4, <3>2
    <3> QED BY <1>5, <1>10, <2>4, <3>1, <3>2
  <2>5. stage' # "announcing" => \A k \in 1..Len(state'.hashes) : Holds(storage', "BlockData", state'.hashes[k])
    BY <1>1, <1>8
  <2> QED BY <1>1, <2>1, <2>4, <2>5 DEF Traced
<1>13. EveryBlockTraced'
  BY <1>1 DEF StoreInv, EveryBlockTraced
<1>14. IndexInv(storage', state'.number, Backings')
  BY <1>1, <1>2, <1>8, <1>9
<1> QED BY <1>1, <1>11, <1>12, <1>13, <1>14 DEF StoreInv, Backings

LEMMA BroadcastStored ==
  ASSUME KeepsEnough, TypeInv, OrderInv, InStep, StoreInv, broadcast_new_session
  PROVE  StoreInv'
<1>1. /\ processing \in Heads /\ processing # Absent /\ stage = "announcing" /\ stage' = "candidates"
      /\ Len(channel) < Capacity
      /\ storage' = WriteBlockData(storage, processing) /\ channel' = Append(channel, NewSession)
      /\ UNCHANGED <<state, processing, tracker, chain, ghost>>
  BY AbsentAssumption DEF broadcast_new_session, TypeInv, TaskTypes
<1>2. /\ StorageOK(storage) /\ IndexInv(storage, state.number, Backings)
      /\ state.number \in Nat /\ Len(channel) \in Nat /\ Capacity \in Nat
  BY StoreFacts
<1>3. NumberOf[processing] = state.number
  BY <1>1, <1>2 DEF InStep, FinalizedNumber
<1>4. /\ IndexInv(storage', state.number, Backings) /\ Kept(storage, storage', state.number)
      /\ Holds(storage', "BlockData", processing)
  BY <1>1, <1>2, <1>3, BlockDataKeeps
<1>5. Backings' = Backings
  BY <1>1 DEF Backings, BackedBefore
<1>6. /\ channel \in Seq(Updates) /\ Len(channel') = Len(channel) + 1
      /\ \A i \in 1..Len(channel) : channel'[i] = channel[i]
      /\ channel'[Len(channel) + 1] = NewSession
  BY <1>1, NewSessionType DEF TypeInv, TaskTypes
<1>7. \A i \in 1..Len(channel') : i \in 1..Len(channel) \/ (i = Len(channel) + 1 /\ channel'[i].hashes = <<>>)
  BY <1>2, <1>6, NewSessionType
<1>8. LagInv'
  <2>1. tracker'.hashes # <<>> => tracker'.number + Len(channel') + 1 >= state'.number
    <3>1. tracker.number \in Nat
      BY KeyFacts DEF TypeInv, TaskTypes
    <3>2. tracker.hashes # <<>> => tracker.number + Len(channel) + 1 >= state.number
      BY DEF StoreInv, LagInv
    <3> QED BY <1>1, <1>2, <1>6, <3>1, <3>2
  <2>2. ASSUME NEW i \in 1..Len(channel'), channel'[i].hashes # <<>>
        PROVE  channel'[i].number + Len(channel') - i + 1 >= state'.number
    <3>1. i \in 1..Len(channel) /\ channel'[i] = channel[i]
      BY <1>6, <1>7, <2>2
    <3>2. channel[i].number + Len(channel) - i + 1 >= state.number
      BY <2>2, <3>1 DEF StoreInv, LagInv
    <3>3. channel[i].number \in Nat
      <4>1. channel[i] \in Updates
        BY <1>6, <3>1
      <4> QED BY <4>1, KeyFacts DEF Updates
    <3> QED BY <1>1, <1>2, <1>6, <3>1, <3>2, <3>3
  <2> QED BY <2>1, <2>2 DEF LagInv
<1>9. Traced'
  <2>1. ASSUME NEW k \in 1..Len(tracker.hashes) PROVE Holds(storage', "BlockData", tracker.hashes[k])
    <3>1. PICK h : h = tracker.hashes[k]
      OBVIOUS
    <3>2. h \in Heads /\ NumberOf[h] \in Nat /\ NumberOf[h] + Len(channel) + 1 >= state.number
          /\ Holds(storage, "BlockData", h)
      BY <3>1, StoreFacts
    <3>3. NumberOf[h] + Capacity + 1 >= state.number
      BY <1>1, <1>2, <3>2
    <3> QED BY <1>4, <3>1, <3>2, <3>3 DEF Kept
  <2>2. ASSUME NEW i \in 1..Len(channel), NEW k \in 1..Len(channel[i].hashes)
        PROVE  Holds(storage', "BlockData", channel[i].hashes[k])
    <3>1. PICK h : h = channel[i].hashes[k]
      OBVIOUS
    <3>2. h \in Heads /\ NumberOf[h] \in Nat /\ NumberOf[h] + Len(channel) >= state.number
          /\ Holds(storage, "BlockData", h)
      BY <3>1, StoreFacts
    <3>3. NumberOf[h] + Capacity + 1 >= state.number
      BY <1>1, <1>2, <3>2
    <3> QED BY <1>4, <3>1, <3>2, <3>3 DEF Kept
  <2>3. ASSUME NEW i \in 1..Len(channel'), NEW k \in 1..Len(channel'[i].hashes)
        PROVE  Holds(storage', "BlockData", channel'[i].hashes[k])
    <3>1. i \in 1..Len(channel) \/ channel'[i].hashes = <<>>
      BY <1>7
    <3>2. i \in 1..Len(channel)
      BY <2>3, <3>1
    <3> QED BY <1>6, <2>2, <2>3, <3>2
  <2>4. \A k \in 1..Len(state'.hashes) : Holds(storage', "BlockData", state'.hashes[k])
    <3>1. state'.hashes = <<processing>>
      BY <1>1 DEF StoreInv
    <3> QED BY <1>4, <3>1
  <2> QED BY <1>1, <2>1, <2>3, <2>4 DEF Traced
<1>10. EveryBlockTraced'
  BY <1>1 DEF StoreInv, EveryBlockTraced
<1> QED BY <1>1, <1>4, <1>5, <1>8, <1>9, <1>10 DEF StoreInv, Backings

(* The backings seen after an event. *)
LEMMA BackingsGrow ==
  ASSUME TypeInv, OrderInv, StoreInv, NEW e \in Kinds, NEW c \in Candidates, NextEvent(e, c)
  PROVE  IndexInv(storage, state.number, Backings')
<1>1. chain.events \subseteq chain'.events
  BY EventFacts
<1>2. Backings \subseteq Backings'
  BY <1>1 DEF Backings, BackedBefore
<1>3. state.number \in Nat /\ state.number <= state.number /\ IndexInv(storage, state.number, Backings)
  BY StoreFacts
<1> QED BY <1>2, <1>3, IndexInvMore

(* A candidate that is backed now was not backed before: nothing is stored for it. *)
LEMMA BackedFirst ==
  ASSUME TypeInv, InStep, NEW c \in Candidates, NextEvent("Backed", c)
  PROVE  c \notin Backings /\ c \in Backings' /\ RelayParentOf[c] \in AncestorsOf[processing]
<1>1. "Backed" \in Kinds
  BY DEF Kinds
<1>2. /\ processing \in Heads /\ processing = chain.finalized /\ Possible("Backed", c, processing)
      /\ <<"Backed", c, processing>> \in chain'.events
  BY <1>1, EventNumber
<1>3. c \in Backings'
  BY <1>2 DEF Backings, BackedBefore
<1>4. c \notin Backings
  <2>1. SUFFICES ASSUME NEW g \in Heads, <<"Backed", c, g>> \in chain.events PROVE FALSE
    BY DEF Backings, BackedBefore
  <2>2. <<"Backed", c, g>>[3] \in AncestorsOf[processing] \cup {processing}
    BY <1>2, <2>1 DEF InStep
  <2>3. Happened("Backed", c, processing)
    BY <2>1, <2>2 DEF Happened
  <2> QED BY <1>2, <2>3 DEF Possible
<1> QED BY <1>2, <1>3, <1>4 DEF Possible

LEMMA BackedStored ==
  ASSUME KeepsEnough, TypeInv, OrderInv, InStep, StoreInv, NEW c \in Candidates, process_candidate_backed(c)
  PROVE  StoreInv'
<1>1. NextEvent("Backed", c) /\ "Backed" \in Kinds
  BY DEF process_candidate_backed, Kinds
<1>2. /\ UNCHANGED <<channel, tracker>> /\ processing \in Heads
      /\ stage \in {"candidates", "initiated", "concluded"} /\ stage' \in {"candidates", "initiated", "concluded"}
      /\ NumberOf[processing] = state.number
  BY <1>1, EventFacts, EventNumber
<1>3. /\ StorageOK(storage) /\ state.number \in Nat /\ state.number \in Blocks
      /\ IndexInv(storage, state.number, Backings) /\ IndexInv(storage, state.number, Backings')
      /\ Capacity \in Nat /\ MaxLead \in Nat /\ state.number <= state.number + MaxLead
      /\ state.number + Capacity + 1 >= state.number
  BY <1>1, StoreFacts, BackingsGrow
<1>4. c \notin Backings /\ c \in Backings' /\ RelayParentOf[c] \in AncestorsOf[processing]
  BY <1>1, BackedFirst
<1>5. PICK rp : rp = RelayParentOf[c]
  OBVIOUS
<1>6. /\ rp \in Heads /\ NumberOf[rp] \in Blocks /\ NumberOf[rp] \in Nat /\ NumberOf[rp] <= state.number
      /\ NumberOf[rp] <= state.number + MaxLead
  <2>1. rp \in Heads /\ NumberOf[rp] \in Nat /\ NumberOf[rp] \in Blocks /\ NumberOf[rp] < NumberOf[processing]
    BY <1>2, <1>4, <1>5, ChainAssumption, KeyFacts
  <2> QED BY <1>2, <1>3, <2>1
<1>7. /\ c \in Keys /\ c \notin Heads /\ rp \in Keys /\ rp \notin Candidates /\ rp # c
      /\ {"CandidatesParachains", "RelayBlockHeader", "Candidate"} \subseteq Prefixes
      /\ Fits("CandidatesParachains", c, Plain) /\ Fits("RelayBlockHeader", rp, Plain) /\ Plain # Absent
  BY <1>6, KeyFacts, PlainFits, RecordFacts DEF Prefixes
<1>8. PICK record : record = [backed |-> state.number, included |-> 0, timed_out |-> 0,
                              disputed |-> 0, concluded |-> 0]
  OBVIOUS
<1>9. Fits("Candidate", c, record) /\ record # Absent
  <2>1. record \in CandidateRecords
    BY <1>3, <1>8, KeyFacts DEF CandidateRecords
  <2> QED BY <2>1, CandidateFits, RecordFacts
<1>10. PICK listed : listed = Written(storage, "CandidatesParachains", c, Plain, state.number)
  OBVIOUS
<1>11. PICK fetched : fetched = Written(listed, "RelayBlockHeader", rp, Plain, NumberOf[rp])
  OBVIOUS
<1>12. Recent(storage, state.number, c)
  <2>1. \A b \in Blocks : c \notin storage.idx[b]
    BY <1>3, <1>4 DEF IndexInv
  <2> QED BY <2>1 DEF Recent
<1>13. /\ StorageOK(listed) /\ IndexInv(listed, state.number, Backings') /\ Kept(storage, listed, state.number)
       /\ Holds(listed, "CandidatesParachains", c) /\ Recent(listed, state.number, c)
  BY <1>3, <1>4, <1>7, <1>10, <1>12, WriteKeeps
<1>14. /\ StorageOK(fetched) /\ IndexInv(fetched, state.number, Backings') /\ Kept(listed, fetched, state.number)
       /\ Holds(fetched, "CandidatesParachains", c)
  BY <1>3, <1>6, <1>7, <1>11, <1>13, WriteKeeps
<1>15. ASSUME NEW st, StorageOK(st), IndexInv(st, state.number, Backings'), Kept(storage, st, state.number),
              Holds(st, "CandidatesParachains", c), storage' = Written(st, "Candidate", c, record, state.number)
       PROVE  IndexInv(storage', state.number, Backings') /\ Kept(storage, storage', state.number)
  <2>1. IndexInv(storage', state.number, Backings') /\ Kept(st, storage', state.number)
    BY <1>3, <1>4, <1>7, <1>9, <1>15, WriteKeeps
  <2> QED BY <1>15, <2>1, KeptTransitive
<1>16. \/ storage' = storage
       \/ storage' = Written(listed, "Candidate", c, record, state.number)
       \/ storage' = Written(fetched, "Candidate", c, record, state.number)
       \/ storage' = listed
  BY <1>5, <1>8, <1>10, <1>11 DEF process_candidate_backed
<1>17. IndexInv(storage', state.number, Backings') /\ Kept(storage, storage', state.number)
  <2>1. CASE storage' = storage
    BY <1>3, <2>1 DEF Kept
  <2>2. Kept(storage, fetched, state.number)
    BY <1>13, <1>14, KeptTransitive
  <2> QED BY <1>13, <1>14, <1>15, <1>16, <2>1, <2>2
<1>18. state'.number = state.number /\ state'.hashes = state.hashes
  BY BackedTypes DEF SameBlock
<1>19. ghost'.skipped = ghost.skipped
  <2>1. Note("Backed", c) \/ ghost' = ghost
    BY DEF process_candidate_backed
  <2> QED BY <2>1, NoteSkips
<1> QED BY <1>2, <1>17, <1>18, <1>19, StorageChanges

LEMMA CompletedStored ==
  ASSUME TypeInv, OrderInv, InStep, StoreInv, NEW c \in Candidates,
         process_candidate_included(c) \/ process_candidate_timed_out(c)
  PROVE  StoreInv'
<1>1. PICK e \in {"Included", "TimedOut"} : NextEvent(e, c) /\ e \in Kinds /\ (Note(e, c) \/ ghost' = ghost)
  BY DEF process_candidate_included, process_candidate_timed_out, Kinds
<1>2. /\ UNCHANGED <<channel, tracker>>
      /\ stage \in {"candidates", "initiated", "concluded"} /\ stage' \in {"candidates", "initiated", "concluded"}
  BY <1>1, EventFacts
<1>3. StorageOK(storage) /\ IndexInv(storage, state.number, Backings') /\ state.number \in Blocks
  BY <1>1, StoreFacts, BackingsGrow
<1>4. PICK r : \/ storage' = storage
               \/ /\ storage' = Replaced(storage, "Candidate", c, r)
                  /\ Holds(storage, "Candidate", c) => Fits("Candidate", c, r)
  <2>1. CASE ~Holds(storage, "Candidate", c)
    BY <2>1 DEF process_candidate_included, process_candidate_timed_out
  <2>2. CASE Holds(storage, "Candidate", c)
    <3>1. CandidateRecord(c) \in CandidateRecords
      BY <1>3, <2>2, HeldCandidate DEF CandidateRecord
    <3>2. PICK a : a = [CandidateRecord(c) EXCEPT !.included = state.number]
      OBVIOUS
    <3>3. PICK b : b = [CandidateRecord(c) EXCEPT !.timed_out = state.number]
      OBVIOUS
    <3>4. Fits("Candidate", c, a) /\ Fits("Candidate", c, b)
      BY <1>3, <3>1, <3>2, <3>3, RecordTypes, CandidateFits
    <3>5. storage' = Replaced(storage, "Candidate", c, a) \/ storage' = Replaced(storage, "Candidate", c, b)
      BY <2>2, <3>2, <3>3 DEF process_candidate_included, process_candidate_timed_out
    <3> QED BY <3>4, <3>5
  <2> QED BY <2>1, <2>2
<1>5. IndexInv(storage', state.number, Backings') /\ Kept(storage, storage', state.number)
  <2>1. CASE storage' = storage
    BY <1>3, <2>1 DEF Kept
  <2> QED BY <1>3, <1>4, <2>1, ReplaceKeeps
<1>6. state'.number = state.number /\ state'.hashes = state.hashes
  BY IncludedTypes, TimedOutTypes DEF SameBlock
<1>7. ghost'.skipped = ghost.skipped
  BY <1>1, NoteSkips
<1> QED BY <1>2, <1>5, <1>6, <1>7, StorageChanges

LEMMA InitiatedStored ==
  ASSUME KeepsEnough, TypeInv, OrderInv, InStep, StoreInv, NEW c \in Candidates, process_dispute_initiated(c)
  PROVE  StoreInv'
<1>1. NextEvent("DisputeInitiated", c) /\ "DisputeInitiated" \in Kinds /\ ghost' = ghost
  BY DEF process_dispute_initiated, Kinds
<1>2. /\ UNCHANGED <<channel, tracker>>
      /\ stage \in {"candidates", "initiated", "concluded"} /\ stage' \in {"candidates", "initiated", "concluded"}
  BY <1>1, EventFacts
<1>3. /\ StorageOK(storage) /\ IndexInv(storage, state.number, Backings')
      /\ state.number \in Blocks /\ state.number \in Nat /\ state.number <= state.number + MaxLead
  BY <1>1, StoreFacts, BackingsGrow
<1>4. PICK info : info = [candidate |-> c, initiated |-> state.number, concluded |-> 0]
  OBVIOUS
<1>5. PICK r : r = [CandidateRecord(c) EXCEPT !.disputed = state.number, !.concluded = 0]
  OBVIOUS
<1>6. PICK started : started = Written(storage, "Dispute", c, info, state.number)
  OBVIOUS
<1>7. \/ storage' = storage
      \/ Findable(c) /\ storage' = Replaced(started, "Candidate", c, r)
  BY <1>4, <1>5, <1>6 DEF process_dispute_initiated
<1>8. ASSUME Findable(c), storage' = Replaced(started, "Candidate", c, r)
      PROVE  IndexInv(storage', state.number, Backings') /\ Kept(storage, storage', state.number)
  <2>1. Holds(storage, "Candidate", c) /\ Holds(storage, "CandidatesParachains", c)
    BY <1>8 DEF Findable
  <2>2. CandidateRecord(c) \in CandidateRecords
    BY <1>3, <2>1, HeldCandidate DEF CandidateRecord
  <2>3. Fits("Candidate", c, r)
    BY <1>3, <1>5, <2>2, RecordTypes, CandidateFits
  <2>4. info \in DisputeInfos({c}) /\ info \in DisputeInfos(Candidates)
    BY <1>3, <1>4, KeyFacts DEF DisputeInfos
  <2>5. Fits("Dispute", c, info) /\ info # Absent
    BY <2>4, RecordFacts DEF Fits, AnyRecord
  <2>6. c \in Keys /\ c \notin Heads /\ "Dispute" \in Prefixes /\ c \in Backings'
    BY <1>3, <2>1, KeyFacts DEF Prefixes, IndexInv
  <2>7. StorageOK(started) /\ IndexInv(started, state.number, Backings') /\ Kept(storage, started, state.number)
    BY <1>3, <1>6, <2>1, <2>5, <2>6, WriteKeeps
  <2>8. IndexInv(storage', state.number, Backings') /\ Kept(started, storage', state.number)
    BY <1>8, <2>3, <2>7, ReplaceKeeps
  <2> QED BY <2>7, <2>8, KeptTransitive
<1>9. ASSUME storage' = storage
      PROVE  IndexInv(storage', state.number, Backings') /\ Kept(storage, storage', state.number)
  BY <1>3, <1>9 DEF Kept
<1>10. IndexInv(storage', state.number, Backings') /\ Kept(storage, storage', state.number)
  BY <1>7, <1>8, <1>9
<1>11. state'.number = state.number /\ state'.hashes = state.hashes
  BY InitiatedTypes DEF SameBlock
<1> QED BY <1>1, <1>2, <1>10, <1>11, StorageChanges

LEMMA ConcludedStored ==
  ASSUME TypeInv, OrderInv, InStep, StoreInv, NEW c \in Candidates, process_dispute_concluded(c)
  PROVE  StoreInv'
<1>1. NextEvent("DisputeConcluded", c) /\ "DisputeConcluded" \in Kinds
      /\ (Note("DisputeConcluded", c) \/ ghost' = ghost)
  BY DEF process_dispute_concluded, Kinds
<1>2. /\ UNCHANGED <<channel, tracker>>
      /\ stage \in {"candidates", "initiated", "concluded"} /\ stage' \in {"candidates", "initiated", "concluded"}
  BY <1>1, EventFacts
<1>3. StorageOK(storage) /\ IndexInv(storage, state.number, Backings') /\ state.number \in Blocks
  BY <1>1, StoreFacts, BackingsGrow
<1>4. PICK info : info = [storage.rec[<<"Dispute", c>>] EXCEPT !.concluded = state.number]
  OBVIOUS
<1>5. PICK r : r = [CandidateRecord(c) EXCEPT !.disputed = state.number, !.concluded = state.number]
  OBVIOUS
<1>6. PICK ended : ended = Replaced(storage, "Dispute", c, info)
  OBVIOUS
<1>7. \/ storage' = storage
      \/ Findable(c) /\ Holds(storage, "Dispute", c) /\ storage' = Replaced(ended, "Candidate", c, r)
      \/ Findable(c) /\ storage' = Replaced(storage, "Candidate", c, r)
  BY <1>4, <1>5, <1>6 DEF process_dispute_concluded
<1>8. Findable(c) => Fits("Candidate", c, r)
  <2>1. SUFFICES ASSUME Findable(c) PROVE Fits("Candidate", c, r)
    OBVIOUS
  <2>2. CandidateRecord(c) \in CandidateRecords
    BY <1>3, <2>1, HeldCandidate DEF CandidateRecord, Findable
  <2> QED BY <1>3, <1>5, <2>2, RecordTypes, CandidateFits
<1>9. Holds(storage, "Dispute", c) => Fits("Dispute", c, info)
  <2>1. SUFFICES ASSUME Holds(storage, "Dispute", c) PROVE Fits("Dispute", c, info)
    OBVIOUS
  <2>2. storage.rec[<<"Dispute", c>>] \in DisputeInfos({c})
    BY <1>3, <2>1 DEF StorageOK, Holds
  <2>3. info \in DisputeInfos({c}) /\ info \in DisputeInfos(Candidates)
    BY <1>3, <1>4, <2>2 DEF DisputeInfos
  <2> QED BY <2>3 DEF Fits, AnyRecord
<1>10. StorageOK(ended) /\ IndexInv(ended, state.number, Backings') /\ Kept(storage, ended, state.number)
  BY <1>3, <1>6, <1>9, ReplaceKeeps
<1>11. IndexInv(storage', state.number, Backings') /\ Kept(storage, storage', state.number)
  <2>1. CASE storage' = storage
    BY <1>3, <2>1 DEF Kept
  <2>2. CASE Findable(c) /\ storage' = Replaced(ended, "Candidate", c, r)
    <3>1. IndexInv(storage', state.number, Backings') /\ Kept(ended, storage', state.number)
      BY <1>8, <1>10, <2>2, ReplaceKeeps
    <3> QED BY <1>10, <3>1, KeptTransitive
  <2>3. CASE Findable(c) /\ storage' = Replaced(storage, "Candidate", c, r)
    BY <1>3, <1>8, <2>3, ReplaceKeeps
  <2> QED BY <1>7, <2>1, <2>2, <2>3
<1>12. state'.number = state.number /\ state'.hashes = state.hashes
  BY ConcludedTypes DEF SameBlock
<1>13. ghost'.skipped = ghost.skipped
  BY <1>1, NoteSkips
<1> QED BY <1>2, <1>11, <1>12, <1>13, StorageChanges

(* The tracker finds what it reads. *)
LEMMA TrackerStored ==
  ASSUME TypeInv, OrderInv, StoreInv, Tracker
  PROVE  StoreInv'
<1> USE DEF TrackerBusy
<1>1. UNCHANGED <<storage, state, processing, stage, chain>>
  BY DEF Tracker, TrackerTakes, TrackerReadsInherent, TrackerReadsRest
<1>2. /\ IndexInv(storage', state'.number, Backings') /\ (stage' = "announcing" => state'.hashes = <<processing'>>)
      /\ channel \in Seq(Updates)
      /\ tracker \in [number : Blocks, hashes : Seq(Heads), found : BOOLEAN, panicked : BOOLEAN]
      /\ ghost = [noted |-> ghost.noted, told |-> ghost.told, skipped |-> ghost.skipped]
  BY <1>1 DEF StoreInv, Backings, BackedBefore, TypeInv, TaskTypes, ChainTypes
<1>3. state.number \in Nat /\ \A i \in 1..Len(channel) : channel[i] \in Updates /\ channel[i].number \in Nat
  <2>1. \A m \in Updates : m.number \in Nat
    BY KeyFacts DEF Updates
  <2> QED BY <1>2, <2>1, StoreFacts
<1>4. CASE TrackerTakes
  <2>1. PICK m : m = Head(channel)
    OBVIOUS
  <2>2. /\ channel # <<>> /\ channel' = Tail(channel) /\ ghost' = [ghost EXCEPT !.told = @ \cup Report(m)]
        /\ tracker.hashes = <<>>
        /\ tracker' = IF m = NewSession THEN tracker
                      ELSE [tracker EXCEPT !.number = m.number, !.hashes = m.hashes]
    BY <1>4, <2>1 DEF TrackerTakes
  <2>3. /\ Len(channel') = Len(channel) - 1 /\ Len(channel) \in Nat \ {0}
        /\ m = channel[1] /\ 1 \in 1..Len(channel)
        /\ \A i \in 1..Len(channel') : channel'[i] = channel[i + 1] /\ i + 1 \in 1..Len(channel)
    BY <1>2, <2>1, <2>2, TailFacts
  <2>4. \/ tracker'.hashes = <<>>
        \/ tracker'.number = m.number /\ tracker'.hashes = m.hashes
    BY <1>2, <2>2
  <2>5. tracker'.panicked = tracker.panicked /\ ghost'.skipped = ghost.skipped
    BY <1>2, <2>2
  <2>6. EveryBlockTraced'
    BY <2>5 DEF StoreInv, EveryBlockTraced
  <2>7. LagInv'
    <3>1. tracker'.hashes # <<>> => tracker'.number + Len(channel') + 1 >= state'.number
      <4>1. m.hashes # <<>> => m.number + Len(channel) - 1 + 1 >= state.number
        BY <2>3 DEF StoreInv, LagInv
      <4> QED BY <1>1, <1>3, <2>3, <2>4, <4>1
    <3>2. ASSUME NEW i \in 1..Len(channel'), channel'[i].hashes # <<>>
          PROVE  channel'[i].number + Len(channel') - i + 1 >= state'.number
      <4>1. channel'[i] = channel[i + 1] /\ i + 1 \in 1..Len(channel)
        BY <2>3
      <4>2. channel[i + 1].number + Len(channel) - (i + 1) + 1 >= state.number /\ channel[i + 1].number \in Nat
        BY <1>3, <3>2, <4>1 DEF StoreInv, LagInv
      <4> QED BY <1>1, <1>3, <2>3, <4>1, <4>2
    <3> QED BY <3>1, <3>2 DEF LagInv
  <2>8. Traced'
    <3>1. \A i \in 1..Len(channel) : \A k \in 1..Len(channel[i].hashes) :
            Holds(storage, "BlockData", channel[i].hashes[k])
      BY DEF StoreInv, Traced
    <3>2. \A k \in 1..Len(tracker'.hashes) : Holds(storage, "BlockData", tracker'.hashes[k])
      BY <2>3, <2>4, <3>1
    <3>3. ASSUME NEW i \in 1..Len(channel'), NEW k \in 1..Len(channel'[i].hashes)
          PROVE  Holds(storage, "BlockData", channel'[i].hashes[k])
      BY <2>3, <3>1, <3>3
    <3>4. stage # "announcing" => \A k \in 1..Len(state.hashes) : Holds(storage, "BlockData", state.hashes[k])
      BY DEF StoreInv, Traced
    <3> QED BY <1>1, <3>2, <3>3, <3>4 DEF Traced
  <2> QED BY <1>2, <2>6, <2>7, <2>8 DEF StoreInv, Backings
<1>5. CASE TrackerReadsInherent \/ TrackerReadsRest
  <2>1. tracker.hashes # <<>> /\ channel' = channel
    BY <1>5 DEF TrackerReadsInherent, TrackerReadsRest
  <2>2. /\ Len(tracker.hashes) \in Nat \ {0} /\ Head(tracker.hashes) = tracker.hashes[1]
        /\ \A k \in 1..Len(Tail(tracker.hashes)) :
             Tail(tracker.hashes)[k] = tracker.hashes[k + 1] /\ k + 1 \in 1..Len(tracker.hashes)
    BY <1>2, <2>1, TailFacts
  <2>3. Holds(storage, "BlockData", Head(tracker.hashes))
    <3>1. 1 \in 1..Len(tracker.hashes)
      BY <2>2
    <3> QED BY <2>2, <3>1 DEF StoreInv, Traced
  <2>4. /\ tracker'.hashes = tracker.hashes \/ tracker'.hashes = Tail(tracker.hashes)
        /\ tracker'.number = tracker.number /\ tracker'.panicked = tracker.panicked /\ ghost' = ghost
    BY <1>2, <1>5, <2>3 DEF TrackerReadsInherent, TrackerReadsRest
  <2>5. EveryBlockTraced'
    BY <2>4 DEF StoreInv, EveryBlockTraced
  <2>6. LagInv'
    BY <1>1, <2>1, <2>4 DEF StoreInv, LagInv
  <2>7. \A k \in 1..Len(tracker'.hashes) : Holds(storage, "BlockData", tracker'.hashes[k])
    <3>1. \A k \in 1..Len(tracker.hashes) : Holds(storage, "BlockData", tracker.hashes[k])
      BY DEF StoreInv, Traced
    <3>2. CASE tracker'.hashes = tracker.hashes
      BY <3>1, <3>2
    <3>3. CASE tracker'.hashes = Tail(tracker.hashes)
      BY <2>2, <3>1, <3>3
    <3> QED BY <2>4, <3>2, <3>3
  <2>8. Traced'
    BY <1>1, <2>1, <2>7 DEF StoreInv, Traced
  <2> QED BY <1>2, <2>5, <2>6, <2>8 DEF StoreInv, Backings
<1> QED BY <1>4, <1>5 DEF Tracker

LEMMA StoreNext ==
  ASSUME Followed = "Finalized", KeepsEnough, TypeInv, OrderInv, InStep, StoreInv, [Next]_vars
  PROVE  StoreInv'
<1>1. CASE vars' = vars
  <2>1. Backings' = Backings
    BY <1>1 DEF vars, Backings, BackedBefore
  <2> QED BY <1>1, <2>1 DEF vars, StoreInv, Backings, LagInv, Traced, EveryBlockTraced
<1>2. CASE \E h \in Heads : Finalize(h) \/ NewBest(h)
  BY <1>2, FinalizeStored, NewBestStored
<1>3. CASE update_state \/ broadcast_new_session \/ Tracker
  BY <1>3, UpdateStored, BroadcastStored, TrackerStored
<1>4. CASE \E c \in Candidates :
             \/ process_candidate_backed(c) \/ process_candidate_included(c) \/ process_candidate_timed_out(c)
             \/ process_dispute_initiated(c) \/ process_dispute_concluded(c)
  BY <1>4, BackedStored, CompletedStored, InitiatedStored, ConcludedStored
<1>5. CASE EventsDone
  <2>1. /\ stage \in {"candidates", "initiated", "concluded"} /\ stage' = "idle"
        /\ UNCHANGED <<storage, state, channel, tracker, chain, ghost>>
    BY <1>5 DEF EventsDone
  <2>2. Kept(storage, storage', state.number) /\ IndexInv(storage', state.number, Backings')
    BY <2>1, StoreFacts DEF Kept, Backings, BackedBefore
  <2> QED BY <2>1, <2>2, StorageChanges
<1> QED BY <1>1, <1>2, <1>3, <1>4, <1>5 DEF Next

LEMMA InitStoreInv == Init => StoreInv
<1> SUFFICES ASSUME Init PROVE StoreInv
  OBVIOUS
<1>1. /\ storage = [rec |-> [s \in Slots |-> Absent], idx |-> EmptyIndex]
      /\ state = NewState(0, <<>>, 0, 0) /\ channel = <<>> /\ stage = "idle"
      /\ tracker = [number |-> 0, hashes |-> <<>>, found |-> FALSE, panicked |-> FALSE]
      /\ ghost = [noted |-> {}, told |-> {}, skipped |-> {}]
  BY DEF Init
<1>2. \A q \in Prefixes, j \in Keys : ~Holds(storage, q, j)
  BY <1>1 DEF Holds, Slots
<1>3. storage.idx = EmptyIndex /\ IndexedBlocks(storage.idx) = {} /\ \A b \in Blocks : storage.idx[b] = {}
  BY <1>1 DEF EmptyIndex, IndexedBlocks
<1>4. /\ {"Candidate", "CandidatesParachains", "Dispute", "RelayBlockHeader"} \subseteq Prefixes
      /\ \A c \in Candidates : c \in Keys
      /\ \A h \in Heads : h \in Keys
  BY KeyFacts DEF Prefixes
<1>5. IndexInv(storage, state.number, Backings)
  BY <1>2, <1>3, <1>4 DEF IndexInv
<1>6. LagInv /\ Traced /\ EveryBlockTraced
  BY <1>1 DEF LagInv, Traced, EveryBlockTraced, NewState
<1> QED BY <1>1, <1>5, <1>6 DEF StoreInv, Backings

LEMMA StoreInductive ==
  ASSUME Followed = "Finalized", KeepsEnough
  PROVE  Spec => []StoreInv
<1>1. Init => StoreInv
  BY InitStoreInv
<1>2. (TypeInv /\ OrderInv /\ FinalInv /\ StoreInv) /\ [Next]_vars => StoreInv'
  BY StoreNext DEF FinalInv
<1> QED BY <1>1, <1>2, FinalInductive, PTL DEF Spec

(* When finalized heads are followed and the storage keeps as many blocks as can be on
   their way to the tracker, the tracker finds every block it is told of, complete. *)
THEOREM TrackerFindsEveryBlock == Followed = "Finalized" /\ KeepsEnough => (Spec => []EveryBlockTraced)
<1> SUFFICES ASSUME Followed = "Finalized", KeepsEnough PROVE Spec => []EveryBlockTraced
  OBVIOUS
<1>1. StoreInv => EveryBlockTraced
  BY DEF StoreInv
<1> QED BY <1>1, StoreInductive, PTL

(* Under the same conditions, a stored candidate can be found by its hash alone and a
   stored dispute has its candidate, whatever the storage prunes. *)
THEOREM CandidatesFindable == Followed = "Finalized" /\ KeepsEnough => (Spec => []RecordsTogether)
<1> SUFFICES ASSUME Followed = "Finalized", KeepsEnough PROVE Spec => []RecordsTogether
  OBVIOUS
<1>1. StoreInv => RecordsTogether
  BY DEF StoreInv, IndexInv, RecordsTogether
<1> QED BY <1>1, StoreInductive, PTL
=============================================================================
