----------------------------- MODULE Collector -----------------------------
(***************************************************************************)
(* The collector of essentials/src/collector/mod.rs: it turns the heads of *)
(* the relay chain, and the candidate and dispute events of the followed   *)
(* ones, into records of the prefixed storage and into one NewHead update  *)
(* per block number, which a tracker takes from a bounded channel and      *)
(* completes from the storage while the collector goes on writing to it.   *)
(*                                                                         *)
(* One subscriber (--para-id) and one parachain are modelled; the          *)
(* websocket listener is off, as it is by default, and requests to the     *)
(* node succeed (TracerLifecycle has the failing ones).  The five records  *)
(* a block gets under its own hash, from InherentData to CoreAssignments,  *)
(* share key and block number, so they live and die together and are one   *)
(* record, BlockData.                                                      *)
(***************************************************************************)
EXTENDS BlockIndex, Sequences

CONSTANTS Heads,          \* relay chain block hashes
          NumberOf,       \* the block number of a head
          AncestorsOf,    \* the heads below a head
          SessionOf,      \* the session index of a head
          SessionKey,     \* the hash of a session index
          Candidates,     \* candidate hashes
          RelayParentOf,  \* the head a candidate builds on
          Followed,       \* CollectorSubscribeMode: "Best" or "Finalized"
          HrmpChannels,   \* CollectorOptions::hrmp_channels
          Capacity,       \* COLLECTOR_NORMAL_CHANNEL_CAPACITY
          MaxLead,        \* by how much best heads may be ahead of finality
          MaxRepeats,     \* bound: how often a best head is announced again
          Absent          \* marks an empty slot of the storage

Sessions == {SessionOf[h] : h \in Heads}

(* Numbers start at 0, the genesis block; an ancestor of an ancestor is one. *)
ASSUME ChainAssumption ==
  /\ 0 \in Blocks
  /\ NumberOf \in [Heads -> Blocks]
  /\ AncestorsOf \in [Heads -> SUBSET Heads]
  /\ \A h \in Heads : \A g \in AncestorsOf[h] :
       NumberOf[g] < NumberOf[h] /\ AncestorsOf[g] \subseteq AncestorsOf[h]
  /\ SessionOf \in [Heads -> Nat]
  /\ RelayParentOf \in [Candidates -> Heads]

ASSUME OptionsAssumption ==
  /\ Followed \in {"Best", "Finalized"}
  /\ HrmpChannels \in BOOLEAN
  /\ Capacity \in Nat \ {0}
  /\ MaxLead \in Nat
  /\ MaxRepeats \in Nat

(* Keys are hashes of different things. *)
ASSUME KeysAssumption ==
  LET SessionKeys == {SessionKey[i] : i \in Sessions}
  IN  /\ Keys = Heads \cup Candidates \cup SessionKeys
      /\ Heads \cap Candidates = {}
      /\ SessionKeys \cap (Heads \cup Candidates) = {}

VARIABLES storage,     \* [rec |-> the record of every slot, idx |-> the expiry index]
          state,       \* CollectorState
          processing,  \* the head being processed, or Absent
          stage,       \* how far: see Stages
          channel,     \* the updates on their way to the tracker
          tracker,     \* what the tracker does with the last one
          chain,       \* the relay chain, as far as it has been announced
          ghost        \* what was noted for which block, told, skipped: for the properties

vars == <<storage, state, processing, stage, channel, tracker, chain, ghost>>

Stages == {"idle",       \* waiting for the next head
           "updating",   \* in update_state(), about to send NewHead
           "announcing", \* about to send NewSession
           "candidates", "initiated", "concluded"}  \* the events of the block
-----------------------------------------------------------------------------
(* The storage, through its API. *)
Prefixes == {"RelayBlockHeader", "RelevantFinalizedBlockNumber", "BlockData",
             "InboundOutboundHrmpChannels", "AccountKeys", "CandidatesParachains",
             "Candidate", "Dispute"}

Slots == Prefixes \X Keys

Holds(st, p, k) == st.rec[<<p, k>>] # Absent

Pruned(st) ==
  [rec |-> [s \in Slots |-> IF s[2] \in PrunedKeys(st.idx) THEN Absent ELSE st.rec[s]],
   idx |-> PrunedIndex(st.idx)]

(* storage_write_prefixed() to a free slot, with the prune it ends in. *)
Written(st, p, k, v, n) ==
  Pruned([rec |-> [st.rec EXCEPT ![<<p, k>>] = v], idx |-> AddToIndex(st.idx, n, k)])

(* storage_replace_prefixed(): nothing happens to an empty slot. *)
Replaced(st, p, k, v) ==
  IF Holds(st, p, k) THEN [st EXCEPT !.rec[<<p, k>>] = v] ELSE st

Deleted(st, p, k) == [st EXCEPT !.rec[<<p, k>>] = Absent]

(* A record whose contents no property looks at, and those that some property does. *)
Plain == [plain |-> TRUE]

CandidateRecords == [backed : Blocks, included : Blocks, timed_out : Blocks,
                     disputed : Blocks, concluded : Blocks]

DisputeInfos(candidates) == [candidate : candidates, initiated : Blocks, concluded : Blocks]

ASSUME AbsentAssumption ==
  Absent \notin Heads \cup {Plain} \cup CandidateRecords \cup DisputeInfos(Candidates)
-----------------------------------------------------------------------------
(* CollectorState; 0 stands for None. *)
NewState(n, hashes, session, finalized) ==
  [number |-> n, hashes |-> hashes, backed |-> <<>>, included |-> <<>>,
   timed_out |-> <<>>, disputes |-> <<>>, session |-> session, finalized |-> finalized]

Init ==
  /\ storage = [rec |-> [s \in Slots |-> Absent], idx |-> EmptyIndex]
  /\ state = NewState(0, <<>>, 0, 0)
  /\ processing = Absent
  /\ stage = "idle"
  /\ channel = <<>>
  /\ tracker = [number |-> 0, hashes |-> <<>>, found |-> FALSE, panicked |-> FALSE]
  /\ chain = [events |-> {}, finalized |-> Absent, best |-> Absent,
              announced |-> {}, repeats |-> 0, replay |-> Absent]
  /\ ghost = [noted |-> {}, told |-> {}, skipped |-> {}]

(* write_parainherent_data() to write_core_assignments().  The slot is free when
   the header's was: both have the same key, and the header is written first. *)
WriteBlockData(st, h) ==
  Written(st, "BlockData", h, Plain, NumberOf[h])

(* The account keys of the head's session are stored if they are missing, and
   those of the session two before it deleted. *)
WriteSession(st, h) ==
  LET s == SessionOf[h]
      written == Written(st, "AccountKeys", SessionKey[s], Plain, NumberOf[h])
  IN  IF Holds(st, "AccountKeys", SessionKey[s]) THEN st
      ELSE IF s > 1 /\ s - 2 \in Sessions
             THEN Deleted(written, "AccountKeys", SessionKey[s - 2])
             ELSE written

(* process_new_head() after the state has been brought to the head's number.  A
   header that is already stored is an error, which leaves the rest undone. *)
FinishNewHead(st, cs, h) ==
  IF Holds(st, "RelayBlockHeader", h)
    THEN /\ storage' = st
         /\ state' = cs
         /\ stage' = "candidates"
    ELSE LET stored == WriteSession(Written(st, "RelayBlockHeader", h, Plain, NumberOf[h]), h)
         IN  IF cs.session # SessionOf[h]
               THEN /\ storage' = stored
                    /\ state' = [cs EXCEPT !.session = SessionOf[h]]
                    /\ stage' = "announcing"
               ELSE /\ storage' = WriteBlockData(stored, h)
                    /\ state' = cs
                    /\ stage' = "candidates"

(* A wrong process_new_head() that takes a lower number for a new block. *)
process_new_head_lower(st, cs, h) ==
  \/ /\ NumberOf[h] # cs.number
     /\ storage' = st
     /\ state' = cs
     /\ stage' = "updating"
  \/ /\ NumberOf[h] = cs.number
     /\ FinishNewHead(st, [cs EXCEPT !.hashes = Append(@, h)], h)

(* process_new_head(): a higher number completes the block before it, the same
   number is a fork, a lower number is an error.  (Errors are logged, and the
   events of the head processed all the same.) *)
process_new_head(st, cs, h) ==
  LET n == NumberOf[h]
  IN  \/ /\ n > cs.number
         /\ storage' = IF HrmpChannels
                         THEN Written(st, "InboundOutboundHrmpChannels", h, Plain, n)
                         ELSE st
         /\ state' = cs
         /\ stage' = "updating"
      \/ /\ n = cs.number
         /\ FinishNewHead(st, [cs EXCEPT !.hashes = Append(@, h)], h)
      \/ /\ n < cs.number
         /\ storage' = st
         /\ state' = cs
         /\ stage' = "candidates"

(* The head is not followed: no events of it are collected. *)
NotFollowed(st, cs) ==
  /\ storage' = st
  /\ state' = cs
  /\ stage' = "idle"
  /\ processing' = Absent

(* A best head.  The last finalized number is stored for it, once; a head that is
   announced again fails here. *)
process_new_best_head(h) ==
  LET known == Holds(storage, "RelevantFinalizedBlockNumber", h)
      stored == IF state.finalized = 0 THEN storage
                ELSE Written(storage, "RelevantFinalizedBlockNumber", h,
                             Plain, NumberOf[h])
  IN  /\ stage = "idle"
      /\ IF Followed # "Best"
           THEN NotFollowed(IF known THEN storage ELSE stored, state)
           ELSE /\ processing' = h
                /\ \/ /\ known /\ state.finalized # 0
                      /\ stage' = "candidates"
                      /\ UNCHANGED <<storage, state>>
                   \/ /\ ~known \/ state.finalized = 0
                      /\ process_new_head(stored, state, h)
      /\ UNCHANGED <<channel, tracker, ghost>>

process_new_finalized_head(h) ==
  LET n == NumberOf[h]
      cs == IF state.finalized < n THEN [state EXCEPT !.finalized = n] ELSE state
  IN  /\ stage = "idle"
      /\ IF Followed # "Finalized"
           THEN NotFollowed(storage, cs)
           ELSE /\ processing' = h
                /\ process_new_head(storage, cs, h)
      /\ UNCHANGED <<channel, tracker, ghost>>

(* The disputes of the block that are concluded. *)
Concluded(ds) == {ds[i] : i \in {j \in DOMAIN ds : ds[j].concluded # 0}}

(* A wrong update_state() that does not wait for room in the channel. *)
update_state_unbounded ==
  /\ stage = "updating"
  /\ channel' = Append(channel, [number |-> state.number, hashes |-> state.hashes,
                                 backed |-> state.backed, included |-> state.included,
                                 timed_out |-> state.timed_out,
                                 disputes |-> Concluded(state.disputes)])
  /\ FinishNewHead(storage,
                   NewState(NumberOf[processing], <<processing>>, state.session, state.finalized),
                   processing)
  /\ UNCHANGED <<processing, tracker, chain, ghost>>

(* A wrong update_state() that does not clear the candidates that timed out. *)
update_state_unclear ==
  /\ stage = "updating"
  /\ Len(channel) < Capacity
  /\ channel' = Append(channel, [number |-> state.number, hashes |-> state.hashes,
                                 backed |-> state.backed, included |-> state.included,
                                 timed_out |-> state.timed_out,
                                 disputes |-> Concluded(state.disputes)])
  /\ FinishNewHead(storage,
                   [NewState(NumberOf[processing], <<processing>>, state.session, state.finalized)
                      EXCEPT !.timed_out = state.timed_out],
                   processing)
  /\ UNCHANGED <<processing, tracker, chain, ghost>>

(* update_state(): the block before is reported as soon as the channel has room,
   and the state moves to the new one. *)
update_state ==
  /\ stage = "updating"
  /\ Len(channel) < Capacity
  /\ channel' = Append(channel, [number |-> state.number, hashes |-> state.hashes,
                                 backed |-> state.backed, included |-> state.included,
                                 timed_out |-> state.timed_out,
                                 disputes |-> Concluded(state.disputes)])
  /\ FinishNewHead(storage,
                   NewState(NumberOf[processing], <<processing>>, state.session, state.finalized),
                   processing)
  /\ UNCHANGED <<processing, tracker, chain, ghost>>

(* broadcast_event(NewSession): an update without a block. *)
NewSession == [number |-> 0, hashes |-> <<>>, backed |-> <<>>, included |-> <<>>,
               timed_out |-> <<>>, disputes |-> {}]

broadcast_new_session ==
  /\ stage = "announcing"
  /\ Len(channel) < Capacity
  /\ channel' = Append(channel, NewSession)
  /\ storage' = WriteBlockData(storage, processing)
  /\ stage' = "candidates"
  /\ UNCHANGED <<state, processing, tracker, chain, ghost>>
-----------------------------------------------------------------------------
(* The events of a followed head: candidate events first, then the disputes that
   started in the block, then those that concluded in it. *)
EventStage == [Backed |-> "candidates", Included |-> "candidates", TimedOut |-> "candidates",
               DisputeInitiated |-> "initiated", DisputeConcluded |-> "concluded"]

Earlier == [candidates |-> {"candidates"},
            initiated |-> {"candidates", "initiated"},
            concluded |-> {"candidates", "initiated", "concluded"}]

(* Has this happened to the candidate on the chain that ends in h? *)
Happened(e, c, h) == \E g \in AncestorsOf[h] \cup {h} : <<e, c, g>> \in chain.events

(* What a valid chain may do to a candidate in block h.  What happened before the
   collector started is unknown, so a candidate may be included or disputed
   without having been backed. *)
Possible(e, c, h) ==
  /\ ~Happened(e, c, h)
  /\ CASE e = "Backed" -> /\ RelayParentOf[c] \in AncestorsOf[h]
                           /\ \A f \in DOMAIN EventStage : ~Happened(f, c, h)
       [] e \in {"Included", "TimedOut"} -> /\ <<"Backed", c, h>> \notin chain.events
                                            /\ ~Happened("Included", c, h)
                                            /\ ~Happened("TimedOut", c, h)
       [] e = "DisputeInitiated" -> ~Happened("DisputeConcluded", c, h)
       [] OTHER -> TRUE

(* The next event of the head being processed is e, about candidate c.  A head
   that is announced again has the events it had the first time. *)
NextEvent(e, c) ==
  /\ processing # Absent
  /\ stage \in Earlier[EventStage[e]]
  /\ stage' = EventStage[e]
  /\ \/ /\ chain.replay = Absent
        /\ Possible(e, c, processing)
        /\ chain' = [chain EXCEPT !.events = @ \cup {<<e, c, processing>>}]
     \/ /\ chain.replay # Absent
        /\ <<e, c, processing>> \in chain.replay
        /\ \A f \in chain.replay : EventStage[e] \in Earlier[EventStage[f[1]]]
        /\ chain' = [chain EXCEPT !.replay = @ \ {<<e, c, processing>>}]
  /\ UNCHANGED <<processing, channel, tracker>>

Note(e, c) ==
  ghost' = [ghost EXCEPT !.noted = @ \cup {<<e, c, NumberOf[processing]>>}]

CandidateRecord(c) == storage.rec[<<"Candidate", c>>]

(* A wrong handler that stores the candidate before its parachain. *)
process_candidate_backed_first(c) ==
  /\ NextEvent("Backed", c)
  /\ ~Holds(storage, "Candidate", c)
  /\ LET stored == Written(storage, "Candidate", c,
                           [backed |-> state.number, included |-> 0, timed_out |-> 0,
                            disputed |-> 0, concluded |-> 0], state.number)
     IN  \/ storage' = stored  \* the header cannot be found
         \/ storage' = Written(stored, "CandidatesParachains", c, Plain, state.number)
  /\ UNCHANGED <<state, ghost>>

(* Backed.  A known candidate is a duplicate of another fork.  An error on the way
   leaves what was written before it. *)
process_candidate_backed(c) ==
  /\ NextEvent("Backed", c)
  /\ LET n == state.number
         rp == RelayParentOf[c]
         listed == Written(storage, "CandidatesParachains", c, Plain, n)
         Stored(st) ==
           /\ storage' = Written(st, "Candidate", c,
                                 [backed |-> n, included |-> 0, timed_out |-> 0,
                                  disputed |-> 0, concluded |-> 0], n)
           /\ state' = [state EXCEPT !.backed = Append(@, c)]
           /\ Note("Backed", c)
     IN  \/ /\ \/ Holds(storage, "Candidate", c)
               \/ Holds(storage, "CandidatesParachains", c)
            /\ UNCHANGED <<storage, state, ghost>>
         \/ /\ ~Holds(storage, "Candidate", c)
            /\ ~Holds(storage, "CandidatesParachains", c)
            /\ \/ /\ Holds(listed, "RelayBlockHeader", rp)
                  /\ Stored(listed)
               \/ /\ ~Holds(listed, "RelayBlockHeader", rp)  \* the header is fetched
                  /\ Stored(Written(listed, "RelayBlockHeader", rp, Plain, NumberOf[rp]))
               \/ /\ ~Holds(listed, "RelayBlockHeader", rp)  \* ... or cannot be found
                  /\ storage' = listed
                  /\ UNCHANGED <<state, ghost>>

(* Included and TimedOut, of a candidate that is known. *)
process_candidate_included(c) ==
  /\ NextEvent("Included", c)
  /\ \/ /\ Holds(storage, "Candidate", c)
        /\ storage' = Replaced(storage, "Candidate", c,
                               [CandidateRecord(c) EXCEPT !.included = state.number])
        /\ state' = [state EXCEPT !.included = Append(@, c)]
        /\ Note("Included", c)
     \/ /\ ~Holds(storage, "Candidate", c)
        /\ UNCHANGED <<storage, state, ghost>>

process_candidate_timed_out(c) ==
  /\ NextEvent("TimedOut", c)
  /\ \/ /\ Holds(storage, "Candidate", c)
        /\ storage' = Replaced(storage, "Candidate", c,
                               [CandidateRecord(c) EXCEPT !.timed_out = state.number])
        /\ state' = [state EXCEPT !.timed_out = Append(@, c)]
        /\ Note("TimedOut", c)
     \/ /\ ~Holds(storage, "Candidate", c)
        /\ UNCHANGED <<storage, state, ghost>>

(* find_candidate_by_hash(): the parachain first, then the candidate. *)
Findable(c) == Holds(storage, "CandidatesParachains", c) /\ Holds(storage, "Candidate", c)

(* A dispute that is already stored is an error after the state has been updated
   and before the candidate has. *)
process_dispute_initiated(c) ==
  /\ NextEvent("DisputeInitiated", c)
  /\ LET n == state.number
         info == [candidate |-> c, initiated |-> n, concluded |-> 0]
     IN  \/ /\ Findable(c)
            /\ state' = [state EXCEPT !.disputes = Append(@, info)]
            /\ storage' = IF Holds(storage, "Dispute", c) THEN storage
                          ELSE Replaced(Written(storage, "Dispute", c, info, n),
                                        "Candidate", c,
                                        [CandidateRecord(c) EXCEPT !.disputed = n,
                                                                   !.concluded = 0])
         \/ ~Findable(c) /\ UNCHANGED <<storage, state>>
  /\ UNCHANGED ghost

(* The conclusion completes the stored dispute, if there is one, and sets both the
   start and the end of the candidate's dispute to the current block. *)
process_dispute_concluded(c) ==
  /\ NextEvent("DisputeConcluded", c)
  /\ LET n == state.number
         info == [storage.rec[<<"Dispute", c>>] EXCEPT !.concluded = n]
         disputed == [CandidateRecord(c) EXCEPT !.disputed = n, !.concluded = n]
     IN  \/ /\ Findable(c) /\ Holds(storage, "Dispute", c)
            /\ state' = [state EXCEPT !.disputes = Append(@, info)]
            /\ storage' = Replaced(Replaced(storage, "Dispute", c, info),
                                   "Candidate", c, disputed)
            /\ Note("DisputeConcluded", c)
         \/ /\ Findable(c) /\ ~Holds(storage, "Dispute", c)
            /\ storage' = Replaced(storage, "Candidate", c, disputed)
            /\ UNCHANGED <<state, ghost>>
         \/ ~Findable(c) /\ UNCHANGED <<storage, state, ghost>>

(* All events of the head are processed. *)
EventsDone ==
  /\ stage \in {"candidates", "initiated", "concluded"}
  /\ chain.replay \in {Absent, {}}
  /\ stage' = "idle"
  /\ processing' = Absent
  /\ UNCHANGED <<storage, state, channel, tracker, chain, ghost>>
-----------------------------------------------------------------------------
(* The chain: the finalized head grows one block at a time.  Any head above it that
   is not below the best one may become the best one, as long as it is not more
   than MaxLead blocks ahead of finality; on another fork its number may be lower,
   since the fork choice is not by length alone. *)
FinalizedNumber == IF chain.finalized = Absent THEN 0 ELSE NumberOf[chain.finalized]

(* The chain after h is announced on one of the streams. *)
Announced(h, stream) ==
  IF stream # Followed THEN chain
  ELSE IF h \notin chain.announced
         THEN [chain EXCEPT !.announced = @ \cup {h}, !.replay = Absent]
         ELSE [chain EXCEPT !.repeats = @ + 1,
                            !.replay = {e \in chain.events : e[3] = h}]

Finalize(h) ==
  /\ NumberOf[h] = FinalizedNumber + 1
  /\ chain.finalized # Absent => chain.finalized \in AncestorsOf[h]
  /\ process_new_finalized_head(h)
  /\ chain' = [Announced(h, "Finalized") EXCEPT !.finalized = h]

NewBest(h) ==
  /\ NumberOf[h] > 0
  /\ chain.finalized # Absent => chain.finalized \in AncestorsOf[h] \cup {h}
  /\ chain.best # Absent => h \notin AncestorsOf[chain.best]
  /\ h \in chain.announced => chain.repeats < MaxRepeats
  /\ NumberOf[h] <= FinalizedNumber + MaxLead
  /\ process_new_best_head(h)
  /\ chain' = [Announced(h, "Best") EXCEPT !.best = h]
-----------------------------------------------------------------------------
(* The tracker: SubxtTracker::inject_block() for every hash of an update. *)
TrackerBusy == tracker.hashes # <<>>

(* What an update reports, with the number it reports it for. *)
Report(m) ==
  {<<"Backed", m.backed[i], m.number>> : i \in 1..Len(m.backed)} \cup
  {<<"Included", m.included[i], m.number>> : i \in 1..Len(m.included)} \cup
  {<<"TimedOut", m.timed_out[i], m.number>> : i \in 1..Len(m.timed_out)} \cup
  {<<"DisputeConcluded", d.candidate, m.number>> : d \in m.disputes}

TrackerTakes ==
  /\ ~tracker.panicked /\ ~TrackerBusy
  /\ channel # <<>>
  /\ channel' = Tail(channel)
  /\ tracker' = IF Head(channel) = NewSession THEN tracker
                ELSE [tracker EXCEPT !.number = Head(channel).number,
                                     !.hashes = Head(channel).hashes]
  /\ ghost' = [ghost EXCEPT !.told = @ \cup Report(Head(channel))]
  /\ UNCHANGED <<storage, state, processing, stage, chain>>

(* The inherent data comes first; a block without it is skipped. *)
TrackerReadsInherent ==
  /\ ~tracker.panicked /\ TrackerBusy /\ ~tracker.found
  /\ LET h == Head(tracker.hashes)
     IN  \/ /\ Holds(storage, "BlockData", h)
            /\ tracker' = [tracker EXCEPT !.found = TRUE]
            /\ UNCHANGED ghost
         \/ /\ ~Holds(storage, "BlockData", h)
            /\ tracker' = [tracker EXCEPT !.hashes = Tail(@)]
            /\ ghost' = [ghost EXCEPT !.skipped = @ \cup {h}]
  /\ UNCHANGED <<storage, state, processing, stage, channel, chain>>

(* The other records of the block must be there: expect("saved in the collector"). *)
TrackerReadsRest ==
  /\ ~tracker.panicked /\ TrackerBusy /\ tracker.found
  /\ tracker' = IF Holds(storage, "BlockData", Head(tracker.hashes))
                  THEN [tracker EXCEPT !.hashes = Tail(@), !.found = FALSE]
                  ELSE [tracker EXCEPT !.panicked = TRUE]
  /\ UNCHANGED <<storage, state, processing, stage, channel, chain, ghost>>

Tracker == TrackerTakes \/ TrackerReadsInherent \/ TrackerReadsRest
-----------------------------------------------------------------------------
Next ==
  \/ \E h \in Heads : Finalize(h)
  \/ \E h \in Heads : NewBest(h)
  \/ update_state
  \/ broadcast_new_session
  \/ \E c \in Candidates : process_candidate_backed(c)
  \/ \E c \in Candidates : process_candidate_included(c)
  \/ \E c \in Candidates : process_candidate_timed_out(c)
  \/ \E c \in Candidates : process_dispute_initiated(c)
  \/ \E c \in Candidates : process_dispute_concluded(c)
  \/ EventsDone
  \/ Tracker

Spec == Init /\ [][Next]_vars
-----------------------------------------------------------------------------
Updates ==
  [number : Blocks, hashes : Seq(Heads), backed : Seq(Candidates),
   included : Seq(Candidates), timed_out : Seq(Candidates),
   disputes : SUBSET DisputeInfos(Candidates)]

TypeOK ==
  /\ storage.idx \in [Blocks -> SUBSET Keys]
  /\ \A c \in Candidates :
       /\ CandidateRecord(c) \in CandidateRecords \cup {Absent}
       /\ storage.rec[<<"Dispute", c>>] \in DisputeInfos({c}) \cup {Absent}
  /\ processing \in Heads \cup {Absent}
  /\ stage \in Stages
  /\ channel \in Seq(Updates) /\ Len(channel) <= Capacity
  /\ tracker.hashes \in Seq(Heads)

(* Whatever is pruned, and wherever the processing of a candidate stopped: a
   stored candidate can be found by its hash alone, which is how disputes find it,
   and a stored dispute has its candidate. *)
RecordsTogether ==
  \A c \in Candidates :
    /\ Holds(storage, "Candidate", c) => Holds(storage, "CandidatesParachains", c)
    /\ Holds(storage, "Dispute", c) => Holds(storage, "Candidate", c)

(* The tracker's "blocks must be injected in order": the blocks reported to it
   have ascending numbers, below the one being collected, whatever forks and
   reorganisations the best chain goes through. *)
ReportsInOrder ==
  \A i \in 1..Len(channel) : channel[i].hashes # <<>> =>
    /\ tracker.number < channel[i].number /\ channel[i].number < state.number
    /\ \A j \in i + 1..Len(channel) :
         channel[j].hashes # <<>> => channel[i].number < channel[j].number
    /\ \A k \in 1..Len(channel[i].hashes) : NumberOf[channel[i].hashes[k]] = channel[i].number

(* What happens to candidates and disputes in a block is reported with that block,
   and with no other: nothing that was noted gets lost, is reported again, or is
   attributed to another number. *)
ReportsFaithful ==
  ghost.noted = ghost.told
                \cup (UNION {Report(channel[i]) : i \in 1..Len(channel)})
                \cup Report([state EXCEPT !.disputes = Concluded(@)])

(* The tracker finds every block it is told of, and never a part of one only: what
   it expects to be "saved in the collector" has not been pruned between two reads. *)
EveryBlockTraced == ghost.skipped = {} /\ ~tracker.panicked

(* CandidateDisputed::disputed is "When do we observe this dispute": it does not
   change while the dispute runs. *)
DisputedKept ==
  [][\A c \in Candidates :
       Holds(storage, "Candidate", c) /\ Holds(storage', "Candidate", c) =>
         \/ CandidateRecord(c).disputed = 0
         \/ CandidateRecord(c)'.disputed = CandidateRecord(c).disputed]_vars
=============================================================================
