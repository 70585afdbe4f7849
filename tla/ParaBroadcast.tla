--------------------------- MODULE ParaBroadcast ---------------------------
(***************************************************************************)
(* parachain-tracer --all: the collector reports every relay chain head    *)
(* for every parachain it has seen, over one broadcast channel, and the    *)
(* tracer keeps one tracker per parachain.  Either side gives up on a      *)
(* stalled parachain by a count of blocks of its own: the collector after  *)
(* --max-parachain-stall heads without a candidate, the tracer once its    *)
(* newest head is more than 10 blocks above the last one for the parachain.*)
(*                                                                         *)
(* Session updates reach every tracker and change nothing of what is kept  *)
(* here; termination is in TracerLifecycle.  The task of an evicted        *)
(* tracker drains its channel and ends: only the others are kept.          *)
(***************************************************************************)
EXTENDS Integers, Sequences, FiniteSets, FiniteSetsExt, Functions

CONSTANTS Paras,             \* parachain ids
          MaxParachainStall, \* --max-parachain-stall
          EvictAfter,        \* the tracer's 10 blocks
          MaxGap,            \* by how much consecutive heads differ at most
          MaxNumber,         \* bound on block numbers
          Capacity,          \* of the broadcast channel
          TrackerCapacity    \* of a tracker's channel

VARIABLES
  relay,        \* the collector's state: number, candidates_seen, paras_seen
  incoming,     \* the head update_state() is called for, or 0
  pending,      \* the parachains still to be told about relay.number
  channel,      \* broadcast channel: [para, number]
  forwarding,   \* the NewHead events watch_node_broadcast is about to forward: one or none
  trackers,     \* to_tracker channels, by parachain
  last_blocks,  \* the last head of each parachain
  best,         \* best_known_block
  reported,     \* every head the collector has reported
  since,        \* the head since which a parachain in paras_seen is there
  heard         \* the heads each tracker has processed

collectorVars == <<relay, incoming, pending, reported, since>>
tracerVars == <<forwarding, trackers, last_blocks, best, heard>>
vars == <<collectorVars, tracerVars, channel>>

Event == [para : Paras, number : 0..MaxNumber]

(* A map with an entry inserted or replaced. *)
With(map, p, v) == [q \in DOMAIN map \cup {p} |-> IF q = p THEN v ELSE map[q]]

Init ==
  /\ relay = [number |-> 0, candidates_seen |-> {}, paras_seen |-> <<>>]
  /\ incoming = 0 /\ pending = {} /\ channel = <<>> /\ forwarding = {}
  /\ trackers = <<>> /\ last_blocks = <<>> /\ heard = <<>> /\ best = 0
  /\ reported = {} /\ since = <<>>
-----------------------------------------------------------------------------
(* paras_seen with the parachains of the current block, without the stalled ones *)
parasSeen ==
  LET last(p) == IF p \in relay.candidates_seen THEN relay.number ELSE relay.paras_seen[p]
      stalled(p) == relay.number - last(p) > MaxParachainStall
  IN  [p \in {q \in DOMAIN relay.paras_seen \cup relay.candidates_seen : ~stalled(q)} |-> last(p)]

(* process_new_head of a higher block: update_state() starts to report the block
   before it. *)
update_state(n) ==
  /\ incoming = 0
  /\ n > relay.number
  /\ incoming' = n
  /\ relay' = [relay EXCEPT !.paras_seen = parasSeen]
  /\ pending' = DOMAIN parasSeen
  /\ reported' = reported \cup {relay.number}
  /\ since' = [p \in DOMAIN parasSeen |->
                 IF p \in DOMAIN relay.paras_seen THEN since[p] ELSE relay.number]
  /\ UNCHANGED <<channel, tracerVars>>

(* `broadcast_channel.send(NewHead).await` waits for room; the parachains are told in
   the order of the map. *)
send_broadcast(p) ==
  /\ p \in pending /\ \A q \in pending : p <= q
  /\ Len(channel) < Capacity
  /\ channel' = Append(channel, [para |-> p, number |-> relay.number])
  /\ pending' = pending \ {p}
  /\ UNCHANGED <<relay, incoming, reported, since, tracerVars>>

(* update_state() is done; the events of the new block bring its candidates. *)
state_updated(seen) ==
  /\ incoming # 0
  /\ pending = {}
  /\ relay' = [relay EXCEPT !.number = incoming, !.candidates_seen = seen]
  /\ incoming' = 0
  /\ UNCHANGED <<pending, reported, since, channel, tracerVars>>
-----------------------------------------------------------------------------
(* watch_node_broadcast takes an event and looks its tracker up, or spawns one. *)
take_event ==
  /\ forwarding = {}
  /\ channel # <<>>
  /\ forwarding' = {Head(channel)}
  /\ channel' = Tail(channel)
  /\ LET p == Head(channel).para
     IN  IF p \in DOMAIN trackers
         THEN UNCHANGED <<trackers, heard>>
         ELSE /\ trackers' = With(trackers, p, <<>>)
              /\ heard' = With(heard, p, {})
  /\ UNCHANGED <<last_blocks, best, collectorVars>>

(* A wrong eviction that takes the bound itself for a stall. *)
evict_stalled_early(blocks) ==
  LET threshold == Max({0, Max(Range(blocks)) - EvictAfter})
  IN  {p \in DOMAIN blocks : threshold >= blocks[p]}

evict_stalled(blocks) ==
  LET threshold == Max({0, Max(Range(blocks)) - EvictAfter})  \* saturating
  IN  {p \in DOMAIN blocks : threshold > blocks[p]}

(* The event is sent to its tracker, once there is room; a new best block makes
   the watcher look for stalled parachains. *)
forward_event ==
  \E e \in forwarding :
    LET blocks == With(last_blocks, e.para, e.number)
        kept == DOMAIN blocks \ (IF e.number > best THEN evict_stalled(blocks) ELSE {})
    IN  /\ Len(trackers[e.para]) < TrackerCapacity
        /\ trackers' = [p \in kept |-> IF p = e.para THEN Append(trackers[p], e.number)
                                                      ELSE trackers[p]]
        /\ heard' = [p \in kept |-> heard[p]]
        /\ last_blocks' = [p \in kept |-> blocks[p]]
        /\ best' = Max({best, e.number})
        /\ forwarding' = {}
        /\ UNCHANGED <<channel, collectorVars>>

(* A tracker processes a head. *)
tracker_takes(p) ==
  /\ trackers[p] # <<>>
  /\ heard' = [heard EXCEPT ![p] = @ \cup {Head(trackers[p])}]
  /\ trackers' = [trackers EXCEPT ![p] = Tail(@)]
  /\ UNCHANGED <<forwarding, last_blocks, best, channel, collectorVars>>

Next ==
  \/ \E n \in relay.number + 1..Min({relay.number + MaxGap, MaxNumber}) : update_state(n)
  \/ \E p \in pending : send_broadcast(p)
  \/ \E seen \in SUBSET Paras : state_updated(seen)
  \/ take_event
  \/ forward_event
  \/ \E p \in DOMAIN trackers : tracker_takes(p)
-----------------------------------------------------------------------------
(* Types; last_blocks and trackers know the same parachains, but for the one being
   forwarded, and none of them is stalled. *)
TypeOK ==
  /\ relay.number \in 0..MaxNumber /\ incoming \in 0..MaxNumber
  /\ relay.candidates_seen \subseteq Paras
  /\ DOMAIN relay.paras_seen \subseteq Paras
  /\ pending \subseteq Paras
  /\ channel \in Seq(Event) /\ Len(channel) <= Capacity
  /\ forwarding \subseteq Event /\ Cardinality(forwarding) <= 1
  /\ \A p \in DOMAIN trackers : Len(trackers[p]) <= TrackerCapacity
  /\ DOMAIN trackers = DOMAIN last_blocks \cup {e.para : e \in forwarding}
  /\ DOMAIN heard = DOMAIN trackers
  /\ \A p \in DOMAIN last_blocks : last_blocks[p] \in (best - EvictAfter)..best

(* A parachain the collector does not take for stalled has one tracker from its
   first head on, which hears of every head: no eviction interrupts it.  Holds
   while consecutive heads are not more than EvictAfter blocks apart. *)
ActiveKeepTracker ==
  \A p \in DOMAIN relay.paras_seen :
    LET onTheWay == {e.number : e \in {f \in Range(channel) \cup forwarding : f.para = p}}
                      \cup (IF p \in pending THEN {relay.number} ELSE {})
        known == IF p \in DOMAIN trackers THEN heard[p] \cup Range(trackers[p]) ELSE {}
    IN  {n \in reported : n >= since[p]} \subseteq onTheWay \cup known
=============================================================================
