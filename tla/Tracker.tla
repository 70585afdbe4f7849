------------------------------ MODULE Tracker ------------------------------
(***************************************************************************)
(* The state machine of SubxtTracker (parachain-tracer/src/tracker.rs) for *)
(* one parachain, with what it counts (ParachainStats) and the relay chain *)
(* watcher that receives the same updates.                                 *)
(*                                                                         *)
(* One NewHead is one step: the watcher injects the update once for every  *)
(* relay block of that height (forks), reports the progress and resets the *)
(* state after each.  The records of a block come from the collector's     *)
(* storage; Collector shows that they are found.  The relay chain itself   *)
(* (which candidates are backed, included or timed out, on which core) is  *)
(* the environment; candidates of other parachains are left out.           *)
(*                                                                         *)
(* The maps from cores are iterated in the order of the core numbers: the  *)
(* code's order is that of a HashMap and only permutes the events.  Loops  *)
(* and filters are written with functions (Iterate, Kept), which can be    *)
(* reasoned about.                                                         *)
(***************************************************************************)
EXTENDS ParachainStats, FiniteSets, FiniteSetsExt

CONSTANTS
  NumCores,       \* cores the parachain may use, numbered from 0
  MaxCandidates,  \* candidate hashes are 1..MaxCandidates
  MaxNumber,      \* last relay chain block
  ForkedAt,       \* heights with two relay blocks
  MissingAt,      \* heights whose inherent data may not be found
  SessionsAt,     \* heights before which a session starts
  IdleAt,         \* heights whose claim queue does not list the parachain
  Patience,       \* blocks a candidate stays on its core before it can time out
  Disputes,       \* disputes that may be concluded
  DisputedAt      \* heights at which they are

VARIABLES
  chain,          \* the relay chain's height and occupied cores, and what happened on it
  tracker,        \* SubxtTracker
  stats, metrics, \* ParachainStats, Metrics
  relay,          \* the relay chain watcher: its last timestamp and its metrics
  events          \* ParachainProgressUpdate.events of the last head

vars == <<chain, tracker, stats, metrics, relay, events>>

ASSUME TrackerAssumption ==
  /\ {NumCores, MaxCandidates, MaxNumber, Patience} \subseteq Nat
  /\ IdleAt \subseteq Nat
  /\ Disputes \subseteq [outcome : Outcomes, for : Nat, against : Nat, initiated : Nat,
                          concluded : Nat, stated : BOOLEAN]

Cores == 0..NumCores - 1

(* A loop: step(..., i) for i from 1 to n, and for every core. *)
Iterate(step(_, _), n, start) ==
  LET after[i \in 0..n] == IF i = 0 THEN start ELSE step(after[i - 1], i)
  IN  after[n]
EachCore(step(_, _), start) == Iterate(LAMBDA q, i : step(q, i - 1), NumCores, start)

(* The entries of s at the positions I, in order: what retain() and filter() leave. *)
Kept(s, I) ==
  [k \in 1..Cardinality(I) |-> s[CHOOSE i \in I : Cardinality({j \in I : j < i}) = k - 1]]
-----------------------------------------------------------------------------
(* ParachainBlockInfo and BlockAvailability; Skipped is the None of a slot. *)
NoCandidate == 0
NotAvailable == [current |-> 0, max |-> 0]
Skipped == [candidate_hash |-> NoCandidate, core_occupied |-> FALSE,
            state |-> "Skipped", availability |-> NotAvailable]
NewCandidate(hash) == [Skipped EXCEPT !.candidate_hash = hash, !.state = "Backed"]
is_slow(a) == a.max > 0 /\ a.current <= (a.max \div 3) * 2

NoBlock == [num |-> Nothing, ts |-> Nothing]
NewTracker ==
  [candidates |-> [c \in Cores |-> <<>>], cores |-> {}, new_session |-> Nothing,
   current |-> NoBlock, previous |-> NoBlock, current_ts |-> Nothing, last_ts |-> Nothing,
   last_backed |-> Nothing, backing_type |-> "Sync", last_included |-> NoBlock,
   previous_included |-> NoBlock, finality_lag |-> Nothing, disputes |-> <<>>,
   has_hrmp_messages |-> FALSE, relay_forks |-> <<>>]

is_fork(t) == t.current.num # Nothing /\ t.current.num = t.previous.num
is_just_backed(t) == t.last_backed # Nothing /\ t.last_backed = t.current.num
LastOf(q) == q[Len(q)]
current_candidate(t, core) ==
  IF t.candidates[core] = <<>> THEN Skipped ELSE LastOf(t.candidates[core])
is_current_candidate_backed(t, core) == current_candidate(t, core).state = "Backed"
is_slow_availability(t, core) == current_candidate(t, core).core_occupied /\ ~is_just_backed(t)

Holds(t, core, States) == \E i \in DOMAIN t.candidates[core] : t.candidates[core][i].state \in States
has_backed_candidate(t, core) ==
  Holds(t, core, {"Backed"}) \/ \E i \in DOMAIN t.relay_forks : t.relay_forks[i].backed
has_backed_or_included_candidate(t, core) ==
  \/ Holds(t, core, {"Backed", "PendingAvailability", "Included", "Dropped"})
  \/ \E i \in DOMAIN t.relay_forks : t.relay_forks[i].backed \/ t.relay_forks[i].included
-----------------------------------------------------------------------------
(* A wrong version that moves the timestamps at every fork. *)
set_relay_block_always(t, b) ==
  [t EXCEPT !.previous = t.current, !.current = [num |-> b.num, ts |-> b.ts],
            !.finality_lag = IF b.finalized = Nothing THEN Nothing ELSE b.num - b.finalized,
            !.last_ts = t.current_ts, !.current_ts = b.ts]

(* inject_block(): what it sets from the update h and the records b of the block. *)
set_relay_block(t, b) ==
  LET u == [t EXCEPT !.previous = t.current, !.current = [num |-> b.num, ts |-> b.ts],
                     !.finality_lag = IF b.finalized = Nothing THEN Nothing ELSE b.num - b.finalized]
  IN IF is_fork(u) THEN u ELSE [u EXCEPT !.last_ts = t.current_ts, !.current_ts = b.ts]

set_forks(t) ==
  [t EXCEPT !.relay_forks = Append(IF is_fork(t) THEN @ ELSE <<>>, [backed |-> FALSE, included |-> FALSE])]

set_cores(t, b) == [t EXCEPT !.cores = b.assigned]

Availability(b, core) == [current |-> b.bits[core], max |-> b.validators]

Includes(h, hash) == \E k \in h.included : k.hash = hash

Marked(s, h, a) ==
  [i \in DOMAIN s |-> IF Includes(h, s[i].candidate_hash)
                      THEN [s[i] EXCEPT !.state = "Included", !.availability = a] ELSE s[i]]
MarkIncluded(t, h, b) ==
  [t EXCEPT !.candidates = [c \in Cores |-> Marked(t.candidates[c], h, Availability(b, c))]]
AnyIncluded(t, h) ==
  \E c \in Cores : \E i \in DOMAIN t.candidates[c] : Includes(h, t.candidates[c][i].candidate_hash)

(* A wrong version that remembers the first inclusion only. *)
set_included_candidates_first(t, h, b) ==
  IF AnyIncluded(t, h)
  THEN [MarkIncluded(t, h, b) EXCEPT !.relay_forks[Len(t.relay_forks)].included = TRUE,
                                     !.previous_included = IF t.last_included = NoBlock THEN NoBlock
                                                           ELSE t.previous_included,
                                     !.last_included = t.current]
  ELSE t

set_included_candidates(t, h, b) ==
  IF AnyIncluded(t, h)
  THEN [MarkIncluded(t, h, b) EXCEPT !.relay_forks[Len(t.relay_forks)].included = TRUE,
                                     !.previous_included = t.last_included,
                                     !.last_included = t.current]
  ELSE t

(* h.backed lists this parachain's candidates of the update by core, as it is told.
   An interval of one block between backings means asynchronous backing, for good. *)
NoneBacked(h) == \A c \in Cores : h.backed[c] = <<>>
New(hashes) == [i \in DOMAIN hashes |-> NewCandidate(hashes[i])]
AddBacked(t, h, b) ==
  IF NoneBacked(h) THEN t
  ELSE [t EXCEPT !.relay_forks[Len(t.relay_forks)].backed = TRUE,
                 !.backing_type = IF t.last_backed # Nothing /\ b.num - t.last_backed = 1
                                  THEN "Async" ELSE @,
                 !.last_backed = b.num,
                 !.candidates = [c \in Cores |-> t.candidates[c] \o New(h.backed[c])]]

AddSkipped(t, free) ==
  [t EXCEPT !.candidates = [c \in Cores |-> IF c \in t.cores \cap free THEN Append(t.candidates[c], Skipped)
                                            ELSE t.candidates[c]]]

(* A wrong version that takes a pending core for a free one whatever the backing type. *)
set_backed_candidates_sync(t, h, b) ==
  LET u == AddBacked(t, h, b)
  IN AddSkipped(u, {c \in Cores : h.backed[c] = <<>> /\ ~has_backed_candidate(u, c)})

set_backed_candidates(t, h, b) ==
  LET u == AddBacked(t, h, b)
  IN AddSkipped(u, {c \in Cores : h.backed[c] = <<>> /\ IF u.backing_type = "Sync"
                                               THEN ~has_backed_or_included_candidate(u, c)
                                               ELSE ~has_backed_candidate(u, c)})

Assigned(t, core, b) ==
  IF core \in t.cores /\ is_current_candidate_backed(t, core)
  THEN [t.candidates[core] EXCEPT ![Len(t.candidates[core])].core_occupied = b.occupied[core]]
  ELSE t.candidates[core]
set_core_assignment(t, b) == [t EXCEPT !.candidates = [c \in Cores |-> Assigned(t, c, b)]]

(* DisputesTracker::new: who voted with the minority, and how long it took. *)
DisputesTracker(d) ==
  [outcome |-> d.outcome,
   misbehaving |-> IF d.outcome = "Valid" THEN d.against ELSE d.for,
   resolve_time |-> saturating_sub(d.concluded, d.initiated)]

(* A dispute without a statement in this block's inherent, or without outcome, is passed over. *)
Stated(disputes) == Kept(disputes, {i \in DOMAIN disputes : disputes[i].stated})
set_disputes(t, h) ==
  LET known == Stated(h.disputes)
  IN [t EXCEPT !.disputes = [i \in DOMAIN known |-> DisputesTracker(known[i])]]

set_hrmp_channels(t, b) == [t EXCEPT !.has_hrmp_messages = b.messages]

Pending(t, core, b) ==
  IF core \in t.cores /\ is_current_candidate_backed(t, core) /\ ~is_just_backed(t)
  THEN [t.candidates[core] EXCEPT ![Len(t.candidates[core])].state = "PendingAvailability",
                                  ![Len(t.candidates[core])].availability = Availability(b, core)]
  ELSE t.candidates[core]
set_pending_availability(t, b) == [t EXCEPT !.candidates = [c \in Cores |-> Pending(t, c, b)]]

(* Of the candidates of a core that are not included only the last is still followed. *)
Superseded(s, i) ==
  /\ s[i].state \notin {"Skipped", "Included"}
  /\ \E j \in i + 1..Len(s) : s[j].state \notin {"Skipped", "Included"}

(* A wrong version that drops nothing. *)
set_dropped_candidates_never(t) == t

(* A wrong version that drops the last candidate too. *)
set_dropped_candidates_last(t) ==
  [t EXCEPT !.candidates = [c \in Cores |-> [i \in DOMAIN t.candidates[c] |->
     IF t.candidates[c][i].state \notin {"Skipped", "Included"} /\ Len(t.candidates[c]) > 1
     THEN [t.candidates[c][i] EXCEPT !.state = "Dropped"] ELSE t.candidates[c][i]]]]

Dropped(s) == [i \in DOMAIN s |-> IF Superseded(s, i) THEN [s[i] EXCEPT !.state = "Dropped"] ELSE s[i]]
set_dropped_candidates(t) == [t EXCEPT !.candidates = [c \in Cores |-> Dropped(t.candidates[c])]]

inject_block(t, h, b) ==
  LET t1 == set_cores(set_forks(set_relay_block(t, b)), b)
      t2 == set_backed_candidates(set_included_candidates(t1, h, b), h, b)
      t3 == set_hrmp_channels(set_disputes(set_core_assignment(t2, b), h), b)
  IN IF b.inherent THEN set_dropped_candidates(set_pending_availability(t3, b)) ELSE t

Retained(s, States) == Kept(s, {i \in DOMAIN s : s[i].state \in States})

(* A wrong reset that forgets pending candidates. *)
maybe_reset_state_backed(t) ==
  [t EXCEPT !.new_session = Nothing, !.disputes = <<>>,
            !.candidates = [c \in Cores |-> Retained(t.candidates[c], {"Backed"})]]

(* A wrong reset that keeps included candidates. *)
maybe_reset_state_skipped(t) ==
  [t EXCEPT !.new_session = Nothing, !.disputes = <<>>,
            !.candidates = [c \in Cores |-> Retained(t.candidates[c], {"Backed", "PendingAvailability", "Included", "Dropped"})]]

maybe_reset_state(t) ==
  [t EXCEPT !.new_session = Nothing, !.disputes = <<>>,
            !.candidates = [c \in Cores |-> Retained(t.candidates[c], {"Backed", "PendingAvailability"})]]
-----------------------------------------------------------------------------
(* progress(): r holds the statistics, the metrics and the events so far. *)
Event(r, e) == [stats |-> r.stats, metrics |-> r.metrics, events |-> Append(r.events, e)]

notify_new_session(t, r) ==
  IF t.new_session = Nothing THEN r ELSE Event(r, <<"NewSession", t.new_session>>)

AssignmentOf(t, r, c) ==
  IF c \notin t.cores \/ current_candidate(t, c) = Skipped THEN r ELSE Event(r, <<"CoreAssigned", c>>)

notify_core_assignment(t, r) == EachCore(LAMBDA q, c : AssignmentOf(t, q, c), r)

BitfieldsOf(t, r, c) ==
  LET a == current_candidate(t, c).availability
      low == is_slow(a)
  IN IF c \notin t.cores \/ a = NotAvailable THEN r
     ELSE [stats |-> on_bitfields(r.stats, a.current, low),
           metrics |-> metrics_on_bitfields(r.metrics, a.current, low),
           events |-> IF low THEN Append(r.events, <<"SlowBitfieldPropagation", a.current>>) ELSE r.events]

notify_bitfield_propagation(t, r) == EachCore(LAMBDA q, c : BitfieldsOf(t, q, c), r)

(* From the candidate's record: it is backed one or two blocks after its relay parent. *)
candidate_backed_in(hash) == LET relay_parent == hash % 2 IN saturating_sub(2, relay_parent)

notify_skipped_slot(t, r, c) ==
  [stats |-> on_skipped_slot(r.stats, t.current.num), metrics |-> metrics_on_skipped_slot(r.metrics),
   events |-> Append(r.events, <<"SkippedSlot", c>>)]

notify_backed(r, e) ==
  [stats |-> on_backed(r.stats), metrics |-> metrics_on_backed(r.metrics),
   events |-> Append(r.events, <<"Backed", e.candidate_hash>>)]

notify_pending_availability(t, r, c, e) ==
  LET q == Event(r, <<"PendingAvailability", e.candidate_hash>>)
  IN IF is_slow_availability(t, c)
     THEN [stats |-> on_slow_availability(q.stats), metrics |-> metrics_on_slow_availability(q.metrics),
           events |-> Append(q.events, <<"SlowAvailability", e.availability.current>>)]
     ELSE q

notify_included(t, r, e) ==
  LET before == t.previous_included
      backedIn == candidate_backed_in(e.candidate_hash)
  IN [stats |-> on_included(r.stats, t.current.num, before.num, backedIn),
      metrics |-> metrics_on_included(r.metrics, t.current.num, before.num, backedIn,
                                      time_diff(t.current.ts, before.ts)),
      events |-> Append(r.events, <<"Included", e.candidate_hash>>)]

notify_candidate(t, r, c, e) ==
  CASE e.state = "Skipped"             -> notify_skipped_slot(t, r, c)
    [] e.state = "Backed"              -> notify_backed(r, e)
    [] e.state = "PendingAvailability" -> notify_pending_availability(t, r, c, e)
    [] e.state = "Included"            -> notify_included(t, r, e)
    [] e.state = "Dropped"             -> Event(r, <<"Dropped", e.candidate_hash>>)

CandidatesOf(t, r, c) ==
  Iterate(LAMBDA q, i : notify_candidate(t, q, c, t.candidates[c][i]), Len(t.candidates[c]), r)

notify_candidate_state(t, r) == EachCore(LAMBDA q, c : CandidatesOf(t, q, c), r)

notify_dispute(r, d) ==
  [stats |-> on_disputed(r.stats, d), metrics |-> metrics_on_disputed(r.metrics, d),
   events |-> Append(r.events, <<"Disputed", d.outcome>>)]

(* A wrong version without the fork check. *)
notify_disputes_of_forks(t, r) == Iterate(LAMBDA q, i : notify_dispute(q, t.disputes[i]), Len(t.disputes), r)

notify_disputes(t, r) ==
  IF is_fork(t) THEN r ELSE Iterate(LAMBDA q, i : notify_dispute(q, t.disputes[i]), Len(t.disputes), r)

notify_active_message_queues(t, r) ==
  IF t.has_hrmp_messages THEN Event(r, <<"MessageQueues">>) ELSE r

current_block_time(t) ==
  IF t.last_ts = Nothing THEN 0 ELSE saturating_sub(t.current.ts, t.last_ts)

notify_current_block_time(t, r) ==
  IF is_fork(t) THEN r
  ELSE [stats |-> on_block(r.stats, current_block_time(t)), metrics |-> r.metrics, events |-> r.events]

notify_finality_lag(t, r) ==
  [stats |-> r.stats, metrics |-> metrics_on_finality_lag(r.metrics, t.finality_lag), events |-> r.events]

progress(t, r) ==
  LET r1 == notify_bitfield_propagation(t, notify_core_assignment(t, notify_new_session(t, r)))
      r2 == notify_active_message_queues(t, notify_disputes(t, notify_candidate_state(t, r1)))
  IN IF t.current = NoBlock THEN r ELSE notify_finality_lag(t, notify_current_block_time(t, r2))
-----------------------------------------------------------------------------
(* The relay chain, as far as the tracker can tell: what each block does to
   each core.  A candidate leaves its core when it is included, when it times
   out, or without any event when a session starts. *)
NoOccupant == [hash |-> NoCandidate, since |-> 0]
AssignedAt(n) == IF n \in IdleAt THEN {} ELSE Cores
Timestamp(n, fork) == 6 * (n + n \div 3) + fork

(* What may happen to the cores: out says who leaves them, back who takes them.
   New hashes are numbered as they appear. *)
Leaves(c, n) == {"keep"} \cup
  (IF chain.occ[c].hash = NoCandidate THEN {}
   ELSE {"include"} \cup (IF n - chain.occ[c].since > Patience THEN {"timeout"} ELSE {}))

Outs(n) == {out \in [Cores -> {"keep", "include", "timeout"}] : \A c \in Cores : out[c] \in Leaves(c, n)}

Backs(n, out, Named) ==
  {back \in [Cores -> 0..MaxCandidates] :
     /\ \A c \in Cores : back[c] # NoCandidate =>
          /\ c \in AssignedAt(n - 1)
          /\ chain.occ[c].hash = NoCandidate \/ out[c] # "keep"
          /\ back[c] \notin chain.used
          /\ \A d \in Cores \ {c} : back[d] # back[c]
          /\ \A k \in 1..back[c] - 1 : k \in Named \/ \E d \in Cores : back[d] = k}

Forks(n, Named) == {[out |-> out, back |-> back] : out \in Outs(n), back \in UNION {Backs(n, o, Named) : o \in Outs(n)}}
Possible(n, Named) == {f \in Forks(n, Named) : f.back \in Backs(n, f.out, Named)}
Backed(f) == {f.back[c] : c \in Cores} \ {NoCandidate}

Occupied(f, n) ==
  [c \in Cores |-> IF f.back[c] # NoCandidate THEN [hash |-> f.back[c], since |-> n]
                   ELSE IF f.out[c] = "keep" THEN chain.occ[c] ELSE NoOccupant]

(* The records the collector stores of block `fork` of height n. *)
Block(n, fork, f, found) ==
  [num |-> n, ts |-> Timestamp(n, fork), inherent |-> found,
   bits |-> [c \in Cores |-> (n + c) % 4], validators |-> 3, assigned |-> AssignedAt(n),
   occupied |-> [c \in Cores |-> Occupied(f, n)[c].hash # NoCandidate],
   finalized |-> IF n < 2 THEN Nothing ELSE n - 2, messages |-> n % 2 = 0]

(* The update the collector sends for a height: the events of all its blocks,
   a candidate reported backed the first time only. *)
FirstSeen(forks, i, c) ==
  LET hash == forks[i].back[c]
  IN IF hash = NoCandidate \/ hash \in chain.seen \/ \E j \in 1..i - 1 : hash \in Backed(forks[j])
     THEN <<>> ELSE <<hash>>
Left(forks, how) ==
  {[hash |-> chain.occ[p[2]].hash, fork |-> p[1]] :
     p \in {q \in (DOMAIN forks) \X Cores : forks[q[1]].out[q[2]] = how}}

Update(n, forks, found, disputes) ==
  [hashes |-> [i \in DOMAIN forks |-> Block(n, i, forks[i], found)],
   backed |-> [c \in Cores |-> FirstSeen(forks, 1, c) \o
                 IF Len(forks) = 1 THEN <<>> ELSE FirstSeen(forks, 2, c)],
   included |-> Left(forks, "include"),
   timed_out |-> Left(forks, "timeout"),
   disputes |-> disputes]

AllBacked(h) == UNION {{h.backed[c][i] : i \in DOMAIN h.backed[c]} : c \in Cores}
-----------------------------------------------------------------------------
(* The watcher of the parachain and the watcher of the relay chain. *)
Inject(a, h, b) ==
  LET t == inject_block(a.tracker, h, b)
      r == progress(t, [stats |-> a.stats, metrics |-> a.metrics, events |-> a.events])
  IN [tracker |-> maybe_reset_state(t), stats |-> r.stats, metrics |-> r.metrics, events |-> r.events]

(* The blocks of the height in turn: there are one or two. *)
Injected(h) ==
  LET first == Inject([tracker |-> tracker, stats |-> stats, metrics |-> metrics, events |-> <<>>], h, h.hashes[1])
  IN IF Len(h.hashes) = 1 THEN first ELSE Inject(first, h, h.hashes[2])

watch_node_for_parachain(h) ==
  LET a == Injected(h)
  IN tracker' = a.tracker /\ stats' = a.stats /\ metrics' = a.metrics /\ events' = a.events

watch_node_for_relay_chain(h) ==
  LET ts == h.hashes[1].ts
  IN relay' = [last_ts |-> ts,
               metrics |-> on_new_relay_block(relay.metrics, Cardinality(AllBacked(h)), Cardinality(h.included),
                                              Cardinality(h.timed_out), time_diff(ts, relay.last_ts))]

Init ==
  /\ chain = [number |-> 0, session |-> 0, occ |-> [c \in Cores |-> NoOccupant], used |-> {}, seen |-> {},
              included |-> {}, concluded |-> 0, forked |-> FALSE, missing |-> FALSE]
  /\ tracker = NewTracker
  /\ stats = NewStats
  /\ metrics = init_counters
  /\ relay = [last_ts |-> Nothing, metrics |-> NewRelayMetrics]
  /\ events = <<>>

(* A height with the blocks `forks`, whose successors are built on the one of `survivor`. *)
Grow(n, forks, survivor, disputes, found) ==
  LET h == Update(n, forks, found, disputes)
  IN /\ watch_node_for_parachain(h)
     /\ watch_node_for_relay_chain(h)
     /\ chain' = [chain EXCEPT
          !.number = n,
          !.occ = Occupied(forks[survivor], n),
          !.used = @ \cup Backed(forks[survivor]),
          !.seen = @ \cup AllBacked(h),
          !.included = @ \cup {[hash |-> k.hash, at |-> n] :
                                 k \in {i \in h.included : \A m \in chain.included : m.hash # i.hash}},
          !.concluded = @ + Len(Stated(disputes)),
          !.forked = @ \/ Len(forks) > 1,
          !.missing = @ \/ ~found]

Chains(n, first) ==
  {<<first>>} \cup
    (IF n \in ForkedAt THEN {<<first, f>> : f \in Possible(n, chain.seen \cup Backed(first))} ELSE {})
DisputesOf(n) == {<<>>} \cup (IF n \in DisputedAt THEN {<<d>> : d \in Disputes} ELSE {})

NewHead ==
  /\ chain.number < MaxNumber
  /\ LET n == chain.number + 1 IN
     \E first \in Possible(n, chain.seen) :
     \E forks \in Chains(n, first) :
     \E survivor \in DOMAIN forks, disputes \in DisputesOf(n), found \in {TRUE, n \notin MissingAt} :
       Grow(n, forks, survivor, disputes, found)

(* A session starts before the next block; every core is freed. *)
NewSession ==
  /\ chain.number + 1 \in SessionsAt
  /\ chain.session # chain.number + 1
  /\ chain' = [chain EXCEPT !.session = chain.number + 1, !.occ = [c \in Cores |-> NoOccupant]]
  /\ tracker' = [tracker EXCEPT !.new_session = chain'.session]
  /\ relay' = [relay EXCEPT !.metrics = on_new_session(@, chain'.session)]
  /\ UNCHANGED <<stats, metrics, events>>

Next == NewHead \/ NewSession

Spec == Init /\ [][Next]_vars
-----------------------------------------------------------------------------
Regular == ~chain.forked /\ ~chain.missing

(* Types, and the list of skipped slots stays within its capacity. *)
TypeOK ==
  /\ tracker.backing_type \in {"Sync", "Async"} /\ tracker.cores \subseteq Cores
  /\ \A c \in Cores : \A i \in DOMAIN tracker.candidates[c] :
       tracker.candidates[c][i].state \in {"Backed", "PendingAvailability"}
  /\ Len(stats.last_skipped) <= LastSkipped

(* Without forks the tracker's current candidate of every occupied core is the
   one that occupies it, through time-outs, session changes and blocks at which
   the parachain is not assigned to the core (set_backed_candidates,
   set_dropped_candidates, maybe_reset_state). *)
TrackerFollowsChain ==
  Regular => \A c \in Cores : chain.occ[c] # NoOccupant =>
               /\ tracker.candidates[c] # <<>>
               /\ LastOf(tracker.candidates[c]).candidate_hash = chain.occ[c].hash

(* Whatever forks there are, at most one candidate per core is kept from one
   update to the next, so a candidate that is never included is not kept for
   good (set_dropped_candidates followed by maybe_reset_state). *)
OneCandidatePerCore == \A c \in Cores : Len(tracker.candidates[c]) <= 1

(* However often a candidate's inclusion is reported and however many relay
   blocks it is injected for, it is counted once, and without forks none is
   missed (set_included_candidates, maybe_reset_state). *)
IncludedOnce ==
  /\ stats.included_count <= Cardinality(chain.included)
  /\ Regular => stats.included_count = Cardinality(chain.included)

(* A candidate is called dropped only when it left its core without being
   included: it timed out or a session started. *)
DroppedHasLeft ==
  Regular => \A i \in DOMAIN events : events[i][1] = "Dropped" =>
               /\ \A c \in Cores : chain.occ[c].hash # events[i][2]
               /\ \A k \in chain.included : k.hash # events[i][2]

(* A slot is called skipped "where no candidate was backed and availability
   core was free" (stats.rs). *)
SkippedSlotsAreFree ==
  Regular => \A i \in DOMAIN events : events[i][1] = "SkippedSlot" => chain.occ[events[i][2]] = NoOccupant

(* The same of a parachain that was never backed at two blocks in a row. *)
SyncSkippedSlotsAreFree == tracker.backing_type = "Sync" => SkippedSlotsAreFree

(* The block times of the statistics add up to the time that has passed,
   forks or not: no interval is counted twice or left out (set_relay_block,
   notify_current_block_time). *)
BlockTimesAddUp ==
  ~chain.missing /\ chain.number > 0 =>
    /\ stats.block_times.sum = Timestamp(chain.number, 1) - Timestamp(1, 1)
    /\ stats.block_times.num = chain.number

(* With one inclusion at a time, the inclusion times add up to the distance
   between the first and the last inclusion (previous_included_at). *)
InclusionTimesAddUp ==
  LET Ats == {k.at : k \in chain.included} IN
  Regular /\ Ats # {} /\ Cardinality(Ats) = Cardinality(chain.included) =>
    stats.included_times.sum = Max(Ats) - Min(Ats)

(* A concluded dispute is counted once although its update is injected for
   every fork (notify_disputes). *)
DisputesCountedOnce ==
  LET counted == stats.disputed["Valid"] + stats.disputed["Invalid"] + stats.disputed["TimedOut"]
  IN /\ counted <= chain.concluded
     /\ ~chain.missing => counted = chain.concluded
=============================================================================
