--------------------------- MODULE TrackerProofs ---------------------------
(***************************************************************************)
(* Proofs about Tracker: every safety property of its run, for any number  *)
(* of cores and candidates, any forks, missing records, sessions and       *)
(* disputes.                                                               *)
(*                                                                         *)
(* The order is that of the code.  Each step of inject_block() has a lemma *)
(* of what it changes; InjectBlock puts them together, ProgressMade does   *)
(* the same for progress(), and InjectedAndReset adds maybe_reset_state(). *)
(* Outcome and Tells are all that is kept of a block then.  HeadCases says *)
(* which of them make up a NewHead: none when the records are missing, one *)
(* for a block, two of which the second is a fork.  On these rest four     *)
(* inductive invariants, each with those before it:                        *)
(*   Between, CountedDisputes, Timed  types, one candidate of a core,      *)
(*                                    disputes and block times;            *)
(*   Known, Following                 the hashes on the chain and those    *)
(*                                    followed; no candidate is followed   *)
(*                                    on two cores, none that is included; *)
(*   CountedIncluded                  the inclusions counted are as many   *)
(*                                    as included and not followed any     *)
(*                                    more, at most;                       *)
(*   Dated                            the inclusion times span from the    *)
(*                                    first inclusion to the last one.     *)
(* The events of a head are those of its last step: EventsHold is kept by  *)
(* every step from Following before it.                                    *)
(***************************************************************************)
EXTENDS Tracker, FiniteSetTheorems, WellFoundedInduction, TLAPS

-----------------------------------------------------------------------------
(* Types: the tracker, its updates and the records of a block; then the steps
   of inject_block(), one by one. *)
States == {"Skipped", "Backed", "PendingAvailability", "Included", "Dropped"}
Entry == [candidate_hash : Nat, core_occupied : BOOLEAN, state : States, availability : [current : Int, max : Int]]
At == [num : Int, ts : Int]
DisputeEntry == [outcome : Outcomes, misbehaving : Nat, resolve_time : Nat]
ForkTracker == [backed : BOOLEAN, included : BOOLEAN]
TrackerState ==
  [candidates : [Cores -> Seq(Entry)], cores : SUBSET Cores, new_session : Int,
   current : At, previous : At, current_ts : Int, last_ts : Int,
   last_backed : Int, backing_type : {"Sync", "Async"}, last_included : At,
   previous_included : At, finality_lag : Int, disputes : Seq(DisputeEntry),
   has_hrmp_messages : BOOLEAN, relay_forks : Seq(ForkTracker)]

(* The records of a block, and the update of a head. *)
Blocks ==
  [num : Nat, ts : Int, inherent : BOOLEAN, bits : [Cores -> Int], validators : Int, assigned : SUBSET Cores,
   occupied : [Cores -> BOOLEAN], finalized : Int, messages : BOOLEAN]
HeadType(h) ==
  /\ h.backed \in [Cores -> Seq(Nat \ {0})]
  /\ h.disputes \in Seq(Disputes)

(* A sequence from the values at its positions. *)
LEMMA SequenceOf ==
  ASSUME NEW S, NEW n \in Nat, NEW f, f = [i \in 1..n |-> f[i]], \A i \in 1..n : f[i] \in S
  PROVE  f \in Seq(S) /\ Len(f) = n /\ DOMAIN f = 1..n
OBVIOUS

(* A sequence with one value replaced. *)
LEMMA ReplacedAt ==
  ASSUME NEW S, NEW s \in Seq(S), NEW k \in 1..Len(s), NEW e \in S
  PROVE  LET f == [s EXCEPT ![k] = e] IN
         /\ f \in Seq(S) /\ Len(f) = Len(s) /\ f[k] = e /\ \A i \in 1..Len(s) : i # k => f[i] = s[i]
OBVIOUS

(* set_relay_block() moves the block, and the timestamps unless the block is a
   fork. *)
LEMMA SetRelayBlock ==
  ASSUME NEW t \in TrackerState, NEW b \in Blocks
  PROVE  LET u == set_relay_block(t, b) IN
         /\ u \in TrackerState
         /\ u.candidates = t.candidates /\ u.new_session = t.new_session /\ u.disputes = t.disputes
         /\ u.last_backed = t.last_backed /\ u.backing_type = t.backing_type
         /\ u.last_included = t.last_included /\ u.previous_included = t.previous_included
         /\ u.relay_forks = t.relay_forks
         /\ u.current = [num |-> b.num, ts |-> b.ts] /\ u.previous = t.current
         /\ u.last_ts = IF is_fork(u) THEN t.last_ts ELSE t.current_ts
         /\ u.current_ts = IF is_fork(u) THEN t.current_ts ELSE b.ts
<1>1. PICK cur \in At : cur = [num |-> b.num, ts |-> b.ts]
  <2>1. [num |-> b.num, ts |-> b.ts] \in At
    BY DEF At, Blocks
  <2> QED BY <2>1
<1>2. PICK lag \in Int : lag = IF b.finalized = Nothing THEN Nothing ELSE b.num - b.finalized
  BY DEF Blocks, Nothing
<1>3. PICK v : v = [t EXCEPT !.previous = t.current, !.current = cur, !.finality_lag = lag]
  OBVIOUS
<1>4. v \in TrackerState
  BY <1>3 DEF TrackerState
<1>5. set_relay_block(t, b) = IF is_fork(v) THEN v ELSE [v EXCEPT !.last_ts = t.current_ts, !.current_ts = b.ts]
  BY <1>1, <1>2, <1>3, Zenon DEF set_relay_block
<1>6. PICK w : w = [v EXCEPT !.last_ts = t.current_ts, !.current_ts = b.ts]
  OBVIOUS
<1>7. w \in TrackerState /\ is_fork(w) = is_fork(v)
  BY <1>4, <1>6 DEF TrackerState, is_fork, Blocks
<1> QED BY <1>1, <1>3, <1>4, <1>5, <1>6, <1>7 DEF TrackerState

(* set_forks() starts a new list of forks, or extends it at a fork. *)
LEMMA SetForks ==
  ASSUME NEW t \in TrackerState
  PROVE  \E forks \in Seq(ForkTracker) :
           /\ set_forks(t) = [t EXCEPT !.relay_forks = forks] /\ set_forks(t) \in TrackerState
           /\ forks # <<>>
           /\ ~is_fork(t) => forks = <<[backed |-> FALSE, included |-> FALSE]>>
<1>1. PICK f \in ForkTracker : f = [backed |-> FALSE, included |-> FALSE]
  <2>1. [backed |-> FALSE, included |-> FALSE] \in ForkTracker
    BY DEF ForkTracker
  <2> QED BY <2>1
<1>2. PICK old \in Seq(ForkTracker) : old = IF is_fork(t) THEN t.relay_forks ELSE <<>>
  <2>1. t.relay_forks \in Seq(ForkTracker) /\ <<>> \in Seq(ForkTracker)
    BY DEF TrackerState
  <2> QED BY <2>1
<1>3. PICK forks : forks = Append(old, f)
  OBVIOUS
<1>4. set_forks(t) = [t EXCEPT !.relay_forks = forks]
  BY <1>1, <1>2, <1>3, Zenon DEF set_forks
<1>5. /\ forks \in Seq(ForkTracker) /\ forks # <<>>
      /\ ~is_fork(t) => forks = <<f>>
  <2>1. Append(old, f) \in Seq(ForkTracker) /\ Append(old, f) # <<>>
    BY <1>1, <1>2
  <2>2. Append(<<>>, f) = <<f>>
    OBVIOUS
  <2> QED BY <1>2, <1>3, <2>1, <2>2
<1> QED BY <1>1, <1>4, <1>5 DEF TrackerState

(* What the tracker does to its candidates, and what it leaves alone meanwhile. *)
OnlyCandidates(t, u) ==
  /\ u \in TrackerState
  /\ u.cores = t.cores /\ u.new_session = t.new_session /\ u.current = t.current /\ u.previous = t.previous
  /\ u.current_ts = t.current_ts /\ u.last_ts = t.last_ts /\ u.disputes = t.disputes

(* Replacing the candidates leaves the rest. *)
LEMMA Candidates ==
  ASSUME NEW t \in TrackerState, NEW s \in [Cores -> Seq(Entry)]
  PROVE  LET u == [t EXCEPT !.candidates = s] IN
         /\ OnlyCandidates(t, u) /\ u.candidates = s
         /\ u.last_backed = t.last_backed /\ u.backing_type = t.backing_type
         /\ u.last_included = t.last_included /\ u.previous_included = t.previous_included
         /\ u.relay_forks = t.relay_forks
BY DEF OnlyCandidates, TrackerState

(* Marking what is included changes states and nothing else. *)
LEMMA MarkedType ==
  ASSUME NEW s \in Seq(Entry), NEW h, NEW a \in [current : Int, max : Int]
  PROVE  /\ Marked(s, h, a) \in Seq(Entry) /\ Len(Marked(s, h, a)) = Len(s)
         /\ \A i \in 1..Len(s) :
              /\ Marked(s, h, a)[i].candidate_hash = s[i].candidate_hash
              /\ Marked(s, h, a)[i].state = IF Includes(h, s[i].candidate_hash) THEN "Included" ELSE s[i].state
<1>1. \A i \in 1..Len(s) : s[i] \in Entry
  OBVIOUS
<1>2. \A e \in Entry : /\ [e EXCEPT !.state = "Included", !.availability = a] \in Entry
                       /\ [e EXCEPT !.state = "Included", !.availability = a].candidate_hash = e.candidate_hash
                       /\ [e EXCEPT !.state = "Included", !.availability = a].state = "Included"
  BY DEF Entry, States
<1>3. PICK f : f = Marked(s, h, a)
  OBVIOUS
<1>4. DOMAIN s = 1..Len(s)
  OBVIOUS
<1>5. f = [i \in 1..Len(s) |-> f[i]] /\ \A i \in 1..Len(s) : f[i] = IF Includes(h, s[i].candidate_hash)
                      THEN [s[i] EXCEPT !.state = "Included", !.availability = a] ELSE s[i]
  BY <1>3, <1>4, Zenon DEF Marked
<1>6. \A i \in 1..Len(s) : f[i] \in Entry
  BY <1>5, <1>1, <1>2
<1>7. f \in Seq(Entry) /\ Len(f) = Len(s)
  <2>1. Len(s) \in Nat
    OBVIOUS
  <2> QED BY <1>5, <1>6, <2>1, SequenceOf
<1> QED BY <1>1, <1>2, <1>3, <1>5, <1>7

(* set_included_candidates() marks what the update includes, and moves the last
   inclusion if there is any. *)
LEMMA SetIncluded ==
  ASSUME NEW t \in TrackerState, NEW h, NEW b \in Blocks, t.relay_forks # <<>>
  PROVE  LET u == set_included_candidates(t, h, b) IN
         /\ OnlyCandidates(t, u)
         /\ u.last_backed = t.last_backed /\ u.backing_type = t.backing_type
         /\ \A c \in Cores : u.candidates[c] = Marked(t.candidates[c], h, Availability(b, c))
         /\ IF AnyIncluded(t, h) THEN u.previous_included = t.last_included /\ u.last_included = t.current
            ELSE u.previous_included = t.previous_included /\ u.last_included = t.last_included
         /\ Len(u.relay_forks) = Len(t.relay_forks)
         /\ \A i \in DOMAIN t.relay_forks : u.relay_forks[i].backed = t.relay_forks[i].backed
<1>1. PICK s : s = [c \in Cores |-> Marked(t.candidates[c], h, Availability(b, c))]
  OBVIOUS
<1>2. s \in [Cores -> Seq(Entry)]
  <2>1. SUFFICES ASSUME NEW c \in Cores PROVE s[c] \in Seq(Entry)
    BY <1>1
  <2>2. Availability(b, c) \in [current : Int, max : Int]
    BY DEF Availability, Blocks
  <2>3. t.candidates[c] \in Seq(Entry)
    BY DEF TrackerState
  <2> QED BY <2>2, <2>3, <1>1, MarkedType
<1>3. PICK v : v = [t EXCEPT !.candidates = s]
  OBVIOUS
<1>4. /\ OnlyCandidates(t, v) /\ v.candidates = s /\ v.last_backed = t.last_backed /\ v.backing_type = t.backing_type
      /\ v.last_included = t.last_included /\ v.previous_included = t.previous_included
      /\ v.relay_forks = t.relay_forks
  BY <1>2, <1>3, Candidates
<1>5. MarkIncluded(t, h, b) = v
  BY <1>1, <1>3 DEF MarkIncluded
<1>6. CASE AnyIncluded(t, h)
  <2>1. PICK n : n = Len(t.relay_forks) /\ n \in 1..Len(t.relay_forks)
    BY DEF TrackerState
  <2>2. PICK forks : forks = [t.relay_forks EXCEPT ![n].included = TRUE]
    OBVIOUS
  <2>3. /\ forks \in Seq(ForkTracker) /\ Len(forks) = Len(t.relay_forks)
        /\ \A i \in 1..Len(t.relay_forks) : forks[i].backed = t.relay_forks[i].backed
    <3>1. t.relay_forks \in Seq(ForkTracker) /\ \A i \in 1..Len(t.relay_forks) : t.relay_forks[i] \in ForkTracker
      BY DEF TrackerState
    <3>2. PICK e : e = [t.relay_forks[n] EXCEPT !.included = TRUE]
      OBVIOUS
    <3>3. e \in ForkTracker /\ e.backed = t.relay_forks[n].backed
      BY <2>1, <3>1, <3>2 DEF ForkTracker
    <3>4. forks = [t.relay_forks EXCEPT ![n] = e]
      BY <2>2, <3>2
    <3> QED BY <2>1, <3>1, <3>3, <3>4, ReplacedAt
  <2>4. PICK w : w = [v EXCEPT !.relay_forks = forks, !.previous_included = t.last_included, !.last_included = t.current]
    OBVIOUS
  <2>5. set_included_candidates(t, h, b) = w
    BY <1>4, <1>5, <1>6, <2>1, <2>2, <2>4 DEF set_included_candidates, OnlyCandidates, TrackerState
  <2>6. OnlyCandidates(t, w)
    BY <1>4, <2>3, <2>4 DEF OnlyCandidates, TrackerState
  <2>7. /\ w.candidates = s /\ w.last_backed = t.last_backed /\ w.backing_type = t.backing_type
        /\ w.relay_forks = forks /\ w.previous_included = t.last_included /\ w.last_included = t.current
    BY <1>4, <2>4 DEF OnlyCandidates, TrackerState
  <2>8. DOMAIN t.relay_forks = 1..Len(t.relay_forks)
    BY DEF TrackerState
  <2> QED BY <1>1, <1>6, <2>3, <2>5, <2>6, <2>7, <2>8
<1>7. CASE ~AnyIncluded(t, h)
  <2>1. \A c \in Cores : Marked(t.candidates[c], h, Availability(b, c)) = t.candidates[c]
    <3>1. SUFFICES ASSUME NEW c \in Cores PROVE Marked(t.candidates[c], h, Availability(b, c)) = t.candidates[c]
      OBVIOUS
    <3>2. t.candidates[c] \in Seq(Entry)
      BY DEF TrackerState
    <3>3. \A i \in DOMAIN t.candidates[c] : ~Includes(h, t.candidates[c][i].candidate_hash)
      BY <1>7 DEF AnyIncluded
    <3>4. Marked(t.candidates[c], h, Availability(b, c)) = [i \in DOMAIN t.candidates[c] |-> t.candidates[c][i]]
      BY <3>3 DEF Marked
    <3>5. t.candidates[c] = [i \in DOMAIN t.candidates[c] |-> t.candidates[c][i]]
      BY <3>2
    <3> QED BY <3>4, <3>5
  <2>2. set_included_candidates(t, h, b) = t
    BY <1>7 DEF set_included_candidates
  <2> QED BY <1>7, <2>1, <2>2 DEF OnlyCandidates
<1> QED BY <1>6, <1>7

(* A skipped slot is an entry. *)
LEMMA SkippedType == Skipped \in Entry /\ Skipped.state = "Skipped"
BY DEF Skipped, Entry, States, NoCandidate, NotAvailable

(* New candidates are backed, in the order of the update. *)
LEMMA NewType ==
  ASSUME NEW hashes \in Seq(Nat \ {0})
  PROVE  /\ New(hashes) \in Seq(Entry) /\ Len(New(hashes)) = Len(hashes)
         /\ \A i \in 1..Len(hashes) : New(hashes)[i].candidate_hash = hashes[i] /\ New(hashes)[i].state = "Backed"
<1>1. \A x \in Nat : /\ NewCandidate(x) \in Entry /\ NewCandidate(x).candidate_hash = x
                     /\ NewCandidate(x).state = "Backed"
  BY SkippedType DEF NewCandidate, Entry, States
<1>2. PICK f : f = New(hashes)
  OBVIOUS
<1>3. DOMAIN hashes = 1..Len(hashes) /\ Len(hashes) \in Nat /\ \A i \in 1..Len(hashes) : hashes[i] \in Nat
  OBVIOUS
<1>4. f = [i \in 1..Len(hashes) |-> f[i]] /\ \A i \in 1..Len(hashes) : f[i] = NewCandidate(hashes[i])
  BY <1>2, <1>3, Zenon DEF New
<1>5. \A i \in 1..Len(hashes) : f[i] \in Entry
  BY <1>1, <1>3, <1>4
<1>6. f \in Seq(Entry) /\ Len(f) = Len(hashes)
  BY <1>3, <1>4, <1>5, SequenceOf
<1> QED BY <1>1, <1>2, <1>3, <1>4, <1>6

(* The candidates of a block are added behind the others of their core; the kind of
   backing does not come back to synchronous. *)
LEMMA AddsBacked ==
  ASSUME NEW t \in TrackerState, NEW h, HeadType(h), NEW b \in Blocks, t.relay_forks # <<>>
  PROVE  LET u == AddBacked(t, h, b) IN
         /\ OnlyCandidates(t, u)
         /\ u.last_included = t.last_included /\ u.previous_included = t.previous_included
         /\ \A c \in Cores : u.candidates[c] = t.candidates[c] \o New(h.backed[c])
         /\ u.last_backed = IF NoneBacked(h) THEN t.last_backed ELSE b.num
         /\ u.backing_type = "Sync" => t.backing_type = "Sync"
         /\ NoneBacked(h) => u = t
         /\ ~NoneBacked(h) => Len(u.relay_forks) = Len(t.relay_forks) /\ u.relay_forks[Len(t.relay_forks)].backed
<1>1. CASE NoneBacked(h)
  <2>1. AddBacked(t, h, b) = t
    BY <1>1 DEF AddBacked
  <2>2. ASSUME NEW c \in Cores PROVE t.candidates[c] = t.candidates[c] \o New(h.backed[c])
    <3>1. h.backed[c] = <<>> /\ t.candidates[c] \in Seq(Entry)
      BY <1>1 DEF NoneBacked, TrackerState
    <3>2. New(<<>>) = <<>>
      BY DEF New
    <3> QED BY <3>1, <3>2
  <2> QED BY <1>1, <2>1, <2>2 DEF OnlyCandidates
<1>2. CASE ~NoneBacked(h)
  <2>1. PICK s : s = [c \in Cores |-> t.candidates[c] \o New(h.backed[c])]
    OBVIOUS
  <2>2. s \in [Cores -> Seq(Entry)]
    <3>1. SUFFICES ASSUME NEW c \in Cores PROVE s[c] \in Seq(Entry)
      BY <2>1
    <3>2. t.candidates[c] \in Seq(Entry) /\ h.backed[c] \in Seq(Nat \ {0})
      BY DEF TrackerState, HeadType
    <3> QED BY <2>1, <3>2, NewType
  <2>3. PICK n : n = Len(t.relay_forks) /\ n \in 1..Len(t.relay_forks)
    BY DEF TrackerState
  <2>4. PICK forks : forks = [t.relay_forks EXCEPT ![n].backed = TRUE]
    OBVIOUS
  <2>5. forks \in Seq(ForkTracker) /\ Len(forks) = Len(t.relay_forks) /\ forks[n].backed
    <3>1. t.relay_forks \in Seq(ForkTracker) /\ \A i \in 1..Len(t.relay_forks) : t.relay_forks[i] \in ForkTracker
      BY DEF TrackerState
    <3>2. PICK e : e = [t.relay_forks[n] EXCEPT !.backed = TRUE]
      OBVIOUS
    <3>3. e \in ForkTracker /\ e.backed
      BY <2>3, <3>1, <3>2 DEF ForkTracker
    <3>4. forks = [t.relay_forks EXCEPT ![n] = e]
      BY <2>4, <3>2
    <3> QED BY <2>3, <3>1, <3>3, <3>4, ReplacedAt
  <2>6. PICK type \in {"Sync", "Async"} :
          type = IF t.last_backed # Nothing /\ b.num - t.last_backed = 1 THEN "Async" ELSE t.backing_type
    BY DEF TrackerState
  <2>7. PICK w : w = [t EXCEPT !.relay_forks = forks, !.backing_type = type, !.last_backed = b.num, !.candidates = s]
    OBVIOUS
  <2>8. AddBacked(t, h, b) = w
    BY <1>2, <2>1, <2>3, <2>4, <2>6, <2>7 DEF AddBacked, TrackerState
  <2>9. b.num \in Int
    BY DEF Blocks
  <2>10. OnlyCandidates(t, w)
    BY <2>2, <2>5, <2>7, <2>9 DEF OnlyCandidates, TrackerState
  <2>11. /\ w.candidates = s /\ w.last_backed = b.num /\ w.backing_type = type /\ w.relay_forks = forks
         /\ w.last_included = t.last_included /\ w.previous_included = t.previous_included
    BY <2>7 DEF TrackerState
  <2>12. type = "Sync" => t.backing_type = "Sync"
    BY <2>6
  <2> QED BY <1>2, <2>1, <2>3, <2>5, <2>8, <2>10, <2>11, <2>12
<1> QED BY <1>1, <1>2

(* The candidates of the block, or a skipped slot, behind what was on the core. *)
Extension(t, h, u) ==
  \A c \in Cores :
    \/ u.candidates[c] = t.candidates[c] \o New(h.backed[c])
    \/ /\ u.candidates[c] = Append(t.candidates[c] \o New(h.backed[c]), Skipped)
       /\ c \in t.cores /\ h.backed[c] = <<>>
       /\ u.backing_type = "Sync" => \A i \in DOMAIN t.candidates[c] : t.candidates[c][i].state = "Skipped"

(* A core without a candidate of the block may get a skipped slot, in synchronous
   backing only if there is nothing on it at all. *)
LEMMA SetBacked ==
  ASSUME NEW t \in TrackerState, NEW h, HeadType(h), NEW b \in Blocks, t.relay_forks # <<>>
  PROVE  LET u == set_backed_candidates(t, h, b) IN
         /\ OnlyCandidates(t, u)
         /\ u.last_included = t.last_included /\ u.previous_included = t.previous_included
         /\ u.last_backed = IF NoneBacked(h) THEN t.last_backed ELSE b.num
         /\ u.backing_type = "Sync" => t.backing_type = "Sync"
         /\ Extension(t, h, u)
<1>1. PICK v : v = AddBacked(t, h, b)
  OBVIOUS
<1>2. /\ OnlyCandidates(t, v)
      /\ v.last_included = t.last_included /\ v.previous_included = t.previous_included
      /\ v.last_backed = IF NoneBacked(h) THEN t.last_backed ELSE b.num
      /\ v.backing_type = "Sync" => t.backing_type = "Sync"
      /\ \A c \in Cores : v.candidates[c] = t.candidates[c] \o New(h.backed[c])
  BY <1>1, AddsBacked
<1>3. v \in TrackerState
  BY <1>2 DEF OnlyCandidates
<1>4. PICK free : free = {c \in Cores : h.backed[c] = <<>> /\ IF v.backing_type = "Sync"
                                               THEN ~has_backed_or_included_candidate(v, c)
                                               ELSE ~has_backed_candidate(v, c)}
  OBVIOUS
<1>5. PICK s : s = [c \in Cores |-> IF c \in v.cores \cap free THEN Append(v.candidates[c], Skipped)
                                   ELSE v.candidates[c]]
  OBVIOUS
<1>6. s \in [Cores -> Seq(Entry)]
  <2>1. \A c \in Cores : v.candidates[c] \in Seq(Entry)
    BY <1>3 DEF TrackerState
  <2>2. \A c \in Cores : Append(v.candidates[c], Skipped) \in Seq(Entry)
    BY <2>1, SkippedType
  <2> QED BY <1>5, <2>1, <2>2
<1>7. PICK w : w = [v EXCEPT !.candidates = s]
  OBVIOUS
<1>8. set_backed_candidates(t, h, b) = w
  BY <1>1, <1>4, <1>5, <1>7 DEF set_backed_candidates, AddSkipped
<1>9. /\ OnlyCandidates(v, w) /\ w.candidates = s /\ w.last_backed = v.last_backed /\ w.backing_type = v.backing_type
      /\ w.last_included = v.last_included /\ w.previous_included = v.previous_included
  BY <1>3, <1>6, <1>7, Candidates
<1>10. OnlyCandidates(t, w)
  BY <1>2, <1>9 DEF OnlyCandidates
<1>11. ASSUME NEW c \in Cores
       PROVE  \/ s[c] = t.candidates[c] \o New(h.backed[c])
              \/ /\ s[c] = Append(t.candidates[c] \o New(h.backed[c]), Skipped)
                 /\ c \in t.cores /\ h.backed[c] = <<>>
                 /\ w.backing_type = "Sync" => \A i \in DOMAIN t.candidates[c] : t.candidates[c][i].state = "Skipped"
  <2>1. CASE c \in v.cores \cap free
    <3>1. s[c] = Append(v.candidates[c], Skipped) /\ c \in t.cores /\ h.backed[c] = <<>>
      BY <1>2, <1>4, <1>5, <2>1 DEF OnlyCandidates
    <3>2. v.candidates[c] = t.candidates[c]
      <4>1. h.backed[c] = <<>> /\ t.candidates[c] \in Seq(Entry)
        BY <3>1 DEF TrackerState
      <4>2. New(<<>>) = <<>>
        BY DEF New
      <4>3. v.candidates[c] = t.candidates[c] \o <<>>
        BY <1>2, <4>1, <4>2
      <4> QED BY <4>1, <4>3
    <3>3. ASSUME v.backing_type = "Sync", NEW i \in DOMAIN t.candidates[c] PROVE t.candidates[c][i].state = "Skipped"
      <4>1. ~Holds(v, c, {"Backed", "PendingAvailability", "Included", "Dropped"})
        BY <1>4, <2>1, <3>3 DEF has_backed_or_included_candidate
      <4>2. t.candidates[c][i] \in Entry
        BY <3>3 DEF TrackerState
      <4> QED BY <3>2, <3>3, <4>1, <4>2 DEF Holds, Entry, States
    <3> QED BY <1>2, <1>9, <3>1, <3>3
  <2>2. CASE c \notin v.cores \cap free
    BY <1>2, <1>5, <2>2
  <2> QED BY <2>1, <2>2
<1>12. Extension(t, h, w)
  BY <1>9, <1>11 DEF Extension
<1> QED BY <1>2, <1>8, <1>9, <1>10, <1>12

(* Only the last entry of a core may change, and stays what it is but for a backed one,
   which may become pending. *)
LastChanged(s, q) ==
  /\ q \in Seq(Entry) /\ Len(q) = Len(s)
  /\ \A i \in 1..Len(s) : /\ q[i].candidate_hash = s[i].candidate_hash
                          /\ q[i].state = s[i].state \/ (s[i].state = "Backed" /\ q[i].state = "PendingAvailability")

(* A core whose current candidate is backed has a last entry. *)
LEMMA LastOfCore ==
  ASSUME NEW t \in TrackerState, NEW c \in Cores, is_current_candidate_backed(t, c)
  PROVE  LET s == t.candidates[c] IN s \in Seq(Entry) /\ Len(s) \in 1..Len(s) /\ s[Len(s)] \in Entry /\ s[Len(s)].state = "Backed"
<1>1. t.candidates[c] \in Seq(Entry)
  BY DEF TrackerState
<1>2. t.candidates[c] # <<>>
  BY SkippedType DEF is_current_candidate_backed, current_candidate
<1> QED BY <1>1, <1>2 DEF is_current_candidate_backed, current_candidate, LastOf

(* set_core_assignment() of a core changes at most its last entry. *)
LEMMA AssignedKeeps ==
  ASSUME NEW t \in TrackerState, NEW c \in Cores, NEW b \in Blocks
  PROVE  LastChanged(t.candidates[c], Assigned(t, c, b))
<1>1. PICK s : s = t.candidates[c]
  OBVIOUS
<1>2. s \in Seq(Entry)
  BY <1>1 DEF TrackerState
<1>3. CASE c \in t.cores /\ is_current_candidate_backed(t, c)
  <2>1. PICK k \in 1..Len(s) : k = Len(s) /\ s[k] \in Entry
    BY <1>1, <1>3, LastOfCore
  <2>2. PICK e : e = [s[k] EXCEPT !.core_occupied = b.occupied[c]]
    OBVIOUS
  <2>3. e \in Entry /\ e.candidate_hash = s[k].candidate_hash /\ e.state = s[k].state
    <3>1. b.occupied[c] \in BOOLEAN
      BY DEF Blocks
    <3> QED BY <2>1, <2>2, <3>1 DEF Entry
  <2>4. PICK f : f = [s EXCEPT ![k] = e]
    OBVIOUS
  <2>5. Assigned(t, c, b) = f
    BY <1>1, <1>3, <2>1, <2>2, <2>4 DEF Assigned
  <2>6. f \in Seq(Entry) /\ Len(f) = Len(s) /\ f[k] = e /\ \A i \in 1..Len(s) : i # k => f[i] = s[i]
    BY <1>2, <2>1, <2>3, <2>4, ReplacedAt
  <2> QED BY <1>1, <2>3, <2>5, <2>6 DEF LastChanged
<1>4. CASE ~(c \in t.cores /\ is_current_candidate_backed(t, c))
  BY <1>1, <1>2, <1>4 DEF Assigned, LastChanged
<1> QED BY <1>3, <1>4

(* set_pending_availability() of a core changes at most its last entry. *)
LEMMA PendingKeeps ==
  ASSUME NEW t \in TrackerState, NEW c \in Cores, NEW b \in Blocks
  PROVE  LastChanged(t.candidates[c], Pending(t, c, b))
<1>1. PICK s : s = t.candidates[c]
  OBVIOUS
<1>2. s \in Seq(Entry)
  BY <1>1 DEF TrackerState
<1>3. CASE c \in t.cores /\ is_current_candidate_backed(t, c) /\ ~is_just_backed(t)
  <2>1. PICK k \in 1..Len(s) : k = Len(s) /\ s[k] \in Entry /\ s[k].state = "Backed"
    BY <1>1, <1>3, LastOfCore
  <2>2. PICK e : e = [s[k] EXCEPT !.state = "PendingAvailability", !.availability = Availability(b, c)]
    OBVIOUS
  <2>3. e \in Entry /\ e.candidate_hash = s[k].candidate_hash /\ e.state = "PendingAvailability"
    <3>1. Availability(b, c) \in [current : Int, max : Int]
      BY DEF Availability, Blocks
    <3> QED BY <2>1, <2>2, <3>1 DEF Entry, States
  <2>4. PICK f : f = [s EXCEPT ![k] = e]
    OBVIOUS
  <2>5. Pending(t, c, b) = f
    BY <1>1, <1>2, <1>3, <2>1, <2>2, <2>4 DEF Pending
  <2>6. f \in Seq(Entry) /\ Len(f) = Len(s) /\ f[k] = e /\ \A i \in 1..Len(s) : i # k => f[i] = s[i]
    BY <1>2, <2>1, <2>3, <2>4, ReplacedAt
  <2> QED BY <1>1, <2>1, <2>3, <2>5, <2>6 DEF LastChanged
<1>4. CASE ~(c \in t.cores /\ is_current_candidate_backed(t, c) /\ ~is_just_backed(t))
  BY <1>1, <1>2, <1>4 DEF Pending, LastChanged
<1> QED BY <1>3, <1>4

(* set_core_assignment() changes at most the last entry of every core. *)
LEMMA SetAssignment ==
  ASSUME NEW t \in TrackerState, NEW b \in Blocks
  PROVE  LET u == set_core_assignment(t, b) IN
         /\ OnlyCandidates(t, u) /\ \A c \in Cores : LastChanged(t.candidates[c], u.candidates[c])
         /\ u.last_backed = t.last_backed /\ u.backing_type = t.backing_type
         /\ u.last_included = t.last_included /\ u.previous_included = t.previous_included
<1>1. PICK s : s = [c \in Cores |-> Assigned(t, c, b)]
  OBVIOUS
<1>2. \A c \in Cores : LastChanged(t.candidates[c], s[c])
  BY <1>1, AssignedKeeps
<1>3. s \in [Cores -> Seq(Entry)]
  BY <1>1, <1>2 DEF LastChanged
<1>4. set_core_assignment(t, b) = [t EXCEPT !.candidates = s]
  BY <1>1 DEF set_core_assignment
<1> QED BY <1>2, <1>3, <1>4, Candidates

(* set_pending_availability() changes at most the last entry of every core. *)
LEMMA SetPending ==
  ASSUME NEW t \in TrackerState, NEW b \in Blocks
  PROVE  LET u == set_pending_availability(t, b) IN
         /\ OnlyCandidates(t, u) /\ \A c \in Cores : LastChanged(t.candidates[c], u.candidates[c])
         /\ u.last_backed = t.last_backed /\ u.backing_type = t.backing_type
         /\ u.last_included = t.last_included /\ u.previous_included = t.previous_included
<1>1. PICK s : s = [c \in Cores |-> Pending(t, c, b)]
  OBVIOUS
<1>2. \A c \in Cores : LastChanged(t.candidates[c], s[c])
  BY <1>1, PendingKeeps
<1>3. s \in [Cores -> Seq(Entry)]
  BY <1>1, <1>2 DEF LastChanged
<1>4. set_pending_availability(t, b) = [t EXCEPT !.candidates = s]
  BY <1>1 DEF set_pending_availability
<1> QED BY <1>2, <1>3, <1>4, Candidates

(* Of the candidates that are not included all but the last are dropped. *)
LEMMA DroppedType ==
  ASSUME NEW s \in Seq(Entry)
  PROVE  LET q == Dropped(s) IN
         /\ q \in Seq(Entry) /\ Len(q) = Len(s)
         /\ \A i \in 1..Len(s) :
              /\ q[i].candidate_hash = s[i].candidate_hash
              /\ q[i].state = IF Superseded(s, i) THEN "Dropped" ELSE s[i].state
<1>1. \A i \in 1..Len(s) : s[i] \in Entry
  OBVIOUS
<1>2. \A e \in Entry : /\ [e EXCEPT !.state = "Dropped"] \in Entry
                       /\ [e EXCEPT !.state = "Dropped"].candidate_hash = e.candidate_hash
                       /\ [e EXCEPT !.state = "Dropped"].state = "Dropped"
  BY DEF Entry, States
<1>3. PICK f : f = Dropped(s)
  OBVIOUS
<1>4. DOMAIN s = 1..Len(s) /\ Len(s) \in Nat
  OBVIOUS
<1>5. f = [i \in 1..Len(s) |-> f[i]]
      /\ \A i \in 1..Len(s) : f[i] = IF Superseded(s, i) THEN [s[i] EXCEPT !.state = "Dropped"] ELSE s[i]
  BY <1>3, <1>4, Zenon DEF Dropped
<1>6. \A i \in 1..Len(s) : f[i] \in Entry
  BY <1>1, <1>2, <1>5
<1>7. f \in Seq(Entry) /\ Len(f) = Len(s)
  BY <1>4, <1>5, <1>6, SequenceOf
<1> QED BY <1>1, <1>2, <1>3, <1>5, <1>7

(* set_dropped_candidates() changes the entries of every core as Dropped says. *)
LEMMA SetDropped ==
  ASSUME NEW t \in TrackerState
  PROVE  LET u == set_dropped_candidates(t) IN
         /\ OnlyCandidates(t, u) /\ \A c \in Cores : u.candidates[c] = Dropped(t.candidates[c])
         /\ u.last_backed = t.last_backed /\ u.backing_type = t.backing_type
         /\ u.last_included = t.last_included /\ u.previous_included = t.previous_included
<1>1. PICK s : s = [c \in Cores |-> Dropped(t.candidates[c])]
  OBVIOUS
<1>2. \A c \in Cores : t.candidates[c] \in Seq(Entry)
  BY DEF TrackerState
<1>3. s \in [Cores -> Seq(Entry)]
  BY <1>1, <1>2, DroppedType
<1>4. set_dropped_candidates(t) = [t EXCEPT !.candidates = s]
  BY <1>1 DEF set_dropped_candidates
<1> QED BY <1>1, <1>3, <1>4, Candidates
-----------------------------------------------------------------------------
(* What retain() and filter() leave. *)

(* A set of natural numbers has a lowest one. *)
LEMMA LowestExists ==
  ASSUME NEW S, S \subseteq Nat, S # {}
  PROVE  \E x \in S : \A y \in S : x <= y
<1>1. PICK x \in S : \A y \in S : ~(<<y, x>> \in OpToRel(<, Nat))
  BY NatLessThanWellFounded, WFMin
<1>2. \A y \in S : ~(y < x)
  BY <1>1 DEF OpToRel
<1> QED BY <1>2

(* A finite set of natural numbers has a highest one. *)
LEMMA HighestExists ==
  ASSUME NEW I, I \subseteq Nat, I # {}, IsFiniteSet(I)
  PROVE  \E x \in I : \A y \in I : y <= x
<1> DEFINE Above(p) == {j \in I : j > p}
<1>1. \A p \in I : IsFiniteSet(Above(p)) /\ Cardinality(Above(p)) \in Nat
  BY FS_Subset, FS_CardinalityType
<1>2. PICK N : N = {Cardinality(Above(p)) : p \in I}
  OBVIOUS
<1>3. PICK n \in N : \A m \in N : n <= m
  <2>1. N # {} /\ N \subseteq Nat
    BY <1>1, <1>2
  <2> QED BY <2>1, LowestExists
<1>4. PICK p \in I : n = Cardinality(Above(p))
  BY <1>2, <1>3
<1>5. SUFFICES ASSUME NEW q \in I, q > p PROVE FALSE
  BY <1>4
<1>6. Above(q) \in SUBSET Above(p) /\ Above(q) # Above(p)
  <2>1. p \in Nat /\ q \in Nat /\ \A j \in I : j \in Nat
    OBVIOUS
  <2>2. q \in Above(p) /\ q \notin Above(q)
    BY <1>5, <2>1
  <2>3. \A j \in Above(q) : j \in Above(p)
    BY <1>5, <2>1
  <2> QED BY <2>2, <2>3
<1>7. Cardinality(Above(q)) < Cardinality(Above(p))
  <2> HIDE DEF Above
  <2>1. Cardinality(Above(q)) <= Cardinality(Above(p)) /\ Cardinality(Above(q)) # Cardinality(Above(p))
    BY <1>1, <1>6, FS_Subset
  <2> QED BY <1>1, <2>1
<1> HIDE DEF Above
<1> QED BY <1>1, <1>2, <1>3, <1>4, <1>7

(* Every rank below the size of a finite set of numbers is that of one of them. *)
LEMMA PositionExists ==
  ASSUME NEW I, I \subseteq Nat, IsFiniteSet(I), NEW k \in 1..Cardinality(I)
  PROVE  \E i \in I : Cardinality({j \in I : j < i}) = k - 1
<1> DEFINE Below(i) == {j \in I : j < i}
<1>1. \A i \in I : IsFiniteSet(Below(i)) /\ Cardinality(Below(i)) \in Nat
  BY FS_Subset, FS_CardinalityType
<1>2. Cardinality(I) \in Nat
  BY FS_CardinalityType
<1>3. PICK S : S = {i \in I : Cardinality(Below(i)) >= k - 1}
  OBVIOUS
<1>4. S # {}
  <2>1. I # {}
    BY <1>2, FS_EmptySet
  <2>2. PICK m \in I : \A j \in I : j <= m
    BY <2>1, HighestExists
  <2>3. I = Below(m) \cup {m} /\ m \notin Below(m)
    <3>1. m \in Nat /\ \A j \in I : j \in Nat
      OBVIOUS
    <3>2. \A j \in I : j = m \/ j < m
      BY <2>2, <3>1
    <3>3. ~(m < m)
      BY <3>1
    <3>4. \A j : j \in I <=> j \in Below(m) \cup {m}
      BY <3>2, Zenon
    <3> QED BY <3>3, <3>4
  <2> HIDE DEF Below
  <2>4. Cardinality(I) = Cardinality(Below(m)) + 1
    BY <1>1, <2>3, FS_AddElement
  <2>5. Cardinality(Below(m)) >= k - 1
    BY <1>1, <1>2, <2>4
  <2> QED BY <1>3, <2>5
<1>5. PICK i \in S : \A j \in S : i <= j
  BY <1>3, <1>4, LowestExists
<1>6. Cardinality(Below(i)) = k - 1
  <2>1. SUFFICES ASSUME Cardinality(Below(i)) > k - 1 PROVE FALSE
    BY <1>1, <1>2, <1>3
  <2>2. Below(i) # {}
    BY <1>2, <2>1, FS_EmptySet
  <2>3. PICK p \in Below(i) : \A j \in Below(i) : j <= p
    BY <1>1, <1>3, <2>2, HighestExists
  <2>4. Below(i) = Below(p) \cup {p} /\ p \notin Below(p) /\ p \in I /\ p < i
    <3>1. i \in I /\ i \in Nat /\ p \in I /\ p < i /\ \A j \in I : j \in Nat
      BY <1>3
    <3>2. \A j \in I : j < i => j = p \/ j < p
      BY <2>3, <3>1
    <3>3. \A j \in I : j < p => j < i
      BY <3>1
    <3>4. ~(p < p)
      BY <3>1
    <3>5. \A j : j \in Below(i) <=> j \in Below(p) \cup {p}
      BY <3>1, <3>2, <3>3, Zenon
    <3> QED BY <3>1, <3>4, <3>5
  <2> HIDE DEF Below
  <2>5. Cardinality(Below(i)) = Cardinality(Below(p)) + 1
    BY <1>1, <2>4, FS_AddElement
  <2>6. p \in S
    BY <1>1, <1>2, <1>3, <2>1, <2>4, <2>5
  <2> QED BY <1>3, <1>5, <2>4, <2>6
<1> QED BY <1>3, <1>6

(* What is kept of a sequence is in it. *)
PartOf(p, s, I) == \A k \in 1..Len(p) : \E i \in I : p[k] = s[i]
(* What retain() leaves: the entries at the positions of I, in order. *)
LEMMA KeptType ==
  ASSUME NEW S, NEW s \in Seq(S), NEW I, I \subseteq 1..Len(s)
  PROVE  /\ Cardinality(I) \in Nat /\ Kept(s, I) \in Seq(S) /\ Len(Kept(s, I)) = Cardinality(I)
         /\ PartOf(Kept(s, I), s, I)
         /\ IsFiniteSet(I)
<1>1. Len(s) \in Nat /\ \A i \in 1..Len(s) : s[i] \in S
  OBVIOUS
<1>2. IsFiniteSet(I) /\ Cardinality(I) \in Nat
  <2>1. IsFiniteSet(1..Len(s))
    BY <1>1, FS_Interval
  <2> QED BY <2>1, FS_Subset, FS_CardinalityType
<1>3. PICK f : f = Kept(s, I)
  OBVIOUS
<1>4. ASSUME NEW k \in 1..Cardinality(I) PROVE \E i \in I : f[k] = s[i]
  <2>1. PICK i : i = CHOOSE x \in I : Cardinality({j \in I : j < x}) = k - 1
    OBVIOUS
  <2>2. I \subseteq Nat
    BY <1>1
  <2>3. i \in I
    BY <1>2, <2>1, <2>2, PositionExists
  <2>4. f[k] = s[i]
    BY <1>3, <2>1 DEF Kept
  <2> QED BY <2>3, <2>4
<1>5. f = [k \in 1..Cardinality(I) |-> f[k]]
  BY <1>3 DEF Kept
<1>6. \A k \in 1..Cardinality(I) : f[k] \in S
  BY <1>1, <1>4
<1>7. f \in Seq(S) /\ Len(f) = Cardinality(I)
  BY <1>2, <1>5, <1>6, SequenceOf
<1>8. PartOf(f, s, I)
  BY <1>4, <1>7 DEF PartOf
<1> QED BY <1>2, <1>3, <1>7, <1>8
-----------------------------------------------------------------------------
(* The entries of a core through inject_block(), and the whole of it. *)
Active == {"Backed", "PendingAvailability"}

(* What a block makes of the entries s of a core with the candidates `back` backed on
   it: the included ones among s are marked, the others stay, the new ones follow, and
   behind them comes a skipped slot perhaps. *)
Extended(s, back, h, sync, q, States_) ==
  LET n == Len(s)
      m == Len(s) + Len(back)
  IN /\ q \in Seq(Entry)
     /\ \/ Len(q) = m
        \/ Len(q) = m + 1 /\ q[m + 1].state = "Skipped" /\ back = <<>> /\ (sync => s = <<>>)
     /\ \A i \in 1..n :
          /\ q[i].candidate_hash = s[i].candidate_hash
          /\ IF Includes(h, s[i].candidate_hash) THEN q[i].state = "Included" ELSE q[i].state \in States_
     /\ \A i \in n + 1..m : q[i].candidate_hash = back[i - n] /\ q[i].state \in States_

(* In the end, all but the last that are not included are dropped. *)
Outline(s, back, h, sync, q) ==
  /\ Extended(s, back, h, sync, q, Active \cup {"Dropped"})
  /\ \A i \in 1..Len(s) + Len(back) :
       q[i].state = "Dropped" <=> /\ q[i].state # "Included"
                                 /\ \E j \in i + 1..Len(s) + Len(back) : q[j].state # "Included"

(* Two sequences in a row, position by position. *)
LEMMA Concatenated ==
  ASSUME NEW S, NEW p \in Seq(S), NEW r \in Seq(S)
  PROVE  /\ Len(p) \in Nat /\ Len(r) \in Nat /\ p \o r \in Seq(S) /\ Len(p \o r) = Len(p) + Len(r)
         /\ \A i \in 1..Len(p) + Len(r) : (p \o r)[i] = IF i <= Len(p) THEN p[i] ELSE r[i - Len(p)]
OBVIOUS

(* The lengths of a core's entries before and after the new ones. *)
LEMMA Lengths ==
  ASSUME NEW s \in Seq(Entry), NEW back \in Seq(Nat \ {0})
  PROVE  \E n, m : n = Len(s) /\ m = Len(s) + Len(back) /\ n \in Nat /\ m \in Nat /\ m >= n
OBVIOUS

(* What set_included_candidates() and set_backed_candidates() make of the
   entries of a core. *)
LEMMA Extends ==
  ASSUME NEW s \in Seq(Entry), \A i \in 1..Len(s) : s[i].state \in Active,
         NEW back \in Seq(Nat \ {0}), NEW h, NEW a \in [current : Int, max : Int], NEW sync, NEW q,
         \/ q = Marked(s, h, a) \o New(back)
         \/ q = Append(Marked(s, h, a) \o New(back), Skipped) /\ back = <<>> /\ (sync => s = <<>>)
  PROVE  Extended(s, back, h, sync, q, Active)
<1>1. PICK p : p = Marked(s, h, a)
  OBVIOUS
<1>2. PICK r : r = New(back)
  OBVIOUS
<1>3. /\ p \in Seq(Entry) /\ Len(p) = Len(s)
      /\ \A i \in 1..Len(s) : /\ p[i].candidate_hash = s[i].candidate_hash
                              /\ p[i].state = IF Includes(h, s[i].candidate_hash) THEN "Included" ELSE s[i].state
  BY <1>1, MarkedType
<1>4. /\ r \in Seq(Entry) /\ Len(r) = Len(back)
      /\ \A i \in 1..Len(back) : r[i].candidate_hash = back[i] /\ r[i].state = "Backed"
  BY <1>2, NewType
<1>5. PICK n, m : n = Len(s) /\ m = Len(s) + Len(back) /\ n \in Nat /\ m \in Nat /\ m >= n
  BY Lengths
<1>6. PICK f : f = p \o r
  OBVIOUS
<1>7. f \in Seq(Entry) /\ Len(f) = m /\ \A i \in 1..m : f[i] = IF i <= n THEN p[i] ELSE r[i - n]
  <2>1. p \in Seq(Entry) /\ r \in Seq(Entry) /\ Len(p) = n /\ Len(p) + Len(r) = m
    BY <1>3, <1>4, <1>5
  <2>2. /\ p \o r \in Seq(Entry) /\ Len(p \o r) = Len(p) + Len(r)
        /\ \A i \in 1..Len(p) + Len(r) : (p \o r)[i] = IF i <= Len(p) THEN p[i] ELSE r[i - Len(p)]
    BY <2>1, Concatenated
  <2> QED BY <1>6, <2>1, <2>2
<1>8. ASSUME NEW i \in 1..n
      PROVE  /\ f[i].candidate_hash = s[i].candidate_hash
             /\ IF Includes(h, s[i].candidate_hash) THEN f[i].state = "Included" ELSE f[i].state \in Active
  <2>1. f[i] = p[i]
    BY <1>5, <1>7
  <2> QED BY <1>3, <1>5, <2>1
<1>9. ASSUME NEW i \in n + 1..m PROVE f[i].candidate_hash = back[i - n] /\ f[i].state \in Active
  <2>1. f[i] = r[i - n] /\ i - n \in 1..Len(back)
    BY <1>5, <1>7
  <2> QED BY <1>4, <2>1 DEF Active
<1>10. Extended(s, back, h, sync, f, Active)
  BY <1>5, <1>7, <1>8, <1>9 DEF Extended
<1>11. CASE q = f
  BY <1>10, <1>11
<1>12. CASE q = Append(f, Skipped) /\ back = <<>> /\ (sync => s = <<>>)
  <2>1. /\ q \in Seq(Entry) /\ Len(q) = m + 1 /\ q[m + 1].state = "Skipped"
        /\ \A i \in 1..m : q[i] = f[i]
    BY <1>5, <1>7, <1>12, SkippedType
  <2>2. (1..n) \subseteq 1..m /\ (n + 1..m) \subseteq 1..m
    BY <1>5
  <2> QED BY <1>5, <1>8, <1>9, <1>12, <2>1, <2>2 DEF Extended
<1> QED BY <1>1, <1>2, <1>6, <1>11, <1>12

(* A change of the last entry that does not touch its hash keeps what Extended
   says. *)
LEMMA ExtendedStays ==
  ASSUME NEW s \in Seq(Entry), NEW back \in Seq(Nat \ {0}), NEW h, NEW sync, NEW q, NEW r,
         Extended(s, back, h, sync, q, Active), LastChanged(q, r)
  PROVE  Extended(s, back, h, sync, r, Active)
<1>1. PICK n, m : n = Len(s) /\ m = Len(s) + Len(back) /\ n \in Nat /\ m \in Nat /\ m >= n
  OBVIOUS
<1>2. /\ Len(q) = m \/ (Len(q) = m + 1 /\ q[m + 1].state = "Skipped" /\ back = <<>> /\ (sync => s = <<>>))
      /\ \A i \in 1..n :
          /\ q[i].candidate_hash = s[i].candidate_hash
          /\ IF Includes(h, s[i].candidate_hash) THEN q[i].state = "Included" ELSE q[i].state \in Active
      /\ \A i \in n + 1..m : q[i].candidate_hash = back[i - n] /\ q[i].state \in Active
  BY <1>1 DEF Extended
<1>3. /\ r \in Seq(Entry) /\ Len(r) = Len(q)
      /\ \A i \in 1..Len(q) : /\ r[i].candidate_hash = q[i].candidate_hash
                              /\ r[i].state = q[i].state \/ (q[i].state = "Backed" /\ r[i].state = "PendingAvailability")
  BY DEF LastChanged
<1>4. (1..n) \subseteq 1..Len(q) /\ (n + 1..m) \subseteq 1..Len(q) /\ (Len(q) = m + 1 => m + 1 \in 1..Len(q))
  BY <1>1, <1>2
<1>5. \A i \in 1..Len(q) : /\ q[i].state \in Active => r[i].state \in Active
                           /\ q[i].state = "Included" => r[i].state = "Included"
                           /\ q[i].state = "Skipped" => r[i].state = "Skipped"
  BY <1>3 DEF Active
<1>6. ASSUME NEW i \in 1..n
      PROVE  /\ r[i].candidate_hash = s[i].candidate_hash
             /\ IF Includes(h, s[i].candidate_hash) THEN r[i].state = "Included" ELSE r[i].state \in Active
  BY <1>2, <1>3, <1>4, <1>5
<1>7. ASSUME NEW i \in n + 1..m PROVE r[i].candidate_hash = back[i - n] /\ r[i].state \in Active
  BY <1>2, <1>3, <1>4, <1>5
<1>8. Len(r) = m \/ (Len(r) = m + 1 /\ r[m + 1].state = "Skipped" /\ back = <<>> /\ (sync => s = <<>>))
  BY <1>2, <1>3, <1>4, <1>5
<1> QED BY <1>1, <1>3, <1>6, <1>7, <1>8 DEF Extended

(* After set_dropped_candidates() only the last candidate that is not included
   is still followed. *)
LEMMA Outlined ==
  ASSUME NEW s \in Seq(Entry), NEW back \in Seq(Nat \ {0}), NEW h, NEW sync, NEW q,
         Extended(s, back, h, sync, q, Active)
  PROVE  Outline(s, back, h, sync, Dropped(q))
<1>1. PICK n, m : n = Len(s) /\ m = Len(s) + Len(back) /\ n \in Nat /\ m \in Nat /\ m >= n
  OBVIOUS
<1>2. /\ q \in Seq(Entry)
      /\ Len(q) = m \/ (Len(q) = m + 1 /\ q[m + 1].state = "Skipped" /\ back = <<>> /\ (sync => s = <<>>))
      /\ \A i \in 1..n :
          /\ q[i].candidate_hash = s[i].candidate_hash
          /\ IF Includes(h, s[i].candidate_hash) THEN q[i].state = "Included" ELSE q[i].state \in Active
      /\ \A i \in n + 1..m : q[i].candidate_hash = back[i - n] /\ q[i].state \in Active
  BY <1>1 DEF Extended
<1>3. PICK r : r = Dropped(q)
  OBVIOUS
<1>4. /\ r \in Seq(Entry) /\ Len(r) = Len(q)
      /\ \A i \in 1..Len(q) : /\ r[i].candidate_hash = q[i].candidate_hash
                              /\ r[i].state = IF Superseded(q, i) THEN "Dropped" ELSE q[i].state
  BY <1>2, <1>3, DroppedType
<1>5. \A i \in 1..m : q[i].state \in Active \cup {"Included"}
  <2>1. ASSUME NEW i \in 1..m PROVE q[i].state \in Active \cup {"Included"}
    <3>1. i \in 1..n \/ i \in n + 1..m
      BY <1>1
    <3> QED BY <1>2, <3>1
  <2> QED BY <2>1
<1>6. (1..m) \subseteq 1..Len(q) /\ (1..n) \subseteq 1..Len(q) /\ (n + 1..m) \subseteq 1..Len(q)
      /\ (Len(q) = m + 1 => m + 1 \in 1..Len(q)) /\ Len(q) \in {m, m + 1}
  BY <1>1, <1>2
<1>7. ASSUME NEW i \in 1..m
      PROVE  Superseded(q, i) <=> q[i].state # "Included" /\ \E j \in i + 1..m : q[j].state # "Included"
  <2>1. ASSUME NEW j \in i + 1..Len(q), q[j].state \notin {"Skipped", "Included"} PROVE j \in i + 1..m
    <3>1. j # m + 1 \/ Len(q) = m
      BY <1>1, <1>2, <2>1
    <3> QED BY <1>1, <1>6, <3>1
  <2>2. ASSUME NEW j \in i + 1..m PROVE j \in 1..m /\ j \in i + 1..Len(q)
    BY <1>1, <1>6
  <2>3. \A j \in 1..m : q[j].state \notin {"Skipped", "Included"} <=> q[j].state # "Included"
    BY <1>5 DEF Active
  <2> QED BY <2>1, <2>2, <2>3 DEF Superseded
<1>8. ASSUME NEW i \in 1..m
      PROVE  r[i].state = "Dropped" <=> r[i].state # "Included" /\ \E j \in i + 1..m : r[j].state # "Included"
  <2>1. \A j \in 1..m : /\ r[j].state = IF Superseded(q, j) THEN "Dropped" ELSE q[j].state
                        /\ q[j].state # "Dropped"
                        /\ Superseded(q, j) => q[j].state # "Included"
    BY <1>4, <1>5, <1>6, <1>7 DEF Active
  <2>2. \A j \in 1..m : r[j].state # "Included" <=> q[j].state # "Included"
    BY <2>1
  <2>3. \A j \in i + 1..m : j \in 1..m
    BY <1>1
  <2> QED BY <1>7, <2>1, <2>2, <2>3
<1>9. ASSUME NEW i \in 1..n
      PROVE  /\ r[i].candidate_hash = s[i].candidate_hash
             /\ IF Includes(h, s[i].candidate_hash) THEN r[i].state = "Included"
                                                   ELSE r[i].state \in Active \cup {"Dropped"}
  <2>1. i \in 1..m /\ i \in 1..Len(q)
    BY <1>1, <1>6
  <2>2. q[i].state = "Included" => r[i].state = "Included"
    BY <1>4, <1>7, <2>1
  <2>3. q[i].state \in Active => r[i].state \in Active \cup {"Dropped"}
    BY <1>4, <2>1
  <2> QED BY <1>2, <1>4, <2>1, <2>2, <2>3
<1>10. ASSUME NEW i \in n + 1..m
       PROVE  r[i].candidate_hash = back[i - n] /\ r[i].state \in Active \cup {"Dropped"}
  BY <1>2, <1>4, <1>6
<1>11. Len(r) = m \/ (Len(r) = m + 1 /\ r[m + 1].state = "Skipped" /\ back = <<>> /\ (sync => s = <<>>))
  <2>1. Len(q) = m + 1 => ~Superseded(q, m + 1)
    BY <1>2 DEF Superseded
  <2> QED BY <1>2, <1>4, <1>6, <2>1
<1>12. Extended(s, back, h, sync, r, Active \cup {"Dropped"})
  BY <1>1, <1>4, <1>9, <1>10, <1>11 DEF Extended
<1> QED BY <1>1, <1>3, <1>8, <1>12 DEF Outline
-----------------------------------------------------------------------------
(* set_disputes() takes every dispute stated in the update. *)
LEMMA SetDisputes ==
  ASSUME NEW t \in TrackerState, NEW h, HeadType(h)
  PROVE  LET u == set_disputes(t, h) IN
         /\ u \in TrackerState /\ u = [t EXCEPT !.disputes = u.disputes]
         /\ Len(u.disputes) = Len(Stated(h.disputes))
<1>1. PICK known : known = Stated(h.disputes)
  OBVIOUS
<1>2. known \in Seq(Disputes) /\ Len(known) \in Nat
  <2>1. h.disputes \in Seq(Disputes)
    BY DEF HeadType
  <2>2. {i \in DOMAIN h.disputes : h.disputes[i].stated} \subseteq 1..Len(h.disputes)
    BY <2>1
  <2> QED BY <1>1, <2>1, <2>2, KeptType DEF Stated
<1>3. PICK f : f = [i \in DOMAIN known |-> DisputesTracker(known[i])]
  OBVIOUS
<1>4. \A d \in Disputes : DisputesTracker(d) \in DisputeEntry
  BY TrackerAssumption DEF DisputesTracker, DisputeEntry, saturating_sub
<1>5. DOMAIN known = 1..Len(known) /\ \A i \in 1..Len(known) : known[i] \in Disputes
  BY <1>2
<1>6. f = [i \in 1..Len(known) |-> f[i]] /\ \A i \in 1..Len(known) : f[i] = DisputesTracker(known[i])
  BY <1>3, <1>5, Zenon
<1>7. \A i \in 1..Len(known) : f[i] \in DisputeEntry
  BY <1>4, <1>5, <1>6
<1>8. f \in Seq(DisputeEntry) /\ Len(f) = Len(known)
  BY <1>2, <1>6, <1>7, SequenceOf
<1>9. set_disputes(t, h) = [t EXCEPT !.disputes = f]
  BY <1>1, <1>3 DEF set_disputes
<1>10. [t EXCEPT !.disputes = f] \in TrackerState /\ [t EXCEPT !.disputes = f].disputes = f
  BY <1>8 DEF TrackerState
<1> QED BY <1>1, <1>8, <1>9, <1>10

(* A tracker between two updates: nothing but candidates still to be included, and none
   of what is reported once. *)
Rested(t) ==
  /\ t \in TrackerState /\ t.disputes = <<>>
  /\ \A c \in Cores : \A i \in 1..Len(t.candidates[c]) : t.candidates[c][i].state \in Active

(* inject_block() of a block with its records: what every later lemma needs of
   it. *)
LEMMA InjectBlock ==
  ASSUME NEW t, Rested(t), NEW h, HeadType(h), NEW b \in Blocks, b.inherent
  PROVE  LET u == inject_block(t, h, b) IN
         /\ u \in TrackerState
         /\ u.current = [num |-> b.num, ts |-> b.ts] /\ u.previous = t.current
         /\ u.last_ts = IF is_fork(u) THEN t.last_ts ELSE t.current_ts
         /\ u.current_ts = IF is_fork(u) THEN t.current_ts ELSE b.ts
         /\ Len(u.disputes) = Len(Stated(h.disputes))
         /\ IF AnyIncluded(t, h) THEN u.previous_included = t.last_included /\ u.last_included = u.current
            ELSE u.previous_included = t.previous_included /\ u.last_included = t.last_included
         /\ u.last_backed = IF NoneBacked(h) THEN t.last_backed ELSE b.num
         /\ u.backing_type = "Sync" => t.backing_type = "Sync"
         /\ \A c \in Cores : Outline(t.candidates[c], h.backed[c], h, u.backing_type = "Sync", u.candidates[c])
<1>1. t \in TrackerState
  BY DEF Rested
<1>2. PICK r : r = set_relay_block(t, b)
  OBVIOUS
<1>3. /\ r \in TrackerState
      /\ r.candidates = t.candidates
      /\ r.last_backed = t.last_backed /\ r.backing_type = t.backing_type
      /\ r.last_included = t.last_included /\ r.previous_included = t.previous_included
      /\ r.current = [num |-> b.num, ts |-> b.ts] /\ r.previous = t.current
      /\ r.last_ts = IF is_fork(r) THEN t.last_ts ELSE t.current_ts
      /\ r.current_ts = IF is_fork(r) THEN t.current_ts ELSE b.ts
  BY <1>1, <1>2, SetRelayBlock
<1>4. PICK v : v = set_forks(r)
  OBVIOUS
<1>5. PICK forks \in Seq(ForkTracker) : v = [r EXCEPT !.relay_forks = forks] /\ v \in TrackerState /\ forks # <<>>
  BY <1>3, <1>4, SetForks
<1>6. PICK w : w = set_cores(v, b)
  OBVIOUS
<1>7. /\ w \in TrackerState
      /\ w.candidates = t.candidates /\ w.relay_forks = forks
      /\ w.last_backed = t.last_backed /\ w.backing_type = t.backing_type
      /\ w.last_included = t.last_included /\ w.previous_included = t.previous_included
      /\ w.current = r.current /\ w.previous = r.previous /\ w.last_ts = r.last_ts /\ w.current_ts = r.current_ts
  <2>1. b.assigned \in SUBSET Cores
    BY DEF Blocks
  <2> QED BY <1>3, <1>5, <1>6, <2>1 DEF set_cores, TrackerState
<1>8. PICK x : x = set_included_candidates(w, h, b)
  OBVIOUS
<1>9. /\ OnlyCandidates(w, x)
      /\ x.last_backed = w.last_backed /\ x.backing_type = w.backing_type
      /\ \A c \in Cores : x.candidates[c] = Marked(w.candidates[c], h, Availability(b, c))
      /\ IF AnyIncluded(w, h) THEN x.previous_included = w.last_included /\ x.last_included = w.current
         ELSE x.previous_included = w.previous_included /\ x.last_included = w.last_included
      /\ Len(x.relay_forks) = Len(w.relay_forks)
  BY <1>5, <1>7, <1>8, SetIncluded
<1>10. x \in TrackerState /\ x.relay_forks # <<>>
  <2>1. w.relay_forks # <<>> /\ w.relay_forks \in Seq(ForkTracker)
    BY <1>5, <1>7
  <2>2. x \in TrackerState
    BY <1>9 DEF OnlyCandidates
  <2>3. x.relay_forks \in Seq(ForkTracker)
    BY <2>2 DEF TrackerState
  <2> QED BY <1>9, <2>1, <2>2, <2>3
<1>11. PICK y : y = set_backed_candidates(x, h, b)
  OBVIOUS
<1>12. /\ OnlyCandidates(x, y)
       /\ y.last_included = x.last_included /\ y.previous_included = x.previous_included
       /\ y.last_backed = IF NoneBacked(h) THEN x.last_backed ELSE b.num
       /\ y.backing_type = "Sync" => x.backing_type = "Sync"
       /\ Extension(x, h, y)
  BY <1>10, <1>11, SetBacked
<1>13. PICK z : z = set_core_assignment(y, b)
  OBVIOUS
<1>14. y \in TrackerState
  BY <1>12 DEF OnlyCandidates
<1>15. /\ OnlyCandidates(y, z) /\ \A c \in Cores : LastChanged(y.candidates[c], z.candidates[c])
       /\ z.last_backed = y.last_backed /\ z.backing_type = y.backing_type
       /\ z.last_included = y.last_included /\ z.previous_included = y.previous_included
  BY <1>13, <1>14, SetAssignment
<1>16. z \in TrackerState
  BY <1>15 DEF OnlyCandidates
<1>17. PICK d : d = set_disputes(z, h)
  OBVIOUS
<1>18. d \in TrackerState /\ d = [z EXCEPT !.disputes = d.disputes] /\ Len(d.disputes) = Len(Stated(h.disputes))
  BY <1>16, <1>17, SetDisputes
<1>19. PICK e : e = set_hrmp_channels(d, b)
  OBVIOUS
<1>20. /\ e \in TrackerState /\ e.candidates = z.candidates /\ Len(e.disputes) = Len(Stated(h.disputes))
       /\ e.last_backed = z.last_backed /\ e.backing_type = z.backing_type
       /\ e.last_included = z.last_included /\ e.previous_included = z.previous_included
       /\ e.current = z.current /\ e.previous = z.previous /\ e.last_ts = z.last_ts /\ e.current_ts = z.current_ts
  <2>1. PICK ds : ds = d.disputes
    OBVIOUS
  <2>2. d = [z EXCEPT !.disputes = ds] /\ b.messages \in BOOLEAN
    BY <1>18, <2>1 DEF Blocks
  <2>3. e = [d EXCEPT !.has_hrmp_messages = b.messages]
    BY <1>19 DEF set_hrmp_channels
  <2> QED BY <1>16, <1>18, <2>2, <2>3 DEF TrackerState
<1>21. PICK f : f = set_pending_availability(e, b)
  OBVIOUS
<1>22. /\ OnlyCandidates(e, f) /\ \A c \in Cores : LastChanged(e.candidates[c], f.candidates[c])
       /\ f.last_backed = e.last_backed /\ f.backing_type = e.backing_type
       /\ f.last_included = e.last_included /\ f.previous_included = e.previous_included
  BY <1>20, <1>21, SetPending
<1>23. f \in TrackerState
  BY <1>22 DEF OnlyCandidates
<1>24. PICK u : u = set_dropped_candidates(f)
  OBVIOUS
<1>25. /\ OnlyCandidates(f, u) /\ \A c \in Cores : u.candidates[c] = Dropped(f.candidates[c])
       /\ u.last_backed = f.last_backed /\ u.backing_type = f.backing_type
       /\ u.last_included = f.last_included /\ u.previous_included = f.previous_included
  BY <1>23, <1>24, SetDropped
<1>26. inject_block(t, h, b) = u
  BY <1>2, <1>4, <1>6, <1>8, <1>11, <1>13, <1>17, <1>19, <1>21, <1>24 DEF inject_block
<1>27. ASSUME NEW c \in Cores
       PROVE  Outline(t.candidates[c], h.backed[c], h, u.backing_type = "Sync", u.candidates[c])
  <2>1. PICK s, back, sync, a : /\ s = t.candidates[c] /\ back = h.backed[c] /\ sync = (u.backing_type = "Sync")
                                /\ a = Availability(b, c)
    OBVIOUS
  <2>2. /\ s \in Seq(Entry) /\ back \in Seq(Nat \ {0}) /\ a \in [current : Int, max : Int]
        /\ \A i \in 1..Len(s) : s[i].state \in Active
    BY <2>1 DEF Rested, TrackerState, HeadType, Availability, Blocks
  <2>3. x.candidates[c] = Marked(s, h, a)
    BY <1>7, <1>9, <2>1
  <2>4. \/ y.candidates[c] = Marked(s, h, a) \o New(back)
        \/ y.candidates[c] = Append(Marked(s, h, a) \o New(back), Skipped) /\ back = <<>> /\ (sync => s = <<>>)
    <3>1. CASE y.candidates[c] = x.candidates[c] \o New(h.backed[c])
      BY <2>1, <2>3, <3>1
    <3>2. CASE /\ y.candidates[c] = Append(x.candidates[c] \o New(h.backed[c]), Skipped)
               /\ h.backed[c] = <<>>
               /\ y.backing_type = "Sync" => \A i \in DOMAIN x.candidates[c] : x.candidates[c][i].state = "Skipped"
      <4>1. ASSUME sync PROVE s = <<>>
        <5>1. y.backing_type = "Sync"
          BY <1>15, <1>20, <1>22, <1>25, <2>1, <4>1
        <5>2. SUFFICES ASSUME s # <<>> PROVE FALSE
          OBVIOUS
        <5>3. 1 \in 1..Len(s)
          BY <2>2, <5>2
        <5>4. /\ Marked(s, h, a) \in Seq(Entry) /\ Len(Marked(s, h, a)) = Len(s)
              /\ Marked(s, h, a)[1].state = IF Includes(h, s[1].candidate_hash) THEN "Included" ELSE s[1].state
          BY <2>2, <5>3, MarkedType
        <5>5. 1 \in DOMAIN x.candidates[c]
          BY <2>3, <5>3, <5>4
        <5>6. Marked(s, h, a)[1].state = "Skipped"
          BY <2>3, <3>2, <5>1, <5>5
        <5> QED BY <2>2, <5>3, <5>4, <5>6 DEF Active
      <4> QED BY <2>1, <2>3, <3>2, <4>1
    <3> QED BY <1>12, <3>1, <3>2 DEF Extension
  <2>5. Extended(s, back, h, sync, y.candidates[c], Active)
    BY <2>2, <2>4, Extends
  <2>6. Extended(s, back, h, sync, z.candidates[c], Active)
    BY <1>15, <2>2, <2>5, ExtendedStays
  <2>7. Extended(s, back, h, sync, f.candidates[c], Active)
    BY <1>20, <1>22, <2>2, <2>6, ExtendedStays
  <2> QED BY <1>25, <2>1, <2>2, <2>7, Outlined
<1>28. AnyIncluded(w, h) <=> AnyIncluded(t, h)
  BY <1>7 DEF AnyIncluded
<1>29. /\ u.current = r.current /\ u.previous = r.previous /\ u.last_ts = r.last_ts /\ u.current_ts = r.current_ts
       /\ Len(u.disputes) = Len(Stated(h.disputes)) /\ u \in TrackerState
  BY <1>7, <1>9, <1>12, <1>15, <1>20, <1>22, <1>25 DEF OnlyCandidates
<1>30. is_fork(u) <=> is_fork(r)
  BY <1>29 DEF is_fork
<1>31. /\ u.last_included = y.last_included /\ u.previous_included = y.previous_included
       /\ u.last_backed = y.last_backed /\ u.backing_type = y.backing_type
  BY <1>15, <1>20, <1>22, <1>25
<1>32. w.current = u.current
  BY <1>7, <1>29
<1>33. IF AnyIncluded(t, h) THEN u.previous_included = t.last_included /\ u.last_included = u.current
            ELSE u.previous_included = t.previous_included /\ u.last_included = t.last_included
  BY <1>7, <1>9, <1>12, <1>28, <1>31, <1>32
<1>34. u.last_backed = IF NoneBacked(h) THEN t.last_backed ELSE b.num
  BY <1>7, <1>9, <1>12, <1>31
<1>35. u.backing_type = "Sync" => t.backing_type = "Sync"
  BY <1>7, <1>9, <1>12, <1>31
<1> QED BY <1>3, <1>26, <1>27, <1>29, <1>30, <1>33, <1>34, <1>35
-----------------------------------------------------------------------------
(* progress(): the inclusions it counts and the events it appends. *)
Bucket == [sum : Int, max : Int, min : Int, num : Int]
Statistics ==
  [backed_count : Int, included_count : Int, skipped_slots : Int, slow_avail_count : Int, low_bitfields_count : Int,
   disputed : [Outcomes -> Int], last_skipped : Seq(Int), misbehaving_validators : Bucket, resolution_time : Bucket,
   block_times : Bucket, bitfields : Bucket, included_times : Bucket, backed_times : Bucket]

(* An event and what it tells of the tracker. *)
Events ==
  ({"NewSession", "CoreAssigned", "SlowBitfieldPropagation", "SlowAvailability", "SkippedSlot", "Backed",
    "PendingAvailability", "Included", "Dropped"} \X Int) \cup ({"Disputed"} \X Outcomes) \cup {<<"MessageQueues">>}
Says(t, e) ==
  /\ e[1] = "Dropped" => \E c \in Cores : \E i \in 1..Len(t.candidates[c]) :
                           t.candidates[c][i].state = "Dropped" /\ t.candidates[c][i].candidate_hash = e[2]
  /\ e[1] = "SkippedSlot" => e[2] \in Cores /\ \E i \in 1..Len(t.candidates[e[2]]) : t.candidates[e[2]][i].state = "Skipped"

(* What progress() is given and gives. *)
Report(r) ==
  /\ r = [stats |-> r.stats, metrics |-> r.metrics, events |-> r.events]
  /\ r.stats \in Statistics /\ Len(r.stats.last_skipped) <= LastSkipped
  /\ r.events \in Seq(Events)

Distance(t) == IF t.previous_included.num = Nothing THEN 0
               ELSE as_u16(saturating_sub(t.current.num, t.previous_included.num))

(* From r to q, n inclusions are counted, and neither block times nor disputes. *)
Counted(t, r, q, n) ==
  /\ Report(q)
  /\ q.stats.block_times = r.stats.block_times /\ q.stats.disputed = r.stats.disputed
  /\ q.stats.included_count = r.stats.included_count + n
  /\ n = 0 => q.stats.included_times = r.stats.included_times
  /\ n = 1 => q.stats.included_times.sum = r.stats.included_times.sum + Distance(t)
  /\ (\A i \in 1..Len(r.events) : Says(t, r.events[i])) => \A i \in 1..Len(q.events) : Says(t, q.events[i])

(* Nothing is counted by doing nothing. *)
LEMMA CountedNone ==
  ASSUME NEW t, NEW r, Report(r)
  PROVE  Counted(t, r, r, 0)
BY DEF Counted, Report, Statistics

(* What two notifications in a row count adds up. *)
LEMMA CountedBoth ==
  ASSUME NEW t, NEW r, NEW q, NEW p, NEW n \in Nat, NEW m \in Nat, Report(r), Counted(t, r, q, n), Counted(t, q, p, m)
  PROVE  Counted(t, r, p, n + m)
<1>1. r.stats.included_count \in Int
  BY DEF Report, Statistics
<1>2. p.stats.included_count = r.stats.included_count + (n + m)
  BY <1>1 DEF Counted
<1>3. n + m = 0 => n = 0 /\ m = 0
  OBVIOUS
<1>4. n + m = 1 => (n = 0 /\ m = 1) \/ (n = 1 /\ m = 0)
  OBVIOUS
<1> QED BY <1>2, <1>3, <1>4 DEF Counted

(* An event is added. *)
LEMMA EventAdded ==
  ASSUME NEW t, NEW ev \in Seq(Events), NEW e \in Events
  PROVE  /\ Append(ev, e) \in Seq(Events)
         /\ Says(t, e) /\ (\A i \in 1..Len(ev) : Says(t, ev[i]))
              => \A i \in 1..Len(Append(ev, e)) : Says(t, Append(ev, e)[i])
<1>1. /\ Append(ev, e) \in Seq(Events) /\ Len(Append(ev, e)) = Len(ev) + 1 /\ Append(ev, e)[Len(ev) + 1] = e
      /\ \A i \in 1..Len(ev) : Append(ev, e)[i] = ev[i]
  OBVIOUS
<1>2. \A i \in 1..Len(ev) + 1 : i \in 1..Len(ev) \/ i = Len(ev) + 1
  OBVIOUS
<1> QED BY <1>1, <1>2

(* Statistics that count none of these. *)
SameCounts(s, u) ==
  /\ u \in Statistics /\ Len(u.last_skipped) <= LastSkipped
  /\ u.block_times = s.block_times /\ u.disputed = s.disputed
  /\ u.included_count = s.included_count /\ u.included_times = s.included_times

(* A notification that counts no inclusion, no block and no dispute, with one
   event at most. *)
LEMMA ReportOf ==
  ASSUME NEW t, NEW r, Report(r), NEW u, SameCounts(r.stats, u), NEW m, NEW e \in Events, Says(t, e), NEW q,
         \/ q = [stats |-> u, metrics |-> m, events |-> r.events]
         \/ q = [stats |-> u, metrics |-> m, events |-> Append(r.events, e)]
  PROVE  Counted(t, r, q, 0)
<1>1. PICK ev : ev = r.events /\ ev \in Seq(Events)
  BY DEF Report
<1>2. Append(ev, e) \in Seq(Events)
      /\ ((\A i \in 1..Len(ev) : Says(t, ev[i])) => \A i \in 1..Len(Append(ev, e)) : Says(t, Append(ev, e)[i]))
  BY <1>1, EventAdded
<1>3. r.stats.included_count \in Int /\ u.included_count = r.stats.included_count + 0
  BY DEF Report, Statistics, SameCounts
<1>4. CASE q = [stats |-> u, metrics |-> m, events |-> ev]
  BY <1>1, <1>3, <1>4 DEF Counted, Report, SameCounts
<1>5. CASE q = [stats |-> u, metrics |-> m, events |-> Append(ev, e)]
  BY <1>1, <1>2, <1>3, <1>5 DEF Counted, Report, SameCounts
<1> QED BY <1>1, <1>4, <1>5

(* The same statistics have the same counts. *)
LEMMA SameCountsSelf ==
  ASSUME NEW r, Report(r)
  PROVE  SameCounts(r.stats, r.stats)
BY DEF Report, SameCounts

(* on_bitfields() counts no inclusion, block or dispute. *)
LEMMA OnBitfields ==
  ASSUME NEW s \in Statistics, Len(s.last_skipped) <= LastSkipped, NEW v \in Int, NEW low
  PROVE  SameCounts(s, on_bitfields(s, v, low))
<1>1. PICK b \in Bucket : b = update(s.bitfields, v)
  <2>1. s.bitfields \in Bucket
    BY DEF Statistics
  <2>2. update(s.bitfields, v) \in Bucket
    BY <2>1 DEF update, Bucket
  <2> QED BY <2>2
<1>2. PICK n \in Int : n = IF low THEN s.low_bitfields_count + 1 ELSE s.low_bitfields_count
  BY DEF Statistics
<1>3. on_bitfields(s, v, low) = [s EXCEPT !.bitfields = b, !.low_bitfields_count = n]
  BY <1>1, <1>2 DEF on_bitfields
<1> QED BY <1>3 DEF SameCounts, Statistics

(* Neither do on_slow_availability() and on_backed(). *)
LEMMA OnSlow ==
  ASSUME NEW s \in Statistics, Len(s.last_skipped) <= LastSkipped
  PROVE  SameCounts(s, on_slow_availability(s)) /\ SameCounts(s, on_backed(s))
<1>1. s.slow_avail_count + 1 \in Int /\ s.backed_count + 1 \in Int
  BY DEF Statistics
<1> QED BY <1>1 DEF SameCounts, Statistics, on_slow_availability, on_backed

(* Neither does on_skipped_slot(), and the list of skipped slots stays within
   its capacity. *)
LEMMA OnSkipped ==
  ASSUME NEW s \in Statistics, Len(s.last_skipped) <= LastSkipped, NEW v \in Int
  PROVE  SameCounts(s, on_skipped_slot(s, v))
<1>1. PICK old \in Seq(Int) : old = s.last_skipped /\ Len(old) <= LastSkipped
  BY DEF Statistics
<1>2. PICK kept : kept = IF Len(old) >= LastSkipped THEN Tail(old) ELSE old
  OBVIOUS
<1>3. kept \in Seq(Int) /\ Len(kept) < LastSkipped
  <2>1. CASE Len(old) >= LastSkipped
    <3>1. old # <<>>
      BY <2>1, LastSkippedAssumption
    <3>2. Tail(old) \in Seq(Int) /\ Len(Tail(old)) = Len(old) - 1
      BY <3>1
    <3> QED BY <1>1, <1>2, <2>1, <3>2, LastSkippedAssumption
  <2>2. CASE ~(Len(old) >= LastSkipped)
    <3>1. Len(old) \in Nat
      OBVIOUS
    <3> QED BY <1>2, <2>2, <3>1, LastSkippedAssumption
  <2> QED BY <2>1, <2>2
<1>4. Append(kept, v) \in Seq(Int) /\ Len(Append(kept, v)) <= LastSkipped
  <2>1. Append(kept, v) \in Seq(Int) /\ Len(Append(kept, v)) = Len(kept) + 1 /\ Len(kept) \in Nat
    BY <1>3
  <2> QED BY <1>3, <2>1, LastSkippedAssumption
<1>5. on_skipped_slot(s, v) = [s EXCEPT !.skipped_slots = s.skipped_slots + 1, !.last_skipped = Append(kept, v)]
  BY <1>1, <1>2 DEF on_skipped_slot
<1>6. s.skipped_slots + 1 \in Int
  BY DEF Statistics
<1> QED BY <1>4, <1>5, <1>6 DEF SameCounts, Statistics

(* A sample is added to the sum when there is one. *)
LEMMA UpdateIfSome ==
  ASSUME NEW b \in Bucket, NEW v \in Int
  PROVE  updateIfSome(b, v) \in Bucket /\ updateIfSome(b, v).sum = b.sum + (IF v = Nothing THEN 0 ELSE v)
BY DEF updateIfSome, update, Bucket

(* on_included() counts one inclusion and adds the distance from the previous
   one. *)
LEMMA OnIncluded ==
  ASSUME NEW s \in Statistics, Len(s.last_skipped) <= LastSkipped,
         NEW number \in Int, NEW previous \in Int, NEW backedIn \in Int
  PROVE  LET u == on_included(s, number, previous, backedIn) IN
         /\ u \in Statistics /\ Len(u.last_skipped) <= LastSkipped
         /\ u.block_times = s.block_times /\ u.disputed = s.disputed
         /\ u.included_count = s.included_count + 1
         /\ u.included_times.sum = s.included_times.sum +
              (IF previous = Nothing THEN 0 ELSE as_u16(saturating_sub(number, previous)))
<1>1. as_u16(saturating_sub(number, previous)) \in Nat /\ as_u16(backedIn) \in Int
  BY DEF as_u16, saturating_sub
<1>2. PICK time \in Int : time = IF previous = Nothing THEN Nothing ELSE as_u16(saturating_sub(number, previous))
  BY <1>1 DEF Nothing
<1>3. PICK inTime \in Int : inTime = IF backedIn = Nothing THEN Nothing ELSE as_u16(backedIn)
  BY <1>1 DEF Nothing
<1>4. s.included_times \in Bucket /\ s.backed_times \in Bucket /\ s.included_count + 1 \in Int
  BY DEF Statistics
<1>5. PICK a, b : a = updateIfSome(s.included_times, time) /\ b = updateIfSome(s.backed_times, inTime)
  OBVIOUS
<1>6. a \in Bucket /\ b \in Bucket /\ a.sum = s.included_times.sum + (IF time = Nothing THEN 0 ELSE time)
  BY <1>4, <1>5, UpdateIfSome
<1>7. on_included(s, number, previous, backedIn)
        = [s EXCEPT !.included_count = s.included_count + 1, !.included_times = a, !.backed_times = b]
  BY <1>2, <1>3, <1>5 DEF on_included
<1>8. (IF time = Nothing THEN 0 ELSE time)
        = IF previous = Nothing THEN 0 ELSE as_u16(saturating_sub(number, previous))
  BY <1>1, <1>2 DEF Nothing
<1>9. PICK u : u = [s EXCEPT !.included_count = s.included_count + 1, !.included_times = a, !.backed_times = b]
  OBVIOUS
<1>10. /\ u \in Statistics /\ u.last_skipped = s.last_skipped /\ u.block_times = s.block_times
       /\ u.disputed = s.disputed /\ u.included_count = s.included_count + 1 /\ u.included_times = a
  BY <1>4, <1>6, <1>9 DEF Statistics
<1> QED BY <1>6, <1>7, <1>8, <1>9, <1>10

(* The events of numbers. *)
Numbered == {"NewSession", "CoreAssigned", "SlowBitfieldPropagation", "SlowAvailability", "SkippedSlot", "Backed",
             "PendingAvailability", "Included", "Dropped"}
(* The parts of an event with a number. *)
LEMMA NumberedEvents ==
  ASSUME NEW kind \in Numbered, NEW n \in Int
  PROVE  <<kind, n>> \in Events /\ <<kind, n>>[1] = kind /\ <<kind, n>>[2] = n
BY DEF Numbered, Events

(* Events that say nothing of the tracker's candidates. *)
LEMMA OtherEvents ==
  ASSUME NEW kind \in Numbered \ {"SkippedSlot", "Dropped"}, NEW n \in Int, NEW t
  PROVE  <<kind, n>> \in Events /\ Says(t, <<kind, n>>)
<1>1. <<kind, n>> \in Events /\ <<kind, n>>[1] = kind
  BY NumberedEvents
<1> QED BY <1>1 DEF Says

(* notify_new_session() counts nothing. *)
LEMMA NotifySession ==
  ASSUME NEW t \in TrackerState, NEW r, Report(r)
  PROVE  Counted(t, r, notify_new_session(t, r), 0)
<1>1. CASE t.new_session = Nothing
  BY <1>1, CountedNone DEF notify_new_session
<1>2. CASE t.new_session # Nothing
  <2>1. t.new_session \in Int /\ "NewSession" \in Numbered \ {"SkippedSlot", "Dropped"}
    BY DEF TrackerState, Numbered
  <2>2. <<"NewSession", t.new_session>> \in Events /\ Says(t, <<"NewSession", t.new_session>>)
    BY <2>1, OtherEvents
  <2>3. notify_new_session(t, r) = [stats |-> r.stats, metrics |-> r.metrics, events |-> Append(r.events, <<"NewSession", t.new_session>>)]
    BY <1>2 DEF notify_new_session, Event
  <2> QED BY <2>2, <2>3, ReportOf, SameCountsSelf
<1> QED BY <1>1, <1>2

(* notify_core_assignment() of a core counts nothing. *)
LEMMA NotifyAssignment ==
  ASSUME NEW t \in TrackerState, NEW r, Report(r), NEW c \in Cores
  PROVE  Counted(t, r, AssignmentOf(t, r, c), 0)
<1>1. CASE c \notin t.cores \/ current_candidate(t, c) = Skipped
  BY <1>1, CountedNone DEF AssignmentOf
<1>2. CASE ~(c \notin t.cores \/ current_candidate(t, c) = Skipped)
  <2>1. c \in Int /\ "CoreAssigned" \in Numbered \ {"SkippedSlot", "Dropped"}
    BY TrackerAssumption DEF Cores, Numbered
  <2>2. <<"CoreAssigned", c>> \in Events /\ Says(t, <<"CoreAssigned", c>>)
    BY <2>1, OtherEvents
  <2>3. AssignmentOf(t, r, c) = [stats |-> r.stats, metrics |-> r.metrics, events |-> Append(r.events, <<"CoreAssigned", c>>)]
    BY <1>2 DEF AssignmentOf, Event
  <2> QED BY <2>2, <2>3, ReportOf, SameCountsSelf
<1> QED BY <1>1, <1>2

(* The current candidate of a core is an entry. *)
LEMMA CurrentType ==
  ASSUME NEW t \in TrackerState, NEW c \in Cores
  PROVE  current_candidate(t, c) \in Entry
<1>1. t.candidates[c] \in Seq(Entry)
  BY DEF TrackerState
<1>2. t.candidates[c] # <<>> => t.candidates[c][Len(t.candidates[c])] \in Entry
  BY <1>1
<1> QED BY <1>2, SkippedType DEF current_candidate, LastOf

(* notify_bitfield_propagation() of a core counts nothing. *)
LEMMA NotifyBitfields ==
  ASSUME NEW t \in TrackerState, NEW r, Report(r), NEW c \in Cores
  PROVE  Counted(t, r, BitfieldsOf(t, r, c), 0)
<1>1. PICK a : a = current_candidate(t, c).availability
  OBVIOUS
<1>2. a.current \in Int
  BY <1>1, CurrentType DEF Entry
<1>3. PICK low : low = is_slow(a)
  OBVIOUS
<1>4. PICK u, m : u = on_bitfields(r.stats, a.current, low) /\ m = metrics_on_bitfields(r.metrics, a.current, low)
  OBVIOUS
<1>5. SameCounts(r.stats, u)
  BY <1>2, <1>4, OnBitfields DEF Report
<1>6. PICK e : e = <<"SlowBitfieldPropagation", a.current>>
  OBVIOUS
<1>7. e \in Events /\ Says(t, e)
  <2>1. "SlowBitfieldPropagation" \in Numbered \ {"SkippedSlot", "Dropped"}
    BY DEF Numbered
  <2> QED BY <1>2, <1>6, <2>1, OtherEvents
<1>8. PICK q, p : /\ q = [stats |-> u, metrics |-> m, events |-> r.events]
                  /\ p = [stats |-> u, metrics |-> m, events |-> Append(r.events, e)]
  OBVIOUS
<1>9. BitfieldsOf(t, r, c) \in {r, q, p}
  BY <1>1, <1>3, <1>4, <1>6, <1>8 DEF BitfieldsOf
<1>10. Counted(t, r, q, 0)
  BY <1>5, <1>7, <1>8, ReportOf
<1>11. Counted(t, r, p, 0)
  BY <1>5, <1>7, <1>8, ReportOf
<1> QED BY <1>9, <1>10, <1>11, CountedNone

(* A skipped slot is announced for a core with a skipped entry. *)
LEMMA NotifySkipped ==
  ASSUME NEW t \in TrackerState, NEW r, Report(r), NEW c \in Cores, NEW i \in 1..Len(t.candidates[c]),
         t.candidates[c][i].state = "Skipped"
  PROVE  Counted(t, r, notify_skipped_slot(t, r, c), 0)
<1>1. r.stats \in Statistics /\ Len(r.stats.last_skipped) <= LastSkipped /\ t.current.num \in Int
  BY DEF Report, TrackerState, At
<1>2. PICK u, m : u = on_skipped_slot(r.stats, t.current.num) /\ m = metrics_on_skipped_slot(r.metrics)
  OBVIOUS
<1>3. SameCounts(r.stats, u)
  BY <1>1, <1>2, OnSkipped
<1>4. PICK e : e = <<"SkippedSlot", c>>
  OBVIOUS
<1>5. e \in Events /\ e[1] = "SkippedSlot" /\ e[2] = c
  <2>1. c \in Int /\ "SkippedSlot" \in Numbered
    BY TrackerAssumption DEF Cores, Numbered
  <2> QED BY <1>4, <2>1, NumberedEvents
<1>6. Says(t, e)
  BY <1>5 DEF Says
<1>7. notify_skipped_slot(t, r, c) = [stats |-> u, metrics |-> m, events |-> Append(r.events, e)]
  BY <1>2, <1>4 DEF notify_skipped_slot
<1> QED BY <1>3, <1>5, <1>6, <1>7, ReportOf

(* notify_backed() counts no inclusion, block or dispute. *)
LEMMA NotifyBacked ==
  ASSUME NEW t \in TrackerState, NEW r, Report(r), NEW e \in Entry
  PROVE  Counted(t, r, notify_backed(r, e), 0)
<1>1. r.stats \in Statistics /\ Len(r.stats.last_skipped) <= LastSkipped
  BY DEF Report
<1>2. PICK u, m, x : u = on_backed(r.stats) /\ m = metrics_on_backed(r.metrics) /\ x = <<"Backed", e.candidate_hash>>
  OBVIOUS
<1>3. SameCounts(r.stats, u)
  BY <1>1, <1>2, OnSlow
<1>4. x \in Events /\ Says(t, x)
  <2>1. e.candidate_hash \in Int /\ "Backed" \in Numbered \ {"SkippedSlot", "Dropped"}
    BY DEF Entry, Numbered
  <2> QED BY <1>2, <2>1, OtherEvents
<1>5. notify_backed(r, e) = [stats |-> u, metrics |-> m, events |-> Append(r.events, x)]
  BY <1>2 DEF notify_backed
<1> QED BY <1>3, <1>4, <1>5, ReportOf

(* Neither does notify_pending_availability(). *)
LEMMA NotifyPending ==
  ASSUME NEW t \in TrackerState, NEW r, Report(r), NEW c \in Cores, NEW e \in Entry
  PROVE  Counted(t, r, notify_pending_availability(t, r, c, e), 0)
<1>1. PICK x, y : x = <<"PendingAvailability", e.candidate_hash>> /\ y = <<"SlowAvailability", e.availability.current>>
  OBVIOUS
<1>2. x \in Events /\ Says(t, x) /\ y \in Events /\ Says(t, y)
  <2>1. e.candidate_hash \in Int /\ e.availability.current \in Int
    BY DEF Entry
  <2>2. {"PendingAvailability", "SlowAvailability"} \subseteq Numbered \ {"SkippedSlot", "Dropped"}
    BY DEF Numbered
  <2> QED BY <1>1, <2>1, <2>2, OtherEvents
<1>3. PICK q : q = Event(r, x)
  OBVIOUS
<1>4. q = [stats |-> r.stats, metrics |-> r.metrics, events |-> Append(r.events, x)]
  BY <1>3 DEF Event
<1>5. Counted(t, r, q, 0)
  BY <1>2, <1>4, ReportOf, SameCountsSelf
<1>6. Report(q)
  BY <1>5 DEF Counted
<1>7. PICK u, m : u = on_slow_availability(q.stats) /\ m = metrics_on_slow_availability(q.metrics)
  OBVIOUS
<1>8. SameCounts(q.stats, u)
  BY <1>6, <1>7, OnSlow DEF Report
<1>9. PICK p : p = [stats |-> u, metrics |-> m, events |-> Append(q.events, y)]
  OBVIOUS
<1>10. Counted(t, q, p, 0)
  BY <1>2, <1>6, <1>8, <1>9, ReportOf
<1>11. Counted(t, r, p, 0 + 0)
  BY <1>5, <1>6, <1>10, CountedBoth
<1>12. notify_pending_availability(t, r, c, e) \in {q, p}
  BY <1>1, <1>3, <1>7, <1>9 DEF notify_pending_availability
<1> QED BY <1>5, <1>11, <1>12

(* notify_included() counts one inclusion. *)
LEMMA NotifyIncluded ==
  ASSUME NEW t \in TrackerState, NEW r, Report(r), NEW e \in Entry
  PROVE  Counted(t, r, notify_included(t, r, e), 1)
<1>1. PICK backedIn : backedIn = candidate_backed_in(e.candidate_hash)
  OBVIOUS
<1>2. t.current.num \in Int /\ t.previous_included.num \in Int /\ backedIn \in Int
  <2>1. t.current.num \in Int /\ t.previous_included.num \in Int
    BY DEF TrackerState, At
  <2>2. backedIn \in Int
    BY <1>1 DEF candidate_backed_in, saturating_sub, Entry
  <2> QED BY <2>1, <2>2
<1>3. r.stats \in Statistics /\ Len(r.stats.last_skipped) <= LastSkipped /\ r.events \in Seq(Events)
  BY DEF Report
<1>4. PICK u : u = on_included(r.stats, t.current.num, t.previous_included.num, backedIn)
  OBVIOUS
<1>5. /\ u \in Statistics /\ Len(u.last_skipped) <= LastSkipped
      /\ u.block_times = r.stats.block_times /\ u.disputed = r.stats.disputed
      /\ u.included_count = r.stats.included_count + 1
      /\ u.included_times.sum = r.stats.included_times.sum + Distance(t)
  BY <1>2, <1>3, <1>4, OnIncluded DEF Distance
<1>6. PICK m : m = metrics_on_included(r.metrics, t.current.num, t.previous_included.num, backedIn,
                                       time_diff(t.current.ts, t.previous_included.ts))
  OBVIOUS
<1>7. PICK x : x = <<"Included", e.candidate_hash>>
  OBVIOUS
<1>8. x \in Events /\ Says(t, x)
  <2>1. e.candidate_hash \in Int /\ "Included" \in Numbered \ {"SkippedSlot", "Dropped"}
    BY DEF Entry, Numbered
  <2> QED BY <1>7, <2>1, OtherEvents
<1>9. PICK q : q = [stats |-> u, metrics |-> m, events |-> Append(r.events, x)]
  OBVIOUS
<1>10. notify_included(t, r, e) = q
  BY <1>1, <1>4, <1>6, <1>7, <1>9 DEF notify_included
<1>11. Append(r.events, x) \in Seq(Events)
      /\ ((\A k \in 1..Len(r.events) : Says(t, r.events[k])) => \A k \in 1..Len(Append(r.events, x)) : Says(t, Append(r.events, x)[k]))
  BY <1>3, <1>8, EventAdded
<1>12. q.stats = u /\ q.metrics = m /\ q.events = Append(r.events, x)
  BY <1>9
<1>13. Report(q)
  BY <1>5, <1>9, <1>11, <1>12 DEF Report
<1>14. Counted(t, r, q, 1)
  BY <1>5, <1>11, <1>12, <1>13 DEF Counted
<1> QED BY <1>10, <1>14

(* Of an entry, an inclusion is counted exactly when it is included. *)
LEMMA NotifyCandidate ==
  ASSUME NEW t \in TrackerState, NEW r, Report(r), NEW c \in Cores, NEW i \in 1..Len(t.candidates[c])
  PROVE  LET e == t.candidates[c][i] IN
         Counted(t, r, notify_candidate(t, r, c, e), IF e.state = "Included" THEN 1 ELSE 0)
<1>1. PICK e \in Entry : e = t.candidates[c][i]
  <2>1. t.candidates[c] \in Seq(Entry)
    BY DEF TrackerState
  <2> QED BY <2>1
<1>2. CASE e.state = "Skipped"
  BY <1>1, <1>2, NotifySkipped DEF notify_candidate
<1>3. CASE e.state = "Backed"
  BY <1>1, <1>3, NotifyBacked DEF notify_candidate
<1>4. CASE e.state = "PendingAvailability"
  BY <1>1, <1>4, NotifyPending DEF notify_candidate
<1>5. CASE e.state = "Included"
  BY <1>1, <1>5, NotifyIncluded DEF notify_candidate
<1>6. CASE e.state = "Dropped"
  <2>1. PICK x : x = <<"Dropped", e.candidate_hash>>
    OBVIOUS
  <2>2. x \in Events /\ x[1] = "Dropped" /\ x[2] = e.candidate_hash
    <3>1. e.candidate_hash \in Int /\ "Dropped" \in Numbered
      BY DEF Entry, Numbered
    <3> QED BY <2>1, <3>1, NumberedEvents
  <2>3. Says(t, x)
    BY <1>1, <1>6, <2>2 DEF Says
  <2>4. notify_candidate(t, r, c, e) = [stats |-> r.stats, metrics |-> r.metrics, events |-> Append(r.events, x)]
    BY <1>6, <2>1 DEF notify_candidate, Event
  <2> QED BY <1>1, <1>6, <2>2, <2>3, <2>4, ReportOf, SameCountsSelf
<1> QED BY <1>1, <1>2, <1>3, <1>4, <1>5, <1>6 DEF Entry, States

(* The candidates of a core in turn. *)
LEMMA CandidatesInTurn ==
  ASSUME NEW t, NEW c, Len(t.candidates[c]) \in Nat, NEW r
  PROVE  \E g : /\ g[0] = r /\ CandidatesOf(t, r, c) = g[Len(t.candidates[c])]
                /\ \A i \in 1..Len(t.candidates[c]) : g[i] = notify_candidate(t, g[i - 1], c, t.candidates[c][i])
<1> DEFINE n == Len(t.candidates[c])
           Good(g, k) == g = [i \in 0..k |-> IF i = 0 THEN r ELSE notify_candidate(t, g[i - 1], c, t.candidates[c][i])]
           Bad == {k \in Nat : ~ \E g : Good(g, k)}
<1>1. Bad = {}
  <2>1. SUFFICES ASSUME Bad # {} PROVE FALSE
    OBVIOUS
  <2>2. PICK k \in Bad : \A m \in Bad : k <= m
    BY <2>1, LowestExists
  <2>3. CASE k = 0
    <3>1. Good([i \in 0..0 |-> r], 0)
      OBVIOUS
    <3> QED BY <3>1, <2>3, <2>2
  <2>4. CASE k # 0
    <3>1. k - 1 \in Nat /\ k - 1 \notin Bad
      <4>1. k \in Nat /\ k - 1 \in Nat /\ ~(k <= k - 1)
        BY <2>2, <2>4
      <4> QED BY <2>2, <4>1
    <3>2. PICK g : Good(g, k - 1)
      BY <3>1
    <3> DEFINE h == [i \in 0..k |-> IF i = k THEN notify_candidate(t, g[k - 1], c, t.candidates[c][k]) ELSE g[i]]
    <3>3. ASSUME NEW i \in 0..k
          PROVE  h[i] = IF i = 0 THEN r ELSE notify_candidate(t, h[i - 1], c, t.candidates[c][i])
      BY <2>2, <2>4, <3>1, <3>2
    <3>4. Good(h, k)
      BY <3>3
    <3> QED BY <2>2, <3>4
  <2> QED BY <2>3, <2>4
<1>2. \E g : Good(g, n)
  BY <1>1
<1>3. CandidatesOf(t, r, c) = (CHOOSE g : Good(g, n))[n]
  BY DEF CandidatesOf, Iterate
<1>4. PICK g : Good(g, n) /\ CandidatesOf(t, r, c) = g[n]
  BY <1>2, <1>3
<1>5. \A i \in 0..n : g[i] = IF i = 0 THEN r ELSE notify_candidate(t, g[i - 1], c, t.candidates[c][i])
  BY <1>4, Zenon
<1>6. g[0] = r /\ \A i \in 1..n : g[i] = notify_candidate(t, g[i - 1], c, t.candidates[c][i])
  BY <1>5
<1> QED BY <1>4, <1>6

(* The cores in turn. *)
LEMMA AssignmentsInTurn ==
  ASSUME NEW t, NEW r
  PROVE  \E g : /\ g[0] = r /\ notify_core_assignment(t, r) = g[NumCores]
                /\ \A i \in 1..NumCores : g[i] = AssignmentOf(t, g[i - 1], i - 1)
<1> DEFINE n == NumCores
           Good(g, k) == g = [i \in 0..k |-> IF i = 0 THEN r ELSE AssignmentOf(t, g[i - 1], i - 1)]
           Bad == {k \in Nat : ~ \E g : Good(g, k)}
<1>1. Bad = {}
  <2>1. SUFFICES ASSUME Bad # {} PROVE FALSE
    OBVIOUS
  <2>2. PICK k \in Bad : \A m \in Bad : k <= m
    BY <2>1, LowestExists
  <2>3. CASE k = 0
    <3>1. Good([i \in 0..0 |-> r], 0)
      OBVIOUS
    <3> QED BY <3>1, <2>3, <2>2
  <2>4. CASE k # 0
    <3>1. k - 1 \in Nat /\ k - 1 \notin Bad
      <4>1. k \in Nat /\ k - 1 \in Nat /\ ~(k <= k - 1)
        BY <2>2, <2>4
      <4> QED BY <2>2, <4>1
    <3>2. PICK g : Good(g, k - 1)
      BY <3>1
    <3> DEFINE h == [i \in 0..k |-> IF i = k THEN AssignmentOf(t, g[k - 1], k - 1) ELSE g[i]]
    <3>3. ASSUME NEW i \in 0..k
          PROVE  h[i] = IF i = 0 THEN r ELSE AssignmentOf(t, h[i - 1], i - 1)
      BY <2>2, <2>4, <3>1, <3>2
    <3>4. Good(h, k)
      BY <3>3
    <3> QED BY <2>2, <3>4
  <2> QED BY <2>3, <2>4
<1>2. NumCores \in Nat /\ \E g : Good(g, n)
  BY <1>1, TrackerAssumption
<1>3. notify_core_assignment(t, r) = (CHOOSE g : Good(g, n))[n]
  BY DEF notify_core_assignment, EachCore, Iterate
<1>4. PICK g : Good(g, n) /\ notify_core_assignment(t, r) = g[n]
  BY <1>2, <1>3
<1>5. \A i \in 0..n : g[i] = IF i = 0 THEN r ELSE AssignmentOf(t, g[i - 1], i - 1)
  BY <1>4, Zenon
<1>6. g[0] = r /\ \A i \in 1..n : g[i] = AssignmentOf(t, g[i - 1], i - 1)
  BY <1>2, <1>5
<1> QED BY <1>4, <1>6

(* The loop over the cores, unfolded: bitfields. *)
LEMMA BitfieldsInTurn ==
  ASSUME NEW t, NEW r
  PROVE  \E g : /\ g[0] = r /\ notify_bitfield_propagation(t, r) = g[NumCores]
                /\ \A i \in 1..NumCores : g[i] = BitfieldsOf(t, g[i - 1], i - 1)
<1> DEFINE n == NumCores
           Good(g, k) == g = [i \in 0..k |-> IF i = 0 THEN r ELSE BitfieldsOf(t, g[i - 1], i - 1)]
           Bad == {k \in Nat : ~ \E g : Good(g, k)}
<1>1. Bad = {}
  <2>1. SUFFICES ASSUME Bad # {} PROVE FALSE
    OBVIOUS
  <2>2. PICK k \in Bad : \A m \in Bad : k <= m
    BY <2>1, LowestExists
  <2>3. CASE k = 0
    <3>1. Good([i \in 0..0 |-> r], 0)
      OBVIOUS
    <3> QED BY <3>1, <2>3, <2>2
  <2>4. CASE k # 0
    <3>1. k - 1 \in Nat /\ k - 1 \notin Bad
      <4>1. k \in Nat /\ k - 1 \in Nat /\ ~(k <= k - 1)
        BY <2>2, <2>4
      <4> QED BY <2>2, <4>1
    <3>2. PICK g : Good(g, k - 1)
      BY <3>1
    <3> DEFINE h == [i \in 0..k |-> IF i = k THEN BitfieldsOf(t, g[k - 1], k - 1) ELSE g[i]]
    <3>3. ASSUME NEW i \in 0..k
          PROVE  h[i] = IF i = 0 THEN r ELSE BitfieldsOf(t, h[i - 1], i - 1)
      BY <2>2, <2>4, <3>1, <3>2
    <3>4. Good(h, k)
      BY <3>3
    <3> QED BY <2>2, <3>4
  <2> QED BY <2>3, <2>4
<1>2. NumCores \in Nat /\ \E g : Good(g, n)
  BY <1>1, TrackerAssumption
<1>3. notify_bitfield_propagation(t, r) = (CHOOSE g : Good(g, n))[n]
  BY DEF notify_bitfield_propagation, EachCore, Iterate
<1>4. PICK g : Good(g, n) /\ notify_bitfield_propagation(t, r) = g[n]
  BY <1>2, <1>3
<1>5. \A i \in 0..n : g[i] = IF i = 0 THEN r ELSE BitfieldsOf(t, g[i - 1], i - 1)
  BY <1>4, Zenon
<1>6. g[0] = r /\ \A i \in 1..n : g[i] = BitfieldsOf(t, g[i - 1], i - 1)
  BY <1>2, <1>5
<1> QED BY <1>4, <1>6

(* The loop over the cores, unfolded: candidates. *)
LEMMA CoresInTurn ==
  ASSUME NEW t, NEW r
  PROVE  \E g : /\ g[0] = r /\ notify_candidate_state(t, r) = g[NumCores]
                /\ \A i \in 1..NumCores : g[i] = CandidatesOf(t, g[i - 1], i - 1)
<1> DEFINE n == NumCores
           Good(g, k) == g = [i \in 0..k |-> IF i = 0 THEN r ELSE CandidatesOf(t, g[i - 1], i - 1)]
           Bad == {k \in Nat : ~ \E g : Good(g, k)}
<1>1. Bad = {}
  <2>1. SUFFICES ASSUME Bad # {} PROVE FALSE
    OBVIOUS
  <2>2. PICK k \in Bad : \A m \in Bad : k <= m
    BY <2>1, LowestExists
  <2>3. CASE k = 0
    <3>1. Good([i \in 0..0 |-> r], 0)
      OBVIOUS
    <3> QED BY <3>1, <2>3, <2>2
  <2>4. CASE k # 0
    <3>1. k - 1 \in Nat /\ k - 1 \notin Bad
      <4>1. k \in Nat /\ k - 1 \in Nat /\ ~(k <= k - 1)
        BY <2>2, <2>4
      <4> QED BY <2>2, <4>1
    <3>2. PICK g : Good(g, k - 1)
      BY <3>1
    <3> DEFINE h == [i \in 0..k |-> IF i = k THEN CandidatesOf(t, g[k - 1], k - 1) ELSE g[i]]
    <3>3. ASSUME NEW i \in 0..k
          PROVE  h[i] = IF i = 0 THEN r ELSE CandidatesOf(t, h[i - 1], i - 1)
      BY <2>2, <2>4, <3>1, <3>2
    <3>4. Good(h, k)
      BY <3>3
    <3> QED BY <2>2, <3>4
  <2> QED BY <2>3, <2>4
<1>2. NumCores \in Nat /\ \E g : Good(g, n)
  BY <1>1, TrackerAssumption
<1>3. notify_candidate_state(t, r) = (CHOOSE g : Good(g, n))[n]
  BY DEF notify_candidate_state, EachCore, Iterate
<1>4. PICK g : Good(g, n) /\ notify_candidate_state(t, r) = g[n]
  BY <1>2, <1>3
<1>5. \A i \in 0..n : g[i] = IF i = 0 THEN r ELSE CandidatesOf(t, g[i - 1], i - 1)
  BY <1>4, Zenon
<1>6. g[0] = r /\ \A i \in 1..n : g[i] = CandidatesOf(t, g[i - 1], i - 1)
  BY <1>2, <1>5
<1> QED BY <1>4, <1>6

(* The disputes in turn. *)
LEMMA DisputesInTurn ==
  ASSUME NEW t, ~is_fork(t), Len(t.disputes) \in Nat, NEW r
  PROVE  \E g : /\ g[0] = r /\ notify_disputes(t, r) = g[Len(t.disputes)]
                /\ \A i \in 1..Len(t.disputes) : g[i] = notify_dispute(g[i - 1], t.disputes[i])
<1> DEFINE n == Len(t.disputes)
           Good(g, k) == g = [i \in 0..k |-> IF i = 0 THEN r ELSE notify_dispute(g[i - 1], t.disputes[i])]
           Bad == {k \in Nat : ~ \E g : Good(g, k)}
<1>1. Bad = {}
  <2>1. SUFFICES ASSUME Bad # {} PROVE FALSE
    OBVIOUS
  <2>2. PICK k \in Bad : \A m \in Bad : k <= m
    BY <2>1, LowestExists
  <2>3. CASE k = 0
    <3>1. Good([i \in 0..0 |-> r], 0)
      OBVIOUS
    <3> QED BY <3>1, <2>3, <2>2
  <2>4. CASE k # 0
    <3>1. k - 1 \in Nat /\ k - 1 \notin Bad
      <4>1. k \in Nat /\ k - 1 \in Nat /\ ~(k <= k - 1)
        BY <2>2, <2>4
      <4> QED BY <2>2, <4>1
    <3>2. PICK g : Good(g, k - 1)
      BY <3>1
    <3> DEFINE h == [i \in 0..k |-> IF i = k THEN notify_dispute(g[k - 1], t.disputes[k]) ELSE g[i]]
    <3>3. ASSUME NEW i \in 0..k
          PROVE  h[i] = IF i = 0 THEN r ELSE notify_dispute(h[i - 1], t.disputes[i])
      BY <2>2, <2>4, <3>1, <3>2
    <3>4. Good(h, k)
      BY <3>3
    <3> QED BY <2>2, <3>4
  <2> QED BY <2>3, <2>4
<1>2. \E g : Good(g, n)
  BY <1>1
<1>3. notify_disputes(t, r) = (CHOOSE g : Good(g, n))[n]
  BY DEF notify_disputes, Iterate
<1>4. PICK g : Good(g, n) /\ notify_disputes(t, r) = g[n]
  BY <1>2, <1>3
<1>5. \A i \in 0..n : g[i] = IF i = 0 THEN r ELSE notify_dispute(g[i - 1], t.disputes[i])
  BY <1>4, Zenon
<1>6. g[0] = r /\ \A i \in 1..n : g[i] = notify_dispute(g[i - 1], t.disputes[i])
  BY <1>5
<1> QED BY <1>4, <1>6

(* An induction from 0 to n: the steps of a loop. *)
LEMMA UpTo ==
  ASSUME NEW n \in Nat, NEW S, 0 \in S, \A i \in 1..n : i - 1 \in S => i \in S
  PROVE  \A i \in 0..n : i \in S
<1>1. SUFFICES ASSUME NEW B, B = {i \in 0..n : i \notin S}, B # {} PROVE FALSE
  OBVIOUS
<1>2. PICK i \in B : \A j \in B : i <= j
  <2>1. B \subseteq Nat
    BY <1>1
  <2> QED BY <1>1, <2>1, LowestExists
<1>3. i \in 1..n /\ i - 1 \in 0..n /\ ~(i <= i - 1)
  BY <1>1, <1>2
<1>4. i - 1 \in S
  BY <1>1, <1>2, <1>3
<1> QED BY <1>1, <1>3, <1>4
-----------------------------------------------------------------------------
(* The loops over the entries of a core and over the cores. *)
IncludedIn(s, n) == \E i \in 1..n : s[i].state = "Included"
OnceIncluded(s) == \A i, j \in 1..Len(s) : s[i].state = "Included" /\ s[j].state = "Included" => i = j

(* Of a core, one inclusion is counted when one of its entries is included. *)
LEMMA NotifyCandidates ==
  ASSUME NEW t \in TrackerState, NEW r, Report(r), NEW c \in Cores, OnceIncluded(t.candidates[c])
  PROVE  Counted(t, r, CandidatesOf(t, r, c),
                 IF IncludedIn(t.candidates[c], Len(t.candidates[c])) THEN 1 ELSE 0)
<1>1. PICK s \in Seq(Entry), n \in Nat : s = t.candidates[c] /\ n = Len(s)
  <2>1. t.candidates[c] \in Seq(Entry)
    BY DEF TrackerState
  <2> QED BY <2>1
<1>2. PICK g : /\ g[0] = r /\ CandidatesOf(t, r, c) = g[n]
               /\ \A i \in 1..n : g[i] = notify_candidate(t, g[i - 1], c, s[i])
  BY <1>1, CandidatesInTurn
<1>3. PICK S : S = {i \in 0..n : Counted(t, r, g[i], IF IncludedIn(s, i) THEN 1 ELSE 0)}
  OBVIOUS
<1>4. 0 \in S
  <2>1. ~IncludedIn(s, 0)
    BY DEF IncludedIn
  <2> QED BY <1>2, <1>3, <2>1, CountedNone
<1>5. ASSUME NEW i \in 1..n, i - 1 \in S PROVE i \in S
  <2>1. PICK m \in {0, 1} : m = (IF IncludedIn(s, i - 1) THEN 1 ELSE 0) /\ Counted(t, r, g[i - 1], m)
    BY <1>3, <1>5
  <2>2. Report(g[i - 1])
    BY <2>1 DEF Counted
  <2>3. PICK k \in {0, 1} : k = IF s[i].state = "Included" THEN 1 ELSE 0
    OBVIOUS
  <2>4. Counted(t, g[i - 1], g[i], k)
    <3>1. i \in 1..Len(t.candidates[c])
      BY <1>1
    <3>2. Counted(t, g[i - 1], notify_candidate(t, g[i - 1], c, t.candidates[c][i]),
                  IF t.candidates[c][i].state = "Included" THEN 1 ELSE 0)
      BY <2>2, <3>1, NotifyCandidate
    <3> QED BY <1>1, <1>2, <2>3, <3>2
  <2>5. Counted(t, r, g[i], m + k)
    BY <2>1, <2>2, <2>4, CountedBoth
  <2>6. m + k = IF IncludedIn(s, i) THEN 1 ELSE 0
    <3>1. i \in 1..i /\ \A j \in 1..i - 1 : j \in 1..i /\ j # i /\ j \in 1..n
      OBVIOUS
    <3>2. \A j \in 1..i : j = i \/ j \in 1..i - 1
      OBVIOUS
    <3>3. IncludedIn(s, i) <=> IncludedIn(s, i - 1) \/ s[i].state = "Included"
      BY <3>1, <3>2 DEF IncludedIn
    <3>4. ~(IncludedIn(s, i - 1) /\ s[i].state = "Included")
      BY <1>1, <1>5, <3>1 DEF IncludedIn, OnceIncluded
    <3> QED BY <2>1, <2>3, <3>3, <3>4
  <2>7. Counted(t, r, g[i], IF IncludedIn(s, i) THEN 1 ELSE 0)
    BY <2>5, <2>6
  <2> QED BY <1>3, <2>7
<1>6. n \in S
  BY <1>4, <1>5, UpTo
<1> QED BY <1>1, <1>2, <1>3, <1>6

Below(D, k) == {c \in D : c < k}

(* One more core. *)
LEMMA BelowNext ==
  ASSUME NEW D, D \subseteq Cores, NEW i \in 1..NumCores
  PROVE  /\ i - 1 \in Cores
         /\ Cardinality(Below(D, i - 1)) \in Nat
         /\ Cardinality(Below(D, i)) = Cardinality(Below(D, i - 1)) + (IF i - 1 \in D THEN 1 ELSE 0)
<1>1. i - 1 \in Cores /\ Cores \subseteq Nat
  BY TrackerAssumption DEF Cores
<1>2. IsFiniteSet(Below(D, i - 1))
  <2>1. IsFiniteSet(Cores)
    BY TrackerAssumption, FS_Interval DEF Cores
  <2> QED BY <2>1, FS_Subset DEF Below
<1>3. i - 1 \notin Below(D, i - 1) /\ \A d \in D : d < i <=> d < i - 1 \/ d = i - 1
  BY <1>1 DEF Below
<1>4. CASE i - 1 \in D
  <2>1. Below(D, i) = Below(D, i - 1) \cup {i - 1}
    <3>1. \A d : d \in Below(D, i) <=> d \in Below(D, i - 1) \cup {i - 1}
      BY <1>3, <1>4, Zenon DEF Below
    <3> QED BY <3>1
  <2> QED BY <1>1, <1>2, <1>3, <1>4, <2>1, FS_AddElement, FS_CardinalityType
<1>5. CASE i - 1 \notin D
  <2>1. Below(D, i) = Below(D, i - 1)
    <3>1. \A d : d \in Below(D, i) <=> d \in Below(D, i - 1)
      BY <1>3, <1>5, Zenon DEF Below
    <3> QED BY <3>1
  <2> QED BY <1>1, <1>2, <1>5, <2>1, FS_CardinalityType
<1> QED BY <1>4, <1>5

(* No core at first, and all of D in the end. *)
LEMMA BelowEnds ==
  ASSUME NEW D, D \subseteq Cores
  PROVE  Below(D, 0) = {} /\ Below(D, NumCores) = D
<1>1. \A c \in Cores : ~(c < 0) /\ c < NumCores
  BY TrackerAssumption DEF Cores
<1> QED BY <1>1 DEF Below

(* The cores with an included candidate. *)
IncludedCores(t) == {c \in Cores : IncludedIn(t.candidates[c], Len(t.candidates[c]))}

(* notify_candidate_state() counts an inclusion for every core with an included
   entry. *)
LEMMA NotifyCores ==
  ASSUME NEW t \in TrackerState, NEW r, Report(r), \A c \in Cores : OnceIncluded(t.candidates[c])
  PROVE  Counted(t, r, notify_candidate_state(t, r), Cardinality(IncludedCores(t)))
<1>1. PICK D, n : D = IncludedCores(t) /\ D \subseteq Cores /\ n = NumCores /\ n \in Nat
  BY TrackerAssumption DEF IncludedCores
<1>2. PICK q : q = notify_candidate_state(t, r)
  OBVIOUS
<1>3. PICK g : g[0] = r /\ q = g[n] /\ \A i \in 1..n : g[i] = CandidatesOf(t, g[i - 1], i - 1)
  BY <1>1, <1>2, CoresInTurn
<1>4. PICK S : S = {i \in 0..n : Counted(t, r, g[i], Cardinality(Below(D, i)))}
  OBVIOUS
<1>5. 0 \in S
  <2>1. Cardinality(Below(D, 0)) = 0
    BY <1>1, BelowEnds, FS_EmptySet
  <2> QED BY <1>1, <1>3, <1>4, <2>1, CountedNone
<1>6. ASSUME NEW i \in 1..n, i - 1 \in S PROVE i \in S
  <2>1. PICK m \in Nat : m = Cardinality(Below(D, i - 1)) /\ Counted(t, r, g[i - 1], m)
    BY <1>1, <1>4, <1>6, BelowNext
  <2>2. Report(g[i - 1])
    BY <2>1 DEF Counted
  <2>3. PICK k \in Nat : k = IF i - 1 \in D THEN 1 ELSE 0
    OBVIOUS
  <2>4. i - 1 \in Cores /\ Cardinality(Below(D, i)) = m + k
    BY <1>1, <2>1, <2>3, BelowNext
  <2>5. Counted(t, g[i - 1], g[i], k)
    <3>1. Counted(t, g[i - 1], CandidatesOf(t, g[i - 1], i - 1),
                  IF IncludedIn(t.candidates[i - 1], Len(t.candidates[i - 1])) THEN 1 ELSE 0)
      BY <2>2, <2>4, NotifyCandidates
    <3>2. i - 1 \in D <=> IncludedIn(t.candidates[i - 1], Len(t.candidates[i - 1]))
      BY <1>1, <2>4 DEF IncludedCores
    <3> QED BY <1>3, <2>3, <3>1, <3>2
  <2>6. Counted(t, r, g[i], m + k)
    BY <2>1, <2>2, <2>3, <2>5, CountedBoth
  <2> QED BY <1>4, <2>4, <2>6
<1>7. n \in S
  BY <1>1, <1>5, <1>6, UpTo
<1> QED BY <1>1, <1>2, <1>3, <1>4, <1>7, BelowEnds

(* notify_core_assignment() counts nothing. *)
LEMMA NotifyAssignments ==
  ASSUME NEW t \in TrackerState, NEW r, Report(r)
  PROVE  Counted(t, r, notify_core_assignment(t, r), 0)
<1>1. PICK n : n = NumCores /\ n \in Nat
  BY TrackerAssumption
<1>2. PICK q : q = notify_core_assignment(t, r)
  OBVIOUS
<1>3. PICK g : g[0] = r /\ q = g[n] /\ \A i \in 1..n : g[i] = AssignmentOf(t, g[i - 1], i - 1)
  BY <1>1, <1>2, AssignmentsInTurn
<1>4. PICK S : S = {i \in 0..n : Counted(t, r, g[i], 0)}
  OBVIOUS
<1>5. 0 \in S
  BY <1>1, <1>3, <1>4, CountedNone
<1>6. ASSUME NEW i \in 1..n, i - 1 \in S PROVE i \in S
  <2>1. Counted(t, r, g[i - 1], 0) /\ Report(g[i - 1])
    BY <1>4, <1>6 DEF Counted
  <2>2. i - 1 \in Cores
    BY <1>1 DEF Cores
  <2>3. Counted(t, g[i - 1], g[i], 0)
    BY <1>3, <2>1, <2>2, NotifyAssignment
  <2>4. Counted(t, r, g[i], 0 + 0)
    BY <2>1, <2>3, CountedBoth
  <2> QED BY <1>4, <2>4
<1>7. n \in S
  BY <1>1, <1>5, <1>6, UpTo
<1> QED BY <1>2, <1>3, <1>4, <1>7

(* notify_bitfield_propagation() counts nothing. *)
LEMMA NotifyBitfieldsOfCores ==
  ASSUME NEW t \in TrackerState, NEW r, Report(r)
  PROVE  Counted(t, r, notify_bitfield_propagation(t, r), 0)
<1>1. PICK n : n = NumCores /\ n \in Nat
  BY TrackerAssumption
<1>2. PICK q : q = notify_bitfield_propagation(t, r)
  OBVIOUS
<1>3. PICK g : g[0] = r /\ q = g[n] /\ \A i \in 1..n : g[i] = BitfieldsOf(t, g[i - 1], i - 1)
  BY <1>1, <1>2, BitfieldsInTurn
<1>4. PICK S : S = {i \in 0..n : Counted(t, r, g[i], 0)}
  OBVIOUS
<1>5. 0 \in S
  BY <1>1, <1>3, <1>4, CountedNone
<1>6. ASSUME NEW i \in 1..n, i - 1 \in S PROVE i \in S
  <2>1. Counted(t, r, g[i - 1], 0) /\ Report(g[i - 1])
    BY <1>4, <1>6 DEF Counted
  <2>2. i - 1 \in Cores
    BY <1>1 DEF Cores
  <2>3. Counted(t, g[i - 1], g[i], 0)
    BY <1>3, <2>1, <2>2, NotifyBitfields
  <2>4. Counted(t, r, g[i], 0 + 0)
    BY <2>1, <2>3, CountedBoth
  <2> QED BY <1>4, <2>4
<1>7. n \in S
  BY <1>1, <1>5, <1>6, UpTo
<1> QED BY <1>2, <1>3, <1>4, <1>7
-----------------------------------------------------------------------------
(* Disputes, and progress() as a whole. *)

(* The disputes that have been counted. *)
Total(s) == s.disputed["Valid"] + s.disputed["Invalid"] + s.disputed["TimedOut"]

(* From r to q, n disputes are counted, and nothing else changes of what we follow. *)
Judged(t, r, q, n) ==
  /\ Report(q)
  /\ Total(q.stats) = Total(r.stats) + n
  /\ q.stats.block_times = r.stats.block_times
  /\ q.stats.included_count = r.stats.included_count /\ q.stats.included_times = r.stats.included_times
  /\ (\A i \in 1..Len(r.events) : Says(t, r.events[i])) => \A i \in 1..Len(q.events) : Says(t, q.events[i])

(* The number of disputes counted is a number. *)
LEMMA TotalType == ASSUME NEW s \in Statistics PROVE Total(s) \in Int
BY DEF Total, Statistics, Outcomes

(* on_disputed() counts one dispute. *)
LEMMA OnDisputed ==
  ASSUME NEW s \in Statistics, NEW d \in DisputeEntry
  PROVE  LET u == on_disputed(s, d) IN
         /\ u \in Statistics /\ Total(u) = Total(s) + 1
         /\ u.last_skipped = s.last_skipped /\ u.block_times = s.block_times
         /\ u.included_count = s.included_count /\ u.included_times = s.included_times
<1>1. PICK counts : counts = s.disputed /\ counts \in [Outcomes -> Int]
  BY DEF Statistics
<1>2. PICK o \in Outcomes : o = d.outcome
  BY DEF DisputeEntry
<1>3. PICK more : more = [counts EXCEPT ![o] = counts[o] + 1]
  OBVIOUS
<1>4. more \in [Outcomes -> Int]
  BY <1>1, <1>3
<1>5. more["Valid"] + more["Invalid"] + more["TimedOut"] = counts["Valid"] + counts["Invalid"] + counts["TimedOut"] + 1
  BY <1>1, <1>2, <1>3 DEF Outcomes
<1>6. PICK x, y : x = update(s.misbehaving_validators, d.misbehaving) /\ y = update(s.resolution_time, d.resolve_time)
  OBVIOUS
<1>7. x \in Bucket /\ y \in Bucket
  <2>1. \A b \in Bucket, v \in Int : update(b, v) \in Bucket
    BY DEF update, Bucket
  <2>2. s.misbehaving_validators \in Bucket /\ s.resolution_time \in Bucket
    BY DEF Statistics
  <2>3. d.misbehaving \in Int /\ d.resolve_time \in Int
    BY DEF DisputeEntry
  <2> QED BY <1>6, <2>1, <2>2, <2>3
<1>8. PICK u : u = [s EXCEPT !.disputed = more, !.misbehaving_validators = x, !.resolution_time = y]
  OBVIOUS
<1>9. on_disputed(s, d) = u
  BY <1>1, <1>2, <1>3, <1>6, <1>8 DEF on_disputed
<1>10. /\ u \in Statistics /\ u.disputed = more
       /\ u.last_skipped = s.last_skipped /\ u.block_times = s.block_times
       /\ u.included_count = s.included_count /\ u.included_times = s.included_times
  BY <1>4, <1>7, <1>8 DEF Statistics
<1>11. Total(u) = Total(s) + 1
  BY <1>1, <1>5, <1>10 DEF Total
<1> QED BY <1>9, <1>10, <1>11

(* A dispute that is announced is counted once. *)
LEMMA NotifyDispute ==
  ASSUME NEW t, NEW r, Report(r), NEW d \in DisputeEntry
  PROVE  Judged(t, r, notify_dispute(r, d), 1)
<1>1. r.stats \in Statistics /\ Len(r.stats.last_skipped) <= LastSkipped /\ r.events \in Seq(Events)
  BY DEF Report
<1>2. PICK u, m, e : u = on_disputed(r.stats, d) /\ m = metrics_on_disputed(r.metrics, d) /\ e = <<"Disputed", d.outcome>>
  OBVIOUS
<1>3. e \in Events /\ e[1] = "Disputed"
  <2>1. d.outcome \in Outcomes
    BY DEF DisputeEntry
  <2> QED BY <1>2, <2>1 DEF Events
<1>4. Says(t, e)
  BY <1>3 DEF Says
<1>5. PICK q : q = [stats |-> u, metrics |-> m, events |-> Append(r.events, e)]
  OBVIOUS
<1>6. q = notify_dispute(r, d)
  BY <1>2, <1>5 DEF notify_dispute
<1>7. /\ u \in Statistics /\ Total(u) = Total(r.stats) + 1
      /\ u.last_skipped = r.stats.last_skipped /\ u.block_times = r.stats.block_times
      /\ u.included_count = r.stats.included_count /\ u.included_times = r.stats.included_times
  BY <1>1, <1>2, OnDisputed
<1>8. Append(r.events, e) \in Seq(Events)
      /\ ((\A k \in 1..Len(r.events) : Says(t, r.events[k])) => \A k \in 1..Len(Append(r.events, e)) : Says(t, Append(r.events, e)[k]))
  BY <1>1, <1>3, <1>4, EventAdded
<1>9. q.stats = u /\ q.metrics = m /\ q.events = Append(r.events, e)
  BY <1>5
<1>10. Report(q)
  BY <1>1, <1>5, <1>7, <1>8, <1>9 DEF Report
<1> QED BY <1>6, <1>7, <1>8, <1>9, <1>10 DEF Judged

(* No dispute is counted by doing nothing. *)
LEMMA JudgedNone == ASSUME NEW t, NEW r, Report(r) PROVE Judged(t, r, r, 0)
<1>1. Total(r.stats) \in Int
  BY TotalType DEF Report
<1> QED BY <1>1 DEF Judged

(* The disputes counted in a row add up. *)
LEMMA JudgedBoth ==
  ASSUME NEW t, NEW r, NEW q, NEW p, NEW n \in Nat, NEW m \in Nat, Report(r), Judged(t, r, q, n), Judged(t, q, p, m)
  PROVE  Judged(t, r, p, n + m)
<1>1. Total(r.stats) \in Int
  BY TotalType DEF Report
<1>2. Total(p.stats) = Total(r.stats) + (n + m)
  BY <1>1 DEF Judged
<1> QED BY <1>2 DEF Judged

(* notify_disputes() counts every dispute of the tracker, or none at a fork. *)
LEMMA NotifyDisputes ==
  ASSUME NEW t \in TrackerState, NEW r, Report(r)
  PROVE  Judged(t, r, notify_disputes(t, r), IF is_fork(t) THEN 0 ELSE Len(t.disputes))
<1>1. CASE is_fork(t)
  BY <1>1, JudgedNone DEF notify_disputes
<1>2. CASE ~is_fork(t)
  <2>1. PICK n \in Nat : n = Len(t.disputes) /\ \A i \in 1..n : t.disputes[i] \in DisputeEntry
    <3>1. t.disputes \in Seq(DisputeEntry)
      BY DEF TrackerState
    <3> QED BY <3>1
  <2>2. PICK q : q = notify_disputes(t, r)
    OBVIOUS
  <2>3. PICK g : g[0] = r /\ q = g[n] /\ \A i \in 1..n : g[i] = notify_dispute(g[i - 1], t.disputes[i])
    BY <1>2, <2>1, <2>2, DisputesInTurn
  <2>4. PICK S : S = {i \in 0..n : Judged(t, r, g[i], i)}
    OBVIOUS
  <2>5. 0 \in S
    BY <2>1, <2>3, <2>4, JudgedNone
  <2>6. ASSUME NEW i \in 1..n, i - 1 \in S PROVE i \in S
    <3>1. Judged(t, r, g[i - 1], i - 1) /\ Report(g[i - 1])
      BY <2>4, <2>6 DEF Judged
    <3>2. Judged(t, g[i - 1], g[i], 1)
      BY <2>1, <2>3, <3>1, NotifyDispute
    <3>3. i - 1 \in Nat /\ (i - 1) + 1 = i
      OBVIOUS
    <3>4. Judged(t, r, g[i], (i - 1) + 1)
      BY <3>1, <3>2, <3>3, JudgedBoth
    <3> QED BY <2>4, <3>3, <3>4
  <2>7. n \in S
    <3>1. \A i \in 0..n : i \in S
      BY <2>5, <2>6, UpTo
    <3> QED BY <3>1
  <2> QED BY <1>2, <2>1, <2>2, <2>3, <2>4, <2>7
<1> QED BY <1>1, <1>2

(* notify_active_message_queues() counts nothing. *)
LEMMA NotifyQueues ==
  ASSUME NEW t, NEW r, Report(r)
  PROVE  Counted(t, r, notify_active_message_queues(t, r), 0)
<1>1. CASE ~t.has_hrmp_messages
  BY <1>1, CountedNone DEF notify_active_message_queues
<1>2. CASE t.has_hrmp_messages
  <2>1. <<"MessageQueues">> \in Events /\ <<"MessageQueues">>[1] = "MessageQueues"
    BY DEF Events
  <2>2. Says(t, <<"MessageQueues">>)
    BY <2>1 DEF Says
  <2>3. notify_active_message_queues(t, r)
          = [stats |-> r.stats, metrics |-> r.metrics, events |-> Append(r.events, <<"MessageQueues">>)]
    BY <1>2 DEF notify_active_message_queues, Event
  <2> QED BY <2>1, <2>2, <2>3, ReportOf, SameCountsSelf
<1> QED BY <1>1, <1>2

(* What a report of progress comes to. *)
Progress(t, r, q) ==
  LET n == Cardinality(IncludedCores(t)) IN
  /\ Report(q)
  /\ q.stats.block_times = IF is_fork(t) THEN r.stats.block_times
                           ELSE update(r.stats.block_times, current_block_time(t))
  /\ Total(q.stats) = Total(r.stats) + (IF is_fork(t) THEN 0 ELSE Len(t.disputes))
  /\ n \in Nat /\ q.stats.included_count = r.stats.included_count + n
  /\ n = 0 => q.stats.included_times = r.stats.included_times
  /\ n = 1 => q.stats.included_times.sum = r.stats.included_times.sum + Distance(t)
  /\ (\A i \in 1..Len(r.events) : Says(t, r.events[i])) => \A i \in 1..Len(q.events) : Says(t, q.events[i])

(* progress(): what it counts of inclusions, disputes and block times. *)
LEMMA ProgressMade ==
  ASSUME NEW t \in TrackerState, t.current # NoBlock, \A c \in Cores : OnceIncluded(t.candidates[c]), NEW r, Report(r)
  PROVE  Progress(t, r, progress(t, r))
<1>1. PICK n \in Nat : n = Cardinality(IncludedCores(t))
  <2>1. IsFiniteSet(Cores)
    BY TrackerAssumption, FS_Interval DEF Cores
  <2>2. IncludedCores(t) \subseteq Cores
    BY DEF IncludedCores
  <2> QED BY <2>1, <2>2, FS_Subset, FS_CardinalityType
<1>2. PICK r1 : r1 = notify_new_session(t, r)
  OBVIOUS
<1>3. PICK r2 : r2 = notify_core_assignment(t, r1)
  OBVIOUS
<1>4. PICK r3 : r3 = notify_bitfield_propagation(t, r2)
  OBVIOUS
<1>5. PICK r4 : r4 = notify_candidate_state(t, r3)
  OBVIOUS
<1>6. PICK r5 : r5 = notify_disputes(t, r4)
  OBVIOUS
<1>7. PICK r6 : r6 = notify_active_message_queues(t, r5)
  OBVIOUS
<1>8. PICK r7 : r7 = notify_current_block_time(t, r6)
  OBVIOUS
<1>9. PICK r8 : r8 = notify_finality_lag(t, r7)
  OBVIOUS
<1>10. progress(t, r) = r8
  BY <1>2, <1>3, <1>4, <1>5, <1>6, <1>7, <1>8, <1>9 DEF progress
<1>11. Counted(t, r, r1, 0) /\ Report(r1)
  BY <1>2, NotifySession DEF Counted
<1>12. Counted(t, r1, r2, 0) /\ Report(r2)
  BY <1>3, <1>11, NotifyAssignments DEF Counted
<1>13. Counted(t, r2, r3, 0) /\ Report(r3)
  BY <1>4, <1>12, NotifyBitfieldsOfCores DEF Counted
<1>14. Counted(t, r3, r4, n) /\ Report(r4)
  BY <1>1, <1>5, <1>13, NotifyCores DEF Counted
<1>15. Counted(t, r, r4, n)
  <2>1. Counted(t, r, r2, 0 + 0)
    BY <1>11, <1>12, CountedBoth
  <2>2. Counted(t, r, r3, (0 + 0) + 0)
    BY <1>12, <1>13, <2>1, CountedBoth
  <2>3. Counted(t, r, r4, ((0 + 0) + 0) + n)
    BY <1>13, <1>14, <2>2, CountedBoth
  <2> QED BY <2>3
<1>16. PICK k : k = (IF is_fork(t) THEN 0 ELSE Len(t.disputes)) /\ Judged(t, r4, r5, k) /\ Report(r5)
  BY <1>6, <1>14, NotifyDisputes DEF Judged
<1>17. Counted(t, r5, r6, 0) /\ Report(r6)
  BY <1>7, <1>16, NotifyQueues DEF Counted
<1>18. /\ Total(r6.stats) = Total(r.stats) + k
       /\ r6.stats.block_times = r.stats.block_times
  BY <1>15, <1>16, <1>17 DEF Counted, Judged, Total
<1>19. /\ r6.stats.included_count = r.stats.included_count + n
       /\ n = 0 => r6.stats.included_times = r.stats.included_times
       /\ n = 1 => r6.stats.included_times.sum = r.stats.included_times.sum + Distance(t)
  <2>1. r4.stats.included_count \in Int
    BY <1>14 DEF Report, Statistics
  <2> QED BY <1>15, <1>16, <1>17, <2>1 DEF Counted, Judged
<1>20. (\A i \in 1..Len(r.events) : Says(t, r.events[i])) => \A i \in 1..Len(r6.events) : Says(t, r6.events[i])
  BY <1>15, <1>16, <1>17 DEF Counted, Judged
<1>21. /\ Report(r7) /\ r7.events = r6.events
       /\ Total(r7.stats) = Total(r6.stats) /\ r7.stats.included_count = r6.stats.included_count
       /\ r7.stats.included_times = r6.stats.included_times
       /\ r7.stats.block_times = IF is_fork(t) THEN r6.stats.block_times
                                 ELSE update(r6.stats.block_times, current_block_time(t))
  <2>1. CASE is_fork(t)
    BY <1>8, <1>17, <2>1 DEF notify_current_block_time
  <2>2. CASE ~is_fork(t)
    <3>1. current_block_time(t) \in Int
      BY DEF current_block_time, saturating_sub, TrackerState, At
    <3>2. r6.stats \in Statistics /\ Len(r6.stats.last_skipped) <= LastSkipped
      BY <1>17 DEF Report
    <3>3. PICK b \in Bucket : b = update(r6.stats.block_times, current_block_time(t))
      <4>1. r6.stats.block_times \in Bucket
        BY <3>2 DEF Statistics
      <4>2. update(r6.stats.block_times, current_block_time(t)) \in Bucket
        BY <3>1, <4>1 DEF update, Bucket
      <4> QED BY <4>2
    <3>4. PICK u : u = [r6.stats EXCEPT !.block_times = b]
      OBVIOUS
    <3>5. /\ u \in Statistics /\ u.last_skipped = r6.stats.last_skipped /\ u.disputed = r6.stats.disputed
          /\ u.included_count = r6.stats.included_count /\ u.included_times = r6.stats.included_times
          /\ u.block_times = b
      BY <3>2, <3>3, <3>4 DEF Statistics
    <3>6. r7 = [stats |-> u, metrics |-> r6.metrics, events |-> r6.events]
      BY <1>8, <2>2, <3>3, <3>4 DEF notify_current_block_time, on_block
    <3>7. r7.stats = u /\ r7.metrics = r6.metrics /\ r7.events = r6.events
      BY <3>6
    <3>8. Report(r7)
      BY <1>17, <3>2, <3>5, <3>6, <3>7 DEF Report
    <3> QED BY <2>2, <3>3, <3>5, <3>7, <3>8 DEF Total
  <2> QED BY <2>1, <2>2
<1>22. Report(r8) /\ r8.events = r7.events /\ r8.stats = r7.stats
  <2>1. PICK m : m = metrics_on_finality_lag(r7.metrics, t.finality_lag)
    OBVIOUS
  <2>2. r8 = [stats |-> r7.stats, metrics |-> m, events |-> r7.events]
    BY <1>9, <2>1 DEF notify_finality_lag
  <2>3. r8.stats = r7.stats /\ r8.metrics = m /\ r8.events = r7.events
    BY <2>2
  <2> QED BY <1>21, <2>2, <2>3 DEF Report
<1>23. Progress(t, r, r8)
  BY <1>1, <1>16, <1>18, <1>19, <1>20, <1>21, <1>22 DEF Progress
<1> QED BY <1>10, <1>23
-----------------------------------------------------------------------------
(* maybe_reset_state(), and a block from one update to the next. *)
Single(t) == \A c \in Cores : Len(t.candidates[c]) <= 1

(* What is left of a core's entries s after the candidates `back` are backed. *)
Followed(s, back, h, p) ==
  /\ p \in Seq(Entry) /\ Len(p) <= 1
  /\ \A i \in 1..Len(p) : p[i].state \in Active
  /\ back # <<>> => Len(p) = 1 /\ p[1].candidate_hash = back[Len(back)]
  /\ back = <<>> => /\ Len(p) = 1 <=> Len(s) = 1 /\ ~Includes(h, s[1].candidate_hash)
                    /\ Len(p) = 1 => p[1].candidate_hash = s[1].candidate_hash

(* Keeping no entry. *)
LEMMA KeptNone == ASSUME NEW S, NEW s \in Seq(S) PROVE Kept(s, {}) \in Seq(S) /\ Len(Kept(s, {})) = 0
<1>1. Cardinality({}) = 0
  BY FS_EmptySet
<1> QED BY <1>1, KeptType

(* Keeping one entry. *)
LEMMA KeptOne ==
  ASSUME NEW S, NEW s \in Seq(S), NEW k \in 1..Len(s)
  PROVE  Kept(s, {k}) \in Seq(S) /\ Len(Kept(s, {k})) = 1 /\ Kept(s, {k})[1] = s[k]
<1>1. Cardinality({k}) = 1
  BY FS_Singleton
<1>2. {k} \subseteq 1..Len(s)
  OBVIOUS
<1>3. PICK p : p = Kept(s, {k})
  OBVIOUS
<1>4. p \in Seq(S) /\ Len(p) = 1 /\ PartOf(p, s, {k})
  BY <1>1, <1>2, <1>3, KeptType
<1>5. 1 \in 1..Len(p)
  BY <1>4
<1>6. p[1] = s[k]
  BY <1>4, <1>5 DEF PartOf
<1> QED BY <1>3, <1>4, <1>6

(* maybe_reset_state() leaves one entry at most of a core: the last candidate
   backed, or the one it had if it was not included. *)
LEMMA RetainedFollows ==
  ASSUME NEW s \in Seq(Entry), Len(s) <= 1, NEW back \in Seq(Nat \ {0}), NEW h, NEW sync, NEW q,
         Outline(s, back, h, sync, q)
  PROVE  Followed(s, back, h, Retained(q, Active))
<1>1. PICK n, m : n = Len(s) /\ m = Len(s) + Len(back) /\ n \in {0, 1} /\ m \in Nat /\ m >= n
  OBVIOUS
<1>2. /\ q \in Seq(Entry) /\ Len(q) \in {m, m + 1} /\ (Len(q) = m + 1 => q[m + 1].state = "Skipped")
      /\ \A i \in 1..n : /\ q[i].candidate_hash = s[i].candidate_hash
                         /\ IF Includes(h, s[i].candidate_hash) THEN q[i].state = "Included"
                            ELSE q[i].state \in Active \cup {"Dropped"}
      /\ \A i \in n + 1..m : q[i].candidate_hash = back[i - n] /\ q[i].state \in Active \cup {"Dropped"}
      /\ \A i \in 1..m : q[i].state = "Dropped" <=> /\ q[i].state # "Included"
                                                    /\ \E j \in i + 1..m : q[j].state # "Included"
  BY <1>1 DEF Outline, Extended
<1>3. PICK I : I = {i \in DOMAIN q : q[i].state \in Active}
  OBVIOUS
<1>4. Retained(q, Active) = Kept(q, I)
  BY <1>3 DEF Retained
<1>5. DOMAIN q = 1..Len(q)
  BY <1>2
<1>6. \A i \in 1..Len(q) : i \in 1..m \/ i = m + 1
  BY <1>1, <1>2
<1>7. "Skipped" \notin Active /\ "Included" \notin Active /\ "Dropped" \notin Active
  BY DEF Active
<1>8. CASE back # <<>>
  <2>1. m \in n + 1..m /\ m \in 1..m /\ m - n = Len(back) /\ m \in 1..Len(q)
    BY <1>1, <1>2, <1>8
  <2>2. q[m].state \in Active
    <3>1. \A j \in m + 1..m : FALSE
      BY <1>1
    <3> QED BY <1>2, <2>1, <3>1
  <2>3. ASSUME NEW i \in I PROVE i = m
    <3>1. i \in 1..m
      BY <1>2, <1>3, <1>5, <1>6, <1>7
    <3>2. CASE i = m
      BY <3>2
    <3>3. CASE i # m
      <4>1. m \in i + 1..m
        BY <1>1, <3>1, <3>3
      <4>2. q[i].state = "Dropped" \/ q[i].state = "Included"
        BY <1>2, <1>7, <2>2, <3>1, <4>1
      <4> QED BY <1>3, <1>7, <4>2
    <3> QED BY <3>2, <3>3
  <2>4. I = {m}
    BY <1>3, <1>5, <2>1, <2>2, <2>3
  <2>5. Kept(q, I) \in Seq(Entry) /\ Len(Kept(q, I)) = 1 /\ Kept(q, I)[1] = q[m]
    BY <1>2, <2>1, <2>4, KeptOne
  <2>6. q[m].candidate_hash = back[Len(back)]
    BY <1>2, <2>1
  <2> QED BY <1>4, <1>8, <2>2, <2>5, <2>6 DEF Followed
<1>9. CASE back = <<>>
  <2>1. m = n
    BY <1>1, <1>9
  <2>2. CASE n = 1 /\ ~Includes(h, s[1].candidate_hash)
    <3>1. 1 \in 1..n /\ 1 \in 1..Len(q) /\ \A j \in 1 + 1..m : FALSE
      BY <1>2, <2>1, <2>2
    <3>2. q[1].candidate_hash = s[1].candidate_hash /\ q[1].state \in Active
      BY <1>2, <2>1, <2>2, <3>1
    <3>3. I = {1}
      <4>1. \A i \in I : i = 1
        BY <1>2, <1>3, <1>5, <1>6, <1>7, <2>1, <2>2
      <4> QED BY <1>3, <1>5, <3>1, <3>2, <4>1
    <3>4. Kept(q, I) \in Seq(Entry) /\ Len(Kept(q, I)) = 1 /\ Kept(q, I)[1] = q[1]
      BY <1>2, <3>1, <3>3, KeptOne
    <3> QED BY <1>1, <1>4, <1>9, <2>2, <3>2, <3>4 DEF Followed
  <2>3. CASE ~(n = 1 /\ ~Includes(h, s[1].candidate_hash))
    <3>1. I = {}
      <4>1. SUFFICES ASSUME NEW i \in I PROVE FALSE
        OBVIOUS
      <4>2. i \in 1..n
        BY <1>2, <1>3, <1>5, <1>6, <1>7, <2>1
      <4>3. n = 1 /\ i = 1 /\ Includes(h, s[1].candidate_hash)
        BY <1>1, <2>3, <4>2
      <4> QED BY <1>2, <1>3, <1>7, <4>2, <4>3
    <3>2. Kept(q, I) \in Seq(Entry) /\ Len(Kept(q, I)) = 0
      BY <1>2, <3>1, KeptNone
    <3> QED BY <1>1, <1>4, <1>9, <2>3, <3>2 DEF Followed
  <2> QED BY <2>2, <2>3
<1> QED BY <1>8, <1>9

(* An entry of a core is included only if it was there before the block. *)
LEMMA IncludedWas ==
  ASSUME NEW s \in Seq(Entry), Len(s) <= 1, NEW back \in Seq(Nat \ {0}), NEW h, NEW sync, NEW q,
         Outline(s, back, h, sync, q)
  PROVE  /\ OnceIncluded(q)
         /\ IncludedIn(q, Len(q)) <=> Len(s) = 1 /\ Includes(h, s[1].candidate_hash)
<1>1. PICK n, m : n = Len(s) /\ m = Len(s) + Len(back) /\ n \in {0, 1} /\ m \in Nat /\ m >= n
  OBVIOUS
<1>2. /\ Len(q) \in {m, m + 1} /\ (Len(q) = m + 1 => q[m + 1].state = "Skipped")
      /\ \A i \in 1..n : IF Includes(h, s[i].candidate_hash) THEN q[i].state = "Included"
                         ELSE q[i].state \in Active \cup {"Dropped"}
      /\ \A i \in n + 1..m : q[i].state \in Active \cup {"Dropped"}
  BY <1>1 DEF Outline, Extended
<1>3. \A i \in 1..Len(q) : i \in 1..n \/ i \in n + 1..m \/ i = m + 1
  BY <1>1, <1>2
<1>4. "Included" \notin Active \cup {"Dropped", "Skipped"}
  BY DEF Active
<1>5. ASSUME NEW i \in 1..Len(q), q[i].state = "Included" PROVE i = 1 /\ n = 1 /\ Includes(h, s[1].candidate_hash)
  <2>1. i \in 1..n
    BY <1>2, <1>3, <1>4, <1>5
  <2> QED BY <1>1, <1>2, <1>4, <1>5, <2>1
<1>6. ASSUME n = 1, Includes(h, s[1].candidate_hash) PROVE 1 \in 1..Len(q) /\ q[1].state = "Included"
  BY <1>1, <1>2, <1>6
<1> QED BY <1>1, <1>5, <1>6 DEF OnceIncluded, IncludedIn

(* What is retained is in the sequence, and still followed. *)
LEMMA RetainedType ==
  ASSUME NEW q \in Seq(Entry)
  PROVE  /\ Retained(q, Active) \in Seq(Entry) /\ Len(Retained(q, Active)) <= Len(q)
         /\ \A i \in 1..Len(Retained(q, Active)) :
              /\ Retained(q, Active)[i].state \in Active
              /\ \E j \in 1..Len(q) : Retained(q, Active)[i] = q[j]
<1>1. PICK I : I = {i \in DOMAIN q : q[i].state \in Active} /\ I \subseteq 1..Len(q)
  <2>1. DOMAIN q = 1..Len(q)
    OBVIOUS
  <2> QED BY <2>1
<1>2. PICK p : p = Kept(q, I) /\ p = Retained(q, Active)
  BY <1>1 DEF Retained
<1>3. p \in Seq(Entry) /\ Len(p) = Cardinality(I) /\ IsFiniteSet(I) /\ Cardinality(I) \in Nat /\ PartOf(p, q, I)
  BY <1>1, <1>2, KeptType
<1>4. \A k \in 1..Len(p) : \E i \in I : p[k] = q[i]
  BY <1>3 DEF PartOf
<1>5. Cardinality(I) <= Len(q)
  <2>1. Len(q) \in Nat
    OBVIOUS
  <2>2. IsFiniteSet(1..Len(q)) /\ Cardinality(1..Len(q)) = Len(q)
    BY <2>1, FS_Interval
  <2> QED BY <1>1, <2>2, FS_Subset
<1> QED BY <1>1, <1>2, <1>3, <1>4, <1>5

(* What is left of a tracker when it is reset. *)
LEMMA Reset ==
  ASSUME NEW t \in TrackerState
  PROVE  LET u == maybe_reset_state(t) IN
         /\ Rested(u)
         /\ u.current = t.current /\ u.previous = t.previous /\ u.current_ts = t.current_ts /\ u.last_ts = t.last_ts
         /\ u.last_included = t.last_included /\ u.previous_included = t.previous_included
         /\ u.last_backed = t.last_backed /\ u.backing_type = t.backing_type
         /\ \A c \in Cores : u.candidates[c] = Retained(t.candidates[c], Active)
<1>1. PICK s : s = [c \in Cores |-> Retained(t.candidates[c], {"Backed", "PendingAvailability"})]
  OBVIOUS
<1>2. ASSUME NEW c \in Cores
      PROVE  /\ s[c] = Retained(t.candidates[c], Active) /\ s[c] \in Seq(Entry)
             /\ \A i \in 1..Len(s[c]) : s[c][i].state \in Active
  <2>1. PICK q \in Seq(Entry) : q = t.candidates[c]
    <3>1. t.candidates[c] \in Seq(Entry)
      BY DEF TrackerState
    <3> QED BY <3>1
  <2>2. s[c] = Retained(q, Active)
    BY <1>1, <2>1 DEF Active
  <2> QED BY <2>1, <2>2, RetainedType
<1>3. s \in [Cores -> Seq(Entry)]
  BY <1>1, <1>2
<1>4. PICK u : u = [t EXCEPT !.new_session = Nothing, !.disputes = <<>>, !.candidates = s]
  OBVIOUS
<1>5. maybe_reset_state(t) = u
  BY <1>1, <1>4 DEF maybe_reset_state
<1>6. u \in TrackerState
  <2>1. Nothing \in Int /\ <<>> \in Seq(DisputeEntry)
    BY DEF Nothing
  <2> QED BY <1>3, <1>4, <2>1 DEF TrackerState
<1>7. /\ u.disputes = <<>> /\ u.candidates = s
      /\ u.current = t.current /\ u.previous = t.previous /\ u.current_ts = t.current_ts /\ u.last_ts = t.last_ts
      /\ u.last_included = t.last_included /\ u.previous_included = t.previous_included
      /\ u.last_backed = t.last_backed /\ u.backing_type = t.backing_type
  BY <1>4 DEF TrackerState
<1> QED BY <1>2, <1>5, <1>6, <1>7 DEF Rested

(* What a block with its records makes of the tracker t: u before it is reset, w after. *)
Outcome(t, h, b, u, w) ==
  /\ u \in TrackerState
  /\ u.current = [num |-> b.num, ts |-> b.ts] /\ u.previous = t.current
  /\ u.last_ts = IF is_fork(u) THEN t.last_ts ELSE t.current_ts
  /\ u.current_ts = IF is_fork(u) THEN t.current_ts ELSE b.ts
  /\ Len(u.disputes) = Len(Stated(h.disputes))
  /\ IF AnyIncluded(t, h) THEN u.previous_included = t.last_included /\ u.last_included = u.current
     ELSE u.previous_included = t.previous_included /\ u.last_included = t.last_included
  /\ u.backing_type = "Sync" => t.backing_type = "Sync"
  /\ \A c \in Cores : Outline(t.candidates[c], h.backed[c], h, u.backing_type = "Sync", u.candidates[c])
  /\ \A c \in Cores : OnceIncluded(u.candidates[c])
  /\ IncludedCores(u) = {c \in Cores : Len(t.candidates[c]) = 1 /\ Includes(h, t.candidates[c][1].candidate_hash)}
  /\ Rested(w) /\ Single(w)
  /\ w.current = u.current /\ w.current_ts = u.current_ts /\ w.last_included = u.last_included
  /\ w.backing_type = u.backing_type
  /\ \A c \in Cores : Followed(t.candidates[c], h.backed[c], h, w.candidates[c])

(* inject_block() and maybe_reset_state() of a block with its records. *)
LEMMA InjectedAndReset ==
  ASSUME NEW t, Rested(t), Single(t), NEW h, HeadType(h), NEW b \in Blocks, b.inherent
  PROVE  Outcome(t, h, b, inject_block(t, h, b), maybe_reset_state(inject_block(t, h, b)))
<1>1. PICK u : u = inject_block(t, h, b)
  OBVIOUS
<1>2. /\ u \in TrackerState
      /\ u.current = [num |-> b.num, ts |-> b.ts] /\ u.previous = t.current
      /\ u.last_ts = IF is_fork(u) THEN t.last_ts ELSE t.current_ts
      /\ u.current_ts = IF is_fork(u) THEN t.current_ts ELSE b.ts
      /\ Len(u.disputes) = Len(Stated(h.disputes))
      /\ IF AnyIncluded(t, h) THEN u.previous_included = t.last_included /\ u.last_included = u.current
         ELSE u.previous_included = t.previous_included /\ u.last_included = t.last_included
      /\ u.backing_type = "Sync" => t.backing_type = "Sync"
      /\ \A c \in Cores : Outline(t.candidates[c], h.backed[c], h, u.backing_type = "Sync", u.candidates[c])
  BY <1>1, InjectBlock
<1>3. PICK w : w = maybe_reset_state(u)
  OBVIOUS
<1>4. /\ Rested(w)
      /\ w.current = u.current /\ w.current_ts = u.current_ts
      /\ w.last_included = u.last_included /\ w.backing_type = u.backing_type
      /\ \A c \in Cores : w.candidates[c] = Retained(u.candidates[c], Active)
  BY <1>2, <1>3, Reset
<1>5. ASSUME NEW c \in Cores
      PROVE  /\ Followed(t.candidates[c], h.backed[c], h, w.candidates[c]) /\ Len(w.candidates[c]) <= 1
             /\ OnceIncluded(u.candidates[c])
             /\ IncludedIn(u.candidates[c], Len(u.candidates[c]))
                  <=> Len(t.candidates[c]) = 1 /\ Includes(h, t.candidates[c][1].candidate_hash)
  <2>1. PICK s, back, sync, q : s = t.candidates[c] /\ back = h.backed[c] /\ sync = (u.backing_type = "Sync") /\ q = u.candidates[c]
    OBVIOUS
  <2>2. s \in Seq(Entry) /\ back \in Seq(Nat \ {0}) /\ Len(s) <= 1
    BY <2>1 DEF Rested, TrackerState, HeadType, Single
  <2>3. Outline(s, back, h, sync, q)
    BY <1>2, <2>1
  <2>4. Followed(s, back, h, Retained(q, Active))
    BY <2>2, <2>3, RetainedFollows
  <2>5. OnceIncluded(q) /\ (IncludedIn(q, Len(q)) <=> Len(s) = 1 /\ Includes(h, s[1].candidate_hash))
    BY <2>2, <2>3, IncludedWas
  <2> QED BY <1>4, <2>1, <2>4, <2>5 DEF Followed
<1>6. IncludedCores(u) = {c \in Cores : Len(t.candidates[c]) = 1 /\ Includes(h, t.candidates[c][1].candidate_hash)}
  BY <1>5 DEF IncludedCores
<1>7. Single(w)
  BY <1>5 DEF Single
<1>8. Outcome(t, h, b, u, w)
  BY <1>2, <1>4, <1>5, <1>6, <1>7 DEF Outcome
<1> QED BY <1>1, <1>3, <1>8

(* Without its records a block changes nothing of what is followed. *)
LEMMA MissingBlock ==
  ASSUME NEW t, Rested(t), Single(t), NEW h, NEW b, ~b.inherent
  PROVE  LET w == maybe_reset_state(t) IN
         /\ inject_block(t, h, b) = t
         /\ Rested(w) /\ Single(w) /\ w.current = t.current
         /\ \A c \in Cores : \A i \in 1..Len(w.candidates[c]) :
              i \in 1..Len(t.candidates[c]) /\ w.candidates[c][i] = t.candidates[c][i]
<1>1. inject_block(t, h, b) = t
  BY DEF inject_block
<1>2. t \in TrackerState
  BY DEF Rested
<1>3. PICK w : w = maybe_reset_state(t)
  OBVIOUS
<1>4. Rested(w) /\ w.current = t.current /\ \A c \in Cores : w.candidates[c] = Retained(t.candidates[c], Active)
  BY <1>2, <1>3, Reset
<1>5. ASSUME NEW c \in Cores
      PROVE  /\ Len(w.candidates[c]) <= 1
             /\ \A i \in 1..Len(w.candidates[c]) :
                  i \in 1..Len(t.candidates[c]) /\ w.candidates[c][i] = t.candidates[c][i]
  <2>1. PICK q \in Seq(Entry) : q = t.candidates[c]
    <3>1. t.candidates[c] \in Seq(Entry)
      BY <1>2 DEF TrackerState
    <3> QED BY <3>1
  <2>2. PICK p : p = w.candidates[c]
    OBVIOUS
  <2>3. /\ p \in Seq(Entry) /\ Len(p) <= Len(q)
        /\ \A i \in 1..Len(p) : \E j \in 1..Len(q) : p[i] = q[j]
    BY <1>4, <2>1, <2>2, RetainedType
  <2>4. Len(q) <= 1
    BY <2>1 DEF Single
  <2>5. \A i \in 1..Len(p) : i = 1 /\ 1 \in 1..Len(q) /\ \A j \in 1..Len(q) : j = 1
    BY <2>3, <2>4
  <2>6. \A i \in 1..Len(p) : i \in 1..Len(q) /\ p[i] = q[i]
    BY <2>3, <2>5
  <2>7. Len(p) <= 1
    BY <2>3, <2>4
  <2> QED BY <2>1, <2>2, <2>6, <2>7
<1> QED BY <1>1, <1>3, <1>4, <1>5 DEF Single

(* The progress of a tracker that rests: nothing is included, no dispute is told. *)
LEMMA RestedProgress ==
  ASSUME NEW t, Rested(t), NEW r, Report(r)
  PROVE  LET q == progress(t, r) IN
         /\ Report(q) /\ Total(q.stats) = Total(r.stats)
         /\ q.stats.included_count = r.stats.included_count
<1>1. PICK q : q = progress(t, r)
  OBVIOUS
<1>2. CASE t.current = NoBlock
  BY <1>1, <1>2 DEF progress
<1>3. CASE t.current # NoBlock
  <2>1. t \in TrackerState /\ Len(t.disputes) = 0
    BY DEF Rested
  <2>2. \A c \in Cores : \A i \in 1..Len(t.candidates[c]) : t.candidates[c][i].state # "Included"
    BY DEF Rested, Active
  <2>3. \A c \in Cores : OnceIncluded(t.candidates[c])
    BY <2>2 DEF OnceIncluded
  <2>4. IncludedCores(t) = {}
    BY <2>2 DEF IncludedCores, IncludedIn
  <2>5. Progress(t, r, q)
    BY <1>1, <1>3, <2>1, <2>3, ProgressMade
  <2>6. Cardinality({}) = 0
    BY FS_EmptySet
  <2>7. Total(r.stats) \in Int /\ r.stats.included_count \in Int
    BY TotalType DEF Report, Statistics
  <2> QED BY <1>1, <2>1, <2>4, <2>5, <2>6, <2>7 DEF Progress
<1> QED BY <1>2, <1>3
-----------------------------------------------------------------------------
(* A head: its one or two blocks in turn, with or without their records. *)

(* Statistics and events so far. *)
Told(s, e) == s \in Statistics /\ Len(s.last_skipped) <= LastSkipped /\ e \in Seq(Events)

(* What the progress of u makes of the statistics s and the events e. *)
Tells(u, s, e, s2, e2) ==
  LET n == Cardinality(IncludedCores(u)) IN
  /\ Told(s2, e2)
  /\ s2.block_times = IF is_fork(u) THEN s.block_times ELSE update(s.block_times, current_block_time(u))
  /\ Total(s2) = Total(s) + (IF is_fork(u) THEN 0 ELSE Len(u.disputes))
  /\ n \in Nat /\ s2.included_count = s.included_count + n
  /\ n = 0 => s2.included_times = s.included_times
  /\ n = 1 => s2.included_times.sum = s.included_times.sum + Distance(u)
  /\ (\A i \in 1..Len(e) : Says(u, e[i])) => \A i \in 1..Len(e2) : Says(u, e2[i])

(* progress() between them, with or without the records. *)
LEMMA InjectTells ==
  ASSUME NEW t, NEW s, NEW m, NEW e, Told(s, e), NEW h, NEW b
  PROVE  LET u == inject_block(t, h, b)
             v == Inject([tracker |-> t, stats |-> s, metrics |-> m, events |-> e], h, b)
         IN /\ v = [tracker |-> v.tracker, stats |-> v.stats, metrics |-> v.metrics, events |-> v.events]
            /\ v.tracker = maybe_reset_state(u)
            /\ u \in TrackerState /\ u.current # NoBlock /\ (\A c \in Cores : OnceIncluded(u.candidates[c]))
                 => Tells(u, s, e, v.stats, v.events)
            /\ Rested(u) => /\ Told(v.stats, v.events) /\ Total(v.stats) = Total(s)
                            /\ v.stats.included_count = s.included_count
<1>1. PICK a : a = [tracker |-> t, stats |-> s, metrics |-> m, events |-> e]
  OBVIOUS
<1>2. PICK u : u = inject_block(t, h, b)
  OBVIOUS
<1>3. PICK r : r = [stats |-> s, metrics |-> m, events |-> e]
  OBVIOUS
<1>4. PICK q : q = progress(u, r)
  OBVIOUS
<1>5. PICK v : v = [tracker |-> maybe_reset_state(u), stats |-> q.stats, metrics |-> q.metrics, events |-> q.events]
  OBVIOUS
<1>6. a.tracker = t /\ a.stats = s /\ a.metrics = m /\ a.events = e
  BY <1>1
<1>7. Inject(a, h, b) = v
  BY <1>2, <1>3, <1>4, <1>5, <1>6 DEF Inject
<1>8. /\ v.tracker = maybe_reset_state(u) /\ v.stats = q.stats /\ v.metrics = q.metrics /\ v.events = q.events
      /\ v = [tracker |-> v.tracker, stats |-> v.stats, metrics |-> v.metrics, events |-> v.events]
  BY <1>5
<1>9. r.stats = s /\ r.metrics = m /\ r.events = e
  BY <1>3
<1>10. Report(r)
  BY <1>3, <1>9 DEF Report, Told
<1>11. ASSUME u \in TrackerState, u.current # NoBlock, \A c \in Cores : OnceIncluded(u.candidates[c])
       PROVE  Tells(u, s, e, v.stats, v.events)
  <2>1. Progress(u, r, q)
    BY <1>4, <1>10, <1>11, ProgressMade
  <2>2. Told(q.stats, q.events)
    BY <2>1 DEF Progress, Report, Told
  <2> QED BY <1>8, <1>9, <2>1, <2>2 DEF Progress, Tells
<1>12. ASSUME Rested(u)
       PROVE  Told(v.stats, v.events) /\ Total(v.stats) = Total(s) /\ v.stats.included_count = s.included_count
  <2>1. Report(q) /\ Total(q.stats) = Total(r.stats) /\ q.stats.included_count = r.stats.included_count
    BY <1>4, <1>10, <1>12, RestedProgress
  <2>2. Told(q.stats, q.events)
    BY <2>1 DEF Report, Told
  <2> QED BY <1>8, <1>9, <2>1, <2>2
<1> QED BY <1>1, <1>2, <1>7, <1>8, <1>11, <1>12

(* The update of a height n. *)
GoodHead(h, n, found) ==
  /\ HeadType(h) /\ Len(h.hashes) \in {1, 2}
  /\ \A i \in {1, 2} : i <= Len(h.hashes) =>
       /\ h.hashes[i] \in Blocks
       /\ h.hashes[i].num = n /\ h.hashes[i].ts = Timestamp(n, i) /\ h.hashes[i].inherent = found

(* What a block of which the records are found makes of tracker, statistics and events. *)
Step(t, s, e, h, b, u, w, s2, e2) == Outcome(t, h, b, u, w) /\ Tells(u, s, e, s2, e2)

(* A block with its records makes a Step. *)
LEMMA InjectStep ==
  ASSUME NEW t, Rested(t), Single(t), NEW s, NEW m, NEW e, Told(s, e),
         NEW h, HeadType(h), NEW b \in Blocks, b.inherent
  PROVE  LET v == Inject([tracker |-> t, stats |-> s, metrics |-> m, events |-> e], h, b)
         IN /\ v = [tracker |-> v.tracker, stats |-> v.stats, metrics |-> v.metrics, events |-> v.events]
            /\ \E u : Step(t, s, e, h, b, u, v.tracker, v.stats, v.events)
<1>1. PICK u : u = inject_block(t, h, b)
  OBVIOUS
<1>2. PICK v : v = Inject([tracker |-> t, stats |-> s, metrics |-> m, events |-> e], h, b)
  OBVIOUS
<1>3. /\ v = [tracker |-> v.tracker, stats |-> v.stats, metrics |-> v.metrics, events |-> v.events]
      /\ v.tracker = maybe_reset_state(u)
      /\ u \in TrackerState /\ u.current # NoBlock /\ (\A c \in Cores : OnceIncluded(u.candidates[c]))
                 => Tells(u, s, e, v.stats, v.events)
  BY <1>1, <1>2, InjectTells
<1>4. Outcome(t, h, b, u, v.tracker)
  BY <1>1, <1>3, InjectedAndReset
<1>5. u \in TrackerState /\ u.current # NoBlock /\ \A c \in Cores : OnceIncluded(u.candidates[c])
  <2>1. u.current.num \in Nat /\ NoBlock.num = -1
    BY <1>4 DEF Outcome, Blocks, NoBlock, Nothing
  <2> QED BY <1>4, <2>1 DEF Outcome
<1>6. Step(t, s, e, h, b, u, v.tracker, v.stats, v.events)
  BY <1>3, <1>4, <1>5 DEF Step
<1> QED BY <1>2, <1>3, <1>6

(* The first block of a height moves the tracker on. *)
First(h, n, u, w, s, e) ==
  /\ Step(tracker, stats, <<>>, h, h.hashes[1], u, w, s, e)
  /\ ~is_fork(u) /\ u.current.num = n /\ w.current.num = n

(* The second one is a fork. *)
Second(h, n, t, s, e, u, w, s2, e2) ==
  Step(t, s, e, h, h.hashes[2], u, w, s2, e2) /\ is_fork(u) /\ w.current.num = n

(* The tracker, the statistics and the events after a head whose records are found. *)
HeadInjected(h, n) ==
  IF Len(h.hashes) = 1
  THEN \E u : First(h, n, u, Injected(h).tracker, Injected(h).stats, Injected(h).events)
  ELSE \E u, w, s, e, u2 :
         /\ First(h, n, u, w, s, e)
         /\ Second(h, n, w, s, e, u2, Injected(h).tracker, Injected(h).stats, Injected(h).events)

(* A head whose records are found: one Step, or two of which the second is a
   fork. *)
LEMMA FoundHead ==
  ASSUME Rested(tracker), Single(tracker), Told(stats, <<>>), NEW n \in Nat, tracker.current.num # n,
         NEW h, GoodHead(h, n, TRUE)
  PROVE  HeadInjected(h, n)
<1>1. PICK v : v = Inject([tracker |-> tracker, stats |-> stats, metrics |-> metrics, events |-> <<>>], h, h.hashes[1])
  OBVIOUS
<1>2. /\ HeadType(h) /\ h.hashes[1] \in Blocks /\ h.hashes[1].inherent /\ h.hashes[1].num = n
      /\ Len(h.hashes) = 2 => h.hashes[2] \in Blocks /\ h.hashes[2].inherent /\ h.hashes[2].num = n
      /\ Len(h.hashes) \in {1, 2}
  BY DEF GoodHead
<1>3. /\ v = [tracker |-> v.tracker, stats |-> v.stats, metrics |-> v.metrics, events |-> v.events]
      /\ \E u : Step(tracker, stats, <<>>, h, h.hashes[1], u, v.tracker, v.stats, v.events)
  BY <1>1, <1>2, InjectStep
<1>4. PICK u : Step(tracker, stats, <<>>, h, h.hashes[1], u, v.tracker, v.stats, v.events)
  BY <1>3
<1>5. First(h, n, u, v.tracker, v.stats, v.events)
  <2>1. u.current.num = n /\ u.previous = tracker.current /\ v.tracker.current = u.current
    BY <1>2, <1>4 DEF Step, Outcome
  <2> QED BY <1>4, <2>1 DEF First, is_fork
<1>6. CASE Len(h.hashes) = 1
  <2>1. Injected(h) = v
    BY <1>1, <1>6 DEF Injected
  <2> QED BY <1>5, <1>6, <2>1 DEF HeadInjected
<1>7. CASE Len(h.hashes) = 2
  <2>1. PICK x : x = Inject(v, h, h.hashes[2])
    OBVIOUS
  <2>2. Injected(h) = x
    BY <1>1, <1>7, <2>1 DEF Injected
  <2>3. PICK t, s, m, e : t = v.tracker /\ s = v.stats /\ m = v.metrics /\ e = v.events
    OBVIOUS
  <2>4. v = [tracker |-> t, stats |-> s, metrics |-> m, events |-> e]
    BY <1>3, <2>3
  <2>5. Rested(t) /\ Single(t) /\ Told(s, e) /\ t.current.num = n
    BY <1>4, <1>5, <2>3 DEF Step, Outcome, Tells, First
  <2>6. \E u2 : Step(t, s, e, h, h.hashes[2], u2, x.tracker, x.stats, x.events)
    BY <1>2, <1>7, <2>1, <2>4, <2>5, InjectStep
  <2>7. PICK u2 : Step(t, s, e, h, h.hashes[2], u2, x.tracker, x.stats, x.events)
    BY <2>6
  <2>8. u2.current.num = n /\ u2.previous = t.current /\ x.tracker.current = u2.current /\ n # Nothing
    BY <1>2, <1>7, <2>7 DEF Step, Outcome, Nothing
  <2>9. Second(h, n, t, s, e, u2, x.tracker, x.stats, x.events)
    BY <2>5, <2>7, <2>8 DEF Second, is_fork
  <2> QED BY <1>5, <1>7, <2>2, <2>3, <2>9 DEF HeadInjected
<1> QED BY <1>2, <1>6, <1>7

(* Without the records of its blocks a head changes nothing of what is followed. *)
Unmoved(a, b) ==
  \A c \in Cores : \A i \in 1..Len(b.candidates[c]) :
    i \in 1..Len(a.candidates[c]) /\ b.candidates[c][i] = a.candidates[c][i]

(* The records of a block are missing: nothing of what is followed changes. *)
Still(t, s, v) ==
  /\ Rested(v.tracker) /\ Single(v.tracker) /\ v.tracker.current = t.current /\ Unmoved(t, v.tracker)
  /\ Told(v.stats, v.events) /\ Total(v.stats) = Total(s) /\ v.stats.included_count = s.included_count

(* A block without its records leaves what is followed and what is counted. *)
LEMMA MissingInjected ==
  ASSUME NEW t, Rested(t), Single(t), NEW s, NEW m, NEW e, Told(s, e), NEW h, NEW b, ~b.inherent
  PROVE  LET v == Inject([tracker |-> t, stats |-> s, metrics |-> m, events |-> e], h, b)
         IN /\ v = [tracker |-> v.tracker, stats |-> v.stats, metrics |-> v.metrics, events |-> v.events]
            /\ Still(t, s, v)
<1>1. PICK v : v = Inject([tracker |-> t, stats |-> s, metrics |-> m, events |-> e], h, b)
  OBVIOUS
<1>2. inject_block(t, h, b) = t
  BY MissingBlock
<1>3. /\ v = [tracker |-> v.tracker, stats |-> v.stats, metrics |-> v.metrics, events |-> v.events]
      /\ v.tracker = maybe_reset_state(t)
      /\ Told(v.stats, v.events) /\ Total(v.stats) = Total(s) /\ v.stats.included_count = s.included_count
  BY <1>1, <1>2, InjectTells
<1>4. PICK w : w = v.tracker
  OBVIOUS
<1>5. Rested(w) /\ Single(w) /\ w.current = t.current /\ Unmoved(t, w)
  BY <1>3, <1>4, MissingBlock DEF Unmoved
<1> QED BY <1>1, <1>3, <1>4, <1>5 DEF Still

(* So do two of them. *)
LEMMA StillBoth ==
  ASSUME NEW t, NEW s, NEW v, NEW x, Still(t, s, v), Still(v.tracker, v.stats, x)
  PROVE  Still(t, s, x)
<1>1. Unmoved(t, x.tracker)
  BY DEF Still, Unmoved
<1> QED BY <1>1 DEF Still

(* So does a head whose records are not found. *)
LEMMA MissingHead ==
  ASSUME Rested(tracker), Single(tracker), Told(stats, <<>>), NEW n \in Nat, NEW h, GoodHead(h, n, FALSE)
  PROVE  Still(tracker, stats, Injected(h))
<1>1. PICK v : v = Inject([tracker |-> tracker, stats |-> stats, metrics |-> metrics, events |-> <<>>], h, h.hashes[1])
  OBVIOUS
<1>2. /\ ~h.hashes[1].inherent /\ Len(h.hashes) \in {1, 2} /\ (Len(h.hashes) = 2 => ~h.hashes[2].inherent)
  BY DEF GoodHead
<1>3. /\ v = [tracker |-> v.tracker, stats |-> v.stats, metrics |-> v.metrics, events |-> v.events]
      /\ Still(tracker, stats, v)
  BY <1>1, <1>2, MissingInjected
<1>4. CASE Len(h.hashes) = 1
  <2>1. Injected(h) = v
    BY <1>1, <1>4 DEF Injected
  <2> QED BY <1>3, <2>1
<1>5. CASE Len(h.hashes) = 2
  <2>1. PICK x : x = Inject(v, h, h.hashes[2])
    OBVIOUS
  <2>2. Injected(h) = x
    BY <1>1, <1>5, <2>1 DEF Injected
  <2>3. PICK t, s, m, e : t = v.tracker /\ s = v.stats /\ m = v.metrics /\ e = v.events
    OBVIOUS
  <2>4. x = Inject([tracker |-> t, stats |-> s, metrics |-> m, events |-> e], h, h.hashes[2])
    BY <1>3, <2>1, <2>3
  <2>5. Rested(t) /\ Single(t) /\ Told(s, e)
    BY <1>3, <2>3 DEF Still
  <2>6. Still(t, s, x)
    BY <1>2, <1>5, <2>4, <2>5, MissingInjected
  <2> QED BY <1>3, <2>2, <2>3, <2>6, StillBoth
<1> QED BY <1>2, <1>4, <1>5
-----------------------------------------------------------------------------
(* NewHead and NewSession: the chain after them. *)
Hashes == Nat \ {0}
Occupant == [hash : Nat, since : Nat]
ChainState ==
  [number : Nat, session : Nat, occ : [Cores -> Occupant], used : SUBSET Hashes, seen : SUBSET Hashes,
   included : SUBSET [hash : Nat, at : Nat], concluded : Nat, forked : BOOLEAN, missing : BOOLEAN]

(* What happens at a height: one block or two, of which the second may find more hashes named. *)
ForkType(f, n, Named) ==
  /\ f.out \in [Cores -> {"keep", "include", "timeout"}] /\ f.back \in [Cores -> 0..MaxCandidates]
  /\ f.out \in Outs(n) /\ f.back \in Backs(n, f.out, Named)

HeadForks(n, forks) ==
  /\ Len(forks) \in {1, 2} /\ DOMAIN forks = 1..Len(forks)
  /\ ForkType(forks[1], n, chain.seen)
  /\ Len(forks) = 2 => ForkType(forks[2], n, chain.seen \cup Backed(forks[1]))

(* The types of what may happen at a height. *)
LEMMA PossibleType ==
  ASSUME NEW n, NEW Named, NEW f \in Possible(n, Named)
  PROVE  ForkType(f, n, Named)
<1>1. f \in Forks(n, Named) /\ f.back \in Backs(n, f.out, Named)
  BY DEF Possible
<1>2. PICK o \in Outs(n) : \E k : f = [out |-> o, back |-> k]
  BY <1>1 DEF Forks
<1>3. f.out \in Outs(n)
  BY <1>2
<1>4. f.out \in [Cores -> {"keep", "include", "timeout"}]
  BY <1>3 DEF Outs
<1>5. f.back \in [Cores -> 0..MaxCandidates]
  BY <1>1 DEF Backs
<1> QED BY <1>1, <1>3, <1>4, <1>5 DEF ForkType

(* The head that is injected, and what it makes of everything. *)
HeadTaken(n, forks, survivor, disputes, found, h) ==
  /\ n = chain.number + 1 /\ HeadForks(n, forks) /\ survivor \in 1..Len(forks)
  /\ disputes \in Seq(Disputes) /\ found \in BOOLEAN
  /\ h = Update(n, forks, found, disputes)
  /\ tracker' = Injected(h).tracker /\ stats' = Injected(h).stats /\ events' = Injected(h).events
  /\ chain' = [chain EXCEPT
               !.number = n,
               !.occ = Occupied(forks[survivor], n),
               !.used = @ \cup Backed(forks[survivor]),
               !.seen = @ \cup AllBacked(h),
               !.included = @ \cup {[hash |-> k.hash, at |-> n] :
                                      k \in {i \in h.included : \A m \in chain.included : m.hash # i.hash}},
               !.concluded = @ + Len(Stated(disputes)),
               !.forked = @ \/ Len(forks) > 1,
               !.missing = @ \/ ~found]

(* NewHead with its choices named. *)
LEMMA TakeHead ==
  ASSUME NewHead
  PROVE  \E n, forks, survivor, disputes, found, h : HeadTaken(n, forks, survivor, disputes, found, h)
<1>1. PICK n : n = chain.number + 1
  OBVIOUS
<1>2. \E first \in Possible(n, chain.seen) : \E forks \in Chains(n, first) :
        \E survivor \in DOMAIN forks, disputes \in DisputesOf(n), found \in {TRUE, n \notin MissingAt} :
          Grow(n, forks, survivor, disputes, found)
  BY <1>1, Zenon DEF NewHead
<1>3. PICK first \in Possible(n, chain.seen) : \E forks \in Chains(n, first) :
        \E survivor \in DOMAIN forks, disputes \in DisputesOf(n), found \in {TRUE, n \notin MissingAt} :
          Grow(n, forks, survivor, disputes, found)
  BY <1>2
<1>4. PICK forks \in Chains(n, first) :
        \E survivor \in DOMAIN forks, disputes \in DisputesOf(n), found \in {TRUE, n \notin MissingAt} :
          Grow(n, forks, survivor, disputes, found)
  BY <1>3
<1>5. PICK survivor \in DOMAIN forks, disputes \in DisputesOf(n), found \in {TRUE, n \notin MissingAt} :
          Grow(n, forks, survivor, disputes, found)
  BY <1>4
<1>6. PICK h : h = Update(n, forks, found, disputes)
  OBVIOUS
<1>7. HeadForks(n, forks)
  <2>1. CASE forks = <<first>>
    <3>1. Len(forks) = 1 /\ DOMAIN forks = 1..Len(forks) /\ forks[1] = first
      BY <2>1
    <3> QED BY <3>1, PossibleType DEF HeadForks
  <2>2. CASE forks # <<first>>
    <3>1. PICK f \in Possible(n, chain.seen \cup Backed(first)) : forks = <<first, f>>
      BY <1>4, <2>2 DEF Chains
    <3>2. Len(forks) = 2 /\ DOMAIN forks = 1..Len(forks) /\ forks[1] = first /\ forks[2] = f
      BY <3>1
    <3> QED BY <3>2, PossibleType DEF HeadForks
  <2> QED BY <2>1, <2>2
<1>8. disputes \in Seq(Disputes)
  <2>1. CASE disputes = <<>>
    BY <2>1
  <2>2. CASE disputes # <<>>
    <3>1. PICK d \in Disputes : disputes = <<d>>
      BY <1>5, <2>2 DEF DisputesOf
    <3> QED BY <3>1
  <2> QED BY <2>1, <2>2
<1>9. survivor \in 1..Len(forks)
  BY <1>7 DEF HeadForks
<1>10. tracker' = Injected(h).tracker /\ stats' = Injected(h).stats /\ events' = Injected(h).events
  <2>1. watch_node_for_parachain(h)
    BY <1>5, <1>6, Zenon DEF Grow
  <2> QED BY <2>1, Zenon DEF watch_node_for_parachain
<1>11. chain' = [chain EXCEPT
               !.number = n,
               !.occ = Occupied(forks[survivor], n),
               !.used = @ \cup Backed(forks[survivor]),
               !.seen = @ \cup AllBacked(h),
               !.included = @ \cup {[hash |-> k.hash, at |-> n] :
                                      k \in {i \in h.included : \A m \in chain.included : m.hash # i.hash}},
               !.concluded = @ + Len(Stated(disputes)),
               !.forked = @ \/ Len(forks) > 1,
               !.missing = @ \/ ~found]
  BY <1>5, <1>6, Zenon DEF Grow
<1>12. found \in BOOLEAN
  OBVIOUS
<1>13. HeadTaken(n, forks, survivor, disputes, found, h)
  BY <1>1, <1>6, <1>7, <1>8, <1>9, <1>10, <1>11, <1>12, Zenon DEF HeadTaken
<1> QED BY <1>13

(* The records of a block. *)
LEMMA BlockType ==
  ASSUME NEW n \in Nat, NEW fork \in Nat, NEW f, NEW found \in BOOLEAN
  PROVE  LET b == Block(n, fork, f, found) IN
         b \in Blocks /\ b.num = n /\ b.ts = Timestamp(n, fork) /\ b.inherent = found
<1>1. Timestamp(n, fork) \in Int
  BY DEF Timestamp
<1>2. PICK bits : bits = [c \in Cores |-> (n + c) % 4]
  OBVIOUS
<1>3. bits \in [Cores -> Int]
  <2>1. \A c \in Cores : (n + c) % 4 \in Int
    BY TrackerAssumption DEF Cores
  <2> QED BY <1>2, <2>1
<1>4. PICK occupied : occupied = [c \in Cores |-> Occupied(f, n)[c].hash # NoCandidate]
  OBVIOUS
<1>5. occupied \in [Cores -> BOOLEAN]
  BY <1>4
<1>6. PICK finalized : finalized = IF n < 2 THEN Nothing ELSE n - 2
  OBVIOUS
<1>7. finalized \in Int
  BY <1>6 DEF Nothing
<1>8. AssignedAt(n) \in SUBSET Cores
  BY DEF AssignedAt
<1>9. PICK b : b = [num |-> n, ts |-> Timestamp(n, fork), inherent |-> found, bits |-> bits, validators |-> 3,
                    assigned |-> AssignedAt(n), occupied |-> occupied, finalized |-> finalized, messages |-> n % 2 = 0]
  OBVIOUS
<1>10. b \in Blocks
  BY <1>1, <1>3, <1>5, <1>7, <1>8, <1>9 DEF Blocks
<1>11. Block(n, fork, f, found) = b
  BY <1>2, <1>4, <1>6, <1>9 DEF Block
<1> QED BY <1>9, <1>10, <1>11

(* A candidate is in the update for a core if it is backed there, and seen for the first time. *)
LEMMA FirstSeenType ==
  ASSUME NEW n, NEW forks, HeadForks(n, forks), NEW i \in 1..Len(forks), NEW c \in Cores
  PROVE  FirstSeen(forks, i, c) \in Seq(Hashes)
<1>1. PICK hash : hash = forks[i].back[c]
  OBVIOUS
<1>2. hash \in 0..MaxCandidates
  BY <1>1 DEF HeadForks, ForkType
<1>3. hash # NoCandidate => hash \in Hashes
  BY <1>2, TrackerAssumption DEF NoCandidate, Hashes
<1> QED BY <1>1, <1>3 DEF FirstSeen

(* The update of a head, as the tracker needs it. *)
LEMMA UpdateType ==
  ASSUME NEW n \in Nat, NEW forks, HeadForks(n, forks), NEW found \in BOOLEAN, NEW disputes \in Seq(Disputes)
  PROVE  LET h == Update(n, forks, found, disputes) IN
         /\ GoodHead(h, n, found) /\ Len(h.hashes) = Len(forks) /\ h.disputes = disputes
         /\ h.included = Left(forks, "include")
         /\ \A c \in Cores : h.backed[c] = FirstSeen(forks, 1, c) \o
                 IF Len(forks) = 1 THEN <<>> ELSE FirstSeen(forks, 2, c)
<1>1. PICK hashes : hashes = [i \in DOMAIN forks |-> Block(n, i, forks[i], found)]
  OBVIOUS
<1>2. PICK backed : backed = [c \in Cores |-> FirstSeen(forks, 1, c) \o
                 IF Len(forks) = 1 THEN <<>> ELSE FirstSeen(forks, 2, c)]
  OBVIOUS
<1>3. PICK h : h = Update(n, forks, found, disputes)
  OBVIOUS
<1>4. /\ h.hashes = hashes /\ h.backed = backed /\ h.included = Left(forks, "include") /\ h.disputes = disputes
  BY <1>1, <1>2, <1>3, Zenon DEF Update
<1>5. hashes \in Seq(Blocks) /\ Len(hashes) = Len(forks)
      /\ \A i \in 1..Len(forks) : hashes[i] \in Blocks /\ hashes[i].num = n /\ hashes[i].ts = Timestamp(n, i) /\ hashes[i].inherent = found
  <2>1. Len(forks) \in Nat /\ DOMAIN forks = 1..Len(forks)
    BY DEF HeadForks
  <2>2. hashes = [i \in 1..Len(forks) |-> hashes[i]] /\ \A i \in 1..Len(forks) : hashes[i] = Block(n, i, forks[i], found)
    BY <1>1, <2>1, Zenon
  <2>3. \A i \in 1..Len(forks) : hashes[i] \in Blocks /\ hashes[i].num = n /\ hashes[i].ts = Timestamp(n, i) /\ hashes[i].inherent = found
    BY <2>2, BlockType
  <2> QED BY <2>1, <2>2, <2>3, SequenceOf
<1>6. ASSUME NEW c \in Cores PROVE backed[c] \in Seq(Hashes)
  <2>1. FirstSeen(forks, 1, c) \in Seq(Hashes)
    <3>1. 1 \in 1..Len(forks)
      BY DEF HeadForks
    <3> QED BY <3>1, FirstSeenType
  <2>2. CASE Len(forks) = 1
    <3>1. backed[c] = FirstSeen(forks, 1, c) \o <<>>
      BY <1>2, <2>2
    <3> QED BY <2>1, <3>1
  <2>3. CASE Len(forks) = 2
    <3>1. FirstSeen(forks, 2, c) \in Seq(Hashes)
      <4>1. 2 \in 1..Len(forks)
        BY <2>3
      <4> QED BY <4>1, FirstSeenType
    <3>2. backed[c] = FirstSeen(forks, 1, c) \o FirstSeen(forks, 2, c)
      BY <1>2, <2>3
    <3> QED BY <2>1, <3>1, <3>2
  <2> QED BY <2>2, <2>3 DEF HeadForks
<1>7. HeadType(h)
  <2>1. backed \in [Cores -> Seq(Hashes)]
    BY <1>2, <1>6
  <2> QED BY <1>4, <2>1 DEF HeadType, Hashes
<1>8. \A i \in {1, 2} : i <= Len(hashes) => i \in 1..Len(forks)
  BY <1>5
<1>9. GoodHead(h, n, found)
  BY <1>4, <1>5, <1>7, <1>8 DEF GoodHead, HeadForks
<1>10. \A c \in Cores : h.backed[c] = FirstSeen(forks, 1, c) \o
                 IF Len(forks) = 1 THEN <<>> ELSE FirstSeen(forks, 2, c)
  BY <1>2, <1>4
<1> QED BY <1>3, <1>4, <1>5, <1>9, <1>10

(* The cores after a block. *)
LEMMA OccupiedType ==
  ASSUME chain \in ChainState, NEW n \in Nat, NEW f, NEW Named, ForkType(f, n, Named)
  PROVE  Occupied(f, n) \in [Cores -> Occupant] /\ Backed(f) \in SUBSET Hashes
<1>1. \A c \in Cores : f.back[c] \in Nat /\ chain.occ[c] \in Occupant
  <2>1. 0..MaxCandidates \subseteq Nat
    BY TrackerAssumption
  <2> QED BY <2>1 DEF ChainState, ForkType
<1>2. NoOccupant \in Occupant
  BY DEF NoOccupant, Occupant, NoCandidate
<1>3. \A c \in Cores : [hash |-> f.back[c], since |-> n] \in Occupant
  BY <1>1 DEF Occupant
<1>4. Occupied(f, n) \in [Cores -> Occupant]
  BY <1>1, <1>2, <1>3 DEF Occupied
<1>5. Backed(f) \in SUBSET Hashes
  BY <1>1 DEF Backed, Hashes, NoCandidate
<1> QED BY <1>4, <1>5

(* An update reports hashes backed. *)
LEMMA AllBackedType ==
  ASSUME NEW h, HeadType(h)
  PROVE  AllBacked(h) \subseteq Hashes
BY DEF AllBacked, HeadType, Hashes

(* The number of stated disputes is a number. *)
LEMMA StatedLength ==
  ASSUME NEW disputes \in Seq(Disputes)
  PROVE  Len(Stated(disputes)) \in Nat
<1>1. {i \in DOMAIN disputes : disputes[i].stated} \subseteq 1..Len(disputes)
  OBVIOUS
<1> QED BY <1>1, KeptType DEF Stated

(* The candidates that leave their cores in an update occupied them. *)
LEMMA LeftType ==
  ASSUME chain \in ChainState, NEW forks, NEW how
  PROVE  \A k \in Left(forks, how) : k.hash \in Nat /\ \E c \in Cores : k.hash = chain.occ[c].hash
<1>1. SUFFICES ASSUME NEW k \in Left(forks, how) PROVE \E c \in Cores : k.hash = chain.occ[c].hash /\ k.hash \in Nat
  OBVIOUS
<1>2. PICK p \in (DOMAIN forks) \X Cores : k = [hash |-> chain.occ[p[2]].hash, fork |-> p[1]]
  BY <1>1 DEF Left
<1> QED BY <1>2 DEF ChainState, Occupant

(* What a head makes of the chain. *)
LEMMA ChainGrows ==
  ASSUME chain \in ChainState, NEW n, NEW forks, NEW survivor, NEW disputes, NEW found, NEW h,
         HeadTaken(n, forks, survivor, disputes, found, h)
  PROVE  /\ chain' \in ChainState /\ n \in Nat
         /\ chain'.number = n /\ chain'.occ = Occupied(forks[survivor], n)
         /\ chain'.used = chain.used \cup Backed(forks[survivor])
         /\ chain'.seen = chain.seen \cup AllBacked(h)
         /\ chain'.included = chain.included \cup {[hash |-> k.hash, at |-> n] :
                k \in {i \in h.included : \A m \in chain.included : m.hash # i.hash}}
         /\ chain'.concluded = chain.concluded + Len(Stated(disputes))
         /\ chain'.forked = (chain.forked \/ Len(forks) > 1)
         /\ chain'.missing = (chain.missing \/ ~found)
         /\ GoodHead(h, n, found) /\ Len(h.hashes) = Len(forks) /\ h.disputes = disputes
         /\ h.included = Left(forks, "include")
<1>1. /\ n = chain.number + 1 /\ HeadForks(n, forks) /\ survivor \in 1..Len(forks)
      /\ disputes \in Seq(Disputes) /\ found \in BOOLEAN
      /\ h = Update(n, forks, found, disputes)
  BY DEF HeadTaken
<1>2. n \in Nat
  BY <1>1 DEF ChainState
<1>3. /\ GoodHead(h, n, found) /\ Len(h.hashes) = Len(forks) /\ h.disputes = disputes
      /\ h.included = Left(forks, "include")
  BY <1>1, <1>2, UpdateType
<1>4. PICK occ, used, seen, new, concluded, forked, missing :
        /\ occ = Occupied(forks[survivor], n) /\ used = chain.used \cup Backed(forks[survivor])
        /\ seen = chain.seen \cup AllBacked(h)
        /\ new = {[hash |-> k.hash, at |-> n] : k \in {i \in h.included : \A m \in chain.included : m.hash # i.hash}}
        /\ concluded = chain.concluded + Len(Stated(disputes))
        /\ forked = (chain.forked \/ Len(forks) > 1)
        /\ missing = (chain.missing \/ ~found)
  OBVIOUS
<1>5. chain' = [chain EXCEPT !.number = n, !.occ = occ, !.used = used, !.seen = seen,
                             !.included = chain.included \cup new, !.concluded = concluded,
                             !.forked = forked, !.missing = missing]
  BY <1>4 DEF HeadTaken
<1>6. ForkType(forks[survivor], n, chain.seen) \/ ForkType(forks[survivor], n, chain.seen \cup Backed(forks[1]))
  BY <1>1 DEF HeadForks
<1>7. occ \in [Cores -> Occupant] /\ used \in SUBSET Hashes
  BY <1>2, <1>4, <1>6, OccupiedType DEF ChainState
<1>8. seen \in SUBSET Hashes
  BY <1>3, <1>4, AllBackedType DEF GoodHead, ChainState
<1>9. new \in SUBSET [hash : Nat, at : Nat]
  <2>1. \A k \in h.included : k.hash \in Nat
    BY <1>3, LeftType
  <2> QED BY <1>2, <1>4, <2>1
<1>10. concluded \in Nat
  <2>1. chain.concluded \in Nat
    BY DEF ChainState
  <2> QED BY <1>1, <1>4, <2>1, StatedLength
<1>11. forked \in BOOLEAN /\ missing \in BOOLEAN
  BY <1>4
<1>12. chain.included \cup new \in SUBSET [hash : Nat, at : Nat]
  BY <1>9 DEF ChainState
<1>13. chain' \in ChainState
  BY <1>2, <1>5, <1>7, <1>8, <1>10, <1>11, <1>12 DEF ChainState
<1>14. /\ chain'.number = n /\ chain'.occ = occ /\ chain'.used = used /\ chain'.seen = seen
       /\ chain'.included = chain.included \cup new /\ chain'.concluded = concluded
       /\ chain'.forked = forked /\ chain'.missing = missing
  BY <1>5 DEF ChainState
<1> QED BY <1>2, <1>3, <1>4, <1>13, <1>14

-----------------------------------------------------------------------------
(* The invariant of types and counts. *)

(* The inductive invariant of the tracker between two updates, whatever the forks. *)
Between ==
  /\ chain \in ChainState
  /\ Rested(tracker) /\ Single(tracker) /\ Told(stats, events)
  /\ tracker.current.num <= chain.number

(* What has been counted, of disputes and of block times. *)
CountedDisputes ==
  Total(stats) <= chain.concluded /\ (~chain.missing => Total(stats) = chain.concluded)
Timed ==
  ~chain.missing =>
    IF chain.number = 0
    THEN /\ tracker.current_ts = Nothing /\ stats.block_times.sum = 0 /\ stats.block_times.num = 0
    ELSE /\ tracker.current.num = chain.number /\ tracker.current_ts = Timestamp(chain.number, 1)
         /\ stats.block_times.sum = Timestamp(chain.number, 1) - Timestamp(1, 1)
         /\ stats.block_times.num = chain.number

(* At first nothing is followed and nothing is counted. *)
LEMMA BetweenInit == Init => Between /\ CountedDisputes /\ Timed
<1> SUFFICES ASSUME Init PROVE Between /\ CountedDisputes /\ Timed
  OBVIOUS
<1>1. chain \in ChainState /\ chain.number = 0 /\ chain.concluded = 0
  <2>1. [c \in Cores |-> NoOccupant] \in [Cores -> Occupant]
    BY DEF NoOccupant, Occupant, NoCandidate
  <2> QED BY <2>1 DEF Init, ChainState
<1>2. tracker \in TrackerState /\ tracker.candidates = [c \in Cores |-> <<>>] /\ tracker.disputes = <<>>
      /\ tracker.current = NoBlock /\ tracker.current_ts = Nothing
  <2>1. NoBlock \in At /\ Nothing \in Int
    BY DEF NoBlock, At, Nothing
  <2>2. [c \in Cores |-> <<>>] \in [Cores -> Seq(Entry)]
    OBVIOUS
  <2> QED BY <2>1, <2>2 DEF Init, NewTracker, TrackerState
<1>3. Rested(tracker) /\ Single(tracker)
  BY <1>2 DEF Rested, Single
<1>4. stats \in Statistics /\ stats.last_skipped = <<>> /\ Total(stats) = 0
      /\ stats.block_times.sum = 0 /\ stats.block_times.num = 0
  <2>1. NewBucket \in Bucket /\ NewBucket.sum = 0 /\ NewBucket.num = 0
    BY DEF NewBucket, Bucket, Highest
  <2>2. [o \in Outcomes |-> 0] \in [Outcomes -> Int]
    OBVIOUS
  <2>3. stats \in Statistics /\ stats.last_skipped = <<>> /\ stats.block_times = NewBucket
        /\ stats.disputed = [o \in Outcomes |-> 0]
    BY <2>1, <2>2 DEF Init, NewStats, Statistics
  <2>4. Total(stats) = 0
    BY <2>3 DEF Total, Outcomes
  <2> QED BY <2>1, <2>3, <2>4
<1>5. Told(stats, events)
  BY <1>4, LastSkippedAssumption DEF Told, Init
<1>6. tracker.current.num <= 0
  BY <1>2 DEF NoBlock, Nothing
<1> QED BY <1>1, <1>2, <1>3, <1>4, <1>5, <1>6 DEF Between, CountedDisputes, Timed

(* NewSession frees the cores and tells the tracker the session, nothing more. *)
LEMMA SessionKeeps ==
  ASSUME Between, NewSession
  PROVE  /\ Between' /\ (CountedDisputes => CountedDisputes') /\ (Timed => Timed')
         /\ tracker'.candidates = tracker.candidates /\ stats' = stats /\ events' = events
         /\ chain'.occ = [c \in Cores |-> NoOccupant] /\ chain'.used = chain.used /\ chain'.seen = chain.seen
         /\ chain'.included = chain.included /\ chain'.forked = chain.forked /\ chain'.missing = chain.missing
         /\ tracker'.last_included = tracker.last_included /\ tracker'.backing_type = tracker.backing_type
         /\ chain'.number = chain.number
<1>1. chain \in ChainState /\ tracker \in TrackerState
  BY DEF Between, Rested
<1>2. [c \in Cores |-> NoOccupant] \in [Cores -> Occupant]
  BY DEF NoOccupant, Occupant, NoCandidate
<1>3. chain' = [chain EXCEPT !.session = chain.number + 1, !.occ = [c \in Cores |-> NoOccupant]]
  BY DEF NewSession
<1>4. PICK session : session = chain.number + 1 /\ session \in Nat
  BY <1>1 DEF ChainState
<1>5. /\ chain' \in ChainState /\ chain'.session = session /\ chain'.number = chain.number
      /\ chain'.occ = [c \in Cores |-> NoOccupant] /\ chain'.used = chain.used /\ chain'.seen = chain.seen
      /\ chain'.included = chain.included /\ chain'.forked = chain.forked /\ chain'.missing = chain.missing
      /\ chain'.concluded = chain.concluded
  BY <1>1, <1>2, <1>3, <1>4 DEF ChainState
<1>6. tracker' = [tracker EXCEPT !.new_session = session] /\ stats' = stats /\ events' = events
  BY <1>5 DEF NewSession
<1>7. /\ tracker' \in TrackerState /\ tracker'.candidates = tracker.candidates /\ tracker'.disputes = tracker.disputes
      /\ tracker'.current = tracker.current /\ tracker'.current_ts = tracker.current_ts
      /\ tracker'.last_included = tracker.last_included /\ tracker'.backing_type = tracker.backing_type
  <2>1. PICK t, u : t = tracker /\ u = [t EXCEPT !.new_session = session]
    OBVIOUS
  <2>2. t \in TrackerState /\ session \in Int
    BY <1>1, <1>4, <2>1
  <2>3. /\ u \in TrackerState /\ u.candidates = t.candidates /\ u.disputes = t.disputes
        /\ u.current = t.current /\ u.current_ts = t.current_ts
        /\ u.last_included = t.last_included /\ u.backing_type = t.backing_type
    BY <2>1, <2>2 DEF TrackerState
  <2>4. tracker' = u
    BY <1>6, <2>1
  <2> QED BY <2>1, <2>3, <2>4
<1>8. Between'
  BY <1>5, <1>6, <1>7 DEF Between, Rested, Single
<1>9. (CountedDisputes => CountedDisputes') /\ (Timed => Timed')
  BY <1>5, <1>6, <1>7 DEF CountedDisputes, Timed, Total
<1> QED BY <1>5, <1>6, <1>7, <1>8, <1>9

(* The blocks of a height are injected in turn: a first one, and a fork perhaps. *)
LEMMA HeadCases ==
  ASSUME Between, NEW n, NEW forks, NEW survivor, NEW disputes, NEW found, NEW h,
         HeadTaken(n, forks, survivor, disputes, found, h)
  PROVE  \/ ~found /\ Still(tracker, stats, [tracker |-> tracker', stats |-> stats', events |-> events'])
         \/ found /\ Len(forks) = 1 /\ \E u : First(h, n, u, tracker', stats', events')
         \/ /\ found /\ Len(forks) = 2
            /\ \E u, w, s, e, u2 : First(h, n, u, w, s, e) /\ Second(h, n, w, s, e, u2, tracker', stats', events')
<1>1. n \in Nat /\ GoodHead(h, n, found) /\ Len(h.hashes) = Len(forks)
  BY ChainGrows DEF Between
<1>2. found \in BOOLEAN /\ Len(forks) \in {1, 2} /\ n = chain.number + 1
      /\ tracker' = Injected(h).tracker /\ stats' = Injected(h).stats /\ events' = Injected(h).events
  BY DEF HeadTaken, HeadForks
<1>3. Rested(tracker) /\ Single(tracker) /\ Told(stats, <<>>)
  BY DEF Between, Told
<1>4. CASE ~found
  <2>1. Still(tracker, stats, Injected(h))
    BY <1>1, <1>2, <1>3, <1>4, MissingHead
  <2> QED BY <1>2, <1>4, <2>1 DEF Still
<1>5. CASE found
  <2>1. tracker.current.num # n
    <3>1. tracker.current.num \in Int /\ chain.number \in Int /\ tracker.current.num <= chain.number
      BY DEF Between, Rested, TrackerState, At, ChainState
    <3> QED BY <1>2, <3>1
  <2>2. HeadInjected(h, n)
    BY <1>1, <1>2, <1>3, <1>5, <2>1, FoundHead
  <2>3. CASE Len(forks) = 1
    BY <1>1, <1>2, <1>5, <2>2, <2>3 DEF HeadInjected
  <2>4. CASE Len(forks) = 2
    BY <1>1, <1>2, <1>5, <2>2, <2>4 DEF HeadInjected
  <2> QED BY <1>2, <2>3, <2>4
<1> QED BY <1>2, <1>4, <1>5

(* What the first block of a height counts: its disputes and the time since the
   last height. *)
LEMMA FirstBlock ==
  ASSUME NEW h, NEW n, NEW u, NEW w, NEW s, NEW e, First(h, n, u, w, s, e), Told(stats, <<>>)
  PROVE  /\ Rested(w) /\ Single(w) /\ Told(s, e) /\ w.current.num = n
         /\ Total(s) = Total(stats) + Len(Stated(h.disputes))
         /\ s.block_times = update(stats.block_times, current_block_time(u))
         /\ u.last_ts = tracker.current_ts /\ w.current_ts = h.hashes[1].ts /\ u.current.ts = h.hashes[1].ts
<1>1. Outcome(tracker, h, h.hashes[1], u, w) /\ Tells(u, stats, <<>>, s, e) /\ ~is_fork(u) /\ w.current.num = n
  BY DEF First, Step
<1>2. u.current.ts = h.hashes[1].ts
  BY <1>1 DEF Outcome
<1> QED BY <1>1, <1>2 DEF Outcome, Tells

(* What the second one, a fork, counts: neither. *)
LEMMA SecondBlock ==
  ASSUME NEW h, NEW n, NEW u, NEW t, NEW w, NEW s, NEW e, NEW s2, NEW e2, Second(h, n, t, s, e, u, w, s2, e2),
         s \in Statistics
  PROVE  /\ Rested(w) /\ Single(w) /\ Told(s2, e2) /\ w.current.num = n
         /\ Total(s2) = Total(s) /\ s2.block_times = s.block_times /\ w.current_ts = t.current_ts
<1>1. Outcome(t, h, h.hashes[2], u, w) /\ Tells(u, s, e, s2, e2) /\ is_fork(u) /\ w.current.num = n
  BY DEF Second, Step
<1>2. Total(s) \in Int
  BY TotalType
<1> QED BY <1>1, <1>2 DEF Outcome, Tells

(* What every head does, whatever the forks and the records that are found. *)
LEMMA HeadCounts ==
  ASSUME Between, NEW n, NEW forks, NEW survivor, NEW disputes, NEW found, NEW h,
         HeadTaken(n, forks, survivor, disputes, found, h)
  PROVE  /\ Rested(tracker') /\ Single(tracker') /\ Told(stats', events') /\ tracker'.current.num <= n
         /\ Total(stats') = Total(stats) + (IF found THEN Len(Stated(disputes)) ELSE 0)
         /\ found => \E u : /\ stats'.block_times = update(stats.block_times, current_block_time(u))
                            /\ u.last_ts = tracker.current_ts /\ u.current.ts = Timestamp(n, 1)
                            /\ tracker'.current_ts = Timestamp(n, 1) /\ tracker'.current.num = n
<1>1. n \in Nat /\ GoodHead(h, n, found) /\ Len(h.hashes) = Len(forks) /\ h.disputes = disputes
  BY ChainGrows DEF Between
<1>2. h.hashes[1].ts = Timestamp(n, 1)
  BY <1>1 DEF GoodHead
<1>3. Told(stats, <<>>) /\ Total(stats) \in Int
  BY TotalType DEF Between, Told
<1>4. CASE ~found /\ Still(tracker, stats, [tracker |-> tracker', stats |-> stats', events |-> events'])
  <2>1. /\ Rested(tracker') /\ Single(tracker') /\ Told(stats', events') /\ tracker'.current = tracker.current
        /\ Total(stats') = Total(stats)
    BY <1>4 DEF Still
  <2>2. tracker.current.num <= n
    <3>1. tracker.current.num \in Int /\ chain.number \in Int /\ tracker.current.num <= chain.number
      BY DEF Between, Rested, TrackerState, At, ChainState
    <3>2. n = chain.number + 1
      BY DEF HeadTaken
    <3> QED BY <3>1, <3>2
  <2> QED BY <1>3, <1>4, <2>1, <2>2
<1>5. CASE found /\ Len(forks) = 1 /\ \E u : First(h, n, u, tracker', stats', events')
  <2>1. PICK u : First(h, n, u, tracker', stats', events')
    BY <1>5
  <2>2. /\ Rested(tracker') /\ Single(tracker') /\ Told(stats', events') /\ tracker'.current.num = n
        /\ Total(stats') = Total(stats) + Len(Stated(h.disputes))
        /\ stats'.block_times = update(stats.block_times, current_block_time(u))
        /\ u.last_ts = tracker.current_ts /\ tracker'.current_ts = h.hashes[1].ts /\ u.current.ts = h.hashes[1].ts
    BY <1>3, <2>1, FirstBlock
  <2> QED BY <1>1, <1>2, <1>5, <2>2
<1>6. CASE /\ found /\ Len(forks) = 2
           /\ \E u, w, s, e, u2 : First(h, n, u, w, s, e) /\ Second(h, n, w, s, e, u2, tracker', stats', events')
  <2>1. PICK u, w, s, e, u2 : First(h, n, u, w, s, e) /\ Second(h, n, w, s, e, u2, tracker', stats', events')
    BY <1>6
  <2>2. /\ Told(s, e) /\ w.current.num = n
        /\ Total(s) = Total(stats) + Len(Stated(h.disputes))
        /\ s.block_times = update(stats.block_times, current_block_time(u))
        /\ u.last_ts = tracker.current_ts /\ w.current_ts = h.hashes[1].ts /\ u.current.ts = h.hashes[1].ts
    BY <1>3, <2>1, FirstBlock
  <2>3. /\ Rested(tracker') /\ Single(tracker') /\ Told(stats', events') /\ tracker'.current.num = n
        /\ Total(stats') = Total(s) /\ stats'.block_times = s.block_times /\ tracker'.current_ts = w.current_ts
    BY <2>1, <2>2, SecondBlock DEF Told
  <2> QED BY <1>1, <1>2, <1>6, <2>2, <2>3
<1> QED BY <1>4, <1>5, <1>6, HeadCases

(* The timestamps of the chain grow. *)
LEMMA TimestampGrows ==
  ASSUME NEW n \in Nat
  PROVE  Timestamp(n, 1) \in Nat /\ Timestamp(n, 1) > 0 /\ Timestamp(n + 1, 1) > Timestamp(n, 1)
<1>1. n \div 3 \in Nat /\ (n + 1) \div 3 \in Nat /\ (n + 1) \div 3 >= n \div 3
  OBVIOUS
<1> QED BY <1>1 DEF Timestamp

(* NewHead keeps the invariant of the counts. *)
LEMMA HeadKeeps ==
  ASSUME Between, CountedDisputes, Timed, NewHead
  PROVE  Between' /\ CountedDisputes' /\ Timed'
<1>1. PICK n, forks, survivor, disputes, found, h : HeadTaken(n, forks, survivor, disputes, found, h)
  BY TakeHead
<1>2. /\ chain' \in ChainState /\ n \in Nat /\ chain'.number = n
      /\ chain'.concluded = chain.concluded + Len(Stated(disputes))
      /\ chain'.missing = (chain.missing \/ ~found)
  BY <1>1, ChainGrows DEF Between
<1>3. /\ Rested(tracker') /\ Single(tracker') /\ Told(stats', events') /\ tracker'.current.num <= n
      /\ Total(stats') = Total(stats) + (IF found THEN Len(Stated(disputes)) ELSE 0)
  BY <1>1, HeadCounts
<1>4. Between'
  BY <1>2, <1>3 DEF Between
<1>5. CountedDisputes'
  <2>1. Len(Stated(disputes)) \in Nat
    BY <1>1, StatedLength DEF HeadTaken
  <2>2. Total(stats) \in Int /\ chain.concluded \in Nat
    BY TotalType DEF Between, Told, ChainState
  <2>3. Total(stats)' = Total(stats')
    OBVIOUS
  <2>4. found \in BOOLEAN
    BY <1>1 DEF HeadTaken
  <2>5. PICK a, b, k, d : a = Total(stats) /\ b = chain.concluded /\ k = Len(Stated(disputes)) /\ d = Total(stats')
    OBVIOUS
  <2>6. d <= b + k /\ (~chain.missing /\ found => d = b + k)
    BY <1>3, <2>1, <2>2, <2>4, <2>5 DEF CountedDisputes
  <2> QED BY <1>2, <2>3, <2>5, <2>6 DEF CountedDisputes
<1>6. Timed'
  <2>1. SUFFICES ASSUME ~chain'.missing
                 PROVE  /\ chain'.number # 0 /\ tracker'.current.num = n /\ tracker'.current_ts = Timestamp(n, 1)
                        /\ stats'.block_times.sum = Timestamp(n, 1) - Timestamp(1, 1)
                        /\ stats'.block_times.num = n
    BY <1>2 DEF Timed
  <2>2. found /\ ~chain.missing
    <3>1. found \in BOOLEAN /\ chain.missing \in BOOLEAN
      BY <1>1 DEF HeadTaken, Between, ChainState
    <3> QED BY <1>2, <2>1, <3>1
  <2>3. PICK u : /\ stats'.block_times = update(stats.block_times, current_block_time(u))
                 /\ u.last_ts = tracker.current_ts /\ u.current.ts = Timestamp(n, 1)
                 /\ tracker'.current_ts = Timestamp(n, 1) /\ tracker'.current.num = n
    BY <1>1, <2>2, HeadCounts
  <2>4. PICK k \in Nat : k = chain.number /\ n = k + 1
    BY <1>1 DEF HeadTaken, Between, ChainState
  <2>5. PICK d : d = current_block_time(u)
    OBVIOUS
  <2>6. stats'.block_times.sum = stats.block_times.sum + d /\ stats'.block_times.num = stats.block_times.num + 1
    BY <2>3, <2>5 DEF update
  <2>7. CASE k = 0
    <3>1. d = 0
      BY <2>2, <2>3, <2>4, <2>5, <2>7 DEF Timed, current_block_time
    <3>2. stats.block_times.sum = 0 /\ stats.block_times.num = 0
      BY <2>2, <2>4, <2>7 DEF Timed
    <3>3. Timestamp(1, 1) \in Int
      BY TimestampGrows
    <3> QED BY <1>2, <2>3, <2>4, <2>6, <2>7, <3>1, <3>2, <3>3
  <2>8. CASE k # 0
    <3>1. PICK x, y, z : x = Timestamp(k, 1) /\ y = Timestamp(n, 1) /\ z = Timestamp(1, 1)
      OBVIOUS
    <3>2. x \in Nat /\ y \in Nat /\ y > x /\ z \in Nat
      BY <2>4, <3>1, TimestampGrows
    <3>3. tracker.current_ts = x /\ stats.block_times.sum = x - z /\ stats.block_times.num = k
      BY <2>2, <2>4, <2>8, <3>1 DEF Timed
    <3>4. d = y - x
      BY <2>3, <2>5, <3>1, <3>2, <3>3 DEF current_block_time, saturating_sub, Nothing
    <3>5. stats'.block_times.sum = (x - z) + (y - x)
      BY <2>6, <3>3, <3>4
    <3>6. stats'.block_times.sum = y - z
      BY <3>2, <3>5
    <3>7. stats'.block_times.num = n
      BY <2>4, <2>6, <3>3
    <3>8. chain'.number # 0
      BY <1>2, <2>4
    <3>9. /\ tracker'.current.num = n /\ tracker'.current_ts = Timestamp(n, 1)
          /\ stats'.block_times.sum = Timestamp(n, 1) - Timestamp(1, 1)
      BY <2>3, <3>1, <3>6
    <3> QED BY <3>7, <3>8, <3>9
  <2> QED BY <2>7, <2>8
<1> QED BY <1>4, <1>5, <1>6

Counting == Between /\ CountedDisputes /\ Timed

(* The inductive invariant of types and counts. *)
LEMMA CountingInvariant == Spec => []Counting
<1>1. Init => Counting
  BY BetweenInit DEF Counting
<1>2. Counting /\ [Next]_vars => Counting'
  <2> SUFFICES ASSUME Counting, [Next]_vars PROVE Counting'
    OBVIOUS
  <2>1. CASE NewHead
    BY <2>1, HeadKeeps DEF Counting
  <2>2. CASE NewSession
    BY <2>2, SessionKeeps DEF Counting
  <2>3. CASE UNCHANGED vars
    BY <2>3 DEF Counting, vars, Between, CountedDisputes, Timed, Rested, Single, Told, Total
  <2> QED BY <2>1, <2>2, <2>3 DEF Next
<1> QED BY <1>1, <1>2, PTL DEF Spec

(* TypeOK: the tracker's and the statistics' types hold always, between updates
   only backed and pending candidates are kept (maybe_reset_state), and the
   list of skipped slots stays within its capacity (on_skipped_slot). *)
THEOREM Types == Spec => []TypeOK
<1>1. Counting => TypeOK
  <2> SUFFICES ASSUME Counting PROVE TypeOK
    OBVIOUS
  <2>1. Rested(tracker) /\ tracker \in TrackerState /\ Told(stats, events)
    BY DEF Counting, Between, Rested
  <2>2. tracker.backing_type \in {"Sync", "Async"} /\ tracker.cores \subseteq Cores
    BY <2>1 DEF TrackerState
  <2>3. \A c \in Cores : DOMAIN tracker.candidates[c] = 1..Len(tracker.candidates[c])
    BY <2>1 DEF TrackerState
  <2> QED BY <2>1, <2>2, <2>3 DEF TypeOK, Told, Rested, Active
<1> QED BY <1>1, CountingInvariant, PTL

(* OneCandidatePerCore: whatever forks and missing records there are, one
   candidate at most is kept of a core (set_dropped_candidates,
   maybe_reset_state). *)
THEOREM OneFollowed == Spec => []OneCandidatePerCore
<1>1. Counting => OneCandidatePerCore
  BY DEF Counting, Between, Single, OneCandidatePerCore
<1> QED BY <1>1, CountingInvariant, PTL

(* DisputesCountedOnce: a concluded dispute is counted once although its update
   is injected for every fork (notify_disputes, is_fork). *)
THEOREM DisputesOnce == Spec => []DisputesCountedOnce
<1>1. Counting => DisputesCountedOnce
  BY DEF Counting, CountedDisputes, DisputesCountedOnce, Total
<1> QED BY <1>1, CountingInvariant, PTL

(* BlockTimesAddUp: the block times add up to the time that has passed, forks or
   not (set_relay_block, notify_current_block_time). *)
THEOREM TimesAddUp == Spec => []BlockTimesAddUp
<1>1. Counting => BlockTimesAddUp
  BY DEF Counting, Timed, BlockTimesAddUp
<1> QED BY <1>1, CountingInvariant, PTL
-----------------------------------------------------------------------------
(* What an update may report. *)

(* Where the hashes of an update come from: those it reports backed were never seen before,
   each for one core only, and those that it reports included occupied a core. *)
Fresh(h) ==
  /\ \A c \in Cores : \A i \in 1..Len(h.backed[c]) : h.backed[c][i] \notin chain.seen
  /\ \A c, d \in Cores : \A i \in 1..Len(h.backed[c]), j \in 1..Len(h.backed[d]) :
       c # d => h.backed[c][i] # h.backed[d][j]

(* A candidate that an update reports backed on a core. *)
Reported(forks, c, j, x) ==
  /\ j \in 1..Len(forks) /\ x = forks[j].back[c] /\ x # NoCandidate /\ x \notin chain.seen
  /\ \A m \in 1..j - 1 : x \notin Backed(forks[m])

(* At most one value each, one after the other. *)
Short(p) == p = <<>> \/ p = <<p[1]>>
Join(p, q) == p \o q
In(x, z) == \E i \in DOMAIN z : z[i] = x
(* Two sequences of one value at most, joined. *)
LEMMA ShortJoined ==
  ASSUME NEW p, NEW q, Short(p), Short(q), NEW z, z = Join(p, q)
  PROVE  /\ \A i \in 1..Len(z) : (p # <<>> /\ z[i] = p[1]) \/ (q # <<>> /\ z[i] = q[1])
         /\ p # <<>> => In(p[1], z)
         /\ q # <<>> => In(q[1], z)
<1>1. PICK S : S = {p[1], q[1]}
  OBVIOUS
<1>2. ASSUME NEW r, Short(r), r = <<>> \/ r[1] \in S
      PROVE  r \in Seq(S) /\ Len(r) \in {0, 1} /\ (Len(r) = 0 <=> r = <<>>)
  <2>1. CASE r = <<>>
    BY <2>1
  <2>2. CASE r # <<>>
    <3>1. PICK x \in S : r = <<x>>
      BY <1>2, <2>2 DEF Short
    <3>2. <<x>> \in Seq(S) /\ Len(<<x>>) = 1
      OBVIOUS
    <3> QED BY <2>2, <3>1, <3>2
  <2> QED BY <2>1, <2>2
<1>3. /\ p \in Seq(S) /\ Len(p) \in {0, 1} /\ (Len(p) = 0 <=> p = <<>>)
      /\ q \in Seq(S) /\ Len(q) \in {0, 1} /\ (Len(q) = 0 <=> q = <<>>)
  BY <1>1, <1>2
<1>4. z = p \o q
  BY DEF Join
<1>5. /\ z \in Seq(S) /\ Len(z) = Len(p) + Len(q)
      /\ \A i \in 1..Len(p) + Len(q) : z[i] = IF i <= Len(p) THEN p[i] ELSE q[i - Len(p)]
  BY <1>3, <1>4, Concatenated
<1>6. DOMAIN z = 1..Len(z)
  BY <1>5
<1>7. \A i \in 1..Len(z) : (p # <<>> /\ z[i] = p[1]) \/ (q # <<>> /\ z[i] = q[1])
  BY <1>3, <1>5
<1>8. p # <<>> => 1 \in DOMAIN z /\ z[1] = p[1]
  BY <1>3, <1>5, <1>6
<1>9. q # <<>> => Len(z) \in DOMAIN z /\ z[Len(z)] = q[1]
  BY <1>3, <1>5, <1>6
<1> QED BY <1>7, <1>8, <1>9 DEF In

(* What an update reports of a core. *)
Both(forks, c) == IF Len(forks) = 1 THEN <<>> ELSE FirstSeen(forks, 2, c)

(* A block reports one candidate at most for a core. *)
LEMMA BothShort ==
  ASSUME NEW forks, NEW c
  PROVE  Short(FirstSeen(forks, 1, c)) /\ Short(Both(forks, c))
<1>1. \A j \in 1..2 : Short(FirstSeen(forks, j, c))
  BY DEF FirstSeen, Short
<1>2. Short(<<>>)
  BY DEF Short
<1> QED BY <1>1, <1>2 DEF Both

(* Every reported candidate is one that a block of the height backs there for the first time. *)
LEMMA ReportedFrom ==
  ASSUME NEW n, NEW forks, HeadForks(n, forks), NEW h, NEW c \in Cores,
         h.backed[c] = FirstSeen(forks, 1, c) \o IF Len(forks) = 1 THEN <<>> ELSE FirstSeen(forks, 2, c),
         NEW i \in 1..Len(h.backed[c])
  PROVE  \E j : Reported(forks, c, j, h.backed[c][i])
<1>1. ASSUME NEW j \in 1..Len(forks), NEW x, FirstSeen(forks, j, c) # <<>>, x = FirstSeen(forks, j, c)[1]
      PROVE  Reported(forks, c, j, x)
  <2>1. PICK y : y = forks[j].back[c]
    OBVIOUS
  <2>2. ~(y = NoCandidate \/ y \in chain.seen \/ \E m \in 1..j - 1 : y \in Backed(forks[m])) /\ x = y
    BY <1>1, <2>1 DEF FirstSeen
  <2> QED BY <2>1, <2>2 DEF Reported
<1>2. PICK p, q : p = FirstSeen(forks, 1, c) /\ q = Both(forks, c)
  OBVIOUS
<1>3. q # <<>> => Len(forks) # 1 /\ q = FirstSeen(forks, 2, c)
  BY <1>2 DEF Both
<1>4. PICK z : z = h.backed[c] /\ z = Join(p, q) /\ Short(p) /\ Short(q)
  BY <1>2, BothShort DEF Both, Join
<1>5. \/ p # <<>> /\ h.backed[c][i] = p[1]
      \/ q # <<>> /\ h.backed[c][i] = q[1]
  <2>1. \A k \in 1..Len(z) : (p # <<>> /\ z[k] = p[1]) \/ (q # <<>> /\ z[k] = q[1])
    BY <1>4, ShortJoined
  <2> QED BY <1>4, <2>1
<1>6. 1 \in 1..Len(forks) /\ (Len(forks) # 1 => 2 \in 1..Len(forks))
  BY DEF HeadForks
<1>7. CASE p # <<>> /\ h.backed[c][i] = p[1]
  BY <1>1, <1>2, <1>6, <1>7
<1>8. CASE q # <<>> /\ h.backed[c][i] = q[1]
  BY <1>1, <1>3, <1>6, <1>8
<1> QED BY <1>5, <1>7, <1>8

(* Two cores are not given the same candidate. *)
LEMMA BackedApart ==
  ASSUME NEW n, NEW forks, HeadForks(n, forks), NEW c \in Cores, NEW d \in Cores, c # d,
         NEW i, NEW j, NEW x, Reported(forks, c, i, x), Reported(forks, d, j, x)
  PROVE  FALSE
<1>1. i \in 1..Len(forks) /\ j \in 1..Len(forks) /\ Len(forks) \in {1, 2}
  BY DEF Reported, HeadForks
<1>2. x \in Backed(forks[i]) /\ x \in Backed(forks[j])
  BY DEF Reported, Backed
<1>3. CASE i = j
  <2>1. \E Named : ForkType(forks[i], n, Named)
    BY <1>1 DEF HeadForks
  <2>2. PICK Named : forks[i].back \in Backs(n, forks[i].out, Named)
    BY <2>1 DEF ForkType
  <2>3. \A e \in Cores \ {c} : forks[i].back[c] # NoCandidate => forks[i].back[e] # forks[i].back[c]
    BY <2>2 DEF Backs
  <2> QED BY <1>3, <2>3 DEF Reported
<1>4. CASE i # j
  <2>1. i \in 1..j - 1 \/ j \in 1..i - 1
    BY <1>1, <1>4
  <2> QED BY <1>2, <2>1 DEF Reported
<1> QED BY <1>3, <1>4

(* An update reports only candidates not seen before, each for one core. *)
LEMMA UpdateFresh ==
  ASSUME chain \in ChainState, NEW n, NEW forks, NEW survivor, NEW disputes, NEW found, NEW h,
         HeadTaken(n, forks, survivor, disputes, found, h)
  PROVE  Fresh(h)
<1>1. n \in Nat
  BY ChainGrows
<1>2. HeadForks(n, forks) /\ n \in Nat /\ found \in BOOLEAN /\ disputes \in Seq(Disputes)
      /\ h = Update(n, forks, found, disputes)
  BY <1>1 DEF HeadTaken
<1>3. \A c \in Cores : h.backed[c] = FirstSeen(forks, 1, c) \o IF Len(forks) = 1 THEN <<>> ELSE FirstSeen(forks, 2, c)
  BY <1>2, UpdateType
<1>4. \A c \in Cores : \A i \in 1..Len(h.backed[c]) : \E j : Reported(forks, c, j, h.backed[c][i])
  BY <1>2, <1>3, ReportedFrom
<1>5. \A c \in Cores : \A i \in 1..Len(h.backed[c]) : h.backed[c][i] \notin chain.seen
  BY <1>4 DEF Reported
<1>6. ASSUME NEW c \in Cores, NEW d \in Cores, NEW i \in 1..Len(h.backed[c]), NEW j \in 1..Len(h.backed[d]), c # d
      PROVE  h.backed[c][i] # h.backed[d][j]
  <2>1. PICK k : Reported(forks, c, k, h.backed[c][i])
    BY <1>4
  <2>2. PICK m : Reported(forks, d, m, h.backed[d][j])
    BY <1>4
  <2> QED BY <1>2, <1>6, <2>1, <2>2, BackedApart
<1> QED BY <1>5, <1>6 DEF Fresh

(* What the surviving block backs has been seen now. *)
LEMMA SurvivorSeen ==
  ASSUME chain \in ChainState, NEW n, NEW forks, NEW survivor, NEW disputes, NEW found, NEW h,
         HeadTaken(n, forks, survivor, disputes, found, h)
  PROVE  Backed(forks[survivor]) \subseteq chain'.seen
<1>1. n \in Nat
  BY ChainGrows
<1>2. HeadForks(n, forks) /\ n \in Nat /\ found \in BOOLEAN /\ disputes \in Seq(Disputes)
      /\ h = Update(n, forks, found, disputes) /\ survivor \in 1..Len(forks)
      /\ chain'.seen = chain.seen \cup AllBacked(h)
  <2>1. chain'.seen = chain.seen \cup AllBacked(h)
    BY ChainGrows
  <2> QED BY <1>1, <2>1 DEF HeadTaken
<1>3. \A c \in Cores : h.backed[c] = FirstSeen(forks, 1, c) \o IF Len(forks) = 1 THEN <<>> ELSE FirstSeen(forks, 2, c)
  BY <1>2, UpdateType
<1>4. ASSUME NEW c \in Cores, NEW x, x = forks[1].back[c], x # NoCandidate, x \notin chain.seen
      PROVE  x \in AllBacked(h)
  <2>1. FirstSeen(forks, 1, c) = <<x>>
    BY <1>4 DEF FirstSeen
  <2>2. PICK p, q : p = FirstSeen(forks, 1, c) /\ q = Both(forks, c)
    OBVIOUS
  <2>3. p # <<>> /\ p[1] = x
    BY <2>1, <2>2
  <2>4. PICK z : z = h.backed[c] /\ z = Join(p, q) /\ Short(p) /\ Short(q)
    BY <1>3, <2>2, BothShort DEF Both, Join
  <2>5. In(x, z)
    BY <2>3, <2>4, ShortJoined
  <2>6. PICK i \in DOMAIN h.backed[c] : h.backed[c][i] = x
    BY <2>4, <2>5 DEF In
  <2> QED BY <2>6 DEF AllBacked
<1>5. ASSUME NEW c \in Cores, NEW x, x = forks[2].back[c], x # NoCandidate, x \notin chain.seen, Len(forks) = 2,
             x \notin Backed(forks[1])
      PROVE  x \in AllBacked(h)
  <2>1. FirstSeen(forks, 2, c) = <<x>>
    <3>1. \A j \in 1..2 - 1 : j = 1
      OBVIOUS
    <3> QED BY <1>5, <3>1 DEF FirstSeen
  <2>2. PICK p, q : p = FirstSeen(forks, 1, c) /\ q = Both(forks, c)
    OBVIOUS
  <2>3. q = <<x>>
    BY <1>5, <2>1, <2>2 DEF Both
  <2>4. q # <<>> /\ q[1] = x
    BY <2>3
  <2>5. PICK z : z = h.backed[c] /\ z = Join(p, q) /\ Short(p) /\ Short(q)
    BY <1>3, <2>2, BothShort DEF Both, Join
  <2>6. In(x, z)
    BY <2>4, <2>5, ShortJoined
  <2>7. PICK i \in DOMAIN h.backed[c] : h.backed[c][i] = x
    BY <2>5, <2>6 DEF In
  <2> QED BY <2>7 DEF AllBacked
<1>6. \A x \in Backed(forks[1]) : x \in chain.seen \/ x \in AllBacked(h)
  BY <1>4 DEF Backed
<1>7. Len(forks) = 2 => \A x \in Backed(forks[2]) : x \in chain.seen \/ x \in AllBacked(h)
  BY <1>5, <1>6 DEF Backed
<1>8. survivor = 1 \/ (survivor = 2 /\ Len(forks) = 2)
  BY <1>2 DEF HeadForks
<1> QED BY <1>2, <1>6, <1>7, <1>8

(* What an update reports included left a core that a candidate occupied. *)
LEMMA LeftOccupied ==
  ASSUME NEW n, NEW forks, HeadForks(n, forks), NEW k \in Left(forks, "include")
  PROVE  \E c \in Cores : \E i \in 1..Len(forks) :
           k.hash = chain.occ[c].hash /\ k.hash # NoCandidate /\ forks[i].out[c] = "include"
<1>1. PICK p \in (DOMAIN forks) \X Cores :
        k = [hash |-> chain.occ[p[2]].hash, fork |-> p[1]] /\ forks[p[1]].out[p[2]] = "include"
  BY DEF Left
<1>2. p[1] \in 1..Len(forks) /\ p[2] \in Cores /\ k.hash = chain.occ[p[2]].hash
  BY <1>1 DEF HeadForks
<1>3. forks[p[1]].out[p[2]] \in Leaves(p[2], n)
  <2>1. \E Named : ForkType(forks[p[1]], n, Named)
    BY <1>2 DEF HeadForks
  <2> QED BY <1>2, <2>1 DEF ForkType, Outs
<1>4. k.hash # NoCandidate
  BY <1>1, <1>2, <1>3 DEF Leaves
<1> QED BY <1>1, <1>2, <1>4
-----------------------------------------------------------------------------
(* Which hashes are known, and on which core. *)

(* The cores of which a candidate is followed, and its hash. *)
Busy(t) == {c \in Cores : Len(t.candidates[c]) = 1}
HashOf(t, c) == t.candidates[c][1].candidate_hash

(* No candidate is followed on two cores. *)
Apart(t) == \A c, d \in Busy(t) : c # d => HashOf(t, c) # HashOf(t, d)

(* A followed candidate was seen before, or the update reports it on its core. *)
Placed(t, h) ==
  /\ Apart(t)
  /\ \A c \in Busy(t) : HashOf(t, c) \in chain.seen \/ \E i \in 1..Len(h.backed[c]) : HashOf(t, c) = h.backed[c][i]

(* From t to w: a core takes the last candidate that is reported for it, or keeps the one it has. *)
Carried(t, h, w) ==
  /\ \A c \in Cores : \/ h.backed[c] # <<>> /\ c \in Busy(w) /\ HashOf(w, c) = h.backed[c][Len(h.backed[c])]
                      \/ h.backed[c] = <<>> /\ (c \in Busy(w) <=> c \in Busy(t) /\ ~Includes(h, HashOf(t, c)))
                         /\ (c \in Busy(w) => HashOf(w, c) = HashOf(t, c))

(* From a block with its records: each core takes the candidate reported for
   it, or keeps its own. *)
LEMMA OutcomeCarries ==
  ASSUME NEW t, NEW h, NEW b, NEW u, NEW w, Outcome(t, h, b, u, w)
  PROVE  Carried(t, h, w)
<1>1. SUFFICES ASSUME NEW c \in Cores
               PROVE  \/ h.backed[c] # <<>> /\ c \in Busy(w) /\ HashOf(w, c) = h.backed[c][Len(h.backed[c])]
                      \/ h.backed[c] = <<>> /\ (c \in Busy(w) <=> c \in Busy(t) /\ ~Includes(h, HashOf(t, c)))
                         /\ (c \in Busy(w) => HashOf(w, c) = HashOf(t, c))
  BY DEF Carried
<1>2. Followed(t.candidates[c], h.backed[c], h, w.candidates[c])
  BY DEF Outcome
<1>3. CASE h.backed[c] # <<>>
  BY <1>2, <1>3 DEF Followed, Busy, HashOf
<1>4. CASE h.backed[c] = <<>>
  BY <1>2, <1>4 DEF Followed, Busy, HashOf
<1> QED BY <1>3, <1>4

(* A core of w has its hash from the update or from t. *)
LEMMA CarriedFrom ==
  ASSUME NEW t, NEW h, HeadType(h), NEW w, Carried(t, h, w), NEW c \in Busy(w)
  PROVE  \/ \E i \in 1..Len(h.backed[c]) : HashOf(w, c) = h.backed[c][i]
         \/ c \in Busy(t) /\ HashOf(w, c) = HashOf(t, c) /\ ~Includes(h, HashOf(t, c))
<1>1. c \in Cores
  BY DEF Busy
<1>2. h.backed[c] \in Seq(Nat \ {0})
  BY <1>1 DEF HeadType
<1>3. h.backed[c] # <<>> => Len(h.backed[c]) \in 1..Len(h.backed[c])
  BY <1>2
<1> QED BY <1>1, <1>3 DEF Carried

(* If no candidate was followed on two cores, none is after the block. *)
LEMMA PlacedStays ==
  ASSUME NEW t, NEW h, HeadType(h), Fresh(h), Placed(t, h), NEW w, Carried(t, h, w)
  PROVE  Placed(w, h)
<1>1. ASSUME NEW c \in Busy(w)
      PROVE  HashOf(w, c) \in chain.seen \/ \E i \in 1..Len(h.backed[c]) : HashOf(w, c) = h.backed[c][i]
  BY <1>1, CarriedFrom DEF Placed
<1>2. ASSUME NEW c \in Busy(w), NEW d \in Busy(w), c # d, HashOf(w, c) = HashOf(w, d) PROVE FALSE
  <2>1. c \in Cores /\ d \in Cores
    BY DEF Busy
  <2>2. CASE \E i \in 1..Len(h.backed[c]) : HashOf(w, c) = h.backed[c][i]
    <3>1. ~(\E j \in 1..Len(h.backed[d]) : HashOf(w, d) = h.backed[d][j])
      BY <1>2, <2>1, <2>2 DEF Fresh
    <3>2. HashOf(w, d) \in chain.seen
      BY <1>1, <3>1
    <3> QED BY <1>2, <2>1, <2>2, <3>2 DEF Fresh
  <2>3. CASE \E j \in 1..Len(h.backed[d]) : HashOf(w, d) = h.backed[d][j]
    <3>1. ~(\E i \in 1..Len(h.backed[c]) : HashOf(w, c) = h.backed[c][i])
      BY <1>2, <2>1, <2>3 DEF Fresh
    <3>2. HashOf(w, c) \in chain.seen
      BY <1>1, <3>1
    <3> QED BY <1>2, <2>1, <2>3, <3>2 DEF Fresh
  <2>4. CASE /\ c \in Busy(t) /\ HashOf(w, c) = HashOf(t, c)
             /\ d \in Busy(t) /\ HashOf(w, d) = HashOf(t, d)
    BY <1>2, <2>4 DEF Placed, Apart
  <2> QED BY <2>2, <2>3, <2>4, CarriedFrom
<1> QED BY <1>1, <1>2 DEF Placed, Apart

(* Without the records every core keeps its candidate or loses it. *)
LEMMA UnmovedCarries ==
  ASSUME NEW t, NEW w, Rested(t), Single(t), Unmoved(t, w), NEW c \in Busy(w)
  PROVE  c \in Busy(t) /\ HashOf(w, c) = HashOf(t, c)
<1>1. c \in Cores /\ Len(w.candidates[c]) = 1
  BY DEF Busy
<1>2. 1 \in 1..Len(t.candidates[c]) /\ w.candidates[c][1] = t.candidates[c][1]
  BY <1>1 DEF Unmoved
<1>3. Len(t.candidates[c]) <= 1
  BY <1>1 DEF Single
<1>4. Len(t.candidates[c]) = 1
  <2>1. PICK k \in Nat : k = Len(t.candidates[c])
    <3>1. t.candidates[c] \in Seq(Entry)
      BY <1>1 DEF Rested, TrackerState
    <3> QED BY <3>1
  <2>2. k >= 1
    BY <1>2, <2>1
  <2>3. k <= 1
    BY <1>3, <2>1
  <2>4. k = 1
    BY <2>2, <2>3
  <2> QED BY <2>1, <2>4
<1> QED BY <1>1, <1>2, <1>4 DEF Busy, HashOf

(* What is known of the hashes on the chain and in the tracker. *)
Known ==
  /\ Apart(tracker) /\ \A c \in Busy(tracker) : HashOf(tracker, c) \in chain.seen
  /\ chain.used \subseteq chain.seen
  /\ \A c \in Cores : chain.occ[c] = NoOccupant \/ chain.occ[c].hash \in chain.used
  /\ \A k \in chain.included : k.hash \in chain.used

(* Whatever is found of a head, what the tracker follows comes from what it followed or from the update. *)
LEMMA HeadPlaced ==
  ASSUME Between, Known, NEW n, NEW forks, NEW survivor, NEW disputes, NEW found, NEW h,
         HeadTaken(n, forks, survivor, disputes, found, h)
  PROVE  Placed(tracker', h)
<1>1. Fresh(h) /\ HeadType(h)
  <2>1. chain \in ChainState
    BY DEF Between
  <2>2. GoodHead(h, n, found)
    BY <2>1, ChainGrows
  <2> QED BY <2>1, <2>2, UpdateFresh DEF GoodHead
<1>2. Placed(tracker, h)
  BY DEF Known, Placed
<1>3. CASE Still(tracker, stats, [tracker |-> tracker', stats |-> stats', events |-> events'])
  <2>1. Rested(tracker) /\ Single(tracker) /\ Unmoved(tracker, tracker')
    BY <1>3 DEF Between, Still
  <2>2. PICK t, w : t = tracker /\ w = tracker'
    OBVIOUS
  <2>3. \A c \in Busy(w) : c \in Busy(t) /\ HashOf(w, c) = HashOf(t, c)
    BY <2>1, <2>2, UnmovedCarries
  <2>4. Placed(w, h)
    BY <1>2, <2>2, <2>3 DEF Placed, Apart
  <2> QED BY <2>2, <2>4
<1>4. ASSUME NEW u, First(h, n, u, tracker', stats', events') PROVE Placed(tracker', h)
  <2>1. Outcome(tracker, h, h.hashes[1], u, tracker')
    BY <1>4 DEF First, Step
  <2> QED BY <1>1, <1>2, <2>1, OutcomeCarries, PlacedStays
<1>5. ASSUME NEW u, NEW w, NEW s, NEW e, NEW u2,
             First(h, n, u, w, s, e), Second(h, n, w, s, e, u2, tracker', stats', events')
      PROVE  Placed(tracker', h)
  <2>1. Outcome(tracker, h, h.hashes[1], u, w) /\ Outcome(w, h, h.hashes[2], u2, tracker')
    BY <1>5 DEF First, Second, Step
  <2>2. Placed(w, h)
    BY <1>1, <1>2, <2>1, OutcomeCarries, PlacedStays
  <2> QED BY <1>1, <2>1, <2>2, OutcomeCarries, PlacedStays
<1> QED BY <1>3, <1>4, <1>5, HeadCases

(* NewHead keeps what is known of the hashes. *)
LEMMA HeadKnown ==
  ASSUME Between, Known, NEW n, NEW forks, NEW survivor, NEW disputes, NEW found, NEW h,
         HeadTaken(n, forks, survivor, disputes, found, h)
  PROVE  Known'
<1>1. chain \in ChainState
  BY DEF Between
<1>2. /\ n \in Nat /\ chain'.occ = Occupied(forks[survivor], n)
      /\ chain'.used = chain.used \cup Backed(forks[survivor])
      /\ chain'.seen = chain.seen \cup AllBacked(h)
      /\ chain'.included = chain.included \cup {[hash |-> k.hash, at |-> n] :
             k \in {i \in h.included : \A m \in chain.included : m.hash # i.hash}}
      /\ h.included = Left(forks, "include") /\ HeadType(h)
  BY <1>1, ChainGrows DEF GoodHead
<1>3. Placed(tracker', h)
  BY HeadPlaced
<1>4. Apart(tracker') /\ \A c \in Busy(tracker') : HashOf(tracker', c) \in chain'.seen
  <2>1. PICK w : w = tracker'
    OBVIOUS
  <2>2. ASSUME NEW c \in Busy(w) PROVE HashOf(w, c) \in chain.seen \cup AllBacked(h)
    <3>1. c \in Cores
      BY DEF Busy
    <3>2. DOMAIN h.backed[c] = 1..Len(h.backed[c])
      <4>1. h.backed[c] \in Seq(Nat \ {0})
        BY <1>2, <3>1 DEF HeadType
      <4> QED BY <4>1
    <3>3. CASE \E i \in 1..Len(h.backed[c]) : HashOf(w, c) = h.backed[c][i]
      <4>1. PICK i \in DOMAIN h.backed[c] : HashOf(w, c) = h.backed[c][i]
        BY <3>2, <3>3
      <4> QED BY <3>1, <4>1 DEF AllBacked
    <3> QED BY <1>3, <2>1, <3>3 DEF Placed
  <2> QED BY <1>2, <1>3, <2>1, <2>2 DEF Placed
<1>5. chain'.used \subseteq chain'.seen
  BY <1>1, <1>2, SurvivorSeen DEF Known
<1>6. ASSUME NEW c \in Cores PROVE chain'.occ[c] = NoOccupant \/ chain'.occ[c].hash \in chain'.used
  <2>1. PICK f : f = forks[survivor]
    OBVIOUS
  <2>2. chain'.occ[c] = IF f.back[c] # NoCandidate THEN [hash |-> f.back[c], since |-> n]
                        ELSE IF f.out[c] = "keep" THEN chain.occ[c] ELSE NoOccupant
    BY <1>2, <2>1 DEF Occupied
  <2>3. f.back[c] # NoCandidate => f.back[c] \in Backed(f)
    BY DEF Backed
  <2> QED BY <1>2, <2>1, <2>2, <2>3 DEF Known
<1>7. ASSUME NEW k \in chain'.included PROVE k.hash \in chain'.used
  <2>1. CASE k \in chain.included
    BY <1>2, <2>1 DEF Known
  <2>2. CASE k \notin chain.included
    <3>1. PICK i \in h.included : k = [hash |-> i.hash, at |-> n]
      BY <1>2, <2>2
    <3>2. PICK c \in Cores : i.hash = chain.occ[c].hash /\ i.hash # NoCandidate
      BY <1>2, <3>1, LeftOccupied DEF HeadTaken
    <3>3. i.hash \in chain.used
      BY <3>2 DEF Known, NoOccupant
    <3> QED BY <1>2, <3>1, <3>3
  <2> QED BY <2>1, <2>2
<1>8. Apart(tracker)' /\ (\A c \in Busy(tracker) : HashOf(tracker, c) \in chain.seen)'
  BY <1>4
<1> QED BY <1>5, <1>6, <1>7, <1>8 DEF Known

(* It holds at first. *)
LEMMA KnownInit == Init => Known
<1> SUFFICES ASSUME Init PROVE Known
  OBVIOUS
<1>1. Busy(tracker) = {}
  BY DEF Busy, Init, NewTracker
<1> QED BY <1>1 DEF Known, Apart, Init

(* NewSession keeps it. *)
LEMMA SessionKnown ==
  ASSUME Between, Known, NewSession
  PROVE  Known'
<1>1. /\ tracker'.candidates = tracker.candidates /\ chain'.occ = [c \in Cores |-> NoOccupant]
      /\ chain'.used = chain.used /\ chain'.seen = chain.seen /\ chain'.included = chain.included
  BY SessionKeeps
<1> QED BY <1>1 DEF Known, Apart, Busy, HashOf
-----------------------------------------------------------------------------
(* What is followed, without forks and with all records. *)

(* Without forks and with all records, the tracker follows what occupies the cores,
   and nothing that is included already. *)
Following ==
  Regular =>
    /\ chain.seen = chain.used
    /\ \A c \in Cores : chain.occ[c] # NoOccupant => c \in Busy(tracker) /\ HashOf(tracker, c) = chain.occ[c].hash
    /\ \A c \in Busy(tracker) : \A k \in chain.included : k.hash # HashOf(tracker, c)

(* A head of one block f, as it appears in the update. *)
Plain(h, f, n) ==
  /\ chain' \in ChainState /\ chain'.occ = Occupied(f, n) /\ chain'.used = chain.used \cup Backed(f)
  /\ \A c \in Cores : h.backed[c] = IF f.back[c] = NoCandidate THEN <<>> ELSE <<f.back[c]>>
  /\ \A c \in Cores : f.back[c] # NoCandidate =>
       f.back[c] \notin chain.seen /\ (chain.occ[c].hash = NoCandidate \/ f.out[c] # "keep")
  /\ \A x : Includes(h, x) <=> \E c \in Cores : x = chain.occ[c].hash /\ f.out[c] = "include"
  /\ \A c \in Cores : f.out[c] = "include" => chain.occ[c] # NoOccupant
  /\ chain'.included = chain.included \cup {[hash |-> k.hash, at |-> n] :
         k \in {i \in h.included : \A m \in chain.included : m.hash # i.hash}}

(* A head after which the chain is still regular. *)
LEMMA RegularHead ==
  ASSUME Between, Known, Following, Regular', NEW n, NEW forks, NEW survivor, NEW disputes, NEW found, NEW h,
         HeadTaken(n, forks, survivor, disputes, found, h)
  PROVE  /\ Regular /\ n = chain.number + 1 /\ n \in Nat /\ chain'.number = n
         /\ Plain(h, forks[1], n)
         /\ HeadType(h) /\ Fresh(h)
         /\ \E u : First(h, n, u, tracker', stats', events')
<1>1. chain \in ChainState
  BY DEF Between
<1>2. /\ n \in Nat /\ chain'.number = n /\ chain' \in ChainState /\ chain'.occ = Occupied(forks[survivor], n)
      /\ chain'.used = chain.used \cup Backed(forks[survivor])
      /\ chain'.included = chain.included \cup {[hash |-> k.hash, at |-> n] :
             k \in {i \in h.included : \A m \in chain.included : m.hash # i.hash}}
      /\ chain'.forked = (chain.forked \/ Len(forks) > 1)
      /\ chain'.missing = (chain.missing \/ ~found)
      /\ h.included = Left(forks, "include") /\ HeadType(h)
  BY <1>1, ChainGrows DEF GoodHead
<1>3. /\ n = chain.number + 1 /\ HeadForks(n, forks) /\ survivor \in 1..Len(forks)
      /\ disputes \in Seq(Disputes) /\ found \in BOOLEAN
      /\ h = Update(n, forks, found, disputes)
  BY DEF HeadTaken
<1>4. Regular /\ found /\ Len(forks) = 1 /\ survivor = 1
  <2>1. chain.forked \in BOOLEAN /\ chain.missing \in BOOLEAN
    BY <1>1 DEF ChainState
  <2>2. Len(forks) \in {1, 2}
    BY <1>3 DEF HeadForks
  <2>3. Regular /\ found /\ ~(Len(forks) > 1)
    BY <1>2, <1>3, <2>1 DEF Regular
  <2>4. Len(forks) = 1
    BY <2>2, <2>3
  <2> QED BY <1>3, <2>3, <2>4
<1>5. PICK f : f = forks[1]
  OBVIOUS
<1>6. ForkType(f, n, chain.seen) /\ DOMAIN forks = {1}
  <2>1. 1..1 = {1}
    OBVIOUS
  <2> QED BY <1>3, <1>4, <1>5, <2>1 DEF HeadForks
<1>7. ASSUME NEW c \in Cores, f.back[c] # NoCandidate
      PROVE  f.back[c] \notin chain.seen /\ (chain.occ[c].hash = NoCandidate \/ f.out[c] # "keep")
  <2>1. f.back[c] \notin chain.used /\ (chain.occ[c].hash = NoCandidate \/ f.out[c] # "keep")
    BY <1>6, <1>7 DEF ForkType, Backs
  <2> QED BY <1>4, <2>1 DEF Following
<1>8. ASSUME NEW c \in Cores
      PROVE  h.backed[c] = IF f.back[c] = NoCandidate THEN <<>> ELSE <<f.back[c]>>
  <2>1. h.backed[c] = FirstSeen(forks, 1, c) \o <<>>
    <3>1. h.backed[c] = FirstSeen(forks, 1, c) \o IF Len(forks) = 1 THEN <<>> ELSE FirstSeen(forks, 2, c)
      <4>1. /\ n \in Nat /\ HeadForks(n, forks) /\ disputes \in Seq(Disputes) /\ found \in BOOLEAN
            /\ h = Update(n, forks, found, disputes)
        BY <1>2, <1>3
      <4>2. \A d \in Cores : h.backed[d] = FirstSeen(forks, 1, d) \o IF Len(forks) = 1 THEN <<>> ELSE FirstSeen(forks, 2, d)
        BY <4>1, UpdateType
      <4> QED BY <4>2
    <3> QED BY <1>4, <3>1
  <2>2. FirstSeen(forks, 1, c) \in Seq(Hashes)
    BY <1>3, <1>4, FirstSeenType
  <2>3. h.backed[c] = FirstSeen(forks, 1, c)
    BY <2>1, <2>2
  <2>4. \A j \in 1..1 - 1 : FALSE
    OBVIOUS
  <2> QED BY <1>5, <1>7, <2>3, <2>4 DEF FirstSeen
<1>9. ASSUME NEW x
      PROVE  Includes(h, x) <=> \E c \in Cores : x = chain.occ[c].hash /\ f.out[c] = "include"
  <2>1. ASSUME NEW c \in Cores, x = chain.occ[c].hash, f.out[c] = "include" PROVE Includes(h, x)
    <3>1. PICK p : p = <<1, c>>
      OBVIOUS
    <3>2. p \in {q \in (DOMAIN forks) \X Cores : forks[q[1]].out[q[2]] = "include"} /\ p[1] = 1 /\ p[2] = c
      BY <1>5, <1>6, <2>1, <3>1
    <3>3. [hash |-> chain.occ[p[2]].hash, fork |-> p[1]] \in Left(forks, "include")
      BY <3>2 DEF Left
    <3> QED BY <1>2, <2>1, <3>2, <3>3 DEF Includes
  <2>2. ASSUME Includes(h, x) PROVE \E c \in Cores : x = chain.occ[c].hash /\ f.out[c] = "include"
    <3>1. PICK k \in Left(forks, "include") : k.hash = x
      BY <1>2, <2>2 DEF Includes
    <3>2. PICK c \in Cores, i \in 1..Len(forks) : k.hash = chain.occ[c].hash /\ forks[i].out[c] = "include"
      BY <1>3, LeftOccupied
    <3>3. i = 1
      BY <1>4, <3>2
    <3> QED BY <1>5, <3>1, <3>2, <3>3
  <2> QED BY <2>1, <2>2
<1>10. ASSUME NEW c \in Cores, f.out[c] = "include" PROVE chain.occ[c] # NoOccupant
  <2>1. f.out[c] \in Leaves(c, n)
    BY <1>6 DEF ForkType, Outs
  <2>2. chain.occ[c].hash # NoCandidate
    BY <1>10, <2>1 DEF Leaves
  <2> QED BY <2>2 DEF NoOccupant
<1>11. Plain(h, f, n)
  <2>1. chain'.occ = Occupied(f, n) /\ chain'.used = chain.used \cup Backed(f)
    BY <1>2, <1>4, <1>5
  <2> QED BY <1>2, <1>7, <1>8, <1>9, <1>10, <2>1 DEF Plain
<1>12. Fresh(h)
  BY <1>1, UpdateFresh
<1>13. \E u : First(h, n, u, tracker', stats', events')
  <2>1. \/ ~found /\ Still(tracker, stats, [tracker |-> tracker', stats |-> stats', events |-> events'])
        \/ found /\ Len(forks) = 1 /\ \E u : First(h, n, u, tracker', stats', events')
        \/ /\ found /\ Len(forks) = 2
           /\ \E u, w, s, e, u2 : First(h, n, u, w, s, e) /\ Second(h, n, w, s, e, u2, tracker', stats', events')
    BY HeadCases
  <2>2. Len(forks) # 2
    BY <1>4
  <2> QED BY <1>4, <2>1, <2>2
<1> QED BY <1>2, <1>3, <1>4, <1>5, <1>11, <1>12, <1>13

(* NewHead: what takes a core is followed, and what is included is followed no
   more. *)
LEMMA HeadFollowing ==
  ASSUME Between, Known, Following, NEW n, NEW forks, NEW survivor, NEW disputes, NEW found, NEW h,
         HeadTaken(n, forks, survivor, disputes, found, h)
  PROVE  Following'
<1>1. SUFFICES ASSUME Regular'
      PROVE  /\ chain'.seen = chain'.used
             /\ \A c \in Cores : chain'.occ[c] # NoOccupant =>
                  c \in Busy(tracker') /\ HashOf(tracker', c) = chain'.occ[c].hash
             /\ \A c \in Busy(tracker') : \A k \in chain'.included : k.hash # HashOf(tracker', c)
  BY DEF Following
<1>2. /\ Regular /\ Plain(h, forks[1], n) /\ HeadType(h) /\ Fresh(h)
      /\ \E u : First(h, n, u, tracker', stats', events')
  BY <1>1, RegularHead
<1>3. PICK f, w, t : f = forks[1] /\ w = tracker' /\ t = tracker
  OBVIOUS
<1>4. Carried(t, h, w)
  <2>1. PICK u : First(h, n, u, tracker', stats', events')
    BY <1>2
  <2>2. Outcome(t, h, h.hashes[1], u, w)
    BY <1>3, <2>1 DEF First, Step
  <2> QED BY <2>2, OutcomeCarries
<1>5. /\ chain.seen = chain.used
      /\ \A c \in Cores : chain.occ[c] # NoOccupant => c \in Busy(t) /\ HashOf(t, c) = chain.occ[c].hash
      /\ \A c \in Busy(t) : \A k \in chain.included : k.hash # HashOf(t, c)
      /\ Apart(t)
  BY <1>2, <1>3 DEF Following, Known
<1>6. Plain(h, f, n)
  BY <1>2, <1>3
<1>7. chain'.seen = chain'.used
  <2>1. AllBacked(h) = Backed(f)
    <3>1. ASSUME NEW x \in AllBacked(h) PROVE x \in Backed(f)
      <4>1. PICK c \in Cores : \E i \in DOMAIN h.backed[c] : x = h.backed[c][i]
        BY <3>1 DEF AllBacked
      <4>2. h.backed[c] = <<f.back[c]>> /\ f.back[c] # NoCandidate
        <5>1. h.backed[c] # <<>>
          BY <4>1
        <5>2. h.backed[c] = IF f.back[c] = NoCandidate THEN <<>> ELSE <<f.back[c]>>
          BY <1>6 DEF Plain
        <5> QED BY <5>1, <5>2
      <4>3. x = f.back[c]
        BY <4>1, <4>2
      <4> QED BY <4>2, <4>3 DEF Backed
    <3>2. ASSUME NEW x \in Backed(f) PROVE x \in AllBacked(h)
      <4>1. PICK c \in Cores : x = f.back[c] /\ x # NoCandidate
        BY <3>2 DEF Backed
      <4>2. h.backed[c] = <<x>>
        BY <1>6, <4>1 DEF Plain
      <4>3. 1 \in DOMAIN h.backed[c] /\ h.backed[c][1] = x
        BY <4>2
      <4> QED BY <4>3 DEF AllBacked
    <3> QED BY <3>1, <3>2
  <2>2. chain'.seen = chain.seen \cup AllBacked(h)
    BY ChainGrows DEF Between
  <2> QED BY <1>5, <1>6, <2>1, <2>2 DEF Plain
<1>8. ASSUME NEW c \in Cores, chain'.occ[c] # NoOccupant
      PROVE  c \in Busy(w) /\ HashOf(w, c) = chain'.occ[c].hash
  <2>1. chain'.occ[c] = IF f.back[c] # NoCandidate THEN [hash |-> f.back[c], since |-> n]
                        ELSE IF f.out[c] = "keep" THEN chain.occ[c] ELSE NoOccupant
    BY <1>6 DEF Plain, Occupied
  <2>2. CASE f.back[c] # NoCandidate
    <3>1. h.backed[c] = <<f.back[c]>>
      BY <1>6, <2>2 DEF Plain
    <3>2. h.backed[c] # <<>> /\ h.backed[c][Len(h.backed[c])] = f.back[c]
      BY <3>1
    <3> QED BY <1>4, <2>1, <2>2, <3>2 DEF Carried
  <2>3. CASE f.back[c] = NoCandidate
    <3>1. f.out[c] = "keep" /\ chain'.occ[c] = chain.occ[c] /\ chain.occ[c] # NoOccupant
      BY <1>8, <2>1, <2>3
    <3>2. c \in Busy(t) /\ HashOf(t, c) = chain.occ[c].hash
      BY <1>5, <3>1
    <3>3. ~Includes(h, HashOf(t, c))
      <4>1. SUFFICES ASSUME NEW d \in Cores, HashOf(t, c) = chain.occ[d].hash, f.out[d] = "include" PROVE FALSE
        BY <1>6 DEF Plain
      <4>2. chain.occ[d] # NoOccupant /\ d # c
        BY <1>6, <3>1, <4>1 DEF Plain
      <4>3. d \in Busy(t) /\ HashOf(t, d) = HashOf(t, c)
        BY <1>5, <4>1, <4>2
      <4> QED BY <1>5, <3>2, <4>2, <4>3 DEF Apart
    <3>4. h.backed[c] = <<>>
      BY <1>6, <2>3 DEF Plain
    <3> QED BY <1>4, <3>1, <3>2, <3>3, <3>4 DEF Carried
  <2> QED BY <2>2, <2>3
<1>9. ASSUME NEW c \in Busy(w), NEW k \in chain'.included PROVE k.hash # HashOf(w, c)
  <2>1. k \in chain.included \/ \E i \in h.included : k.hash = i.hash
    BY <1>6 DEF Plain
  <2>2. k.hash \in chain.seen
    <3>1. CASE k \in chain.included
      BY <3>1 DEF Known
    <3>2. CASE \E i \in h.included : k.hash = i.hash
      <4>1. Includes(h, k.hash)
        BY <3>2 DEF Includes
      <4>2. PICK d \in Cores : k.hash = chain.occ[d].hash /\ chain.occ[d] # NoOccupant
        BY <1>6, <4>1 DEF Plain
      <4> QED BY <4>2 DEF Known
    <3> QED BY <2>1, <3>1, <3>2
  <2>3. CASE \E i \in 1..Len(h.backed[c]) : HashOf(w, c) = h.backed[c][i]
    <3>1. c \in Cores
      BY DEF Busy
    <3> QED BY <1>2, <2>2, <2>3, <3>1 DEF Fresh
  <2>4. CASE c \in Busy(t) /\ HashOf(w, c) = HashOf(t, c) /\ ~Includes(h, HashOf(t, c))
    BY <1>5, <2>1, <2>4 DEF Includes
  <2> QED BY <1>2, <1>4, <2>3, <2>4, CarriedFrom
<1> QED BY <1>3, <1>7, <1>8, <1>9

(* At first no core is occupied. *)
LEMMA FollowingInit == Init => Following
<1> SUFFICES ASSUME Init PROVE Following
  OBVIOUS
<1>1. Busy(tracker) = {} /\ chain.seen = chain.used /\ \A c \in Cores : chain.occ[c] = NoOccupant
  BY DEF Busy, Init, NewTracker
<1> QED BY <1>1 DEF Following

(* NewSession frees the cores of the chain; the tracker may follow more than
   it. *)
LEMMA SessionFollowing ==
  ASSUME Between, Following, NewSession
  PROVE  Following'
<1>1. /\ tracker'.candidates = tracker.candidates /\ chain'.occ = [c \in Cores |-> NoOccupant]
      /\ chain'.used = chain.used /\ chain'.seen = chain.seen /\ chain'.included = chain.included
      /\ chain'.forked = chain.forked /\ chain'.missing = chain.missing
  BY SessionKeeps
<1>2. Busy(tracker') = Busy(tracker) /\ \A c \in Busy(tracker) : HashOf(tracker', c) = HashOf(tracker, c)
  BY <1>1 DEF Busy, HashOf
<1> QED BY <1>1, <1>2 DEF Following, Regular

FollowingInvariant == Between /\ Known /\ Following

(* The inductive invariant of what is followed. *)
LEMMA FollowingInductive == Spec => []FollowingInvariant
<1>1. Init => FollowingInvariant
  BY BetweenInit, KnownInit, FollowingInit DEF FollowingInvariant
<1>2. FollowingInvariant /\ Counting /\ Counting' /\ [Next]_vars => FollowingInvariant'
  <2> SUFFICES ASSUME FollowingInvariant, Counting, Counting', [Next]_vars PROVE FollowingInvariant'
    OBVIOUS
  <2>1. Between /\ Known /\ Following /\ Between'
    BY DEF FollowingInvariant, Counting
  <2>2. CASE NewHead
    <3>1. PICK n, forks, survivor, disputes, found, h : HeadTaken(n, forks, survivor, disputes, found, h)
      BY <2>2, TakeHead
    <3> QED BY <2>1, <3>1, HeadKnown, HeadFollowing DEF FollowingInvariant
  <2>3. CASE NewSession
    BY <2>1, <2>3, SessionKnown, SessionFollowing DEF FollowingInvariant
  <2>4. CASE UNCHANGED vars
    BY <2>1, <2>4 DEF FollowingInvariant, vars, Known, Following, Regular, Apart, Busy, HashOf
  <2> QED BY <2>2, <2>3, <2>4 DEF Next
<1> QED BY <1>1, <1>2, CountingInvariant, PTL DEF Spec

(* TrackerFollowsChain: without forks and with all records the tracker's current
   candidate of an occupied core is the one that occupies it
   (set_backed_candidates, set_dropped_candidates, maybe_reset_state). *)
THEOREM FollowsChain == Spec => []TrackerFollowsChain
<1>1. FollowingInvariant => TrackerFollowsChain
  <2> SUFFICES ASSUME FollowingInvariant, Regular, NEW c \in Cores, chain.occ[c] # NoOccupant
               PROVE  tracker.candidates[c] # <<>> /\ LastOf(tracker.candidates[c]).candidate_hash = chain.occ[c].hash
    BY DEF TrackerFollowsChain
  <2>1. c \in Busy(tracker) /\ HashOf(tracker, c) = chain.occ[c].hash
    BY DEF FollowingInvariant, Following
  <2> QED BY <2>1 DEF Busy, HashOf, LastOf
<1> QED BY <1>1, FollowingInductive, PTL
-----------------------------------------------------------------------------
(* The events of a head. *)

(* A candidate is dropped when it was followed, is not included and another one takes its place. *)
LEMMA DroppedFrom ==
  ASSUME NEW s \in Seq(Entry), Len(s) <= 1, NEW back \in Seq(Nat \ {0}), Len(back) <= 1, NEW h, NEW sync, NEW q,
         Outline(s, back, h, sync, q), NEW i \in 1..Len(q), q[i].state = "Dropped"
  PROVE  Len(s) = 1 /\ back # <<>> /\ ~Includes(h, s[1].candidate_hash) /\ q[i].candidate_hash = s[1].candidate_hash
<1>1. PICK n, k, m : n = Len(s) /\ k = Len(back) /\ m = Len(s) + Len(back) /\ m = n + k /\ n \in {0, 1} /\ k \in {0, 1}
  <2>1. PICK n \in Nat, k \in Nat : n = Len(s) /\ k = Len(back)
    OBVIOUS
  <2>2. n <= 1 /\ k <= 1
    BY <2>1
  <2>3. n \in {0, 1} /\ k \in {0, 1}
    BY <2>2
  <2> QED BY <2>1, <2>3
<1>2. /\ Len(q) = m \/ (Len(q) = m + 1 /\ q[m + 1].state = "Skipped")
      /\ \A j \in 1..n : /\ q[j].candidate_hash = s[j].candidate_hash
                         /\ Includes(h, s[j].candidate_hash) => q[j].state = "Included"
      /\ \A j \in 1..m : q[j].state = "Dropped" <=> /\ q[j].state # "Included"
                                                    /\ \E l \in j + 1..m : q[l].state # "Included"
  BY <1>1 DEF Outline, Extended
<1>3. i \in 1..m
  <2>1. "Dropped" # "Skipped"
    OBVIOUS
  <2> QED BY <1>1, <1>2, <2>1
<1>4. PICK l \in i + 1..m : q[l].state # "Included"
  BY <1>2, <1>3
<1>5. i = 1 /\ n = 1 /\ k = 1
  BY <1>1, <1>3, <1>4
<1>6. 1 \in 1..n /\ q[1].state # "Included"
  BY <1>5
<1>7. ~Includes(h, s[1].candidate_hash) /\ q[1].candidate_hash = s[1].candidate_hash
  BY <1>2, <1>6
<1>8. back # <<>>
  <2>1. SUFFICES ASSUME back = <<>> PROVE FALSE
    OBVIOUS
  <2>2. Len(back) = 0
    BY <2>1
  <2>3. Len(back) = 1
    BY <1>1, <1>5
  <2>4. 0 # 1
    OBVIOUS
  <2> QED BY <2>2, <2>3, <2>4, Zenon
<1> QED BY <1>1, <1>5, <1>7, <1>8

(* In synchronous backing a slot is skipped only on a core of which nothing is followed. *)
LEMMA SkippedFrom ==
  ASSUME NEW s \in Seq(Entry), \A i \in 1..Len(s) : s[i].state \in Active,
         NEW back \in Seq(Nat \ {0}), NEW h, NEW q, Outline(s, back, h, TRUE, q), NEW i \in 1..Len(q), q[i].state = "Skipped"
  PROVE  s = <<>> /\ back = <<>>
<1>1. PICK n, m : n = Len(s) /\ m = Len(s) + Len(back) /\ n \in Nat /\ m \in Nat /\ m >= n
  OBVIOUS
<1>2. /\ Len(q) = m \/ (Len(q) = m + 1 /\ back = <<>> /\ s = <<>>)
      /\ \A j \in 1..n : q[j].state \in Active \cup {"Dropped", "Included"}
      /\ \A j \in n + 1..m : q[j].state \in Active \cup {"Dropped"}
  BY <1>1 DEF Outline, Extended
<1>3. "Skipped" \notin Active \cup {"Dropped", "Included"}
  BY DEF Active
<1>4. i \notin 1..m
  <2>1. SUFFICES ASSUME i \in 1..m PROVE FALSE
    OBVIOUS
  <2>2. i \in 1..n \/ i \in n + 1..m
    BY <1>1, <2>1
  <2> QED BY <1>2, <1>3, <2>2
<1>5. Len(q) # m
  BY <1>4
<1> QED BY <1>2, <1>5

(* What the events of the last head say of the chain. *)
EventsHold ==
  Regular => \A i \in 1..Len(events) :
    /\ events[i][1] = "Dropped" =>
         /\ events[i][2] \in Hashes
         /\ \A c \in Cores : chain.occ[c].hash # events[i][2]
         /\ \A k \in chain.included : k.hash # events[i][2]
    /\ tracker.backing_type = "Sync" /\ events[i][1] = "SkippedSlot" =>
         events[i][2] \in Cores /\ chain.occ[events[i][2]] = NoOccupant

(* NewHead announces what EventsHold allows. *)
LEMMA HeadEvents ==
  ASSUME Between, Known, Following, NEW n, NEW forks, NEW survivor, NEW disputes, NEW found, NEW h,
         HeadTaken(n, forks, survivor, disputes, found, h)
  PROVE  EventsHold'
<1>1. SUFFICES ASSUME Regular', NEW i \in 1..Len(events')
      PROVE /\ events'[i][1] = "Dropped" =>
                 /\ events'[i][2] \in Hashes
                 /\ \A c \in Cores : chain'.occ[c].hash # events'[i][2]
                 /\ \A k \in chain'.included : k.hash # events'[i][2]
            /\ tracker'.backing_type = "Sync" /\ events'[i][1] = "SkippedSlot" =>
                 events'[i][2] \in Cores /\ chain'.occ[events'[i][2]] = NoOccupant
  BY DEF EventsHold
<1>2. /\ Regular /\ Plain(h, forks[1], n) /\ HeadType(h) /\ Fresh(h)
      /\ \E u : First(h, n, u, tracker', stats', events')
  BY <1>1, RegularHead
<1>3. PICK f, w, t, x : f = forks[1] /\ w = tracker' /\ t = tracker /\ x = events'[i]
  OBVIOUS
<1>4. PICK u : First(h, n, u, tracker', stats', events')
  BY <1>2
<1>5. Outcome(t, h, h.hashes[1], u, w) /\ Says(u, x)
  <2>1. Outcome(t, h, h.hashes[1], u, w) /\ Tells(u, stats, <<>>, stats', events')
    BY <1>3, <1>4 DEF First, Step
  <2>2. \A j \in 1..Len(<<>>) : Says(u, <<>>[j])
    OBVIOUS
  <2> QED BY <1>3, <2>1, <2>2 DEF Tells
<1>6. Plain(h, f, n) /\ Rested(t) /\ Single(t) /\ Apart(t) /\ chain \in ChainState
      /\ \A c \in Busy(t) : HashOf(t, c) \in chain.seen
  BY <1>2, <1>3 DEF Between, Known
<1>7. /\ \A c \in Cores : chain.occ[c] # NoOccupant => c \in Busy(t) /\ HashOf(t, c) = chain.occ[c].hash
      /\ \A c \in Busy(t) : \A k \in chain.included : k.hash # HashOf(t, c)
  BY <1>2, <1>3 DEF Following
<1>8. ASSUME NEW c \in Cores
      PROVE  /\ t.candidates[c] \in Seq(Entry) /\ Len(t.candidates[c]) <= 1
             /\ \A j \in 1..Len(t.candidates[c]) : t.candidates[c][j].state \in Active
             /\ h.backed[c] \in Seq(Nat \ {0})
             /\ Outline(t.candidates[c], h.backed[c], h, u.backing_type = "Sync", u.candidates[c])
             /\ h.backed[c] = IF f.back[c] = NoCandidate THEN <<>> ELSE <<f.back[c]>>
             /\ chain'.occ[c] = IF f.back[c] # NoCandidate THEN [hash |-> f.back[c], since |-> n]
                                ELSE IF f.out[c] = "keep" THEN chain.occ[c] ELSE NoOccupant
  BY <1>2, <1>5, <1>6 DEF Rested, TrackerState, Single, HeadType, Outcome, Plain, Occupied
<1>9. ASSUME x[1] = "Dropped"
      PROVE  /\ x[2] \in Hashes
             /\ \A c \in Cores : chain'.occ[c].hash # x[2]
             /\ \A k \in chain'.included : k.hash # x[2]
  <2>1. PICK c \in Cores : \E j \in 1..Len(u.candidates[c]) :
          u.candidates[c][j].state = "Dropped" /\ u.candidates[c][j].candidate_hash = x[2]
    BY <1>5, <1>9 DEF Says
  <2>2. PICK s, back, q : s = t.candidates[c] /\ back = h.backed[c] /\ q = u.candidates[c]
    OBVIOUS
  <2>3. PICK j \in 1..Len(q) : q[j].state = "Dropped" /\ q[j].candidate_hash = x[2]
    BY <2>1, <2>2
  <2>4. Len(back) <= 1
    <3>1. back = <<>> \/ back = <<f.back[c]>>
      BY <1>8, <2>2
    <3>2. Len(<<>>) = 0 /\ Len(<<f.back[c]>>) = 1
      OBVIOUS
    <3>3. Len(back) \in {0, 1}
      BY <3>1, <3>2
    <3>4. PICK k \in {0, 1} : k = Len(back)
      BY <3>3
    <3>5. k <= 1
      OBVIOUS
    <3> QED BY <3>4, <3>5
  <2>5. Len(s) = 1 /\ back # <<>> /\ ~Includes(h, s[1].candidate_hash) /\ q[j].candidate_hash = s[1].candidate_hash
    <3>1. PICK sync : sync = (u.backing_type = "Sync")
      OBVIOUS
    <3>2. s \in Seq(Entry) /\ Len(s) <= 1 /\ back \in Seq(Nat \ {0}) /\ Outline(s, back, h, sync, q)
      BY <1>8, <2>2, <3>1
    <3> QED BY <2>3, <2>4, <3>2, DroppedFrom
  <2>6. c \in Busy(t) /\ x[2] = HashOf(t, c) /\ ~Includes(h, x[2]) /\ f.back[c] # NoCandidate
    BY <1>8, <2>2, <2>3, <2>5 DEF Busy, HashOf
  <2>7. x[2] \in chain.seen /\ x[2] \in Hashes
    BY <1>6, <2>6 DEF ChainState
  <2>8. ASSUME NEW d \in Cores PROVE chain'.occ[d].hash # x[2]
    <3>1. CASE f.back[d] # NoCandidate
      <4>1. f.back[d] \notin chain.seen
        BY <1>6, <3>1 DEF Plain
      <4>2. chain'.occ[d] = [hash |-> f.back[d], since |-> n]
        BY <1>8, <3>1
      <4>3. chain'.occ[d].hash = f.back[d]
        BY <4>2
      <4> QED BY <2>7, <4>1, <4>3
    <3>2. CASE f.back[d] = NoCandidate
      <4>1. chain'.occ[d] = chain.occ[d] \/ chain'.occ[d] = NoOccupant
        BY <1>8, <3>2
      <4>2. NoOccupant.hash # x[2]
        BY <2>7 DEF NoOccupant, NoCandidate, Hashes
      <4>3. chain.occ[d] # NoOccupant => chain.occ[d].hash # x[2]
        BY <1>6, <1>7, <2>6, <3>2 DEF Apart
      <4> QED BY <4>1, <4>2, <4>3
    <3> QED BY <3>1, <3>2
  <2>9. ASSUME NEW k \in chain'.included PROVE k.hash # x[2]
    <3>1. k \in chain.included \/ \E m \in h.included : k.hash = m.hash
      BY <1>6 DEF Plain
    <3> QED BY <1>7, <2>6, <3>1 DEF Includes
  <2> QED BY <2>7, <2>8, <2>9
<1>10. ASSUME w.backing_type = "Sync", x[1] = "SkippedSlot"
       PROVE  x[2] \in Cores /\ chain'.occ[x[2]] = NoOccupant
  <2>1. PICK c \in Cores : c = x[2] /\ \E j \in 1..Len(u.candidates[c]) : u.candidates[c][j].state = "Skipped"
    BY <1>5, <1>10 DEF Says
  <2>2. PICK s, back, q : s = t.candidates[c] /\ back = h.backed[c] /\ q = u.candidates[c]
    OBVIOUS
  <2>3. PICK j \in 1..Len(q) : q[j].state = "Skipped"
    BY <2>1, <2>2
  <2>4. Outline(s, back, h, TRUE, q)
    <3>1. (u.backing_type = "Sync") = TRUE
      BY <1>5, <1>10 DEF Outcome
    <3> QED BY <1>8, <2>2, <3>1
  <2>5. s = <<>> /\ back = <<>>
    BY <1>8, <2>2, <2>3, <2>4, SkippedFrom
  <2>6. c \notin Busy(t)
    <3>1. Len(<<>>) = 0
      OBVIOUS
    <3>2. Len(t.candidates[c]) = 0
      BY <2>2, <2>5, <3>1
    <3>3. Len(t.candidates[c]) # 1
      BY <3>2
    <3> QED BY <3>3 DEF Busy
  <2>7. f.back[c] = NoCandidate
    <3>1. <<>> # <<f.back[c]>>
      OBVIOUS
    <3>2. <<>> = IF f.back[c] = NoCandidate THEN <<>> ELSE <<f.back[c]>>
      BY <1>8, <2>2, <2>5
    <3> QED BY <3>1, <3>2
  <2> QED BY <1>7, <1>8, <2>1, <2>6, <2>7
<1> QED BY <1>3, <1>9, <1>10

(* NewSession announces nothing, and frees cores only. *)
LEMMA SessionEvents ==
  ASSUME Between, EventsHold, NewSession
  PROVE  EventsHold'
<1>1. /\ events' = events /\ chain'.occ = [c \in Cores |-> NoOccupant]
      /\ chain'.included = chain.included /\ tracker'.backing_type = tracker.backing_type
      /\ chain'.forked = chain.forked /\ chain'.missing = chain.missing
  BY SessionKeeps
<1>2. \A x \in Hashes : NoOccupant.hash # x
  BY DEF NoOccupant, NoCandidate, Hashes
<1> QED BY <1>1, <1>2 DEF EventsHold, Regular

(* The invariant of the events. *)
LEMMA EventsInvariant == Spec => []EventsHold
<1>1. Init => EventsHold
  BY DEF Init, EventsHold
<1>2. FollowingInvariant /\ EventsHold /\ [Next]_vars => EventsHold'
  <2> SUFFICES ASSUME FollowingInvariant, EventsHold, [Next]_vars PROVE EventsHold'
    OBVIOUS
  <2>1. Between /\ Known /\ Following
    BY DEF FollowingInvariant
  <2>2. CASE NewHead
    <3>1. PICK n, forks, survivor, disputes, found, h : HeadTaken(n, forks, survivor, disputes, found, h)
      BY <2>2, TakeHead
    <3> QED BY <2>1, <3>1, HeadEvents
  <2>3. CASE NewSession
    BY <2>1, <2>3, SessionEvents
  <2>4. CASE UNCHANGED vars
    BY <2>4 DEF vars, EventsHold, Regular
  <2> QED BY <2>2, <2>3, <2>4 DEF Next
<1> QED BY <1>1, <1>2, FollowingInductive, PTL DEF Spec

(* The events are a sequence. *)
LEMMA EventPositions == Spec => [](DOMAIN events = 1..Len(events))
<1>1. Counting => DOMAIN events = 1..Len(events)
  BY DEF Counting, Between, Told
<1> QED BY <1>1, CountingInvariant, PTL

(* DroppedHasLeft: a candidate called dropped is on no core and was not included
   (set_dropped_candidates, notify_candidate_state). *)
THEOREM DroppedLeft == Spec => []DroppedHasLeft
<1>1. EventsHold /\ DOMAIN events = 1..Len(events) => DroppedHasLeft
  BY DEF EventsHold, DroppedHasLeft
<1> QED BY <1>1, EventsInvariant, EventPositions, PTL

(* SyncSkippedSlotsAreFree: with synchronous backing a slot called skipped is
   one whose core is free (set_backed_candidates, on_skipped_slot). *)
THEOREM SyncSkipsFree == Spec => []SyncSkippedSlotsAreFree
<1>1. EventsHold /\ DOMAIN events = 1..Len(events) => SyncSkippedSlotsAreFree
  BY DEF EventsHold, SyncSkippedSlotsAreFree, SkippedSlotsAreFree
<1> QED BY <1>1, EventsInvariant, EventPositions, PTL
-----------------------------------------------------------------------------
(* How many inclusions are counted. *)

(* There are finitely many cores. *)
LEMMA CoresFinite == IsFiniteSet(Cores)
<1>1. 0 \in Int /\ NumCores - 1 \in Int
  BY TrackerAssumption
<1>2. IsFiniteSet(0..NumCores - 1)
  BY <1>1, FS_Interval
<1> QED BY <1>2 DEF Cores

(* The values of a function on a finite set. *)
Values(f, S) == {f[x] : x \in S}
Distinct(f, S) == \A x, y \in S : f[x] = f[y] => x = y

(* A function has finitely many values on a finite set, as many as arguments
   when they differ. *)
LEMMA ValuesCounted ==
  ASSUME NEW S, IsFiniteSet(S), NEW f, f = [x \in S |-> f[x]]
  PROVE  IsFiniteSet(Values(f, S)) /\ (Distinct(f, S) => Cardinality(Values(f, S)) = Cardinality(S))
<1>1. f \in Surjection(S, Values(f, S))
  BY DEF Surjection, Values
<1>2. ASSUME Distinct(f, S) PROVE f \in Injection(S, Values(f, S))
  <2>1. f \in [S -> Values(f, S)]
    BY DEF Values
  <2>2. IsInjective(f)
    BY <1>2, <2>1 DEF IsInjective, Distinct
  <2> QED BY <2>1, <2>2 DEF Injection
<1> QED BY <1>1, <1>2, FS_Surjection

(* Two sets of which the second adds to the first. *)
LEMMA Disjoint ==
  ASSUME NEW S, NEW T, IsFiniteSet(S), IsFiniteSet(T), S \cap T = {}
  PROVE  /\ IsFiniteSet(S \cup T) /\ Cardinality(S) \in Nat /\ Cardinality(T) \in Nat
         /\ Cardinality(S \cup T) = Cardinality(S) + Cardinality(T)
<1>1. Cardinality(S \cap T) = 0
  BY FS_EmptySet
<1>2. Cardinality(S) \in Nat /\ Cardinality(T) \in Nat
  BY FS_CardinalityType
<1>3. /\ IsFiniteSet(S \cup T)
      /\ Cardinality(S \cup T) = Cardinality(S) + Cardinality(T) - Cardinality(S \cap T)
  BY FS_Union
<1> QED BY <1>1, <1>2, <1>3

(* What is included and not followed any more. *)
Gone(I, t) == {k \in I : \A c \in Busy(t) : HashOf(t, c) # k.hash}

(* The cores of which the candidate is included by an update. *)
Leaving(t, h) == {c \in Busy(t) : Includes(h, HashOf(t, c))}

(* From t to w: what is followed is reported by h, or was followed and is not included by it. *)
Derived(t, h, w) ==
  \A c \in Busy(w) : \/ \E i \in 1..Len(h.backed[c]) : HashOf(w, c) = h.backed[c][i]
                     \/ c \in Busy(t) /\ HashOf(w, c) = HashOf(t, c) /\ ~Includes(h, HashOf(t, c))

CountedIncluded ==
  /\ IsFiniteSet(chain.included)
  /\ stats.included_count <= Cardinality(Gone(chain.included, tracker))
  /\ Regular => stats.included_count = Cardinality(chain.included)

(* Only what occupied a core is added to the inclusions. *)
LEMMA IncludedGrows ==
  ASSUME chain \in ChainState, IsFiniteSet(chain.included), NEW n, NEW forks, NEW survivor, NEW disputes, NEW found, NEW h,
         HeadTaken(n, forks, survivor, disputes, found, h)
  PROVE  IsFiniteSet(chain'.included)
<1>1. /\ n \in Nat
      /\ chain'.included = chain.included \cup {[hash |-> k.hash, at |-> n] :
             k \in {i \in h.included : \A m \in chain.included : m.hash # i.hash}}
      /\ h.included = Left(forks, "include")
  BY ChainGrows
<1>2. PICK f : f = [c \in Cores |-> [hash |-> chain.occ[c].hash, at |-> n]]
  OBVIOUS
<1>3. IsFiniteSet(Values(f, Cores))
  BY <1>2, CoresFinite, ValuesCounted
<1>4. PICK new : new = {[hash |-> k.hash, at |-> n] : k \in {i \in h.included : \A m \in chain.included : m.hash # i.hash}}
  OBVIOUS
<1>5. ASSUME NEW r \in new PROVE r \in Values(f, Cores)
  <2>1. PICK k \in Left(forks, "include") : r = [hash |-> k.hash, at |-> n]
    BY <1>1, <1>4
  <2>2. PICK c \in Cores : k.hash = chain.occ[c].hash
    BY LeftType
  <2>3. r = f[c]
    BY <1>2, <2>1, <2>2
  <2> QED BY <2>3 DEF Values
<1>6. IsFiniteSet(new)
  BY <1>3, <1>5, FS_Subset
<1>7. IsFiniteSet(chain.included \cup new)
  BY <1>6, FS_Union
<1> QED BY <1>1, <1>4, <1>7

(* The hashes an update includes were used before. *)
LEMMA IncludesUsed ==
  ASSUME Between, Known, NEW n, NEW forks, NEW survivor, NEW disputes, NEW found, NEW h,
         HeadTaken(n, forks, survivor, disputes, found, h)
  PROVE  \A x : Includes(h, x) => x \in chain.seen
<1>1. SUFFICES ASSUME NEW x, Includes(h, x) PROVE x \in chain.seen
  OBVIOUS
<1>2. h.included = Left(forks, "include")
  BY ChainGrows DEF Between
<1>3. PICK k \in Left(forks, "include") : k.hash = x
  BY <1>1, <1>2 DEF Includes
<1>4. PICK c \in Cores : x = chain.occ[c].hash /\ x # NoCandidate
  BY <1>3, LeftOccupied DEF HeadTaken
<1> QED BY <1>4 DEF Known, NoOccupant

(* What a head with its records adds to the number of inclusions, and what it follows then. *)
LEMMA HeadInclusions ==
  ASSUME Between, Known, NEW n, NEW forks, NEW survivor, NEW disputes, NEW found, NEW h,
         HeadTaken(n, forks, survivor, disputes, found, h), found
  PROVE  /\ stats'.included_count = stats.included_count + Cardinality(Leaving(tracker, h))
         /\ Derived(tracker, h, tracker')
<1>1. HeadType(h) /\ Fresh(h) /\ chain \in ChainState
  <2>1. chain \in ChainState
    BY DEF Between
  <2> QED BY <2>1, ChainGrows, UpdateFresh DEF GoodHead
<1>2. ASSUME NEW t, NEW s, NEW e, NEW b, NEW u, NEW w, NEW s2, NEW e2, Step(t, s, e, h, b, u, w, s2, e2)
      PROVE  s2.included_count = s.included_count + Cardinality(Leaving(t, h)) /\ Derived(t, h, w)
  <2>1. Outcome(t, h, b, u, w) /\ Tells(u, s, e, s2, e2)
    BY <1>2 DEF Step
  <2>2. IncludedCores(u) = Leaving(t, h)
    BY <2>1 DEF Outcome, Leaving, Busy, HashOf
  <2>3. Derived(t, h, w)
    BY <1>1, <2>1, OutcomeCarries, CarriedFrom DEF Derived
  <2> QED BY <2>1, <2>2, <2>3 DEF Tells
<1>3. CASE \E u : First(h, n, u, tracker', stats', events')
  BY <1>2, <1>3 DEF First
<1>4. CASE \E u, w, s, e, u2 : First(h, n, u, w, s, e) /\ Second(h, n, w, s, e, u2, tracker', stats', events')
  <2>1. PICK u, w, s, e, u2 : First(h, n, u, w, s, e) /\ Second(h, n, w, s, e, u2, tracker', stats', events')
    BY <1>4
  <2>2. s.included_count = stats.included_count + Cardinality(Leaving(tracker, h)) /\ Derived(tracker, h, w)
    BY <1>2, <2>1 DEF First
  <2>3. stats'.included_count = s.included_count + Cardinality(Leaving(w, h)) /\ Derived(w, h, tracker')
    BY <1>2, <2>1 DEF Second
  <2>4. Leaving(w, h) = {}
    <3>1. SUFFICES ASSUME NEW c \in Busy(w), Includes(h, HashOf(w, c)) PROVE FALSE
      BY DEF Leaving
    <3>2. \E i \in 1..Len(h.backed[c]) : HashOf(w, c) = h.backed[c][i]
      BY <2>2, <3>1 DEF Derived
    <3>3. c \in Cores /\ HashOf(w, c) \in chain.seen
      BY <3>1, IncludesUsed DEF Busy
    <3> QED BY <1>1, <3>2, <3>3 DEF Fresh
  <2>5. Cardinality({}) = 0 /\ s.included_count \in Int
    <3>1. s \in Statistics
      BY <2>1 DEF First, Step, Tells, Told
    <3> QED BY <3>1, FS_EmptySet DEF Statistics
  <2>6. Derived(tracker, h, tracker')
    BY <2>2, <2>3 DEF Derived
  <2> QED BY <2>2, <2>3, <2>4, <2>5, <2>6
<1> QED BY <1>3, <1>4, HeadCases

(* The hash an inclusion is recorded under is reported included before or by the update. *)
LEMMA InclusionRecorded ==
  ASSUME chain \in ChainState, NEW n, NEW forks, NEW survivor, NEW disputes, NEW found, NEW h,
         HeadTaken(n, forks, survivor, disputes, found, h), NEW x, Includes(h, x)
  PROVE  \E r \in chain'.included : r.hash = x
<1>1. chain'.included = chain.included \cup {[hash |-> k.hash, at |-> n] :
             k \in {i \in h.included : \A m \in chain.included : m.hash # i.hash}}
  BY ChainGrows
<1>2. PICK k \in h.included : k.hash = x
  BY DEF Includes
<1>3. CASE \E m \in chain.included : m.hash = x
  BY <1>1, <1>3
<1>4. CASE \A m \in chain.included : m.hash # x
  <2>1. k \in {i \in h.included : \A m \in chain.included : m.hash # i.hash}
    BY <1>2, <1>4
  <2>2. [hash |-> k.hash, at |-> n] \in chain'.included
    BY <1>1, <2>1
  <2> QED BY <1>2, <2>2
<1> QED BY <1>3, <1>4

(* What is gone stays gone. *)
LEMMA GoneStays ==
  ASSUME Known, NEW h, Fresh(h), NEW w, Derived(tracker, h, w), NEW J, chain.included \subseteq J
  PROVE  Gone(chain.included, tracker) \subseteq Gone(J, w)
<1>1. SUFFICES ASSUME NEW k \in Gone(chain.included, tracker), NEW c \in Busy(w), HashOf(w, c) = k.hash PROVE FALSE
  BY DEF Gone
<1>2. k \in chain.included /\ k.hash \in chain.seen
  BY DEF Gone, Known
<1>3. c \in Cores
  BY DEF Busy
<1>4. CASE \E i \in 1..Len(h.backed[c]) : HashOf(w, c) = h.backed[c][i]
  BY <1>1, <1>2, <1>3, <1>4 DEF Fresh
<1>5. CASE c \in Busy(tracker) /\ HashOf(w, c) = HashOf(tracker, c)
  BY <1>1, <1>5 DEF Gone
<1> QED BY <1>4, <1>5 DEF Derived

(* A record of an inclusion for each core that is left: none was gone before, all are gone then. *)
LEMMA LeavingGone ==
  ASSUME Between, Known, NEW n, NEW forks, NEW survivor, NEW disputes, NEW found, NEW h,
         HeadTaken(n, forks, survivor, disputes, found, h),
         NEW w, Derived(tracker, h, w), NEW L, L = Leaving(tracker, h)
  PROVE  \E R : /\ IsFiniteSet(R) /\ Cardinality(R) = Cardinality(L)
                /\ R \subseteq Gone(chain'.included, w) /\ R \cap Gone(chain.included, tracker) = {}
<1>1. chain \in ChainState /\ Fresh(h)
  BY UpdateFresh DEF Between
<1>2. PICK J : J = chain'.included
  OBVIOUS
<1>3. PICK t : t = tracker
  OBVIOUS
<1>4. PICK f : f = [c \in L |-> CHOOSE r \in J : r.hash = HashOf(t, c)]
  OBVIOUS
<1>5. L \subseteq Cores /\ L \subseteq Busy(t) /\ \A c \in L : Includes(h, HashOf(t, c))
  BY <1>3 DEF Leaving, Busy
<1>6. ASSUME NEW c \in L PROVE f[c] \in J /\ f[c].hash = HashOf(t, c)
  <2>1. \E r \in J : r.hash = HashOf(t, c)
    BY <1>1, <1>2, <1>5, InclusionRecorded
  <2> QED BY <1>4, <2>1
<1>7. IsFiniteSet(L)
  BY <1>5, CoresFinite, FS_Subset
<1>8. Distinct(f, L)
  <2>1. Apart(t)
    BY <1>3 DEF Known
  <2>2. ASSUME NEW c \in L, NEW d \in L, f[c] = f[d], c # d PROVE FALSE
    <3>1. HashOf(t, c) = HashOf(t, d)
      BY <1>6, <2>2
    <3> QED BY <1>5, <2>1, <2>2, <3>1 DEF Apart
  <2> QED BY <2>2 DEF Distinct
<1>9. PICK R : R = Values(f, L)
  OBVIOUS
<1>10. IsFiniteSet(R) /\ Cardinality(R) = Cardinality(L)
  <2>1. f = [c \in L |-> f[c]]
    BY <1>4
  <2> QED BY <1>7, <1>8, <1>9, <2>1, ValuesCounted
<1>11. ASSUME NEW r \in R PROVE r \in Gone(J, w) /\ r \notin Gone(chain.included, t)
  <2>1. PICK c \in L : r = f[c]
    BY <1>9 DEF Values
  <2>2. r \in J /\ r.hash = HashOf(t, c) /\ c \in Busy(t) /\ Includes(h, r.hash)
    BY <1>5, <1>6, <2>1
  <2>3. r \notin Gone(chain.included, t)
    BY <2>2 DEF Gone
  <2>4. r.hash \in chain.seen
    BY <2>2, IncludesUsed
  <2>5. ASSUME NEW d \in Busy(w), HashOf(w, d) = r.hash PROVE FALSE
    <3>1. d \in Cores
      BY DEF Busy
    <3>2. CASE \E i \in 1..Len(h.backed[d]) : HashOf(w, d) = h.backed[d][i]
      BY <1>1, <2>4, <2>5, <3>1, <3>2 DEF Fresh
    <3>3. CASE d \in Busy(t) /\ HashOf(w, d) = HashOf(t, d) /\ ~Includes(h, HashOf(t, d))
      BY <2>2, <2>5, <3>3
    <3> QED BY <1>3, <3>2, <3>3 DEF Derived
  <2> QED BY <2>2, <2>3, <2>5 DEF Gone
<1> QED BY <1>2, <1>3, <1>10, <1>11

(* Without forks and with all records, what the update includes leaves its core. *)
LEMMA RegularIncludes ==
  ASSUME Between, Known, Following, Regular', NEW n, NEW forks, NEW survivor, NEW disputes, NEW found, NEW h,
         HeadTaken(n, forks, survivor, disputes, found, h), NEW L, L = Leaving(tracker, h)
  PROVE  \E N : /\ IsFiniteSet(N) /\ Cardinality(N) = Cardinality(L)
                /\ N = {[hash |-> HashOf(tracker, c), at |-> n] : c \in L}
                /\ chain'.included = chain.included \cup N /\ N \cap chain.included = {}
<1>1. Regular /\ Plain(h, forks[1], n)
  BY RegularHead
<1>2. PICK t, f, I : t = tracker /\ f = forks[1] /\ I = chain.included
  OBVIOUS
<1>3. PICK g : g = [c \in L |-> [hash |-> HashOf(t, c), at |-> n]]
  OBVIOUS
<1>4. PICK N : N = Values(g, L)
  OBVIOUS
<1>5. L \subseteq Cores /\ L \subseteq Busy(t) /\ \A c \in L : Includes(h, HashOf(t, c))
  BY <1>2 DEF Leaving, Busy
<1>6. /\ \A c \in Cores : chain.occ[c] # NoOccupant => c \in Busy(t) /\ HashOf(t, c) = chain.occ[c].hash
      /\ \A c \in Busy(t) : \A k \in I : k.hash # HashOf(t, c)
      /\ Apart(t)
  BY <1>1, <1>2 DEF Following, Known
<1>7. IsFiniteSet(N) /\ Cardinality(N) = Cardinality(L)
  <2>1. IsFiniteSet(L)
    BY <1>5, CoresFinite, FS_Subset
  <2>2. Distinct(g, L)
    <3>1. ASSUME NEW c \in L, NEW d \in L, g[c] = g[d], c # d PROVE FALSE
      <4>1. HashOf(t, c) = HashOf(t, d)
        BY <1>3, <3>1
      <4> QED BY <1>5, <1>6, <3>1, <4>1 DEF Apart
    <3> QED BY <3>1 DEF Distinct
  <2>3. g = [c \in L |-> g[c]]
    BY <1>3
  <2> QED BY <1>4, <2>1, <2>2, <2>3, ValuesCounted
<1>8. N = {[hash |-> HashOf(t, c), at |-> n] : c \in L}
  BY <1>3, <1>4 DEF Values
<1>9. N \cap I = {}
  <2>1. SUFFICES ASSUME NEW r \in N, r \in I PROVE FALSE
    OBVIOUS
  <2>2. PICK c \in L : r = [hash |-> HashOf(t, c), at |-> n]
    BY <1>8, <2>1
  <2>3. r.hash = HashOf(t, c)
    BY <2>2
  <2> QED BY <1>5, <1>6, <2>1, <2>3
<1>10. PICK M : M = {[hash |-> k.hash, at |-> n] : k \in {i \in h.included : \A m \in I : m.hash # i.hash}}
  OBVIOUS
<1>11. chain'.included = I \cup M
  BY <1>1, <1>2, <1>10 DEF Plain
<1>12. ASSUME NEW r \in M PROVE r \in N
  <2>1. PICK k \in h.included : r = [hash |-> k.hash, at |-> n]
    BY <1>10
  <2>2. Includes(h, k.hash)
    BY DEF Includes
  <2>3. PICK c \in Cores : k.hash = chain.occ[c].hash /\ chain.occ[c] # NoOccupant
    BY <1>1, <2>2 DEF Plain
  <2>4. c \in Busy(t) /\ HashOf(t, c) = k.hash
    BY <1>6, <2>3
  <2>5. c \in L
    BY <1>2, <2>2, <2>4 DEF Leaving
  <2> QED BY <1>8, <2>1, <2>4, <2>5
<1>13. ASSUME NEW r \in N PROVE r \in M
  <2>1. PICK c \in L : r = [hash |-> HashOf(t, c), at |-> n]
    BY <1>8
  <2>2. PICK k \in h.included : k.hash = HashOf(t, c)
    BY <1>5 DEF Includes
  <2>3. \A m \in I : m.hash # k.hash
    BY <1>5, <1>6, <2>2
  <2> QED BY <1>10, <2>1, <2>2, <2>3
<1> QED BY <1>2, <1>7, <1>8, <1>9, <1>11, <1>12, <1>13

(* NewHead counts an inclusion for every candidate it stops following because
   it is included. *)
LEMMA HeadCountsIncluded ==
  ASSUME Between, Known, Following, CountedIncluded,
         NEW n, NEW forks, NEW survivor, NEW disputes, NEW found, NEW h,
         HeadTaken(n, forks, survivor, disputes, found, h)
  PROVE  CountedIncluded'
<1>1. chain \in ChainState /\ Fresh(h) /\ stats \in Statistics
  BY UpdateFresh DEF Between, Told
<1>2. PICK t, w, I, J, a, b : /\ t = tracker /\ w = tracker' /\ I = chain.included /\ J = chain'.included
                              /\ a = stats.included_count /\ b = stats'.included_count
  OBVIOUS
<1>3. IsFiniteSet(I) /\ IsFiniteSet(J) /\ I \subseteq J /\ a <= Cardinality(Gone(I, t)) /\ a \in Int
  <2>1. IsFiniteSet(J)
    BY <1>1, <1>2, IncludedGrows DEF CountedIncluded
  <2>2. I \subseteq J
    BY <1>1, <1>2, ChainGrows
  <2> QED BY <1>1, <1>2, <2>1, <2>2 DEF CountedIncluded, Statistics
<1>4. PICK G, H : G = Gone(I, t) /\ H = Gone(J, w)
  OBVIOUS
<1>5. IsFiniteSet(G) /\ IsFiniteSet(H) /\ Cardinality(G) \in Nat /\ Cardinality(H) \in Nat
  <2>1. G \subseteq I /\ H \subseteq J
    BY <1>4 DEF Gone
  <2> QED BY <1>3, <2>1, FS_Subset, FS_CardinalityType
<1>6. b <= Cardinality(H)
  <2>1. CASE found
    <3>1. b = a + Cardinality(Leaving(t, h)) /\ Derived(t, h, w)
      BY <1>2, <2>1, HeadInclusions
    <3>2. G \subseteq H
      BY <1>1, <1>2, <1>3, <1>4, <3>1, GoneStays
    <3>3. PICK R : /\ IsFiniteSet(R) /\ Cardinality(R) = Cardinality(Leaving(t, h))
                   /\ R \subseteq H /\ R \cap G = {}
      BY <1>2, <1>4, <3>1, LeavingGone
    <3>4. /\ Cardinality(G \cup R) = Cardinality(G) + Cardinality(R) /\ Cardinality(R) \in Nat
          /\ IsFiniteSet(G \cup R)
      <4>1. G \cap R = {}
        BY <3>3
      <4> QED BY <1>5, <3>3, <4>1, Disjoint
    <3>5. Cardinality(G \cup R) <= Cardinality(H)
      <4>1. G \cup R \subseteq H
        BY <3>2, <3>3
      <4> QED BY <1>5, <4>1, FS_Subset
    <3> QED BY <1>3, <1>4, <1>5, <3>1, <3>3, <3>4, <3>5
  <2>2. CASE ~found
    <3>1. Still(t, stats, [tracker |-> w, stats |-> stats', events |-> events'])
      <4>1. \/ ~found /\ Still(tracker, stats, [tracker |-> tracker', stats |-> stats', events |-> events'])
            \/ found
        BY HeadCases
      <4> QED BY <1>2, <2>2, <4>1
    <3>2. b = a /\ Unmoved(t, w) /\ Rested(t) /\ Single(t)
      BY <1>2, <3>1 DEF Still, Between
    <3>3. \A c \in Busy(w) : c \in Busy(t) /\ HashOf(w, c) = HashOf(t, c)
      BY <3>2, UnmovedCarries
    <3>4. G \subseteq H
      BY <1>3, <1>4, <3>3 DEF Gone
    <3>5. Cardinality(G) <= Cardinality(H)
      BY <1>5, <3>4, FS_Subset
    <3> QED BY <1>3, <1>4, <1>5, <3>2, <3>5
  <2> QED BY <2>1, <2>2
<1>7. ASSUME Regular' PROVE b = Cardinality(J)
  <2>1. Regular /\ found
    <3>1. Regular
      BY <1>7, RegularHead
    <3>2. chain'.missing = (chain.missing \/ ~found) /\ chain.missing \in BOOLEAN /\ found \in BOOLEAN
      BY <1>1, ChainGrows DEF ChainState, HeadTaken
    <3> QED BY <1>7, <3>1, <3>2 DEF Regular
  <2>2. a = Cardinality(I)
    BY <1>2, <2>1 DEF CountedIncluded
  <2>3. b = a + Cardinality(Leaving(t, h))
    BY <1>2, <2>1, HeadInclusions
  <2>4. PICK N : /\ IsFiniteSet(N) /\ Cardinality(N) = Cardinality(Leaving(t, h))
                 /\ J = I \cup N /\ N \cap I = {}
    BY <1>2, <1>7, RegularIncludes
  <2>5. Cardinality(I \cup N) = Cardinality(I) + Cardinality(N)
    <3>1. I \cap N = {}
      BY <2>4
    <3> QED BY <1>3, <2>4, <3>1, Disjoint
  <2> QED BY <2>2, <2>3, <2>4, <2>5
<1> QED BY <1>2, <1>3, <1>4, <1>6, <1>7 DEF CountedIncluded

InclusionsInvariant == FollowingInvariant /\ CountedIncluded

(* The inductive invariant of the number of inclusions. *)
LEMMA InclusionsInductive == Spec => []InclusionsInvariant
<1>1. Init => CountedIncluded
  <2> SUFFICES ASSUME Init PROVE CountedIncluded
    OBVIOUS
  <2>1. chain.included = {} /\ stats.included_count = 0
    BY DEF Init, NewStats
  <2>2. Gone({}, tracker) = {}
    BY DEF Gone
  <2>3. IsFiniteSet({}) /\ Cardinality({}) = 0
    BY FS_EmptySet
  <2> QED BY <2>1, <2>2, <2>3 DEF CountedIncluded
<1>2. FollowingInvariant /\ CountedIncluded /\ [Next]_vars => CountedIncluded'
  <2> SUFFICES ASSUME FollowingInvariant, CountedIncluded, [Next]_vars PROVE CountedIncluded'
    OBVIOUS
  <2>1. Between /\ Known /\ Following
    BY DEF FollowingInvariant
  <2>2. CASE NewHead
    <3>1. PICK n, forks, survivor, disputes, found, h : HeadTaken(n, forks, survivor, disputes, found, h)
      BY <2>2, TakeHead
    <3> QED BY <2>1, <3>1, HeadCountsIncluded
  <2>3. CASE NewSession
    <3>1. /\ tracker'.candidates = tracker.candidates /\ stats' = stats /\ chain'.included = chain.included
          /\ chain'.forked = chain.forked /\ chain'.missing = chain.missing
      BY <2>1, <2>3, SessionKeeps
    <3> QED BY <3>1 DEF CountedIncluded, Gone, Busy, HashOf, Regular
  <2>4. CASE UNCHANGED vars
    BY <2>4 DEF CountedIncluded, Gone, Busy, HashOf, Regular, vars
  <2> QED BY <2>2, <2>3, <2>4 DEF Next
<1> QED BY <1>1, <1>2, FollowingInductive, PTL DEF Spec, InclusionsInvariant

(* IncludedOnce: a candidate is counted included once however often its
   inclusion is reported, and without forks none is missed
   (set_included_candidates, maybe_reset_state, on_included). *)
THEOREM CountedOnce == Spec => []IncludedOnce
<1>1. InclusionsInvariant => IncludedOnce
  <2> SUFFICES ASSUME InclusionsInvariant PROVE IncludedOnce
    OBVIOUS
  <2>1. CountedIncluded /\ stats.included_count \in Int
    BY DEF InclusionsInvariant, FollowingInvariant, Between, Told, Statistics
  <2>2. Gone(chain.included, tracker) \subseteq chain.included
    BY DEF Gone
  <2>3. /\ Cardinality(Gone(chain.included, tracker)) <= Cardinality(chain.included)
        /\ Cardinality(Gone(chain.included, tracker)) \in Nat /\ Cardinality(chain.included) \in Nat
    BY <2>1, <2>2, FS_Subset, FS_CardinalityType DEF CountedIncluded
  <2> QED BY <2>1, <2>3 DEF CountedIncluded, IncludedOnce
<1> QED BY <1>1, InclusionsInductive, PTL
-----------------------------------------------------------------------------
(* How far apart they are. *)

(* The heights of inclusions; how the last one and the sum of the distances go with them. *)
Times(I) == {k.at : k \in I}
Span(T, last, sum) == \E lo, hi \in T : (\A x \in T : lo <= x /\ x <= hi) /\ last = hi /\ sum = hi - lo
Covered(I, last, sum) == IF I = {} THEN last = Nothing /\ sum = 0 ELSE Span(Times(I), last, sum)
Spanned(I, last, sum) == Cardinality(Times(I)) = Cardinality(I) => Covered(I, last, sum)
Elapsed(n, last) == IF last = Nothing THEN 0 ELSE as_u16(saturating_sub(n, last))

Dated ==
  /\ \A k \in chain.included : k.at <= chain.number
  /\ Regular => Spanned(chain.included, tracker.last_included.num, stats.included_times.sum)

(* There are no more heights of inclusions than inclusions. *)
LEMMA TimesCounted ==
  ASSUME NEW I, IsFiniteSet(I)
  PROVE  /\ IsFiniteSet(Times(I)) /\ Cardinality(Times(I)) \in Nat /\ Cardinality(I) \in Nat
         /\ Cardinality(Times(I)) <= Cardinality(I)
<1>1. PICK f : f = [k \in I |-> k.at]
  OBVIOUS
<1>2. f \in Surjection(I, Times(I))
  BY <1>1 DEF Surjection, Times
<1> QED BY <1>2, FS_Surjection, FS_CardinalityType

(* When every inclusion has a height of its own, a height adds one at most. *)
LEMMA OneAdded ==
  ASSUME NEW n, NEW I, NEW N, IsFiniteSet(I), IsFiniteSet(N), N \cap I = {},
         n \in Int, \A k \in I : k.at \in Int /\ k.at < n, \A k \in N : k.at = n,
         Cardinality(Times(I \cup N)) = Cardinality(I \cup N)
  PROVE  Cardinality(N) \in {0, 1} /\ Cardinality(Times(I)) = Cardinality(I)
<1>1. PICK a, b, c, d : /\ a = Cardinality(I) /\ b = Cardinality(N)
                        /\ c = Cardinality(Times(I)) /\ d = Cardinality(Times(N))
  OBVIOUS
<1>2. IsFiniteSet(Times(I)) /\ a \in Nat /\ c \in Nat /\ c <= a
  BY <1>1, TimesCounted
<1>3. IsFiniteSet(Times(N)) /\ b \in Nat /\ d \in Nat /\ d <= b
  BY <1>1, TimesCounted
<1>4. d <= 1
  <2>1. Times(N) \subseteq {n}
    BY DEF Times
  <2>2. IsFiniteSet({n}) /\ Cardinality({n}) = 1
    BY FS_Singleton
  <2> QED BY <1>1, <2>1, <2>2, FS_Subset
<1>5. Cardinality(I \cup N) = a + b
  <2>1. I \cap N = {}
    OBVIOUS
  <2> QED BY <1>1, <2>1, Disjoint
<1>6. Cardinality(Times(I \cup N)) = c + d
  <2>1. Times(I \cup N) = Times(I) \cup Times(N)
    BY DEF Times
  <2>2. Times(I) \cap Times(N) = {}
    <3>1. SUFFICES ASSUME NEW x \in Times(I), x \in Times(N) PROVE FALSE
      OBVIOUS
    <3>2. x = n
      BY <3>1 DEF Times
    <3>3. x \in Int /\ x < n
      BY <3>1 DEF Times
    <3> QED BY <3>2, <3>3
  <2> QED BY <1>1, <1>2, <1>3, <2>1, <2>2, Disjoint
<1>7. a + b = c + d
  BY <1>5, <1>6
<1>8. b <= 1
  BY <1>2, <1>3, <1>4, <1>7
<1>9. c = a
  BY <1>2, <1>3, <1>7
<1> QED BY <1>1, <1>3, <1>8, <1>9

(* Something is included of a tracker when a core is left. *)
LEMMA AnyLeaves ==
  ASSUME NEW t, Rested(t), Single(t), NEW h
  PROVE  AnyIncluded(t, h) <=> Leaving(t, h) # {}
<1>1. ASSUME NEW c \in Cores, NEW i \in DOMAIN t.candidates[c] PROVE i = 1 /\ Len(t.candidates[c]) = 1
  <2>1. PICK k \in Nat : k = Len(t.candidates[c]) /\ DOMAIN t.candidates[c] = 1..k
    <3>1. t.candidates[c] \in Seq(Entry)
      BY DEF Rested, TrackerState
    <3> QED BY <3>1
  <2>2. k <= 1
    BY <2>1 DEF Single
  <2>3. i \in 1..k
    BY <2>1
  <2>4. i = 1 /\ k = 1
    BY <2>2, <2>3
  <2> QED BY <2>1, <2>4
<1>2. ASSUME AnyIncluded(t, h) PROVE Leaving(t, h) # {}
  <2>1. PICK c \in Cores : \E i \in DOMAIN t.candidates[c] : Includes(h, t.candidates[c][i].candidate_hash)
    BY <1>2 DEF AnyIncluded
  <2>2. PICK i \in DOMAIN t.candidates[c] : Includes(h, t.candidates[c][i].candidate_hash)
    BY <2>1
  <2>3. i = 1 /\ Len(t.candidates[c]) = 1
    BY <1>1
  <2>4. c \in Leaving(t, h)
    BY <2>2, <2>3 DEF Leaving, Busy, HashOf
  <2> QED BY <2>4
<1>3. ASSUME NEW c \in Leaving(t, h) PROVE AnyIncluded(t, h)
  <2>1. c \in Cores /\ Len(t.candidates[c]) = 1 /\ Includes(h, t.candidates[c][1].candidate_hash)
    BY DEF Leaving, Busy, HashOf
  <2>2. 1 \in DOMAIN t.candidates[c]
    <3>1. t.candidates[c] \in Seq(Entry)
      BY <2>1 DEF Rested, TrackerState
    <3> QED BY <2>1, <3>1
  <2> QED BY <2>1, <2>2 DEF AnyIncluded
<1> QED BY <1>2, <1>3

(* One inclusion at n, after those of I. *)
LEMMA SpanGrows ==
  ASSUME NEW I, NEW N, NEW n, NEW last, NEW sum, NEW next,
         n \in Nat, n <= 65535, \A k \in I : k.at \in Nat /\ k.at < n, \A k \in N : k.at = n, N # {},
         Covered(I, last, sum), next = sum + Elapsed(n, last)
  PROVE  Span(Times(I \cup N), n, next)
<1>1. PICK T, U : T = Times(I) /\ U = Times(I \cup N)
  OBVIOUS
<1>2. U = T \cup {n} /\ \A x \in T : x \in Nat /\ x < n
  BY <1>1 DEF Times
<1>3. CASE I = {}
  <2>1. T = {}
    BY <1>1, <1>3 DEF Times
  <2>2. U = {n}
    BY <1>2, <2>1
  <2>3. next = 0
    BY <1>3 DEF Covered, Elapsed
  <2>4. n \in U /\ \A x \in U : n <= x /\ x <= n
    BY <2>2
  <2>5. next = n - n
    BY <2>3
  <2>6. Span(U, n, next)
    BY <2>4, <2>5 DEF Span
  <2> QED BY <1>1, <2>6
<1>4. CASE I # {}
  <2>1. PICK lo \in T, hi \in T : (\A x \in T : lo <= x /\ x <= hi) /\ last = hi /\ sum = hi - lo
    BY <1>1, <1>4 DEF Covered, Span
  <2>2. lo \in Nat /\ hi \in Nat /\ lo < n /\ hi < n
    BY <1>2
  <2>3. as_u16(saturating_sub(n, last)) = n - hi
    <3>1. saturating_sub(n, last) = n - hi
      BY <2>1, <2>2 DEF saturating_sub
    <3>2. PICK d : d = n - hi
      OBVIOUS
    <3>3. d \in Int /\ 0 <= d /\ d < 65536
      BY <2>2, <3>2
    <3>4. d % 65536 = d
      BY <3>3
    <3> QED BY <3>1, <3>2, <3>4 DEF as_u16
  <2>4. next = n - lo
    <3>1. last # Nothing
      BY <2>1, <2>2 DEF Nothing
    <3> QED BY <2>1, <2>2, <2>3, <3>1 DEF Elapsed
  <2>5. lo \in U /\ n \in U /\ \A x \in U : lo <= x /\ x <= n
    BY <1>2, <2>1, <2>2
  <2>6. Span(U, n, next)
    BY <2>4, <2>5 DEF Span
  <2> QED BY <1>1, <2>6
<1> QED BY <1>3, <1>4

(* NewHead adds the distance from the last inclusion. *)
LEMMA HeadDated ==
  ASSUME Between, Known, Following, CountedIncluded, Dated,
         NEW n, NEW forks, NEW survivor, NEW disputes, NEW found, NEW h,
         HeadTaken(n, forks, survivor, disputes, found, h), n <= 65535
  PROVE  Dated'
<1>1. chain \in ChainState /\ Rested(tracker) /\ Single(tracker)
  BY DEF Between
<1>2. n \in Nat /\ n = chain.number + 1 /\ chain'.number = n /\ chain.number \in Nat
  <2>1. n \in Nat /\ chain'.number = n
    BY <1>1, ChainGrows
  <2> QED BY <1>1, <2>1 DEF HeadTaken, ChainState
<1>3. PICK I, J : I = chain.included /\ J = chain'.included
  OBVIOUS
<1>4. \A k \in I : k.at \in Nat /\ k.at < n
  BY <1>1, <1>2, <1>3 DEF Dated, ChainState
<1>5. \A k \in J : k.at <= n
  <2>1. J = I \cup {[hash |-> k.hash, at |-> n] : k \in {i \in h.included : \A m \in chain.included : m.hash # i.hash}}
    BY <1>1, <1>3, ChainGrows
  <2> QED BY <1>2, <1>4, <2>1
<1>6. ASSUME Regular', Cardinality(Times(J)) = Cardinality(J)
      PROVE  Covered(J, tracker'.last_included.num, stats'.included_times.sum)
  <2>1. Regular /\ \E u : First(h, n, u, tracker', stats', events')
    BY <1>6, RegularHead
  <2>2. PICK u : First(h, n, u, tracker', stats', events')
    BY <2>1
  <2>3. PICK L : L = Leaving(tracker, h)
    OBVIOUS
  <2>4. PICK N : /\ IsFiniteSet(N) /\ Cardinality(N) = Cardinality(L)
                 /\ N = {[hash |-> HashOf(tracker, c), at |-> n] : c \in L}
                 /\ J = I \cup N /\ N \cap I = {}
    BY <1>3, <1>6, <2>3, RegularIncludes
  <2>5. IsFiniteSet(I) /\ IsFiniteSet(L)
    <3>1. L \subseteq Cores
      BY <2>3 DEF Leaving, Busy
    <3> QED BY <1>3, <3>1, CoresFinite, FS_Subset DEF CountedIncluded
  <2>6. \A k \in N : k.at = n
    BY <2>4
  <2>7. Cardinality(N) \in {0, 1} /\ Cardinality(Times(I)) = Cardinality(I)
    BY <1>2, <1>4, <1>6, <2>4, <2>5, <2>6, OneAdded
  <2>8. PICK last, sum, last2, sum2 : /\ last = tracker.last_included.num /\ sum = stats.included_times.sum
                                      /\ last2 = tracker'.last_included.num /\ sum2 = stats'.included_times.sum
    OBVIOUS
  <2>9. Covered(I, last, sum)
    BY <1>3, <2>1, <2>7, <2>8 DEF Dated, Spanned
  <2>10. IncludedCores(u) = L
    BY <2>2, <2>3 DEF First, Step, Outcome, Leaving, Busy, HashOf
  <2>11. /\ Cardinality(L) = 0 => stats'.included_times = stats.included_times
         /\ Cardinality(L) = 1 => sum2 = sum + Distance(u)
    BY <2>2, <2>8, <2>10 DEF First, Step, Tells
  <2>12. /\ IF L # {} THEN u.previous_included = tracker.last_included /\ u.last_included = u.current
            ELSE u.previous_included = tracker.previous_included /\ u.last_included = tracker.last_included
         /\ tracker'.last_included = u.last_included /\ u.current.num = n
    BY <1>1, <2>2, <2>3, AnyLeaves DEF First, Step, Outcome
  <2>13. CASE Cardinality(N) = 0
    <3>1. L = {}
      <4>1. Cardinality(L) = 0
        BY <2>4, <2>13
      <4> QED BY <2>5, <4>1, FS_EmptySet
    <3>2. J = I
      BY <2>4, <3>1
    <3>3. last2 = last /\ sum2 = sum
      BY <2>4, <2>8, <2>11, <2>12, <2>13, <3>1
    <3> QED BY <2>8, <2>9, <3>2, <3>3
  <2>14. CASE Cardinality(N) = 1
    <3>1. L # {} /\ N # {}
      <4>1. Cardinality({}) = 0
        BY FS_EmptySet
      <4> QED BY <2>4, <2>14, <4>1
    <3>2. last2 = n
      BY <2>8, <2>12, <3>1
    <3>3. sum2 = sum + Elapsed(n, last)
      <4>1. u.previous_included.num = last
        BY <2>8, <2>12, <3>1
      <4> QED BY <2>4, <2>11, <2>12, <2>14, <4>1 DEF Distance, Elapsed
    <3>4. Span(Times(I \cup N), n, sum2)
      <4>1. n \in Nat /\ n <= 65535 /\ N # {}
        BY <1>2, <3>1
      <4> QED BY <1>4, <2>6, <2>9, <3>3, <4>1, SpanGrows
    <3>5. J # {}
      BY <2>4, <3>1
    <3> QED BY <2>4, <2>8, <3>2, <3>4, <3>5 DEF Covered
  <2> QED BY <2>7, <2>13, <2>14
<1> QED BY <1>2, <1>3, <1>5, <1>6 DEF Dated, Spanned

(* The inductive invariant of the inclusion times; a distance fits 16 bits when
   the chain does. *)
LEMMA DatedInductive ==
  ASSUME MaxNumber <= 65535
  PROVE  Spec => [](InclusionsInvariant /\ Dated)
<1>1. Init => Dated
  BY DEF Init, NewStats, NewTracker, NoBlock, NewBucket, Dated, Spanned, Covered
<1>2. InclusionsInvariant /\ Dated /\ [Next]_vars => Dated'
  <2> SUFFICES ASSUME InclusionsInvariant, Dated, [Next]_vars PROVE Dated'
    OBVIOUS
  <2>1. Between /\ Known /\ Following /\ CountedIncluded
    BY DEF InclusionsInvariant, FollowingInvariant
  <2>2. CASE NewHead
    <3>1. PICK n, forks, survivor, disputes, found, h : HeadTaken(n, forks, survivor, disputes, found, h)
      BY <2>2, TakeHead
    <3>2. n <= 65535
      <4>1. n = chain.number + 1 /\ chain.number < MaxNumber /\ chain.number \in Nat
        BY <2>1, <2>2, <3>1 DEF NewHead, HeadTaken, Between, ChainState
      <4>2. MaxNumber \in Nat
        BY TrackerAssumption
      <4> QED BY <4>1, <4>2
    <3> QED BY <2>1, <3>1, <3>2, HeadDated
  <2>3. CASE NewSession
    <3>1. /\ tracker'.last_included = tracker.last_included /\ stats' = stats /\ chain'.included = chain.included
          /\ chain'.forked = chain.forked /\ chain'.missing = chain.missing /\ chain'.number = chain.number
      BY <2>1, <2>3, SessionKeeps
    <3> QED BY <3>1 DEF Dated, Regular
  <2>4. CASE UNCHANGED vars
    BY <2>4 DEF Dated, Regular, vars
  <2> QED BY <2>2, <2>3, <2>4 DEF Next
<1> QED BY <1>1, <1>2, InclusionsInductive, PTL DEF Spec

(* InclusionTimesAddUp: with one inclusion at a time the inclusion times add up
   to the distance between the first and the last one.  on_included() keeps the
   distances in 16 bits, so the chain must not be longer than they count
   (set_included_candidates, previous_included_at, on_included). *)
THEOREM InclusionTimes ==
  ASSUME MaxNumber <= 65535
  PROVE  Spec => []InclusionTimesAddUp
<1>1. InclusionsInvariant /\ Dated => InclusionTimesAddUp
  <2> SUFFICES ASSUME InclusionsInvariant, Dated, NEW A, A = {k.at : k \in chain.included},
                      Regular, A # {}, Cardinality(A) = Cardinality(chain.included)
               PROVE  stats.included_times.sum = Max(A) - Min(A)
    BY DEF InclusionTimesAddUp
  <2>1. A = Times(chain.included) /\ chain.included # {} /\ \A x \in A : x \in Int
    BY DEF Times, InclusionsInvariant, FollowingInvariant, Between, ChainState
  <2>2. PICK lo \in A, hi \in A : (\A x \in A : lo <= x /\ x <= hi) /\ stats.included_times.sum = hi - lo
    <3>1. Span(A, tracker.last_included.num, stats.included_times.sum)
      BY <2>1 DEF Dated, Spanned, Covered
    <3> QED BY <3>1 DEF Span
  <2>3. Max(A) = hi
    <3>1. PICK m : m = CHOOSE x \in A : \A y \in A : x >= y
      OBVIOUS
    <3>2. Max(A) = m
      BY <3>1 DEF Max
    <3>3. \A y \in A : hi >= y
      BY <2>1, <2>2
    <3>4. m \in A /\ m >= hi
      BY <3>1, <3>3
    <3>5. m \in Int /\ hi \in Int /\ m <= hi
      BY <2>1, <2>2, <3>4
    <3>6. m = hi
      BY <3>4, <3>5
    <3> QED BY <3>2, <3>6
  <2>4. Min(A) = lo
    <3>1. PICK m : m = CHOOSE x \in A : \A y \in A : x =< y
      OBVIOUS
    <3>2. Min(A) = m
      BY <3>1 DEF Min
    <3>3. \A y \in A : lo =< y
      BY <2>1, <2>2
    <3>4. m \in A /\ m =< lo
      BY <3>1, <3>3
    <3>5. m \in Int /\ lo \in Int /\ lo <= m
      BY <2>1, <2>2, <3>4
    <3>6. m = lo
      BY <3>4, <3>5
    <3> QED BY <3>2, <3>6
  <2> QED BY <2>2, <2>3, <2>4
<1> QED BY <1>1, DatedInductive, PTL
=============================================================================
