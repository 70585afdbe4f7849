--------------------------- MODULE DisputeEvents ---------------------------
(***************************************************************************)
(* Where the collector's dispute events come from.  For every head it      *)
(* follows it asks the runtime for all disputes and turns them into the    *)
(* events of that block.  In shadow mode it also reads the events the      *)
(* disputes pallet deposited in the block, and ends the program when the   *)
(* two disagree.  The runtime keeps the block of a dispute's first         *)
(* conclusion only, while validators that vote on both sides can make it   *)
(* conclude both ways, in one block or in two.                             *)
(*                                                                         *)
(* Every block is followed, and the votes of a side are their number.      *)
(* Candidate events are passed on as they are by both ways and left out.   *)
(***************************************************************************)
EXTENDS Integers

CONSTANTS Disputed,         \* candidate hashes
          ValidatorCounts,  \* sizes of the validator set
          LastBlock,        \* bound on block numbers
          NotConcluded      \* concluded_at: None

ASSUME DisputeAssumption ==
  ValidatorCounts \subseteq Nat /\ LastBlock \in Nat /\ NotConcluded \notin Nat

VARIABLES
  validator_count,  \* of the session
  block,            \* its number, the disputes after it, and its events
  collected,        \* whether the collector has processed the block
  happened,         \* the events of all blocks: <<block, event>>
  chain_events,     \* what the collector made of them
  aborted           \* the shadow comparison has failed, which ends the program

disputesVars == <<validator_count, block, collected, happened, chain_events, aborted>>

Sides == {"Valid", "Invalid"}

Undisputed == [start |-> 0, votes |-> [s \in Sides |-> 0], concluded_at |-> NotConcluded]

Initiated(c) == <<"DisputeInitiated", c, "">>
Concluded(c, outcome) == <<"DisputeConcluded", c, outcome>>

DisputesInit ==
  /\ validator_count \in ValidatorCounts
  /\ block = [number |-> 0, disputes |-> [c \in Disputed |-> Undisputed], events |-> {}]
  /\ collected = TRUE
  /\ happened = {} /\ chain_events = {}
  /\ aborted = FALSE
-----------------------------------------------------------------------------
(* The disputes pallet: a side concludes when fewer than a third of the
   validators have not voted for it. *)
ConcludesWith(n) == 3 * (validator_count - n) < validator_count

DisputeAfter(old, votes, number) ==
  [start |-> IF old = Undisputed THEN number ELSE old.start,
   votes |-> votes,
   concluded_at |->
     IF old.concluded_at = NotConcluded /\ \E s \in Sides : ConcludesWith(votes[s])
     THEN number ELSE old.concluded_at]

EventsOf(c, old, votes) ==
  (IF old = Undisputed THEN {Initiated(c)} ELSE {}) \cup
  {Concluded(c, s) : s \in {t \in Sides : ~ConcludesWith(old.votes[t]) /\ ConcludesWith(votes[t])}}

(* A block brings votes on some candidates. *)
pallet_block ==
  /\ collected /\ ~aborted
  /\ block.number < LastBlock
  /\ \E votes \in [Disputed -> [Sides -> 0..validator_count]] :
       LET voted == {c \in Disputed : votes[c] # block.disputes[c].votes}
           number == block.number + 1
           events == UNION {EventsOf(c, block.disputes[c], votes[c]) : c \in voted}
       IN  /\ \A c \in Disputed, s \in Sides : votes[c][s] >= block.disputes[c].votes[s]
           /\ block' = [number |-> number,
                        disputes |-> [c \in Disputed |->
                                        IF c \in voted THEN DisputeAfter(block.disputes[c], votes[c], number)
                                                       ELSE block.disputes[c]],
                        events |-> events]
           /\ happened' = happened \cup {<<number, e>> : e \in events}
  /\ collected' = FALSE
  /\ UNCHANGED <<validator_count, chain_events, aborted>>
-----------------------------------------------------------------------------
supermajority_threshold(n) == n - (IF n = 0 THEN 0 ELSE n - 1) \div 3  \* saturating_sub

reached_supermajority(votes) ==
  validator_count > 0 /\ votes >= supermajority_threshold(validator_count)

disputes == {c \in Disputed : block.disputes[c] # Undisputed}

disputes_to_chain_events(number) ==
  LET of(c) == block.disputes[c]
      concluded == {d \in disputes : of(d).concluded_at = number}
  IN  {Initiated(c) : c \in {d \in disputes : of(d).start = number}} \cup
      {Concluded(x[1], x[2]) :
         x \in {y \in concluded \X Sides : reached_supermajority(of(y[1]).votes[y[2]])}}

(* A wrong exclusion that takes every earlier conclusion for a possible second one. *)
concluded_earlier(number) ==
  {c \in disputes : block.disputes[c].concluded_at \in 1..number}

concluded_earlier_both_ways(number) ==
  {c \in disputes : /\ block.disputes[c].concluded_at # NotConcluded
                    /\ block.disputes[c].concluded_at < number
                    /\ \A s \in Sides : reached_supermajority(block.disputes[c].votes[s])}

OfKind(events, kind) == {e \in events : e[1] = kind}

(* Items are compared by key, whatever their order; a mismatch ends the program. *)
compare_set(old, new) == old = new

(* Both ways to the events of the block agree, but for second conclusions. *)
shadow_events(number, events) ==
  LET twice == concluded_earlier_both_ways(number)
      scraped_concluded ==
        {e \in OfKind(block.events, "DisputeConcluded") : e[2] \notin twice}
  IN  /\ compare_set(OfKind(block.events, "DisputeInitiated"), OfKind(events, "DisputeInitiated"))
      /\ compare_set(scraped_concluded, OfKind(events, "DisputeConcluded"))

(* The collector processes the block; in shadow mode it compares first. *)
collect_chain_events ==
  /\ ~collected
  /\ LET events == disputes_to_chain_events(block.number)
     IN  /\ chain_events' = chain_events \cup {<<block.number, e>> : e \in events}
         /\ aborted' = ~shadow_events(block.number, events)
  /\ collected' = TRUE
  /\ UNCHANGED <<validator_count, block, happened>>

DisputesNext == pallet_block \/ collect_chain_events

DisputesSpec == DisputesInit /\ [][DisputesNext]_disputesVars
-----------------------------------------------------------------------------
DisputesTypeOK ==
  /\ validator_count \in ValidatorCounts
  /\ block.number \in 0..LastBlock
  /\ \A c \in Disputed : /\ block.disputes[c].start \in 0..block.number
                         /\ block.disputes[c].concluded_at \in 1..block.number \cup {NotConcluded}
  /\ collected \in BOOLEAN /\ aborted \in BOOLEAN

(* The runtime call tells the collector what happened: the comparison never
   aborts, nothing is made up or attributed to another block, and what is missed
   is the later of two conclusions in different blocks, as the comment on
   disputes_to_chain_events admits. *)
DisputesTold ==
  /\ ~aborted
  /\ chain_events \subseteq happened
  /\ collected =>
       \A x \in happened \ chain_events :
         /\ x[2][1] = "DisputeConcluded"
         /\ \E y \in chain_events : /\ y[1] < x[1]
                                    /\ y[2][1] = "DisputeConcluded"
                                    /\ y[2][2] = x[2][2]
=============================================================================
