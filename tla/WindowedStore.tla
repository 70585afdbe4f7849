--------------------------- MODULE WindowedStore ---------------------------
(***************************************************************************)
(* What a record storage with expiry promises, without its index: every    *)
(* record expires together with the block it was inserted at, and the      *)
(* blocks kept are the MaxBlocks highest ones.                             *)
(***************************************************************************)
EXTENDS Integers, FiniteSets

CONSTANTS Slots,     \* the addresses of the records told apart
          Blocks,    \* block numbers
          MaxBlocks, \* how many blocks are kept
          Nowhere    \* the insertion block of a record that is not stored

VARIABLES window,    \* the blocks kept
          live       \* for each slot, the block its record was inserted at

vars == <<window, live>>

Lowest(w) == CHOOSE b \in w : \A c \in w : b <= c

Newest(w) == IF Cardinality(w) > MaxBlocks THEN w \ {Lowest(w)} ELSE w

Init == /\ window = {}
        /\ live = [s \in Slots |-> Nowhere]

(* A record at block `b` comes in; what is no longer in the window expires, of the
   records at `at`. *)
Enter(b, at) ==
  /\ window' = Newest(window \cup {b})
  /\ live' = [s \in Slots |-> IF at[s] \in window' THEN at[s] ELSE Nowhere]

(* The record takes an empty slot, *)
Store(s, b) == live[s] = Nowhere /\ Enter(b, [live EXCEPT ![s] = b])

(* or a place that is not one of the slots. *)
StoreElsewhere(b) == Enter(b, live)

Next == \E b \in Blocks : StoreElsewhere(b) \/ \E s \in Slots : Store(s, b)

Spec == Init /\ [][Next]_vars
=============================================================================
