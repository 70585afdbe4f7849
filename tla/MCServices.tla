----------------------------- MODULE MCServices -----------------------------
EXTENDS Services

CONSTANTS p1, p2, k1, k2, collector, http, reader

(* Callers of the plain storage keep persistent records apart. *)
PersistentApart == [k \in Keys |-> IF k = k2 THEN {"Persistent"} ELSE {"Offchain"}]
(* A candidate's hash is a key under several prefixes. *)
SharedSlots == {<<p1, k1>>, <<p2, k1>>}
OneDeleted == {<<p2, k1>>}

(* b3 and f3 share their height; only times between neighbouring heights are
   powers of two. *)
FourHeights ==
  [b1 |-> [number |-> 1, timestamp |-> 1, parent |-> "b0"],
   b2 |-> [number |-> 2, timestamp |-> 2, parent |-> "b1"],
   b3 |-> [number |-> 3, timestamp |-> 4, parent |-> "b2"],
   f3 |-> [number |-> 3, timestamp |-> 6, parent |-> "b2"],
   b4 |-> [number |-> 4, timestamp |-> 8, parent |-> "b3"]]
=============================================================================
