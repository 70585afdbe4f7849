------------------------- MODULE MCPrefixedStorage -------------------------
EXTENDS PrefixedStorage

CONSTANTS p1, p2, k1, k2, k3

(* The way the collector uses the storage: a candidate's hash is a key under
   several prefixes (its parachain, the candidate record, the dispute), other
   records have a key of their own. *)
MixedSlots == {<<p1, k1>>, <<p2, k1>>, <<p1, k2>>, <<p2, k3>>}

OneDeleted == {<<p1, k1>>}
=============================================================================
