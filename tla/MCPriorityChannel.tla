------------------------- MODULE MCPriorityChannel -------------------------
EXTENDS PriorityChannel

CONSTANTS s1, r1, r2, r3

(* As the collector makes its channels: room for several bulk messages, and for
   one priority message. *)
SmallCapacities == [bulk |-> 2, priority |-> 1]
AnyStrategy == Lanes
=============================================================================
