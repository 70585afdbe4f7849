----------------------------- MODULE MCTracker -----------------------------
(* Instances of Tracker: heights with forks, with a session change, with an
   unassigned core and with a dispute, few enough to explore every order. *)
EXTENDS Tracker

Second == {2}
Third == {3}
Fourth == {4}

TwoDisputes ==
  {[outcome |-> "Valid", for |-> 3, against |-> 1, initiated |-> 1, concluded |-> 3, stated |-> TRUE],
   [outcome |-> "TimedOut", for |-> 2, against |-> 1, initiated |-> 2, concluded |-> 1, stated |-> FALSE]}
=============================================================================
