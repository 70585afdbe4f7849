-------------------------- MODULE PriorityChannel --------------------------
(***************************************************************************)
(* The two-lane channel of priority-channel/src/lib.rs: a bulk and a       *)
(* priority lane, each a bounded async_channel, behind one Sender and one  *)
(* Receiver type, both of which can be cloned.  A receive operation looks  *)
(* at one lane and then, in a second step, at the other; senders and other *)
(* receivers run in between.                                               *)
(*                                                                         *)
(* The n-th message sent is the number n.                                  *)
(***************************************************************************)
EXTENDS Integers, Sequences, FiniteSets

CONSTANTS Senders,         \* the clones of the Sender
          Streams,         \* receivers used through poll_next() or try_next()
          Recvs,           \* receivers used through recv(), see recv
          Capacities,      \* the capacity of each lane
          Strategies,      \* the lanes a try_next_with_strategy() may try first
          MaxSent          \* bound: how many messages are sent

Lanes == {"bulk", "priority"}

Other(l) == IF l = "bulk" THEN "priority" ELSE "bulk"

Receivers == Streams \cup Recvs

ASSUME ChannelAssumption ==
  /\ Capacities \in [Lanes -> Nat \ {0}]
  /\ Strategies \subseteq Lanes
  /\ Streams \cap Recvs = {}
  /\ MaxSent \in Nat

VARIABLES lane,      \* the messages in each lane
          alive,     \* the senders and receivers that have not been dropped
          poll,      \* the lane a receive operation still has to look at, or "none"
          ended,     \* the receivers that were told of the end of the channel
          sent,      \* ghost: all messages sent to each lane, in order
          received,  \* ghost: all messages received from each lane, in order
          since      \* ghost: how many had been sent when the current poll began

vars == <<lane, alive, poll, ended, sent, received, since>>

Count == Len(sent["bulk"]) + Len(sent["priority"])

(* A lane is closed when one of its sides is gone. *)
Closed == alive \cap Senders = {} \/ alive \cap Receivers = {}

channel_with_capacities ==
  /\ lane = [l \in Lanes |-> <<>>]
  /\ alive = Senders \cup Receivers
  /\ poll = [r \in Receivers |-> "none"]
  /\ ended = {}
  /\ sent = [l \in Lanes |-> <<>>]
  /\ received = [l \in Lanes |-> <<>>]
  /\ since = [r \in Receivers |-> 0]

(* send(), send_priority() and their try_ forms: a full lane holds the sender back
   or fails, a channel without receivers fails. *)
send(s, l) ==
  /\ s \in alive
  /\ alive \cap Receivers # {}
  /\ Len(lane[l]) < Capacities[l]
  /\ Count < MaxSent
  /\ lane' = [lane EXCEPT ![l] = Append(@, Count + 1)]
  /\ sent' = [sent EXCEPT ![l] = Append(@, Count + 1)]
  /\ UNCHANGED <<alive, poll, ended, received, since>>

(* A wrong receiver that leaves the message it took in the lane. *)
Peek(r, l) ==
  /\ lane[l] # <<>>
  /\ received' = [received EXCEPT ![l] = Append(@, Head(lane[l]))]
  /\ poll' = [poll EXCEPT ![r] = "none"]
  /\ UNCHANGED <<lane, ended>>

(* The receiver takes the first message of a lane. *)
Take(r, l) ==
  /\ lane[l] # <<>>
  /\ lane' = [lane EXCEPT ![l] = Tail(@)]
  /\ received' = [received EXCEPT ![l] = Append(@, Head(lane[l]))]
  /\ poll' = [poll EXCEPT ![r] = "none"]
  /\ UNCHANGED ended

(* A wrong receiver that reports the end as soon as the lane is closed. *)
EndAtOnce(r, l) ==
  /\ Closed
  /\ ended' = ended \cup {r}
  /\ poll' = [poll EXCEPT ![r] = "none"]
  /\ UNCHANGED <<lane, received>>

(* The receiver sees that the lane is closed and empty, and reports the end of the
   channel, whatever the other lane holds. *)
End(r, l) ==
  /\ lane[l] = <<>>
  /\ Closed
  /\ ended' = ended \cup {r}
  /\ poll' = [poll EXCEPT ![r] = "none"]
  /\ UNCHANGED <<lane, received>>

(* A wrong first half that passes on to the other lane whatever the first holds. *)
TryFirstUnchecked(r, l) ==
  /\ r \in alive /\ r \notin ended
  /\ poll[r] = "none"
  /\ poll' = [poll EXCEPT ![r] = Other(l)]
  /\ since' = [since EXCEPT ![r] = Count]
  /\ UNCHANGED <<lane, received, ended, alive, sent>>

(* The first half of poll_next() and try_next_with_strategy(): `l` is the lane
   tried first. *)
TryFirst(r, l) ==
  /\ r \in alive /\ r \notin ended
  /\ poll[r] = "none"
  /\ \/ Take(r, l)
     \/ End(r, l)
     \/ /\ lane[l] = <<>> /\ ~Closed
        /\ poll' = [poll EXCEPT ![r] = Other(l)]
        /\ UNCHANGED <<lane, received, ended>>
  /\ since' = [since EXCEPT ![r] = Count]
  /\ UNCHANGED <<alive, sent>>

(* The second half.  Pending (or Empty) leaves the receiver to try again. *)
TrySecond(r) ==
  /\ r \in alive
  /\ poll[r] # "none"
  /\ \/ Take(r, poll[r])
     \/ End(r, poll[r])
     \/ /\ lane[poll[r]] = <<>> /\ ~Closed
        /\ poll' = [poll EXCEPT ![r] = "none"]
        /\ UNCHANGED <<lane, received, ended>>
  /\ UNCHANGED <<alive, sent, since>>

(* A wrong poll_next() that never gets to the bulk lane. *)
poll_next_priority(r) == r \in Streams /\ TryFirst(r, "priority")

poll_next(r) == r \in Streams /\ (TryFirst(r, "priority") \/ TrySecond(r))

try_next_with_strategy(r) ==
  r \in Streams /\ \E l \in Strategies : TryFirst(r, l) \/ TrySecond(r)

(* recv(), which the Receiver inherits from its bulk lane by Deref. *)
recv(r) ==
  /\ r \in Recvs
  /\ r \in alive /\ r \notin ended
  /\ Take(r, "bulk") \/ End(r, "bulk")
  /\ UNCHANGED <<alive, sent, since>>

drop(x) ==
  /\ x \in alive
  /\ alive' = alive \ {x}
  /\ UNCHANGED <<lane, poll, ended, sent, received, since>>

Next ==
  \/ \E s \in Senders, l \in Lanes : send(s, l)
  \/ \E r \in Receivers : poll_next(r) \/ try_next_with_strategy(r) \/ recv(r)
  \/ \E x \in Senders \cup Receivers : drop(x)

(* Receivers that are not dropped keep receiving. *)
Spec == /\ channel_with_capacities
        /\ [][Next]_vars
        /\ \A r \in Receivers : WF_vars(poll_next(r) \/ recv(r))
-----------------------------------------------------------------------------
TypeOK ==
  /\ lane \in [Lanes -> Seq(1..MaxSent)]
  /\ sent \in [Lanes -> Seq(1..MaxSent)]
  /\ received \in [Lanes -> Seq(1..MaxSent)]
  /\ alive \subseteq Senders \cup Receivers
  /\ poll \in [Receivers -> Lanes \cup {"none"}]
  /\ ended \subseteq Receivers
  /\ since \in [Receivers -> 0..MaxSent]

(* With any number of senders and receivers, each lane hands out every message
   once, in the order of sending, and holds exactly the rest, within its
   capacity. *)
LaneOrder ==
  \A l \in Lanes : /\ sent[l] = received[l] \o lane[l]
                   /\ Len(lane[l]) <= Capacities[l]

(* A receiver that looks at the priority lane first takes no bulk message past a
   priority message that was waiting when it began to look; a later one it may
   pass, because the lanes are looked at one after the other. *)
NoOvertaking ==
  [][\A r \in Streams :
       /\ poll[r] = "bulk" /\ poll'[r] = "none"
       /\ received'["bulk"] # received["bulk"]
       => \A i \in 1..Len(lane["priority"]) : lane["priority"][i] > since[r]]_vars

(* The end of the channel may be reported while one of the lanes still holds
   messages, never while both do. *)
EndAfterALane ==
  ended # {} /\ alive \cap Receivers # {} => \E l \in Lanes : lane[l] = <<>>

(* A receiver that goes on receiving empties both lanes, or is told of the end. *)
EventuallyReceived ==
  \A r \in Streams :
    <>[](r \in alive) => []<>(r \in ended \/ \A l \in Lanes : lane[l] = <<>>)
=============================================================================
