----------------------- MODULE PriorityChannelProofs -----------------------
(***************************************************************************)
(* The order of each lane, the end of the channel and the preference for   *)
(* the priority lane, for any capacities, any number of clones of the      *)
(* Sender and the Receiver, any strategy and any number of messages.       *)
(***************************************************************************)
EXTENDS PriorityChannel, SequenceTheorems, TLAPS

Messages == 1..MaxSent

(* A receiver that has found the priority lane empty and is about to look at the
   bulk lane: what has arrived in the priority lane was sent after it began. *)
Fresh ==
  \A r \in Receivers :
    /\ since[r] <= Count
    /\ poll[r] = "bulk" =>
         \A i \in 1..Len(lane["priority"]) : lane["priority"][i] > since[r]

(* The end is reported of a closed channel only. *)
EndedClosed == ended # {} => Closed

(* What is sent is bounded by the model's bound. *)
Bounded == Count <= MaxSent

IInv == TypeOK /\ Bounded /\ LaneOrder /\ Fresh /\ EndedClosed /\ EndAfterALane

(* Sending extends what a lane still has to deliver. *)
LEMMA AppendToRest ==
  ASSUME NEW a \in Seq(Messages), NEW b \in Seq(Messages), NEW x \in Messages
  PROVE  Append(a \o b, x) = a \o Append(b, x)
<1>1. <<x>> \in Seq(Messages)
  OBVIOUS
<1>2. Append(a \o b, x) = (a \o b) \o <<x>>
  BY AppendIsConcat, ConcatProperties
<1>3. Append(b, x) = b \o <<x>>
  BY AppendIsConcat
<1> QED BY <1>1, <1>2, <1>3, ConcatAssociative

(* Receiving moves the first message from the lane to what was received. *)
LEMMA MoveHead ==
  ASSUME NEW S, NEW a \in Seq(S), NEW b \in Seq(S), b # <<>>
  PROVE  a \o b = Append(a, Head(b)) \o Tail(b)
<1>1. /\ Head(b) \in S
      /\ Tail(b) \in Seq(S)
      /\ Len(Tail(b)) = Len(b) - 1
      /\ \A i \in 1..Len(Tail(b)) : Tail(b)[i] = b[i + 1]
  BY HeadTailProperties
<1>2. b = <<Head(b)>> \o Tail(b)
  <2>1. <<Head(b)>> \in Seq(S)
    BY <1>1
  <2>2. Len(<<Head(b)>> \o Tail(b)) = Len(b)
    BY <1>1, <2>1, ConcatProperties, EmptySeq
  <2>3. \A i \in 1..Len(b) : b[i] = (<<Head(b)>> \o Tail(b))[i]
    BY <1>1, <2>1, <2>2, ConcatProperties
  <2> QED BY <1>1, <2>1, <2>2, <2>3, ConcatProperties, SeqEqual
<1>3. Append(a, Head(b)) = a \o <<Head(b)>>
  BY <1>1, AppendIsConcat
<1>4. <<Head(b)>> \in Seq(S)
  BY <1>1
<1> QED BY <1>1, <1>2, <1>3, <1>4, ConcatAssociative
-----------------------------------------------------------------------------
LEMMA LaneTypes ==
  ASSUME TypeOK, NEW l \in Lanes
  PROVE  /\ lane[l] \in Seq(Messages) /\ Len(lane[l]) \in Nat
         /\ sent[l] \in Seq(Messages) /\ Len(sent[l]) \in Nat
         /\ received[l] \in Seq(Messages)
<1>1. lane[l] \in Seq(Messages) /\ sent[l] \in Seq(Messages) /\ received[l] \in Seq(Messages)
  BY DEF TypeOK, Messages
<1> QED BY <1>1, LenProperties

LEMMA CountIsNatural ==
  ASSUME TypeOK
  PROVE  Count \in Nat
<1>1. "bulk" \in Lanes /\ "priority" \in Lanes
  BY DEF Lanes
<1>2. Len(sent["bulk"]) \in Nat /\ Len(sent["priority"]) \in Nat
  BY <1>1, LaneTypes
<1>3. \A a, b \in Nat : a + b \in Nat
  OBVIOUS
<1> QED BY <1>2, <1>3, Zenon DEF Count

LEMMA SendPreserves ==
  ASSUME IInv, NEW s \in Senders, NEW l \in Lanes, send(s, l)
  PROVE  IInv'
<1> USE ChannelAssumption
<1>0. /\ lane[l] \in Seq(Messages) /\ Len(lane[l]) \in Nat
      /\ sent[l] \in Seq(Messages) /\ Len(sent[l]) \in Nat
      /\ received[l] \in Seq(Messages)
  BY LaneTypes DEF IInv
<1>1. Count \in Nat /\ Count + 1 \in Messages
  BY CountIsNatural DEF IInv, send, Messages
<1>2. /\ Append(lane[l], Count + 1) \in Seq(Messages)
      /\ Len(Append(lane[l], Count + 1)) = Len(lane[l]) + 1
      /\ Append(lane[l], Count + 1)[Len(lane[l]) + 1] = Count + 1
      /\ \A i \in 1..Len(lane[l]) : Append(lane[l], Count + 1)[i] = lane[l][i]
      /\ Append(sent[l], Count + 1) \in Seq(Messages)
      /\ Len(Append(sent[l], Count + 1)) = Len(sent[l]) + 1
  BY <1>0, <1>1, AppendProperties
<1>3. TypeOK'
  BY <1>2 DEF IInv, TypeOK, send, Messages
<1>4. LaneOrder'
  <2>0. sent[l] = received[l] \o lane[l]
    BY DEF IInv, LaneOrder
  <2>1. Append(sent[l], Count + 1) = received[l] \o Append(lane[l], Count + 1)
    <3>1. PICK m \in Messages : m = Count + 1
      BY <1>1
    <3>2. Append(received[l] \o lane[l], m) = received[l] \o Append(lane[l], m)
      BY <1>0, AppendToRest, Zenon
    <3> QED BY <2>0, <3>1, <3>2, Zenon
  <2>2. Len(lane[l]) \in Nat /\ Len(lane[l]) + 1 <= Capacities[l]
    BY <1>0 DEF send
  <2> QED BY <1>2, <2>1, <2>2 DEF IInv, TypeOK, LaneOrder, send
<1>5. Count' = Count + 1
  <2>1. "bulk" \in Lanes /\ "priority" \in Lanes
    BY DEF Lanes
  <2>2. Len(sent["bulk"]) \in Nat /\ Len(sent["priority"]) \in Nat
    BY <2>1, LaneTypes DEF IInv
  <2>3. \A k \in Lanes : Len(sent'[k]) = IF k = l THEN Len(sent[k]) + 1 ELSE Len(sent[k])
    BY <1>2 DEF IInv, TypeOK, send
  <2>4. /\ l = "bulk" => Len(sent'["bulk"]) = Len(sent["bulk"]) + 1
                         /\ Len(sent'["priority"]) = Len(sent["priority"])
        /\ l = "priority" => /\ Len(sent'["bulk"]) = Len(sent["bulk"])
                             /\ Len(sent'["priority"]) = Len(sent["priority"]) + 1
    BY <2>1, <2>3
  <2>5. l = "bulk" \/ l = "priority"
    BY DEF Lanes
  <2> DEFINE a == Len(sent["bulk"])
             b == Len(sent["priority"])
             c == Len(sent'["bulk"])
             d == Len(sent'["priority"])
  <2>6. a \in Nat /\ b \in Nat
    BY <2>2
  <2>7. (l = "bulk" => c = a + 1 /\ d = b) /\ (l = "priority" => c = a /\ d = b + 1)
    BY <2>4
  <2>8. Count = a + b /\ Count' = c + d
    BY DEF Count
  <2> HIDE DEF a, b, c, d
  <2> QED BY <2>5, <2>6, <2>7, <2>8
<1>6. Fresh'
  <2> SUFFICES ASSUME NEW r \in Receivers
               PROVE  /\ since[r] <= Count + 1
                      /\ poll[r] = "bulk" =>
                           \A i \in 1..Len(lane'["priority"]) : lane'["priority"][i] > since[r]
    BY <1>5 DEF Fresh, send
  <2>1. since[r] \in Nat /\ since[r] <= Count
    BY DEF IInv, Fresh, TypeOK
  <2>2. ASSUME poll[r] = "bulk", NEW i \in 1..Len(lane'["priority"])
        PROVE  lane'["priority"][i] > since[r]
    <3>1. \A j \in 1..Len(lane["priority"]) : lane["priority"][j] > since[r]
      BY <2>2 DEF IInv, Fresh
    <3>2. CASE l = "priority"
      <4>1. lane'["priority"] = Append(lane[l], Count + 1)
        BY <3>2 DEF IInv, TypeOK, send
      <4>2. Len(lane[l]) \in Nat
        BY <1>0
      <4>3. CASE i \in 1..Len(lane[l])
        BY <1>2, <3>1, <3>2, <4>1, <4>3
      <4>4. CASE i = Len(lane[l]) + 1
        BY <1>1, <1>2, <2>1, <4>1, <4>4
      <4> QED BY <1>2, <2>2, <4>1, <4>2, <4>3, <4>4
    <3>3. CASE l # "priority"
      BY <2>2, <3>1, <3>3 DEF IInv, TypeOK, send, Lanes
    <3> QED BY <3>2, <3>3
  <2> QED BY <1>1, <2>1, <2>2
<1>9. Bounded'
  BY <1>1, <1>5 DEF Bounded, Messages
<1>7. ended = {}
  BY DEF IInv, EndedClosed, Closed, send
<1>8. EndedClosed' /\ EndAfterALane'
  BY <1>7 DEF EndedClosed, EndAfterALane, send
<1> QED BY <1>3, <1>4, <1>6, <1>8, <1>9 DEF IInv

(* What all receive operations have in common. *)
Receiving(r) ==
  /\ UNCHANGED <<alive, sent>>
  /\ since' = since \/ since' = [since EXCEPT ![r] = Count]

LEMMA SinceTypes ==
  ASSUME IInv, NEW r \in Receivers, Receiving(r), Count \in Nat, Count <= MaxSent
  PROVE  since' \in [Receivers -> 0..MaxSent]
<1>1. Count \in 0..MaxSent
  BY ChannelAssumption
<1> QED BY <1>1 DEF IInv, TypeOK, Receiving

(* A receive operation that leaves the lanes alone keeps Fresh, if the receiver goes
   on to the bulk lane only when the priority lane is empty. *)
LEMMA ReceivingKeepsFresh ==
  ASSUME IInv, NEW r \in Receivers, Receiving(r), lane' = lane, Count' = Count, Count \in Nat,
         NEW next, poll' = [poll EXCEPT ![r] = next],
         next = "bulk" => Len(lane["priority"]) = 0
  PROVE  Fresh'
<1> SUFFICES ASSUME NEW q \in Receivers
             PROVE  /\ since'[q] <= Count
                    /\ poll'[q] = "bulk" =>
                         \A i \in 1..Len(lane["priority"]) : lane["priority"][i] > since'[q]
  BY DEF Fresh
<1>1. since[q] <= Count
  BY DEF IInv, Fresh
<1>2. since'[q] = since[q] \/ (q = r /\ since'[q] = Count)
  BY DEF IInv, TypeOK, Receiving
<1>3. CASE q = r
  BY <1>1, <1>2, <1>3 DEF IInv, TypeOK
<1>4. CASE q # r
  BY <1>1, <1>2, <1>4 DEF IInv, TypeOK, Fresh
<1> QED BY <1>3, <1>4

LEMMA TakePreserves ==
  ASSUME IInv, NEW r \in Receivers, NEW l \in Lanes, Take(r, l), Receiving(r)
  PROVE  IInv'
<1>0. /\ lane[l] \in Seq(Messages) /\ Len(lane[l]) \in Nat
      /\ received[l] \in Seq(Messages)
  BY LaneTypes DEF IInv
<1>1. /\ Head(lane[l]) \in Messages
      /\ Tail(lane[l]) \in Seq(Messages)
      /\ Len(Tail(lane[l])) = Len(lane[l]) - 1
      /\ \A i \in 1..Len(Tail(lane[l])) : Tail(lane[l])[i] = lane[l][i + 1]
  BY <1>0, HeadTailProperties DEF Take
<1>2. Append(received[l], Head(lane[l])) \in Seq(Messages)
  BY <1>0, <1>1, AppendProperties
<1>3. Count \in Nat /\ Count <= MaxSent
  BY CountIsNatural DEF IInv, Bounded
<1>4. TypeOK'
  BY <1>1, <1>2, <1>3 DEF IInv, TypeOK, Take, Receiving, Messages
<1>5. LaneOrder'
  <2>1. received[l] \o lane[l] = Append(received[l], Head(lane[l])) \o Tail(lane[l])
    BY <1>0, MoveHead DEF Take
  <2>2. Len(lane[l]) \in Nat /\ Capacities[l] \in Nat
    BY <1>0, ChannelAssumption
  <2>3. \A k \in Lanes : k # l => /\ sent'[k] = sent[k]
                                  /\ received'[k] = received[k]
                                  /\ lane'[k] = lane[k]
    BY DEF IInv, TypeOK, Take, Receiving
  <2>4. /\ sent'[l] = sent[l]
        /\ received'[l] = Append(received[l], Head(lane[l]))
        /\ lane'[l] = Tail(lane[l])
    BY DEF IInv, TypeOK, Take, Receiving
  <2>5. sent[l] = received[l] \o lane[l] /\ Len(lane[l]) <= Capacities[l]
    BY DEF IInv, LaneOrder
  <2>6. sent'[l] = received'[l] \o lane'[l]
    BY <2>1, <2>4, <2>5
  <2>7. Len(lane'[l]) <= Capacities[l]
    BY <1>1, <2>2, <2>4, <2>5
  <2> QED BY <2>3, <2>6, <2>7 DEF IInv, LaneOrder
<1>6. Count' = Count
  BY DEF Count, Receiving
<1>7. Fresh'
  <2> SUFFICES ASSUME NEW q \in Receivers
               PROVE  /\ since'[q] <= Count
                      /\ poll'[q] = "bulk" =>
                           \A i \in 1..Len(lane'["priority"]) : lane'["priority"][i] > since'[q]
    BY <1>6 DEF Fresh
  <2>1. since'[q] <= Count
    <3>1. since[q] <= Count
      BY DEF IInv, Fresh
    <3>2. since'[q] = since[q] \/ since'[q] = Count
      BY DEF IInv, TypeOK, Receiving
    <3> QED BY <1>3, <3>1, <3>2
  <2>2. ASSUME poll'[q] = "bulk", NEW i \in 1..Len(lane'["priority"])
        PROVE  lane'["priority"][i] > since'[q]
    <3>1. q # r /\ poll[q] = "bulk" /\ since'[q] = since[q]
      BY <2>2 DEF IInv, TypeOK, Take, Receiving
    <3>2. \A j \in 1..Len(lane["priority"]) : lane["priority"][j] > since[q]
      BY <3>1 DEF IInv, Fresh
    <3>3. Len(lane["priority"]) \in Nat
      BY LaneTypes DEF IInv, Lanes
    <3>4. CASE l = "priority"
      BY <1>1, <2>2, <3>1, <3>2, <3>3, <3>4 DEF IInv, TypeOK, Take
    <3>5. CASE l # "priority"
      BY <2>2, <3>1, <3>2, <3>5 DEF IInv, TypeOK, Take, Lanes
    <3> QED BY <3>4, <3>5
  <2> QED BY <2>1, <2>2
<1>8. EndedClosed' /\ EndAfterALane'
  BY DEF IInv, TypeOK, EndedClosed, EndAfterALane, Closed, Take, Receiving
<1>9. Bounded'
  BY <1>6 DEF IInv, Bounded
<1> QED BY <1>4, <1>5, <1>7, <1>8, <1>9 DEF IInv

(* Reporting the end. *)
LEMMA EndPreserves ==
  ASSUME IInv, NEW r \in Receivers, NEW l \in Lanes, End(r, l), Receiving(r)
  PROVE  IInv'
<1>1. Count \in Nat /\ Count <= MaxSent /\ Count' = Count
  BY CountIsNatural DEF IInv, Bounded, Count, Receiving
<1>2. TypeOK'
  <2>1. since' \in [Receivers -> 0..MaxSent]
    BY <1>1, SinceTypes
  <2>2. /\ lane' = lane /\ sent' = sent /\ received' = received /\ alive' = alive
        /\ poll' \in [Receivers -> Lanes \cup {"none"}]
        /\ ended' \subseteq Receivers
    BY DEF IInv, TypeOK, End, Receiving
  <2> QED BY <2>1, <2>2 DEF IInv, TypeOK
<1>3. Bounded' /\ LaneOrder'
  BY <1>1 DEF IInv, Bounded, LaneOrder, End, Receiving
<1>4. Fresh'
  BY <1>1, ReceivingKeepsFresh DEF End
<1>5. EndedClosed' /\ EndAfterALane'
  BY DEF EndedClosed, EndAfterALane, Closed, End, Receiving
<1> QED BY <1>2, <1>3, <1>4, <1>5 DEF IInv

(* Passing on to another lane, or back to none, with the lane found empty. *)
LEMMA PassPreserves ==
  ASSUME IInv, NEW r \in Receivers, NEW l \in Lanes, lane[l] = <<>>,
         NEW next \in {"none", Other(l)}, poll' = [poll EXCEPT ![r] = next],
         UNCHANGED <<lane, received, ended>>, Receiving(r)
  PROVE  IInv'
<1>1. Count \in Nat /\ Count <= MaxSent /\ Count' = Count
  BY CountIsNatural DEF IInv, Bounded, Count, Receiving
<1>2. TypeOK'
  <2>1. next \in Lanes \cup {"none"}
    BY DEF Other, Lanes
  <2>2. since' \in [Receivers -> 0..MaxSent]
    BY <1>1, SinceTypes
  <2>3. poll' \in [Receivers -> Lanes \cup {"none"}]
    BY <2>1 DEF IInv, TypeOK
  <2> QED BY <2>2, <2>3 DEF IInv, TypeOK, Receiving
<1>3. Bounded' /\ LaneOrder'
  BY <1>1 DEF IInv, Bounded, LaneOrder, Receiving
<1>4. Fresh'
  <2>1. next = "bulk" => Len(lane["priority"]) = 0
    <3>1. next = "bulk" => l = "priority"
      BY DEF Other, Lanes
    <3> QED BY <3>1
  <2> QED BY <1>1, <2>1, ReceivingKeepsFresh
<1>5. EndedClosed' /\ EndAfterALane'
  BY DEF IInv, EndedClosed, EndAfterALane, Closed, Receiving
<1> QED BY <1>2, <1>3, <1>4, <1>5 DEF IInv

LEMMA TryFirstPreserves ==
  ASSUME IInv, NEW r \in Receivers, NEW l \in Lanes, TryFirst(r, l)
  PROVE  IInv'
<1>1. Receiving(r)
  BY DEF TryFirst, Receiving
<1>2. CASE Take(r, l)
  BY <1>1, <1>2, TakePreserves
<1>3. CASE End(r, l)
  BY <1>1, <1>3, EndPreserves
<1>4. CASE /\ lane[l] = <<>>
           /\ poll' = [poll EXCEPT ![r] = Other(l)]
           /\ UNCHANGED <<lane, received, ended>>
  BY <1>1, <1>4, PassPreserves
<1> QED BY <1>2, <1>3, <1>4 DEF TryFirst

LEMMA TrySecondPreserves ==
  ASSUME IInv, NEW r \in Receivers, TrySecond(r)
  PROVE  IInv'
<1>1. Receiving(r)
  BY DEF TrySecond, Receiving
<1>2. poll[r] \in Lanes
  BY DEF IInv, TypeOK, TrySecond
<1>3. CASE Take(r, poll[r])
  BY <1>1, <1>2, <1>3, TakePreserves
<1>4. CASE End(r, poll[r])
  BY <1>1, <1>2, <1>4, EndPreserves
<1>5. CASE /\ lane[poll[r]] = <<>>
           /\ poll' = [poll EXCEPT ![r] = "none"]
           /\ UNCHANGED <<lane, received, ended>>
  BY <1>1, <1>2, <1>5, PassPreserves
<1> QED BY <1>3, <1>4, <1>5 DEF TrySecond

LEMMA DropPreserves ==
  ASSUME IInv, NEW x \in Senders \cup Receivers, drop(x)
  PROVE  IInv'
<1>1. Count' = Count
  BY DEF Count, drop
<1>2. TypeOK' /\ Bounded' /\ LaneOrder'
  BY <1>1 DEF IInv, TypeOK, Bounded, LaneOrder, drop
<1>3. Fresh'
  BY <1>1 DEF IInv, Fresh, drop
<1>4. EndedClosed' /\ EndAfterALane'
  BY DEF IInv, EndedClosed, EndAfterALane, Closed, drop
<1> QED BY <1>2, <1>3, <1>4 DEF IInv

LEMMA InitialState == channel_with_capacities => IInv
<1> SUFFICES ASSUME channel_with_capacities
             PROVE  IInv
  OBVIOUS
<1>1. TypeOK
  BY ChannelAssumption DEF channel_with_capacities, TypeOK
<1>2. Count = 0
  BY DEF channel_with_capacities, Count, Lanes
<1>3. Bounded /\ Fresh
  BY <1>2, ChannelAssumption DEF channel_with_capacities, Bounded, Fresh
<1>4. LaneOrder
  BY ChannelAssumption DEF channel_with_capacities, LaneOrder
<1>5. EndedClosed /\ EndAfterALane
  BY DEF channel_with_capacities, EndedClosed, EndAfterALane
<1> QED BY <1>1, <1>3, <1>4, <1>5 DEF IInv

LEMMA StepPreserves == IInv /\ [Next]_vars => IInv'
<1> SUFFICES ASSUME IInv, [Next]_vars
             PROVE  IInv'
  OBVIOUS
<1>1. ASSUME NEW s \in Senders, NEW l \in Lanes, send(s, l)
      PROVE  IInv'
  BY <1>1, SendPreserves
<1>2. ASSUME NEW r \in Receivers, poll_next(r)
      PROVE  IInv'
  BY <1>2, TryFirstPreserves, TrySecondPreserves DEF poll_next, Lanes
<1>3. ASSUME NEW r \in Receivers, try_next_with_strategy(r)
      PROVE  IInv'
  BY <1>3, ChannelAssumption, TryFirstPreserves, TrySecondPreserves DEF try_next_with_strategy
<1>4. ASSUME NEW r \in Receivers, recv(r)
      PROVE  IInv'
  <2>1. Receiving(r) /\ "bulk" \in Lanes
    BY <1>4 DEF recv, Receiving, Lanes
  <2> QED BY <1>4, <2>1, TakePreserves, EndPreserves DEF recv
<1>5. ASSUME NEW x \in Senders \cup Receivers, drop(x)
      PROVE  IInv'
  BY <1>5, DropPreserves
<1>6. CASE UNCHANGED vars
  BY <1>6 DEF vars, IInv, TypeOK, Bounded, LaneOrder, Fresh, Count, EndedClosed,
              EndAfterALane, Closed
<1> QED BY <1>1, <1>2, <1>3, <1>4, <1>5, <1>6 DEF Next

LEMMA Invariance == Spec => []IInv
<1> QED BY InitialState, StepPreserves, PTL DEF Spec
-----------------------------------------------------------------------------
(* send, poll_next, try_next_with_strategy, recv and drop, by any number of clones
   and in any interleaving, neither lose nor duplicate nor reorder a message
   within its lane, and no lane exceeds its capacity. *)
THEOREM LanesKeepOrder == Spec => []LaneOrder
<1>1. IInv => LaneOrder
  BY DEF IInv
<1> QED BY <1>1, Invariance, PTL

(* poll_next() may report the end of the channel while one lane holds messages, but
   never while both do. *)
THEOREM EndIsAfterALane == Spec => []EndAfterALane
<1>1. IInv => EndAfterALane
  BY DEF IInv
<1> QED BY <1>1, Invariance, PTL

(* poll_next() takes no bulk message past a priority message that was there when it
   looked at the priority lane, although other tasks run before its second look. *)
THEOREM PriorityIsNotOvertaken == Spec => NoOvertaking
<1>1. IInv /\ [Next]_vars =>
        [\A r \in Streams :
           /\ poll[r] = "bulk" /\ poll'[r] = "none"
           /\ received'["bulk"] # received["bulk"]
           => \A i \in 1..Len(lane["priority"]) : lane["priority"][i] > since[r]]_vars
  BY DEF IInv, Fresh, Receivers
<1> QED BY <1>1, Invariance, PTL DEF Spec, NoOvertaking
=============================================================================
