----------------------- MODULE TracerLifecycleProofs -----------------------
(***************************************************************************)
(* Theorems on TracerLifecycle, for any command lines, any faults and any  *)
(* capacities: the types, the order in which a watcher is told of blocks,  *)
(* and that the watcher of --all panics in a shutdown only.                *)
(***************************************************************************)
EXTENDS TracerLifecycle, TLAPS

(* The watchers that are not part of the command line: --para-id has no broadcast
   watcher and no tracker of its own, --all no watcher of one parachain. *)
NotInUse(w) == w \notin Joined /\ (w = "tracker" => options.mode = "para")

(* Holds whether there is a shutdown or not: who is not in use does nothing, and a
   block that is being forwarded has been taken. *)
InUse ==
  /\ \A w \in Watchers : NotInUse(w) => pc[w] = "unspawned" /\ bulk[w] = <<>> /\ handled[w] = <<>>
  /\ pc["broadcast"] = "forwarding" => handled["broadcast"] # <<>>

(* Before a shutdown: *)
Quiet == "shutdown" \notin ghost

(* nobody was signalled, nobody panicked, a watcher ends after the task that feeds it, *)
NobodyLeft ==
  /\ signal = {}
  /\ \A t \in Tasks : pc[t] # "panicked"
  /\ \A w \in {"relay", "para", "broadcast"} : pc[w] = "done" => pc["collector"] = "done"
  /\ pc["broadcast"] = "joining" => pc["collector"] = "done"
  /\ pc["tracker"] = "done" => pc["broadcast"] \in {"joining", "done"}
  /\ \A w \in Watchers : prio[w] # "none" => pc["collector"] = "done"

(* a watcher has been told of the blocks from 0 on, processed or still in its lane, *)
Count(w) == Len(handled[w]) + Len(bulk[w])

Ordered(w) ==
  /\ \A i \in 1..Len(handled[w]) : handled[w][i] = i - 1
  /\ \A i \in 1..Len(bulk[w]) : bulk[w][i] = Len(handled[w]) + i - 1

(* by the collector of those below `current`, and of `current` in the update that is
   going on, *)
AllTold ==
  \A w \in Range(Fed) :
    Count(w) = IF pc["collector"] = "updating" /\ w \notin Range(todo) THEN current + 1 ELSE current

(* which serves one watcher after the other, *)
UpdateOK ==
  pc["collector"] = "updating" =>
    /\ incoming = current + 1
    /\ todo \in {Fed, <<Fed[2]>>, <<>>}

(* the queue has the blocks that follow, up to the last one produced, *)
Reached == IF pc["collector"] = "updating" THEN current + 1 ELSE current

QueueOK ==
  /\ \A i \in 1..Len(queue) :
       \/ queue[i] = Reached + i
       \/ queue[i] = Termination /\ i = Len(queue) /\ pc["sub"] = "done"
  /\ pc["sub"] # "done" => produced = Reached + Len(queue) + IF pc["sub"] = "sending" THEN 1 ELSE 0

(* and the tracker has been told of what the broadcast watcher took. *)
TrackerTold ==
  pc["broadcast"] \notin {"joining", "done"} =>
    Count("tracker") = Len(handled["broadcast"]) - IF pc["broadcast"] = "forwarding" THEN 1 ELSE 0

QuietInv ==
  /\ NobodyLeft
  /\ \A w \in Watchers : Ordered(w)
  /\ pc["collector"] # "done" => AllTold /\ UpdateOK /\ QueueOK
  /\ TrackerTold

IInv == TypeOK /\ InUse /\ (Quiet => QuietInv)
-----------------------------------------------------------------------------
(* What every step leaves: the command line, and what it says. *)
LEMMA OptionsType ==
  ASSUME TypeOK
  PROVE  /\ LastBlock \in Nat \ {0} /\ QueueSize \in Nat \ {0} /\ Capacity \in Nat \ {0}
         /\ Fed = <<"relay", Fed[2]>> /\ Fed[2] \in {"para", "broadcast"}
         /\ Range(Fed) = {"relay", Fed[2]}
         /\ Range(Fed) \subseteq Watchers /\ Watchers \subseteq Tasks
<1>1. options \in Options
  BY ConstantsAssumption DEF TypeOK
<1>2. Fed = <<"relay", Fed[2]>> /\ Fed[2] \in {"para", "broadcast"} /\ DOMAIN Fed = {1, 2}
  BY DEF Fed
<1>3. Range(Fed) = {Fed[1], Fed[2]}
  BY <1>2 DEF Range
<1>4. Fed[1] = "relay"
  BY <1>2
<1> QED BY <1>1, <1>2, <1>3, <1>4, ConstantsAssumption DEF Options, LastBlock, Watchers, Tasks

LEMMA LastElement ==
  ASSUME NEW S, NEW s \in Seq(S), s # <<>>
  PROVE  Last(s) \in S /\ Last(s) = s[Len(s)] /\ Len(s) \in Nat \ {0}
<1>1. Len(s) \in 1..Len(s) /\ Len(s) \in Nat \ {0}
  OBVIOUS
<1> QED BY <1>1 DEF Last

LEMMA InitType == Init => TypeOK
<1> SUFFICES ASSUME Init PROVE TypeOK
  OBVIOUS
<1>1. options.last \in Nat \ {0}
  BY ConstantsAssumption DEF Init, Options
<1> QED BY <1>1, ConstantsAssumption DEF Init, TypeOK, LastBlock, Watchers, Tasks

Locations == {"unspawned", "spawned", "connecting", "running", "sending", "checking", "terminating",
              "giving_up", "updating", "polled", "forwarding", "joining", "done", "panicked"}

(* The pieces of TypeOK that different tasks disturb. *)
PcType == pc \in [Tasks -> Locations]
SignalType == signal \subseteq Tasks /\ ghost \subseteq {"shutdown", "unheard", "abnormal", "bounds"}
                /\ executor \in {"up", "failing", "down"}
QueueType == queue \in Seq(0..LastBlock) /\ Len(queue) <= QueueSize /\ produced \in 0..LastBlock
CollectorType == current \in 0..LastBlock /\ incoming \in 0..LastBlock /\ todo \in Seq(Range(Fed))
WatcherType == /\ bulk \in [Watchers -> Seq(0..LastBlock)]
               /\ \A w \in Watchers : Len(bulk[w]) <= Capacity
               /\ handled \in [Watchers -> Seq(0..LastBlock)]
               /\ prio \in [Watchers -> {"none", "Normal", "Abnormal"}]

LEMMA TypeParts ==
  TypeOK <=> /\ options \in CommandLines
             /\ PcType /\ SignalType /\ QueueType /\ CollectorType /\ WatcherType
BY DEF TypeOK, PcType, Locations, SignalType, QueueType, CollectorType, WatcherType

LEMMA SubType ==
  ASSUME TypeOK, Sub \/ SubStalls \/ SubStreamEnds, UNCHANGED options
  PROVE  TypeOK'
<1>1. QueueType /\ PcType /\ SignalType /\ WatcherType /\ CollectorType /\ QueueSize \in Nat \ {0} /\ LastBlock \in Nat
  BY TypeParts, OptionsType
<1>2. PcType'
  BY <1>1 DEF PcType, Locations, Tasks, Goto, Sub, SubStalls, SubStreamEnds, Start, SubConnect, SubConnectFails,
     SubReceive, SubSend, SubCheckShutdown, SubOnShutdown, SubFetchFails, SubSendTermination
<1>3. SignalType'
  BY <1>1 DEF SignalType, Sub, SubStalls, SubStreamEnds, Start, SubConnect, SubConnectFails, RequestFails, Note,
     SubReceive, SubSend, SubCheckShutdown, SubOnShutdown, SubFetchFails, SubSendTermination, Broadcast
<1>4. QueueType'
  <2>1. CASE SubReceive
    BY <2>1, <1>1 DEF QueueType, LastBlock, SubReceive
  <2>2. CASE SubSend
    BY <2>2, <1>1 DEF QueueType, LastBlock, SubSend
  <2>3. CASE SubSendTermination
    BY <2>3, <1>1 DEF QueueType, LastBlock, Termination, SubSendTermination
  <2>4. CASE UNCHANGED <<queue, produced>>
    BY <2>4, <1>1 DEF QueueType, LastBlock
  <2> QED BY <2>1, <2>2, <2>3, <2>4 DEF Sub, SubStalls, SubStreamEnds, Start, SubConnect, SubConnectFails,
             SubCheckShutdown, SubOnShutdown, SubFetchFails
<1>5. UNCHANGED <<collectorVars, watcherVars>>
  BY DEF subUnchanged, Sub, SubStalls, SubStreamEnds, Start, SubConnect, SubConnectFails,
     SubReceive, SubSend, SubCheckShutdown, SubOnShutdown, SubFetchFails, SubSendTermination
<1>6. CollectorType' /\ WatcherType'
  BY <1>1, <1>5 DEF CollectorType, WatcherType, collectorVars, watcherVars, LastBlock, Fed
<1> QED BY <1>2, <1>3, <1>4, <1>6
        DEF TypeOK, PcType, Locations, SignalType, QueueType, CollectorType, WatcherType

LEMMA CollectorTypeStep ==
  ASSUME TypeOK, Collector \/ CollectorFails, UNCHANGED options
  PROVE  TypeOK'
<1> DEFINE C == {"running", "updating", "done"}
<1>1. QueueType /\ PcType /\ SignalType /\ WatcherType /\ CollectorType /\ QueueSize \in Nat \ {0} /\ LastBlock \in Nat
      /\ Fed \in Seq(Range(Fed)) /\ Range(Fed) \subseteq Watchers /\ Capacity \in Nat
  <2>1. Fed = <<"relay", Fed[2]>> /\ Range(Fed) = {"relay", Fed[2]}
    BY OptionsType
  <2>2. \A x : <<"relay", x>> \in Seq({"relay", x})
    OBVIOUS
  <2> QED BY <2>1, <2>2, TypeParts, OptionsType
<1>2. PcType'
  BY <1>1 DEF PcType, Locations, Tasks, Goto, Collector, Start, CollectorTerminated, CollectorOnShutdown,
     CollectorNewHead, CollectorFails, CollectorSends, CollectorUpdated, terminate
<1>3. SignalType'
  BY <1>1 DEF SignalType, Collector, Start, CollectorTerminated, CollectorOnShutdown, RequestFails, Note, Broadcast,
     CollectorNewHead, CollectorFails, CollectorSends, CollectorUpdated, terminate
<1>4. QueueType'
  <2>1. CASE CollectorNewHead
    BY <2>1, <1>1 DEF QueueType, LastBlock, CollectorNewHead, collectorTakes
  <2>2. CASE queue' = <<>> /\ UNCHANGED produced
    BY <2>2, <1>1 DEF QueueType, LastBlock
  <2>3. CASE UNCHANGED <<queue, produced>>
    BY <2>3, <1>1 DEF QueueType, LastBlock
  <2> QED BY <2>1, <2>2, <2>3 DEF Collector, Start, CollectorTerminated, CollectorOnShutdown,
             CollectorFails, CollectorSends, CollectorUpdated, terminate
<1>5. CollectorType' /\ WatcherType'
  <2>1. CASE CollectorNewHead
    BY <2>1, <1>1 DEF CollectorType, WatcherType, CollectorNewHead, watcherVars, LastBlock, Fed
  <2>2. CASE CollectorSends
    <3>1. todo # <<>> /\ Head(todo) \in Watchers /\ Tail(todo) \in Seq(Range(Fed))
      BY <2>2, <1>1 DEF CollectorType, CollectorSends
    <3>2. CASE /\ bulk' = [bulk EXCEPT ![Head(todo)] = Append(@, current)]
               /\ Len(bulk[Head(todo)]) < Capacity
               /\ todo' = Tail(todo) /\ UNCHANGED <<current, incoming, prio, handled>>
      BY <3>1, <3>2, <1>1 DEF CollectorType, WatcherType, LastBlock, Fed
    <3>3. CASE /\ todo' = <<>> /\ incoming' = 0
               /\ UNCHANGED <<current, bulk, prio, handled>>
      BY <3>3, <1>1 DEF CollectorType, WatcherType, LastBlock, Fed
    <3> QED BY <2>2, <3>2, <3>3 DEF CollectorSends
  <2>3. CASE CollectorUpdated /\ executor = "up" /\ UNCHANGED <<todo, watcherVars>> /\ current' = incoming /\ incoming' = 0
    BY <2>3, <1>1 DEF CollectorType, WatcherType, watcherVars, LastBlock, Fed
  <2>4. CASE terminate("Normal") \/ terminate("Abnormal")
    <3>1. CollectorType'
      <4>1. LastBlock' = LastBlock /\ Fed' = Fed
        BY DEF LastBlock, Fed
      <4>2. current' = current /\ incoming' = 0 /\ todo' = <<>>
        BY <2>4 DEF terminate
      <4> QED BY <4>1, <4>2, <1>1 DEF CollectorType
    <3>2. prio' \in [Watchers -> {"none", "Normal", "Abnormal"}] /\ UNCHANGED <<bulk, handled>>
      BY <2>4, <1>1 DEF WatcherType, terminate
    <3> QED BY <3>1, <3>2, <1>1 DEF WatcherType, LastBlock
  <2>5. CASE UNCHANGED <<collectorVars, watcherVars>>
    BY <2>5, <1>1 DEF CollectorType, WatcherType, collectorVars, watcherVars, LastBlock, Fed
  <2> QED BY <2>1, <2>2, <2>3, <2>4, <2>5 DEF Collector, Start, CollectorTerminated, CollectorOnShutdown,
             CollectorFails, CollectorUpdated
<1> QED BY <1>2, <1>3, <1>4, <1>5
        DEF TypeOK, PcType, Locations, SignalType, QueueType, CollectorType, WatcherType

LEMMA WatcherTypeStep ==
  ASSUME TypeOK, InUse, NEW w \in Watchers, Watcher(w) \/ WatcherInjectFails(w), UNCHANGED options
  PROVE  TypeOK'
<1>1. /\ QueueType /\ PcType /\ SignalType /\ WatcherType /\ CollectorType /\ LastBlock \in Nat /\ Capacity \in Nat
      /\ w \in Tasks /\ Watchers \subseteq Tasks
  BY TypeParts, OptionsType
<1>2. PcType'
  BY <1>1 DEF PcType, Locations, Tasks, Watchers, Goto, Watcher, Start, WatcherRecv, WatcherRecvClosed, WatcherOnShutdown, ends,
     BroadcastTerminated, BroadcastPolls, BroadcastTakes, BroadcastClosed, BroadcastWoken, BroadcastForwards,
     BroadcastJoins, WatcherInjectFails
<1>3. SignalType' /\ UNCHANGED <<queue, produced, collectorVars>>
  BY <1>1 DEF SignalType, Watcher, Start, WatcherRecv, WatcherRecvClosed, WatcherOnShutdown, ends, watcherUnchanged,
     BroadcastTerminated, BroadcastPolls, BroadcastTakes, BroadcastClosed, BroadcastWoken, BroadcastForwards,
     BroadcastJoins, WatcherInjectFails, Broadcast
<1>4. WatcherType'
  <2>1. ASSUME NEW v \in Watchers, takes(v)
        PROVE  WatcherType'
    <3>1. Head(bulk[v]) \in 0..LastBlock /\ Tail(bulk[v]) \in Seq(0..LastBlock) /\ Len(Tail(bulk[v])) <= Capacity
      BY <2>1, <1>1 DEF WatcherType, takes
    <3> QED BY <3>1, <2>1, <1>1 DEF WatcherType, takes, LastBlock
  <2>2. ASSUME NEW v \in Watchers, ends(v)
        PROVE  WatcherType'
    BY <2>2, <1>1 DEF WatcherType, ends, LastBlock
  <2>3. CASE BroadcastTerminated
    BY <2>3, <1>1 DEF WatcherType, BroadcastTerminated, LastBlock, Watchers
  <2>4. CASE UNCHANGED watcherVars
    BY <2>4, <1>1 DEF WatcherType, watcherVars, LastBlock
  <2>5. CASE BroadcastForwards
    <3>1. CASE UNCHANGED bulk
      BY <3>1, <2>5, <1>1 DEF WatcherType, BroadcastForwards, LastBlock
    <3>2. CASE /\ Len(bulk["tracker"]) < Capacity
               /\ bulk' = [bulk EXCEPT !["tracker"] = Append(@, Last(handled["broadcast"]))]
               /\ UNCHANGED <<prio, handled>>
      <4>1. Last(handled["broadcast"]) \in 0..LastBlock
        <5>1. handled["broadcast"] \in Seq(0..LastBlock) /\ handled["broadcast"] # <<>>
          BY <2>5, <1>1 DEF BroadcastForwards, WatcherType, Watchers, InUse
        <5> QED BY <5>1, LastElement
      <4> QED BY <4>1, <3>2, <1>1 DEF WatcherType, LastBlock, Watchers
    <3> QED BY <2>5, <3>1, <3>2 DEF BroadcastForwards
  <2> QED BY <2>1, <2>2, <2>3, <2>4, <2>5 DEF Watchers, Watcher, Start, WatcherRecv, WatcherRecvClosed, WatcherOnShutdown,
             BroadcastPolls, BroadcastTakes, BroadcastClosed, BroadcastWoken, BroadcastJoins, WatcherInjectFails
<1> QED BY <1>1, <1>2, <1>3, <1>4
        DEF TypeOK, PcType, Locations, SignalType, QueueType, CollectorType, WatcherType, collectorVars, LastBlock, Fed

LEMMA OtherTypeStep ==
  ASSUME TypeOK, BackendAnnounces \/ Start("on_shutdown") \/ OnShutdown \/ CtrlC, UNCHANGED options
  PROVE  TypeOK'
<1>1. UNCHANGED <<queue, produced, collectorVars, watcherVars>>
  BY DEF BackendAnnounces, Start, OnShutdown, CtrlC
<1>2. PcType' /\ SignalType'
  BY TypeParts DEF PcType, SignalType, Locations, Tasks, Goto, Broadcast, BackendAnnounces, Start, OnShutdown, CtrlC
<1> QED BY <1>1, <1>2
        DEF TypeOK, PcType, Locations, SignalType, collectorVars, watcherVars, LastBlock, Fed
-----------------------------------------------------------------------------
(* Who is in use. *)
LEMMA InUseFacts ==
  ASSUME TypeOK
  PROVE  /\ \A w \in Range(Fed) : ~NotInUse(w)
         /\ NotInUse("tracker") <=> NotInUse("broadcast")
         /\ Joined = {"relay", Fed[2], "sub", "collector", "on_shutdown"}
BY OptionsType DEF NotInUse, Joined, Fed, Range

LEMMA InitInUse == Init => InUse
<1> SUFFICES ASSUME Init PROVE InUse
  OBVIOUS
<1> QED BY DEF Init, InUse, NotInUse, Watchers, Tasks, Joined

(* The other tasks: only the collector touches what is a watcher's, and that of a
   watcher it feeds. *)
LEMMA FeedersInUse ==
  ASSUME TypeOK, InUse, UNCHANGED options,
         \/ Sub \/ SubStalls \/ SubStreamEnds \/ Collector \/ CollectorFails
         \/ BackendAnnounces \/ Start("on_shutdown") \/ OnShutdown \/ CtrlC
  PROVE  InUse'
<1>1. \A w \in Watchers : pc'[w] = pc[w] /\ handled'[w] = handled[w]
  <2>1. \A w \in Watchers : w \notin {"sub", "collector", "on_shutdown"}
    BY DEF Watchers
  <2>2. PcType /\ Watchers \subseteq Tasks
    BY TypeParts, OptionsType
  <2>3. CASE Sub \/ SubStalls \/ SubStreamEnds
    BY <2>1, <2>2, <2>3 DEF PcType, Goto, Sub, SubStalls, SubStreamEnds, Start, SubConnect, SubConnectFails,
       SubReceive, SubSend, SubCheckShutdown, SubOnShutdown, SubFetchFails, SubSendTermination, subUnchanged, watcherVars
  <2>4. CASE Collector \/ CollectorFails
    BY <2>1, <2>2, <2>4 DEF PcType, Goto, Collector, Start, CollectorTerminated, CollectorOnShutdown,
       CollectorNewHead, CollectorFails, CollectorSends, CollectorUpdated, terminate, watcherVars
  <2>5. CASE BackendAnnounces \/ Start("on_shutdown") \/ OnShutdown \/ CtrlC
    BY <2>1, <2>2, <2>5 DEF PcType, Goto, BackendAnnounces, Start, OnShutdown, CtrlC, watcherVars
  <2> QED BY <2>3, <2>4, <2>5
<1>2. \A w \in Watchers : NotInUse(w) => bulk'[w] = bulk[w]
  <2>1. CASE CollectorSends
    <3>1. Head(todo) \in Range(Fed)
      BY <2>1 DEF CollectorSends, TypeOK
    <3> QED BY <2>1, <3>1, InUseFacts, TypeParts DEF CollectorSends, WatcherType
  <2>2. CASE UNCHANGED bulk
    BY <2>2
  <2> QED BY <2>1, <2>2 DEF Sub, SubStalls, SubStreamEnds, Start, SubConnect, SubConnectFails,
     SubReceive, SubSend, SubCheckShutdown, SubOnShutdown, SubFetchFails, SubSendTermination, subUnchanged,
     Collector, CollectorTerminated, CollectorOnShutdown, CollectorNewHead, CollectorFails,
     CollectorUpdated, terminate, BackendAnnounces, OnShutdown, CtrlC, watcherVars
<1>3. \A w : NotInUse(w)' <=> NotInUse(w)
  BY DEF NotInUse, Joined, Fed
<1>4. "broadcast" \in Watchers
  BY DEF Watchers
<1> QED BY <1>1, <1>2, <1>3, <1>4 DEF InUse

(* A watcher that takes a step is in use. *)
LEMMA WatchersInUse ==
  ASSUME TypeOK, InUse, UNCHANGED options, NEW v \in Watchers, Watcher(v) \/ WatcherInjectFails(v)
  PROVE  InUse'
<1>1. \A w : NotInUse(w)' <=> NotInUse(w)
  BY DEF NotInUse, Joined, Fed
<1>2. PcType /\ WatcherType /\ v \in Tasks /\ Watchers \subseteq Tasks /\ {"broadcast", "tracker"} \subseteq Watchers
  BY TypeParts, OptionsType DEF Watchers
<1>3. ~NotInUse(v) /\ (v = "broadcast" => ~NotInUse("tracker"))
  <2>1. pc[v] # "unspawned"
    BY DEF Watcher, Start, WatcherRecv, WatcherRecvClosed, WatcherOnShutdown, WatcherInjectFails, BroadcastTerminated,
       BroadcastPolls, BroadcastTakes, BroadcastClosed, BroadcastWoken, BroadcastForwards, BroadcastJoins
  <2> QED BY <2>1, InUseFacts DEF InUse
<1>4. ASSUME NEW w \in Watchers, NotInUse(w)
      PROVE  pc'[w] = pc[w] /\ bulk'[w] = bulk[w] /\ handled'[w] = handled[w]
  BY <1>2, <1>3, <1>4 DEF PcType, WatcherType, Goto, Watcher, Start, WatcherRecv, WatcherRecvClosed, WatcherOnShutdown, ends, takes,
       WatcherInjectFails, BroadcastTerminated, watcherVars,
       BroadcastPolls, BroadcastTakes, BroadcastClosed, BroadcastWoken, BroadcastForwards, BroadcastJoins
<1>5. ASSUME pc'["broadcast"] = "forwarding"
      PROVE  handled'["broadcast"] # <<>>
  <2>1. CASE pc["broadcast"] = "forwarding" /\ handled'["broadcast"] = handled["broadcast"]
    BY <2>1 DEF InUse
  <2>2. CASE BroadcastTakes
    <3>1. \A x : handled["broadcast"] \in Seq(0..LastBlock) => Append(handled["broadcast"], x) # <<>>
      OBVIOUS
    <3> QED BY <2>2, <1>2, <3>1 DEF BroadcastTakes, takes, WatcherType
  <2>3. CASE pc["broadcast"] = "forwarding" /\ v # "broadcast"
    <3>1. handled'["broadcast"] = handled["broadcast"]
      <4>1. CASE takes(v)
        BY <2>3, <4>1, <1>2 DEF WatcherType, takes
      <4>2. CASE UNCHANGED handled
        BY <4>2
      <4> QED BY <2>3, <4>1, <4>2 DEF Watcher, Start, WatcherRecv, WatcherRecvClosed, WatcherOnShutdown, ends,
          WatcherInjectFails, watcherVars
    <3> QED BY <2>3, <3>1 DEF InUse
  <2>4. ASSUME ~BroadcastTakes PROVE pc["broadcast"] = "forwarding"
    BY <2>4, <1>5, <1>2 DEF PcType, Goto, Watcher, Start, WatcherRecv, WatcherRecvClosed, WatcherOnShutdown, ends,
       WatcherInjectFails, BroadcastTerminated, 
       BroadcastPolls, BroadcastClosed, BroadcastWoken, BroadcastForwards, BroadcastJoins
  <2>5. CASE v = "broadcast" /\ ~BroadcastTakes
    BY <2>4, <2>5, <1>2, <1>5 DEF InUse, PcType, WatcherType, Goto, Watcher, Start, WatcherRecv, WatcherRecvClosed, WatcherOnShutdown,
       WatcherInjectFails, BroadcastTerminated,  BroadcastPolls, BroadcastClosed, BroadcastWoken, BroadcastForwards,
       BroadcastJoins, ends, watcherVars
  <2> QED BY <2>2, <2>3, <2>4, <2>5
<1> QED BY <1>1, <1>4, <1>5 DEF InUse
-----------------------------------------------------------------------------
(* Before a shutdown. *)
LEMMA InitQuiet == Init => QuietInv
<1> SUFFICES ASSUME Init PROVE QuietInv
  OBVIOUS
<1>1. TypeOK
  BY InitType
<1>2. \A w \in Watchers : bulk[w] = <<>> /\ handled[w] = <<>>
  BY DEF Init
<1>3. \A t \in Tasks : pc[t] \in {"spawned", "unspawned"}
  BY DEF Init
<1>4. NobodyLeft
  BY <1>3 DEF NobodyLeft, Init, Tasks, Watchers
<1>5. (\A w \in Watchers : Ordered(w)) /\ AllTold /\ TrackerTold
  BY <1>1, <1>2, <1>3, OptionsType DEF Ordered, AllTold, TrackerTold, Count, Init, Watchers, Tasks
<1>6. UpdateOK /\ QueueOK
  BY <1>3 DEF UpdateOK, QueueOK, Reached, Init, Tasks
<1> QED BY <1>4, <1>5, <1>6 DEF QuietInv

(* A step that leaves what the collector and the watchers have alone. *)
LEMMA SameWatchers ==
  ASSUME TypeOK, QuietInv, UNCHANGED <<options, collectorVars, watcherVars>>, signal' = {},
         NEW t \in Tasks \ (Watchers \cup {"collector"}), pc' = [pc EXCEPT ![t] = pc'[t]], pc'[t] # "panicked",
         pc["collector"] # "done" => QueueOK'
  PROVE  QuietInv'
<1>1. \A u \in Tasks : u # t => pc'[u] = pc[u]
  BY TypeParts DEF PcType
<1>2. {"collector", "relay", "para", "broadcast", "tracker"} \subseteq Tasks \ {t}
  BY DEF Watchers, Tasks
<1>3. NobodyLeft'
  BY <1>1, <1>2 DEF QuietInv, NobodyLeft, watcherVars
<1>4. \A w \in Watchers : Ordered(w)' /\ Count(w)' = Count(w)
  BY DEF QuietInv, Ordered, Count, watcherVars
<1>5. pc["collector"] # "done" => AllTold' /\ UpdateOK'
  BY <1>1, <1>2, <1>4, OptionsType DEF QuietInv, AllTold, UpdateOK, collectorVars, Fed
<1>6. TrackerTold'
  BY <1>1, <1>2 DEF QuietInv, TrackerTold, Count, watcherVars
<1> QED BY <1>1, <1>2, <1>3, <1>4, <1>5, <1>6 DEF QuietInv

LEMMA SubQuiet ==
  ASSUME TypeOK, QuietInv, Sub \/ SubStalls \/ SubStreamEnds, UNCHANGED options, Quiet'
  PROVE  QuietInv'
<1>1. UNCHANGED <<collectorVars, watcherVars>>
  BY DEF Sub, SubStalls, SubStreamEnds, Start, SubConnect, SubConnectFails, subUnchanged,
     SubReceive, SubSend, SubCheckShutdown, SubOnShutdown, SubFetchFails, SubSendTermination
<1>2. /\ signal = {} /\ PcType /\ queue \in Seq(Nat) /\ produced \in Nat /\ current \in Nat
      /\ "sub" \in Tasks \ (Watchers \cup {"collector"}) /\ LastBlock \in Nat
  BY TypeParts, OptionsType DEF QuietInv, NobodyLeft, QueueType, CollectorType, Tasks, Watchers
<1>3. /\ signal' = {} /\ pc'["sub"] # "panicked"
      /\ pc' = [pc EXCEPT !["sub"] = pc'["sub"]]
  BY <1>2 DEF Quiet, PcType, Sub, SubStalls, SubStreamEnds, Start, SubConnect, SubConnectFails, Goto, Broadcast,
     SubReceive, SubSend, SubCheckShutdown, SubOnShutdown, SubFetchFails, SubSendTermination
<1>4. pc'["collector"] = pc["collector"]
  BY <1>2, <1>3 DEF PcType, Tasks
<1>5. ASSUME pc["collector"] # "done" PROVE QueueOK'
  <2>1. QueueOK /\ Reached' = Reached /\ ~Gone("collector") /\ Reached \in Nat
    BY <1>1, <1>2, <1>4, <1>5 DEF QuietInv, NobodyLeft, Reached, collectorVars, Gone, Tasks
  <2>2. ASSUME NEW b \in Nat, queue' = Append(queue, b), pc["sub"] # "done", produced' = produced,
               \/ b = produced /\ pc["sub"] = "sending" /\ pc'["sub"] # "sending"
               \/ b = Termination /\ pc'["sub"] = "done"
        PROVE  QueueOK'
    <3>1. /\ Len(queue') = Len(queue) + 1 /\ queue'[Len(queue) + 1] = b /\ Len(queue) \in Nat
          /\ \A i \in 1..Len(queue) : queue'[i] = queue[i]
      BY <1>2, <2>2
    <3>2. \A i \in 1..Len(queue) : queue[i] = Reached + i
      BY <2>1, <2>2 DEF QueueOK
    <3>3. b = produced => b = Reached + Len(queue) + 1 \/ pc["sub"] # "sending"
      BY <2>1, <2>2 DEF QueueOK
    <3> QED BY <1>2, <2>1, <2>2, <3>1, <3>2, <3>3 DEF QueueOK
  <2>3. CASE SubReceive
    BY <1>2, <2>1, <2>3 DEF QueueOK, SubReceive, Goto, PcType
  <2>4. CASE SubSend
    BY <1>2, <2>1, <2>2, <2>4 DEF SubSend, Goto, PcType
  <2>5. CASE SubSendTermination
    BY <1>2, <2>1, <2>2, <2>5 DEF SubSendTermination, Goto, PcType, Termination
  <2>6. CASE /\ UNCHANGED <<queue, produced>>
             /\ pc["sub"] \notin {"done", "sending"} /\ pc'["sub"] # "sending"
    BY <1>2, <2>1, <2>6 DEF QueueOK
  <2> QED BY <1>2, <2>3, <2>4, <2>5, <2>6 DEF PcType, Goto, Sub, SubStalls, SubStreamEnds, Start, SubConnect, SubConnectFails,
     SubCheckShutdown, SubOnShutdown, SubFetchFails
<1> QED BY <1>1, <1>2, <1>3, <1>5, SameWatchers

LEMMA OtherQuiet ==
  ASSUME TypeOK, QuietInv, UNCHANGED options, Quiet',
         BackendAnnounces \/ Start("on_shutdown") \/ OnShutdown \/ CtrlC
  PROVE  QuietInv'
<1>1. /\ signal = {} /\ PcType /\ "on_shutdown" \in Tasks \ (Watchers \cup {"collector"})
  BY TypeParts DEF QuietInv, NobodyLeft, Tasks, Watchers
<1>2. Start("on_shutdown")
  BY <1>1 DEF Quiet, BackendAnnounces, OnShutdown, CtrlC, Broadcast
<1>3. /\ pc' = [pc EXCEPT !["on_shutdown"] = "running"]
      /\ UNCHANGED <<signal, queue, produced, collectorVars, watcherVars>>
  BY <1>2 DEF Start, Goto
<1>4. pc'["on_shutdown"] = "running" /\ pc'["sub"] = pc["sub"] /\ pc'["collector"] = pc["collector"]
  BY <1>1, <1>3 DEF PcType, Tasks
<1>5. QueueOK => QueueOK'
  BY <1>3, <1>4 DEF QueueOK, Reached, collectorVars
<1> QED BY <1>1, <1>3, <1>4, <1>5, SameWatchers DEF QuietInv

LEMMA CollectorQuiet ==
  ASSUME TypeOK, QuietInv, Collector \/ CollectorFails, UNCHANGED options, Quiet'
  PROVE  QuietInv'
<1>1. /\ signal = {} /\ PcType /\ queue \in Seq(Nat) /\ produced \in Nat /\ current \in Nat /\ incoming \in Nat
      /\ {"collector", "sub"} \subseteq Tasks /\ Watchers \subseteq Tasks \ {"collector", "sub"}
      /\ LastBlock \in Nat
  BY TypeParts, OptionsType DEF QuietInv, NobodyLeft, QueueType, CollectorType, Tasks, Watchers
<1>2. /\ pc["collector"] \in {"spawned", "running", "updating"}
      /\ pc' = [pc EXCEPT !["collector"] = pc'["collector"]]
      /\ pc'["collector"] \in {"running", "updating", "done"}
      /\ signal' = {} /\ UNCHANGED <<handled, produced>>
  BY <1>1 DEF PcType, Quiet, Collector, Start, CollectorTerminated, CollectorOnShutdown, CollectorNewHead,
     CollectorFails, CollectorSends, CollectorUpdated, terminate, Goto, Broadcast, collectorTakes, watcherVars
<1>3. \A t \in Tasks : t # "collector" => pc'[t] = pc[t]
  BY <1>1, <1>2 DEF PcType
<1>4. NobodyLeft'
  <2>1. pc'["collector"] = "done" \/ UNCHANGED prio
    BY <1>1 DEF PcType, Quiet, Collector, Start, CollectorTerminated, CollectorOnShutdown, CollectorNewHead,
       CollectorFails, CollectorSends, CollectorUpdated, terminate, Goto, watcherVars
  <2> QED BY <2>1, <1>1, <1>2, <1>3 DEF QuietInv, NobodyLeft, Watchers
<1>5. /\ AllTold /\ UpdateOK /\ QueueOK /\ Fed' = Fed /\ Reached \in Nat
      /\ \A w \in Watchers : Ordered(w)
  BY <1>1, <1>2 DEF QuietInv, Fed, Reached
<1>6. ASSUME UNCHANGED bulk
      PROVE  /\ \A w \in Watchers : Ordered(w)' /\ Count(w)' = Count(w)
             /\ TrackerTold'
  <2>1. {"broadcast", "tracker"} \subseteq Watchers
    BY DEF Watchers
  <2> QED BY <1>1, <1>2, <1>3, <1>5, <1>6, <2>1 DEF QuietInv, Ordered, Count, TrackerTold
<1>7. CASE CollectorNewHead
  <2>1. PICK b \in 1..LastBlock : /\ queue # <<>> /\ Head(queue) = b /\ queue' = Tail(queue) /\ incoming' = b
    BY <1>7 DEF CollectorNewHead, collectorTakes
  <2>2. /\ pc["collector"] = "running" /\ pc'["collector"] = "updating" /\ todo' = Fed
        /\ UNCHANGED <<current, bulk>>
    BY <1>1, <1>7 DEF CollectorNewHead, collectorTakes, Goto, PcType, watcherVars
  <2>3. /\ Len(queue) \in Nat \ {0} /\ Len(queue') = Len(queue) - 1 /\ queue[1] = b
        /\ \A i \in 1..Len(queue') : queue'[i] = queue[i + 1]
    BY <1>1, <2>1
  <2>4. b = current + 1
    BY <2>2, <2>3, <1>5 DEF QueueOK, Reached, Termination
  <2>5. UpdateOK' /\ AllTold'
    BY <1>5, <1>6, <2>1, <2>2, <2>4, OptionsType DEF UpdateOK, AllTold
  <2>6. QueueOK'
    <3>1. Reached' = Reached + 1
      BY <1>1, <2>2 DEF Reached
    <3>2. ASSUME NEW i \in 1..Len(queue')
          PROVE  \/ queue'[i] = Reached' + i
                 \/ queue'[i] = Termination /\ i = Len(queue') /\ pc'["sub"] = "done"
      <4>1. i + 1 \in 1..Len(queue) /\ queue'[i] = queue[i + 1]
        BY <2>3
      <4> QED BY <4>1, <3>1, <2>3, <1>1, <1>3, <1>5 DEF QueueOK
    <3>3. pc'["sub"] # "done" => produced' = Reached' + Len(queue') + IF pc'["sub"] = "sending" THEN 1 ELSE 0
      <4>1. pc'["sub"] = pc["sub"] /\ produced' = produced
        BY <1>1, <1>2, <1>3
      <4>2. pc["sub"] # "done" => produced = Reached + Len(queue) + IF pc["sub"] = "sending" THEN 1 ELSE 0
        BY <1>5 DEF QueueOK
      <4>3. Reached' + Len(queue') = Reached + Len(queue)
        BY <3>1, <2>3, <1>5
      <4> QED BY <4>1, <4>2, <4>3
    <3> QED BY <3>2, <3>3 DEF QueueOK
  <2> QED BY <1>4, <1>6, <2>2, <2>5, <2>6 DEF QuietInv
<1>8. CASE CollectorSends
  <2>1. pc["collector"] = "updating" /\ todo # <<>> /\ todo \in {Fed, <<Fed[2]>>}
    BY <1>8, <1>5 DEF CollectorSends, UpdateOK
  <2>12. PICK w : w = Head(todo)
    OBVIOUS
  <2>2. /\ w \in Range(Fed) /\ w \in Watchers /\ w # "tracker"
        /\ Tail(todo) \in {<<Fed[2]>>, <<>>} /\ Range(todo) = {w} \cup Range(Tail(todo)) /\ w \notin Range(Tail(todo))
    <3>1. CASE todo = Fed
      <4>1. w = "relay" /\ Tail(todo) = <<Fed[2]>> /\ Range(Tail(todo)) = {Fed[2]}
        <5>1. \A x : Head(<<"relay", x>>) = "relay" /\ Tail(<<"relay", x>>) = <<x>> /\ Range(<<x>>) = {x}
          BY DEF Range
        <5> QED BY <5>1, <2>12, <3>1, OptionsType
      <4> QED BY <3>1, <4>1, OptionsType
    <3>2. CASE todo = <<Fed[2]>>
      <4>1. w = Fed[2] /\ Tail(todo) = <<>> /\ Range(Tail(todo)) = {} /\ Range(todo) = {Fed[2]}
        BY <3>2, <2>12 DEF Range
      <4> QED BY <4>1, OptionsType
    <3> QED BY <2>1, <3>1, <3>2
  <2>3. ~Gone(w)
    BY <2>1, <2>2, OptionsType, <1>1 DEF QuietInv, NobodyLeft, Gone
  <2>4. /\ bulk' = [bulk EXCEPT ![w] = Append(@, current)] /\ todo' = Tail(todo)
        /\ UNCHANGED <<pc, incoming, queue, current>>
    BY <1>8, <2>3, <2>12 DEF CollectorSends
  <2>5. /\ bulk \in [Watchers -> Seq(0..LastBlock)] /\ handled \in [Watchers -> Seq(0..LastBlock)]
    BY TypeParts DEF WatcherType
  <2>6. Count(w) = current
    BY <1>5, <2>1, <2>2 DEF AllTold
  <2>7. /\ Len(bulk'[w]) = Len(bulk[w]) + 1 /\ bulk'[w][Len(bulk[w]) + 1] = current
        /\ \A i \in 1..Len(bulk[w]) : bulk'[w][i] = bulk[w][i]
        /\ Len(bulk[w]) \in Nat /\ Len(handled[w]) \in Nat
        /\ \A v \in Watchers : v # w => bulk'[v] = bulk[v]
    BY <1>1, <2>2, <2>4, <2>5
  <2>8. \A v \in Watchers : Ordered(v)'
    <3>1. ASSUME NEW v \in Watchers, v # w PROVE Ordered(v)'
      BY <3>1, <2>7, <1>2, <1>5 DEF Ordered
    <3>2. Ordered(w)'
      <4>1. Ordered(w) /\ handled'[w] = handled[w] /\ current = Len(handled[w]) + Len(bulk[w])
        BY <2>2, <2>6, <1>2, <1>5 DEF Count
      <4>2. ASSUME NEW i \in 1..Len(bulk'[w])
            PROVE  bulk'[w][i] = Len(handled[w]) + i - 1
        <5>1. CASE i \in 1..Len(bulk[w])
          BY <5>1, <2>7, <4>1 DEF Ordered
        <5>2. CASE i = Len(bulk[w]) + 1
          BY <5>2, <2>7, <4>1
        <5> QED BY <5>1, <5>2, <2>7
      <4> QED BY <4>1, <4>2 DEF Ordered
    <3> QED BY <3>1, <3>2
  <2>9. /\ Count(w)' = current + 1
        /\ \A v \in Watchers : v # w => Count(v)' = Count(v)
    <3>1. handled' = handled
      BY <1>2
    <3>2. \A v \in Watchers : v # w => Count(v)' = Count(v)
      BY <3>1, <2>7 DEF Count
    <3>3. \A x, y \in Nat : x + (y + 1) = x + y + 1
      OBVIOUS
    <3> QED BY <3>1, <3>2, <3>3, <2>6, <2>7 DEF Count
  <2>10. AllTold'
    BY <2>1, <2>2, <2>4, <2>9, <1>5, OptionsType DEF AllTold
  <2>11. UpdateOK' /\ QueueOK' /\ TrackerTold'
    <3>1. {"broadcast", "tracker"} \subseteq Watchers
      BY DEF Watchers
    <3>2. TrackerTold'
      BY <3>1, <2>2, <2>4, <2>9, <1>2 DEF QuietInv, TrackerTold
    <3> QED BY <3>2, <2>2, <2>4, <1>2, <1>5 DEF UpdateOK, QueueOK, Reached
  <2> QED BY <1>4, <2>8, <2>10, <2>11 DEF QuietInv
<1>9. CASE CollectorUpdated /\ pc'["collector"] # "done"
  <2>1. /\ pc["collector"] = "updating" /\ pc'["collector"] = "running" /\ todo = <<>>
        /\ current' = incoming /\ UNCHANGED <<queue, todo, bulk>>
    BY <1>9, <1>1 DEF CollectorUpdated, terminate, Goto, PcType, watcherVars
  <2>2. incoming = current + 1
    BY <2>1, <1>5 DEF UpdateOK
  <2>3. Range(todo) = {}
    BY <2>1 DEF Range
  <2>4. AllTold' /\ UpdateOK'
    BY <2>1, <2>2, <2>3, <1>5, <1>6, OptionsType DEF AllTold, UpdateOK
  <2>5. QueueOK'
    BY <2>1, <2>2, <1>1, <1>2, <1>3, <1>5 DEF QueueOK, Reached
  <2> QED BY <1>4, <1>6, <2>1, <2>4, <2>5 DEF QuietInv
<1>10. CASE pc'["collector"] = "done" /\ UNCHANGED bulk
  BY <1>10, <1>4, <1>6 DEF QuietInv
<1>11. CASE Start("collector")
  <2>1. pc["collector"] = "spawned" /\ pc'["collector"] = "running" /\ UNCHANGED <<queue, collectorVars, watcherVars>>
    BY <1>11, <1>1 DEF Start, Goto, PcType
  <2>2. AllTold' /\ UpdateOK' /\ QueueOK'
    BY <2>1, <1>1, <1>2, <1>3, <1>5, <1>6, OptionsType
       DEF AllTold, UpdateOK, QueueOK, Reached, collectorVars, watcherVars
  <2> QED BY <1>4, <1>6, <2>1, <2>2 DEF QuietInv, watcherVars
<1> QED
  <2>1. ~CollectorTerminated /\ ~CollectorOnShutdown
    BY <1>1 DEF CollectorTerminated, CollectorOnShutdown, Broadcast, Quiet
  <2>2. CollectorFails => pc'["collector"] = "done" /\ UNCHANGED bulk
    BY <1>1 DEF CollectorFails, terminate, Goto, PcType
  <2>3. CollectorUpdated /\ pc'["collector"] = "done" => UNCHANGED bulk
    BY <1>1 DEF CollectorUpdated, terminate, Goto, PcType, watcherVars
  <2> QED BY <2>1, <2>2, <2>3, <1>7, <1>8, <1>9, <1>10, <1>11 DEF Collector

(* A block that is taken moves from the lane to what is processed. *)
LEMMA TakesInOrder ==
  ASSUME TypeOK, NEW v \in Watchers, takes(v), \A w \in Watchers : Ordered(w)
  PROVE  /\ \A w \in Watchers : Ordered(w)' /\ Count(w)' = Count(w)
         /\ Len(handled'[v]) = Len(handled[v]) + 1
         /\ \A w \in Watchers : w # v => handled'[w] = handled[w]
<1>1. /\ bulk \in [Watchers -> Seq(0..LastBlock)] /\ handled \in [Watchers -> Seq(0..LastBlock)]
      /\ LastBlock \in Nat
  BY TypeParts, OptionsType DEF WatcherType
<1> DEFINE b == bulk[v]
           h == handled[v]
<1>2. /\ b \in Seq(0..LastBlock) /\ h \in Seq(0..LastBlock) /\ b # <<>>
      /\ bulk'[v] = Tail(b) /\ handled'[v] = Append(h, Head(b))
      /\ \A w \in Watchers : w # v => bulk'[w] = bulk[w] /\ handled'[w] = handled[w]
  BY <1>1 DEF takes
<1>3. /\ Len(b) \in Nat \ {0} /\ Len(h) \in Nat
      /\ Len(bulk'[v]) = Len(b) - 1 /\ Len(handled'[v]) = Len(h) + 1
      /\ \A i \in 1..Len(b) - 1 : bulk'[v][i] = b[i + 1] /\ i + 1 \in 1..Len(b)
      /\ \A i \in 1..Len(h) : handled'[v][i] = h[i]
      /\ handled'[v][Len(h) + 1] = b[1] /\ 1 \in 1..Len(b)
  BY <1>2
<1>4. /\ \A i \in 1..Len(h) : h[i] = i - 1
      /\ \A i \in 1..Len(b) : b[i] = Len(h) + i - 1
  BY DEF Ordered
<1> HIDE DEF b, h
<1>5. Ordered(v)'
  <2>1. \A i \in 1..Len(handled'[v]) : handled'[v][i] = i - 1
    <3>1. ASSUME NEW i \in 1..Len(handled'[v]) PROVE handled'[v][i] = i - 1
      <4>1. CASE i \in 1..Len(h)
        BY <4>1, <1>3, <1>4
      <4>2. CASE i = Len(h) + 1
        BY <4>2, <1>3, <1>4
      <4> QED BY <4>1, <4>2, <1>3
    <3> QED BY <3>1
  <2>2. ASSUME NEW i \in 1..Len(bulk'[v]) PROVE bulk'[v][i] = Len(handled'[v]) + i - 1
    <3>1. i \in 1..Len(b) - 1 /\ bulk'[v][i] = b[i + 1] /\ i + 1 \in 1..Len(b)
      BY <1>3
    <3>2. b[i + 1] = Len(h) + (i + 1) - 1
      BY <3>1, <1>4
    <3> QED BY <3>1, <3>2, <1>3
  <2> QED BY <2>1, <2>2 DEF Ordered
<1>6. Count(v)' = Count(v)
  <2>1. \A x \in Nat, y \in Nat \ {0} : (x + 1) + (y - 1) = x + y
    OBVIOUS
  <2>2. Count(v)' = Len(handled'[v]) + Len(bulk'[v]) /\ Count(v) = Len(h) + Len(b)
    BY DEF Count, h, b
  <2> QED BY <2>1, <2>2, <1>3
<1>7. ASSUME NEW w \in Watchers, w # v PROVE Ordered(w)' /\ Count(w)' = Count(w)
  BY <1>2, <1>7 DEF Ordered, Count
<1> QED BY <1>2, <1>3, <1>5, <1>6, <1>7 DEF h

LEMMA WatcherQuiet ==
  ASSUME TypeOK, InUse, QuietInv, NEW v \in Watchers, Watcher(v) \/ WatcherInjectFails(v),
         UNCHANGED options, Quiet'
  PROVE  QuietInv'
<1>1. /\ signal = {} /\ PcType /\ WatcherType /\ NobodyLeft
      /\ {"collector", "sub"} \subseteq Tasks /\ Watchers \subseteq Tasks \ {"collector", "sub"}
      /\ {"broadcast", "tracker"} \subseteq Watchers /\ LastBlock \in Nat
  BY TypeParts, OptionsType DEF QuietInv, NobodyLeft, Tasks, Watchers
<1>2. /\ UNCHANGED <<queue, produced, collectorVars>> /\ signal' = {}
      /\ ~WatcherInjectFails(v) /\ ~WatcherOnShutdown(v)
      /\ BroadcastTerminated => prio["broadcast"] # "Abnormal"
  BY <1>1 DEF Quiet, Broadcast, Watcher, Start, WatcherRecv, WatcherRecvClosed, WatcherOnShutdown, watcherUnchanged, ends,
     WatcherInjectFails, BroadcastTerminated, BroadcastPolls, BroadcastTakes, BroadcastClosed, BroadcastWoken,
     BroadcastForwards, BroadcastJoins
<1>3. /\ pc'["collector"] = pc["collector"] /\ pc'["sub"] = pc["sub"]
      /\ pc' \in [Tasks -> Locations]
  <2>1. TypeOK'
    BY WatcherTypeStep
  <2> QED BY <2>1, <1>1, <1>2 DEF TypeOK, Locations, PcType, Goto, Watcher, Start, WatcherRecv, WatcherRecvClosed, ends,
       BroadcastTerminated, BroadcastPolls, BroadcastTakes, BroadcastClosed, BroadcastWoken,
       BroadcastForwards, BroadcastJoins
<1>4. /\ pc["collector"] # "done" => AllTold /\ UpdateOK /\ QueueOK
      /\ \A w \in Watchers : Ordered(w)
      /\ TrackerTold /\ Fed' = Fed
  BY DEF QuietInv, Fed
<1>5. ASSUME NobodyLeft', TrackerTold',
             \A w \in Watchers : Ordered(w)' /\ (pc["collector"] # "done" => Count(w)' = Count(w) \/ w = "tracker")
      PROVE  QuietInv'
  <2>1. pc["collector"] # "done" => UpdateOK' /\ QueueOK'
    BY <1>2, <1>3, <1>4 DEF UpdateOK, QueueOK, Reached, collectorVars
  <2>2. "tracker" \notin Range(Fed) /\ Range(Fed) \subseteq Watchers
    BY OptionsType
  <2>3. pc["collector"] # "done" => AllTold'
    BY <1>2, <1>3, <1>4, <1>5, <2>2 DEF AllTold, collectorVars
  <2> QED BY <2>1, <2>3, <1>3, <1>5 DEF QuietInv
<1>6. \A l : pc' = [pc EXCEPT ![v] = l] => pc'[v] = l /\ \A t \in Tasks : t # v => pc'[t] = pc[t]
  BY <1>1 DEF PcType
<1>7. ASSUME NEW l, pc' = [pc EXCEPT ![v] = l], UNCHANGED <<bulk, handled>>,
             prio' = prio \/ pc["collector"] = "done",
             \/ pc[v] = "spawned" /\ l = "running"
             \/ /\ v = "broadcast" /\ pc[v] \in {"running", "polled"}
                /\ l \in {"running", "polled"} \/ (l = "joining" /\ pc["collector"] = "done")
      PROVE  QuietInv'
  <2>1. \A w \in Watchers : Ordered(w)' /\ Count(w)' = Count(w)
    BY <1>7, <1>4 DEF Ordered, Count
  <2>2. pc'[v] = l /\ \A t \in Tasks : t # v => pc'[t] = pc[t]
    BY <1>6, <1>7
  <2>3. NobodyLeft'
    BY <2>2, <1>1, <1>2, <1>3, <1>7 DEF NobodyLeft, Watchers
  <2>4. TrackerTold'
    BY <2>1, <2>2, <1>1, <1>4, <1>7 DEF TrackerTold
  <2> QED BY <2>1, <2>3, <2>4, <1>5
<1>8. CASE Start(v)
  <2>1. v # "sub" /\ UNCHANGED <<bulk, handled, prio>>
    BY <1>8, <1>1 DEF Start, watcherVars
  <2> QED BY <2>1, <1>7, <1>8 DEF Start, Goto
<1>9. CASE v = "broadcast" /\ BroadcastTerminated
  <2>1. pc["collector"] = "done"
    BY <1>1, <1>9 DEF BroadcastTerminated, NobodyLeft, Disconnected, Gone
  <2> QED BY <2>1, <1>7, <1>9 DEF BroadcastTerminated, Goto
<1>10. CASE v = "broadcast" /\ BroadcastClosed
  <2>1. pc["collector"] = "done"
    BY <1>1, <1>10 DEF BroadcastClosed, NobodyLeft, Disconnected, Gone
  <2> QED BY <2>1, <1>7, <1>10 DEF BroadcastClosed, Goto, watcherVars
<1>11. CASE v = "broadcast" /\ (BroadcastPolls \/ BroadcastWoken)
  BY <1>7, <1>11 DEF BroadcastPolls, BroadcastWoken, Goto, watcherVars
<1>12. CASE WatcherRecv(v)
  <2>1. v # "broadcast" /\ takes(v) /\ pc' = pc /\ prio' = prio
    BY <1>12 DEF WatcherRecv, takes
  <2>2. \A w \in Watchers : Ordered(w)' /\ Count(w)' = Count(w)
    BY <2>1, <1>4, TakesInOrder
  <2>3. handled'["broadcast"] = handled["broadcast"]
    BY <2>1, <1>1, <1>4, TakesInOrder
  <2>4. NobodyLeft' /\ TrackerTold'
    BY <2>1, <2>2, <2>3, <1>1, <1>2, <1>4 DEF NobodyLeft, TrackerTold
  <2> QED BY <2>2, <2>4, <1>5
<1>13. CASE v = "broadcast" /\ BroadcastTakes
  <2>1. takes(v) /\ prio' = prio /\ pc["broadcast"] = "polled"
    BY <1>13 DEF BroadcastTakes, takes
  <2>2. \A w \in Watchers : Ordered(w)' /\ Count(w)' = Count(w)
    BY <2>1, <1>4, TakesInOrder
  <2>3. Len(handled'["broadcast"]) = Len(handled["broadcast"]) + 1 /\ Len(handled["broadcast"]) \in Nat
    BY <2>1, <1>1, <1>4, <1>13, TakesInOrder DEF WatcherType
  <2>4. /\ pc'["broadcast"] = "forwarding"
        /\ pc'["tracker"] = IF pc["tracker"] = "unspawned" THEN "spawned" ELSE pc["tracker"]
        /\ \A t \in Tasks : t \notin {"broadcast", "tracker"} => pc'[t] = pc[t]
    BY <1>1, <1>13 DEF BroadcastTakes, PcType
  <2>5. pc'["tracker"] # "done"
    BY <2>1, <2>4, <1>1 DEF NobodyLeft
  <2>6. NobodyLeft'
    BY <2>1, <2>4, <2>5, <1>1, <1>2, <1>3 DEF NobodyLeft, Watchers
  <2>7. TrackerTold'
    BY <2>1, <2>2, <2>3, <2>4, <1>1, <1>4 DEF TrackerTold
  <2> QED BY <2>2, <2>6, <2>7, <1>5
<1>14. ASSUME ends(v), v = "tracker" => pc["broadcast"] \in {"joining", "done"},
              v # "tracker" => pc["collector"] = "done"
       PROVE  QuietInv'
  <2>1. /\ bulk' = [bulk EXCEPT ![v] = <<>>] /\ handled' = handled /\ prio' = [prio EXCEPT ![v] = "none"]
        /\ pc'[v] = "done" /\ \A t \in Tasks : t # v => pc'[t] = pc[t]
    BY <1>6, <1>14 DEF ends, Goto
  <2>2. /\ bulk'[v] = <<>> /\ prio'[v] = "none"
        /\ \A w \in Watchers : w # v => bulk'[w] = bulk[w] /\ prio'[w] = prio[w]
    BY <2>1, <1>1 DEF WatcherType
  <2>3. \A w \in Watchers : Ordered(w)'
    BY <2>1, <2>2, <1>4 DEF Ordered
  <2>4. \A w \in Watchers : w # v => Count(w)' = Count(w)
    BY <2>1, <2>2 DEF Count
  <2>5. NobodyLeft'
    BY <2>1, <2>2, <1>1, <1>2, <1>3, <1>14 DEF NobodyLeft, Watchers
  <2>6. TrackerTold'
    BY <2>1, <2>2, <2>4, <1>1, <1>4, <1>14 DEF TrackerTold
  <2> QED BY <2>3, <2>4, <2>5, <2>6, <1>5, <1>14
<1>15. CASE WatcherRecvClosed(v)
  BY <1>1, <1>14, <1>15 DEF WatcherRecvClosed, Disconnected, Gone, NobodyLeft
<1>16. CASE v = "broadcast" /\ BroadcastJoins
  <2>1. pc["collector"] = "done"
    BY <1>1, <1>16 DEF BroadcastJoins, NobodyLeft
  <2> QED BY <2>1, <1>14, <1>16 DEF BroadcastJoins
<1>17. CASE v = "broadcast" /\ BroadcastForwards
  <2>1. ~Gone("tracker") /\ pc["broadcast"] = "forwarding"
    BY <1>1, <1>17 DEF BroadcastForwards, NobodyLeft, Gone
  <2>2. PICK b : b = Last(handled["broadcast"])
    OBVIOUS
  <2>3. /\ bulk' = [bulk EXCEPT !["tracker"] = Append(@, b)] /\ handled' = handled /\ prio' = prio
        /\ pc' = [pc EXCEPT !["broadcast"] = "running"]
    BY <2>1, <2>2, <1>17 DEF BroadcastForwards, Goto
  <2>4. pc'["broadcast"] = "running" /\ \A t \in Tasks : t # "broadcast" => pc'[t] = pc[t]
    BY <2>3, <1>1 DEF PcType
  <2>5. PICK h \in Nat, n \in Nat : h = Len(handled["tracker"]) /\ n = Len(bulk["tracker"])
    BY <1>1 DEF WatcherType
  <2>6. /\ b = h + n
        /\ Count("tracker") = h + n /\ Len(handled["broadcast"]) = h + n + 1
    <3>1. /\ handled["broadcast"] \in Seq(0..LastBlock) /\ handled["broadcast"] # <<>>
      BY <2>1, <1>1 DEF WatcherType, InUse
    <3>2. PICK k \in Nat \ {0} : k = Len(handled["broadcast"]) /\ b = handled["broadcast"][k]
      BY <3>1, <2>2, LastElement
    <3>3. b = k - 1
      <4>1. k \in 1..k /\ Ordered("broadcast")
        BY <1>1, <1>4
      <4> QED BY <3>2, <4>1 DEF Ordered
    <3>4. Count("tracker") = h + n /\ Count("tracker") = k - 1
      BY <2>1, <2>5, <3>2, <1>4 DEF Count, TrackerTold
    <3> QED BY <3>2, <3>3, <3>4
  <2>7. /\ Len(bulk'["tracker"]) = n + 1 /\ bulk'["tracker"][n + 1] = b
        /\ \A i \in 1..n : bulk'["tracker"][i] = bulk["tracker"][i]
        /\ \A w \in Watchers : w # "tracker" => bulk'[w] = bulk[w]
    <3>1. bulk["tracker"] \in Seq(0..LastBlock) /\ bulk'["tracker"] = Append(bulk["tracker"], b) /\ b \in Nat
      BY <2>3, <2>6, <1>1 DEF WatcherType
    <3>2. \A w \in Watchers : w # "tracker" => bulk'[w] = bulk[w]
      BY <2>3, <1>1 DEF WatcherType
    <3> QED BY <3>1, <3>2, <2>5
  <2>8. ASSUME NEW w \in Watchers PROVE Ordered(w)' /\ (w # "tracker" => Count(w)' = Count(w))
    <3>1. CASE w # "tracker"
      BY <3>1, <2>3, <2>7, <1>4 DEF Ordered, Count
    <3>2. CASE w = "tracker"
      <4>1. ASSUME NEW i \in 1..n + 1 PROVE bulk'["tracker"][i] = h + i - 1
        <5>1. CASE i = n + 1
          BY <5>1, <2>5, <2>6, <2>7
        <5>2. CASE i \in 1..n
          BY <5>2, <3>2, <2>5, <2>7, <1>4 DEF Ordered
        <5> QED BY <5>1, <5>2, <2>5
      <4>2. Ordered("tracker")
        BY <1>1, <1>4
      <4> QED BY <3>2, <4>1, <4>2, <2>3, <2>5, <2>7 DEF Ordered
    <3> QED BY <3>1, <3>2
  <2>9. Count("tracker")' = Len(handled'["broadcast"])
    <3>1. Count("tracker")' = h + (n + 1)
      BY <2>3, <2>5, <2>7 DEF Count
    <3>2. \A x, y \in Nat : x + (y + 1) = x + y + 1
      OBVIOUS
    <3>3. Len(handled'["broadcast"]) = h + n + 1
      BY <2>3, <2>6
    <3> QED BY <3>1, <3>2, <3>3
  <2>10. NobodyLeft'
    BY <2>1, <2>3, <2>4, <1>1, <1>2, <1>3 DEF NobodyLeft, Watchers
  <2>11. TrackerTold'
    <3>1. Len(handled'["broadcast"]) \in Nat
      BY <2>3, <2>6
    <3> QED BY <2>4, <2>9, <3>1 DEF TrackerTold
  <2> QED BY <2>8, <2>10, <2>11, <1>5
<1> QED BY <1>2, <1>8, <1>9, <1>10, <1>11, <1>12, <1>13, <1>15, <1>16, <1>17 DEF Watcher
-----------------------------------------------------------------------------
(* What happened stays: a step that ends before a shutdown began before one. *)
LEMMA GhostGrows == [Next]_vars => ghost \subseteq ghost'
<1> SUFFICES ASSUME [Next]_vars PROVE ghost \subseteq ghost'
  OBVIOUS
<1>1. CASE Sub \/ SubStalls \/ SubStreamEnds
  BY <1>1 DEF Sub, SubStalls, SubStreamEnds, Start, SubConnect, SubConnectFails, Note,
     SubReceive, SubSend, SubCheckShutdown, SubOnShutdown, SubFetchFails, SubSendTermination, Broadcast
<1>2. CASE Collector \/ CollectorFails
  BY <1>2 DEF Collector, Start, CollectorTerminated, CollectorOnShutdown, Note, Broadcast,
     CollectorNewHead, CollectorFails, CollectorSends, CollectorUpdated
<1>3. CASE \E w \in Watchers : Watcher(w) \/ WatcherInjectFails(w)
  BY <1>3 DEF Watcher, Start, WatcherRecv, WatcherRecvClosed, WatcherOnShutdown,
     BroadcastTerminated, BroadcastPolls, BroadcastTakes, BroadcastClosed, BroadcastWoken, BroadcastForwards,
     BroadcastJoins, WatcherInjectFails, Broadcast
<1>4. CASE BackendAnnounces \/ Start("on_shutdown") \/ OnShutdown \/ CtrlC
  BY <1>4 DEF BackendAnnounces, Start, OnShutdown, CtrlC, Broadcast
<1>5. CASE UNCHANGED vars
  BY <1>5 DEF vars
<1> QED BY <1>1, <1>2, <1>3, <1>4, <1>5 DEF Next

LEMMA StutterIInv ==
  ASSUME IInv, UNCHANGED vars
  PROVE  IInv'
<1>1. /\ Fed' = Fed /\ Reached' = Reached /\ LastBlock' = LastBlock
      /\ \A w \in Watchers : (NotInUse(w) <=> NotInUse(w)') /\ (Ordered(w) <=> Ordered(w)') /\ Count(w)' = Count(w)
  BY DEF vars, Fed, Reached, LastBlock, NotInUse, Joined, Ordered, Count
<1>2. TypeOK' /\ InUse' /\ (Quiet' <=> Quiet)
  BY <1>1 DEF IInv, TypeOK, InUse, Quiet, vars
<1>3. QuietInv => QuietInv'
  <2>1. (NobodyLeft => NobodyLeft') /\ (UpdateOK => UpdateOK') /\ (QueueOK => QueueOK')
    BY <1>1 DEF NobodyLeft, UpdateOK, QueueOK, vars
  <2>2. (AllTold => AllTold') /\ (TrackerTold => TrackerTold')
    <3>1. Range(Fed) \subseteq Watchers /\ "tracker" \in Watchers
      BY OptionsType DEF IInv, Watchers
    <3> QED BY <1>1, <3>1 DEF AllTold, TrackerTold, vars
  <2>3. pc' = pc
    BY DEF vars
  <2> QED BY <1>1, <2>1, <2>2, <2>3 DEF QuietInv
<1> QED BY <1>2, <1>3 DEF IInv

LEMMA IInvStep == IInv /\ [Next]_vars => IInv'
<1> SUFFICES ASSUME IInv, [Next]_vars PROVE IInv'
  OBVIOUS
<1>1. TypeOK /\ InUse /\ (Quiet => QuietInv) /\ (Quiet' => Quiet)
  BY GhostGrows DEF IInv, Quiet
<1>2. CASE UNCHANGED options /\ (Sub \/ SubStalls \/ SubStreamEnds)
  BY <1>1, <1>2, SubType, FeedersInUse, SubQuiet DEF IInv
<1>3. CASE UNCHANGED options /\ (Collector \/ CollectorFails)
  BY <1>1, <1>3, CollectorTypeStep, FeedersInUse, CollectorQuiet DEF IInv
<1>4. ASSUME NEW w \in Watchers, Watcher(w) \/ WatcherInjectFails(w), UNCHANGED options
      PROVE  IInv'
  BY <1>1, <1>4, WatcherTypeStep, WatchersInUse, WatcherQuiet DEF IInv
<1>5. CASE UNCHANGED options /\ (BackendAnnounces \/ Start("on_shutdown") \/ OnShutdown \/ CtrlC)
  BY <1>1, <1>5, OtherTypeStep, FeedersInUse, OtherQuiet DEF IInv
<1>6. CASE UNCHANGED vars
  BY <1>6, StutterIInv
<1> QED BY <1>2, <1>3, <1>4, <1>5, <1>6 DEF Next

LEMMA InductiveInvariant == Spec => []IInv
<1>1. Init => IInv
  BY InitType, InitInUse, InitQuiet DEF IInv
<1> QED BY <1>1, IInvStep, PTL DEF Spec

(* The variables of the tasks have the values the code can give them: no channel
   is above its capacity, no task is at a place that it does not have. *)
THEOREM TypeCorrect == Spec => []TypeOK
BY InductiveInvariant, PTL DEF IInv

(* Before a shutdown a watcher has processed the blocks 0, 1, 2.. in this order,
   whoever failed and whenever: update_state() awaits every send, and the only
   ends of a watcher come after those of its feeder. *)
THEOREM BlocksDeliveredInOrder == Spec => []DeliveredInOrder
<1>1. IInv => DeliveredInOrder
  BY DEF IInv, Quiet, QuietInv, Ordered, DeliveredInOrder
<1> QED BY <1>1, InductiveInvariant, PTL

(* `to_tracker.send(..).await.unwrap()` panics in a shutdown only: the tracker of
   --all does not end while its feeder has a block for it. *)
THEOREM PanicsInShutdownOnly == Spec => []PanicsOnlyInShutdown
<1>1. IInv => PanicsOnlyInShutdown
  BY DEF IInv, Quiet, QuietInv, NobodyLeft, PanicsOnlyInShutdown
<1> QED BY <1>1, InductiveInvariant, PTL

=============================================================================
