-------------------------- MODULE TracerLifecycle --------------------------
(***************************************************************************)
(* How the tasks of the parachain tracer run and stop together: the chain  *)
(* subscription, the collector, the watchers fed by it, the task that      *)
(* waits for a shutdown, and the backend of the request executor.  Blocks  *)
(* flow from the subscription to the collector through one bounded channel *)
(* and from the collector to every watcher through a priority channel;     *)
(* `shutdown_tx` is a broadcast that reaches only the tasks subscribed to  *)
(* it at the moment of sending.                                            *)
(*                                                                         *)
(* A block is its number.  Heartbeats, and the heads the subscribe mode    *)
(* does not follow, pass through the same channel without effect and are   *)
(* left out, as are session updates.                                       *)
(***************************************************************************)
EXTENDS Integers, Sequences, FiniteSets, SequencesExt

CONSTANTS CommandLines, \* the ways to start the program, see Options
          Faults,      \* what may go wrong in the environment
          QueueSize,   \* capacity of the subscription's channel
          Capacity     \* capacity of a watcher's bulk lane

FaultKinds == {"ctrl_c",   \* the user interrupts the program
               "rpc",      \* a request to the node fails for good
               "bounds",   \* the range of a historical run is beyond the chain
               "stream",   \* the node ends the subscription
               "stall",    \* no block arrives within BLOCK_STALL_TIMEOUT
               "decode",   \* an event of a block cannot be decoded
               "inject"}   \* a tracker cannot process a block

(* A command line: --para-id or --all, on the heads of the chain as they arrive or
   on a historical range; `last` is the end of the range (--to), or the bound on
   the heads that arrive. *)
Options == [mode : {"para", "all"}, source : {"head", "historical"}, last : Nat \ {0}]

ASSUME ConstantsAssumption ==
  /\ CommandLines \subseteq Options
  /\ Faults \subseteq FaultKinds
  /\ QueueSize \in Nat \ {0}
  /\ Capacity \in Nat \ {0}

(* The watchers, and the tracker that the broadcast watcher spawns on demand. *)
Watchers == {"relay", "para", "broadcast", "tracker"}

Tasks == Watchers \cup {"sub", "collector", "on_shutdown"}

VARIABLES
  options,   \* the command line the program was started with
  pc,        \* where each task is
  signal,    \* the tasks with an unread shutdown message
  queue,     \* consumer_channel: blocks, then possibly 0 for Termination
  produced,  \* the last block the subscription took from the node
  current,   \* state.current_relay_chain_block_number
  incoming,  \* the block the collector is processing, or 0
  todo,      \* the watchers still to be told about `current`
  bulk,      \* the bulk lane of every watcher's channel
  prio,      \* its priority lane: a TerminationReason or "none"
  handled,   \* the blocks every watcher has processed, in order
  executor,  \* the backend: "up", "failing" (not yet announced) or "down"
  ghost      \* what has happened: used by the properties only

vars == <<options, pc, signal, queue, produced, current, incoming, todo, bulk,
          prio, handled, executor, ghost>>

LastBlock == options.last

Source == options.source

(* The watchers the collector feeds, in the order it serves them: subscriptions by
   parachain id (the relay chain has id 0), then broadcast. *)
Fed == <<"relay", IF options.mode = "para" THEN "para" ELSE "broadcast">>

(* The tasks that main() joins. *)
Joined == Range(Fed) \cup {"sub", "collector", "on_shutdown"}

collectorVars == <<current, incoming, todo>>
watcherVars == <<bulk, prio, handled>>

Termination == 0

Note(x) == ghost' = ghost \cup {x}

Running(t) == pc[t] \notin {"unspawned", "spawned", "done", "panicked"}

Gone(t) == pc[t] \in {"done", "panicked"}

(* Every task of main() has run for the first time, and has subscribed. *)
Started == \A t \in Joined : pc[t] # "spawned"

(* `shutdown_tx.send(())`: a task that subscribes later never hears of it. *)
Broadcast ==
  /\ signal' = signal \cup {t \in Tasks : Running(t)}
  /\ ghost' = ghost \cup {"shutdown"} \cup (IF Started THEN {} ELSE {"unheard"})

Goto(t, l) == pc' = [pc EXCEPT ![t] = l]

Init ==
  /\ options \in CommandLines
  /\ pc = [t \in Tasks |-> IF t \in Joined THEN "spawned" ELSE "unspawned"]
  /\ signal = {}
  /\ queue = <<>>
  /\ produced = 0
  /\ current = 0
  /\ incoming = 0
  /\ todo = <<>>
  /\ bulk = [w \in Watchers |-> <<>>]
  /\ prio = [w \in Watchers |-> "none"]
  /\ handled = [w \in Watchers |-> <<>>]
  /\ executor = "up"
  /\ ghost = {}

(* A spawned task runs for the first time and subscribes to the broadcast. *)
Start(t) ==
  /\ pc[t] = "spawned"
  /\ Goto(t, IF t = "sub" THEN "connecting" ELSE "running")
  /\ UNCHANGED <<signal, queue, produced, collectorVars, watcherVars, executor, ghost>>
-----------------------------------------------------------------------------
(* The request executor.  A request that fails for good ends the backend; the
   requester sees its reply channel dropped, and the backend's task announces
   the shutdown afterwards. *)

RequestFails ==
  \/ executor # "up" /\ UNCHANGED executor
  \/ /\ executor = "up"
     /\ "rpc" \in Faults
     /\ executor' = "failing"

(* A wrong backend that fails without an announcement. *)
BackendSilent ==
  /\ executor = "failing"
  /\ executor' = "down"
  /\ UNCHANGED <<pc, signal, ghost, queue, produced, collectorVars, watcherVars>>

BackendAnnounces ==
  /\ executor = "failing"
  /\ executor' = "down"
  /\ Broadcast
  /\ UNCHANGED <<pc, queue, produced, collectorVars, watcherVars>>
-----------------------------------------------------------------------------
(* The subscription task, ChainHeadSubscription::run_per_node or
   HistoricalSubscription::run_per_node.  A full channel holds it inside the
   arm that sends, where it does not look at shutdown_rx. *)
subUnchanged == <<collectorVars, watcherVars>>

SubConnect ==
  /\ pc["sub"] = "connecting"
  /\ executor = "up"
  /\ Goto("sub", "running")
  /\ UNCHANGED <<signal, queue, produced, subUnchanged, executor, ghost>>

(* A chain head subscription that cannot be opened is given up with a
   Termination; a historical one that cannot learn the last block, or learns
   that its range is beyond it, just ends. *)
SubConnectFails ==
  /\ pc["sub"] = "connecting"
  /\ \/ RequestFails /\ UNCHANGED ghost
     \/ /\ Source = "historical"
        /\ "bounds" \in Faults
        /\ executor = "up"
        /\ Note("bounds")
        /\ UNCHANGED executor
  /\ Goto("sub", IF Source = "head" THEN "giving_up" ELSE "done")
  /\ UNCHANGED <<signal, queue, produced, subUnchanged>>

(* The next block arrives; the historical source fetches it by request. *)
SubReceive ==
  /\ pc["sub"] = "running"
  /\ produced < LastBlock
  /\ Source = "historical" => executor = "up"
  /\ produced' = produced + 1
  /\ Goto("sub", "sending")
  /\ UNCHANGED <<signal, queue, subUnchanged, executor, ghost>>

(* A wrong subscription that does not wait for room in the channel. *)
SubSendUnbounded ==
  /\ pc["sub"] = "sending"
  /\ queue' = Append(queue, produced)
  /\ Goto("sub", IF Source = "head" THEN "running" ELSE "checking")
  /\ UNCHANGED <<signal, produced, subUnchanged, executor, ghost>>

(* The channel's receiver lives as long as the collector. *)
SubSend ==
  /\ pc["sub"] = "sending"
  /\ \/ /\ ~Gone("collector")
        /\ Len(queue) < QueueSize
        /\ queue' = Append(queue, produced)
        /\ Goto("sub", IF Source = "head" THEN "running" ELSE "checking")
     \/ /\ Gone("collector")
        /\ Goto("sub", "done")
        /\ UNCHANGED queue
  /\ UNCHANGED <<signal, produced, subUnchanged, executor, ghost>>

(* The historical source looks at shutdown_rx between blocks, and ends with a
   Termination after the last one. *)
SubCheckShutdown ==
  /\ pc["sub"] = "checking"
  /\ Goto("sub", IF "sub" \in signal THEN "done"
                 ELSE IF produced = LastBlock THEN "terminating" ELSE "running")
  /\ signal' = signal \ {"sub"}
  /\ UNCHANGED <<queue, produced, subUnchanged, executor, ghost>>

SubOnShutdown ==
  /\ Source = "head"
  /\ pc["sub"] = "running"
  /\ "sub" \in signal
  /\ Goto("sub", "terminating")
  /\ signal' = signal \ {"sub"}
  /\ UNCHANGED <<queue, produced, subUnchanged, executor, ghost>>

(* 120 seconds without a block. *)
SubStalls ==
  /\ Source = "head"
  /\ "stall" \in Faults
  /\ pc["sub"] = "running"
  /\ Goto("sub", "terminating")
  /\ UNCHANGED <<signal, queue, produced, subUnchanged, executor, ghost>>

(* The stream of heads yields an error or ends. *)
SubStreamEnds ==
  /\ Source = "head"
  /\ "stream" \in Faults
  /\ pc["sub"] = "running"
  /\ Goto("sub", "giving_up")
  /\ UNCHANGED <<signal, queue, produced, subUnchanged, executor, ghost>>

(* A historical block cannot be fetched: shutdown without a Termination. *)
SubFetchFails ==
  /\ Source = "historical"
  /\ pc["sub"] = "running"
  /\ produced < LastBlock
  /\ RequestFails
  /\ Goto("sub", "done")
  /\ Broadcast
  /\ UNCHANGED <<queue, produced, subUnchanged>>

(* Termination is sent through the bulk lane, behind the blocks. *)
SubSendTermination ==
  /\ pc["sub"] \in {"terminating", "giving_up"}
  /\ \/ /\ ~Gone("collector")
        /\ Len(queue) < QueueSize
        /\ queue' = Append(queue, Termination)
     \/ Gone("collector") /\ UNCHANGED queue
  /\ IF pc["sub"] = "giving_up" THEN Broadcast ELSE UNCHANGED <<signal, ghost>>
  /\ Goto("sub", "done")
  /\ UNCHANGED <<produced, subUnchanged, executor>>

Sub == \/ Start("sub") \/ SubConnect \/ SubConnectFails \/ SubReceive \/ SubSend
       \/ SubCheckShutdown \/ SubOnShutdown \/ SubFetchFails \/ SubSendTermination
-----------------------------------------------------------------------------
(* The collector, run_with_consumer_channel. *)

(* Termination goes to the priority lane of every open channel; the return that
   follows drops the collector: the senders, which closes both lanes, and the
   queue. *)
terminate(reason) ==
  /\ prio' = [w \in Watchers |->
                IF w \in Range(Fed) /\ ~Gone(w) THEN reason ELSE prio[w]]
  /\ Goto("collector", "done")
  /\ queue' = <<>>
  /\ incoming' = 0
  /\ todo' = <<>>
  /\ UNCHANGED <<current, bulk, handled>>

collectorTakes(b) ==
  /\ pc["collector"] = "running"
  /\ queue # <<>>
  /\ Head(queue) = b

(* A wrong collector that ends without calling for a shutdown. *)
CollectorTerminatedSilently ==
  /\ collectorTakes(Termination)
  /\ terminate("Normal")
  /\ UNCHANGED <<signal, ghost, produced, executor>>

(* A Termination of the subscription. *)
CollectorTerminated ==
  /\ collectorTakes(Termination)
  /\ terminate("Normal")
  /\ Broadcast
  /\ UNCHANGED <<produced, executor>>

CollectorOnShutdown ==
  /\ pc["collector"] = "running"
  /\ "collector" \in signal
  /\ terminate("Normal")
  /\ signal' = signal \ {"collector"}
  /\ UNCHANGED <<produced, executor, ghost>>

(* A new block: update_state() is about to tell the watchers about the block
   before it. *)
CollectorNewHead ==
  \E b \in 1..LastBlock :
    /\ collectorTakes(b)
    /\ executor = "up"
    /\ Goto("collector", "updating")
    /\ queue' = Tail(queue)
    /\ incoming' = b
    /\ todo' = Fed
    /\ UNCHANGED <<signal, produced, current, watcherVars, executor, ghost>>

(* Requests for the block fail, or its events cannot be decoded. *)
CollectorFails ==
  \E b \in 1..LastBlock :
    /\ collectorTakes(b)
    /\ \/ RequestFails
       \/ "decode" \in Faults /\ executor = "up" /\ UNCHANGED executor
    /\ terminate("Abnormal")
    /\ Note("abnormal")
    /\ UNCHANGED <<signal, produced>>

(* A wrong collector that drops an update when the channel is full. *)
CollectorTrySends ==
  /\ pc["collector"] = "updating"
  /\ todo # <<>>
  /\ LET w == Head(todo)
     IN  bulk' = IF Len(bulk[w]) < Capacity THEN [bulk EXCEPT ![w] = Append(@, current)] ELSE bulk
  /\ todo' = Tail(todo)
  /\ UNCHANGED <<pc, signal, queue, produced, current, incoming, prio, handled, executor, ghost>>

(* `channel.send(NewHead).await?` to the next watcher: waits for room; fails
   when the watcher is gone, which abandons the update with the state as it
   was. *)
CollectorSends ==
  /\ pc["collector"] = "updating"
  /\ todo # <<>>
  /\ LET w == Head(todo)
     IN  \/ /\ ~Gone(w)
            /\ Len(bulk[w]) < Capacity
            /\ bulk' = [bulk EXCEPT ![w] = Append(@, current)]
            /\ todo' = Tail(todo)
            /\ UNCHANGED <<pc, incoming>>
         \/ /\ Gone(w)
            /\ todo' = <<>>
            /\ incoming' = 0
            /\ Goto("collector", "running")
            /\ UNCHANGED bulk
  /\ UNCHANGED <<signal, queue, produced, current, prio, handled, executor, ghost>>

(* All watchers know; the state moves to the new block, and the requests that
   complete its processing succeed or end the collector. *)
CollectorUpdated ==
  /\ pc["collector"] = "updating"
  /\ todo = <<>>
  /\ \/ /\ executor = "up"
        /\ Goto("collector", "running")
        /\ current' = incoming
        /\ incoming' = 0
        /\ UNCHANGED <<queue, todo, watcherVars, executor, ghost>>
     \/ /\ RequestFails
        /\ terminate("Abnormal")
        /\ Note("abnormal")
  /\ UNCHANGED <<signal, produced>>

Collector == \/ Start("collector") \/ CollectorTerminated \/ CollectorOnShutdown \/ CollectorNewHead
             \/ (executor # "up" /\ CollectorFails) \/ CollectorSends \/ CollectorUpdated
-----------------------------------------------------------------------------
(* The watchers. *)
watcherUnchanged == <<queue, produced, collectorVars, executor>>

(* The sender side of a watcher's channel is dropped with its owner. *)
Disconnected(w) ==
  IF w = "tracker" THEN pc["broadcast"] \in {"joining", "done", "panicked"}
                   ELSE Gone("collector")

(* A watcher that ends drops its receiver, and with it what the lanes hold. *)
ends(w) ==
  /\ Goto(w, "done")
  /\ signal' = signal \ {w}
  /\ bulk' = [bulk EXCEPT ![w] = <<>>]
  /\ prio' = [prio EXCEPT ![w] = "none"]
  /\ UNCHANGED handled

takes(w) ==
  /\ bulk[w] # <<>>
  /\ bulk' = [bulk EXCEPT ![w] = Tail(@)]
  /\ handled' = [handled EXCEPT ![w] = Append(@, Head(bulk[w]))]
  /\ UNCHANGED prio

(* The watchers of the relay chain and of one parachain call recv(), which
   reads the bulk lane only. *)
WatcherRecv(w) ==
  /\ w # "broadcast"
  /\ pc[w] = "running"
  /\ takes(w)
  /\ UNCHANGED <<pc, signal, ghost, watcherUnchanged>>

(* A wrong watcher that ends when inject_block() fails. *)
WatcherInjectEnds(w) ==
  /\ "inject" \in Faults
  /\ w \in {"para", "tracker"}
  /\ pc[w] = "running"
  /\ bulk[w] # <<>>
  /\ ends(w)
  /\ UNCHANGED <<ghost, watcherUnchanged>>

(* inject_block() fails: the watcher calls for a shutdown and carries on. *)
WatcherInjectFails(w) ==
  /\ "inject" \in Faults
  /\ w \in {"para", "tracker"}
  /\ pc[w] = "running"
  /\ takes(w)
  /\ Broadcast
  /\ UNCHANGED <<pc, watcherUnchanged>>

WatcherRecvClosed(w) ==
  /\ w # "broadcast"
  /\ pc[w] = "running"
  /\ bulk[w] = <<>>
  /\ Disconnected(w)
  /\ ends(w)
  /\ UNCHANGED <<ghost, watcherUnchanged>>

WatcherOnShutdown(w) ==
  /\ pc[w] \in {"running", "polled"}
  /\ w \in signal
  /\ \/ w # "broadcast" /\ ends(w)
     \/ /\ w = "broadcast"
        /\ Goto(w, "joining")
        /\ signal' = signal \ {w}
        /\ UNCHANGED watcherVars
  /\ UNCHANGED <<ghost, watcherUnchanged>>

(* The broadcast watcher polls the channel as a stream: first the priority lane,
   which ends the stream when it is closed and empty, then the bulk lane. *)
BroadcastTerminated ==
  /\ pc["broadcast"] = "running"
  /\ \/ prio["broadcast"] # "none"
     \/ Disconnected("broadcast")
  /\ IF prio["broadcast"] = "Abnormal" THEN Broadcast ELSE UNCHANGED <<signal, ghost>>
  /\ prio' = [prio EXCEPT !["broadcast"] = "none"]
  /\ Goto("broadcast", "joining")
  /\ UNCHANGED <<bulk, handled, watcherUnchanged>>

BroadcastPolls ==
  /\ pc["broadcast"] = "running"
  /\ prio["broadcast"] = "none"
  /\ ~Disconnected("broadcast")
  /\ Goto("broadcast", "polled")
  /\ UNCHANGED <<signal, ghost, watcherVars, watcherUnchanged>>

BroadcastTakes ==
  /\ pc["broadcast"] = "polled"
  /\ takes("broadcast")
  /\ pc' = [pc EXCEPT !["broadcast"] = "forwarding",
                      !["tracker"] = IF @ = "unspawned" THEN "spawned" ELSE @]
  /\ UNCHANGED <<signal, ghost, watcherUnchanged>>

(* The bulk lane is found closed and empty: the stream ends, although a
   Termination may have arrived in the priority lane since it was polled. *)
BroadcastClosed ==
  /\ pc["broadcast"] = "polled"
  /\ bulk["broadcast"] = <<>>
  /\ Disconnected("broadcast")
  /\ Goto("broadcast", "joining")
  /\ UNCHANGED <<signal, ghost, watcherVars, watcherUnchanged>>

(* Both lanes were empty; the task was woken by a priority message. *)
BroadcastWoken ==
  /\ pc["broadcast"] = "polled"
  /\ prio["broadcast"] # "none"
  /\ Goto("broadcast", "running")
  /\ UNCHANGED <<signal, ghost, watcherVars, watcherUnchanged>>

(* `to_tracker.send(..).await.unwrap()` *)
BroadcastForwards ==
  /\ pc["broadcast"] = "forwarding"
  /\ \/ /\ ~Gone("tracker")
        /\ Len(bulk["tracker"]) < Capacity
        /\ bulk' = [bulk EXCEPT !["tracker"] = Append(@, Last(handled["broadcast"]))]
        /\ Goto("broadcast", "running")
     \/ /\ Gone("tracker")
        /\ Goto("broadcast", "panicked")
        /\ UNCHANGED bulk
  /\ UNCHANGED <<signal, prio, handled, ghost, watcherUnchanged>>

BroadcastJoins ==
  /\ pc["broadcast"] = "joining"
  /\ pc["tracker"] \in {"unspawned", "done", "panicked"}
  /\ ends("broadcast")
  /\ UNCHANGED <<ghost, watcherUnchanged>>

Watcher(w) ==
  \/ Start(w) \/ WatcherRecv(w) \/ WatcherRecvClosed(w) \/ WatcherOnShutdown(w)
  \/ /\ w = "broadcast"
     /\ \/ BroadcastTerminated \/ BroadcastPolls \/ BroadcastTakes \/ BroadcastClosed
        \/ BroadcastWoken \/ BroadcastForwards \/ BroadcastJoins
-----------------------------------------------------------------------------
(* init::on_shutdown *)
OnShutdown ==
  /\ pc["on_shutdown"] = "running"
  /\ "on_shutdown" \in signal
  /\ Goto("on_shutdown", "done")
  /\ signal' = signal \ {"on_shutdown"}
  /\ UNCHANGED <<ghost, queue, produced, collectorVars, watcherVars, executor>>

CtrlC ==
  /\ "ctrl_c" \in Faults
  /\ pc["on_shutdown"] = "running"
  /\ Goto("on_shutdown", "done")
  /\ Broadcast
  /\ UNCHANGED <<queue, produced, collectorVars, watcherVars, executor>>

(* main() returns: try_join_all has seen every task end, or one panic. *)
Ended == \/ \A t \in Joined : pc[t] = "done"
         \/ \E t \in Joined : pc[t] = "panicked"

Next ==
  /\ ~Ended
  /\ UNCHANGED options
  /\ \/ BackendAnnounces
     \/ Sub \/ SubStalls \/ SubStreamEnds
     \/ Collector \/ CollectorFails
     \/ \E w \in Watchers : Watcher(w) \/ WatcherInjectFails(w)
     \/ Start("on_shutdown") \/ OnShutdown
     \/ CtrlC

(* Every task that can run does, the arms of a select! included; what the
   environment does (faults, Ctrl-C) may never happen. *)
Step(A) == ~Ended /\ A /\ UNCHANGED options

Fairness ==
  /\ WF_vars(Step(BackendAnnounces))
  /\ WF_vars(Step(Sub))
  /\ WF_vars(Step(Collector))
  /\ \A w \in Watchers : WF_vars(Step(Watcher(w)))
  /\ WF_vars(Step(Start("on_shutdown") \/ OnShutdown))

Spec == Init /\ [][Next]_vars /\ Fairness
-----------------------------------------------------------------------------
TypeOK ==
  /\ options \in CommandLines
  /\ pc \in [Tasks -> {"unspawned", "spawned", "connecting", "running", "sending",
                       "checking", "terminating", "giving_up", "updating",
                       "polled", "forwarding", "joining", "done", "panicked"}]
  /\ signal \subseteq Tasks
  /\ queue \in Seq(0..LastBlock) /\ Len(queue) <= QueueSize
  /\ produced \in 0..LastBlock
  /\ current \in 0..LastBlock /\ incoming \in 0..LastBlock
  /\ todo \in Seq(Range(Fed))
  /\ bulk \in [Watchers -> Seq(0..LastBlock)]
  /\ \A w \in Watchers : Len(bulk[w]) <= Capacity
  /\ handled \in [Watchers -> Seq(0..LastBlock)]
  /\ prio \in [Watchers -> {"none", "Normal", "Abnormal"}]
  /\ executor \in {"up", "failing", "down"}
  /\ ghost \subseteq {"shutdown", "unheard", "abnormal", "bounds"}

(* As long as nobody called for a shutdown, a watcher is told of every block
   once and in order, with nothing lost between the collector and it. *)
DeliveredInOrder ==
  "shutdown" \notin ghost =>
    \A w \in Watchers : \A i \in 1..Len(handled[w]) : handled[w][i] = i - 1

(* A shutdown ends the program, whatever its tasks are waiting for, and so does a
   backend that failed ("closing the application"), if all tasks had subscribed
   to the broadcast by then. *)
ShutdownStops ==
  ("shutdown" \in ghost \/ executor # "up") ~> (Ended \/ "unheard" \in ghost)

(* When the subscription is over, so is the program, unless the shutdown came too
   early or never: nobody is told that the collector failed, or that the range of
   a historical run was refused. *)
SubscriptionEndStops ==
  (pc["sub"] = "done") ~> (Ended \/ ghost \cap {"unheard", "abnormal", "bounds"} # {})

(* A collector that terminates abnormally makes its watchers shut the program
   down. *)
AbnormalStops == ("abnormal" \in ghost) ~> Ended

(* The result of forwarding a block to a tracker is unwrapped.  The unwrap panics
   only when a shutdown has been called for: a tracker never ends before that. *)
PanicsOnlyInShutdown ==
  (\E t \in Tasks : pc[t] = "panicked") => "shutdown" \in ghost

(* A historical run that ends of itself has traced the blocks between the two
   it was given. *)
HistoricalComplete ==
  Ended /\ Source = "historical" /\ executor = "up" /\ ghost \subseteq {"shutdown", "unheard"} =>
    1..LastBlock - 1 \subseteq Range(handled["para"])

=============================================================================
