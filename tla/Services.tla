------------------------------ MODULE Services ------------------------------
(***************************************************************************)
(* The parts beside the tracer's main chain of tasks.  ApiService          *)
(* (essentials/src/api/mod.rs) hands out two services: the storage, plain  *)
(* or prefixed, and the executor of requests to the nodes.  The block time *)
(* monitor uses the executor only; the broadcast mode of collector and     *)
(* tracer, the websocket listener, and the way the collector comes by the  *)
(* events of disputes use neither in what is modelled of them.  They share *)
(* nothing, so that a behaviour is about one of them: `service` says which. *)
(***************************************************************************)
EXTENDS StorageApi, DisputeEvents

CONSTANTS Nodes, Urls, Frontends, Requests, MaxCount,  \* of the executor
          Endpoints, Tree, NoBlock, Modes, ChartWidth, MaxUpdates,  \* of the monitor
          Paras, MaxParachainStall, EvictAfter, MaxGap, MaxNumber,  \* of the broadcast
          Capacity, TrackerCapacity,
          WsClients, UpdatesRoom, MaxEvents  \* of the listener

ASSUME BroadcastAssumption ==
  /\ Paras \subseteq Nat
  /\ {MaxParachainStall, EvictAfter, MaxNumber} \subseteq Nat
  /\ {MaxGap, Capacity, TrackerCapacity} \subseteq Nat \ {0}

ASSUME ListenerAssumption == UpdatesRoom \in Nat

VARIABLES backend, to_backend, frontend, shutdown,
          mode, head, updates, watcher, messages, values, observed, display,
          relay, incoming, pending, channel, forwarding, trackers, last_blocks, best,
          reported, since, heard,
          sender, events, to_websocket, server, client, stop

Executor == INSTANCE RequestExecutor
Monitor == INSTANCE BlockTime
Broadcast == INSTANCE ParaBroadcast
Listener == INSTANCE WebSocketUpdates

ASSUME ExecutorAssumption == Executor!ExecutorConstants

ASSUME MonitorAssumption == Monitor!MonitorConstants

executorVars == <<backend, to_backend, frontend, shutdown>>
monitorVars == <<mode, head, updates, watcher, messages, values, observed, display>>
broadcastVars == <<relay, incoming, pending, channel, forwarding, trackers, last_blocks,
                   best, reported, since, heard>>
listenerVars == <<sender, events, to_websocket, server, client, stop>>
servicesVars == <<storageVars, executorVars, monitorVars, broadcastVars, listenerVars, disputesVars>>

(* The start of the monitor and of the disputes varies only where they run. *)
Init ==
  /\ StorageInit /\ Executor!build /\ Monitor!Init /\ Broadcast!Init
  /\ Listener!spawn /\ DisputesInit
  /\ \/ service = "monitor"
     \/ /\ mode = CHOOSE m \in Modes : TRUE
        /\ head = [e \in Endpoints |-> CHOOSE b \in DOMAIN Tree : TRUE]
  /\ service = "disputes" \/ validator_count = CHOOSE n \in ValidatorCounts : TRUE

ServicesNext ==
  \/ /\ service \in {"plain", "prefixed"}
     /\ StorageNext
     /\ UNCHANGED <<executorVars, monitorVars, broadcastVars, disputesVars, listenerVars>>
  \/ /\ service = "executor"
     /\ Executor!Next
     /\ UNCHANGED <<storageVars, monitorVars, broadcastVars, disputesVars, listenerVars>>
  \/ /\ service = "monitor"
     /\ Monitor!Next
     /\ UNCHANGED <<storageVars, executorVars, broadcastVars, disputesVars, listenerVars>>
  \/ /\ service = "broadcast"
     /\ Broadcast!Next
     /\ UNCHANGED <<storageVars, executorVars, monitorVars, disputesVars, listenerVars>>
  \/ /\ service = "disputes"
     /\ DisputesNext
     /\ UNCHANGED <<storageVars, executorVars, monitorVars, broadcastVars, listenerVars>>
  \/ /\ service = "websocket"
     /\ Listener!Next
     /\ UNCHANGED <<storageVars, executorVars, monitorVars, broadcastVars, disputesVars>>

ServicesSpec ==
  Init /\ [][ServicesNext]_servicesVars /\ StorageFairness /\ Executor!Fairness
  /\ Listener!Fairness
-----------------------------------------------------------------------------
ServicesTypeOK ==
  StorageTypeOK /\ Executor!TypeOK /\ Monitor!TypeOK /\ Broadcast!TypeOK
  /\ Listener!TypeOK /\ DisputesTypeOK

(* Every request to the storage or to a node ends: with an answer, an error, or
   the panic of its caller when the storage task is gone. *)
RequestsEnd == CallsReturn /\ Executor!CallsEnd

(* A backend that fails takes the program down (RequestExecutor::build). *)
FailureIsFatal == Executor!FailureIsFatal

(* A call to a node fails only for a cause of that node, calls queued before
   close() are answered, and backend and frontend agree on every response. *)
FailuresHaveCauses == Executor!FailuresHaveCauses

(* No chart and no histogram holds a time that spans more than two neighbouring
   heights. *)
ChartsNeighbours == Monitor!ChartsNeighbours

(* --all: a parachain that the collector does not take for stalled keeps its tracker,
   which hears of every head. *)
ActiveKeepTracker == Broadcast!ActiveKeepTracker

(* --listen: every update sent is with one websocket client, in the channel, or lost
   with the task of a connection that had broken, one per task. *)
UpdatesShared == Listener!UpdatesShared

(* --listen: a shutdown gets through to a collector that waits for room in the
   listener's channel, with clients or without. *)
CollectorStops == Listener!CollectorStops
=============================================================================
