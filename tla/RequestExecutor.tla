--------------------------- MODULE RequestExecutor ---------------------------
(***************************************************************************)
(* RequestExecutor (essentials/src/api/executor.rs): for every node one    *)
(* backend task that takes requests from a bounded queue, one at a time,   *)
(* and retries them (Retry, essentials/src/utils.rs); the frontends are    *)
(* the clones of the executor that the tasks of the program hold.          *)
(*                                                                         *)
(* A node answers a request, fails it for a reason worth a retry (Io, Rpc) *)
(* or fails it for another; delays between retries are left out.           *)
(***************************************************************************)
EXTENDS Integers, Sequences, FiniteSets

CONSTANTS Nodes,      \* the urls the executor was built for
          Urls,       \* the urls requests name
          Frontends,  \* the tasks with a clone of the executor
          Requests,   \* the requests they make
          QueueSize,  \* MAX_MSG_QUEUE_SIZE
          MaxCount    \* RetryOptions::max_count

VARIABLES backend,   \* the backend task of every node
          to_backend,  \* its queue
          frontend,  \* what every task is doing
          shutdown   \* the nodes whose failure has been broadcast

vars == <<backend, to_backend, frontend, shutdown>>
-----------------------------------------------------------------------------
(* The response the backend makes of a request. *)
ResponseOf ==
  [GetBlockTimestamp |-> "Timestamp", GetHead |-> "MaybeHead", GetBlockNumber |-> "BlockNumber",
   GetBlockHash |-> "MaybeBlockHash", GetChainName |-> "ChainName", GetEvents |-> "Events",
   GetCandidateEvents |-> "CandidateEvents", GetDisputes |-> "Disputes",
   ExtractParaInherent |-> "ParaInherentData", GetClaimQueue |-> "ClaimQueue",
   GetOccupiedCores |-> "OccupiedCores", GetBackingGroups |-> "BackingGroups",
   GetSessionIndex |-> "SessionIndex", GetSessionAccountKeys |-> "SessionAccountKeys",
   GetSessionQueuedKeys |-> "SessionQueuedKeys", GetSessionIndexNow |-> "SessionIndex",
   GetInboundOutBoundHrmpChannels |-> "InboundOutBoundHrmpChannels",
   GetBestBlockSubscription |-> "ChainSubscription", GetFinalizedBlockSubscription |-> "ChainSubscription",
   GetBabeRandomness |-> "BabeRandomness", GetBabeAuthorithies |-> "BabeAuthorithies",
   GetBabeCurrentSlot |-> "BabeCurrentSlot", GetBabeKeyOwner |-> "BabeKeyOwner"]

(* The response each method of the frontend takes for its request. *)
Expected ==
  [GetBlockTimestamp |-> "Timestamp", GetHead |-> "MaybeHead", GetBlockNumber |-> "BlockNumber",
   GetBlockHash |-> "MaybeBlockHash", GetChainName |-> "ChainName", GetEvents |-> "Events",
   GetCandidateEvents |-> "CandidateEvents", GetDisputes |-> "Disputes",
   ExtractParaInherent |-> "ParaInherentData", GetClaimQueue |-> "ClaimQueue",
   GetOccupiedCores |-> "OccupiedCores", GetBackingGroups |-> "BackingGroups",
   GetSessionIndex |-> "SessionIndex", GetSessionIndexNow |-> "SessionIndex",
   GetSessionAccountKeys |-> "SessionAccountKeys", GetSessionQueuedKeys |-> "SessionQueuedKeys",
   GetInboundOutBoundHrmpChannels |-> "InboundOutBoundHrmpChannels",
   GetBestBlockSubscription |-> "ChainSubscription", GetFinalizedBlockSubscription |-> "ChainSubscription",
   GetBabeRandomness |-> "BabeRandomness", GetBabeAuthorithies |-> "BabeAuthorithies",
   GetBabeCurrentSlot |-> "BabeCurrentSlot", GetBabeKeyOwner |-> "BabeKeyOwner"]
-----------------------------------------------------------------------------
(* Requests are those of the code. *)
ExecutorConstants == MaxCount \in Nat /\ QueueSize \in Nat /\ Requests \subseteq DOMAIN Expected

Close == [type |-> "Close"]
Rpc(c, r) == [type |-> "Rpc", from |-> c, request |-> r]

(* `count` is Retry's; `tries` counts the attempts at the current request. *)
Running == [status |-> "running", serving |-> Close, count |-> 0, tries |-> 0]
Ended(status, b) == [b EXCEPT !.status = status, !.serving = Close]

(* `todo`: the backends close() has still to tell; `late`: the request was queued
   behind a Close; `outcome`: how the last call ended. *)
Idle == [status |-> "idle", url |-> "", request |-> "", late |-> FALSE, outcome |-> "", todo |-> {}]
Returned(c, outcome) == [frontend EXCEPT ![c].status = "idle", ![c].outcome = outcome]

build ==
  /\ backend = [n \in Nodes |-> Running]
  /\ to_backend = [n \in Nodes |-> <<>>]
  /\ frontend = [c \in Frontends |-> Idle]
  /\ shutdown = {}

InQueue(n) == {to_backend[n][i] : i \in DOMAIN to_backend[n]}

(* wrap_backend_call!, up to the send. *)
call(c, url, r) ==
  /\ frontend[c].status = "idle"
  /\ frontend' = [frontend EXCEPT ![c] = IF url \in Nodes
                    THEN [Idle EXCEPT !.status = "sending", !.url = url, !.request = r]
                    ELSE [Idle EXCEPT !.url = url, !.request = r, !.outcome = "ClientNotFound"]]
  /\ UNCHANGED <<backend, to_backend, shutdown>>

send(c) ==
  LET n == frontend[c].url IN
  /\ frontend[c].status = "sending" /\ backend[n].status = "running" /\ Len(to_backend[n]) < QueueSize
  /\ to_backend' = [to_backend EXCEPT ![n] = Append(@, Rpc(c, frontend[c].request))]
  /\ frontend' = [frontend EXCEPT ![c].status = "waiting", ![c].late = Close \in InQueue(n)]
  /\ UNCHANGED <<backend, shutdown>>

send_fails(c) ==
  /\ frontend[c].status = "sending" /\ backend[frontend[c].url].status # "running"
  /\ frontend' = Returned(c, "PrioritySendError")
  /\ UNCHANGED <<backend, to_backend, shutdown>>

(* The reply channel is dropped with the request it came in. *)
recv_fails(c) ==
  /\ frontend[c].status = "waiting" /\ backend[frontend[c].url].status # "running"
  /\ frontend' = Returned(c, "OneshotRecvError")
  /\ UNCHANGED <<backend, to_backend, shutdown>>

(* close(): errors of the send are ignored. *)
close(c) ==
  /\ frontend[c].status = "idle"
  /\ frontend' = [frontend EXCEPT ![c] = [Idle EXCEPT !.status = "closing", !.todo = Nodes]]
  /\ UNCHANGED <<backend, to_backend, shutdown>>

(* A wrong close() that uses the priority lane. *)
close_node_first(c, n) ==
  /\ frontend[c].status = "closing" /\ n \in frontend[c].todo
  /\ to_backend' = [to_backend EXCEPT ![n] = IF backend[n].status = "running" THEN <<Close>> \o @ ELSE @]
  /\ frontend' = [frontend EXCEPT ![c].todo = @ \ {n}]
  /\ UNCHANGED <<backend, shutdown>>

close_node(c, n) ==
  /\ frontend[c].status = "closing" /\ n \in frontend[c].todo
  /\ \/ backend[n].status = "running" /\ Len(to_backend[n]) < QueueSize
        /\ to_backend' = [to_backend EXCEPT ![n] = Append(@, Close)]
     \/ backend[n].status # "running" /\ UNCHANGED to_backend
  /\ frontend' = [frontend EXCEPT ![c].todo = @ \ {n}]
  /\ UNCHANGED <<backend, shutdown>>

closed(c) ==
  /\ frontend[c].status = "closing" /\ frontend[c].todo = {}
  /\ frontend' = [frontend EXCEPT ![c] = Idle]
  /\ UNCHANGED <<backend, to_backend, shutdown>>

(* A task ends, or its future is dropped, and its clone goes with it. *)
drop(c) ==
  /\ frontend[c].status # "gone"
  /\ frontend' = [frontend EXCEPT ![c] = [Idle EXCEPT !.status = "gone"]]
  /\ UNCHANGED <<backend, to_backend, shutdown>>
-----------------------------------------------------------------------------
(* run() returns: the queue and the replies in it are dropped. *)
Ends(n, status) ==
  /\ backend' = [backend EXCEPT ![n] = Ended(status, @)]
  /\ to_backend' = [to_backend EXCEPT ![n] = <<>>]

Receiving(n) == backend[n].status = "running" /\ backend[n].serving = Close

receive(n) ==
  /\ Receiving(n) /\ to_backend[n] # <<>>
  /\ LET m == Head(to_backend[n]) IN
     IF m = Close THEN Ends(n, "closed")
     ELSE /\ backend' = [backend EXCEPT ![n] = [Running EXCEPT !.serving = m]]
          /\ to_backend' = [to_backend EXCEPT ![n] = Tail(@)]
  /\ UNCHANGED <<frontend, shutdown>>

receive_fails(n) ==
  /\ Receiving(n) /\ to_backend[n] = <<>> /\ \A c \in Frontends : frontend[c].status = "gone"
  /\ Ends(n, "orphaned")
  /\ UNCHANGED <<frontend, shutdown>>

Serving(n) == backend[n].status = "running" /\ backend[n].serving # Close

(* The reply goes to the call, or nowhere when its task is gone. *)
answer(n) ==
  LET m == backend[n].serving  response == ResponseOf[m.request] IN
  /\ Serving(n)
  /\ backend' = [backend EXCEPT ![n] = Running]
  /\ frontend' = IF frontend[m.from].status = "waiting"
                   THEN Returned(m.from, IF response = Expected[m.request] THEN response ELSE "UnexpectedResponse")
                   ELSE frontend
  /\ UNCHANGED <<to_backend, shutdown>>

(* Retry::sleep: one more attempt, or the end with Timeout. *)
retriable_error(n) ==
  /\ Serving(n)
  /\ LET again == [backend[n] EXCEPT !.count = @ + 1, !.tries = @ + 1] IN
     IF again.count > MaxCount
       THEN /\ backend' = [backend EXCEPT ![n] = Ended("timeout", again)]
            /\ to_backend' = [to_backend EXCEPT ![n] = <<>>]
       ELSE backend' = [backend EXCEPT ![n] = again] /\ UNCHANGED to_backend
  /\ UNCHANGED <<frontend, shutdown>>

other_error(n) ==
  /\ Serving(n)
  /\ Ends(n, "error")
  /\ UNCHANGED <<frontend, shutdown>>

(* A wrong broadcast that takes a timeout for the end of the requests. *)
broadcast_of_errors(n) ==
  /\ backend[n].status = "error" /\ n \notin shutdown
  /\ shutdown' = shutdown \cup {n}
  /\ UNCHANGED <<backend, to_backend, frontend>>

(* "Request Executor Backend failed to run, closing the application" *)
broadcast(n) ==
  /\ backend[n].status \in {"timeout", "error", "orphaned"} /\ n \notin shutdown
  /\ shutdown' = shutdown \cup {n}
  /\ UNCHANGED <<backend, to_backend, frontend>>

Next ==
  \/ \E c \in Frontends :
       \/ \E url \in Urls, r \in Requests : call(c, url, r)
       \/ send(c) \/ send_fails(c) \/ recv_fails(c)
       \/ close(c) \/ closed(c) \/ drop(c)
       \/ \E n \in Nodes : close_node(c, n)
  \/ \E n \in Nodes :
       receive(n) \/ receive_fails(n) \/ answer(n) \/ retriable_error(n) \/ other_error(n) \/ broadcast(n)

(* The backends run, nodes answer or fail what they are asked, and a queue gives
   room to the senders in their order. *)
Fairness ==
  /\ \A n \in Nodes : WF_vars(receive(n)) /\ WF_vars(answer(n) \/ retriable_error(n) \/ other_error(n))
                      /\ WF_vars(broadcast(n))
  /\ \A c \in Frontends : SF_vars(send(c)) /\ WF_vars(send_fails(c)) /\ WF_vars(recv_fails(c))

Spec == build /\ [][Next]_vars /\ Fairness
-----------------------------------------------------------------------------
TypeOK ==
  /\ \A n \in Nodes :
       /\ backend[n].status \in {"running", "closed", "timeout", "error", "orphaned"}
       /\ backend[n].count \in 0 .. MaxCount + 1
       /\ Len(to_backend[n]) <= QueueSize
  /\ shutdown \subseteq Nodes

(* A call fails only for a cause of its own node: a backend that was closed
   before the call was queued, or that ended because a node refused a request
   or left one unanswered max_count + 1 times.  Requests queued before close()
   are answered, and no call ends with UnexpectedResponse: backend and frontend
   agree on the response of every request. *)
FailuresHaveCauses ==
  /\ \A r \in DOMAIN Expected : ResponseOf[r] = Expected[r]
  /\ \A c \in Frontends :
       LET f == frontend[c] IN
       /\ f.outcome # "UnexpectedResponse"
       /\ f.outcome = "PrioritySendError" => backend[f.url].status # "running"
       /\ f.outcome = "OneshotRecvError" =>
            \/ backend[f.url].status \in {"timeout", "error"}
            \/ backend[f.url].status = "closed" /\ f.late
  /\ \A n \in Nodes : backend[n].status = "timeout" => backend[n].tries = MaxCount + 1

(* Every call ends, whatever happens to the other requests of its node. *)
CallsEnd == \A c \in Frontends : (frontend[c].status \in {"sending", "waiting"}) ~> (frontend[c].status \notin {"sending", "waiting"})

(* A backend that fails takes the program down with it. *)
FailureIsFatal == \A n \in Nodes : (backend[n].status \in {"timeout", "error", "orphaned"}) ~> (n \in shutdown)
=============================================================================
