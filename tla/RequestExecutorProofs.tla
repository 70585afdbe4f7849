----------------------- MODULE RequestExecutorProofs -----------------------
(***************************************************************************)
(* Proofs about RequestExecutor, for any nodes, frontends and queues and   *)
(* any number of retries.  FailuresHaveCauses is not inductive: that a     *)
(* call fails only for a cause of its own node needs to be known while it  *)
(* still waits.  IInv says where the request of a waiting call is: with    *)
(* the backend or in its queue ahead of any Close, unless it was queued    *)
(* behind one.  Fitting is what TypeOK needs besides.                      *)
(***************************************************************************)
EXTENDS RequestExecutor, TLAPS

RpcMessage == [type : {"Rpc"}, from : Frontends, request : Requests]
Message == RpcMessage \cup {Close}

Failures == {"PrioritySendError", "OneshotRecvError", "UnexpectedResponse"}
Outcomes == {"", "ClientNotFound"} \cup Failures \cup {Expected[r] : r \in DOMAIN Expected}

BackendState == [status : {"running", "closed", "timeout", "error", "orphaned"},
                 serving : Message, count : Nat, tries : Nat]
FrontendState == [status : {"idle", "sending", "waiting", "closing", "gone"},
                  url : Urls \cup {""}, request : Requests \cup {""}, late : BOOLEAN,
                  outcome : Outcomes, todo : SUBSET Nodes]

TypeInv ==
  /\ backend \in [Nodes -> BackendState]
  /\ to_backend \in [Nodes -> Seq(Message)]
  /\ frontend \in [Frontends -> FrontendState]

(* Retry counts the attempts at the current request. *)
BackendOK(n) ==
  LET b == backend[n] IN
  /\ b.count = b.tries
  /\ b.status = "running" => b.tries <= MaxCount
  /\ b.status = "timeout" => b.tries = MaxCount + 1

(* The request of `c` is served, or is in the queue ahead of any Close. *)
InFlight(c, n) ==
  \/ backend[n].serving # Close /\ backend[n].serving.from = c
  \/ \E i \in DOMAIN to_backend[n] :
       /\ to_backend[n][i] # Close /\ to_backend[n][i].from = c
       /\ \A j \in 1..i : to_backend[n][j] # Close

Excused(f) ==
  \/ backend[f.url].status \in {"timeout", "error"}
  \/ backend[f.url].status = "closed" /\ f.late

CallerOK(c) ==
  LET f == frontend[c] IN
  /\ f.status \in {"sending", "waiting"} => f.url \in Nodes /\ f.request \in Requests
  /\ f.status = "waiting" =>
       IF backend[f.url].status = "running" THEN f.late \/ InFlight(c, f.url) ELSE Excused(f)
  /\ f.outcome # "UnexpectedResponse"
  /\ f.outcome = "PrioritySendError" => f.url \in Nodes /\ backend[f.url].status # "running"
  /\ f.outcome = "OneshotRecvError" =>
       f.url \in Nodes /\ backend[f.url].status # "running" /\ Excused(f)

IInv ==
  /\ TypeInv
  /\ \A n \in Nodes : BackendOK(n)
  /\ \A c \in Frontends : CallerOK(c)
-----------------------------------------------------------------------------
(* Backend and frontend agree on the response of every request, and no response
   is one of the failures. *)
LEMMA Responses ==
  /\ ResponseOf = Expected
  /\ \A r \in DOMAIN Expected : Expected[r] \notin Failures
<1>1. ResponseOf = Expected
  BY Zenon DEF ResponseOf, Expected
<1>2. DOMAIN Expected =
    {"GetBlockTimestamp", "GetHead", "GetBlockNumber", "GetBlockHash", "GetChainName",
     "GetEvents", "GetCandidateEvents", "GetDisputes", "ExtractParaInherent",
     "GetClaimQueue", "GetOccupiedCores", "GetBackingGroups", "GetSessionIndex",
     "GetSessionAccountKeys", "GetSessionQueuedKeys", "GetSessionIndexNow",
     "GetInboundOutBoundHrmpChannels", "GetBestBlockSubscription",
     "GetFinalizedBlockSubscription", "GetBabeRandomness", "GetBabeAuthorithies",
     "GetBabeCurrentSlot", "GetBabeKeyOwner"}
  BY DEF Expected
<1>3. /\ Expected["GetBlockTimestamp"] = "Timestamp"
     /\ Expected["GetHead"] = "MaybeHead"
     /\ Expected["GetBlockNumber"] = "BlockNumber"
     /\ Expected["GetBlockHash"] = "MaybeBlockHash"
     /\ Expected["GetChainName"] = "ChainName"
     /\ Expected["GetEvents"] = "Events"
     /\ Expected["GetCandidateEvents"] = "CandidateEvents"
     /\ Expected["GetDisputes"] = "Disputes"
     /\ Expected["ExtractParaInherent"] = "ParaInherentData"
     /\ Expected["GetClaimQueue"] = "ClaimQueue"
     /\ Expected["GetOccupiedCores"] = "OccupiedCores"
     /\ Expected["GetBackingGroups"] = "BackingGroups"
     /\ Expected["GetSessionIndex"] = "SessionIndex"
     /\ Expected["GetSessionAccountKeys"] = "SessionAccountKeys"
     /\ Expected["GetSessionQueuedKeys"] = "SessionQueuedKeys"
     /\ Expected["GetSessionIndexNow"] = "SessionIndex"
     /\ Expected["GetInboundOutBoundHrmpChannels"] = "InboundOutBoundHrmpChannels"
     /\ Expected["GetBestBlockSubscription"] = "ChainSubscription"
     /\ Expected["GetFinalizedBlockSubscription"] = "ChainSubscription"
     /\ Expected["GetBabeRandomness"] = "BabeRandomness"
     /\ Expected["GetBabeAuthorithies"] = "BabeAuthorithies"
     /\ Expected["GetBabeCurrentSlot"] = "BabeCurrentSlot"
     /\ Expected["GetBabeKeyOwner"] = "BabeKeyOwner"
  BY DEF Expected
<1>4. \A r \in DOMAIN Expected : Expected[r] \notin Failures
  BY <1>2, <1>3 DEF Failures
<1> QED
  BY <1>1, <1>4

(* A request is not a Close. *)
LEMMA RpcIsNotClose ==
  ASSUME NEW m \in RpcMessage
  PROVE  m # Close
BY DEF RpcMessage, Close

(* The start: nobody calls, and the queues are empty. *)
LEMMA InitIInv ==
  ASSUME ExecutorConstants, build
  PROVE  IInv
<1>1. TypeInv
  <2>1. Running \in BackendState
    BY DEF Running, BackendState, Message
  <2>2. Idle \in FrontendState
    BY DEF Idle, FrontendState, Outcomes
  <2> QED
    BY <2>1, <2>2 DEF build, TypeInv
<1>2. ASSUME NEW n \in Nodes
      PROVE  BackendOK(n)
  BY DEF ExecutorConstants, build, BackendOK, Running
<1>3. ASSUME NEW c \in Frontends
      PROVE  CallerOK(c)
  BY DEF build, CallerOK, Idle
<1> QED
  BY <1>1, <1>2, <1>3 DEF IInv
-----------------------------------------------------------------------------
(* Steps that change one caller and no backend. *)
LEMMA CallerSteps ==
  ASSUME IInv, NEW c \in Frontends,
         \/ \E url \in Urls, r \in Requests : call(c, url, r)
         \/ send_fails(c) \/ recv_fails(c) \/ close(c) \/ closed(c) \/ drop(c)
  PROVE  IInv'
<1>1. /\ UNCHANGED <<backend, to_backend>>
      /\ TypeInv /\ frontend[c] \in FrontendState
      /\ CallerOK(c)
  BY DEF call, send_fails, recv_fails, close, closed, drop, IInv, TypeInv
<1>2. PICK f \in FrontendState : frontend' = [frontend EXCEPT ![c] = f]
  <2>1. CASE \E url \in Urls, r \in Requests : call(c, url, r)
    <3>1. PICK url \in Urls, r \in Requests : call(c, url, r)
      BY <2>1
    <3> DEFINE f == IF url \in Nodes
                      THEN [Idle EXCEPT !.status = "sending", !.url = url, !.request = r]
                      ELSE [Idle EXCEPT !.url = url, !.request = r, !.outcome = "ClientNotFound"]
    <3>2. f \in FrontendState
      BY DEF Idle, FrontendState, Outcomes
    <3> QED
      BY <3>1, <3>2 DEF call
  <2>2. CASE send_fails(c) \/ recv_fails(c)
    BY <1>1, <2>2 DEF send_fails, recv_fails, Returned, FrontendState, Outcomes, Failures, TypeInv
  <2>3. CASE close(c) \/ closed(c) \/ drop(c)
    BY <1>1, <2>3 DEF close, closed, drop, Idle, FrontendState, Outcomes, TypeInv
  <2> QED
    BY <2>1, <2>2, <2>3
<1>3. TypeInv' /\ frontend'[c] = f
  BY <1>1, <1>2 DEF TypeInv
<1>4. CallerOK(c)'
  <2>1. CASE \E url \in Urls, r \in Requests : call(c, url, r)
    <3>1. PICK url \in Urls, r \in Requests : call(c, url, r)
      BY <2>1
    <3>2. \/ url \in Nodes /\ f = [Idle EXCEPT !.status = "sending", !.url = url, !.request = r]
          \/ f = [Idle EXCEPT !.url = url, !.request = r, !.outcome = "ClientNotFound"]
      BY <1>1, <1>3, <3>1 DEF call, TypeInv
    <3>3. /\ f.outcome \notin Failures /\ f.status # "waiting"
          /\ f.status = "sending" => f.url \in Nodes /\ f.request \in Requests
      BY <3>2 DEF Idle, Failures
    <3> QED
      BY <1>3, <3>3 DEF CallerOK, Failures
  <2>2. CASE send_fails(c)
    BY <1>1, <2>2 DEF send_fails, Returned, CallerOK, TypeInv, FrontendState
  <2>3. CASE recv_fails(c)
    BY <1>1, <2>3 DEF recv_fails, Returned, CallerOK, Excused, TypeInv, FrontendState
  <2>4. CASE close(c) \/ closed(c) \/ drop(c)
    <3>1. \/ f = [Idle EXCEPT !.status = "closing", !.todo = Nodes]
          \/ f = Idle
          \/ f = [Idle EXCEPT !.status = "gone"]
      BY <1>1, <1>3, <2>4 DEF close, closed, drop, TypeInv
    <3>2. f.outcome = "" /\ f.status \in {"closing", "idle", "gone"}
      <4>1. Idle.outcome = "" /\ Idle.status = "idle"
        BY DEF Idle
      <4>2. /\ [Idle EXCEPT !.status = "closing", !.todo = Nodes].outcome = ""
            /\ [Idle EXCEPT !.status = "closing", !.todo = Nodes].status = "closing"
        BY DEF Idle
      <4>3. /\ [Idle EXCEPT !.status = "gone"].outcome = ""
            /\ [Idle EXCEPT !.status = "gone"].status = "gone"
        BY DEF Idle
      <4> QED
        BY <3>1, <4>1, <4>2, <4>3
    <3> QED
      BY <1>3, <3>2 DEF CallerOK
  <2> QED
    BY <2>1, <2>2, <2>3, <2>4
<1>5. ASSUME NEW d \in Frontends, d # c
      PROVE  CallerOK(d)'
  <2>1. CallerOK(d) /\ frontend'[d] = frontend[d]
    BY <1>1, <1>2, <1>5 DEF IInv, TypeInv
  <2> QED
    BY <1>1, <2>1 DEF CallerOK, InFlight, Excused
<1> QED
  BY <1>1, <1>3, <1>4, <1>5 DEF IInv, BackendOK

(* What joins a queue leaves the requests ahead of it where they are. *)
LEMMA AppendKeeps ==
  ASSUME TypeInv, UNCHANGED backend, NEW n \in Nodes, NEW m \in Message,
         to_backend' = [to_backend EXCEPT ![n] = Append(@, m)],
         NEW d \in Frontends, InFlight(d, n)
  PROVE  InFlight(d, n)'
<1>1. to_backend[n] \in Seq(Message) /\ to_backend'[n] = Append(to_backend[n], m)
  BY DEF TypeInv
<1>2. CASE backend[n].serving # Close /\ backend[n].serving.from = d
  BY <1>2 DEF InFlight
<1>3. CASE \E i \in DOMAIN to_backend[n] :
             /\ to_backend[n][i] # Close /\ to_backend[n][i].from = d
             /\ \A j \in 1..i : to_backend[n][j] # Close
  <2>1. PICK i \in DOMAIN to_backend[n] :
               /\ to_backend[n][i] # Close /\ to_backend[n][i].from = d
               /\ \A j \in 1..i : to_backend[n][j] # Close
    BY <1>3
  <2>2. /\ i \in DOMAIN to_backend'[n]
        /\ \A j \in 1..i : to_backend'[n][j] = to_backend[n][j]
    BY <1>1, <2>1
  <2>3. i \in 1..i
    BY <1>1
  <2> QED
    BY <2>1, <2>2, <2>3 DEF InFlight
<1> QED
  BY <1>2, <1>3 DEF InFlight

(* A request joins the queue: behind a Close, or with none ahead of it. *)
LEMMA SendStep ==
  ASSUME IInv, NEW c \in Frontends, NEW n, n = frontend[c].url,
         NEW m, m = Rpc(c, frontend[c].request), send(c)
  PROVE  IInv'
<1>1. /\ TypeInv /\ n \in Nodes /\ m \in RpcMessage /\ m.from = c
      /\ frontend[c] \in FrontendState /\ CallerOK(c) /\ UNCHANGED backend
      /\ frontend[c].status = "sending" /\ backend[n].status = "running"
  BY DEF send, IInv, TypeInv, CallerOK, Rpc, RpcMessage
<1>2. /\ to_backend' = [to_backend EXCEPT ![n] = Append(@, m)]
      /\ frontend' = [frontend EXCEPT ![c].status = "waiting", ![c].late = Close \in InQueue(n)]
  BY DEF send
<1>3. TypeInv'
  <2>1. PICK late \in BOOLEAN : late = (Close \in InQueue(n))
    <3>1. CASE Close \in InQueue(n)
      BY <3>1, (Close \in InQueue(n)) = TRUE
    <3>2. CASE Close \notin InQueue(n)
      BY <3>2, (Close \in InQueue(n)) = FALSE
    <3> QED
      BY <3>1, <3>2
  <2>2. [frontend[c] EXCEPT !.status = "waiting", !.late = late] \in FrontendState
    BY <1>1 DEF FrontendState
  <2> QED
    BY <1>1, <1>2, <2>1, <2>2 DEF TypeInv, Message
<1>4. ASSUME NEW d \in Frontends, InFlight(d, n)
      PROVE  InFlight(d, n)'
  BY <1>1, <1>2, <1>4, AppendKeeps DEF Message
<1>5. Close \in InQueue(n) \/ InFlight(c, n)'
  <2>1. to_backend[n] \in Seq(Message) /\ to_backend'[n] = Append(to_backend[n], m)
    BY <1>1, <1>2 DEF TypeInv
  <2>2. ASSUME Close \notin InQueue(n)
        PROVE  InFlight(c, n)'
    <3> DEFINE k == Len(to_backend[n]) + 1
    <3>1. k \in DOMAIN to_backend'[n] /\ to_backend'[n][k] = m
      BY <2>1
    <3>2. m # Close
      BY <1>1, RpcIsNotClose
    <3>3. \A j \in 1..k : to_backend'[n][j] # Close
      BY <2>1, <2>2, <3>1, <3>2 DEF InQueue
    <3> QED
      BY <1>1, <3>1, <3>2, <3>3 DEF InFlight
  <2> QED
    BY <2>2
<1>6. CallerOK(c)'
  <2>1. /\ frontend'[c].status = "waiting" /\ frontend'[c].late = (Close \in InQueue(n))
        /\ frontend'[c].url = n /\ frontend'[c].request = frontend[c].request
        /\ frontend'[c].outcome = frontend[c].outcome
    BY <1>1, <1>2 DEF TypeInv, FrontendState
  <2> QED
    BY <1>1, <1>5, <2>1 DEF CallerOK, Excused
<1>7. ASSUME NEW d \in Frontends, d # c
      PROVE  CallerOK(d)'
  <2>1. /\ CallerOK(d) /\ frontend'[d] = frontend[d]
        /\ \A q \in Nodes \ {n} : to_backend'[q] = to_backend[q]
    BY <1>1, <1>2, <1>7 DEF IInv, TypeInv
  <2> QED
    BY <1>1, <1>4, <2>1 DEF CallerOK, InFlight, Excused
<1> QED
  BY <1>1, <1>3, <1>6, <1>7 DEF IInv, BackendOK

(* close() tells one backend: the Close joins the queue behind all requests. *)
LEMMA CloseStep ==
  ASSUME IInv, NEW c \in Frontends, NEW n \in Nodes, close_node(c, n)
  PROVE  IInv'
<1>1. /\ TypeInv /\ frontend[c] \in FrontendState /\ frontend[c].status = "closing"
      /\ frontend' = [frontend EXCEPT ![c].todo = @ \ {n}]
      /\ UNCHANGED backend
      /\ \/ to_backend' = [to_backend EXCEPT ![n] = Append(@, Close)]
         \/ UNCHANGED to_backend
  BY DEF close_node, IInv, TypeInv
<1>2. TypeInv'
  <2>1. [frontend[c] EXCEPT !.todo = @ \ {n}] \in FrontendState
    BY <1>1 DEF FrontendState
  <2>2. frontend' \in [Frontends -> FrontendState]
    BY <1>1, <2>1 DEF TypeInv
  <2>3. to_backend' \in [Nodes -> Seq(Message)]
    <3>1. CASE to_backend' = [to_backend EXCEPT ![n] = Append(@, Close)]
      BY <1>1, <3>1 DEF TypeInv, Message
    <3>2. CASE UNCHANGED to_backend
      BY <1>1, <3>2 DEF TypeInv
    <3> QED
      BY <1>1, <3>1, <3>2
  <2> QED
    BY <1>1, <2>2, <2>3 DEF TypeInv
<1>3. ASSUME NEW d \in Frontends, NEW q \in Nodes, InFlight(d, q)
      PROVE  InFlight(d, q)'
  <2>1. CASE UNCHANGED to_backend \/ q # n
    BY <1>1, <1>3, <2>1 DEF InFlight, TypeInv
  <2>2. CASE to_backend' = [to_backend EXCEPT ![n] = Append(@, Close)] /\ q = n
    BY <1>1, <1>3, <2>2, AppendKeeps DEF Message
  <2> QED
    BY <1>1, <2>1, <2>2
<1>4. ASSUME NEW d \in Frontends
      PROVE  CallerOK(d)'
  <2>1. /\ CallerOK(d)
        /\ frontend'[d].status = frontend[d].status /\ frontend'[d].late = frontend[d].late
        /\ frontend'[d].url = frontend[d].url /\ frontend'[d].request = frontend[d].request
        /\ frontend'[d].outcome = frontend[d].outcome
    BY <1>1 DEF IInv, TypeInv, FrontendState
  <2> QED
    BY <1>1, <1>3, <2>1 DEF CallerOK, Excused
<1> QED
  BY <1>1, <1>2, <1>4 DEF IInv, BackendOK
-----------------------------------------------------------------------------
(* A backend ends, and its queue with it. *)
LEMMA EndStep ==
  ASSUME IInv, NEW n \in Nodes, NEW b \in BackendState, UNCHANGED frontend,
         backend[n].status = "running", b.status # "running",
         backend' = [backend EXCEPT ![n] = b],
         to_backend' = [to_backend EXCEPT ![n] = <<>>],
         b.count = b.tries, b.status = "timeout" => b.tries = MaxCount + 1,
         \A c \in Frontends : frontend[c].status = "waiting" /\ frontend[c].url = n =>
            b.status \in {"timeout", "error"} \/ (b.status = "closed" /\ frontend[c].late)
  PROVE  IInv'
<1>1. TypeInv /\ TypeInv' /\ backend'[n] = b
  BY DEF IInv, TypeInv
<1>2. ASSUME NEW q \in Nodes
      PROVE  BackendOK(q)'
  BY <1>1 DEF IInv, TypeInv, BackendOK
<1>3. ASSUME NEW c \in Frontends
      PROVE  CallerOK(c)'
  <2>1. CallerOK(c)
    BY DEF IInv
  <2>2. CASE frontend[c].url = n
    BY <1>1, <2>1, <2>2 DEF CallerOK, Excused
  <2>3. CASE frontend[c].url \in Nodes \ {n}
    <3>1. /\ backend'[frontend[c].url] = backend[frontend[c].url]
          /\ to_backend'[frontend[c].url] = to_backend[frontend[c].url]
      BY <1>1, <2>3 DEF TypeInv
    <3> QED
      BY <2>1, <2>3, <3>1 DEF CallerOK, Excused, InFlight
  <2>4. CASE frontend[c].url \notin Nodes
    BY <2>1, <2>4 DEF CallerOK
  <2> QED
    BY <2>2, <2>3, <2>4
<1> QED
  BY <1>1, <1>2, <1>3 DEF IInv

(* The backend takes the head of its queue. *)
LEMMA ReceiveStep ==
  ASSUME ExecutorConstants, IInv, NEW n \in Nodes, receive(n)
  PROVE  IInv'
<1> DEFINE m == Head(to_backend[n])
<1>1. /\ TypeInv /\ backend[n] \in BackendState /\ BackendOK(n)
      /\ backend[n].status = "running" /\ backend[n].serving = Close
      /\ to_backend[n] \in Seq(Message) /\ to_backend[n] # <<>> /\ m \in Message
      /\ m = to_backend[n][1] /\ UNCHANGED frontend
  BY DEF receive, Receiving, IInv, TypeInv
<1>2. CASE m = Close
  <2>1. ASSUME NEW c \in Frontends, frontend[c].status = "waiting", frontend[c].url = n
        PROVE  frontend[c].late
    <3>1. frontend[c].late \/ InFlight(c, n)
      BY <1>1, <2>1 DEF IInv, CallerOK
    <3>2. ~InFlight(c, n)
      BY <1>1, <1>2 DEF InFlight
    <3> QED
      BY <3>1, <3>2
  <2> DEFINE b == Ended("closed", backend[n])
  <2>2. /\ b \in BackendState /\ b.status = "closed" /\ b.count = b.tries
        /\ backend' = [backend EXCEPT ![n] = b] /\ to_backend' = [to_backend EXCEPT ![n] = <<>>]
    BY <1>1, <1>2 DEF receive, Ends, Ended, BackendOK, BackendState, Message
  <2> HIDE DEF b
  <2>3. \A c \in Frontends : frontend[c].status = "waiting" /\ frontend[c].url = n =>
          b.status \in {"timeout", "error"} \/ (b.status = "closed" /\ frontend[c].late)
    BY <2>1, <2>2
  <2>4. b.status # "running" /\ b.status # "timeout"
    BY <2>2
  <2> QED
    BY <1>1, <2>2, <2>3, <2>4, EndStep
<1>3. CASE m # Close
  <2> DEFINE b == [Running EXCEPT !.serving = m]
  <2>1. /\ b \in BackendState /\ b.status = "running" /\ b.serving = m /\ b.count = 0 /\ b.tries = 0
    BY <1>1 DEF Running, BackendState
  <2>2. backend' = [backend EXCEPT ![n] = b] /\ to_backend' = [to_backend EXCEPT ![n] = Tail(@)]
    BY <1>3 DEF receive
  <2> HIDE DEF b, m
  <2>3. /\ TypeInv' /\ backend'[n] = b /\ to_backend'[n] = Tail(to_backend[n])
        /\ \A q \in Nodes \ {n} : backend'[q] = backend[q] /\ to_backend'[q] = to_backend[q]
    BY <1>1, <2>1, <2>2 DEF TypeInv
  <2>4. ASSUME NEW q \in Nodes
        PROVE  BackendOK(q)'
    <3>1. CASE q = n
      BY <2>1, <2>3, <3>1 DEF ExecutorConstants, BackendOK
    <3>2. CASE q # n
      BY <2>3, <3>2 DEF IInv, BackendOK
    <3> QED
      BY <3>1, <3>2
  <2>5. ASSUME NEW c \in Frontends, InFlight(c, n)
        PROVE  InFlight(c, n)'
    <3>1. PICK i \in DOMAIN to_backend[n] :
                 /\ to_backend[n][i] # Close /\ to_backend[n][i].from = c
                 /\ \A j \in 1..i : to_backend[n][j] # Close
      BY <1>1, <2>5 DEF InFlight
    <3>2. CASE i = 1
      <4>1. m.from = c
        BY <1>1, <3>1, <3>2
      <4>2. backend'[n].serving = m
        BY <2>1, <2>3
      <4> QED
        BY <1>3, <4>1, <4>2 DEF InFlight
    <3>3. CASE i # 1
      <4>1. /\ i - 1 \in DOMAIN to_backend'[n] /\ i - 1 \in 1..(i - 1)
            /\ \A j \in 1..(i - 1) : to_backend'[n][j] = to_backend[n][j + 1] /\ j + 1 \in 1..i
            /\ to_backend'[n][i - 1] = to_backend[n][i]
        BY <1>1, <2>3, <3>1, <3>3
      <4> QED
        BY <3>1, <4>1 DEF InFlight
    <3> QED
      BY <3>2, <3>3
  <2>6. ASSUME NEW c \in Frontends
        PROVE  CallerOK(c)'
    <3>1. CallerOK(c)
      BY DEF IInv
    <3>2. CASE frontend[c].url = n
      BY <1>1, <2>1, <2>3, <2>5, <3>1, <3>2 DEF CallerOK, Excused
    <3>3. CASE frontend[c].url \in Nodes \ {n}
      BY <1>1, <2>3, <3>1, <3>3 DEF CallerOK, Excused, InFlight
    <3>4. CASE frontend[c].url \notin Nodes
      BY <1>1, <3>1, <3>4 DEF CallerOK
    <3> QED
      BY <3>2, <3>3, <3>4
  <2> QED
    BY <2>3, <2>4, <2>6 DEF IInv
<1> QED
  BY <1>2, <1>3

(* The answer ends the call that waits for it, and no other. *)
LEMMA AnswerStep ==
  ASSUME ExecutorConstants, IInv, NEW n \in Nodes, answer(n)
  PROVE  IInv'
<1> DEFINE m == backend[n].serving
           response == IF ResponseOf[m.request] = Expected[m.request]
                         THEN ResponseOf[m.request] ELSE "UnexpectedResponse"
<1>1. /\ TypeInv /\ backend[n] \in BackendState /\ backend[n].status = "running"
      /\ m \in RpcMessage /\ m.from \in Frontends /\ m.request \in DOMAIN Expected
      /\ UNCHANGED to_backend
  BY DEF answer, Serving, IInv, TypeInv, BackendState, Message, RpcMessage, ExecutorConstants
<1>2. response \in Outcomes \ Failures
  BY <1>1, Responses DEF Outcomes
<1>3. backend' = [backend EXCEPT ![n] = Running] /\ Running \in BackendState
  BY DEF answer, Running, BackendState, Message
<1>4. frontend' = IF frontend[m.from].status = "waiting"
                  THEN [frontend EXCEPT ![m.from].status = "idle", ![m.from].outcome = response]
                  ELSE frontend
  BY DEF answer, Returned
<1> HIDE DEF m, response
<1>5. /\ TypeInv' /\ backend'[n] = Running
      /\ \A q \in Nodes \ {n} : backend'[q] = backend[q]
  <2>1. [frontend[m.from] EXCEPT !.status = "idle", !.outcome = response] \in FrontendState
    <3>1. frontend[m.from] \in FrontendState /\ response \in Outcomes
      BY <1>1, <1>2 DEF TypeInv
    <3> QED
      BY <3>1 DEF FrontendState
  <2>2. frontend' \in [Frontends -> FrontendState]
    BY <1>1, <1>4, <2>1 DEF TypeInv
  <2> QED
    BY <1>1, <1>3, <2>2 DEF TypeInv
<1>6. ASSUME NEW q \in Nodes
      PROVE  BackendOK(q)'
  <2>1. CASE q = n
    BY <1>5, <2>1 DEF ExecutorConstants, BackendOK, Running
  <2>2. CASE q # n
    BY <1>5, <2>2 DEF IInv, BackendOK
  <2> QED
    BY <2>1, <2>2
<1>7. ASSUME NEW c \in Frontends
      PROVE  CallerOK(c)'
  <2>1. CallerOK(c)
    BY DEF IInv
  <2>2. CASE c = m.from /\ frontend[c].status = "waiting"
    <3>1. frontend'[c].status = "idle" /\ frontend'[c].outcome = response
      BY <1>1, <1>4, <2>2 DEF TypeInv, FrontendState
    <3> QED
      BY <1>2, <3>1 DEF CallerOK, Failures
  <2>3. CASE ~(c = m.from /\ frontend[c].status = "waiting")
    <3>1. frontend'[c] = frontend[c]
      BY <1>1, <1>4, <2>3 DEF TypeInv
    <3>2. \A q \in Nodes : frontend[c].status = "waiting" /\ InFlight(c, q) => InFlight(c, q)'
      BY <1>1, <1>5, <2>3 DEF InFlight, m
    <3>3. \A q \in Nodes : backend'[q].status = backend[q].status
      BY <1>1, <1>5 DEF Running
    <3> QED
      BY <2>1, <3>1, <3>2, <3>3 DEF CallerOK, Excused
  <2> QED
    BY <2>2, <2>3
<1> QED
  BY <1>5, <1>6, <1>7 DEF IInv

(* A failed attempt is tried again or, after max_count retries, ends the backend. *)
LEMMA RetryStep ==
  ASSUME ExecutorConstants, IInv, NEW n \in Nodes, retriable_error(n)
  PROVE  IInv'
<1> DEFINE b == [backend[n] EXCEPT !.count = @ + 1, !.tries = @ + 1]
<1>1. /\ TypeInv /\ backend[n] \in BackendState /\ backend[n].status = "running"
      /\ backend[n].count = backend[n].tries /\ backend[n].tries \in 0..MaxCount
      /\ UNCHANGED frontend /\ MaxCount \in Nat
  BY DEF retriable_error, Serving, IInv, TypeInv, BackendOK, BackendState, ExecutorConstants
<1>2. /\ b \in BackendState /\ b.status = "running" /\ b.serving = backend[n].serving
      /\ b.count = backend[n].tries + 1 /\ b.tries = backend[n].tries + 1
  <2>1. backend[n].count \in Nat /\ backend[n].tries \in Nat
    BY <1>1 DEF BackendState
  <2>2. backend[n].count + 1 \in Nat /\ backend[n].tries + 1 \in Nat
    BY <2>1
  <2> QED
    BY <1>1, <2>2 DEF BackendState
<1>3. IF b.count > MaxCount
      THEN /\ backend' = [backend EXCEPT ![n] = Ended("timeout", b)]
           /\ to_backend' = [to_backend EXCEPT ![n] = <<>>]
      ELSE backend' = [backend EXCEPT ![n] = b] /\ UNCHANGED to_backend
  BY DEF retriable_error
<1> HIDE DEF b
<1>4. CASE b.count > MaxCount
  <2> DEFINE e == Ended("timeout", b)
  <2>1. /\ e \in BackendState /\ e.status = "timeout" /\ e.count = e.tries /\ e.tries = MaxCount + 1
    <3>1. b.tries = MaxCount + 1 /\ b.count = MaxCount + 1
      BY <1>1, <1>2, <1>4
    <3> QED
      BY <1>2, <3>1 DEF Ended, BackendState, Message
  <2>2. backend' = [backend EXCEPT ![n] = e] /\ to_backend' = [to_backend EXCEPT ![n] = <<>>]
    BY <1>3, <1>4
  <2> HIDE DEF e
  <2>3. /\ e.status # "running"
        /\ \A c \in Frontends : frontend[c].status = "waiting" /\ frontend[c].url = n =>
             e.status \in {"timeout", "error"} \/ (e.status = "closed" /\ frontend[c].late)
    BY <2>1
  <2> QED
    BY <1>1, <2>1, <2>2, <2>3, EndStep
<1>5. CASE ~(b.count > MaxCount)
  <2>1. /\ TypeInv' /\ UNCHANGED to_backend
        /\ \A q \in Nodes : /\ backend'[q].status = backend[q].status
                            /\ backend'[q].serving = backend[q].serving
        /\ backend'[n] = b /\ \A q \in Nodes \ {n} : backend'[q] = backend[q]
    BY <1>1, <1>2, <1>3, <1>5 DEF TypeInv
  <2>2. ASSUME NEW q \in Nodes
        PROVE  BackendOK(q)'
    <3>1. CASE q = n
      BY <1>1, <1>2, <1>5, <2>1, <3>1 DEF BackendOK
    <3>2. CASE q # n
      BY <2>1, <3>2 DEF IInv, BackendOK
    <3> QED
      BY <3>1, <3>2
  <2>3. ASSUME NEW c \in Frontends
        PROVE  CallerOK(c)'
    BY <1>1, <2>1 DEF IInv, CallerOK, Excused, InFlight
  <2> QED
    BY <2>1, <2>2, <2>3 DEF IInv
<1> QED
  BY <1>4, <1>5

(* Another error, or the end of all frontends, ends the backend. *)
LEMMA FailStep ==
  ASSUME IInv, NEW n \in Nodes, other_error(n) \/ receive_fails(n)
  PROVE  IInv'
<1>1. /\ backend[n] \in BackendState /\ BackendOK(n) /\ UNCHANGED frontend
      /\ backend[n].status = "running"
  BY DEF other_error, receive_fails, Serving, Receiving, IInv, TypeInv
<1>2. PICK status \in {"error", "orphaned"} :
        /\ Ends(n, status)
        /\ status = "error" \/ \A c \in Frontends : frontend[c].status = "gone"
  BY DEF other_error, receive_fails
<1> DEFINE b == Ended(status, backend[n])
<1>3. /\ b \in BackendState /\ b.status = status /\ b.count = b.tries
      /\ backend' = [backend EXCEPT ![n] = b] /\ to_backend' = [to_backend EXCEPT ![n] = <<>>]
  BY <1>1, <1>2 DEF Ends, Ended, BackendState, BackendOK, Message
<1> HIDE DEF b
<1> QED
  BY <1>1, <1>2, <1>3, EndStep
-----------------------------------------------------------------------------
(* Every step keeps the invariant. *)
LEMMA IInvStep ==
  ASSUME ExecutorConstants, IInv, [Next]_vars
  PROVE  IInv'
<1>1. CASE UNCHANGED <<backend, to_backend, frontend>>
  <2>1. TypeInv' /\ \A n \in Nodes : BackendOK(n)'
    BY <1>1 DEF IInv, TypeInv, BackendOK
  <2>2. ASSUME NEW c \in Frontends
        PROVE  CallerOK(c)'
    <3>1. CallerOK(c)
      BY DEF IInv
    <3> QED
      BY <1>1, <3>1 DEF CallerOK, Excused, InFlight
  <2> QED
    BY <2>1, <2>2 DEF IInv
<1>2. ASSUME NEW n \in Nodes, broadcast(n)
      PROVE  IInv'
  BY <1>1, <1>2 DEF broadcast
<1>3. CASE UNCHANGED vars
  BY <1>1, <1>3 DEF vars
<1> QED
  BY <1>2, <1>3, CallerSteps, SendStep, CloseStep, ReceiveStep, AnswerStep, RetryStep, FailStep
     DEF Next

(* A call fails only for a cause of its own node: whatever the other frontends do,
   whichever nodes fail and however often requests are retried, requests queued
   ahead of a close() are answered, a backend gives up after max_count retries and
   not before, and no answer is refused (execute_request, wrap_backend_call!).  No
   fairness is needed for it. *)
THEOREM StepsKeepToCauses == ExecutorConstants => (build /\ [][Next]_vars => []FailuresHaveCauses)
<1> SUFFICES ASSUME ExecutorConstants
             PROVE  build /\ [][Next]_vars => []FailuresHaveCauses
  OBVIOUS
<1>1. ASSUME IInv
      PROVE  FailuresHaveCauses
  <2>1. \A r \in DOMAIN Expected : ResponseOf[r] = Expected[r]
    BY Responses
  <2>2. ASSUME NEW c \in Frontends
        PROVE  LET f == frontend[c] IN
               /\ f.outcome # "UnexpectedResponse"
               /\ f.outcome = "PrioritySendError" => backend[f.url].status # "running"
               /\ f.outcome = "OneshotRecvError" =>
                    \/ backend[f.url].status \in {"timeout", "error"}
                    \/ backend[f.url].status = "closed" /\ f.late
    BY <1>1 DEF IInv, CallerOK, Excused
  <2>3. \A n \in Nodes : backend[n].status = "timeout" => backend[n].tries = MaxCount + 1
    BY <1>1 DEF IInv, BackendOK
  <2> QED
    BY <2>1, <2>2, <2>3 DEF FailuresHaveCauses
<1>2. build => IInv
  BY InitIInv
<1>3. IInv /\ [Next]_vars => IInv'
  BY IInvStep
<1> QED
  BY <1>1, <1>2, <1>3, PTL
-----------------------------------------------------------------------------
(* A queue has no more than there is room for, and retries are counted to one more
   than are made. *)
Fits(n) == Len(to_backend[n]) <= QueueSize /\ backend[n].count <= MaxCount + 1

Fitting == shutdown \subseteq Nodes /\ \A n \in Nodes : Fits(n)

(* A step of a task: one queue may get one request, if there is room. *)
LEMMA CallersFit ==
  ASSUME ExecutorConstants, IInv, Fitting, NEW c \in Frontends,
         \/ \E url \in Urls, r \in Requests : call(c, url, r)
         \/ send(c) \/ send_fails(c) \/ recv_fails(c) \/ close(c) \/ closed(c) \/ drop(c)
         \/ \E n \in Nodes : close_node(c, n)
  PROVE  Fitting'
<1>1. UNCHANGED <<backend, shutdown>>
  BY DEF call, send, send_fails, recv_fails, close, closed, drop, close_node
<1>2. \/ UNCHANGED to_backend
      \/ \E m : \E n \in Nodes : /\ Len(to_backend[n]) < QueueSize
                              /\ to_backend' = [to_backend EXCEPT ![n] = Append(@, m)]
  <2>1. CASE send(c)
    <3>1. frontend[c].url \in Nodes
      BY <2>1 DEF send, IInv, CallerOK
    <3> QED BY <2>1, <3>1 DEF send
  <2>2. ASSUME NEW n \in Nodes, close_node(c, n)
        PROVE  \/ UNCHANGED to_backend
               \/ /\ Len(to_backend[n]) < QueueSize
                  /\ to_backend' = [to_backend EXCEPT ![n] = Append(@, Close)]
    BY <2>2 DEF close_node
  <2>3. CASE \/ \E url \in Urls, r \in Requests : call(c, url, r)
             \/ send_fails(c) \/ recv_fails(c) \/ close(c) \/ closed(c) \/ drop(c)
    BY <2>3 DEF call, send_fails, recv_fails, close, closed, drop
  <2> QED BY <2>1, <2>2, <2>3
<1>3. ASSUME NEW n \in Nodes
      PROVE  Len(to_backend'[n]) <= QueueSize
  <2>1. to_backend \in [Nodes -> Seq(Message)] /\ to_backend[n] \in Seq(Message)
    BY DEF IInv, TypeInv
  <2>2. Len(to_backend[n]) \in Nat /\ Len(to_backend[n]) <= QueueSize /\ QueueSize \in Nat
    BY <2>1 DEF Fitting, Fits, ExecutorConstants
  <2>3. ASSUME NEW m PROVE Len(Append(to_backend[n], m)) = Len(to_backend[n]) + 1
    BY <2>1
  <2>4. \/ to_backend'[n] = to_backend[n]
        \/ Len(to_backend[n]) < QueueSize /\ \E m : to_backend'[n] = Append(to_backend[n], m)
    BY <1>2, <2>1
  <2> QED BY <2>2, <2>3, <2>4
<1> QED BY <1>1, <1>3 DEF Fitting, Fits

(* A step of a backend: it takes from its queue, or ends without it. *)
LEMMA BackendsFit ==
  ASSUME ExecutorConstants, IInv, Fitting, NEW n \in Nodes,
         receive(n) \/ receive_fails(n) \/ answer(n) \/ retriable_error(n) \/ other_error(n)
  PROVE  Fitting'
<1>1. /\ UNCHANGED shutdown /\ backend \in [Nodes -> BackendState] /\ to_backend \in [Nodes -> Seq(Message)]
      /\ backend[n] \in BackendState /\ to_backend[n] \in Seq(Message) /\ MaxCount \in Nat /\ QueueSize \in Nat
      /\ Fits(n)
  BY DEF receive, receive_fails, answer, retriable_error, other_error, IInv, TypeInv, ExecutorConstants, Fitting
<1>2. /\ backend[n].count \in Nat /\ backend[n].count <= MaxCount + 1
      /\ backend[n].status = "running" => backend[n].count <= MaxCount
  BY <1>1 DEF IInv, BackendOK, Fits, BackendState
<1>3. \E b : backend' = [backend EXCEPT ![n] = b] /\ b.count <= MaxCount + 1
  <2>1. Running.count <= MaxCount + 1 /\ \A m : [Running EXCEPT !.serving = m].count <= MaxCount + 1
    <3>1. Running.count = 0 /\ \A m : [Running EXCEPT !.serving = m].count = 0
      BY DEF Running
    <3>2. 0 <= MaxCount + 1
      BY <1>1
    <3> QED BY <3>1, <3>2
  <2>2. \A status : Ended(status, backend[n]).count = backend[n].count
    BY <1>1 DEF Ended, BackendState
  <2>3. CASE receive(n)
    <3>1. CASE Head(to_backend[n]) = Close
      <4>1. backend' = [backend EXCEPT ![n] = Ended("closed", backend[n])]
        BY <1>1, <2>3, <3>1 DEF receive, Ends
      <4> QED BY <1>2, <2>2, <4>1
    <3>2. CASE Head(to_backend[n]) # Close
      <4>1. \E m : backend' = [backend EXCEPT ![n] = [Running EXCEPT !.serving = m]]
        BY <2>3, <3>2 DEF receive
      <4>2. PICK m : backend' = [backend EXCEPT ![n] = [Running EXCEPT !.serving = m]]
        BY <4>1
      <4> DEFINE next == [Running EXCEPT !.serving = m]
      <4>3. backend' = [backend EXCEPT ![n] = next] /\ next.count <= MaxCount + 1
        BY <2>1, <4>2
      <4> HIDE DEF next
      <4> QED BY <4>3
    <3> QED BY <3>1, <3>2
  <2>4. CASE receive_fails(n) \/ other_error(n)
    BY <1>1, <1>2, <2>2, <2>4 DEF receive_fails, other_error, Ends
  <2>5. CASE answer(n)
    <3>1. backend' = [backend EXCEPT ![n] = Running]
      BY <2>5 DEF answer
    <3> QED BY <2>1, <3>1
  <2>6. CASE retriable_error(n)
    <3> DEFINE again == [backend[n] EXCEPT !.count = @ + 1, !.tries = @ + 1]
    <3>1. again.count = backend[n].count + 1
      BY <1>1 DEF BackendState
    <3>2. Ended("timeout", again).count = again.count
      BY <1>1 DEF Ended, BackendState
    <3>3. backend[n].count <= MaxCount
      BY <1>2, <2>6 DEF retriable_error, Serving
    <3>4. again.count <= MaxCount + 1
      BY <1>1, <1>2, <3>1, <3>3
    <3>5. \/ backend' = [backend EXCEPT ![n] = Ended("timeout", again)]
          \/ backend' = [backend EXCEPT ![n] = again]
      BY <2>6 DEF retriable_error
    <3> HIDE DEF again
    <3> QED BY <3>2, <3>4, <3>5
  <2> QED BY <2>3, <2>4, <2>5, <2>6
<1>4. \/ UNCHANGED to_backend
      \/ to_backend' = [to_backend EXCEPT ![n] = <<>>]
      \/ to_backend[n] # <<>> /\ to_backend' = [to_backend EXCEPT ![n] = Tail(@)]
  BY DEF receive, receive_fails, answer, retriable_error, other_error, Ends
<1>5. Len(to_backend'[n]) <= QueueSize
  <2>1. Len(to_backend[n]) \in Nat /\ Len(to_backend[n]) <= QueueSize /\ Len(<<>>) = 0
    BY <1>1 DEF Fits
  <2>2. to_backend[n] # <<>> => Len(Tail(to_backend[n])) = Len(to_backend[n]) - 1
    BY <1>1
  <2>3. \/ to_backend'[n] = to_backend[n] \/ to_backend'[n] = <<>>
        \/ to_backend[n] # <<>> /\ to_backend'[n] = Tail(to_backend[n])
    BY <1>1, <1>4
  <2> QED BY <1>1, <2>1, <2>2, <2>3
<1>6. \A q \in Nodes : Fits(q)'
  BY <1>1, <1>3, <1>4, <1>5 DEF Fits, Fitting
<1> QED BY <1>1, <1>6 DEF Fitting

(* TypeOK: no queue ever holds more than its capacity, a backend counts up to
   max_count + 1, and the nodes whose failure is broadcast are its own (send,
   Retry::sleep, broadcast). *)
THEOREM TypeCorrect == ExecutorConstants => (build /\ [][Next]_vars => []TypeOK)
<1> SUFFICES ASSUME ExecutorConstants
             PROVE  build /\ [][Next]_vars => []TypeOK
  OBVIOUS
<1>1. IInv /\ Fitting => TypeOK
  <2> SUFFICES ASSUME IInv, Fitting, NEW n \in Nodes
               PROVE  /\ backend[n].status \in {"running", "closed", "timeout", "error", "orphaned"}
                      /\ backend[n].count \in 0 .. MaxCount + 1
                      /\ Len(to_backend[n]) <= QueueSize
    BY DEF TypeOK, Fitting
  <2>1. backend[n] \in BackendState
    BY DEF IInv, TypeInv
  <2> QED BY <2>1 DEF Fitting, Fits, BackendState, ExecutorConstants
<1>2. build => IInv /\ Fitting
  BY InitIInv DEF build, Running, Fitting, Fits, ExecutorConstants
<1>3. IInv /\ Fitting /\ [Next]_vars => IInv' /\ Fitting'
  <2> SUFFICES ASSUME IInv, Fitting, [Next]_vars PROVE Fitting'
    BY IInvStep
  <2>1. ASSUME NEW n \in Nodes, broadcast(n) PROVE Fitting'
    BY <2>1 DEF broadcast, Fitting, Fits
  <2>2. CASE UNCHANGED vars
    BY <2>2 DEF vars, Fitting, Fits
  <2> QED BY <2>1, <2>2, CallersFit, BackendsFit DEF Next
<1> QED BY <1>1, <1>2, <1>3, PTL
=============================================================================
