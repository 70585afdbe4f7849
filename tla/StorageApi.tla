----------------------------- MODULE StorageApi -----------------------------
(***************************************************************************)
(* The storage behind ApiService (essentials/src/api/storage.rs): one task *)
(* owns the storage and serves the requests of a bounded queue; callers    *)
(* hold a handle, send a request and, unless it is a replacement, wait for *)
(* the answer.  new_with_storage() starts the task over the plain storage, *)
(* new_with_prefixed_storage() over the prefixed one: `service` says which *)
(* one this is.                                                            *)
(*                                                                         *)
(* The callers are one task that writes (the collector), tasks that read   *)
(* (the watchers) and the HTTP handlers of collector/ws.rs, whose futures  *)
(* are dropped when their client disconnects.                              *)
(***************************************************************************)
EXTENDS PlainStorage, Sequences, Integers

CONSTANTS Prefixes, Slots, Deletable, UsedTypes,  \* of the prefixed storage
          Services,     \* the kinds of storage to start: "plain", "prefixed"
          CandidatePrefixes,  \* CollectorPrefixType::Candidate(_)
          Writer, Readers, Clients,  \* the callers
          QueueSize     \* MAX_MSG_QUEUE_SIZE

(* The callers are different tasks. *)
ASSUME CallersAssumption ==
  Writer \notin Readers \cup Clients /\ Readers \cap Clients = {}

ASSUME QueueAssumption == QueueSize \in Nat

(* Those of the prefixed storage. *)
ASSUME PrefixedAssumption ==
  Slots \subseteq Prefixes \X Keys /\ Deletable \subseteq Slots /\ UsedTypes \subseteq RecordType

VARIABLES service,
          prefixed_records, prefixed_index, prefixes,  \* the prefixed storage
          queue,        \* the channel to the task
          caller,       \* what every caller is doing
          task,         \* "running" or "panicked"
          latest,       \* history: what the writer last stored at an address, while it is there
          left          \* history: an HTTP client left while its handler waited

Prefixed == INSTANCE PrefixedStorage WITH ephemeral_records <- prefixed_index

plainVars == vars
prefixedVars == <<prefixed_records, prefixed_index, prefixes>>
protocol == <<queue, caller, task, latest, left>>
storageVars == <<service, plainVars, prefixedVars, protocol>>

Callers == {Writer} \cup Readers \cup Clients
Request(type, at, entry) == [type |-> type, at |-> at, entry |-> entry]
Ask(type, at) == Request(type, at, NoRecord)

Addresses == IF service = "plain" THEN Keys ELSE Slots
EntriesAt(a) == IF service = "plain" THEN Entries(a) ELSE Prefixed!Entries
DeletableAt(a) == service = "plain" \/ a \in Deletable
-----------------------------------------------------------------------------
(* What the tasks ask.  storage_replace does not wait for an answer. *)
RequestsAt(a) ==
  {Request(t, a, e) : t \in {"Write", "Replace"}, e \in EntriesAt(a)}
    \cup {Ask("Read", a)} \cup {r \in {Ask("Delete", a)} : DeletableAt(a)}
WriterRequests == UNION {RequestsAt(a) : a \in Addresses}
ReaderRequests ==
  {Ask("Read", a) : a \in Addresses} \cup {r \in {Ask("Keys", NoRecord)} : service = "plain"}

health_handler == Ask("Size", NoRecord)
candidates_handler == {Ask("Prefixes", NoRecord)} \cup {Ask("KeysWithPrefix", p) : p \in CandidatePrefixes}
candidate_get_handler == {Ask("ReadAny", k) : k \in Keys}
ClientRequests == {health_handler} \cup candidates_handler \cup candidate_get_handler

(* candidates_handler goes on through the candidate prefixes one by one. *)
RequestsOf(c) ==
  CASE c = Writer -> WriterRequests
    [] c \in Readers -> ReaderRequests
    [] c \in Clients -> {r \in ClientRequests : /\ service = "prefixed"
                                               /\ \/ caller[c].todo = {}
                                                  \/ r.type = "KeysWithPrefix" /\ r.at \in caller[c].todo}

Idle == [status |-> "idle", todo |-> {}]
StoredAt(a) == IF service = "plain" THEN Stored(a) ELSE Prefixed!Stored(a)
RecordAt(a) == IF service = "plain" THEN direct_records[a] ELSE prefixed_records[a]

StorageInit ==
  /\ service \in Services
  /\ new /\ Prefixed!new /\ prefixes = {}
  /\ queue = <<>>
  /\ caller = [c \in Callers |-> Idle]
  /\ task = "running"
  /\ latest = [a \in Keys \cup Slots |-> NoRecord]
  /\ left = FALSE

(* RequestExecutor::storage_*: a caller makes a request and sends it once there
   is room; which one it is matters only then. *)
call(c) ==
  /\ caller[c].status = "idle" /\ RequestsOf(c) # {}
  /\ caller' = [caller EXCEPT ![c].status = "sending"]
  /\ UNCHANGED <<service, plainVars, prefixedVars, queue, task, latest, left>>

Sent(c, r) ==
  /\ caller' = [caller EXCEPT ![c] = [status |-> IF r.type = "Replace" THEN "idle" ELSE "waiting",
                                      todo |-> @.todo \ {r.at}]]
  /\ latest' = IF r.type = "Replace" THEN [latest EXCEPT ![r.at] = r.entry] ELSE latest
  /\ UNCHANGED <<service, plainVars, prefixedVars, task, left>>

(* A wrong version that gives a replacement up when the queue is full. *)
send_or_drop(c) ==
  /\ caller[c].status = "sending" /\ task = "running"
  /\ \E r \in RequestsOf(c) :
       /\ \/ Len(queue) < QueueSize /\ queue' = Append(queue, [from |-> c, request |-> r])
          \/ Len(queue) >= QueueSize /\ r.type = "Replace" /\ UNCHANGED queue
       /\ Sent(c, r)

send(c) ==
  /\ caller[c].status = "sending" /\ task = "running"
  /\ Len(queue) < QueueSize
  /\ \E r \in RequestsOf(c) : queue' = Append(queue, [from |-> c, request |-> r]) /\ Sent(c, r)

(* `expect("Channel closed")`, and `panic!("Storage API error")` for those who wait. *)
panic(c) ==
  /\ caller[c].status \in {"sending", "waiting"} /\ task = "panicked"
  /\ caller' = [caller EXCEPT ![c] = [Idle EXCEPT !.status = "panicked"]]
  /\ UNCHANGED <<service, plainVars, prefixedVars, queue, task, latest, left>>

(* The HTTP client goes and its handler is dropped wherever it waits. *)
leave(c) ==
  /\ caller[c].status \in {"sending", "waiting"}
  /\ caller' = [caller EXCEPT ![c] = [Idle EXCEPT !.status = "gone"]]
  /\ left' = (left \/ caller[c].status = "waiting")
  /\ UNCHANGED <<service, plainVars, prefixedVars, queue, task, latest>>
-----------------------------------------------------------------------------
(* What the storage does for a request, and what it answers. *)
PlainServes(r) ==
  /\ UNCHANGED prefixedVars
  /\ CASE r.type = "Write" /\ ~Stored(r.at) -> insert(r.at, r.entry)
       [] r.type = "Replace" /\ Stored(r.at) -> replace(r.at, r.entry)
       [] r.type = "Delete" /\ Stored(r.at) -> delete(r.at)
       [] OTHER -> UNCHANGED plainVars

PrefixedServes(r) ==
  /\ UNCHANGED plainVars
  /\ prefixes' = IF r.type = "Write" THEN prefixes \cup {r.at[1]} ELSE prefixes
  /\ CASE r.type = "Write" /\ ~Prefixed!Stored(r.at) -> Prefixed!insert_prefix(r.at, r.entry)
       [] r.type = "Replace" /\ Prefixed!Stored(r.at) -> Prefixed!replace_prefixed(r.at, r.entry)
       [] r.type = "Delete" /\ Prefixed!Stored(r.at) -> Prefixed!delete_prefix(r.at)
       [] OTHER -> UNCHANGED <<prefixed_records, prefixed_index>>

Answers(r) ==
  CASE r.type = "Write" -> {IF StoredAt(r.at) THEN "Err" ELSE "Ok"}
    [] r.type \in {"Read", "Delete"} -> {RecordAt(r.at)}
    [] r.type = "ReadAny" -> LET found == Prefixed!Matches(r.at)
                             IN IF found = {} THEN {NoRecord} ELSE {prefixed_records[s] : s \in found}
    [] r.type = "Size" -> {Cardinality({s \in Slots : Prefixed!Stored(s)})}
    [] r.type = "Keys" -> {{a \in Addresses : StoredAt(a)}}
    [] r.type = "Prefixes" -> {prefixes}
    [] r.type = "KeysWithPrefix" -> {{s \in Slots : s[1] = r.at /\ Prefixed!Stored(s)}}
    [] OTHER -> {NoRecord}

(* The caller goes on with the answer. *)
Answered(c, r, answer) ==
  caller' = [caller EXCEPT ![c] =
               [Idle EXCEPT !.todo = IF r.type = "Prefixes" THEN answer \cap CandidatePrefixes ELSE caller[c].todo]]

(* The caller of the head of the queue is gone, and it was to get an answer. *)
Unheard == Head(queue).request.type # "Replace" /\ caller[Head(queue).from].status # "waiting"

(* The head of the queue is served.  The task panics in `send(..).unwrap()` when the
   caller is gone, after the storage has changed, and takes the queue with it. *)
Serves ==
  /\ task = "running" /\ queue # <<>>
  /\ UNCHANGED <<service, left>>
  /\ LET r == Head(queue).request IN
     /\ IF service = "plain" THEN PlainServes(r) ELSE PrefixedServes(r)
     /\ latest' = [a \in Keys \cup Slots |->
          IF a \notin Addresses \/ ~StoredAt(a)' THEN NoRecord
          ELSE IF r.type = "Write" /\ r.at = a /\ ~StoredAt(a) THEN r.entry ELSE latest[a]]
  /\ task' = IF Unheard THEN "panicked" ELSE "running"
  /\ queue' = IF Unheard THEN <<>> ELSE Tail(queue)

Responds ==
  LET r == Head(queue).request IN
  IF Unheard \/ r.type = "Replace" THEN UNCHANGED caller
  ELSE \E answer \in Answers(r) : Answered(Head(queue).from, r, answer)

(* A write to a record that is there. *)
Refused == queue # <<>> /\ Head(queue).request.type = "Write" /\ StoredAt(Head(queue).request.at)

(* A wrong task that answers a write only if it succeeds. *)
api_handler_task_silent == Serves /\ IF Refused THEN UNCHANGED caller ELSE Responds

(* A wrong task that unwraps the result of a write. *)
api_handler_task_unwrap ==
  IF Refused
  THEN task = "running" /\ task' = "panicked" /\ queue' = <<>>
       /\ UNCHANGED <<service, plainVars, prefixedVars, caller, latest, left>>
  ELSE Serves /\ Responds

(* api_handler_task, api_handler_task_prefixed: one request is served and answered. *)
api_handler_task == Serves /\ Responds

StorageNext ==
  \/ api_handler_task
  \/ \E c \in Callers : call(c) \/ send(c) \/ panic(c)
  \/ \E c \in Clients : leave(c)

(* The task runs, and a channel gives room to the senders in their order. *)
StorageFairness ==
  /\ WF_storageVars(api_handler_task)
  /\ \A c \in Callers : SF_storageVars(send(c)) /\ WF_storageVars(panic(c))

StorageSpec == StorageInit /\ [][StorageNext]_storageVars /\ StorageFairness
-----------------------------------------------------------------------------
StorageTypeOK ==
  /\ TypeOK /\ Prefixed!TypeOK
  /\ Len(queue) <= QueueSize
  /\ \A c \in Callers : caller[c].status \in {"idle", "sending", "waiting", "panicked", "gone"}

(* The collector replaces records without waiting: whatever else is queued, what
   it reads afterwards is what it last wrote or put there, or nothing once the
   block has been pruned; it never reads an older record (storage_replace,
   storage_read). *)
ReadsOwnWrites ==
  queue # <<>> /\ Head(queue).from = Writer /\ Head(queue).request.type = "Read" =>
    LET a == Head(queue).request.at IN Answers(Head(queue).request) \subseteq {NoRecord, latest[a]}

(* The task that owns all records ends only because an HTTP client went away
   while its handler waited; no request of the collector or a watcher, refused or
   not, ends it (`.send(..).unwrap()`). *)
OnlyLeavingKillsTask == task = "panicked" => left

(* Every call ends: with an answer, or with the panic of its caller when the
   task is gone. *)
CallsReturn == \A c \in Callers : (caller[c].status \in {"sending", "waiting"}) ~> (caller[c].status \notin {"sending", "waiting"})
=============================================================================
