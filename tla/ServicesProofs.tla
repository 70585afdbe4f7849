--------------------------- MODULE ServicesProofs ---------------------------
(***************************************************************************)
(* Theorems on Services and its parts, each for any values of the          *)
(* constants of the part, in this order.                                   *)
(*                                                                         *)
(* The plain storage.  For every set of keys and blocks and every          *)
(* `max_blocks` its index stays bounded; and, when persistent records have *)
(* keys of their own, nothing leaks and no persistent record is pruned.    *)
(*                                                                         *)
(* StorageApi, over either storage, for any callers, records and length of *)
(* the queue.  Two facts about the queue carry both theorems: a caller     *)
(* that waits has one request in it, and it is the caller's last; and only *)
(* the writer changes records.  For what the writer reads, IInv adds that  *)
(* the last replacement of a record under way, if any, is the writer's     *)
(* latest word on it, and that otherwise the record is.                    *)
(*                                                                         *)
(* The request executor.  What RequestExecutorProofs shows of it alone,    *)
(* for the executor among the other services: a behaviour of Services is   *)
(* one of RequestExecutor, the others leave its variables alone.           *)
(*                                                                         *)
(* The updates of the websocket listener, for any number of clients and    *)
(* events and any room in its channel; the events of disputes, for any     *)
(* number of validators and any votes; the block times of the monitor, for *)
(* any tree of blocks; and the broadcasts of --all, for any number of      *)
(* parachains and any sequence of heads.                                   *)
(*                                                                         *)
(* The two storages behind the API: what the task does to the records is   *)
(* what the storage alone does, so that its theorems hold of the services. *)
(* Last, the types of all of them, which say that nothing outgrows its     *)
(* bound.                                                                  *)
(***************************************************************************)
EXTENDS Services, BlockIndexProofs

(* The condition on callers. *)
PersistentApart ==
  \A k \in Keys : "Persistent" \in TypesOf[k] => TypesOf[k] = {"Persistent"}

PlainInv == TypeOK /\ IndexBounded

(* A key holds what its callers write, and is indexed only if that expires. *)
PlainSorted ==
  \A k \in Keys :
    /\ Stored(k) => direct_records[k].record_type \in TypesOf[k]
    /\ "Persistent" \in TypesOf[k] => \A b \in Blocks : k \notin ephemeral_records[b]

(* The inductive invariant for such callers. *)
PInv == PlainInv /\ PlainSorted /\ NothingLeaks

LEMMA EntryFacts ==
  ASSUME NEW k \in Keys, NEW e \in Entries(k)
  PROVE  e \in StorageEntry /\ e.block_number \in Blocks /\ e.record_type \in TypesOf[k]
BY DEF Entries, StorageEntry

(* What an insertion does, in terms of the index before the prune. *)
InsertedIndex(k, e) ==
  IF e.record_type = "Persistent" THEN ephemeral_records
  ELSE AddToIndex(ephemeral_records, e.block_number, k)

LEMMA InsertedIndexProps ==
  ASSUME PlainInv, NEW k \in Keys, NEW e \in Entries(k)
  PROVE  /\ InsertedIndex(k, e) \in IndexType
         /\ IsFiniteSet(IndexedBlocks(InsertedIndex(k, e)))
         /\ Bounded(PrunedIndex(InsertedIndex(k, e)))
         /\ \A b \in Blocks : InsertedIndex(k, e)[b] =
              IF e.record_type # "Persistent" /\ b = e.block_number
                THEN ephemeral_records[b] \cup {k} ELSE ephemeral_records[b]
<1>1. ephemeral_records \in IndexType /\ Bounded(ephemeral_records)
  BY DEF PlainInv, TypeOK, IndexBounded, IndexType, Bounded
<1>2. e.block_number \in Blocks
  BY EntryFacts
<1>3. CASE e.record_type = "Persistent"
  BY <1>1, <1>3, BoundedStays DEF InsertedIndex, Bounded
<1>4. CASE e.record_type # "Persistent"
  <2>1. InsertedIndex(k, e) = AddToIndex(ephemeral_records, e.block_number, k)
    BY <1>4 DEF InsertedIndex
  <2> DEFINE idx == AddToIndex(ephemeral_records, e.block_number, k)
  <2>2. /\ idx \in IndexType
        /\ IndexedBlocks(idx) = IndexedBlocks(ephemeral_records) \cup {e.block_number}
        /\ \A c \in Blocks : idx[c] =
             IF c = e.block_number THEN ephemeral_records[c] \cup {k} ELSE ephemeral_records[c]
    BY <1>1, <1>2, AddToIndexProps
  <2> HIDE DEF idx
  <2>3. /\ InsertedIndex(k, e) \in IndexType
        /\ IndexedBlocks(InsertedIndex(k, e)) = IndexedBlocks(ephemeral_records) \cup {e.block_number}
        /\ \A c \in Blocks : InsertedIndex(k, e)[c] =
             IF c = e.block_number THEN ephemeral_records[c] \cup {k} ELSE ephemeral_records[c]
    BY <2>1, <2>2 DEF idx
  <2>4. IsFiniteSet(IndexedBlocks(InsertedIndex(k, e)))
    BY <1>1, <2>3, FS_AddElement DEF Bounded
  <2>5. Bounded(PrunedIndex(InsertedIndex(k, e)))
    BY <1>1, <1>2, <2>1, PruneRestoresBound
  <2> QED BY <1>4, <2>3, <2>4, <2>5
<1> QED BY <1>3, <1>4

LEMMA InsertEffect ==
  ASSUME PlainInv, NEW k \in Keys, NEW e \in Entries(k), insert(k, e)
  PROVE  /\ ephemeral_records' = PrunedIndex(InsertedIndex(k, e))
         /\ direct_records' = [j \in Keys |->
              IF j \in PrunedKeys(InsertedIndex(k, e)) THEN NoRecord
              ELSE IF j = k THEN e ELSE direct_records[j]]
BY DEF insert, prune, InsertedIndex, PlainInv, TypeOK

LEMMA InsertPreserves ==
  ASSUME PlainInv, NEW k \in Keys, NEW e \in Entries(k), insert(k, e)
  PROVE  PlainInv'
<1>1. TypeOK'
  <2>1. ephemeral_records' \in [Blocks -> SUBSET Keys]
    BY InsertEffect, InsertedIndexProps, PrunedIndexProps DEF IndexType
  <2>2. direct_records' \in [Keys -> StorageEntry \cup {NoRecord}]
    BY InsertEffect, EntryFacts DEF PlainInv, TypeOK
  <2> QED BY <2>1, <2>2 DEF TypeOK
<1>2. IndexBounded'
  BY InsertEffect, InsertedIndexProps DEF IndexBounded, Bounded
<1> QED BY <1>1, <1>2 DEF PlainInv

(* A record that changes or goes under an unchanged index. *)
LEMMA OverwritePreserves ==
  ASSUME PlainInv, NEW k \in Keys, NEW r \in StorageEntry \cup {NoRecord},
         direct_records' = [direct_records EXCEPT ![k] = r], UNCHANGED ephemeral_records
  PROVE  PlainInv'
BY DEF PlainInv, TypeOK, IndexBounded

LEMMA PlainStep == PlainInv /\ [Next]_vars => PlainInv'
<1> SUFFICES ASSUME PlainInv, [Next]_vars
             PROVE  PlainInv'
  OBVIOUS
<1>1. ASSUME NEW k \in Keys, NEW e \in Entries(k), insert(k, e)
      PROVE  PlainInv'
  BY <1>1, InsertPreserves
<1>2. ASSUME NEW k \in Keys, NEW e \in Entries(k), replace(k, e)
      PROVE  PlainInv'
  BY <1>2, EntryFacts, OverwritePreserves DEF replace
<1>3. ASSUME NEW k \in Keys, delete(k)
      PROVE  PlainInv'
  BY <1>3, OverwritePreserves DEF delete
<1>4. CASE UNCHANGED vars
  BY <1>4 DEF vars, PlainInv, TypeOK, IndexBounded, IndexedBlocks
<1> QED BY <1>1, <1>2, <1>3, <1>4 DEF Next

LEMMA PlainInit == new => PlainInv /\ PlainSorted /\ NothingLeaks
<1> SUFFICES ASSUME new
             PROVE  PlainInv /\ PlainSorted /\ NothingLeaks
  OBVIOUS
<1>1. TypeOK
  BY DEF new, TypeOK, EmptyIndex
<1>2. IndexedBlocks(ephemeral_records) = {}
  BY DEF new, EmptyIndex, IndexedBlocks
<1>3. IndexBounded
  BY <1>2, FS_EmptySet, MaxBlocksAssumption DEF IndexBounded
<1>4. PlainSorted /\ NothingLeaks
  BY DEF new, EmptyIndex, PlainSorted, NothingLeaks, Stored
<1> QED BY <1>1, <1>3, <1>4 DEF PlainInv

(* The type invariant of the plain storage. *)
THEOREM PlainTypeCorrect == Spec => []TypeOK
<1>1. PlainInv => TypeOK
  BY DEF PlainInv
<1> QED BY <1>1, PlainInit, PlainStep, PTL DEF Spec

(* insert(), the only operation that extends the index, keeps it within max_blocks,
   whatever its callers write under which key. *)
THEOREM IndexStaysBounded == Spec => []IndexBounded
<1>1. PlainInv => IndexBounded
  BY DEF PlainInv
<1> QED BY <1>1, PlainInit, PlainStep, PTL DEF Spec
-----------------------------------------------------------------------------
(* An insertion, with the prune() that ends it, spares persistent records, keeps
   their keys out of the index and loses track of no other record. *)
LEMMA InsertKeepsApart ==
  ASSUME PersistentApart, PInv, NEW k \in Keys, NEW e \in Entries(k), insert(k, e)
  PROVE  /\ PlainSorted' /\ NothingLeaks'
         /\ \A j \in Keys : Persistent(j) => Stored(j)'
<1> DEFINE idx == InsertedIndex(k, e)
<1>0. PlainInv
  BY DEF PInv
<1>1. /\ idx \in IndexType
      /\ IsFiniteSet(IndexedBlocks(idx))
      /\ \A b \in Blocks : idx[b] =
           IF e.record_type # "Persistent" /\ b = e.block_number
             THEN ephemeral_records[b] \cup {k} ELSE ephemeral_records[b]
  BY <1>0, InsertedIndexProps
<1>2. /\ ephemeral_records' = PrunedIndex(idx)
      /\ direct_records' = [j \in Keys |-> IF j \in PrunedKeys(idx) THEN NoRecord
                                           ELSE IF j = k THEN e ELSE direct_records[j]]
  BY <1>0, InsertEffect
<1>3. e \in StorageEntry /\ e.block_number \in Blocks /\ e.record_type \in TypesOf[k]
  BY EntryFacts
<1> HIDE DEF idx
<1>4. /\ \A j \in PrunedKeys(idx) : \E b \in Blocks : j \in idx[b]
      /\ \A b \in Blocks : PrunedIndex(idx)[b] \subseteq idx[b]
      /\ \A b \in Blocks : \A j \in idx[b] : j \in PrunedKeys(idx) \/ j \in PrunedIndex(idx)[b]
  BY <1>1, PruneShrinks, PrunedIndexProps
<1>5. \A j \in Keys : "Persistent" \in TypesOf[j] => \A b \in Blocks : j \notin idx[b]
  <2> SUFFICES ASSUME NEW j \in Keys, "Persistent" \in TypesOf[j], NEW b \in Blocks
               PROVE  j \notin idx[b]
    OBVIOUS
  <2>1. j \notin ephemeral_records[b]
    BY DEF PInv, PlainSorted
  <2>2. j = k => e.record_type = "Persistent"
    BY <1>3 DEF PersistentApart
  <2> QED BY <1>1, <2>1, <2>2
<1>6. PlainSorted'
  <2>1. \A j \in Keys : Stored(j)' => direct_records'[j].record_type \in TypesOf[j]
    BY <1>2, <1>3 DEF PInv, PlainSorted, Stored
  <2>2. \A j \in Keys : "Persistent" \in TypesOf[j] =>
                          \A b \in Blocks : j \notin ephemeral_records'[b]
    BY <1>2, <1>4, <1>5
  <2> QED BY <2>1, <2>2 DEF PlainSorted, Stored
<1>7. NothingLeaks'
  <2> SUFFICES ASSUME NEW j \in Keys, Stored(j)', ~Persistent(j)'
               PROVE  \E b \in Blocks : j \in ephemeral_records'[b]
    BY DEF NothingLeaks
  <2>1. j \notin PrunedKeys(idx)
    BY <1>2 DEF Stored
  <2>2. CASE j = k
    <3>1. e.record_type # "Persistent"
      BY <1>2, <2>1, <2>2 DEF Persistent, Stored
    <3> QED BY <1>1, <1>2, <1>3, <1>4, <2>1, <2>2, <3>1
  <2>3. CASE j # k
    <3>1. direct_records'[j] = direct_records[j]
      BY <1>2, <2>1, <2>3
    <3>2. Stored(j) /\ ~Persistent(j)
      BY <3>1 DEF Stored, Persistent
    <3>3. PICK b \in Blocks : j \in ephemeral_records[b]
      BY <3>2 DEF PInv, NothingLeaks
    <3>4. j \in idx[b]
      BY <1>1, <3>3
    <3> QED BY <1>2, <1>4, <2>1, <3>4
  <2> QED BY <2>2, <2>3
<1>8. ASSUME NEW j \in Keys, Persistent(j)
      PROVE  Stored(j)'
  <2>1. "Persistent" \in TypesOf[j]
    BY <1>8 DEF PInv, PlainSorted, Persistent
  <2>2. j \notin PrunedKeys(idx)
    BY <1>4, <1>5, <2>1
  <2>3. j # k
    BY <1>8 DEF Persistent, insert
  <2>4. direct_records'[j] = direct_records[j]
    BY <1>2, <2>2, <2>3
  <2> QED BY <1>8, <2>4 DEF Persistent, Stored
<1> QED BY <1>6, <1>7, <1>8

LEMMA ReplaceKeepsApart ==
  ASSUME PersistentApart, PInv, NEW k \in Keys, NEW e \in Entries(k), replace(k, e)
  PROVE  /\ PlainSorted' /\ NothingLeaks'
         /\ \A j \in Keys : Persistent(j) => Stored(j)'
<1>0. TypesOf \in [Keys -> SUBSET RecordType]
  BY TypesOfAssumption
<1>1. e \in StorageEntry /\ e.record_type \in TypesOf[k]
  BY EntryFacts
<1>2. e # NoRecord
  BY <1>1, NoRecordAssumption
<1>3. /\ ephemeral_records' = ephemeral_records
      /\ \A j \in Keys : direct_records'[j] = IF j = k THEN e ELSE direct_records[j]
      /\ Stored(k)
  BY DEF PInv, PlainInv, TypeOK, replace
<1>4. PlainSorted'
  BY <1>1, <1>3 DEF PInv, PlainSorted, Stored
<1>5. NothingLeaks'
  <2> SUFFICES ASSUME NEW j \in Keys, Stored(j)', ~Persistent(j)'
               PROVE  \E b \in Blocks : j \in ephemeral_records[b]
    BY <1>3 DEF NothingLeaks
  <2>1. CASE j = k
    <3>1. e.record_type # "Persistent"
      BY <1>2, <1>3, <2>1 DEF Persistent, Stored
    <3>2. direct_records[k].record_type # "Persistent"
      <4>1. "Persistent" \notin TypesOf[k]
        BY <1>1, <3>1 DEF PersistentApart
      <4> QED BY <1>3, <4>1 DEF PInv, PlainSorted
    <3> QED BY <1>3, <2>1, <3>2 DEF PInv, NothingLeaks, Persistent
  <2>2. CASE j # k
    BY <1>3, <2>2 DEF PInv, NothingLeaks, Stored, Persistent
  <2> QED BY <2>1, <2>2
<1>6. \A j \in Keys : Persistent(j) => Stored(j)'
  BY <1>2, <1>3 DEF Persistent, Stored
<1> QED BY <1>4, <1>5, <1>6

LEMMA DeleteKeepsApart ==
  ASSUME PInv, NEW k \in Keys, delete(k)
  PROVE  /\ PlainSorted' /\ NothingLeaks'
         /\ \A j \in Keys : Persistent(j) /\ j # k => Stored(j)'
<1>1. /\ ephemeral_records' = ephemeral_records
      /\ \A j \in Keys : direct_records'[j] = IF j = k THEN NoRecord ELSE direct_records[j]
  BY DEF PInv, PlainInv, TypeOK, delete
<1> QED BY <1>1 DEF PInv, PlainSorted, NothingLeaks, Persistent, Stored

LEMMA ApartPreserved == PersistentApart /\ PInv /\ [Next]_vars => PInv'
<1> SUFFICES ASSUME PersistentApart, PInv, [Next]_vars
             PROVE  PInv'
  OBVIOUS
<1>1. PlainInv'
  BY PlainStep DEF PInv
<1>2. PlainSorted' /\ NothingLeaks'
  <2>1. CASE UNCHANGED vars
    BY <2>1 DEF vars, PInv, PlainSorted, NothingLeaks, Stored, Persistent
  <2> QED BY <2>1, InsertKeepsApart, ReplaceKeepsApart, DeleteKeepsApart DEF Next
<1> QED BY <1>1, <1>2 DEF PInv

(* For callers that keep persistent records apart, no sequence of operations leaves
   an expiring record that no prune() will ever reach. *)
THEOREM NothingEverLeaks ==
  ASSUME PersistentApart
  PROVE  Spec => []NothingLeaks
<1>1. new => PInv
  BY PlainInit DEF PInv
<1>2. PInv => NothingLeaks
  BY DEF PInv
<1>3. PInv /\ [Next]_vars => PInv'
  BY ApartPreserved
<1> QED BY <1>1, <1>2, <1>3, PTL DEF Spec

(* For the same callers the promise of RecordType::Persistent holds: prune() never
   takes a persistent record; only delete() of its key does. *)
THEOREM PersistentRecordsStay ==
  ASSUME PersistentApart
  PROVE  Spec => PersistentNotPruned
<1>1. new => PInv
  BY PlainInit DEF PInv
<1>2. PInv /\ [Next]_vars => [\A k \in Keys : Persistent(k) => Stored(k)' \/ delete(k)]_vars
  <2> SUFFICES ASSUME PInv, [Next]_vars, ~UNCHANGED vars,
                      NEW k \in Keys, Persistent(k)
               PROVE  Stored(k)' \/ delete(k)
    OBVIOUS
  <2>1. PICK j \in Keys : \/ \E e \in Entries(j) : insert(j, e)
                          \/ \E e \in Entries(j) : replace(j, e)
                          \/ delete(j)
    BY DEF Next
  <2> QED BY <2>1, InsertKeepsApart, ReplaceKeepsApart, DeleteKeepsApart
<1>3. PInv /\ [Next]_vars => PInv'
  BY ApartPreserved
<1> QED BY <1>1, <1>2, <1>3, PTL DEF Spec, PersistentNotPruned
-----------------------------------------------------------------------------
Types == {"Write", "Replace", "Read", "Delete", "ReadAny", "Size", "Keys", "Prefixes", "KeysWithPrefix"}
Changes == {"Write", "Replace", "Delete"}

AnyRequest == [type : Types, at : Keys \cup Slots \cup CandidatePrefixes \cup {NoRecord},
               entry : StorageEntry \cup {NoRecord}]
Message == [from : Callers, request : AnyRequest]

TypeInv ==
  /\ queue \in Seq(Message)
  /\ caller \in [Callers -> [status : {"idle", "sending", "waiting", "panicked", "gone"},
                             todo : SUBSET CandidatePrefixes]]
  /\ task \in {"running", "panicked"}
  /\ left \in BOOLEAN

(* A request other than a replacement: its caller waits, or has left while it
   waited, and has sent nothing since. *)
QueueOK ==
  \A i \in DOMAIN queue :
    queue[i].request.type # "Replace" =>
      /\ \/ caller[queue[i].from].status = "waiting"
         \/ caller[queue[i].from].status = "gone" /\ left
      /\ \A j \in DOMAIN queue : j > i => queue[j].from # queue[i].from

TaskOK == task = "panicked" => left /\ queue = <<>>

LeavingInv == TypeInv /\ QueueOK /\ TaskOK
-----------------------------------------------------------------------------
(* What a caller sends. *)
LEMMA RequestTypes ==
  ASSUME TypeInv, NEW c \in Callers, NEW r \in RequestsOf(c)
  PROVE  /\ r \in AnyRequest
         /\ r.type \in Changes => c = Writer
         /\ c = Writer => r.at \in Addresses
<1>1. CASE c = Writer
  <2>1. PICK a \in Addresses :
          \/ \E t \in {"Write", "Replace"}, e \in EntriesAt(a) : r = Request(t, a, e)
          \/ r = Ask("Read", a) \/ r = Ask("Delete", a)
    <3>1. r \in WriterRequests
      BY <1>1, CallersAssumption DEF RequestsOf
    <3>2. PICK a \in Addresses : r \in RequestsAt(a)
      BY <3>1 DEF WriterRequests
    <3> QED
      BY <3>2 DEF RequestsAt
  <2>2. a \in Keys \cup Slots /\ EntriesAt(a) \subseteq StorageEntry
    BY DEF Addresses, EntriesAt, Entries, Prefixed!Entries, Prefixed!StorageEntry, StorageEntry,
       Prefixed!RecordType, RecordType
  <2> QED
    BY <1>1, <2>1, <2>2 DEF Ask, Request, AnyRequest, Types
<1>2. CASE c # Writer
  <2>1. r \in ReaderRequests \/ r \in ClientRequests
    BY <1>2, CallersAssumption DEF RequestsOf, Callers
  <2>2. \E t \in Types \ Changes, a \in Keys \cup Slots \cup CandidatePrefixes \cup {NoRecord} : r = Ask(t, a)
    BY <2>1 DEF ReaderRequests, ClientRequests, health_handler, candidates_handler,
       candidate_get_handler, Addresses, Types, Changes
  <2> QED
    BY <1>2, <2>2 DEF Ask, Request, AnyRequest, Types
<1> QED
  BY <1>1, <1>2

(* The start. *)
LEMMA LeavingInit ==
  ASSUME StorageInit
  PROVE  LeavingInv
<1>1. queue = <<>> /\ DOMAIN queue = {} /\ task = "running" /\ left = FALSE
  BY DEF StorageInit
<1>2. Idle \in [status : {"idle", "sending", "waiting", "panicked", "gone"}, todo : SUBSET CandidatePrefixes]
  BY DEF Idle
<1>3. TypeInv
  <2>1. <<>> \in Seq(Message)
    OBVIOUS
  <2> QED
    BY <1>1, <1>2, <2>1 DEF StorageInit, TypeInv
<1>4. QueueOK /\ TaskOK
  BY <1>1 DEF QueueOK, TaskOK
<1> QED
  BY <1>3, <1>4 DEF LeavingInv

(* Callers call, panic and leave: none of it touches the queue. *)
LEMMA LeavingCaller ==
  ASSUME LeavingInv, NEW c \in Callers, call(c) \/ panic(c) \/ leave(c)
  PROVE  LeavingInv'
<1>1. UNCHANGED <<queue, task>> /\ TypeInv /\ caller[c].todo \in SUBSET CandidatePrefixes
  BY DEF call, panic, leave, LeavingInv, TypeInv
<1>2. TypeInv'
  BY <1>1 DEF call, panic, leave, TypeInv, Idle
<1>3. ASSUME NEW i \in DOMAIN queue, queue[i].request.type # "Replace"
      PROVE  \/ caller'[queue[i].from].status = "waiting"
             \/ caller'[queue[i].from].status = "gone" /\ left'
  <2>1. queue[i].from \in Callers
    <3>1. queue[i] \in Message
      BY <1>1, <1>3 DEF TypeInv
    <3> QED
      BY <3>1 DEF Message
  <2>2. CASE queue[i].from # c
    BY <1>1, <1>3, <2>1, <2>2 DEF call, panic, leave, LeavingInv, TypeInv, QueueOK
  <2>3. CASE queue[i].from = c
    <3>1. \/ caller[c].status = "waiting"
          \/ caller[c].status = "gone" /\ left
      BY <1>3, <2>3 DEF LeavingInv, QueueOK
    <3>2. task = "running"
      BY <1>1, <1>3 DEF LeavingInv, TaskOK, TypeInv
    <3>3. leave(c) /\ caller[c].status = "waiting"
      BY <3>1, <3>2 DEF call, panic, leave
    <3> QED
      BY <1>1, <2>3, <3>3 DEF leave, TypeInv, Idle
  <2> QED
    BY <2>2, <2>3
<1>4. TaskOK'
  BY <1>1 DEF call, panic, leave, LeavingInv, TaskOK
<1> QED
  BY <1>1, <1>2, <1>3, <1>4 DEF LeavingInv, QueueOK

(* A caller sends: nothing of it but replacements can be under way. *)
LEMMA LeavingSend ==
  ASSUME LeavingInv, NEW c \in Callers, send(c)
  PROVE  LeavingInv'
<1>1. PICK r \in RequestsOf(c) : queue' = Append(queue, [from |-> c, request |-> r]) /\ Sent(c, r)
  BY DEF send
<1> DEFINE m == [from |-> c, request |-> r]
           after == [status |-> IF r.type = "Replace" THEN "idle" ELSE "waiting",
                     todo |-> caller[c].todo \ {r.at}]
<1>2. /\ TypeInv /\ queue \in Seq(Message) /\ m \in Message /\ m.from = c /\ m.request = r
      /\ caller[c].status = "sending" /\ task = "running"
      /\ UNCHANGED <<task, left>>
  BY <1>1, RequestTypes DEF send, Sent, LeavingInv, TypeInv, Message
<1>3. caller' = [caller EXCEPT ![c] = after]
  BY <1>1 DEF Sent
<1>4. TypeInv'
  <2>1. after \in [status : {"idle", "sending", "waiting", "panicked", "gone"},
                   todo : SUBSET CandidatePrefixes]
    BY <1>2 DEF TypeInv
  <2>2. queue' \in Seq(Message)
    BY <1>1, <1>2
  <2> HIDE DEF after
  <2> QED
    BY <1>2, <1>3, <2>1, <2>2 DEF TypeInv
<1>5. \A i \in DOMAIN queue : queue[i].from = c => queue[i].request.type = "Replace"
  BY <1>2 DEF LeavingInv, QueueOK
<1>6. /\ queue' = Append(queue, m) /\ DOMAIN queue' = 1..(Len(queue) + 1) /\ DOMAIN queue = 1..Len(queue)
      /\ \A i \in DOMAIN queue : queue'[i] = queue[i]
      /\ queue'[Len(queue) + 1] = m /\ Len(queue) \in Nat
  BY <1>1, <1>2
<1>7. caller'[c].status = (IF r.type = "Replace" THEN "idle" ELSE "waiting")
  BY <1>2, <1>3 DEF TypeInv
<1> HIDE DEF m
<1>8. ASSUME NEW i \in DOMAIN queue', queue'[i].request.type # "Replace"
      PROVE  /\ \/ caller'[queue'[i].from].status = "waiting"
                \/ caller'[queue'[i].from].status = "gone" /\ left'
             /\ \A j \in DOMAIN queue' : j > i => queue'[j].from # queue'[i].from
  <2>1. CASE i = Len(queue) + 1
    BY <1>2, <1>6, <1>7, <1>8, <2>1
  <2>2. CASE i \in DOMAIN queue
    <3>1. queue[i].from # c /\ queue[i].from \in Callers
      <4>1. queue[i] \in Message
        BY <1>2, <2>2
      <4> QED
        BY <1>5, <1>6, <1>8, <2>2, <4>1 DEF Message
    <3>2. caller'[queue[i].from] = caller[queue[i].from]
      BY <1>2, <1>3, <3>1 DEF TypeInv
    <3> QED
      BY <1>2, <1>6, <1>8, <2>2, <3>1, <3>2 DEF LeavingInv, QueueOK
  <2> QED
    BY <1>6, <2>1, <2>2
<1> QED
  BY <1>2, <1>4, <1>8 DEF LeavingInv, QueueOK, TaskOK

(* What serving a request does to queue, task and callers. *)
LEMMA ServeShape ==
  ASSUME LeavingInv, api_handler_task
  PROVE  LET c == Head(queue).from  r == Head(queue).request IN
         /\ queue # <<>> /\ task = "running" /\ UNCHANGED <<left, service>>
         /\ \/ /\ r.type # "Replace" /\ caller[c].status # "waiting"
               /\ task' = "panicked" /\ queue' = <<>> /\ UNCHANGED caller
            \/ /\ task' = "running" /\ queue' = Tail(queue)
               /\ r.type = "Replace" /\ UNCHANGED caller
            \/ /\ r.type # "Replace" /\ task' = "running" /\ queue' = Tail(queue)
               /\ \E todo \in SUBSET CandidatePrefixes :
                    caller' = [caller EXCEPT ![c] = [Idle EXCEPT !.todo = todo]]
<1> DEFINE c == Head(queue).from
           r == Head(queue).request
           gone == r.type # "Replace" /\ caller[c].status # "waiting"
<1>1. /\ queue # <<>> /\ task = "running" /\ UNCHANGED <<left, service>>
      /\ task' = (IF gone THEN "panicked" ELSE "running")
      /\ queue' = (IF gone THEN <<>> ELSE Tail(queue))
      /\ IF gone \/ r.type = "Replace" THEN UNCHANGED caller
         ELSE \E answer \in Answers(r) : Answered(c, r, answer)
  BY DEF api_handler_task, Serves, Responds, Unheard
<1>2. c \in Callers
  <2>1. Head(queue) \in Message
    BY <1>1 DEF LeavingInv, TypeInv
  <2> QED
    BY <2>1 DEF Message
<1>3. ASSUME NEW answer, Answered(c, r, answer)
      PROVE  \E todo \in SUBSET CandidatePrefixes :
               caller' = [caller EXCEPT ![c] = [Idle EXCEPT !.todo = todo]]
  <2> DEFINE todo == IF r.type = "Prefixes" THEN answer \cap CandidatePrefixes ELSE caller[c].todo
  <2>1. todo \in SUBSET CandidatePrefixes
    BY <1>2 DEF LeavingInv, TypeInv
  <2>2. caller' = [caller EXCEPT ![c] = [Idle EXCEPT !.todo = todo]]
    BY <1>3 DEF Answered
  <2> QED
    BY <2>1, <2>2
<1> QED
  BY <1>1, <1>3

(* The task serves the head of the queue. *)
LEMMA LeavingServe ==
  ASSUME LeavingInv, api_handler_task
  PROVE  LeavingInv'
<1> DEFINE c == Head(queue).from
           r == Head(queue).request
<1>1. /\ TypeInv /\ QueueOK /\ queue \in Seq(Message) /\ queue # <<>>
      /\ task = "running" /\ UNCHANGED left
  BY ServeShape DEF LeavingInv, TypeInv
<1>2. /\ 1 \in DOMAIN queue /\ queue[1].from = c /\ queue[1].request = r
      /\ queue[1] \in Message /\ c \in Callers
  <2>1. 1 \in DOMAIN queue /\ Head(queue) = queue[1] /\ queue[1] \in Message
    BY <1>1
  <2> QED
    BY <2>1 DEF Message
<1>3. ASSUME queue' = Tail(queue), NEW i \in DOMAIN queue'
      PROVE  /\ i + 1 \in DOMAIN queue /\ queue'[i] = queue[i + 1] /\ i \in Nat /\ i + 1 > 1
             /\ queue[i + 1].from \in Callers
             /\ \A j \in DOMAIN queue' : j \in Nat /\ j + 1 \in DOMAIN queue /\ queue'[j] = queue[j + 1]
  <2>1. /\ i + 1 \in DOMAIN queue /\ queue'[i] = queue[i + 1] /\ i \in Nat /\ i + 1 > 1
        /\ \A j \in DOMAIN queue' : j \in Nat /\ j + 1 \in DOMAIN queue /\ queue'[j] = queue[j + 1]
    BY <1>1, <1>3
  <2>2. queue[i + 1] \in Message
    BY <1>1, <2>1
  <2> QED
    BY <2>1, <2>2 DEF Message
<1>4. CASE /\ r.type # "Replace" /\ caller[c].status # "waiting"
           /\ task' = "panicked" /\ queue' = <<>> /\ UNCHANGED caller
  <2>1. left
    BY <1>1, <1>2, <1>4 DEF QueueOK
  <2>2. DOMAIN queue' = {} /\ queue' \in Seq(Message)
    BY <1>4
  <2> QED
    BY <1>1, <1>4, <2>1, <2>2 DEF LeavingInv, TypeInv, QueueOK, TaskOK
<1>5. CASE task' = "running" /\ queue' = Tail(queue) /\ r.type = "Replace" /\ UNCHANGED caller
  <2>1. TypeInv' /\ TaskOK'
    BY <1>1, <1>5 DEF TypeInv, TaskOK
  <2>2. ASSUME NEW i \in DOMAIN queue', queue'[i].request.type # "Replace"
        PROVE  /\ \/ caller'[queue'[i].from].status = "waiting"
                  \/ caller'[queue'[i].from].status = "gone" /\ left'
               /\ \A j \in DOMAIN queue' : j > i => queue'[j].from # queue'[i].from
    BY <1>1, <1>3, <1>5, <2>2 DEF QueueOK
  <2> QED
    BY <2>1, <2>2 DEF LeavingInv, QueueOK
<1>6. CASE /\ r.type # "Replace" /\ task' = "running" /\ queue' = Tail(queue)
           /\ \E todo \in SUBSET CandidatePrefixes :
                caller' = [caller EXCEPT ![c] = [Idle EXCEPT !.todo = todo]]
  <2>1. PICK todo \in SUBSET CandidatePrefixes :
          caller' = [caller EXCEPT ![c] = [Idle EXCEPT !.todo = todo]]
    BY <1>6
  <2>2. [Idle EXCEPT !.todo = todo] \in [status : {"idle", "sending", "waiting", "panicked", "gone"},
                                         todo : SUBSET CandidatePrefixes]
    BY DEF Idle
  <2>3. TypeInv' /\ TaskOK'
    BY <1>1, <1>2, <1>6, <2>1, <2>2 DEF TypeInv, TaskOK
  <2>4. ASSUME NEW i \in DOMAIN queue', queue'[i].request.type # "Replace"
        PROVE  /\ \/ caller'[queue'[i].from].status = "waiting"
                  \/ caller'[queue'[i].from].status = "gone" /\ left'
               /\ \A j \in DOMAIN queue' : j > i => queue'[j].from # queue'[i].from
    <3>1. queue'[i].from \in Callers /\ queue'[i].from # c
      BY <1>1, <1>2, <1>3, <1>6, <2>4 DEF QueueOK
    <3>2. caller'[queue'[i].from] = caller[queue'[i].from]
      BY <1>1, <2>1, <3>1 DEF TypeInv
    <3> QED
      BY <1>1, <1>3, <1>6, <2>4, <3>2 DEF QueueOK
  <2> QED
    BY <2>3, <2>4 DEF LeavingInv, QueueOK
<1> QED
  BY <1>4, <1>5, <1>6, ServeShape
-----------------------------------------------------------------------------
(* Every step keeps the invariant of the callers. *)
LEMMA LeavingStep ==
  ASSUME LeavingInv, [StorageNext]_storageVars
  PROVE  LeavingInv'
<1>1. CASE UNCHANGED storageVars
  BY <1>1 DEF storageVars, protocol, LeavingInv, TypeInv, QueueOK, TaskOK
<1>2. CASE StorageNext
  BY <1>2, LeavingCaller, LeavingSend, LeavingServe DEF StorageNext, Callers
<1> QED
  BY <1>1, <1>2

(* It holds of every execution. *)
LEMMA LeavingHolds == StorageSpec => []LeavingInv
BY LeavingInit, LeavingStep, PTL DEF StorageSpec

(* The task that owns the storage panics only because an HTTP client went away
   while its handler waited (`.send(..).unwrap()` in api_handler_task and
   api_handler_task_prefixed): no request of collector or watchers, in whatever
   order they come, ends it. *)
THEOREM OnlyLeavingKills == StorageSpec => []OnlyLeavingKillsTask
<1>1. LeavingInv => OnlyLeavingKillsTask
  BY DEF LeavingInv, TaskOK, OnlyLeavingKillsTask
<1> QED
  BY <1>1, LeavingHolds, PTL
-----------------------------------------------------------------------------
(* The replacements of a record that are under way. *)
Pending(a) == {i \in DOMAIN queue : queue[i].request.type = "Replace" /\ queue[i].request.at = a}

LatestOK(a) ==
  StoredAt(a) =>
    /\ \A i \in Pending(a) : (\A j \in Pending(a) : j <= i) => queue[i].request.entry = latest[a]
    /\ Pending(a) = {} => RecordAt(a) = latest[a]

(* Only the writer changes records. *)
WriterOnly ==
  \A i \in DOMAIN queue :
    /\ queue[i].request.type \in Changes => queue[i].from = Writer
    /\ queue[i].from = Writer => queue[i].request.at \in Addresses

RecordsOK ==
  /\ direct_records \in [Keys -> StorageEntry \cup {NoRecord}]
  /\ prefixed_records \in [Slots -> StorageEntry \cup {NoRecord}]
  /\ DOMAIN latest = Keys \cup Slots /\ latest = [a \in Keys \cup Slots |-> latest[a]]

IInv ==
  /\ LeavingInv /\ RecordsOK /\ WriterOnly
  /\ task = "running" => \A a \in Addresses : LatestOK(a)

(* The start. *)
LEMMA InitIInv ==
  ASSUME StorageInit
  PROVE  IInv
<1>1. LeavingInv /\ DOMAIN queue = {}
  <2>1. queue = <<>>
    BY DEF StorageInit
  <2> QED
    BY <2>1, LeavingInit
<1>2. RecordsOK
  BY DEF StorageInit, new, Prefixed!new, RecordsOK
<1>3. ASSUME NEW a \in Addresses
      PROVE  ~StoredAt(a)
  BY DEF StorageInit, new, Prefixed!new, Addresses, StoredAt, Stored, Prefixed!Stored
<1> QED
  BY <1>1, <1>2, <1>3 DEF IInv, WriterOnly, LatestOK

(* Steps of callers that send nothing. *)
LEMMA CallerStep ==
  ASSUME IInv, NEW c \in Callers, call(c) \/ panic(c) \/ leave(c)
  PROVE  IInv'
<1>1. UNCHANGED <<service, plainVars, prefixedVars, queue, task, latest>>
  BY DEF call, panic, leave
<1>2. LeavingInv'
  BY LeavingCaller DEF IInv
<1>3. \A a : /\ Pending(a)' = Pending(a) /\ StoredAt(a)' = StoredAt(a) /\ RecordAt(a)' = RecordAt(a)
  BY <1>1 DEF Pending, StoredAt, Stored, Prefixed!Stored, RecordAt, plainVars, vars, prefixedVars
<1> QED
  BY <1>1, <1>2, <1>3 DEF IInv, RecordsOK, WriterOnly, Addresses, LatestOK, plainVars, vars, prefixedVars

(* A replacement becomes the last one under way when it is sent. *)
LEMMA StorageSendStep ==
  ASSUME IInv, NEW c \in Callers, send(c)
  PROVE  IInv'
<1>1. PICK r \in RequestsOf(c) : queue' = Append(queue, [from |-> c, request |-> r]) /\ Sent(c, r)
  BY DEF send
<1> DEFINE m == [from |-> c, request |-> r]
<1>2. /\ LeavingInv' /\ queue \in Seq(Message) /\ m \in Message /\ m.from = c /\ m.request = r
      /\ r.type \in Changes => c = Writer
      /\ c = Writer => r.at \in Addresses
      /\ task = "running" /\ UNCHANGED <<service, plainVars, prefixedVars, task>>
      /\ latest' = IF r.type = "Replace" THEN [latest EXCEPT ![r.at] = r.entry] ELSE latest
  BY <1>1, LeavingSend, RequestTypes DEF send, Sent, IInv, LeavingInv, TypeInv, Message
<1>3. /\ DOMAIN queue' = 1..(Len(queue) + 1) /\ DOMAIN queue = 1..Len(queue) /\ Len(queue) \in Nat
      /\ \A i \in DOMAIN queue : queue'[i] = queue[i]
      /\ queue'[Len(queue) + 1] = m
  BY <1>1, <1>2
<1> HIDE DEF m
<1>4. Addresses' = Addresses /\ Addresses \subseteq Keys \cup Slots
  BY <1>2 DEF Addresses
<1>5. RecordsOK' /\ \A a \in Addresses : /\ StoredAt(a)' = StoredAt(a) /\ RecordAt(a)' = RecordAt(a)
                                        /\ latest'[a] = IF r.type = "Replace" /\ r.at = a THEN r.entry ELSE latest[a]
  BY <1>2, <1>4 DEF IInv, RecordsOK, StoredAt, Stored, Prefixed!Stored, RecordAt, plainVars, vars, prefixedVars
<1>6. WriterOnly'
  BY <1>2, <1>3, <1>4 DEF IInv, WriterOnly
<1>7. ASSUME NEW a \in Addresses
      PROVE  LatestOK(a)'
  <2>1. LatestOK(a)
    BY <1>2, <1>7 DEF IInv
  <2>2. CASE r.type = "Replace" /\ r.at = a
    <3>1. Len(queue) + 1 \in Pending(a)' /\ \A i \in Pending(a)' : i \in 1..(Len(queue) + 1)
      BY <1>2, <1>3, <2>2 DEF Pending
    <3>2. ASSUME NEW i \in Pending(a)', \A j \in Pending(a)' : j <= i
          PROVE  queue'[i].request.entry = latest'[a]
      <4>1. i = Len(queue) + 1
        BY <1>3, <3>1, <3>2
      <4> QED
        BY <1>2, <1>3, <1>5, <2>2, <4>1
    <3> QED
      BY <3>1, <3>2 DEF LatestOK
  <2>3. CASE ~(r.type = "Replace" /\ r.at = a)
    <3>1. Pending(a)' = Pending(a) /\ \A i \in Pending(a) : queue'[i] = queue[i]
      BY <1>2, <1>3, <2>3 DEF Pending
    <3> QED
      BY <1>5, <2>1, <2>3, <3>1 DEF LatestOK
  <2> QED
    BY <2>2, <2>3
<1> QED
  BY <1>2, <1>4, <1>5, <1>6, <1>7 DEF IInv

(* What serving a request makes of a record of the plain storage. *)
LEMMA PlainEffect ==
  ASSUME RecordsOK, NEW r \in AnyRequest, r.type \in Changes => r.at \in Keys, PlainServes(r)
  PROVE  /\ direct_records' \in [Keys -> StorageEntry \cup {NoRecord}] /\ UNCHANGED prefixed_records
         /\ \A a \in Keys :
              \/ direct_records'[a] = NoRecord
              \/ /\ direct_records'[a] = direct_records[a]
                 /\ ~(r.type = "Replace" /\ r.at = a /\ Stored(a))
              \/ /\ r.at = a /\ direct_records'[a] = r.entry
                 /\ \/ r.type = "Write" /\ ~Stored(a)
                    \/ r.type = "Replace" /\ Stored(a)
<1>1. UNCHANGED prefixed_records
  BY DEF PlainServes, prefixedVars
<1>2. CASE r.type = "Write" /\ ~Stored(r.at)
  <2>1. insert(r.at, r.entry)
    BY <1>2 DEF PlainServes
  <2> QED
    BY <1>1, <1>2, <2>1 DEF insert, prune, RecordsOK, AnyRequest, Changes, Stored
<1>3. CASE r.type = "Replace" /\ Stored(r.at)
  <2>1. replace(r.at, r.entry)
    BY <1>3 DEF PlainServes
  <2> QED
    BY <1>1, <1>3, <2>1 DEF replace, RecordsOK, AnyRequest, Changes, Stored
<1>4. CASE r.type = "Delete" /\ Stored(r.at)
  <2>1. delete(r.at)
    BY <1>4 DEF PlainServes
  <2> QED
    BY <1>1, <1>4, <2>1 DEF delete, RecordsOK, AnyRequest, Changes, Stored
<1>5. CASE /\ ~(r.type = "Write" /\ ~Stored(r.at)) /\ ~(r.type = "Replace" /\ Stored(r.at))
           /\ ~(r.type = "Delete" /\ Stored(r.at))
  <2>1. UNCHANGED direct_records
    BY <1>5 DEF PlainServes, plainVars, vars
  <2> QED
    BY <1>1, <1>5, <2>1 DEF RecordsOK
<1> QED
  BY <1>2, <1>3, <1>4, <1>5

(* The same of the prefixed storage. *)
LEMMA PrefixedEffect ==
  ASSUME RecordsOK, NEW r \in AnyRequest, r.type \in Changes => r.at \in Slots, PrefixedServes(r)
  PROVE  /\ prefixed_records' \in [Slots -> StorageEntry \cup {NoRecord}] /\ UNCHANGED direct_records
         /\ \A a \in Slots :
              \/ prefixed_records'[a] = NoRecord
              \/ /\ prefixed_records'[a] = prefixed_records[a]
                 /\ ~(r.type = "Replace" /\ r.at = a /\ Prefixed!Stored(a))
              \/ /\ r.at = a /\ prefixed_records'[a] = r.entry
                 /\ \/ r.type = "Write" /\ ~Prefixed!Stored(a)
                    \/ r.type = "Replace" /\ Prefixed!Stored(a)
<1>1. UNCHANGED direct_records
  BY DEF PrefixedServes, plainVars, vars
<1>2. CASE r.type = "Write" /\ ~Prefixed!Stored(r.at)
  <2>1. Prefixed!insert_prefix(r.at, r.entry)
    BY <1>2 DEF PrefixedServes
  <2> QED
    BY <1>1, <1>2, <2>1 DEF Prefixed!insert_prefix, Prefixed!prune, RecordsOK, AnyRequest, Changes, Prefixed!Stored
<1>3. CASE r.type = "Replace" /\ Prefixed!Stored(r.at)
  <2>1. Prefixed!replace_prefixed(r.at, r.entry)
    BY <1>3 DEF PrefixedServes
  <2> QED
    BY <1>1, <1>3, <2>1 DEF Prefixed!replace_prefixed, RecordsOK, AnyRequest, Changes, Prefixed!Stored
<1>4. CASE r.type = "Delete" /\ Prefixed!Stored(r.at)
  <2>1. Prefixed!delete_prefix(r.at)
    BY <1>4 DEF PrefixedServes
  <2> QED
    BY <1>1, <1>4, <2>1 DEF Prefixed!delete_prefix, RecordsOK, AnyRequest, Changes, Prefixed!Stored
<1>5. CASE /\ ~(r.type = "Write" /\ ~Prefixed!Stored(r.at)) /\ ~(r.type = "Replace" /\ Prefixed!Stored(r.at))
           /\ ~(r.type = "Delete" /\ Prefixed!Stored(r.at))
  <2>1. UNCHANGED prefixed_records
    BY <1>5 DEF PrefixedServes
  <2> QED
    BY <1>1, <1>5, <2>1 DEF RecordsOK
<1> QED
  BY <1>2, <1>3, <1>4, <1>5

(* Both storages at once: what a request makes of a record the callers use. *)
LEMMA Effect ==
  ASSUME RecordsOK, NEW r \in AnyRequest, r.type \in Changes => r.at \in Addresses, UNCHANGED service,
         IF service = "plain" THEN PlainServes(r) ELSE PrefixedServes(r)
  PROVE  /\ direct_records' \in [Keys -> StorageEntry \cup {NoRecord}]
         /\ prefixed_records' \in [Slots -> StorageEntry \cup {NoRecord}]
         /\ \A a \in Addresses :
              \/ ~StoredAt(a)'
              \/ /\ RecordAt(a)' = RecordAt(a) /\ StoredAt(a)
                 /\ ~(r.type = "Replace" /\ r.at = a)
              \/ /\ r.at = a /\ RecordAt(a)' = r.entry
                 /\ \/ r.type = "Write" /\ ~StoredAt(a)
                    \/ r.type = "Replace" /\ StoredAt(a)
<1>1. CASE service = "plain"
  <2>1. r.type \in Changes => r.at \in Keys
    BY <1>1 DEF Addresses
  <2>2. PlainServes(r)
    BY <1>1
  <2> QED
    BY <1>1, <2>1, <2>2, PlainEffect DEF Addresses, StoredAt, RecordAt, Stored, RecordsOK
<1>2. CASE service # "plain"
  <2>1. r.type \in Changes => r.at \in Slots
    BY <1>2 DEF Addresses
  <2>2. PrefixedServes(r)
    BY <1>2
  <2> QED
    BY <1>2, <2>1, <2>2, PrefixedEffect DEF Addresses, StoredAt, RecordAt, Prefixed!Stored, RecordsOK
<1> QED
  BY <1>1, <1>2

(* The task serves a request: the replacements under way move up by one, and the
   one that was the last of its record has become the record. *)
LEMMA ServeStep ==
  ASSUME IInv, api_handler_task
  PROVE  IInv'
<1> DEFINE c == Head(queue).from
           r == Head(queue).request
<1>1. /\ LeavingInv /\ LeavingInv' /\ RecordsOK /\ WriterOnly /\ QueueOK
      /\ queue # <<>> /\ queue \in Seq(Message) /\ task = "running" /\ UNCHANGED service
  BY ServeShape, LeavingServe DEF IInv, LeavingInv, TypeInv
<1>2. /\ 1 \in DOMAIN queue /\ queue[1].from = c /\ queue[1].request = r
      /\ c \in Callers /\ r \in AnyRequest /\ r.type \in Types
  <2>1. 1 \in DOMAIN queue /\ Head(queue) = queue[1] /\ queue[1] \in Message
    BY <1>1
  <2> QED
    BY <2>1 DEF Message, AnyRequest
<1>3. r.type \in Changes => r.at \in Addresses /\ c = Writer
  BY <1>1, <1>2 DEF WriterOnly
<1>4. /\ IF service = "plain" THEN PlainServes(r) ELSE PrefixedServes(r)
      /\ latest' = [a \in Keys \cup Slots |->
           IF a \notin Addresses \/ ~StoredAt(a)' THEN NoRecord
           ELSE IF r.type = "Write" /\ r.at = a /\ ~StoredAt(a) THEN r.entry ELSE latest[a]]
  BY DEF api_handler_task, Serves, Responds, Unheard
<1>5. /\ Addresses' = Addresses /\ Addresses \subseteq Keys \cup Slots
  BY <1>1 DEF Addresses
<1> HIDE DEF c, r
<1>6. /\ direct_records' \in [Keys -> StorageEntry \cup {NoRecord}]
      /\ prefixed_records' \in [Slots -> StorageEntry \cup {NoRecord}]
      /\ \A a \in Addresses :
           \/ ~StoredAt(a)'
           \/ /\ RecordAt(a)' = RecordAt(a) /\ StoredAt(a)
              /\ ~(r.type = "Replace" /\ r.at = a)
           \/ /\ r.at = a /\ RecordAt(a)' = r.entry
              /\ \/ r.type = "Write" /\ ~StoredAt(a)
                 \/ r.type = "Replace" /\ StoredAt(a)
  BY <1>1, <1>2, <1>3, <1>4, Effect
<1>7. RecordsOK'
  BY <1>4, <1>6 DEF RecordsOK
<1>8. \/ task' = "panicked" /\ queue' = <<>>
      \/ task' = "running" /\ queue' = Tail(queue)
  BY <1>1, ServeShape
<1>9. CASE task' = "panicked" /\ queue' = <<>>
  <2>1. DOMAIN queue' = {} /\ task' # "running"
    BY <1>9
  <2> QED
    BY <1>1, <1>7, <2>1 DEF IInv, WriterOnly
<1>10. CASE task' = "running" /\ queue' = Tail(queue)
  <2>1. /\ \A i \in DOMAIN queue' : i \in Nat /\ i + 1 \in DOMAIN queue /\ i + 1 > 1 /\ queue'[i] = queue[i + 1]
        /\ \A i \in DOMAIN queue : i \in Nat /\ (i = 1 \/ (i - 1 \in DOMAIN queue' /\ queue'[i - 1] = queue[i]))
    BY <1>1, <1>10
  <2>2. WriterOnly'
    BY <1>1, <1>5, <2>1 DEF WriterOnly
  <2>3. ASSUME NEW a \in Addresses, StoredAt(a)'
        PROVE  /\ \A i \in Pending(a)' : (\A j \in Pending(a)' : j <= i) => queue'[i].request.entry = latest'[a]
               /\ Pending(a)' = {} => RecordAt(a)' = latest'[a]
    <3>1. CASE r.at = a /\ RecordAt(a)' = r.entry /\ r.type = "Write" /\ ~StoredAt(a)
      <4>1. latest'[a] = r.entry
        BY <1>4, <1>5, <2>3, <3>1
      <4>2. \A j \in DOMAIN queue' : queue'[j].from # Writer
        BY <1>1, <1>2, <1>3, <2>1, <3>1 DEF QueueOK, Changes
      <4>3. Pending(a)' = {}
        BY <2>2, <4>2 DEF Pending, WriterOnly, Changes
      <4> QED
        BY <3>1, <4>1, <4>3
    <3>2. CASE StoredAt(a) /\ ~(r.type = "Replace" /\ r.at = a) /\ RecordAt(a)' = RecordAt(a)
      <4>1. latest'[a] = latest[a]
        BY <1>4, <1>5, <2>3, <3>2
      <4>2. LatestOK(a)
        BY <1>1 DEF IInv
      <4>3. /\ \A i \in Pending(a)' : i + 1 \in Pending(a) /\ i \in Nat /\ queue'[i] = queue[i + 1]
            /\ \A i \in Pending(a) : i - 1 \in Pending(a)' /\ i \in Nat
        BY <1>2, <2>1, <3>2 DEF Pending
      <4>4. ASSUME NEW i \in Pending(a)', \A j \in Pending(a)' : j <= i
            PROVE  queue'[i].request.entry = latest'[a]
        <5>1. \A j \in Pending(a) : j <= i + 1
          BY <4>3, <4>4
        <5> QED
          BY <3>2, <4>1, <4>2, <4>3, <4>4, <5>1 DEF LatestOK
      <4>5. Pending(a)' = {} => Pending(a) = {}
        BY <4>3
      <4> QED
        BY <3>2, <4>1, <4>2, <4>4, <4>5 DEF LatestOK
    <3>3. CASE r.at = a /\ RecordAt(a)' = r.entry /\ r.type = "Replace" /\ StoredAt(a)
      <4>1. latest'[a] = latest[a]
        BY <1>4, <1>5, <2>3, <3>3
      <4>2. LatestOK(a)
        BY <1>1 DEF IInv
      <4>3. /\ 1 \in Pending(a)
            /\ \A i \in Pending(a)' : i + 1 \in Pending(a) /\ i \in Nat /\ queue'[i] = queue[i + 1]
            /\ \A i \in Pending(a) : i \in Nat /\ (i = 1 \/ i - 1 \in Pending(a)')
        BY <1>2, <2>1, <3>3 DEF Pending
      <4>4. ASSUME NEW i \in Pending(a)', \A j \in Pending(a)' : j <= i
            PROVE  queue'[i].request.entry = latest'[a]
        <5>1. \A j \in Pending(a) : j <= i + 1
          BY <4>3, <4>4
        <5> QED
          BY <3>3, <4>1, <4>2, <4>3, <4>4, <5>1 DEF LatestOK
      <4>5. ASSUME Pending(a)' = {}
            PROVE  RecordAt(a)' = latest'[a]
        <5>1. \A j \in Pending(a) : j <= 1
          BY <4>3, <4>5
        <5> QED
          BY <1>2, <3>3, <4>1, <4>2, <4>3, <5>1 DEF LatestOK
      <4> QED
        BY <4>4, <4>5
    <3> QED
      BY <1>6, <2>3, <3>1, <3>2, <3>3
  <2> QED
    BY <1>1, <1>5, <1>7, <2>2, <2>3 DEF IInv, LatestOK
<1> QED
  BY <1>8, <1>9, <1>10

(* The invariant holds of every execution. *)
LEMMA IInvHolds == StorageSpec => []IInv
<1>1. ASSUME IInv, [StorageNext]_storageVars
      PROVE  IInv'
  <2>1. CASE UNCHANGED storageVars
    <3>1. \A a : Pending(a)' = Pending(a) /\ StoredAt(a)' = StoredAt(a) /\ RecordAt(a)' = RecordAt(a)
      BY <2>1 DEF Pending, StoredAt, Stored, Prefixed!Stored, RecordAt, storageVars, plainVars, vars,
         prefixedVars, protocol
    <3>2. LeavingInv'
      BY <1>1, LeavingStep DEF IInv
    <3> QED
      BY <1>1, <2>1, <3>1, <3>2 DEF IInv, RecordsOK, WriterOnly, Addresses, LatestOK, storageVars, plainVars,
         vars, prefixedVars, protocol
  <2>2. CASE StorageNext
    BY <1>1, <2>2, CallerStep, StorageSendStep, ServeStep DEF StorageNext, Callers
  <2> QED
    BY <1>1, <2>1, <2>2
<1> QED
  BY <1>1, InitIInv, PTL DEF StorageSpec

(* What the collector reads is what it last wrote or put there, or nothing: that
   storage_replace does not wait cannot make a later storage_read of the writer
   return an older record. *)
THEOREM WriterReadsItsWrites == StorageSpec => []ReadsOwnWrites
<1>1. ASSUME IInv, queue # <<>>, Head(queue).from = Writer, Head(queue).request.type = "Read"
      PROVE  Answers(Head(queue).request) \subseteq {NoRecord, latest[Head(queue).request.at]}
  <2> DEFINE r == Head(queue).request
             a == r.at
  <2>1. /\ queue \in Seq(Message) /\ QueueOK /\ WriterOnly /\ task \in {"running", "panicked"} /\ TaskOK
        /\ task = "running" => \A b \in Addresses : LatestOK(b)
    BY <1>1 DEF IInv, LeavingInv, TypeInv
  <2>2. task = "running"
    BY <1>1, <2>1 DEF TaskOK
  <2>3. 1 \in DOMAIN queue /\ queue[1] = Head(queue) /\ \A i \in DOMAIN queue : i = 1 \/ i > 1
    BY <1>1, <2>1
  <2>4. a \in Addresses
    BY <1>1, <2>1, <2>3 DEF WriterOnly
  <2>5. Pending(a) = {}
    BY <1>1, <2>1, <2>3 DEF Pending, QueueOK, WriterOnly, Changes
  <2>6. RecordAt(a) \in {NoRecord, latest[a]}
    BY <2>1, <2>2, <2>4, <2>5 DEF LatestOK, StoredAt, RecordAt, Stored, Prefixed!Stored
  <2>7. Answers(r) = {RecordAt(a)}
    BY <1>1 DEF Answers
  <2> QED
    BY <2>6, <2>7
<1>2. IInv => ReadsOwnWrites
  BY <1>1 DEF ReadsOwnWrites
<1> QED
  BY <1>2, IInvHolds, PTL
-----------------------------------------------------------------------------

Proved == INSTANCE RequestExecutorProofs

(* The executor starts as it does alone. *)
LEMMA StartsAlike == Init => Proved!build
BY DEF Init, Executor!build, Proved!build, Executor!Running, Proved!Running, Executor!Idle, Proved!Idle,
   Executor!Close, Proved!Close

(* Every step is one of the executor, or leaves it alone. *)
LEMMA StepsAlike == [ServicesNext]_servicesVars => [Proved!Next]_(Proved!vars)
<1>1. Executor!Next => Proved!Next
  BY DEF Executor!Next, Proved!Next,
     Executor!Running, Proved!Running, Executor!Idle, Proved!Idle, Executor!Close, Proved!Close,
     Executor!Returned, Proved!Returned, Executor!Ended, Proved!Ended, Executor!InQueue, Proved!InQueue,
     Executor!Rpc, Proved!Rpc, Executor!call, Proved!call, Executor!send, Proved!send,
     Executor!send_fails, Proved!send_fails, Executor!recv_fails, Proved!recv_fails,
     Executor!close, Proved!close, Executor!close_node, Proved!close_node,
     Executor!closed, Proved!closed, Executor!drop, Proved!drop, Executor!Ends, Proved!Ends,
     Executor!Receiving, Proved!Receiving, Executor!receive, Proved!receive,
     Executor!receive_fails, Proved!receive_fails, Executor!Serving, Proved!Serving,
     Executor!answer, Proved!answer, Executor!retriable_error, Proved!retriable_error,
     Executor!other_error, Proved!other_error, Executor!broadcast, Proved!broadcast,
     Executor!ResponseOf, Proved!ResponseOf, Executor!Expected, Proved!Expected
<1> QED
  BY <1>1 DEF ServicesNext, servicesVars, executorVars, Proved!vars

(* A call to a node fails only for a cause of that node: whatever the other tasks
   ask, whichever nodes fail and however often requests are retried, requests queued
   ahead of a close() are answered, a backend gives up after max_count retries and
   not before, and no answer is refused (execute_request, wrap_backend_call!). *)
THEOREM CallsFailForCauses == ServicesSpec => []FailuresHaveCauses
<1>1. Proved!ExecutorConstants
  BY ExecutorAssumption DEF Executor!ExecutorConstants, Proved!ExecutorConstants, Executor!Expected, Proved!Expected
<1>2. Proved!build /\ [][Proved!Next]_(Proved!vars) => []Proved!FailuresHaveCauses
  BY <1>1, Proved!StepsKeepToCauses
<1>3. Proved!FailuresHaveCauses => FailuresHaveCauses
  BY DEF FailuresHaveCauses, Proved!FailuresHaveCauses, Executor!FailuresHaveCauses, Executor!Expected,
     Proved!Expected, Executor!ResponseOf, Proved!ResponseOf
<1> QED
  BY <1>2, <1>3, StartsAlike, StepsAlike, PTL DEF ServicesSpec
-----------------------------------------------------------------------------
(* An update that is in the channel, and one that a client has got or is about to. *)
Queued(n) == \E i \in DOMAIN to_websocket : to_websocket[i] = n
Has(c, n) == (\E i \in DOMAIN client[c].got : client[c].got[i] = n) \/ (client[c].update = n /\ n # 0)

ClientState ==
  [task : {"none", "receiving", "sending", "ended"}, link : {"up", "down"}, update : Nat, got : Seq(Nat)]

ListenerTypes ==
  /\ sender \in {"running", "sending", "ended"}
  /\ events \in Nat /\ to_websocket \in Seq(Nat) /\ client \in [WsClients -> ClientState]
  /\ sender = "sending" => events >= 1

(* An update that has been sent. *)
Emitted(n) == n >= 1 /\ n <= events /\ (sender = "sending" => n # events)

(* The channel is in order. *)
ChannelOK ==
  /\ \A i \in DOMAIN to_websocket : Emitted(to_websocket[i])
  /\ \A i, j \in DOMAIN to_websocket : i < j => to_websocket[i] < to_websocket[j]

(* A client has got updates from before those in the channel, in order, and holds the
   latest of them while it is to be sent. *)
ClientOK(c) ==
  LET s == client[c] IN
  /\ \A n \in Nat : Has(c, n) => Emitted(n) /\ \A i \in DOMAIN to_websocket : n < to_websocket[i]
  /\ s.task \in {"none", "receiving"} => s.update = 0
  /\ s.task = "sending" => s.update # 0 /\ \A i \in DOMAIN s.got : s.got[i] < s.update
  /\ \A i, j \in DOMAIN s.got : i < j => s.got[i] < s.got[j]

(* Nobody else has it. *)
NotShared == \A c, d \in WsClients, n \in Nat : c # d /\ Has(c, n) => ~Has(d, n)

(* None is lost. *)
NoneLost ==
  \A n \in Nat : Emitted(n) /\ (sender = "ended" => n # events) =>
    Queued(n) \/ \E c \in WsClients : Has(c, n)

ListenerInv ==
  ListenerTypes /\ ChannelOK /\ (\A c \in WsClients : ClientOK(c)) /\ NotShared /\ NoneLost

LEMMA ListenerInit == Listener!spawn => ListenerInv
<1> SUFFICES ASSUME Listener!spawn PROVE ListenerInv
  OBVIOUS
<1>1. \A c \in WsClients : client[c] = [task |-> "none", link |-> "down", update |-> 0, got |-> <<>>]
  BY DEF Listener!spawn, Listener!NotConnected
<1>2. ListenerTypes
  BY DEF Listener!spawn, Listener!NotConnected, ListenerTypes, ClientState
<1>3. to_websocket = <<>> /\ events = 0
  BY DEF Listener!spawn
<1>4. \A c \in WsClients, n \in Nat : ~Has(c, n)
  BY <1>1 DEF Has
<1>5. ChannelOK
  BY <1>3 DEF ChannelOK
<1>6. \A c \in WsClients : ClientOK(c)
  BY <1>1, <1>4 DEF ClientOK
<1>7. NotShared
  BY <1>4 DEF NotShared
<1>8. NoneLost
  BY <1>3 DEF NoneLost, Emitted
<1> QED BY <1>2, <1>5, <1>6, <1>7, <1>8 DEF ListenerInv

(* The collector moves without sending, or ends. *)
LEMMA SenderStep ==
  ASSUME ListenerInv, Listener!process_event \/ Listener!send_fails \/ Listener!sender_on_shutdown
  PROVE  ListenerInv'
<1>1. /\ ListenerTypes'
      /\ to_websocket' = to_websocket /\ client' = client
      /\ \A n \in Nat : Emitted(n) => Emitted(n)'
      /\ \A n \in Nat : (Emitted(n) /\ (sender = "ended" => n # events))' =>
                          Emitted(n) /\ (sender = "ended" => n # events)
  BY DEF ListenerInv, ListenerTypes, Emitted, Listener!process_event, Listener!send_fails, Listener!sender_on_shutdown
<1>2. \A c \in WsClients, n \in Nat : Has(c, n)' <=> Has(c, n)
  BY <1>1 DEF Has
<1>3. ChannelOK'
  BY <1>1 DEF ListenerInv, ListenerTypes, ChannelOK
<1>4. \A c \in WsClients : ClientOK(c)'
  BY <1>1, <1>2 DEF ListenerInv, ClientOK
<1>5. NotShared'
  BY <1>2 DEF ListenerInv, NotShared
<1>6. NoneLost'
  BY <1>1, <1>2 DEF ListenerInv, NoneLost, Queued
<1> QED BY <1>1, <1>3, <1>4, <1>5, <1>6 DEF ListenerInv

(* An update is sent: it is the newest. *)
LEMMA SendStep ==
  ASSUME ListenerInv, Listener!send
  PROVE  ListenerInv'
<1>1. /\ sender = "sending" /\ sender' = "running"
      /\ events \in Nat /\ events >= 1 /\ events' = events /\ client' = client
      /\ to_websocket \in Seq(Nat) /\ to_websocket' = Append(to_websocket, events)
  BY DEF ListenerInv, ListenerTypes, Listener!send
<1>2. /\ DOMAIN to_websocket' = 1 .. Len(to_websocket) + 1 /\ DOMAIN to_websocket = 1 .. Len(to_websocket)
      /\ \A i \in DOMAIN to_websocket : to_websocket'[i] = to_websocket[i] /\ to_websocket[i] \in Nat
      /\ to_websocket'[Len(to_websocket) + 1] = events
      /\ Len(to_websocket) \in Nat
  BY <1>1
<1>3. ListenerTypes'
  BY <1>1 DEF ListenerInv, ListenerTypes
<1>4. \A n \in Nat : Emitted(n)' <=> n >= 1 /\ n <= events
  BY <1>1 DEF Emitted
<1>5. \A n \in Nat : Emitted(n) <=> n >= 1 /\ n < events
  BY <1>1 DEF Emitted
<1>6. \A c \in WsClients, n \in Nat : Has(c, n)' <=> Has(c, n)
  BY <1>1 DEF Has
<1>7. ChannelOK'
  <2>1. \A i \in DOMAIN to_websocket : Emitted(to_websocket[i])
    BY DEF ListenerInv, ChannelOK
  <2>2. ASSUME NEW i \in DOMAIN to_websocket'
        PROVE  Emitted(to_websocket[i])'
    <3>1. CASE i \in DOMAIN to_websocket
      BY <3>1, <2>1, <1>1, <1>2 DEF Emitted
    <3>2. CASE i = Len(to_websocket) + 1
      BY <3>2, <1>1, <1>2 DEF Emitted
    <3> QED BY <3>1, <3>2, <1>2
  <2>3. ASSUME NEW i \in DOMAIN to_websocket', NEW j \in DOMAIN to_websocket', i < j
        PROVE  to_websocket'[i] < to_websocket'[j]
    <3>1. i \in DOMAIN to_websocket
      BY <2>3, <1>2
    <3>2. CASE j \in DOMAIN to_websocket
      BY <3>1, <3>2, <2>3, <1>2 DEF ListenerInv, ChannelOK
    <3>3. CASE j = Len(to_websocket) + 1
      BY <3>1, <3>3, <2>1, <1>1, <1>2 DEF Emitted
    <3> QED BY <3>2, <3>3, <1>2
  <2> QED BY <2>2, <2>3 DEF ChannelOK
<1>8. \A c \in WsClients : ClientOK(c)'
  <2>1. ASSUME NEW c \in WsClients, NEW n \in Nat, Has(c, n)'
        PROVE  Emitted(n)' /\ \A i \in DOMAIN to_websocket' : n < to_websocket'[i]
    <3>1. Emitted(n) /\ \A i \in DOMAIN to_websocket : n < to_websocket[i]
      BY <2>1, <1>6 DEF ListenerInv, ClientOK
    <3>2. n < events
      BY <3>1, <1>5
    <3>3. Emitted(n)'
      BY <3>1, <3>2, <1>1 DEF Emitted
    <3>4. ASSUME NEW i \in DOMAIN to_websocket' PROVE n < to_websocket'[i]
      <4>1. CASE i \in DOMAIN to_websocket
        BY <4>1, <3>1, <1>2
      <4>2. CASE i = Len(to_websocket) + 1
        BY <4>2, <3>2, <1>2
      <4> QED BY <4>1, <4>2, <1>2
    <3> QED BY <3>3, <3>4
  <2> QED BY <2>1, <1>1 DEF ListenerInv, ClientOK
<1>9. NotShared'
  BY <1>6 DEF ListenerInv, NotShared
<1>10. NoneLost'
  <2>1. ASSUME NEW n \in Nat, Emitted(n)'
        PROVE  Queued(n)' \/ \E c \in WsClients : Has(c, n)'
    <3>1. CASE n = events
      BY <3>1, <1>2 DEF Queued
    <3>2. CASE n # events
      <4>1. Emitted(n)
        BY <2>1, <3>2, <1>1, <1>4, <1>5
      <4>2. Queued(n) \/ \E c \in WsClients : Has(c, n)
        BY <4>1, <1>1 DEF ListenerInv, NoneLost
      <4>3. Queued(n) => Queued(n)'
        <5>1. ASSUME NEW i \in DOMAIN to_websocket, to_websocket[i] = n
              PROVE  i \in DOMAIN to_websocket' /\ to_websocket'[i] = n
          BY <5>1, <1>2
        <5> QED BY <5>1 DEF Queued
      <4> QED BY <4>2, <4>3, <1>6
    <3> QED BY <3>1, <3>2
  <2> QED BY <2>1 DEF NoneLost
<1> QED BY <1>3, <1>7, <1>8, <1>9, <1>10 DEF ListenerInv

(* The server, a shutdown, or a client that hangs up. *)
LEMMA QuietStep ==
  ASSUME ListenerInv,
         Listener!shutdown \/ Listener!server_ends \/ \E c \in WsClients : Listener!hang_up(c)
  PROVE  ListenerInv'
<1>1. /\ UNCHANGED <<sender, events, to_websocket>>
      /\ client' \in [WsClients -> ClientState]
      /\ \A c \in WsClients : /\ client'[c].task = client[c].task
                              /\ client'[c].update = client[c].update
                              /\ client'[c].got = client[c].got
  <2>1. CASE Listener!shutdown \/ Listener!server_ends
    BY <2>1 DEF ListenerInv, ListenerTypes, Listener!shutdown, Listener!server_ends
  <2>2. ASSUME NEW c \in WsClients, Listener!hang_up(c)
        PROVE  <1>1!:
    BY <2>2 DEF ListenerInv, ListenerTypes, ClientState, Listener!hang_up
  <2> QED BY <2>1, <2>2
<1>2. ListenerTypes'
  BY <1>1 DEF ListenerInv, ListenerTypes
<1>3. \A n \in Nat : Emitted(n)' <=> Emitted(n)
  BY <1>1 DEF Emitted
<1>4. \A c \in WsClients, n \in Nat : Has(c, n)' <=> Has(c, n)
  BY <1>1 DEF Has
<1>5. ChannelOK'
  BY <1>1 DEF ListenerInv, ChannelOK, Emitted
<1>6. \A c \in WsClients : ClientOK(c)'
  BY <1>1, <1>3, <1>4 DEF ListenerInv, ClientOK
<1>7. NotShared'
  BY <1>4 DEF ListenerInv, NotShared
<1>8. NoneLost'
  BY <1>1, <1>3, <1>4 DEF ListenerInv, NoneLost, Queued
<1> QED BY <1>2, <1>5, <1>6, <1>7, <1>8 DEF ListenerInv

(* A client whose task changes without taking from the channel: it has what it had. *)
LEMMA TaskStep ==
  ASSUME ListenerInv, NEW c \in WsClients,
         Listener!ws_handler(c) \/ Listener!send_update(c) \/ (Listener!take_update(c) /\ to_websocket = <<>>)
  PROVE  ListenerInv'
<1>1. /\ UNCHANGED <<sender, events, to_websocket>>
      /\ client \in [WsClients -> ClientState]
  BY DEF ListenerInv, ListenerTypes, Listener!ws_handler, Listener!send_update, Listener!take_update
<1>2. \A d \in WsClients : d # c => client'[d] = client[d]
  BY <1>1 DEF Listener!ws_handler, Listener!send_update, Listener!take_update
<1>3. ClientOK(c) /\ client[c] \in ClientState
  BY <1>1 DEF ListenerInv
<1>4. /\ client' \in [WsClients -> ClientState]
      /\ \A n \in Nat : Has(c, n)' <=> Has(c, n)
      /\ client'[c].task \in {"none", "receiving"} => client'[c].update = 0
      /\ client'[c].task # "sending"
      /\ \A i, j \in DOMAIN client'[c].got : i < j => client'[c].got[i] < client'[c].got[j]
  <2>1. CASE Listener!ws_handler(c) \/ (Listener!take_update(c) /\ to_websocket = <<>>)
    <3>1. /\ client' \in [WsClients -> ClientState]
          /\ client'[c].update = client[c].update /\ client'[c].got = client[c].got
          /\ client[c].task \in {"none", "receiving"}
          /\ client'[c].task \in {"receiving", "ended"}
      <4>1. CASE Listener!ws_handler(c)
        <5>1. client' = [client EXCEPT ![c] = [@ EXCEPT !.task = "receiving", !.link = "up"]]
          BY <4>1 DEF Listener!ws_handler
        <5> QED BY <4>1, <5>1, <1>1 DEF ClientState, Listener!ws_handler
      <4>2. CASE Listener!take_update(c) /\ to_websocket = <<>>
        BY <4>2, <1>1 DEF ClientState, Listener!take_update
      <4> QED BY <2>1, <4>1, <4>2
    <3> QED BY <3>1, <1>3 DEF Has, ClientOK
  <2>2. CASE Listener!send_update(c) /\ client[c].link # "up"
    <3>1. /\ client' \in [WsClients -> ClientState]
          /\ client'[c].update = client[c].update /\ client'[c].got = client[c].got
          /\ client'[c].task = "ended"
      BY <2>2, <1>1 DEF ClientState, Listener!send_update
    <3> QED BY <3>1, <1>3 DEF Has, ClientOK
  <2>3. CASE Listener!send_update(c) /\ client[c].link = "up"
    <3> DEFINE after == [task |-> "receiving", link |-> "up", update |-> 0,
                         got |-> Append(client[c].got, client[c].update)]
    <3>1. client' = [client EXCEPT ![c] = after] /\ client[c].task = "sending"
      BY <2>3 DEF Listener!send_update
    <3>2. client[c].got \in Seq(Nat) /\ client[c].update \in Nat /\ client[c].update # 0
      BY <3>1, <1>3 DEF ClientState, ClientOK
    <3>11. after \in ClientState
      <4>1. Append(client[c].got, client[c].update) \in Seq(Nat)
        BY <3>2
      <4> QED BY <4>1 DEF ClientState
    <3>12. client'[c] = after
      <4> HIDE DEF after
      <4> QED BY <3>1, <1>1
    <3>3. /\ client'[c].task = "receiving" /\ client'[c].update = 0
          /\ client'[c].got = Append(client[c].got, client[c].update)
      BY <3>12
    <3>4. client' \in [WsClients -> ClientState]
      <4> HIDE DEF after
      <4> QED BY <3>1, <3>11, <1>1
    <3> DEFINE s == client[c].got
               l == Len(client[c].got)
    <3>5. /\ DOMAIN s = 1 .. l /\ l \in Nat /\ DOMAIN client'[c].got = 1 .. l + 1
          /\ \A i \in 1 .. l : client'[c].got[i] = s[i]
          /\ client'[c].got[l + 1] = client[c].update
      BY <3>2, <3>3
    <3>6. \A i \in DOMAIN s : s[i] < client[c].update
      BY <3>1, <1>3 DEF ClientOK
    <3>7. \A i, j \in DOMAIN s : i < j => s[i] < s[j]
      BY <1>3 DEF ClientOK
    <3> HIDE DEF s, l
    <3>8. \A i, j \in DOMAIN client'[c].got : i < j => client'[c].got[i] < client'[c].got[j]
      <4>1. ASSUME NEW i \in 1 .. l + 1, NEW j \in 1 .. l + 1, i < j
            PROVE  client'[c].got[i] < client'[c].got[j]
        <5>1. i \in 1 .. l
          BY <4>1, <3>5
        <5>2. CASE j \in 1 .. l
          BY <5>1, <5>2, <4>1, <3>5, <3>7
        <5>3. CASE j = l + 1
          BY <5>1, <5>3, <3>5, <3>6
        <5> QED BY <5>2, <5>3, <3>5
      <4> QED BY <4>1, <3>5
    <3>9. ASSUME NEW n \in Nat
          PROVE  Has(c, n)' <=> Has(c, n)
      <4>1. Has(c, n)' <=> \E i \in 1 .. l + 1 : client'[c].got[i] = n
        BY <3>3, <3>5 DEF Has
      <4>2. Has(c, n) <=> (\E i \in 1 .. l : s[i] = n) \/ client[c].update = n
        BY <3>2, <3>5 DEF Has, s
      <4>3. (\E i \in 1 .. l + 1 : client'[c].got[i] = n) <=>
              (\E i \in 1 .. l : client'[c].got[i] = n) \/ client'[c].got[l + 1] = n
        BY <3>5
      <4> QED BY <4>1, <4>2, <4>3, <3>5
    <3> QED BY <3>3, <3>4, <3>8, <3>9
  <2> QED BY <2>1, <2>2, <2>3
<1>5. \A d \in WsClients, n \in Nat : Has(d, n)' <=> Has(d, n)
  BY <1>2, <1>4 DEF Has
<1>6. ListenerTypes' /\ ChannelOK' /\ (\A n \in Nat : Emitted(n)' <=> Emitted(n))
  BY <1>1, <1>4 DEF ListenerInv, ListenerTypes, ChannelOK, Emitted
<1>7. \A d \in WsClients : ClientOK(d)'
  <2>1. ClientOK(c)'
    BY <1>1, <1>3, <1>4, <1>6 DEF ClientOK
  <2>2. ASSUME NEW d \in WsClients, d # c PROVE ClientOK(d)'
    BY <2>2, <1>1, <1>2, <1>5, <1>6 DEF ListenerInv, ClientOK
  <2> QED BY <2>1, <2>2
<1>8. NotShared'
  BY <1>5 DEF ListenerInv, NotShared
<1>9. NoneLost'
  BY <1>1, <1>5, <1>6 DEF ListenerInv, NoneLost, Queued
<1> QED BY <1>6, <1>7, <1>8, <1>9 DEF ListenerInv

(* A task takes the oldest update of the channel. *)
LEMMA TakeStep ==
  ASSUME ListenerInv, NEW c \in WsClients, Listener!take_update(c), to_websocket # <<>>
  PROVE  ListenerInv'
<1> DEFINE q == to_websocket
           h == Head(to_websocket)
<1>1. /\ UNCHANGED <<sender, events>>
      /\ client \in [WsClients -> ClientState] /\ q \in Seq(Nat) /\ q # <<>>
      /\ client' = [client EXCEPT ![c].task = "sending", ![c].update = h]
      /\ to_websocket' = Tail(q)
      /\ client[c].task = "receiving"
  BY DEF ListenerInv, ListenerTypes, Listener!take_update
<1>2. /\ DOMAIN q = 1 .. Len(q) /\ Len(q) \in Nat /\ Len(q) >= 1
      /\ h = q[1] /\ h \in Nat
      /\ DOMAIN to_websocket' = 1 .. Len(q) - 1 /\ to_websocket' \in Seq(Nat)
      /\ \A i \in 1 .. Len(q) - 1 : to_websocket'[i] = q[i + 1] /\ i + 1 \in DOMAIN q
  BY <1>1
<1>3. /\ Emitted(h) /\ h >= 1
      /\ \A i \in DOMAIN to_websocket' : Emitted(to_websocket'[i]) /\ h < to_websocket'[i]
      /\ \A i, j \in DOMAIN to_websocket' : i < j => to_websocket'[i] < to_websocket'[j]
  <2>1. \A i \in DOMAIN q : Emitted(q[i])
    BY DEF ListenerInv, ChannelOK
  <2>2. \A i, j \in DOMAIN q : i < j => q[i] < q[j]
    BY DEF ListenerInv, ChannelOK
  <2> HIDE DEF q, h
  <2>3. Emitted(h) /\ h >= 1
    BY <2>1, <1>2 DEF Emitted
  <2>4. ASSUME NEW i \in DOMAIN to_websocket'
        PROVE  Emitted(to_websocket'[i]) /\ h < to_websocket'[i]
    <3>1. to_websocket'[i] = q[i + 1] /\ i + 1 \in DOMAIN q /\ 1 \in DOMAIN q /\ 1 < i + 1
      BY <1>2
    <3> QED BY <3>1, <2>1, <2>2, <1>2
  <2>5. ASSUME NEW i \in DOMAIN to_websocket', NEW j \in DOMAIN to_websocket', i < j
        PROVE  to_websocket'[i] < to_websocket'[j]
    <3>1. /\ to_websocket'[i] = q[i + 1] /\ i + 1 \in DOMAIN q
          /\ to_websocket'[j] = q[j + 1] /\ j + 1 \in DOMAIN q /\ i + 1 < j + 1
      BY <2>5, <1>2
    <3> QED BY <3>1, <2>2
  <2> QED BY <2>3, <2>4, <2>5
<1> HIDE DEF q, h
<1>4. /\ client' \in [WsClients -> ClientState]
      /\ client'[c].task = "sending" /\ client'[c].update = h /\ client'[c].got = client[c].got
      /\ \A d \in WsClients : d # c => client'[d] = client[d]
  BY <1>1, <1>2 DEF ClientState
<1>5. \A n \in Nat : Emitted(n)' <=> Emitted(n)
  BY <1>1 DEF Emitted
<1>6. /\ client[c].update = 0
      /\ \A n \in Nat : Has(c, n)' <=> Has(c, n) \/ n = h
      /\ \A d \in WsClients, n \in Nat : d # c => (Has(d, n)' <=> Has(d, n))
  <2>1. client[c].update = 0
    BY <1>1 DEF ListenerInv, ClientOK
  <2> QED BY <2>1, <1>3, <1>4 DEF Has
<1>7. \A d \in WsClients, n \in Nat : Has(d, n) => Emitted(n) /\ n < h /\ \A i \in DOMAIN to_websocket' : n < to_websocket'[i]
  <2>1. ASSUME NEW d \in WsClients, NEW n \in Nat, Has(d, n)
        PROVE  Emitted(n) /\ \A i \in DOMAIN q : n < q[i]
    BY <2>1 DEF ListenerInv, ClientOK, q
  <2>2. ASSUME NEW d \in WsClients, NEW n \in Nat, Has(d, n), NEW i \in DOMAIN to_websocket'
        PROVE  n < to_websocket'[i]
    BY <2>1, <2>2, <1>2
  <2>3. ASSUME NEW d \in WsClients, NEW n \in Nat, Has(d, n)
        PROVE  n < h
    BY <2>1, <2>3, <1>2
  <2> QED BY <2>1, <2>2, <2>3
<1>8. ListenerTypes' /\ ChannelOK'
  BY <1>1, <1>2, <1>3, <1>4 DEF ListenerInv, ListenerTypes, ChannelOK, Emitted
<1>9. \A d \in WsClients : ClientOK(d)'
  <2>1. ClientOK(c)'
    <3>1. \A i \in DOMAIN client[c].got : client[c].got[i] \in Nat /\ Has(c, client[c].got[i])
      BY <1>1 DEF Has, ClientState
    <3>2. \A i \in DOMAIN client[c].got : client[c].got[i] < h
      BY <3>1, <1>7
    <3>3. \A i, j \in DOMAIN client[c].got : i < j => client[c].got[i] < client[c].got[j]
      BY DEF ListenerInv, ClientOK
    <3>4. \A n \in Nat : Has(c, n)' => Emitted(n)' /\ \A i \in DOMAIN to_websocket' : n < to_websocket'[i]
      BY <1>3, <1>5, <1>6, <1>7
    <3> QED BY <3>2, <3>3, <3>4, <1>3, <1>4 DEF ClientOK
  <2>2. ASSUME NEW d \in WsClients, d # c PROVE ClientOK(d)'
    <3>1. \A n \in Nat : Has(d, n)' => Emitted(n)' /\ \A i \in DOMAIN to_websocket' : n < to_websocket'[i]
      BY <2>2, <1>5, <1>6, <1>7
    <3> QED BY <2>2, <3>1, <1>4 DEF ListenerInv, ClientOK
  <2> QED BY <2>1, <2>2
<1>10. NotShared'
  <2>1. \A d \in WsClients : ~Has(d, h)
    BY <1>2, <1>7
  <2> QED BY <2>1, <1>6 DEF ListenerInv, NotShared
<1>11. NoneLost'
  <2>1. ASSUME NEW n \in Nat, Queued(n), n # h
        PROVE  Queued(n)'
    <3>1. PICK i \in DOMAIN q : q[i] = n
      BY <2>1 DEF Queued, q
    <3>2. i # 1 /\ i - 1 \in 1 .. Len(q) - 1
      BY <3>1, <2>1, <1>2
    <3>3. to_websocket'[i - 1] = n
      BY <3>1, <3>2, <1>2
    <3> QED BY <3>2, <3>3, <1>2 DEF Queued
  <2> QED BY <2>1, <1>1, <1>5, <1>6 DEF ListenerInv, NoneLost
<1> QED BY <1>8, <1>9, <1>10, <1>11 DEF ListenerInv

LEMMA ListenerStep == ListenerInv /\ [ServicesNext]_servicesVars => ListenerInv'
<1> SUFFICES ASSUME ListenerInv, [ServicesNext]_servicesVars PROVE ListenerInv'
  OBVIOUS
<1>1. CASE Listener!Next
  <2>1. ASSUME NEW c \in WsClients, Listener!take_update(c) PROVE ListenerInv'
    BY <2>1, TaskStep, TakeStep
  <2> QED BY <1>1, <2>1, SenderStep, SendStep, QuietStep, TaskStep DEF Listener!Next
<1>2. CASE UNCHANGED listenerVars
  BY <1>2 DEF listenerVars, ListenerInv, ListenerTypes, ChannelOK, ClientOK, NotShared, NoneLost, Emitted, Has, Queued
<1> QED BY <1>1, <1>2 DEF ServicesNext, servicesVars

(* Every update the collector has sent is with exactly one websocket client, in its
   turn, or still in the channel; what a broken connection costs is the one update
   its task holds (handle_ws_connection). *)
THEOREM UpdatesGoToOne == ServicesSpec => []UpdatesShared
<1>1. Init => ListenerInv
  BY ListenerInit DEF Init
<1>2. ListenerInv => UpdatesShared
  <2> SUFFICES ASSUME ListenerInv PROVE UpdatesShared
    OBVIOUS
  <2> DEFINE sent == IF sender = "running" THEN 1..events ELSE 1..events - 1
             got(c) == {client[c].got[i] : i \in DOMAIN client[c].got}
             held(c) == {client[c].update} \ {0}
             queued == {to_websocket[i] : i \in DOMAIN to_websocket}
  <2>1. \A c \in WsClients : client[c].got \in Seq(Nat) /\ client[c].update \in Nat
    BY DEF ListenerInv, ListenerTypes, ClientState
  <2>2. \A c \in WsClients, n \in Nat : n \in got(c) \cup held(c) <=> Has(c, n)
    BY DEF Has
  <2>3. \A c \in WsClients : got(c) \cup held(c) \subseteq Nat
    BY <2>1
  <2>4. \A n \in Nat : n \in queued <=> Queued(n)
    BY DEF Queued
  <2>5. \A n \in sent : n \in Nat /\ Emitted(n) /\ (sender = "ended" => n # events)
    BY DEF ListenerInv, ListenerTypes, Emitted
  <2> HIDE DEF got, held, queued, sent
  <2>6. sent \subseteq queued \cup UNION {got(c) \cup held(c) : c \in WsClients}
    BY <2>2, <2>4, <2>5 DEF ListenerInv, NoneLost
  <2>7. ASSUME NEW c \in WsClients, NEW d \in WsClients, c # d
        PROVE  (got(c) \cup held(c)) \cap (got(d) \cup held(d)) = {}
    BY <2>2, <2>3, <2>7 DEF ListenerInv, NotShared
  <2>8. ASSUME NEW c \in WsClients, NEW i \in 2..Len(client[c].got)
        PROVE  client[c].got[i - 1] < client[c].got[i]
    <3>1. i - 1 \in DOMAIN client[c].got /\ i \in DOMAIN client[c].got /\ i - 1 < i
      BY <2>1
    <3> QED BY <3>1 DEF ListenerInv, ClientOK
  <2> QED BY <2>6, <2>7, <2>8 DEF UpdatesShared, Listener!UpdatesShared, got, held, queued, sent
<1> QED BY <1>1, <1>2, ListenerStep, PTL DEF ServicesSpec
-----------------------------------------------------------------------------
DisputesEvents == {Initiated(c) : c \in Disputed} \cup {Concluded(x[1], x[2]) : x \in Disputed \X Sides}

DisputeState ==
  [start : Nat, votes : [Sides -> 0..validator_count], concluded_at : Nat \cup {NotConcluded}]

BlockOK ==
  /\ validator_count \in ValidatorCounts
  /\ block \in [number : 0..LastBlock, disputes : [Disputed -> DisputeState], events : SUBSET DisputesEvents]
  /\ collected \in BOOLEAN
  /\ aborted \in BOOLEAN

(* A dispute that started did so at a block there has been, and it has a block of
   conclusion exactly if a side has concluded. *)
StateOK(d) ==
  /\ d.start \in 0..block.number
  /\ d.start = 0 => d = Undisputed
  /\ d.concluded_at \in 1..block.number \cup {NotConcluded}
  /\ d.concluded_at = NotConcluded <=> \A s \in Sides : ~ConcludesWith(d.votes[s])

(* How the events of the block are related to the disputes after it. *)
EventsOK(c, d) ==
  /\ Initiated(c) \in block.events <=> d # Undisputed /\ d.start = block.number
  /\ \A s \in Sides :
       /\ Concluded(c, s) \in block.events => ConcludesWith(d.votes[s])
       /\ d.concluded_at = block.number /\ ConcludesWith(d.votes[s]) => Concluded(c, s) \in block.events
       /\ Concluded(c, s) \in block.events /\ d.concluded_at # block.number =>
            \A t \in Sides : ConcludesWith(d.votes[t])

HistoryOK ==
  /\ happened \subseteq (0..block.number) \X DisputesEvents
  /\ \A e \in DisputesEvents : <<block.number, e>> \in happened <=> e \in block.events

Behind(n) == n < block.number \/ (n = block.number /\ collected)

FirstTold(c, d) ==
  d.concluded_at # NotConcluded /\ Behind(d.concluded_at) =>
    \E s \in Sides : <<d.concluded_at, Concluded(c, s)>> \in chain_events

MissedOK ==
  \A x \in happened \ chain_events : Behind(x[1]) =>
    /\ x[2][1] = "DisputeConcluded"
    /\ \E y \in chain_events : y[1] < x[1] /\ y[2][1] = "DisputeConcluded" /\ y[2][2] = x[2][2]

DisputesInv ==
  /\ BlockOK
  /\ \A c \in Disputed : StateOK(block.disputes[c])
  /\ \A c \in Disputed : EventsOK(c, block.disputes[c])
  /\ HistoryOK
  /\ chain_events \subseteq happened
  /\ \A c \in Disputed : FirstTold(c, block.disputes[c])
  /\ MissedOK
  /\ ~aborted
-----------------------------------------------------------------------------
(* The collector's threshold is the pallet's: the smallest number of votes that
   leaves fewer than a third of the validators out. *)
LEMMA ThresholdIsSupermajority ==
  ASSUME validator_count \in Nat, NEW v \in 0..validator_count
  PROVE  reached_supermajority(v) <=> ConcludesWith(v)
<1> DEFINE n == validator_count
           q == (n - 1) \div 3
<1>1. CASE n = 0
  BY <1>1 DEF reached_supermajority, ConcludesWith
<1>2. CASE n > 0
  <2>1. /\ q \in Int
        /\ 3 * q <= n - 1
        /\ n - 1 < 3 * q + 3
    BY <1>2
  <2>2. supermajority_threshold(n) = n - q
    BY <1>2 DEF supermajority_threshold
  <2>3. v >= n - q <=> 3 * (n - v) < n
    <3> HIDE DEF q
    <3> QED BY <2>1, <1>2
  <2> QED BY <2>2, <2>3, <1>2 DEF reached_supermajority, ConcludesWith
<1> QED BY <1>1, <1>2

(* DisputesEvents tell their kind and their candidate. *)
LEMMA EventShape ==
  ASSUME NEW c, NEW d, NEW s, NEW t
  PROVE  /\ Initiated(c) = Initiated(d) => c = d
         /\ Concluded(c, s) = Concluded(d, t) => c = d /\ s = t
         /\ Initiated(c) # Concluded(d, s)
         /\ Initiated(c)[1] = "DisputeInitiated"
         /\ Concluded(c, s)[1] = "DisputeConcluded"
         /\ Concluded(c, s)[2] = c
BY DEF Initiated, Concluded

(* What the collector makes of the disputes of a block. *)
LEMMA Derived ==
  ASSUME BlockOK, validator_count \in Nat, NEW c \in Disputed
  PROVE  LET d == block.disputes[c]
             E == disputes_to_chain_events(block.number)
         IN  /\ Initiated(c) \in E <=> d # Undisputed /\ d.start = block.number
             /\ \A s \in Sides : Concluded(c, s) \in E <=>
                  /\ d # Undisputed
                  /\ d.concluded_at = block.number
                  /\ ConcludesWith(d.votes[s])
             /\ E \subseteq DisputesEvents
<1> DEFINE d == block.disputes[c]
           E == disputes_to_chain_events(block.number)
           inits == {Initiated(x) : x \in {y \in disputes : block.disputes[y].start = block.number}}
           ended == {y \in disputes : block.disputes[y].concluded_at = block.number}
           reached == {y \in ended \X Sides : reached_supermajority(block.disputes[y[1]].votes[y[2]])}
           concl == {Concluded(x[1], x[2]) : x \in reached}
<1>1. E = inits \cup concl
  BY DEF disputes_to_chain_events
<1>2. disputes \subseteq Disputed /\ (c \in disputes <=> d # Undisputed)
  BY DEF disputes
<1>3. Initiated(c) \notin concl
  BY EventShape
<1>4. \A s \in Sides : Concluded(c, s) \notin inits
  BY EventShape
<1>5. Initiated(c) \in inits <=> c \in disputes /\ d.start = block.number
  BY EventShape
<1>6. ASSUME NEW s \in Sides
      PROVE  Concluded(c, s) \in concl <=> c \in ended /\ reached_supermajority(d.votes[s])
  <2>1. ASSUME Concluded(c, s) \in concl
        PROVE  c \in ended /\ reached_supermajority(d.votes[s])
    <3>1. PICK x \in reached : Concluded(c, s) = Concluded(x[1], x[2])
      BY <2>1
    <3>2. x[1] = c /\ x[2] = s
      BY <3>1, EventShape
    <3> QED BY <3>2
  <2>2. ASSUME c \in ended, reached_supermajority(d.votes[s])
        PROVE  Concluded(c, s) \in concl
    <3>1. <<c, s>> \in reached
      BY <2>2, <1>6
    <3> QED BY <3>1
  <2> QED BY <2>1, <2>2
<1>7. ASSUME NEW s \in Sides
      PROVE  d.votes[s] \in 0..validator_count
  BY <1>7 DEF BlockOK, DisputeState
<1>8. E \subseteq DisputesEvents
  <2>1. inits \subseteq DisputesEvents
    BY <1>2 DEF DisputesEvents
  <2>2. concl \subseteq DisputesEvents
    BY <1>2 DEF DisputesEvents
  <2> QED BY <1>1, <2>1, <2>2
<1> HIDE DEF inits, concl, E, reached
<1>9. Initiated(c) \in E <=> d # Undisputed /\ d.start = block.number
  BY <1>1, <1>2, <1>3, <1>5
<1>10. ASSUME NEW s \in Sides
       PROVE  Concluded(c, s) \in E <=>
                /\ d # Undisputed
                /\ d.concluded_at = block.number
                /\ ConcludesWith(d.votes[s])
  <2>1. reached_supermajority(d.votes[s]) <=> ConcludesWith(d.votes[s])
    BY <1>7, <1>10, ThresholdIsSupermajority
  <2>2. c \in ended <=> d # Undisputed /\ d.concluded_at = block.number
    BY <1>2
  <2> QED BY <2>1, <2>2, <1>1, <1>4, <1>6, <1>10
<1> QED BY <1>8, <1>9, <1>10 DEF E

(* In a block that is being processed the runtime call tells of every event but
   the second of two conclusions. *)
LEMMA Agree ==
  ASSUME DisputesInv, validator_count \in Nat, NEW c \in Disputed
  PROVE  LET d == block.disputes[c]
             E == disputes_to_chain_events(block.number)
         IN  /\ Initiated(c) \in block.events <=> Initiated(c) \in E
             /\ \A s \in Sides :
                  /\ Concluded(c, s) \in E => Concluded(c, s) \in block.events /\ d.concluded_at = block.number
                  /\ Concluded(c, s) \in block.events /\ Concluded(c, s) \notin E =>
                       /\ d # Undisputed
                       /\ d.concluded_at # NotConcluded
                       /\ d.concluded_at < block.number
                       /\ \A t \in Sides : ConcludesWith(d.votes[t])
<1> DEFINE d == block.disputes[c]
           E == disputes_to_chain_events(block.number)
<1>1. StateOK(d) /\ EventsOK(c, d) /\ BlockOK
  BY DEF DisputesInv
<1>2. block.number \in Nat
  BY <1>1, DisputeAssumption DEF BlockOK
<1>3. /\ Initiated(c) \in E <=> d # Undisputed /\ d.start = block.number
      /\ \A s \in Sides : Concluded(c, s) \in E <=>
            d # Undisputed /\ d.concluded_at = block.number /\ ConcludesWith(d.votes[s])
  BY <1>1, Derived
<1>4. d.concluded_at # NotConcluded => d # Undisputed
  BY DEF Undisputed
<1> HIDE DEF d, E
<1>5. Initiated(c) \in block.events <=> Initiated(c) \in E
  BY <1>1, <1>3 DEF EventsOK
<1>6. ASSUME NEW s \in Sides, Concluded(c, s) \in E
      PROVE  Concluded(c, s) \in block.events /\ d.concluded_at = block.number
  BY <1>1, <1>3, <1>6 DEF EventsOK
<1>7. ASSUME NEW s \in Sides, Concluded(c, s) \in block.events, Concluded(c, s) \notin E
      PROVE  /\ d # Undisputed
             /\ d.concluded_at # NotConcluded
             /\ d.concluded_at < block.number
             /\ \A t \in Sides : ConcludesWith(d.votes[t])
  <2>1. ConcludesWith(d.votes[s])
    BY <1>1, <1>7 DEF EventsOK
  <2>2. d.concluded_at # NotConcluded
    BY <1>1, <1>7, <2>1 DEF StateOK
  <2>3. d.concluded_at # block.number
    BY <1>3, <1>4, <1>7, <2>1, <2>2
  <2>4. d.concluded_at < block.number
    BY <1>1, <1>2, <2>2, <2>3 DEF StateOK
  <2>5. \A t \in Sides : ConcludesWith(d.votes[t])
    BY <1>1, <1>7, <2>3 DEF EventsOK
  <2> QED BY <1>4, <2>2, <2>4, <2>5
<1> QED BY <1>5, <1>6, <1>7 DEF d, E

(* So the comparison of shadow mode finds no difference. *)
LEMMA ShadowFindsNothing ==
  ASSUME DisputesInv, validator_count \in Nat
  PROVE  shadow_events(block.number, disputes_to_chain_events(block.number))
<1> DEFINE E == disputes_to_chain_events(block.number)
           twice == concluded_earlier_both_ways(block.number)
<1>1. block.events \subseteq DisputesEvents /\ E \subseteq DisputesEvents /\ BlockOK
  <2>1. BlockOK /\ block.events \subseteq DisputesEvents
    BY DEF DisputesInv, BlockOK
  <2>2. CASE Disputed = {}
    BY <2>1, <2>2 DEF disputes_to_chain_events, disputes
  <2>3. CASE Disputed # {}
    BY <2>1, <2>3, Derived
  <2> QED BY <2>1, <2>2, <2>3
<1>2. ASSUME NEW c \in Disputed
      PROVE  c \in twice <=> /\ block.disputes[c] # Undisputed
                            /\ block.disputes[c].concluded_at # NotConcluded
                            /\ block.disputes[c].concluded_at < block.number
                            /\ \A t \in Sides : ConcludesWith(block.disputes[c].votes[t])
  <2>1. \A t \in Sides : block.disputes[c].votes[t] \in 0..validator_count
    BY <1>1 DEF BlockOK, DisputeState
  <2>2. \A t \in Sides : reached_supermajority(block.disputes[c].votes[t])
                           <=> ConcludesWith(block.disputes[c].votes[t])
    BY <2>1, ThresholdIsSupermajority
  <2> QED BY <2>2 DEF concluded_earlier_both_ways, disputes
<1>3. ASSUME NEW e \in DisputesEvents, e[1] = "DisputeInitiated"
      PROVE  e \in block.events <=> e \in E
  <2>1. PICK c \in Disputed : e = Initiated(c)
    BY <1>3, EventShape DEF DisputesEvents
  <2> QED BY <2>1, Agree
<1>4. ASSUME NEW e \in DisputesEvents, e[1] = "DisputeConcluded"
      PROVE  e \in block.events /\ e[2] \notin twice <=> e \in E
  <2>1. PICK c \in Disputed, s \in Sides : e = Concluded(c, s)
    BY <1>4, EventShape DEF DisputesEvents
  <2>2. e[2] = c
    BY <2>1, EventShape
  <2>3. ASSUME e \in E
        PROVE  e \in block.events /\ e[2] \notin twice
    <3>1. e \in block.events /\ block.disputes[c].concluded_at = block.number
      BY <2>1, <2>3, Agree
    <3>2. ~(block.number < block.number)
      BY <1>1, DisputeAssumption DEF BlockOK
    <3> QED BY <1>2, <2>2, <3>1, <3>2
  <2>4. ASSUME e \in block.events, e \notin E
        PROVE  e[2] \in twice
    BY <1>2, <2>1, <2>2, <2>4, Agree
  <2> QED BY <2>3, <2>4
<1> HIDE DEF E, twice
<1>5. shadow_events(block.number, E)
  BY <1>1, <1>3, <1>4 DEF shadow_events, compare_set, OfKind, twice
<1> QED BY <1>5 DEF E
(* What votes make of a dispute. *)
LEMMA AfterShape ==
  ASSUME NEW d, NEW v, NEW n
  PROVE  LET e == DisputeAfter(d, v, n)
             concluded == \E s \in Sides : ConcludesWith(v[s])
         IN  /\ e = [start |-> e.start, votes |-> v, concluded_at |-> e.concluded_at]
             /\ e.votes = v
             /\ d = Undisputed => e.start = n
             /\ d # Undisputed => e.start = d.start
             /\ d.concluded_at = NotConcluded /\ concluded => e.concluded_at = n
             /\ ~(d.concluded_at = NotConcluded /\ concluded) => e.concluded_at = d.concluded_at
BY Zenon DEF DisputeAfter
-----------------------------------------------------------------------------
LEMMA DisputesStart == DisputesInit => DisputesInv
<1> SUFFICES ASSUME DisputesInit PROVE DisputesInv
  OBVIOUS
<1>1. validator_count \in Nat
  BY DisputeAssumption DEF DisputesInit
<1>2. Undisputed \in DisputeState /\ Undisputed.concluded_at = NotConcluded
  BY <1>1 DEF DisputeState, Undisputed
<1>3. \A c \in Disputed : block.disputes[c] = Undisputed
  BY DEF DisputesInit
<1>8. BlockOK
  <2>1. [c \in Disputed |-> Undisputed] \in [Disputed -> DisputeState]
    BY <1>2
  <2>2. 0 \in 0..LastBlock
    BY DisputeAssumption
  <2> QED BY <2>1, <2>2 DEF DisputesInit, BlockOK
<1>4. StateOK(Undisputed)
  BY <1>1 DEF DisputesInit, StateOK, Undisputed, ConcludesWith, Sides
<1>5. \A c \in Disputed : EventsOK(c, Undisputed)
  <2>1. block.events = {} /\ block.number = 0 /\ Undisputed.concluded_at # 0
    BY <1>2, DisputeAssumption DEF DisputesInit
  <2> QED BY <2>1 DEF EventsOK
<1>6. \A c \in Disputed : FirstTold(c, Undisputed)
  BY DEF FirstTold, Undisputed
<1>7. HistoryOK /\ MissedOK /\ chain_events \subseteq happened /\ ~aborted
  BY DEF DisputesInit, HistoryOK, MissedOK
<1> QED BY <1>3, <1>4, <1>5, <1>6, <1>7, <1>8 DEF DisputesInv

(* A block of the chain. *)
LEMMA PalletStep == DisputesInv /\ pallet_block => DisputesInv'
<1> SUFFICES ASSUME DisputesInv, pallet_block PROVE DisputesInv'
  OBVIOUS
<1> DEFINE number == block.number + 1
<1>1. PICK votes \in [Disputed -> [Sides -> 0..validator_count]] :
        LET voted == {c \in Disputed : votes[c] # block.disputes[c].votes}
            raised == UNION {EventsOf(c, block.disputes[c], votes[c]) : c \in voted}
        IN  /\ \A c \in Disputed, s \in Sides : votes[c][s] >= block.disputes[c].votes[s]
            /\ block' = [number |-> number,
                         disputes |-> [c \in Disputed |->
                                         IF c \in voted THEN DisputeAfter(block.disputes[c], votes[c], number)
                                                        ELSE block.disputes[c]],
                         events |-> raised]
            /\ happened' = happened \cup {<<number, e>> : e \in raised}
  BY DEF pallet_block
<1> DEFINE voted == {c \in Disputed : votes[c] # block.disputes[c].votes}
           raised == UNION {EventsOf(c, block.disputes[c], votes[c]) : c \in voted}
           old(c) == block.disputes[c]
           now(c) == block'.disputes[c]
<1>2. /\ collected /\ collected' = FALSE /\ ~aborted /\ aborted' = aborted
      /\ validator_count' = validator_count /\ chain_events' = chain_events
      /\ block.number < LastBlock
  BY DEF pallet_block
<1>3. /\ validator_count \in Nat /\ block.number \in Nat /\ BlockOK
      /\ number \in 0..LastBlock /\ LastBlock \in Nat
  BY <1>2, DisputeAssumption DEF DisputesInv, BlockOK
<1>4. /\ block'.number = number
      /\ block'.events = raised
      /\ \A c \in Disputed : now(c) = IF c \in voted THEN DisputeAfter(old(c), votes[c], number) ELSE old(c)
      /\ happened' = happened \cup {<<number, e>> : e \in raised}
  BY <1>1
<1>5. ASSUME NEW c \in Disputed
      PROVE  /\ Initiated(c) \in raised <=> c \in voted /\ old(c) = Undisputed
             /\ \A s \in Sides : Concluded(c, s) \in raised <=>
                  /\ c \in voted
                  /\ ~ConcludesWith(old(c).votes[s])
                  /\ ConcludesWith(votes[c][s])
  <2>1. \A d : Initiated(c) \in EventsOf(d, old(d), votes[d]) <=> d = c /\ old(d) = Undisputed
    <3> SUFFICES ASSUME NEW d
                 PROVE  Initiated(c) \in EventsOf(d, old(d), votes[d]) <=> d = c /\ old(d) = Undisputed
      OBVIOUS
    <3>1. \A s : Initiated(c) # Concluded(d, s) /\ (Initiated(c) = Initiated(d) => c = d)
      BY EventShape
    <3> QED BY <3>1 DEF EventsOf
  <2>2. \A d : \A s \in Sides : Concluded(c, s) \in EventsOf(d, old(d), votes[d]) <=>
          d = c /\ ~ConcludesWith(old(d).votes[s]) /\ ConcludesWith(votes[d][s])
    <3> SUFFICES ASSUME NEW d, NEW s \in Sides
                 PROVE  Concluded(c, s) \in EventsOf(d, old(d), votes[d]) <=>
                          d = c /\ ~ConcludesWith(old(d).votes[s]) /\ ConcludesWith(votes[d][s])
      OBVIOUS
    <3>1. Initiated(d) # Concluded(c, s) /\ \A t : Concluded(c, s) = Concluded(d, t) => c = d /\ s = t
      BY DEF Initiated, Concluded
    <3> QED BY <3>1 DEF EventsOf
  <2> HIDE DEF voted
  <2> QED BY <2>1, <2>2
<1>6. raised \subseteq DisputesEvents
  <2> SUFFICES ASSUME NEW c \in Disputed, NEW e \in EventsOf(c, old(c), votes[c])
               PROVE  e \in DisputesEvents
    OBVIOUS
  <2>1. e = Initiated(c) \/ \E s \in Sides : e = Concluded(c, s)
    BY DEF EventsOf
  <2>2. ASSUME NEW s \in Sides
        PROVE  Concluded(c, s) \in DisputesEvents
    <3>1. <<c, s>> \in Disputed \X Sides /\ <<c, s>>[1] = c /\ <<c, s>>[2] = s
      OBVIOUS
    <3> QED BY <3>1 DEF DisputesEvents
  <2> QED BY <2>1, <2>2 DEF DisputesEvents
<1>7. ASSUME NEW c \in Disputed
      PROVE  old(c) \in DisputeState /\ StateOK(old(c)) /\ votes[c] \in [Sides -> 0..validator_count]
  BY <1>3 DEF DisputesInv, BlockOK
<1>8. ASSUME NEW c \in Disputed, NEW s \in Sides, ConcludesWith(old(c).votes[s])
      PROVE  ConcludesWith(votes[c][s])
  <2>1. votes[c][s] >= old(c).votes[s]
    BY <1>1
  <2>2. old(c).votes[s] \in 0..validator_count /\ votes[c][s] \in 0..validator_count
    BY <1>7 DEF DisputeState
  <2> QED BY <1>3, <1>8, <2>1, <2>2 DEF ConcludesWith
<1>9. \A x \in Int : ConcludesWith(x)' <=> ConcludesWith(x)
  BY <1>2 DEF ConcludesWith
<1> HIDE DEF voted, raised
<1>10. ASSUME NEW c \in Disputed
       PROVE  now(c) \in DisputeState
  <2>1. CASE c \notin voted
    BY <1>4, <1>7, <2>1
  <2>2. CASE c \in voted
    <3>1. now(c) = DisputeAfter(old(c), votes[c], number)
      BY <1>4, <2>2
    <3>2. /\ now(c) = [start |-> now(c).start, votes |-> votes[c], concluded_at |-> now(c).concluded_at]
          /\ now(c).start \in {number, old(c).start}
          /\ now(c).concluded_at \in {number, old(c).concluded_at}
      BY <3>1, AfterShape
    <3>3. old(c).start \in Nat /\ old(c).concluded_at \in Nat \cup {NotConcluded} /\ number \in Nat
      BY <1>3, <1>7 DEF DisputeState
    <3> HIDE DEF now, old, number
    <3> QED BY <1>7, <3>2, <3>3 DEF DisputeState
  <2> QED BY <2>1, <2>2
<1>11. BlockOK'
  <2>1. block' \in [number : 0..LastBlock, disputes : [Disputed -> DisputeState], events : SUBSET DisputesEvents]
    <3>1. block' = [number |-> number, disputes |-> [c \in Disputed |-> now(c)], events |-> raised]
      BY <1>1, <1>4 DEF raised
    <3>2. [c \in Disputed |-> now(c)] \in [Disputed -> DisputeState]
      BY <1>10
    <3> HIDE DEF now, number
    <3> QED BY <1>3, <1>6, <3>1, <3>2
  <2>2. DisputeState' = DisputeState
    BY <1>2 DEF DisputeState
  <2> QED BY <1>2, <1>3, <2>1, <2>2 DEF BlockOK
<1>12. ASSUME NEW c \in Disputed
       PROVE  StateOK(block.disputes[c])'
  <2>1. ASSUME NEW s \in Sides
        PROVE  old(c).votes[s] \in Int /\ votes[c][s] \in Int
    BY <1>7 DEF DisputeState
  <2>2. CASE c \notin voted
    <3>1. now(c) = old(c)
      BY <1>4, <2>2
    <3> QED BY <1>2, <1>3, <1>4, <1>7, <1>9, <2>1, <3>1 DEF StateOK
  <2>3. CASE c \in voted
    <3>1. now(c) = DisputeAfter(old(c), votes[c], number)
      BY <1>4, <2>3
    <3>2. /\ now(c).votes = votes[c]
          /\ old(c) = Undisputed => now(c).start = number
          /\ old(c) # Undisputed => now(c).start = old(c).start
          /\ old(c).concluded_at = NotConcluded /\ (\E s \in Sides : ConcludesWith(votes[c][s])) =>
               now(c).concluded_at = number
          /\ ~(old(c).concluded_at = NotConcluded /\ \E s \in Sides : ConcludesWith(votes[c][s])) =>
               now(c).concluded_at = old(c).concluded_at
      BY <3>1, AfterShape
    <3>3. now(c).start \in 1..number
      BY <1>3, <1>7, <3>2 DEF StateOK
    <3>4. now(c).concluded_at \in 1..number \cup {NotConcluded}
      BY <1>3, <1>7, <3>2 DEF StateOK
    <3>5. now(c).concluded_at = NotConcluded <=> \A s \in Sides : ~ConcludesWith(votes[c][s])
      BY <1>3, <1>7, <1>8, <3>2, DisputeAssumption DEF StateOK
    <3>6. \A s \in Sides : ConcludesWith(votes[c][s])' <=> ConcludesWith(votes[c][s])
      BY <1>9, <2>1
    <3> QED BY <1>3, <1>4, <3>2, <3>3, <3>4, <3>5, <3>6 DEF StateOK
  <2> QED BY <2>2, <2>3
<1>13. ASSUME NEW c \in Disputed
       PROVE  EventsOK(c, block.disputes[c])'
  <2>1. ASSUME NEW s \in Sides
        PROVE  old(c).votes[s] \in Int /\ votes[c][s] \in Int
    BY <1>7 DEF DisputeState
  <2>2. old(c).start # number /\ old(c).concluded_at # number
    BY <1>3, <1>7, DisputeAssumption DEF StateOK
  <2>3. CASE c \notin voted
    <3>1. now(c) = old(c) /\ Initiated(c) \notin raised /\ \A s \in Sides : Concluded(c, s) \notin raised
      BY <1>4, <1>5, <2>3
    <3> QED BY <1>4, <2>2, <3>1 DEF EventsOK
  <2>4. CASE c \in voted
    <3>1. /\ now(c).votes = votes[c]
          /\ old(c) = Undisputed => now(c).start = number
          /\ old(c) # Undisputed => now(c).start = old(c).start
          /\ old(c).concluded_at = NotConcluded /\ (\E s \in Sides : ConcludesWith(votes[c][s])) =>
               now(c).concluded_at = number
          /\ ~(old(c).concluded_at = NotConcluded /\ \E s \in Sides : ConcludesWith(votes[c][s])) =>
               now(c).concluded_at = old(c).concluded_at
      BY <1>4, <2>4, AfterShape
    <3>2. now(c).start # 0
      BY <1>3, <1>7, <3>1 DEF StateOK
    <3>3. now(c) # Undisputed
      BY <3>2 DEF Undisputed
    <3>4. Initiated(c) \in raised <=> now(c) # Undisputed /\ now(c).start = number
      BY <1>5, <2>2, <2>4, <3>1, <3>3
    <3>5. ASSUME NEW s \in Sides
          PROVE  /\ Concluded(c, s) \in raised => ConcludesWith(votes[c][s])
                 /\ now(c).concluded_at = number /\ ConcludesWith(votes[c][s]) => Concluded(c, s) \in raised
                 /\ Concluded(c, s) \in raised /\ now(c).concluded_at # number =>
                      \A t \in Sides : ConcludesWith(votes[c][t])
      <4>1. Concluded(c, s) \in raised <=> ~ConcludesWith(old(c).votes[s]) /\ ConcludesWith(votes[c][s])
        BY <1>5, <2>4
      <4>2. now(c).concluded_at = number => ~ConcludesWith(old(c).votes[s])
        BY <1>7, <2>2, <3>1 DEF StateOK
      <4>3. ASSUME Concluded(c, s) \in raised, now(c).concluded_at # number
            PROVE  \A t \in Sides : ConcludesWith(votes[c][t])
        <5>1. old(c).concluded_at # NotConcluded
          BY <3>1, <4>1, <4>3
        <5>2. PICK t \in Sides : ConcludesWith(old(c).votes[t])
          BY <1>7, <5>1 DEF StateOK
        <5>3. t # s /\ ConcludesWith(votes[c][t]) /\ ConcludesWith(votes[c][s])
          BY <1>8, <4>1, <4>3, <5>2
        <5>4. \A u \in Sides : u = s \/ u = t
          BY <5>3 DEF Sides
        <5> QED BY <5>3, <5>4
      <4> QED BY <4>1, <4>2, <4>3
    <3>6. \A s \in Sides : ConcludesWith(votes[c][s])' <=> ConcludesWith(votes[c][s])
      BY <1>9, <2>1
    <3> QED BY <1>4, <3>1, <3>4, <3>5, <3>6 DEF EventsOK
  <2> QED BY <2>3, <2>4
<1>14. HistoryOK'
  <2>1. happened' \subseteq (0..number) \X DisputesEvents
    BY <1>3, <1>4, <1>6 DEF DisputesInv, HistoryOK
  <2>2. \A e : <<number, e>> \notin happened
    BY <1>3 DEF DisputesInv, HistoryOK
  <2>3. \A e : <<number, e>> \in happened' <=> e \in raised
    BY <1>4, <2>2
  <2> QED BY <1>4, <2>1, <2>3 DEF HistoryOK
<1>15. \A n \in 0..number : Behind(n)' => n \in 0..block.number /\ Behind(n)
  BY <1>2, <1>3, <1>4 DEF Behind
<1>16. ASSUME NEW c \in Disputed
       PROVE  FirstTold(c, block.disputes[c])'
  <2>1. FirstTold(c, old(c))
    BY DEF DisputesInv
  <2>2. now(c).concluded_at = old(c).concluded_at \/ now(c).concluded_at = number
    BY <1>4, AfterShape
  <2>3. old(c).concluded_at # NotConcluded => old(c).concluded_at \in 0..number
    BY <1>3, <1>7 DEF StateOK
  <2>4. now(c).concluded_at = number => ~Behind(block.disputes[c].concluded_at)'
    BY <1>2, <1>3, <1>4 DEF Behind
  <2>5. ASSUME now(c).concluded_at = old(c).concluded_at,
               old(c).concluded_at # NotConcluded, Behind(block.disputes[c].concluded_at)'
        PROVE  \E s \in Sides : <<old(c).concluded_at, Concluded(c, s)>> \in chain_events
    BY <1>15, <2>1, <2>3, <2>5 DEF FirstTold
  <2> QED BY <1>2, <2>2, <2>4, <2>5 DEF FirstTold
<1>17. MissedOK'
  <2> SUFFICES ASSUME NEW x \in happened' \ chain_events', Behind(x[1])'
               PROVE  /\ x[2][1] = "DisputeConcluded"
                      /\ \E y \in chain_events' : /\ y[1] < x[1]
                                                  /\ y[2][1] = "DisputeConcluded"
                                                  /\ y[2][2] = x[2][2]
    BY DEF MissedOK
  <2>1. x[1] \in 0..number
    BY <1>4, <1>14 DEF HistoryOK
  <2>2. Behind(x[1]) /\ x[1] # number
    BY <1>3, <1>15, <2>1
  <2>3. x \in happened
    BY <1>4, <2>2
  <2> QED BY <1>2, <2>2, <2>3 DEF DisputesInv, MissedOK
<1> QED
  BY <1>2, <1>4, <1>11, <1>12, <1>13, <1>14, <1>16, <1>17 DEF DisputesInv

(* The collector processes the block. *)
LEMMA CollectStep == DisputesInv /\ collect_chain_events => DisputesInv'
<1> SUFFICES ASSUME DisputesInv, collect_chain_events PROVE DisputesInv'
  OBVIOUS
<1> DEFINE E == disputes_to_chain_events(block.number)
           n == block.number
<1>1. /\ ~collected /\ collected' = TRUE
      /\ chain_events' = chain_events \cup {<<n, e>> : e \in E}
      /\ aborted' = ~shadow_events(n, E)
      /\ validator_count' = validator_count /\ block' = block /\ happened' = happened
  BY DEF collect_chain_events
<1>2. /\ BlockOK /\ HistoryOK /\ MissedOK /\ chain_events \subseteq happened
      /\ \A c \in Disputed : /\ StateOK(block.disputes[c])
                            /\ EventsOK(c, block.disputes[c])
                            /\ FirstTold(c, block.disputes[c])
  BY DEF DisputesInv
<1>3. validator_count \in Nat /\ n \in Nat
  BY <1>2, DisputeAssumption DEF BlockOK
<1>4. ~aborted'
  BY <1>1, <1>3, ShadowFindsNothing
<1>5. E \subseteq DisputesEvents
  <2>1. CASE Disputed = {}
    BY <2>1 DEF disputes_to_chain_events, disputes
  <2>2. CASE Disputed # {}
    BY <1>2, <1>3, <2>2, Derived
  <2> QED BY <2>1, <2>2
<1> HIDE DEF E
<1>6. ASSUME NEW e \in E
      PROVE  e \in block.events
  <2>1. \/ \E c \in Disputed : e = Initiated(c)
        \/ \E c \in Disputed, s \in Sides : e = Concluded(c, s)
    BY <1>5 DEF DisputesEvents
  <2> QED BY <1>3, <1>6, <2>1, Agree DEF E
<1>7. BlockOK'
  BY <1>1, <1>2, <1>4 DEF BlockOK, DisputeState
<1>8. \A c \in Disputed : StateOK(block.disputes[c])' /\ EventsOK(c, block.disputes[c])'
  BY <1>1, <1>2 DEF StateOK, EventsOK, ConcludesWith
<1>9. HistoryOK'
  BY <1>1, <1>2 DEF HistoryOK
<1>10. (chain_events \subseteq happened)'
  <2>1. ASSUME NEW e \in E
        PROVE  <<n, e>> \in happened
    BY <1>2, <1>5, <1>6, <2>1 DEF HistoryOK
  <2> QED BY <1>1, <1>2, <2>1
<1>11. ASSUME NEW c \in Disputed
       PROVE  FirstTold(c, block.disputes[c])'
  <2> DEFINE d == block.disputes[c]
  <2>1. SUFFICES ASSUME d.concluded_at # NotConcluded
                 PROVE  \E s \in Sides : <<d.concluded_at, Concluded(c, s)>> \in chain_events'
    BY <1>1 DEF FirstTold
  <2>2. CASE d.concluded_at # n
    <3>1. d.concluded_at < n
      BY <1>2, <1>3, <2>1, <2>2 DEF StateOK
    <3> QED BY <1>1, <1>2, <2>1, <3>1 DEF FirstTold, Behind
  <2>3. CASE d.concluded_at = n
    <3>1. PICK s \in Sides : ConcludesWith(d.votes[s])
      BY <1>2, <2>1 DEF StateOK
    <3>2. Concluded(c, s) \in block.events
      BY <1>2, <2>3, <3>1 DEF EventsOK
    <3>3. Concluded(c, s) \in E
      BY <1>3, <2>3, <3>2, Agree DEF E
    <3> QED BY <1>1, <2>3, <3>3
  <2> QED BY <2>2, <2>3
<1>12. MissedOK'
  <2> SUFFICES ASSUME NEW x \in happened \ chain_events', Behind(x[1])'
               PROVE  /\ x[2][1] = "DisputeConcluded"
                      /\ \E y \in chain_events' : /\ y[1] < x[1]
                                                  /\ y[2][1] = "DisputeConcluded"
                                                  /\ y[2][2] = x[2][2]
    BY <1>1 DEF MissedOK
  <2>1. x \in (0..n) \X DisputesEvents /\ x \notin chain_events
    BY <1>1, <1>2 DEF HistoryOK
  <2>2. CASE x[1] # n
    <3>1. Behind(x[1])
      BY <1>3, <2>1, <2>2 DEF Behind
    <3> QED BY <1>1, <1>2, <2>1, <3>1 DEF MissedOK
  <2>3. CASE x[1] = n
    <3>1. x = <<n, x[2]>> /\ x[2] \in DisputesEvents
      BY <2>1, <2>3
    <3>2. x[2] \in block.events /\ x[2] \notin E
      BY <1>1, <1>2, <3>1 DEF HistoryOK
    <3>3. PICK c \in Disputed, s \in Sides : x[2] = Concluded(c, s)
      BY <1>3, <3>1, <3>2, Agree DEF DisputesEvents, E
    <3> DEFINE d == block.disputes[c]
    <3>4. d.concluded_at # NotConcluded /\ d.concluded_at < n
      BY <1>3, <3>2, <3>3, Agree DEF E
    <3>5. PICK t \in Sides : <<d.concluded_at, Concluded(c, t)>> \in chain_events
      BY <1>2, <3>4 DEF FirstTold, Behind
    <3>6. /\ x[2][1] = "DisputeConcluded" /\ x[2][2] = c
          /\ Concluded(c, t)[1] = "DisputeConcluded" /\ Concluded(c, t)[2] = c
      BY <3>3, EventShape
    <3> DEFINE y == <<d.concluded_at, Concluded(c, t)>>
    <3>7. y \in chain_events' /\ y[1] < x[1] /\ y[2][1] = "DisputeConcluded" /\ y[2][2] = x[2][2]
      BY <1>1, <2>3, <3>4, <3>5, <3>6
    <3> HIDE DEF y
    <3> QED BY <3>6, <3>7
  <2> QED BY <2>2, <2>3
<1> QED BY <1>4, <1>7, <1>8, <1>9, <1>10, <1>11, <1>12 DEF DisputesInv

LEMMA DisputesStep == DisputesInv /\ [DisputesNext]_disputesVars => DisputesInv'
<1> SUFFICES ASSUME DisputesInv, [DisputesNext]_disputesVars PROVE DisputesInv'
  OBVIOUS
<1>1. CASE UNCHANGED disputesVars
  BY <1>1 DEF disputesVars, DisputesInv, BlockOK, DisputeState, StateOK, EventsOK, HistoryOK, FirstTold,
              Behind, MissedOK, ConcludesWith
<1>2. CASE pallet_block
  BY <1>2, PalletStep
<1>3. CASE collect_chain_events
  BY <1>3, CollectStep
<1> QED BY <1>1, <1>2, <1>3 DEF DisputesNext

LEMMA DisputesInvHolds == DisputesSpec => []DisputesInv
BY DisputesStart, DisputesStep, PTL DEF DisputesSpec
-----------------------------------------------------------------------------
(* The disputes the runtime call returns are of the types the collector decodes. *)
THEOREM TypesHold == DisputesSpec => []DisputesTypeOK
<1>1. DisputesInv => DisputesTypeOK
  BY DEF DisputesInv, BlockOK, StateOK, DisputesTypeOK
<1> QED BY <1>1, DisputesInvHolds, PTL

(* For any votes of any number of validators, in any number of disputes: the
   comparison of shadow mode (shadow_events) never ends the program, no event is
   made up, and disputes_to_chain_events misses second conclusions only. *)
THEOREM RuntimeCallTells == DisputesSpec => []DisputesTold
<1>1. DisputesInv => DisputesTold
  <2> SUFFICES ASSUME DisputesInv PROVE DisputesTold
    OBVIOUS
  <2>1. block.number \in Nat
    BY DisputeAssumption DEF DisputesInv, BlockOK
  <2>2. ASSUME collected, NEW x \in happened \ chain_events
        PROVE  Behind(x[1])
    <3>1. x[1] \in 0..block.number
      BY DEF DisputesInv, HistoryOK
    <3> QED BY <2>1, <2>2, <3>1 DEF Behind
  <2> QED BY <2>2 DEF DisputesInv, MissedOK, DisputesTold
<1> QED BY <1>1, DisputesInvHolds, PTL
-----------------------------------------------------------------------------
(* The monitor.   *)
Intervals == Monitor!Intervals
ChartMessages == [url : Endpoints, block_time : Intervals \cup {NoBlock}]

WatcherState ==
  [status : {"populating", "watching", "ended", "panicked"}, fetched : Nat, parent_hash : {Tree[b].parent : b \in DOMAIN Tree} \cup {NoBlock},
   prev_ts : Nat, block_times : Seq(Intervals), prev_block : Nat]

(* What a watcher remembers of the last block: before the start the block fetched last,
   to whose parent it goes next, then the one it was told of last. *)
Remembers(w) ==
  /\ w.status = "populating" /\ w.prev_ts # 0 =>
       w.fetched # 0 /\ \E b \in DOMAIN Tree : Monitor!Timestamp(b) = w.prev_ts /\ Tree[b].parent = w.parent_hash
  /\ w.status = "watching" /\ w.prev_block # 0 =>
       \E b \in DOMAIN Tree : Monitor!Timestamp(b) = w.prev_ts /\ Monitor!Number(b) = w.prev_block
  /\ w.block_times = <<>> \/ Len(w.block_times) < w.fetched
  /\ w.fetched <= ChartWidth

MonitorInv ==
  /\ watcher \in [Endpoints -> WatcherState]
  /\ \A e \in Endpoints : Remembers(watcher[e])
  /\ messages \in Seq(ChartMessages)
  /\ values \in [Endpoints -> Seq(Intervals)]
  /\ \A e \in Endpoints : Len(values[e]) <= ChartWidth
  /\ observed \in [Endpoints -> SUBSET (Intervals \cup {0})]
  /\ display = "ended" => mode # "Cli"

LEMMA TreeFacts ==
  /\ ChartWidth \in Nat \ {0}
  /\ \A b \in DOMAIN Tree :
       /\ Monitor!Number(b) \in Nat /\ Monitor!Timestamp(b) \in Nat /\ Tree[b].parent # NoBlock
       /\ Tree[b].parent \in DOMAIN Tree => Monitor!Number(b) = Monitor!Number(Tree[b].parent) + 1
BY MonitorAssumption DEF Monitor!MonitorConstants, Monitor!AllBlocks

(* The time between two neighbouring blocks is one of the intervals. *)
LEMMA NeighboursInterval ==
  ASSUME NEW a \in DOMAIN Tree, NEW b \in DOMAIN Tree, Monitor!Number(b) = Monitor!Number(a) + 1
  PROVE  Monitor!saturating_sub(Monitor!Timestamp(b), Monitor!Timestamp(a)) \in Intervals
<1>1. PICK p \in (DOMAIN Tree) \X (DOMAIN Tree) : p[1] = a /\ p[2] = b
  <2>1. <<a, b>> \in (DOMAIN Tree) \X (DOMAIN Tree)
    OBVIOUS
  <2> QED BY <2>1
<1>2. p \in {q \in Monitor!AllBlocks \X Monitor!AllBlocks : Monitor!Number(q[2]) = Monitor!Number(q[1]) + 1}
  BY <1>1 DEF Monitor!AllBlocks
<1> QED BY <1>1, <1>2 DEF Intervals, Monitor!Intervals

(* Before the monitor starts. *)
LEMMA MonitorInit == Monitor!Init => MonitorInv
<1> SUFFICES ASSUME Monitor!Init PROVE MonitorInv
  OBVIOUS
<1>1. /\ watcher = [e \in Endpoints |-> [Monitor!NewWatcher EXCEPT !.status = IF mode = "Cli" THEN @ ELSE "watching"]]
      /\ messages = <<>> /\ values = [e \in Endpoints |-> <<>>] /\ observed = [e \in Endpoints |-> {}]
      /\ display = "running"
  BY DEF Monitor!Init
<1>2. \A e \in Endpoints : watcher[e] =
        [status |-> IF mode = "Cli" THEN "populating" ELSE "watching", fetched |-> 0, parent_hash |-> NoBlock,
         prev_ts |-> 0, block_times |-> <<>>, prev_block |-> 0]
  BY <1>1 DEF Monitor!NewWatcher
<1>3. ASSUME NEW e \in Endpoints
      PROVE  watcher[e] \in WatcherState /\ Remembers(watcher[e])
  <2>1. watcher[e].status \in {"populating", "watching"} /\ <<>> \in Seq(Intervals)
    BY <1>2
  <2>2. watcher[e] \in WatcherState
    <3>1. PICK st \in {"populating", "watching"} : watcher[e] =
            [status |-> st, fetched |-> 0, parent_hash |-> NoBlock, prev_ts |-> 0, block_times |-> <<>>, prev_block |-> 0]
      BY <1>2, <2>1
    <3> QED BY <2>1, <3>1 DEF WatcherState
  <2>3. Remembers(watcher[e])
    BY <1>2, TreeFacts DEF Remembers
  <2> QED BY <2>2, <2>3
<1> QED BY <1>1, <1>3, TreeFacts DEF MonitorInv

(* Nothing but the watcher of an endpoint and its queue changes. *)
LEMMA WatcherStep ==
  ASSUME MonitorInv, NEW e \in Endpoints, NEW w \in WatcherState, Remembers(w),
         watcher' = [watcher EXCEPT ![e] = w], UNCHANGED <<mode, values, observed, display>>,
         messages' = messages \/ \E m \in ChartMessages :
                                   messages' = Append(messages, m)
  PROVE  MonitorInv'
<1>1. watcher' \in [Endpoints -> WatcherState] /\ \A f \in Endpoints : Remembers(watcher'[f])
  BY DEF MonitorInv
<1>2. messages' \in Seq(ChartMessages)
  <2>1. messages \in Seq(ChartMessages)
    BY DEF MonitorInv
  <2>2. ASSUME NEW m \in ChartMessages PROVE Append(messages, m) \in Seq(ChartMessages)
    BY <2>1
  <2> QED BY <2>1, <2>2
<1> QED BY <1>1, <1>2 DEF MonitorInv

(* A watcher fetches one more block behind its best one. *)
LEMMA PopulateStep ==
  ASSUME MonitorInv, NEW e \in Endpoints, Monitor!populate_block(e)
  PROVE  MonitorInv'
<1>1. PICK w : w = watcher[e]
  OBVIOUS
<1>2. PICK b : b = Monitor!Asked(e)
  OBVIOUS
<1>3. w \in WatcherState /\ Remembers(w) /\ w.status = "populating" /\ w.fetched < ChartWidth /\ b \in DOMAIN Tree
  BY <1>1, <1>2 DEF MonitorInv, Monitor!populate_block, Monitor!Populating, Monitor!AllBlocks
<1>4. PICK ts : ts = IF w.prev_ts = 0 THEN w.block_times
                     ELSE <<Monitor!saturating_sub(w.prev_ts, Monitor!Timestamp(b))>> \o w.block_times
  OBVIOUS
<1>5. PICK v : v = [status |-> w.status, fetched |-> w.fetched + 1, parent_hash |-> Tree[b].parent,
                    prev_ts |-> Monitor!Timestamp(b), block_times |-> ts, prev_block |-> w.prev_block]
  OBVIOUS
<1>6. watcher' = [watcher EXCEPT ![e] = v] /\ UNCHANGED <<mode, values, observed, display, messages>>
  <2>1. UNCHANGED <<mode, values, observed, display, messages>> /\ watcher \in [Endpoints -> WatcherState]
    BY DEF Monitor!populate_block, MonitorInv
  <2>2. watcher' = [watcher EXCEPT
          ![e].fetched = @ + 1, ![e].prev_ts = Monitor!Timestamp(b), ![e].parent_hash = Tree[b].parent,
          ![e].block_times = ts]
    BY <1>1, <1>2, <1>4 DEF Monitor!populate_block
  <2>3. DOMAIN watcher' = Endpoints /\ \A f \in Endpoints : f # e => watcher'[f] = watcher[f]
    BY <2>1, <2>2
  <2>4. watcher'[e] = v
    BY <1>1, <1>3, <1>5, <2>1, <2>2 DEF WatcherState
  <2> QED BY <2>1, <2>2, <2>3, <2>4
<1>7. ts \in Seq(Intervals) /\ Len(ts) <= Len(w.block_times) + 1
      /\ (w.prev_ts = 0 => ts = w.block_times)
  <2>1. w.block_times \in Seq(Intervals)
    BY <1>3 DEF WatcherState
  <2>2. CASE w.prev_ts = 0
    BY <2>1, <2>2, <1>4
  <2>3. CASE w.prev_ts # 0
    <3>1. PICK c \in DOMAIN Tree : Monitor!Timestamp(c) = w.prev_ts /\ Tree[c].parent = w.parent_hash
      BY <2>3, <1>3 DEF Remembers
    <3>2. b = Tree[c].parent
      BY <3>1, <1>1, <1>2, TreeFacts DEF Monitor!Asked
    <3>3. Monitor!saturating_sub(w.prev_ts, Monitor!Timestamp(b)) \in Intervals
      BY <3>1, <3>2, <1>3, TreeFacts, NeighboursInterval
    <3>4. <<Monitor!saturating_sub(w.prev_ts, Monitor!Timestamp(b))>> \in Seq(Intervals)
      BY <3>3
    <3> QED BY <3>4, <2>1, <2>3, <1>4
  <2> QED BY <2>2, <2>3
<1>8. v \in WatcherState
  BY <1>3, <1>5, <1>7, TreeFacts DEF WatcherState
<1>9. Remembers(v)
  <2>1. v.status = "populating" /\ v.prev_ts = Monitor!Timestamp(b) /\ v.parent_hash = Tree[b].parent
        /\ v.fetched = w.fetched + 1 /\ v.block_times = ts
    BY <1>3, <1>5 DEF WatcherState
  <2>2. w.fetched \in Nat /\ Len(w.block_times) \in Nat /\ Len(ts) \in Nat /\ ChartWidth \in Nat
    BY <1>3, <1>7, TreeFacts DEF WatcherState
  <2>3. w.block_times = <<>> => Len(w.block_times) = 0
    OBVIOUS
  <2>4. w.prev_ts # 0 => w.fetched # 0
    BY <1>3 DEF Remembers
  <2>5. ts = <<>> \/ Len(ts) < v.fetched
    <3>1. CASE w.block_times = <<>>
      BY <3>1, <2>1, <2>2, <2>3, <2>4, <1>7
    <3>2. CASE Len(w.block_times) < w.fetched
      BY <3>2, <2>1, <2>2, <1>7
    <3> QED BY <3>1, <3>2, <1>3 DEF Remembers
  <2> QED BY <2>1, <2>2, <2>5, <1>3 DEF Remembers
<1> QED BY <1>6, <1>8, <1>9, WatcherStep

(* A request fails, or the watcher ends. *)
LEMMA MissStep ==
  ASSUME MonitorInv, NEW e \in Endpoints,
         Monitor!populate_misses(e) \/ Monitor!populate_panics(e) \/ Monitor!watch_misses(e) \/ Monitor!watch_ends(e)
  PROVE  MonitorInv'
<1>1. PICK w : w = watcher[e]
  OBVIOUS
<1>2. w \in WatcherState /\ Remembers(w) /\ w.fetched \in Nat /\ ChartWidth \in Nat
  BY <1>1, TreeFacts DEF MonitorInv, WatcherState
<1>3. CASE Monitor!populate_misses(e)
  <2>1. PICK v : v = [w EXCEPT !.fetched = @ + 1]
    OBVIOUS
  <2>2. watcher' = [watcher EXCEPT ![e] = v] /\ UNCHANGED <<mode, values, observed, display, messages>>
    BY <1>1, <1>3, <2>1 DEF Monitor!populate_misses
  <2>3. v \in WatcherState
    BY <1>2, <2>1 DEF WatcherState
  <2>4. w.status = "populating" /\ w.fetched < ChartWidth
    BY <1>1, <1>3 DEF Monitor!populate_misses, Monitor!Populating
  <2>5. v.fetched = w.fetched + 1 /\ v.status = w.status /\ v.prev_ts = w.prev_ts /\ v.parent_hash = w.parent_hash
        /\ v.block_times = w.block_times
    BY <1>2, <2>1 DEF WatcherState
  <2>6. Len(w.block_times) \in Nat
    BY <1>2 DEF WatcherState
  <2>7. Remembers(v)
    BY <1>2, <2>4, <2>5, <2>6 DEF Remembers
  <2> QED BY <2>2, <2>3, <2>7, WatcherStep
<1>4. CASE Monitor!watch_misses(e)
  BY <1>4 DEF Monitor!watch_misses, MonitorInv
<1>5. ASSUME NEW st \in {"panicked", "ended"}, watcher' = [watcher EXCEPT ![e].status = st]
      PROVE  \E v \in WatcherState : Remembers(v) /\ watcher' = [watcher EXCEPT ![e] = v]
  <2>1. PICK v : v = [w EXCEPT !.status = st]
    OBVIOUS
  <2>2. v \in WatcherState /\ v.status = st /\ v.fetched = w.fetched /\ v.block_times = w.block_times
    BY <1>2, <2>1 DEF WatcherState
  <2>3. Remembers(v)
    BY <1>2, <2>2 DEF Remembers
  <2> QED BY <1>1, <1>5, <2>1, <2>2, <2>3
<1>6. CASE Monitor!populate_panics(e)
  <2>1. watcher' = [watcher EXCEPT ![e].status = "panicked"] /\ UNCHANGED <<mode, values, observed, display, messages>>
    BY <1>6 DEF Monitor!populate_panics
  <2> QED BY <2>1, <1>5, WatcherStep
<1>7. CASE Monitor!watch_ends(e)
  <2>1. PICK m : m = [url |-> e, block_time |-> NoBlock]
    OBVIOUS
  <2>2. /\ UNCHANGED <<mode, values, observed, display>>
        /\ messages' = messages \/ messages' = Append(messages, m)
        /\ \E st \in {"panicked", "ended"} : watcher' = [watcher EXCEPT ![e].status = st]
    BY <1>7, <2>1 DEF Monitor!watch_ends
  <2>3. m \in ChartMessages
    BY <2>1 DEF ChartMessages
  <2> QED BY <2>2, <2>3, <1>5, WatcherStep
<1> QED BY <1>3, <1>4, <1>6, <1>7

(* A watcher has its charts full, and starts to watch. *)
LEMMA PopulatedStep ==
  ASSUME MonitorInv, NEW e \in Endpoints, Monitor!populate_sends(e)
  PROVE  MonitorInv'
<1>1. PICK w : w = watcher[e]
  OBVIOUS
<1>2. w \in WatcherState /\ Remembers(w) /\ w.status = "populating"
  BY <1>1 DEF MonitorInv, Monitor!populate_sends
<1>3. UNCHANGED <<mode, values, observed, display>>
  BY DEF Monitor!populate_sends
<1>4. CASE w.block_times = <<>>
  <2>1. PICK v : v = [status |-> "watching", fetched |-> 0, parent_hash |-> NoBlock, prev_ts |-> 0,
                      block_times |-> <<>>, prev_block |-> 0]
    OBVIOUS
  <2>2. v = [Monitor!NewWatcher EXCEPT !.status = "watching"]
    BY <2>1 DEF Monitor!NewWatcher
  <2>3. watcher' = [watcher EXCEPT ![e] = v] /\ messages' = messages
    BY <1>1, <1>4, <2>2 DEF Monitor!populate_sends
  <2>4. v \in WatcherState /\ Remembers(v)
    BY <2>1, TreeFacts DEF WatcherState, Remembers
  <2> QED BY <1>3, <2>3, <2>4, WatcherStep
<1>5. CASE w.block_times # <<>>
  <2>1. PICK v : v = [w EXCEPT !.block_times = Tail(@)]
    OBVIOUS
  <2>2. PICK m : m = [url |-> e, block_time |-> Head(w.block_times)]
    OBVIOUS
  <2>3. watcher' = [watcher EXCEPT ![e] = v] /\ messages' = Append(messages, m)
    BY <1>1, <1>5, <2>1, <2>2 DEF Monitor!populate_sends, Monitor!Send
  <2>4. w.block_times \in Seq(Intervals)
    BY <1>2 DEF WatcherState
  <2>5. Head(w.block_times) \in Intervals /\ Tail(w.block_times) \in Seq(Intervals)
        /\ Len(Tail(w.block_times)) < Len(w.block_times) /\ Len(w.block_times) \in Nat
        /\ Len(Tail(w.block_times)) \in Nat
    BY <1>5, <2>4
  <2>6. v \in WatcherState /\ v.block_times = Tail(w.block_times) /\ v.fetched = w.fetched /\ v.status = w.status
        /\ v.prev_ts = w.prev_ts /\ v.parent_hash = w.parent_hash /\ w.fetched \in Nat
    BY <1>2, <2>1, <2>5 DEF WatcherState
  <2>7. Remembers(v)
    BY <1>2, <1>5, <2>5, <2>6 DEF Remembers
  <2>8. m \in ChartMessages
    BY <2>2, <2>5 DEF ChartMessages
  <2> QED BY <1>3, <2>3, <2>6, <2>7, <2>8, WatcherStep
<1> QED BY <1>4, <1>5

(* A watcher is told of a new head. *)
LEMMA WatchStep ==
  ASSUME MonitorInv, NEW e \in Endpoints, Monitor!watch_block(e)
  PROVE  MonitorInv'
<1>1. PICK w : w = watcher[e]
  OBVIOUS
<1>2. PICK b : b = Head(updates[e].queue)
  OBVIOUS
<1>3. PICK t : t = Monitor!saturating_sub(Monitor!Timestamp(b), w.prev_ts)
  OBVIOUS
<1>4. PICK v : v = [status |-> w.status, fetched |-> w.fetched, parent_hash |-> w.parent_hash,
                    prev_ts |-> Monitor!Timestamp(b), block_times |-> w.block_times, prev_block |-> Monitor!Number(b)]
  OBVIOUS
<1>5. PICK m : m = [url |-> e, block_time |-> t]
  OBVIOUS
<1>6. PICK next \in BOOLEAN :
        next <=> w.prev_block # 0 /\ Monitor!saturating_sub(Monitor!Number(b), w.prev_block) = 1
  OBVIOUS
<1>7. w \in WatcherState /\ Remembers(w) /\ w.status = "watching" /\ b \in DOMAIN Tree
  BY <1>1, <1>2 DEF MonitorInv, Monitor!watch_block, Monitor!Watching, Monitor!AllBlocks
<1>8. /\ watcher' = [watcher EXCEPT ![e] = v] /\ UNCHANGED <<mode, values, display>>
      /\ messages' = messages \/ (next /\ messages' = Append(messages, m))
      /\ \E T : observed' = [observed EXCEPT ![e] = @ \cup T] /\ T \subseteq {t, 0} /\ (t \in T => next \/ t = 0)
  <2>1. watcher' = [watcher EXCEPT ![e] = v] /\ UNCHANGED <<mode, values, display>>
    <3>1. /\ watcher' = [watcher EXCEPT ![e].prev_ts = Monitor!Timestamp(b), ![e].prev_block = Monitor!Number(b)]
          /\ UNCHANGED <<mode, values, display>> /\ watcher \in [Endpoints -> WatcherState]
      BY <1>1, <1>2 DEF Monitor!watch_block, MonitorInv
    <3>2. DOMAIN watcher' = Endpoints /\ \A f \in Endpoints : f # e => watcher'[f] = watcher[f]
      BY <3>1
    <3>3. watcher'[e] = v
      BY <1>1, <1>4, <1>7, <3>1 DEF WatcherState
    <3> QED BY <3>1, <3>2, <3>3
  <2>2. messages' = messages \/ (next /\ messages' = Append(messages, m))
    BY <1>1, <1>2, <1>3, <1>5, <1>6 DEF Monitor!watch_block, Monitor!Send
  <2>3. observed' = [observed EXCEPT ![e] = @ \cup
             {x \in {t, 0} : /\ mode # "Cli"
                             /\ \/ next /\ x = t
                                \/ w.prev_block = 0 /\ x = 0}]
    BY <1>1, <1>2, <1>3, <1>6 DEF Monitor!watch_block
  <2>4. PICK T : T = {x \in {t, 0} : /\ mode # "Cli"
                                   /\ \/ next /\ x = t
                                      \/ w.prev_block = 0 /\ x = 0}
    OBVIOUS
  <2>5. T \subseteq {t, 0} /\ (t \in T => next \/ t = 0) /\ observed' = [observed EXCEPT ![e] = @ \cup T]
    BY <2>3, <2>4
  <2> QED BY <2>1, <2>2, <2>5
<1>9. next => t \in Intervals
  <2> SUFFICES ASSUME next PROVE t \in Intervals
    OBVIOUS
  <2>1. PICK c \in DOMAIN Tree : Monitor!Timestamp(c) = w.prev_ts /\ Monitor!Number(c) = w.prev_block
    BY <1>6, <1>7 DEF Remembers
  <2>2. Monitor!Number(b) = Monitor!Number(c) + 1
    BY <1>6, <1>7, <2>1, TreeFacts DEF Monitor!saturating_sub
  <2> QED BY <1>3, <1>7, <2>1, <2>2, NeighboursInterval
<1>10. v \in WatcherState /\ Remembers(v)
  <2>1. v \in WatcherState /\ v.status = "watching" /\ v.prev_ts = Monitor!Timestamp(b)
        /\ v.prev_block = Monitor!Number(b) /\ v.block_times = w.block_times /\ v.fetched = w.fetched
    BY <1>4, <1>7, TreeFacts DEF WatcherState
  <2> QED BY <1>7, <2>1 DEF Remembers
<1>11. observed' \in [Endpoints -> SUBSET (Intervals \cup {0})]
  BY <1>8, <1>9 DEF MonitorInv
<1>12. watcher' \in [Endpoints -> WatcherState] /\ \A f \in Endpoints : Remembers(watcher'[f])
  BY <1>8, <1>10 DEF MonitorInv
<1>13. messages' \in Seq(ChartMessages)
  <2>1. messages \in Seq(ChartMessages)
    BY DEF MonitorInv
  <2>2. next => m \in ChartMessages
    BY <1>5, <1>9 DEF ChartMessages
  <2> QED BY <1>8, <2>1, <2>2
<1> QED BY <1>8, <1>11, <1>12, <1>13 DEF MonitorInv

(* The display takes a message, or ends. *)
LEMMA DisplayStep ==
  ASSUME MonitorInv, Monitor!display_charts \/ Monitor!display_ends
  PROVE  MonitorInv'
<1>1. CASE Monitor!display_ends
  BY <1>1 DEF Monitor!display_ends, MonitorInv
<1>2. CASE Monitor!display_charts
  <2>1. PICK m : m = Head(messages)
    OBVIOUS
  <2>2. m \in ChartMessages /\ messages # <<>>
        /\ messages' = Tail(messages) /\ UNCHANGED <<mode, watcher, observed, display>>
    <3>1. messages # <<>> /\ messages' = Tail(messages) /\ UNCHANGED <<mode, watcher, observed, display>>
      BY <1>2 DEF Monitor!display_charts
    <3>2. m \in ChartMessages
      BY <2>1, <3>1 DEF MonitorInv
    <3> QED BY <3>1, <3>2
  <2>3. messages' \in Seq(ChartMessages)
    BY <2>2 DEF MonitorInv
  <2>4. PICK v : v = Append(values[m.url], m.block_time)
    OBVIOUS
  <2>5. PICK n : n = 1 + Monitor!saturating_sub(Len(v), ChartWidth)
    OBVIOUS
  <2>6. values' = IF m.block_time = NoBlock THEN values ELSE [values EXCEPT ![m.url] = SubSeq(v, n, Len(v))]
    BY <1>2, <2>1, <2>4, <2>5 DEF Monitor!display_charts
  <2>7. ASSUME m.block_time # NoBlock
        PROVE  SubSeq(v, n, Len(v)) \in Seq(Intervals) /\ Len(SubSeq(v, n, Len(v))) <= ChartWidth
    <3>1. v \in Seq(Intervals) /\ Len(v) \in Nat /\ Len(v) # 0 /\ ChartWidth \in Nat \ {0}
      <4>1. m.url \in Endpoints /\ m.block_time \in Intervals /\ values \in [Endpoints -> Seq(Intervals)]
        BY <2>2, <2>7 DEF ChartMessages, MonitorInv
      <4>2. values[m.url] \in Seq(Intervals)
        BY <4>1
      <4> QED BY <2>4, <4>1, <4>2, TreeFacts
    <3>2. n \in 1..Len(v) /\ Len(v) + 1 - n <= ChartWidth
      BY <2>5, <3>1 DEF Monitor!saturating_sub
    <3>3. SubSeq(v, n, Len(v)) \in Seq(Intervals) /\ Len(SubSeq(v, n, Len(v))) = Len(v) - n + 1
      BY <3>1, <3>2
    <3> QED BY <3>1, <3>2, <3>3
  <2>8. values' \in [Endpoints -> Seq(Intervals)] /\ \A e \in Endpoints : Len(values'[e]) <= ChartWidth
    BY <2>2, <2>6, <2>7 DEF MonitorInv
  <2> QED BY <2>2, <2>3, <2>8 DEF MonitorInv
<1> QED BY <1>1, <1>2

(* Every step of the services. *)
LEMMA MonitorStep == MonitorInv /\ [ServicesNext]_servicesVars => MonitorInv'
<1> SUFFICES ASSUME MonitorInv, [ServicesNext]_servicesVars PROVE MonitorInv'
  OBVIOUS
<1>1. CASE Monitor!Next
  <2>1. ASSUME NEW e \in Endpoints, NEW b, Monitor!NewHead(e, b) \/ Monitor!Termination(e) PROVE MonitorInv'
    BY <2>1 DEF Monitor!NewHead, Monitor!Termination, MonitorInv
  <2> QED BY <1>1, <2>1, PopulateStep, MissStep, PopulatedStep, WatchStep, DisplayStep DEF Monitor!Next
<1>2. CASE UNCHANGED monitorVars
  BY <1>2 DEF monitorVars, MonitorInv
<1> QED BY <1>1, <1>2 DEF ServicesNext, servicesVars

(* So it holds throughout. *)
LEMMA MonitorInvHolds == ServicesSpec => []MonitorInv
<1>1. Init => MonitorInv
  BY MonitorInit DEF Init
<1> QED BY <1>1, MonitorStep, PTL DEF ServicesSpec

(* Whatever is missed, skipped or reorganised, for any tree of blocks, any nodes and any
   width of the charts: no chart and no histogram ever holds a time that spans more than
   two neighbouring heights (watch_node, populate_view). *)
THEOREM NeighboursOnly == ServicesSpec => []ChartsNeighbours
<1>1. MonitorInv => ChartsNeighbours
  <2> SUFFICES ASSUME MonitorInv, NEW e \in Endpoints
               PROVE  /\ \A i \in DOMAIN values[e] : values[e][i] \in Intervals
                      /\ \A i \in DOMAIN watcher[e].block_times : watcher[e].block_times[i] \in Intervals
                      /\ observed[e] \subseteq Intervals \cup {0}
    BY DEF ChartsNeighbours, Monitor!ChartsNeighbours, Intervals
  <2>1. values[e] \in Seq(Intervals) /\ observed[e] \in SUBSET (Intervals \cup {0}) /\ watcher[e] \in WatcherState
    BY DEF MonitorInv
  <2>2. watcher[e].block_times \in Seq(Intervals)
    BY <2>1 DEF WatcherState
  <2> QED BY <2>1, <2>2
<1> QED BY <1>1, MonitorInvHolds, PTL
-----------------------------------------------------------------------------
(* The broadcasts of --all. *)
Heads == 0..MaxNumber
BroadcastEvents == [para : Paras, number : Heads]

BroadcastTypes ==
  /\ relay.number \in Heads /\ relay.candidates_seen \subseteq Paras /\ DOMAIN relay.paras_seen \subseteq Paras
  /\ relay = [number |-> relay.number, candidates_seen |-> relay.candidates_seen, paras_seen |-> relay.paras_seen]
  /\ incoming \in Heads /\ pending \subseteq Paras
  /\ channel \in Seq(BroadcastEvents) /\ Len(channel) <= Capacity
  /\ forwarding = {} \/ \E e \in BroadcastEvents : forwarding = {e}
  /\ DOMAIN trackers \subseteq Paras /\ trackers \in [DOMAIN trackers -> Seq(Heads)]
  /\ \A p \in DOMAIN trackers : Len(trackers[p]) <= TrackerCapacity
  /\ heard \in [DOMAIN trackers -> SUBSET Heads]
  /\ last_blocks \in [DOMAIN last_blocks -> Heads]
  /\ DOMAIN trackers = DOMAIN last_blocks \cup {e.para : e \in forwarding}
  /\ best \in Heads
  /\ reported \subseteq Heads /\ since \in [DOMAIN relay.paras_seen -> Heads]

(* The collector reports the current block while the next one is coming in, and
   consecutive heads are MaxGap apart at most. *)
HeadsOK ==
  /\ incoming # 0 => relay.number \in reported /\ incoming > relay.number /\ incoming <= relay.number + MaxGap
  /\ incoming = 0 => pending = {} /\ relay.number \notin reported
  /\ \A n \in reported : n <= relay.number
  /\ \A n \in reported : n = relay.number \/ \E m \in reported \cup {relay.number} : n < m /\ m <= n + MaxGap

(* The channel is in order, behind what has been forwarded and ahead of what is to be
   sent. *)
OrderOK ==
  /\ \A i \in 1..Len(channel) : channel[i].number \in reported
  /\ \A i, j \in 1..Len(channel) : i < j => channel[i].number <= channel[j].number
  /\ \A e \in forwarding : e.number \in reported /\ \A i \in 1..Len(channel) : e.number <= channel[i].number
  /\ \A i \in 1..Len(channel) : best <= channel[i].number
  /\ \A e \in forwarding : best <= e.number
  /\ best \in reported \cup {0}
  /\ \A p \in DOMAIN last_blocks :
       /\ last_blocks[p] \in reported /\ last_blocks[p] <= best
       /\ best <= last_blocks[p] + EvictAfter

(* An event that the tracer has not forwarded yet. *)
OnItsWay(p, n) ==
  \/ \E i \in 1..Len(channel) : channel[i] = [para |-> p, number |-> n]
  \/ [para |-> p, number |-> n] \in forwarding
  \/ p \in pending /\ n = relay.number

(* One that its tracker has, which is not older than the last one it was sent. *)
Delivered(p, n) ==
  /\ p \in DOMAIN last_blocks /\ n <= last_blocks[p]
  /\ n \in heard[p] \/ \E i \in 1..Len(trackers[p]) : trackers[p][i] = n

AllThere ==
  MaxGap <= EvictAfter =>
  \A p \in DOMAIN relay.paras_seen : \A n \in reported : n >= since[p] => OnItsWay(p, n) \/ Delivered(p, n)

BroadcastInv == BroadcastTypes /\ HeadsOK /\ OrderOK /\ AllThere

LEMMA BroadcastNats ==
  /\ MaxNumber \in Nat /\ EvictAfter \in Nat /\ MaxGap \in Nat \ {0} /\ Capacity \in Nat \ {0}
  /\ TrackerCapacity \in Nat \ {0} /\ MaxParachainStall \in Nat
BY BroadcastAssumption

(* Before the first block. *)
LEMMA BroadcastInit == Broadcast!Init => BroadcastInv
<1> SUFFICES ASSUME Broadcast!Init PROVE BroadcastInv
  OBVIOUS
<1>1. /\ relay = [number |-> 0, candidates_seen |-> {}, paras_seen |-> <<>>]
      /\ incoming = 0 /\ pending = {} /\ channel = <<>> /\ forwarding = {}
      /\ trackers = <<>> /\ last_blocks = <<>> /\ heard = <<>> /\ best = 0
      /\ reported = {} /\ since = <<>>
  BY DEF Broadcast!Init
<1>2. DOMAIN relay.paras_seen = {} /\ DOMAIN trackers = {} /\ DOMAIN last_blocks = {}
  BY <1>1
<1>3. trackers \in [{} -> Seq(Heads)] /\ heard \in [{} -> SUBSET Heads] /\ last_blocks \in [{} -> Heads]
      /\ since \in [{} -> Heads]
  BY <1>1
<1>4. BroadcastTypes
  BY <1>1, <1>2, <1>3, BroadcastNats DEF BroadcastTypes, Heads
<1>5. HeadsOK /\ OrderOK /\ AllThere
  BY <1>1, <1>2 DEF HeadsOK, OrderOK, AllThere
<1> QED BY <1>4, <1>5 DEF BroadcastInv

(* The collector starts to report a block. *)
LEMMA ReportStep ==
  ASSUME BroadcastInv, NEW n \in relay.number + 1..Broadcast!Min({relay.number + MaxGap, MaxNumber}),
         Broadcast!update_state(n)
  PROVE  BroadcastInv'
<1>1. BroadcastTypes /\ HeadsOK /\ OrderOK /\ AllThere
  BY DEF BroadcastInv
<1>2. /\ n \in Heads /\ n > relay.number /\ n <= relay.number + MaxGap /\ n # 0
  <2>1. relay.number \in Nat /\ relay.number + MaxGap \in Nat /\ MaxNumber \in Nat
    BY <1>1, BroadcastNats DEF BroadcastTypes, Heads
  <2>2. PICK m : m = Broadcast!Min({relay.number + MaxGap, MaxNumber})
    OBVIOUS
  <2>3. m \in {relay.number + MaxGap, MaxNumber} /\ m <= relay.number + MaxGap /\ m <= MaxNumber
    BY <2>1, <2>2 DEF Broadcast!Min
  <2>4. n \in relay.number + 1..m
    BY <2>2
  <2> QED BY <2>1, <2>3, <2>4 DEF Heads
<1>3. PICK seen : seen = Broadcast!parasSeen
  OBVIOUS
<1>4. DOMAIN seen \subseteq Paras
  BY <1>1, <1>3 DEF Broadcast!parasSeen, BroadcastTypes
<1>5. /\ incoming = 0 /\ incoming' = n /\ relay' = [relay EXCEPT !.paras_seen = seen] /\ pending' = DOMAIN seen
      /\ reported' = reported \cup {relay.number}
      /\ since' = [p \in DOMAIN seen |-> IF p \in DOMAIN relay.paras_seen THEN since[p] ELSE relay.number]
      /\ UNCHANGED <<channel, forwarding, trackers, last_blocks, best, heard>>
  BY <1>3 DEF Broadcast!update_state, Broadcast!tracerVars
<1>6. relay'.number = relay.number /\ relay'.candidates_seen = relay.candidates_seen /\ relay'.paras_seen = seen
      /\ relay' = [number |-> relay.number, candidates_seen |-> relay.candidates_seen, paras_seen |-> seen]
  BY <1>1, <1>5 DEF BroadcastTypes
<1>7. since' \in [DOMAIN seen -> Heads]
  BY <1>1, <1>5 DEF BroadcastTypes
<1>8. BroadcastTypes'
  BY <1>1, <1>2, <1>4, <1>5, <1>6, <1>7 DEF BroadcastTypes
<1>9. HeadsOK'
  <2>1. pending = {} /\ relay.number \notin reported
    BY <1>1, <1>5 DEF HeadsOK
  <2>2. \A m \in reported : m <= relay.number /\ m \in Nat /\ relay.number \in Nat
    BY <1>1, BroadcastNats DEF HeadsOK, BroadcastTypes, Heads
  <2>3. \A m \in reported' : m <= relay'.number
    BY <1>1, <1>5, <1>6, <2>2 DEF BroadcastTypes, Heads
  <2> QED BY <1>1, <1>2, <1>5, <1>6, <2>2, <2>3 DEF HeadsOK
<1>10. OrderOK'
  BY <1>1, <1>5 DEF OrderOK
<1>11. AllThere'
  <2> SUFFICES ASSUME MaxGap <= EvictAfter, NEW p \in DOMAIN seen, NEW m \in reported', m >= since'[p]
               PROVE  OnItsWay(p, m)' \/ Delivered(p, m)'
    BY <1>6 DEF AllThere
  <2>1. CASE m = relay.number
    BY <2>1, <1>5, <1>6 DEF OnItsWay
  <2>2. CASE m # relay.number
    <3>1. m \in reported /\ m < relay.number
      BY <2>2, <1>1, <1>5, BroadcastNats DEF HeadsOK, BroadcastTypes, Heads
    <3>2. p \in DOMAIN relay.paras_seen /\ since'[p] = since[p]
      BY <3>1, <1>1, <1>5, BroadcastNats DEF BroadcastTypes, Heads
    <3>3. pending = {}
      BY <1>1, <1>5 DEF HeadsOK
    <3>4. OnItsWay(p, m) \/ Delivered(p, m)
      BY <1>1, <3>1, <3>2 DEF AllThere
    <3> QED BY <1>5, <3>3, <3>4 DEF OnItsWay, Delivered
  <2> QED BY <2>1, <2>2
<1> QED BY <1>8, <1>9, <1>10, <1>11 DEF BroadcastInv

(* The collector sends one of its broadcasts. *)
LEMMA BroadcastSendStep ==
  ASSUME BroadcastInv, NEW p \in pending, Broadcast!send_broadcast(p)
  PROVE  BroadcastInv'
<1>1. BroadcastTypes /\ HeadsOK /\ OrderOK /\ AllThere
  BY DEF BroadcastInv
<1>2. PICK e : e = [para |-> p, number |-> relay.number]
  OBVIOUS
<1>3. /\ Len(channel) < Capacity /\ channel' = Append(channel, e) /\ pending' = pending \ {p}
      /\ UNCHANGED <<relay, incoming, reported, since, forwarding, trackers, last_blocks, best, heard>>
  BY <1>2 DEF Broadcast!send_broadcast, Broadcast!tracerVars
<1>4. e \in BroadcastEvents /\ e.number = relay.number /\ e.para = p
  BY <1>1, <1>2 DEF BroadcastTypes, BroadcastEvents
<1>5. channel \in Seq(BroadcastEvents) /\ Len(channel) \in Nat
  BY <1>1 DEF BroadcastTypes
<1>6. /\ channel' \in Seq(BroadcastEvents) /\ Len(channel') = Len(channel) + 1
      /\ \A i \in 1..Len(channel) : channel'[i] = channel[i]
      /\ channel'[Len(channel) + 1] = e
  BY <1>3, <1>4, <1>5
<1>7. BroadcastTypes'
  BY <1>1, <1>3, <1>5, <1>6, BroadcastNats DEF BroadcastTypes
<1>8. HeadsOK'
  BY <1>1, <1>3 DEF HeadsOK
<1>9. incoming # 0 /\ relay.number \in reported
  BY <1>1 DEF HeadsOK
<1>10. \A n \in reported : n <= relay.number
  BY <1>1 DEF HeadsOK
<1>11. best <= relay.number
  BY <1>1, <1>10, BroadcastNats DEF OrderOK, BroadcastTypes, Heads
<1>12. \A i \in 1..Len(channel') : i \in 1..Len(channel) \/ i = Len(channel) + 1
  BY <1>5, <1>6
<1>13. OrderOK'
  <2>1. \A i \in 1..Len(channel') : channel'[i].number \in reported /\ best <= channel'[i].number
    BY <1>1, <1>4, <1>6, <1>9, <1>11, <1>12 DEF OrderOK
  <2>2. ASSUME NEW i \in 1..Len(channel'), NEW j \in 1..Len(channel'), i < j
        PROVE  channel'[i].number <= channel'[j].number
    <3>1. i \in 1..Len(channel)
      BY <2>2, <1>5, <1>6
    <3>2. channel[i].number <= relay.number
      BY <3>1, <1>1, <1>10 DEF OrderOK
    <3> QED BY <2>2, <3>1, <3>2, <1>1, <1>4, <1>6, <1>12 DEF OrderOK
  <2>3. \A f \in forwarding : \A i \in 1..Len(channel') : f.number <= channel'[i].number
    BY <1>1, <1>4, <1>6, <1>10, <1>12 DEF OrderOK
  <2> QED BY <1>1, <1>3, <2>1, <2>2, <2>3 DEF OrderOK
<1>14. AllThere'
  <2> SUFFICES ASSUME MaxGap <= EvictAfter, NEW q \in DOMAIN relay.paras_seen, NEW m \in reported, m >= since[q]
               PROVE  OnItsWay(q, m)' \/ Delivered(q, m)'
    BY <1>3 DEF AllThere
  <2>1. OnItsWay(q, m) \/ Delivered(q, m)
    BY <1>1 DEF AllThere
  <2>2. CASE Delivered(q, m)
    BY <1>3, <2>2 DEF Delivered
  <2>3. CASE q = p /\ m = relay.number
    BY <1>2, <1>5, <1>6, <2>3 DEF OnItsWay
  <2>4. CASE OnItsWay(q, m) /\ ~(q = p /\ m = relay.number)
    BY <1>3, <1>5, <1>6, <2>4 DEF OnItsWay
  <2> QED BY <2>1, <2>2, <2>3, <2>4
<1> QED BY <1>7, <1>8, <1>13, <1>14 DEF BroadcastInv

(* The collector has sent all of them, and moves on. *)
LEMMA UpdatedStep ==
  ASSUME BroadcastInv, NEW seen \in SUBSET Paras, Broadcast!state_updated(seen)
  PROVE  BroadcastInv'
<1>1. BroadcastTypes /\ HeadsOK /\ OrderOK /\ AllThere
  BY DEF BroadcastInv
<1>2. /\ incoming # 0 /\ pending = {} /\ incoming' = 0
      /\ relay' = [number |-> incoming, candidates_seen |-> seen, paras_seen |-> relay.paras_seen]
      /\ UNCHANGED <<pending, reported, since, channel, forwarding, trackers, last_blocks, best, heard>>
  BY <1>1 DEF Broadcast!state_updated, Broadcast!tracerVars, BroadcastTypes
<1>3. BroadcastTypes'
  BY <1>1, <1>2, BroadcastNats DEF BroadcastTypes, Heads
<1>4. HeadsOK'
  <2>1. relay.number \in reported /\ incoming > relay.number /\ incoming <= relay.number + MaxGap
        /\ relay.number \in Nat /\ incoming \in Nat /\ MaxGap \in Nat /\ relay'.number = incoming
    BY <1>1, <1>2, BroadcastNats DEF HeadsOK, BroadcastTypes, Heads
  <2>2. \A n \in reported : n \in Nat /\ n <= relay.number
    BY <1>1, BroadcastNats DEF HeadsOK, BroadcastTypes, Heads
  <2>3. incoming \notin reported
    BY <2>1, <2>2
  <2>4. \A n \in reported : \E m \in reported \cup {incoming} : n < m /\ m <= n + MaxGap
    <3>1. ASSUME NEW n \in reported PROVE \E m \in reported \cup {incoming} : n < m /\ m <= n + MaxGap
      <4>1. CASE n = relay.number
        BY <4>1, <2>1
      <4>2. CASE n # relay.number
        BY <4>2, <1>1, <2>1 DEF HeadsOK
      <4> QED BY <4>1, <4>2
    <3> QED BY <3>1
  <2> QED BY <1>2, <2>1, <2>2, <2>3, <2>4 DEF HeadsOK
<1>5. OrderOK'
  BY <1>1, <1>2 DEF OrderOK
<1>6. AllThere'
  <2> SUFFICES ASSUME MaxGap <= EvictAfter, NEW p \in DOMAIN relay.paras_seen, NEW m \in reported, m >= since[p]
               PROVE  OnItsWay(p, m)' \/ Delivered(p, m)'
    BY <1>2 DEF AllThere
  <2>1. OnItsWay(p, m) \/ Delivered(p, m)
    BY <1>1 DEF AllThere
  <2>2. CASE Delivered(p, m)
    BY <1>2, <2>2 DEF Delivered
  <2>3. CASE OnItsWay(p, m)
    BY <1>2, <2>3 DEF OnItsWay
  <2> QED BY <2>1, <2>2, <2>3
<1> QED BY <1>3, <1>4, <1>5, <1>6 DEF BroadcastInv

(* The tracer takes an event, with a tracker for its parachain. *)
LEMMA TakeEventStep ==
  ASSUME BroadcastInv, Broadcast!take_event
  PROVE  BroadcastInv'
<1>1. BroadcastTypes /\ HeadsOK /\ OrderOK /\ AllThere
  BY DEF BroadcastInv
<1>2. PICK e : e = Head(channel)
  OBVIOUS
<1>3. /\ forwarding = {} /\ channel # <<>> /\ forwarding' = {e} /\ channel' = Tail(channel)
      /\ UNCHANGED <<relay, incoming, pending, reported, since, last_blocks, best>>
  BY <1>2 DEF Broadcast!take_event, Broadcast!collectorVars
<1>4. /\ channel \in Seq(BroadcastEvents) /\ Len(channel) \in Nat \ {0} /\ e = channel[1] /\ e \in BroadcastEvents
      /\ channel' \in Seq(BroadcastEvents) /\ Len(channel') = Len(channel) - 1
      /\ \A i \in 1..Len(channel') : channel'[i] = channel[i + 1] /\ i + 1 \in 1..Len(channel)
  <2>1. channel \in Seq(BroadcastEvents)
    BY <1>1 DEF BroadcastTypes
  <2> QED BY <1>2, <1>3, <2>1
<1>5. e.para \in Paras /\ e.number \in Heads /\ e = [para |-> e.para, number |-> e.number]
  BY <1>4 DEF BroadcastEvents
<1>6. /\ DOMAIN trackers' = DOMAIN trackers \cup {e.para} /\ trackers' \in [DOMAIN trackers' -> Seq(Heads)]
      /\ heard' \in [DOMAIN trackers' -> SUBSET Heads] /\ \A p \in DOMAIN trackers' : Len(trackers'[p]) <= TrackerCapacity
      /\ \A p \in DOMAIN trackers : trackers'[p] = trackers[p] /\ heard'[p] = heard[p]
  <2>1. /\ trackers \in [DOMAIN trackers -> Seq(Heads)] /\ heard \in [DOMAIN trackers -> SUBSET Heads]
        /\ \A p \in DOMAIN trackers : Len(trackers[p]) <= TrackerCapacity
    BY <1>1 DEF BroadcastTypes
  <2>2. CASE e.para \in DOMAIN trackers
    BY <2>1, <2>2, <1>2 DEF Broadcast!take_event
  <2>3. CASE e.para \notin DOMAIN trackers
    <3>1. trackers' = Broadcast!With(trackers, e.para, <<>>) /\ heard' = Broadcast!With(heard, e.para, {})
      BY <2>3, <1>2 DEF Broadcast!take_event
    <3>2. <<>> \in Seq(Heads) /\ Len(<<>>) <= TrackerCapacity
      BY BroadcastNats
    <3> QED BY <2>1, <2>3, <3>1, <3>2 DEF Broadcast!With
  <2> QED BY <2>2, <2>3
<1>7. BroadcastTypes'
  <2>1. DOMAIN trackers' = DOMAIN last_blocks' \cup {f.para : f \in forwarding'} /\ DOMAIN trackers' \subseteq Paras
    <3>1. DOMAIN trackers = DOMAIN last_blocks \cup {f.para : f \in forwarding} /\ DOMAIN trackers \subseteq Paras
      BY <1>1 DEF BroadcastTypes
    <3> QED BY <3>1, <1>3, <1>5, <1>6
  <2>2. Len(channel') <= Capacity
    BY <1>1, <1>4, BroadcastNats DEF BroadcastTypes
  <2> QED BY <1>1, <1>3, <1>4, <1>6, <2>1, <2>2 DEF BroadcastTypes
<1>8. HeadsOK'
  BY <1>1, <1>3 DEF HeadsOK
<1>9. OrderOK'
  <2>1. 1 \in 1..Len(channel) /\ \A i \in 1..Len(channel') : 1 < i + 1
    BY <1>4
  <2>2. e.number \in reported /\ best <= e.number
    BY <1>1, <1>4, <2>1 DEF OrderOK
  <2>3. \A i \in 1..Len(channel') : channel'[i].number \in reported /\ best <= channel'[i].number
                                    /\ e.number <= channel'[i].number
    BY <1>1, <1>4, <2>1 DEF OrderOK
  <2>4. ASSUME NEW i \in 1..Len(channel'), NEW j \in 1..Len(channel'), i < j
        PROVE  channel'[i].number <= channel'[j].number
    <3>1. i + 1 \in 1..Len(channel) /\ j + 1 \in 1..Len(channel) /\ i + 1 < j + 1
      BY <1>4, <2>4
    <3> QED BY <1>1, <1>4, <3>1 DEF OrderOK
  <2> QED BY <1>1, <1>3, <2>2, <2>3, <2>4 DEF OrderOK
<1>10. AllThere'
  <2> SUFFICES ASSUME MaxGap <= EvictAfter, NEW p \in DOMAIN relay.paras_seen, NEW m \in reported, m >= since[p]
               PROVE  OnItsWay(p, m)' \/ Delivered(p, m)'
    BY <1>3 DEF AllThere
  <2>1. OnItsWay(p, m) \/ Delivered(p, m)
    BY <1>1 DEF AllThere
  <2>2. CASE Delivered(p, m)
    <3>1. p \in DOMAIN trackers
      BY <1>1, <2>2 DEF Delivered, BroadcastTypes
    <3> QED BY <1>3, <1>6, <2>2, <3>1 DEF Delivered
  <2>3. ASSUME NEW i \in 1..Len(channel), channel[i] = [para |-> p, number |-> m]
        PROVE  OnItsWay(p, m)'
    <3>1. CASE i = 1
      BY <1>3, <1>4, <2>3, <3>1 DEF OnItsWay
    <3>2. CASE i # 1
      <4>1. PICK j : j = i - 1
        OBVIOUS
      <4>2. j \in 1..Len(channel') /\ j + 1 = i
        BY <1>4, <3>2, <4>1
      <4> QED BY <1>4, <2>3, <4>2 DEF OnItsWay
    <3> QED BY <3>1, <3>2
  <2>4. CASE p \in pending /\ m = relay.number
    BY <1>3, <2>4 DEF OnItsWay
  <2> QED BY <1>3, <2>1, <2>2, <2>3, <2>4 DEF OnItsWay
<1> QED BY <1>7, <1>8, <1>9, <1>10 DEF BroadcastInv

(* A tracker processes a head. *)
LEMMA TrackerTakesStep ==
  ASSUME BroadcastInv, NEW p \in DOMAIN trackers, Broadcast!tracker_takes(p)
  PROVE  BroadcastInv'
<1>1. BroadcastTypes /\ HeadsOK /\ OrderOK /\ AllThere
  BY DEF BroadcastInv
<1>2. PICK q : q = trackers[p]
  OBVIOUS
<1>3. /\ q \in Seq(Heads) /\ q # <<>>
      /\ trackers' = [trackers EXCEPT ![p] = Tail(q)] /\ heard' = [heard EXCEPT ![p] = @ \cup {Head(q)}]
      /\ UNCHANGED <<relay, incoming, pending, reported, since, channel, forwarding, last_blocks, best>>
  BY <1>1, <1>2 DEF BroadcastTypes, Broadcast!tracker_takes, Broadcast!collectorVars
<1>4. /\ Tail(q) \in Seq(Heads) /\ Head(q) = q[1] /\ q[1] \in Heads /\ Len(q) \in Nat /\ Len(Tail(q)) = Len(q) - 1
      /\ \A i \in 1..Len(Tail(q)) : Tail(q)[i] = q[i + 1]
  BY <1>3
<1>5. BroadcastTypes'
  <2>1. /\ trackers \in [DOMAIN trackers -> Seq(Heads)] /\ heard \in [DOMAIN trackers -> SUBSET Heads]
        /\ \A r \in DOMAIN trackers : Len(trackers[r]) <= TrackerCapacity
    BY <1>1 DEF BroadcastTypes
  <2>2. Len(Tail(q)) <= TrackerCapacity
    BY <1>2, <1>4, <2>1, BroadcastNats
  <2>3. /\ trackers' \in [DOMAIN trackers -> Seq(Heads)] /\ heard' \in [DOMAIN trackers -> SUBSET Heads]
        /\ \A r \in DOMAIN trackers : Len(trackers'[r]) <= TrackerCapacity
    BY <1>3, <1>4, <2>1, <2>2
  <2>4. DOMAIN trackers' = DOMAIN trackers
    BY <2>3
  <2> QED BY <1>1, <1>3, <2>3, <2>4 DEF BroadcastTypes
<1>6. HeadsOK' /\ OrderOK'
  BY <1>1, <1>3 DEF HeadsOK, OrderOK
<1>7. AllThere'
  <2> SUFFICES ASSUME MaxGap <= EvictAfter, NEW r \in DOMAIN relay.paras_seen, NEW m \in reported, m >= since[r]
               PROVE  OnItsWay(r, m)' \/ Delivered(r, m)'
    BY <1>3 DEF AllThere
  <2>1. OnItsWay(r, m) \/ Delivered(r, m)
    BY <1>1 DEF AllThere
  <2>2. CASE OnItsWay(r, m)
    BY <1>3, <2>2 DEF OnItsWay
  <2>3. CASE Delivered(r, m)
    <3>1. r \in DOMAIN trackers /\ r \in DOMAIN last_blocks /\ m <= last_blocks[r]
      BY <1>1, <2>3 DEF Delivered, BroadcastTypes
    <3>2. CASE m \in heard[r]
      <4>1. m \in heard'[r]
        BY <1>1, <1>3, <3>1, <3>2 DEF BroadcastTypes
      <4> QED BY <1>3, <3>1, <4>1 DEF Delivered
    <3>3. ASSUME NEW i \in 1..Len(trackers[r]), trackers[r][i] = m
          PROVE  Delivered(r, m)'
      <4>1. CASE r # p
        <5>1. trackers'[r] = trackers[r]
          BY <1>3, <4>1
        <5> QED BY <1>3, <3>1, <3>3, <5>1 DEF Delivered
      <4>2. CASE r = p /\ i = 1
        <5>1. m \in heard'[r]
          BY <1>1, <1>2, <1>3, <1>4, <3>1, <3>3, <4>2 DEF BroadcastTypes
        <5> QED BY <1>3, <3>1, <5>1 DEF Delivered
      <4>3. CASE r = p /\ i # 1
        <5>1. PICK j : j = i - 1
          OBVIOUS
        <5>2. trackers'[r] = Tail(q) /\ j \in 1..Len(Tail(q)) /\ j + 1 = i
          BY <1>2, <1>3, <1>4, <3>3, <4>3, <5>1
        <5>3. trackers'[r][j] = m
          BY <1>2, <1>4, <3>3, <4>3, <5>2
        <5> QED BY <1>3, <3>1, <5>2, <5>3 DEF Delivered
      <4> QED BY <4>1, <4>2, <4>3
    <3> QED BY <2>3, <3>2, <3>3 DEF Delivered
  <2> QED BY <2>1, <2>2, <2>3
<1> QED BY <1>5, <1>6, <1>7 DEF BroadcastInv

(* A parachain is evicted when its last head is more than EvictAfter blocks behind. *)
LEMMA Evicted ==
  ASSUME NEW P, NEW blocks \in [P -> Heads], NEW p \in P, \A r \in P : blocks[r] <= blocks[p], NEW q \in P
  PROVE  q \in Broadcast!evict_stalled(blocks) <=> blocks[q] + EvictAfter < blocks[p]
<1>1. PICK top : top = Broadcast!Max(Broadcast!Range(blocks))
  OBVIOUS
<1>2. \A r \in P : blocks[r] \in Nat
  BY BroadcastNats DEF Heads
<1>3. blocks[p] \in Broadcast!Range(blocks) /\ \A x \in Broadcast!Range(blocks) : x <= blocks[p] /\ x \in Nat
  BY <1>2 DEF Broadcast!Range
<1>4. top \in Broadcast!Range(blocks) /\ \A x \in Broadcast!Range(blocks) : x <= top
  BY <1>1, <1>3 DEF Broadcast!Max
<1>5. top = blocks[p]
  BY <1>2, <1>3, <1>4
<1>6. PICK threshold : threshold = Broadcast!Max({0, top - EvictAfter})
  OBVIOUS
<1>7. threshold = IF top > EvictAfter THEN top - EvictAfter ELSE 0
  <2>1. top - EvictAfter \in Int
    BY <1>2, <1>5, BroadcastNats
  <2>2. threshold \in {0, top - EvictAfter} /\ threshold >= 0 /\ threshold >= top - EvictAfter
    BY <1>6, <2>1 DEF Broadcast!Max
  <2> QED BY <1>2, <1>5, <2>2, BroadcastNats
<1>8. q \in Broadcast!evict_stalled(blocks) <=> threshold > blocks[q]
  BY <1>1, <1>6 DEF Broadcast!evict_stalled
<1> QED BY <1>2, <1>5, <1>7, <1>8, BroadcastNats

(* The event goes to its tracker, and stalled parachains lose theirs. *)
LEMMA ForwardStep ==
  ASSUME BroadcastInv, Broadcast!forward_event
  PROVE  BroadcastInv'
<1>1. BroadcastTypes /\ HeadsOK /\ OrderOK /\ AllThere
  BY DEF BroadcastInv
<1>2. PICK e \in forwarding :
        LET blocks == Broadcast!With(last_blocks, e.para, e.number)
            kept == DOMAIN blocks \ (IF e.number > best THEN Broadcast!evict_stalled(blocks) ELSE {})
        IN  /\ Len(trackers[e.para]) < TrackerCapacity
            /\ trackers' = [p \in kept |-> IF p = e.para THEN Append(trackers[p], e.number) ELSE trackers[p]]
            /\ heard' = [p \in kept |-> heard[p]]
            /\ last_blocks' = [p \in kept |-> blocks[p]]
            /\ best' = Broadcast!Max({best, e.number})
            /\ forwarding' = {}
            /\ UNCHANGED <<channel, relay, incoming, pending, reported, since>>
  BY DEF Broadcast!forward_event, Broadcast!collectorVars
<1>3. PICK blocks : blocks = Broadcast!With(last_blocks, e.para, e.number)
  OBVIOUS
<1>4. PICK kept : kept = DOMAIN blocks \ (IF e.number > best THEN Broadcast!evict_stalled(blocks) ELSE {})
  OBVIOUS
<1>5. /\ Len(trackers[e.para]) < TrackerCapacity
      /\ trackers' = [p \in kept |-> IF p = e.para THEN Append(trackers[p], e.number) ELSE trackers[p]]
      /\ heard' = [p \in kept |-> heard[p]]
      /\ last_blocks' = [p \in kept |-> blocks[p]]
      /\ best' = Broadcast!Max({best, e.number})
      /\ forwarding' = {}
      /\ UNCHANGED <<channel, relay, incoming, pending, reported, since>>
  BY <1>2, <1>3, <1>4
<1>6. /\ forwarding = {e} /\ e \in BroadcastEvents /\ e.para \in Paras /\ e.number \in Heads
      /\ e = [para |-> e.para, number |-> e.number]
  BY <1>1, <1>2 DEF BroadcastTypes, BroadcastEvents
<1>7. PICK P : P = DOMAIN last_blocks \cup {e.para}
  OBVIOUS
<1>8. DOMAIN trackers = P /\ P \subseteq Paras
  BY <1>1, <1>6, <1>7 DEF BroadcastTypes
<1>9. /\ blocks \in [P -> Heads] /\ blocks[e.para] = e.number
      /\ \A p \in DOMAIN last_blocks : p # e.para => blocks[p] = last_blocks[p]
      /\ \A p \in P : p = e.para \/ p \in DOMAIN last_blocks
  <2>1. last_blocks \in [DOMAIN last_blocks -> Heads]
    BY <1>1 DEF BroadcastTypes
  <2> QED BY <1>3, <1>6, <1>7, <2>1 DEF Broadcast!With
<1>10. /\ best \in Nat /\ e.number \in Nat /\ best <= e.number /\ EvictAfter \in Nat
       /\ \A p \in P : blocks[p] \in Nat
  BY <1>1, <1>6, <1>9, BroadcastNats DEF BroadcastTypes, OrderOK, Heads
<1>11. \A p \in DOMAIN last_blocks : last_blocks[p] <= best /\ last_blocks[p] \in Nat /\ last_blocks[p] \in reported
                                     /\ best <= last_blocks[p] + EvictAfter
  BY <1>1, BroadcastNats DEF BroadcastTypes, OrderOK, Heads
<1>12. \A p \in P : blocks[p] <= blocks[e.para]
  BY <1>9, <1>10, <1>11
<1>13. kept \subseteq P /\ \A p \in P : p \in kept <=> blocks[p] + EvictAfter >= e.number
  <2>1. CASE e.number > best
    <3>1. kept = P \ Broadcast!evict_stalled(blocks)
      BY <1>4, <1>9, <2>1
    <3>2. e.para \in P
      BY <1>7
    <3>3. \A p \in P : p \in Broadcast!evict_stalled(blocks) <=> blocks[p] + EvictAfter < e.number
      BY <1>9, <1>12, <3>2, Evicted
    <3> QED BY <1>10, <3>1, <3>3
  <2>2. CASE ~(e.number > best)
    <3>1. kept = P
      BY <1>4, <1>9, <2>2
    <3>2. \A p \in P : blocks[p] + EvictAfter >= e.number
      BY <1>9, <1>10, <1>11, <2>2
    <3> QED BY <3>1, <3>2
  <2> QED BY <2>1, <2>2
<1>14. e.para \in kept
  BY <1>7, <1>9, <1>10, <1>13
<1>15. best' = e.number
  <2>1. best' \in {best, e.number} /\ best' >= e.number
    BY <1>5, <1>10 DEF Broadcast!Max
  <2> QED BY <1>10, <2>1
<1>16. BroadcastTypes'
  <2>1. /\ trackers \in [P -> Seq(Heads)] /\ heard \in [P -> SUBSET Heads]
        /\ \A p \in P : Len(trackers[p]) <= TrackerCapacity
    BY <1>1, <1>8 DEF BroadcastTypes
  <2>2. /\ Append(trackers[e.para], e.number) \in Seq(Heads)
        /\ Len(Append(trackers[e.para], e.number)) <= TrackerCapacity
    <3>1. trackers[e.para] \in Seq(Heads) /\ Len(trackers[e.para]) < TrackerCapacity
      BY <1>5, <1>7, <2>1
    <3> QED BY <1>6, <3>1, BroadcastNats
  <2>3. /\ trackers' \in [kept -> Seq(Heads)] /\ \A p \in kept : Len(trackers'[p]) <= TrackerCapacity
        /\ heard' \in [kept -> SUBSET Heads] /\ last_blocks' \in [kept -> Heads]
    BY <1>5, <1>9, <1>13, <2>1, <2>2
  <2>4. DOMAIN trackers' = kept /\ DOMAIN last_blocks' = kept /\ kept \subseteq Paras
    BY <1>8, <1>13, <2>3
  <2> QED BY <1>1, <1>5, <1>6, <1>15, <2>3, <2>4 DEF BroadcastTypes
<1>17. HeadsOK'
  BY <1>1, <1>5 DEF HeadsOK
<1>18. OrderOK'
  <2>1. e.number \in reported /\ \A i \in 1..Len(channel) : e.number <= channel[i].number
    BY <1>1, <1>2 DEF OrderOK
  <2>2. ASSUME NEW p \in kept
        PROVE  last_blocks'[p] \in reported /\ last_blocks'[p] <= e.number /\ e.number <= last_blocks'[p] + EvictAfter
    <3>1. last_blocks'[p] = blocks[p] /\ p \in P
      BY <1>5, <1>13, <2>2
    <3> QED BY <1>9, <1>10, <1>11, <1>12, <1>13, <2>1, <2>2, <3>1
  <2>3. DOMAIN last_blocks' = kept
    BY <1>5
  <2> QED BY <1>1, <1>5, <1>15, <2>1, <2>2, <2>3 DEF OrderOK
<1>19. AllThere'
  <2> SUFFICES ASSUME MaxGap <= EvictAfter, NEW p \in DOMAIN relay.paras_seen, NEW m \in reported, m >= since[p]
               PROVE  OnItsWay(p, m)' \/ Delivered(p, m)'
    BY <1>5 DEF AllThere
  <2>1. OnItsWay(p, m) \/ Delivered(p, m)
    BY <1>1 DEF AllThere
  <2>2. CASE OnItsWay(p, m) /\ [para |-> p, number |-> m] # e
    BY <1>5, <1>6, <2>2 DEF OnItsWay
  <2>3. CASE [para |-> p, number |-> m] = e
    <3>1. p = e.para /\ m = e.number
      BY <1>6, <2>3
    <3>2. trackers[p] \in Seq(Heads)
      BY <1>1, <1>7, <1>8, <3>1 DEF BroadcastTypes
    <3>3. trackers'[p] = Append(trackers[p], m)
      BY <1>5, <1>14, <3>1
    <3>4. PICK i : i = Len(trackers[p]) + 1
      OBVIOUS
    <3>5. i \in 1..Len(trackers'[p]) /\ trackers'[p][i] = m
      BY <3>2, <3>3, <3>4
    <3>6. p \in DOMAIN last_blocks' /\ m <= last_blocks'[p]
      BY <1>5, <1>9, <1>10, <1>14, <3>1
    <3> QED BY <3>5, <3>6 DEF Delivered
  <2>4. CASE Delivered(p, m)
    <3>1. p \in DOMAIN last_blocks /\ m <= last_blocks[p] /\ p \in P
      BY <1>7, <2>4 DEF Delivered
    <3>2. m \in Nat /\ last_blocks[p] \in Nat /\ since[p] \in Nat /\ relay.number \in Nat /\ reported \subseteq Nat
      BY <1>1, <1>11, <3>1, BroadcastNats DEF BroadcastTypes, Heads
    <3>3. p \in kept
      <4>1. CASE p = e.para
        BY <4>1, <1>14
      <4>2. CASE p # e.para
        <5>1. PICK l : l = last_blocks[p]
          OBVIOUS
        <5>2. l \in reported /\ l \in Nat /\ l >= since[p] /\ l <= best /\ l <= e.number
          BY <1>10, <1>11, <3>1, <3>2, <5>1
        <5>3. SUFFICES ASSUME l < e.number PROVE l + MaxGap >= e.number
          BY <1>9, <1>10, <1>13, <3>1, <4>2, <5>1, <5>2, BroadcastNats
        <5>4. e.number <= relay.number
          BY <1>1, <1>2 DEF OrderOK, HeadsOK
        <5>5. PICK k \in reported \cup {relay.number} : l < k /\ k <= l + MaxGap
          <6>1. l # relay.number
            BY <1>10, <3>2, <5>2, <5>3, <5>4
          <6> QED BY <1>1, <5>2, <6>1 DEF HeadsOK
        <5>6. CASE k >= e.number
          BY <1>10, <3>2, <5>2, <5>5, <5>6, BroadcastNats
        <5>7. CASE k < e.number
          <6>1. k \in reported /\ k >= since[p] /\ k \in Nat
            BY <1>10, <3>2, <5>2, <5>4, <5>5, <5>7
          <6>2. ~Delivered(p, k)
            BY <5>1, <5>2, <5>5, <6>1 DEF Delivered
          <6>3. OnItsWay(p, k)
            BY <1>1, <6>1, <6>2 DEF AllThere
          <6>4. \A i \in 1..Len(channel) : channel[i].number >= e.number /\ channel[i].number \in Nat
            BY <1>1, <1>2, <3>2 DEF OrderOK
          <6>5. [para |-> p, number |-> k] # e /\ k # relay.number
            BY <1>6, <1>10, <3>2, <4>2, <5>4, <5>7
          <6>6. PICK i \in 1..Len(channel) : channel[i] = [para |-> p, number |-> k]
            BY <1>6, <6>3, <6>5 DEF OnItsWay
          <6>7. channel[i].number = k
            BY <6>6
          <6> QED BY <1>10, <5>7, <6>1, <6>4, <6>7
        <5> QED BY <1>10, <3>2, <5>5, <5>6, <5>7
      <4> QED BY <4>1, <4>2
    <3>4. p \in DOMAIN last_blocks' /\ m <= last_blocks'[p]
      <4>1. last_blocks'[p] = blocks[p] /\ p \in DOMAIN last_blocks'
        BY <1>5, <3>3
      <4> QED BY <1>9, <1>10, <1>11, <3>1, <3>2, <4>1
    <3>5. CASE m \in heard[p]
      BY <1>5, <3>3, <3>4, <3>5 DEF Delivered
    <3>6. ASSUME NEW i \in 1..Len(trackers[p]), trackers[p][i] = m
          PROVE  Delivered(p, m)'
      <4>1. trackers[p] \in Seq(Heads)
        BY <1>1, <1>8, <3>1 DEF BroadcastTypes
      <4>2. trackers'[p] = IF p = e.para THEN Append(trackers[p], e.number) ELSE trackers[p]
        BY <1>5, <3>3
      <4>3. i \in 1..Len(trackers'[p]) /\ trackers'[p][i] = m
        BY <3>6, <4>1, <4>2
      <4> QED BY <3>4, <4>3 DEF Delivered
    <3> QED BY <2>4, <3>5, <3>6 DEF Delivered
  <2> QED BY <2>1, <2>2, <2>3, <2>4
<1> QED BY <1>16, <1>17, <1>18, <1>19 DEF BroadcastInv

(* Every step of the services. *)
LEMMA BroadcastStep == BroadcastInv /\ [ServicesNext]_servicesVars => BroadcastInv'
<1> SUFFICES ASSUME BroadcastInv, [ServicesNext]_servicesVars PROVE BroadcastInv'
  OBVIOUS
<1>1. CASE Broadcast!Next
  BY <1>1, ReportStep, BroadcastSendStep, UpdatedStep, TakeEventStep, ForwardStep, TrackerTakesStep DEF Broadcast!Next
<1>2. CASE UNCHANGED broadcastVars
  <2>1. UNCHANGED <<relay, incoming, pending, channel, forwarding, trackers, last_blocks, best, reported, since, heard>>
    BY <1>2 DEF broadcastVars
  <2>2. BroadcastTypes' /\ HeadsOK' /\ OrderOK'
    BY <2>1 DEF BroadcastInv, BroadcastTypes, HeadsOK, OrderOK
  <2>3. AllThere'
    <3>1. \A p, n : (OnItsWay(p, n)' <=> OnItsWay(p, n)) /\ (Delivered(p, n)' <=> Delivered(p, n))
      BY <2>1 DEF OnItsWay, Delivered
    <3> QED BY <2>1, <3>1 DEF BroadcastInv, AllThere
  <2> QED BY <2>2, <2>3 DEF BroadcastInv
<1> QED BY <1>1, <1>2 DEF ServicesNext, servicesVars

(* So it holds throughout. *)
LEMMA BroadcastInvHolds == ServicesSpec => []BroadcastInv
<1>1. Init => BroadcastInv
  BY BroadcastInit DEF Init
<1> QED BY <1>1, BroadcastStep, PTL DEF ServicesSpec

(* --all, for any parachains, capacities and bounds, and any blocks in which they have
   candidates: while consecutive heads are no further apart than the bound of
   evict_stalled(), a parachain that the collector does not take for stalled keeps its
   tracker, which hears of every head from its first on. *)
THEOREM ActiveAreFollowed == MaxGap <= EvictAfter => (ServicesSpec => []ActiveKeepTracker)
<1> SUFFICES ASSUME MaxGap <= EvictAfter PROVE ServicesSpec => []ActiveKeepTracker
  OBVIOUS
<1>1. BroadcastInv => ActiveKeepTracker
  <2> SUFFICES ASSUME BroadcastInv, NEW p \in DOMAIN relay.paras_seen, NEW n \in reported, n >= since[p]
               PROVE  n \in {e.number : e \in {f \in Broadcast!Range(channel) \cup forwarding : f.para = p}}
                              \cup (IF p \in pending THEN {relay.number} ELSE {})
                              \cup (IF p \in DOMAIN trackers THEN heard[p] \cup Broadcast!Range(trackers[p]) ELSE {})
    BY DEF ActiveKeepTracker, Broadcast!ActiveKeepTracker
  <2>1. OnItsWay(p, n) \/ Delivered(p, n)
    BY DEF BroadcastInv, AllThere
  <2>2. CASE OnItsWay(p, n)
    <3>1. CASE p \in pending /\ n = relay.number
      BY <3>1
    <3>2. ASSUME NEW e \in Broadcast!Range(channel) \cup forwarding, e = [para |-> p, number |-> n]
          PROVE  n \in {f.number : f \in {g \in Broadcast!Range(channel) \cup forwarding : g.para = p}}
      BY <3>2
    <3>3. ASSUME NEW i \in 1..Len(channel), channel[i] = [para |-> p, number |-> n]
          PROVE  channel[i] \in Broadcast!Range(channel)
      BY <3>3 DEF BroadcastInv, BroadcastTypes, Broadcast!Range
    <3> QED BY <2>2, <3>1, <3>2, <3>3 DEF OnItsWay
  <2>3. CASE Delivered(p, n)
    <3>1. p \in DOMAIN trackers /\ trackers[p] \in Seq(Heads)
      BY <2>3 DEF Delivered, BroadcastInv, BroadcastTypes
    <3>2. n \in heard[p] \/ n \in Broadcast!Range(trackers[p])
      BY <2>3, <3>1 DEF Delivered, Broadcast!Range
    <3> QED BY <3>1, <3>2
  <2> QED BY <2>1, <2>2, <2>3
<1> QED BY <1>1, BroadcastInvHolds, PTL
-----------------------------------------------------------------------------
(* The storages behind the API: what the task does with the records is what the
   storage it is over does, so all that is proved of the storages holds of them. *)
ProvedPrefixed == INSTANCE PrefixedStorageProofs WITH ephemeral_records <- prefixed_index

(* What is queued to change records is what the writer asks. *)
Asked == \A i \in DOMAIN queue : queue[i].request.type \in Changes => queue[i].request \in WriterRequests

(* A request of the writer, by its type. *)
LEMMA WriterAsks ==
  ASSUME NEW r \in WriterRequests
  PROVE  /\ r.at \in Addresses
         /\ r.type \in {"Write", "Replace"} => r.entry \in EntriesAt(r.at)
         /\ r.type = "Delete" => DeletableAt(r.at)
<1>1. PICK a \in Addresses : r \in RequestsAt(a)
  BY DEF WriterRequests
<1>2. CASE \E t \in {"Write", "Replace"}, e \in EntriesAt(a) : r = Request(t, a, e)
  BY <1>2 DEF Request
<1>3. CASE r = Ask("Read", a)
  BY <1>3 DEF Ask, Request
<1>4. CASE r = Ask("Delete", a) /\ DeletableAt(a)
  BY <1>4 DEF Ask, Request
<1> QED BY <1>1, <1>2, <1>3, <1>4 DEF RequestsAt

(* The queue after a step has what it had, and what a caller sent. *)
LEMMA AskedStep ==
  ASSUME LeavingInv, Asked, [StorageNext]_storageVars
  PROVE  Asked'
<1>1. queue \in Seq(Message)
  BY DEF LeavingInv, TypeInv
<1>2. CASE UNCHANGED <<service, queue>>
  BY <1>2 DEF Asked, WriterRequests, RequestsAt, Addresses, EntriesAt, DeletableAt
<1>3. ASSUME UNCHANGED service PROVE WriterRequests' = WriterRequests
  BY <1>3 DEF WriterRequests, RequestsAt, Addresses, EntriesAt, DeletableAt
<1>4. ASSUME NEW c \in Callers, send(c) PROVE Asked'
  <2>1. PICK r \in RequestsOf(c) : queue' = Append(queue, [from |-> c, request |-> r]) /\ UNCHANGED service
    BY <1>4 DEF send, Sent
  <2>2. r.type \in Changes => r \in WriterRequests
    <3>1. r.type \in Changes => c = Writer
      BY RequestTypes DEF LeavingInv
    <3>2. RequestsOf(Writer) = WriterRequests
      BY CallersAssumption DEF RequestsOf
    <3> QED BY <3>1, <3>2
  <2>3. \A i \in DOMAIN queue' :
        (i \in DOMAIN queue /\ queue'[i] = queue[i]) \/ queue'[i] = [from |-> c, request |-> r]
    BY <1>1, <2>1
  <2> QED BY <1>3, <2>1, <2>2, <2>3 DEF Asked
<1>5. ASSUME api_handler_task PROVE Asked'
  <2>1. UNCHANGED service /\ (queue' = <<>> \/ queue' = Tail(queue)) /\ queue # <<>>
    BY <1>5 DEF api_handler_task, Serves
  <2>2. \A i \in DOMAIN queue' : i + 1 \in DOMAIN queue /\ queue'[i] = queue[i + 1]
    BY <1>1, <2>1
  <2> QED BY <1>3, <2>1, <2>2 DEF Asked
<1>6. ASSUME NEW c \in Callers, call(c) \/ panic(c) \/ leave(c) PROVE Asked'
  BY <1>2, <1>6 DEF call, panic, leave
<1>7. CASE UNCHANGED storageVars
  BY <1>2, <1>7 DEF storageVars, protocol
<1> QED BY <1>4, <1>5, <1>6, <1>7 DEF StorageNext, Callers

(* What the task does for the head of the queue is a step of the plain storage, *)
LEMMA PlainServed ==
  ASSUME service = "plain", NEW r, r.type \in Changes => r \in WriterRequests, PlainServes(r)
  PROVE  [Next]_vars
<1>1. ASSUME r.type \in Changes
      PROVE  /\ r.at \in Keys
             /\ r.type \in {"Write", "Replace"} => r.entry \in Entries(r.at)
  BY <1>1, WriterAsks DEF Addresses, EntriesAt
<1>2. CASE r.type = "Write" /\ ~Stored(r.at)
  <2>1. insert(r.at, r.entry)
    BY <1>2 DEF PlainServes
  <2> QED BY <1>1, <1>2, <2>1 DEF Next, Changes
<1>3. CASE r.type = "Replace" /\ Stored(r.at)
  <2>1. replace(r.at, r.entry)
    BY <1>3 DEF PlainServes
  <2> QED BY <1>1, <1>3, <2>1 DEF Next, Changes
<1>4. CASE r.type = "Delete" /\ Stored(r.at)
  <2>1. delete(r.at)
    BY <1>4 DEF PlainServes
  <2> QED BY <1>1, <1>4, <2>1 DEF Next, Changes
<1>5. CASE /\ ~(r.type = "Write" /\ ~Stored(r.at)) /\ ~(r.type = "Replace" /\ Stored(r.at))
           /\ ~(r.type = "Delete" /\ Stored(r.at))
  BY <1>5 DEF PlainServes, plainVars
<1> QED BY <1>2, <1>3, <1>4, <1>5

(* or of the prefixed one. *)
LEMMA PrefixedServed ==
  ASSUME service # "plain", NEW r, r.type \in Changes => r \in WriterRequests, PrefixedServes(r)
  PROVE  [Prefixed!Next]_(Prefixed!vars)
<1>1. ASSUME r.type \in Changes
      PROVE  /\ r.at \in Slots
             /\ r.type \in {"Write", "Replace"} => r.entry \in Prefixed!Entries
             /\ r.type = "Delete" => r.at \in Deletable
  BY <1>1, WriterAsks DEF Addresses, EntriesAt, DeletableAt
<1>2. CASE r.type = "Write" /\ ~Prefixed!Stored(r.at)
  <2>1. Prefixed!insert_prefix(r.at, r.entry)
    BY <1>2 DEF PrefixedServes
  <2> QED BY <1>1, <1>2, <2>1 DEF Prefixed!Next, Changes
<1>3. CASE r.type = "Replace" /\ Prefixed!Stored(r.at)
  <2>1. Prefixed!replace_prefixed(r.at, r.entry)
    BY <1>3 DEF PrefixedServes
  <2> QED BY <1>1, <1>3, <2>1 DEF Prefixed!Next, Changes
<1>4. CASE r.type = "Delete" /\ Prefixed!Stored(r.at)
  <2>1. Prefixed!delete_prefix(r.at)
    BY <1>4 DEF PrefixedServes
  <2> QED BY <1>1, <1>4, <2>1 DEF Prefixed!Next, Changes
<1>5. CASE /\ ~(r.type = "Write" /\ ~Prefixed!Stored(r.at)) /\ ~(r.type = "Replace" /\ Prefixed!Stored(r.at))
           /\ ~(r.type = "Delete" /\ Prefixed!Stored(r.at))
  BY <1>5 DEF PrefixedServes, Prefixed!vars
<1> QED BY <1>2, <1>3, <1>4, <1>5

LEMMA StoragesStep ==
  ASSUME LeavingInv, Asked, [StorageNext]_storageVars
  PROVE  [Next]_vars /\ [Prefixed!Next]_(Prefixed!vars)
<1>1. CASE UNCHANGED <<plainVars, prefixedVars>>
  BY <1>1 DEF plainVars, prefixedVars, Prefixed!vars
<1>2. ASSUME api_handler_task PROVE [Next]_vars /\ [Prefixed!Next]_(Prefixed!vars)
  <2> DEFINE r == Head(queue).request
  <2>1. queue # <<>> /\ IF service = "plain" THEN PlainServes(r) ELSE PrefixedServes(r)
    BY <1>2 DEF api_handler_task, Serves
  <2>2. r.type \in Changes => r \in WriterRequests
    <3>1. queue \in Seq(Message)
      BY DEF LeavingInv, TypeInv
    <3>2. 1 \in DOMAIN queue /\ queue[1] = Head(queue)
      BY <2>1, <3>1
    <3> QED BY <3>2 DEF Asked
  <2>3. CASE service = "plain"
    <3>1. [Next]_vars
      BY <2>1, <2>2, <2>3, PlainServed
    <3>2. UNCHANGED Prefixed!vars
      BY <2>1, <2>3 DEF PlainServes, prefixedVars, Prefixed!vars
    <3> QED BY <3>1, <3>2
  <2>4. CASE service # "plain"
    <3>1. [Prefixed!Next]_(Prefixed!vars)
      BY <2>1, <2>2, <2>4, PrefixedServed
    <3>2. UNCHANGED vars
      BY <2>1, <2>4 DEF PrefixedServes, plainVars
    <3> QED BY <3>1, <3>2
  <2> QED BY <2>3, <2>4
<1>3. ASSUME NEW c \in Callers, call(c) \/ send(c) \/ panic(c) \/ leave(c) PROVE UNCHANGED <<plainVars, prefixedVars>>
  BY <1>3 DEF call, send, Sent, panic, leave
<1>4. CASE UNCHANGED storageVars
  BY <1>1, <1>4 DEF storageVars
<1> QED BY <1>1, <1>2, <1>3, <1>4 DEF StorageNext, Callers

(* The task over either storage, whoever asks for what: its records change as those of
   the storage alone do (api_handler_task, api_handler_task_prefixed). *)
THEOREM TaskIsStorage == StorageSpec => Spec /\ Prefixed!Spec
<1>1. StorageInit => new /\ Prefixed!new /\ LeavingInv /\ Asked
  <2>1. StorageInit => Asked
    BY DEF StorageInit, Asked
  <2> QED BY <2>1, LeavingInit DEF StorageInit
<1>2. LeavingInv /\ Asked /\ [StorageNext]_storageVars
        => LeavingInv' /\ Asked' /\ [Next]_vars /\ [Prefixed!Next]_(Prefixed!vars)
  BY LeavingStep, AskedStep, StoragesStep
<1> QED BY <1>1, <1>2, PTL DEF StorageSpec, Spec, Prefixed!Spec

(* The services run the storage's task. *)
LEMMA ServicesRunStorage == ServicesSpec => StorageSpec
<1>1. Init => StorageInit
  BY DEF Init
<1>2. [ServicesNext]_servicesVars => [StorageNext]_storageVars
  BY DEF ServicesNext, servicesVars
<1> QED BY <1>1, <1>2, PTL DEF ServicesSpec, StorageSpec

(* Behind the API too, whoever asks for what, the plain storage's index stays bounded,
   and with callers that keep persistent records under keys of their own nothing leaks
   and no persistent record is pruned (api_handler_task). *)
THEOREM PlainBehindApi ==
  ServicesSpec => []IndexBounded /\ (PersistentApart => []NothingLeaks /\ PersistentNotPruned)
<1>1. Spec => []IndexBounded
  BY IndexStaysBounded
<1>2. PersistentApart => (Spec => []NothingLeaks)
  BY NothingEverLeaks
<1>3. PersistentApart => (Spec => PersistentNotPruned)
  BY PersistentRecordsStay
<1>4. ServicesSpec => Spec
  BY ServicesRunStorage, TaskIsStorage
<1> QED BY <1>1, <1>2, <1>3, <1>4

(* The prefixed storage that the task is over is the one its theorems are about. *)
LEMMA SameStorage ==
  /\ Prefixed!new => ProvedPrefixed!new
  /\ [Prefixed!Next]_(Prefixed!vars) => [ProvedPrefixed!Next]_(ProvedPrefixed!vars)
  /\ ProvedPrefixed!TypeOK => Prefixed!TypeOK
  /\ ProvedPrefixed!IndexBounded => Prefixed!IndexBounded
  /\ ProvedPrefixed!NothingLeaks => Prefixed!NothingLeaks
<1>1. Prefixed!new => ProvedPrefixed!new
  BY DEF Prefixed!new, ProvedPrefixed!new, Prefixed!EmptyIndex, ProvedPrefixed!EmptyIndex
<1>2. Prefixed!Next => ProvedPrefixed!Next
  BY DEF Prefixed!Next, ProvedPrefixed!Next, Prefixed!Entries, ProvedPrefixed!Entries, Prefixed!StorageEntry, ProvedPrefixed!StorageEntry,
     Prefixed!RecordType, ProvedPrefixed!RecordType, Prefixed!insert_prefix, ProvedPrefixed!insert_prefix, Prefixed!prune, ProvedPrefixed!prune,
     Prefixed!replace_prefixed, ProvedPrefixed!replace_prefixed, Prefixed!replace, ProvedPrefixed!replace, Prefixed!Matches, ProvedPrefixed!Matches,
     Prefixed!delete_prefix, ProvedPrefixed!delete_prefix, Prefixed!delete, ProvedPrefixed!delete, Prefixed!Stored, ProvedPrefixed!Stored,
     Prefixed!KeyOf, ProvedPrefixed!KeyOf, Prefixed!PrunedIndex, ProvedPrefixed!PrunedIndex, Prefixed!PrunedKeys, ProvedPrefixed!PrunedKeys,
     Prefixed!AddToIndex, ProvedPrefixed!AddToIndex, Prefixed!TooManyBlocks, ProvedPrefixed!TooManyBlocks,
     Prefixed!OldestBlock, ProvedPrefixed!OldestBlock, Prefixed!IndexedBlocks, ProvedPrefixed!IndexedBlocks,
     Prefixed!Cardinality, ProvedPrefixed!Cardinality
<1>3. [Prefixed!Next]_(Prefixed!vars) => [ProvedPrefixed!Next]_(ProvedPrefixed!vars)
  BY <1>2 DEF Prefixed!vars, ProvedPrefixed!vars
<1>4. ProvedPrefixed!TypeOK => Prefixed!TypeOK
  BY DEF Prefixed!TypeOK, ProvedPrefixed!TypeOK, Prefixed!StorageEntry, ProvedPrefixed!StorageEntry, Prefixed!RecordType, ProvedPrefixed!RecordType
<1>5. ProvedPrefixed!IndexBounded => Prefixed!IndexBounded
  BY DEF Prefixed!IndexBounded, ProvedPrefixed!IndexBounded, Prefixed!IndexedBlocks, ProvedPrefixed!IndexedBlocks,
     Prefixed!Cardinality, ProvedPrefixed!Cardinality, Prefixed!IsFiniteSet, ProvedPrefixed!IsFiniteSet
<1>6. ProvedPrefixed!NothingLeaks => Prefixed!NothingLeaks
  BY DEF Prefixed!NothingLeaks, ProvedPrefixed!NothingLeaks, Prefixed!Stored, ProvedPrefixed!Stored, Prefixed!KeyOf, ProvedPrefixed!KeyOf
<1> QED BY <1>1, <1>3, <1>4, <1>5, <1>6

(* The prefixed storage behind the API: its index stays bounded, nothing leaks, and
   the records with keys of their own expire with the block they were inserted at
   (api_handler_task_prefixed). *)
THEOREM PrefixedBehindApi ==
  ServicesSpec => []Prefixed!IndexBounded /\ []Prefixed!NothingLeaks /\ ProvedPrefixed!ImplementsWindow
<1>1. ProvedPrefixed!Spec => []ProvedPrefixed!IndexBounded /\ []ProvedPrefixed!NothingLeaks /\ ProvedPrefixed!ImplementsWindow
  BY ProvedPrefixed!IndexStaysBounded, ProvedPrefixed!NothingEverLeaks, ProvedPrefixed!StorageImplementsWindow,
     BlocksAssumption, MaxBlocksAssumption, NoRecordAssumption, PrefixedAssumption
     DEF ProvedPrefixed!StorageEntry, ProvedPrefixed!RecordType, StorageEntry, RecordType
<1>2. Prefixed!Spec => ProvedPrefixed!Spec
  BY SameStorage, PTL DEF Prefixed!Spec, ProvedPrefixed!Spec
<1>3. ProvedPrefixed!IndexBounded => Prefixed!IndexBounded
  BY SameStorage
<1>4. ProvedPrefixed!NothingLeaks => Prefixed!NothingLeaks
  BY SameStorage
<1>5. ServicesSpec => Prefixed!Spec
  BY ServicesRunStorage, TaskIsStorage
<1> QED BY <1>1, <1>2, <1>3, <1>4, <1>5, PTL
-----------------------------------------------------------------------------
(* The queue to the storage has a bound. *)
QueueFits == Len(queue) <= QueueSize

LEMMA QueueStep ==
  ASSUME LeavingInv, QueueFits, [StorageNext]_storageVars
  PROVE  QueueFits'
<1> SUFFICES Len(queue') <= QueueSize
  BY DEF QueueFits
<1>1. queue \in Seq(Message) /\ Len(queue) \in Nat /\ QueueSize \in Nat /\ Len(<<>>) = 0
      /\ Len(queue) <= QueueSize
  BY QueueAssumption DEF QueueFits, LeavingInv, TypeInv
<1>2. ASSUME NEW c \in Callers, send(c) PROVE Len(queue') <= QueueSize
  <2>1. PICK r : queue' = Append(queue, [from |-> c, request |-> r]) /\ Len(queue) < QueueSize
    BY <1>2 DEF send
  <2>2. Len(queue') = Len(queue) + 1
    BY <1>1, <2>1
  <2> QED BY <1>1, <2>1, <2>2
<1>3. ASSUME api_handler_task PROVE Len(queue') <= QueueSize
  <2>1. queue # <<>> /\ (queue' = <<>> \/ queue' = Tail(queue))
    BY <1>3 DEF api_handler_task, Serves
  <2>2. Len(Tail(queue)) = Len(queue) - 1
    BY <1>1, <2>1
  <2> QED BY <1>1, <2>1, <2>2
<1>4. ASSUME NEW c \in Callers, call(c) \/ panic(c) \/ leave(c) PROVE Len(queue') <= QueueSize
  BY <1>1, <1>4 DEF call, panic, leave
<1>5. CASE UNCHANGED storageVars
  BY <1>1, <1>5 DEF storageVars, protocol
<1> QED BY <1>2, <1>3, <1>4, <1>5 DEF StorageNext, Callers

LEMMA StorageTypes == StorageSpec => []StorageTypeOK
<1>1. StorageInit => QueueFits
  <2>1. Len(<<>>) = 0
    OBVIOUS
  <2> QED BY <2>1, QueueAssumption DEF StorageInit, QueueFits
<1>2. LeavingInv /\ QueueFits /\ [StorageNext]_storageVars => QueueFits'
  BY QueueStep
<1>3. StorageSpec => []QueueFits
  BY <1>1, <1>2, LeavingHolds, PTL DEF StorageSpec
<1>4. Prefixed!Spec => []ProvedPrefixed!TypeOK
  <2>1. ProvedPrefixed!Spec => []ProvedPrefixed!TypeOK
    BY ProvedPrefixed!TypeCorrect,
       BlocksAssumption, MaxBlocksAssumption, NoRecordAssumption, PrefixedAssumption
       DEF ProvedPrefixed!StorageEntry, ProvedPrefixed!RecordType, StorageEntry, RecordType
  <2> QED BY <2>1, SameStorage, PTL DEF Prefixed!Spec, ProvedPrefixed!Spec
<1>5. ProvedPrefixed!TypeOK => Prefixed!TypeOK
  BY SameStorage
<1>6. LeavingInv => \A c \in Callers : caller[c].status \in {"idle", "sending", "waiting", "panicked", "gone"}
  BY DEF LeavingInv, TypeInv
<1>7. TypeOK /\ Prefixed!TypeOK /\ QueueFits /\ LeavingInv => StorageTypeOK
  BY <1>6 DEF StorageTypeOK, QueueFits
<1> QED BY <1>3, <1>4, <1>5, <1>7, PlainTypeCorrect, TaskIsStorage, LeavingHolds, PTL

LEMMA ExecutorTypes == ServicesSpec => []Executor!TypeOK
<1>1. Proved!ExecutorConstants
  BY ExecutorAssumption DEF Executor!ExecutorConstants, Proved!ExecutorConstants, Executor!Expected, Proved!Expected
<1>2. Proved!build /\ [][Proved!Next]_(Proved!vars) => []Proved!TypeOK
  BY <1>1, Proved!TypeCorrect
<1>3. Proved!TypeOK => Executor!TypeOK
  BY DEF Proved!TypeOK, Executor!TypeOK
<1> QED BY <1>2, <1>3, StartsAlike, StepsAlike, PTL DEF ServicesSpec

LEMMA MonitorTypes == ServicesSpec => []Monitor!TypeOK
<1>1. MonitorInv => Monitor!TypeOK
  <2> SUFFICES ASSUME MonitorInv, NEW e \in Endpoints
               PROVE  /\ watcher[e].status \in {"populating", "watching", "ended", "panicked"}
                      /\ Len(watcher[e].block_times) < ChartWidth
    BY DEF Monitor!TypeOK, MonitorInv
  <2>1. watcher[e] \in WatcherState /\ Remembers(watcher[e])
    BY DEF MonitorInv
  <2>2. Len(<<>>) = 0 /\ ChartWidth \in Nat /\ 0 < ChartWidth
    BY TreeFacts
  <2>3. watcher[e].block_times \in Seq(Intervals) /\ watcher[e].fetched \in Nat
    BY <2>1 DEF WatcherState
  <2>4. Len(watcher[e].block_times) \in Nat
    BY <2>3
  <2> QED BY <2>1, <2>2, <2>3, <2>4 DEF WatcherState, Remembers
<1> QED BY <1>1, MonitorInvHolds, PTL

LEMMA BroadcastTypesHold == ServicesSpec => []Broadcast!TypeOK
<1>1. BroadcastInv => Broadcast!TypeOK
  <2> SUFFICES ASSUME BroadcastInv PROVE Broadcast!TypeOK
    OBVIOUS
  <2>1. BroadcastTypes /\ OrderOK
    BY DEF BroadcastInv
  <2>2. BroadcastEvents = Broadcast!Event
    BY DEF BroadcastEvents, Broadcast!Event, Heads
  <2>3. forwarding \subseteq Broadcast!Event /\ Broadcast!Cardinality(forwarding) <= 1
    <3>1. \A e : Broadcast!Cardinality({e}) = 1
      BY FS_Singleton DEF Broadcast!Cardinality, Cardinality, Broadcast!IsFiniteSet, IsFiniteSet
    <3>2. Broadcast!Cardinality({}) = 0
      BY FS_EmptySet DEF Broadcast!Cardinality, Cardinality, Broadcast!IsFiniteSet, IsFiniteSet
    <3>3. 0 <= 1 /\ 1 <= 1
      OBVIOUS
    <3>4. forwarding = {} \/ \E e \in BroadcastEvents : forwarding = {e}
      BY <2>1 DEF BroadcastTypes
    <3>5. CASE forwarding = {}
      BY <3>2, <3>3, <3>5
    <3>6. ASSUME NEW e \in BroadcastEvents, forwarding = {e}
          PROVE  forwarding \subseteq Broadcast!Event /\ Broadcast!Cardinality(forwarding) <= 1
      BY <2>2, <3>1, <3>3, <3>6
    <3> QED BY <3>4, <3>5, <3>6
  <2>4. \A p \in DOMAIN last_blocks : last_blocks[p] \in (best - EvictAfter)..best
    <3> SUFFICES ASSUME NEW p \in DOMAIN last_blocks PROVE last_blocks[p] \in (best - EvictAfter)..best
      OBVIOUS
    <3>1. last_blocks[p] \in Nat /\ best \in Nat /\ EvictAfter \in Nat
      BY <2>1, BroadcastNats DEF BroadcastTypes, Heads
    <3>2. last_blocks[p] <= best /\ best <= last_blocks[p] + EvictAfter
      BY <2>1 DEF OrderOK
    <3> QED BY <3>1, <3>2
  <2>5. DOMAIN heard = DOMAIN trackers
    BY <2>1 DEF BroadcastTypes
  <2> QED BY <2>1, <2>2, <2>3, <2>4, <2>5 DEF Broadcast!TypeOK, BroadcastTypes, Heads
<1> QED BY <1>1, BroadcastInvHolds, PTL

(* The channel to the websocket clients has a bound too. *)
UpdatesFit == server \in {"up", "down"} /\ Len(to_websocket) <= UpdatesRoom

LEMMA UpdatesFitStep == ListenerInv /\ UpdatesFit /\ [ServicesNext]_servicesVars => UpdatesFit'
<1> SUFFICES ASSUME ListenerInv, UpdatesFit, [ServicesNext]_servicesVars PROVE UpdatesFit'
  OBVIOUS
<1>1. to_websocket \in Seq(Nat) /\ Len(to_websocket) \in Nat /\ UpdatesRoom \in Nat
  BY ListenerAssumption DEF ListenerInv, ListenerTypes
<1>2. CASE Listener!send
  <2>1. to_websocket' = Append(to_websocket, events) /\ Len(to_websocket) < UpdatesRoom /\ UNCHANGED server
    BY <1>2 DEF Listener!send
  <2>2. Len(to_websocket') = Len(to_websocket) + 1
    BY <1>1, <2>1
  <2> QED BY <1>1, <2>1, <2>2 DEF UpdatesFit
<1>3. ASSUME NEW c \in WsClients, Listener!take_update(c) PROVE UpdatesFit'
  <2>1. UNCHANGED server /\ (UNCHANGED to_websocket \/ (to_websocket # <<>> /\ to_websocket' = Tail(to_websocket)))
    BY <1>3 DEF Listener!take_update
  <2>2. to_websocket # <<>> => Len(Tail(to_websocket)) = Len(to_websocket) - 1
    BY <1>1
  <2> QED BY <1>1, <2>1, <2>2 DEF UpdatesFit
<1>4. ASSUME \/ Listener!process_event \/ Listener!send_fails \/ Listener!sender_on_shutdown \/ Listener!shutdown
             \/ Listener!server_ends
             \/ \E c \in WsClients : Listener!ws_handler(c) \/ Listener!hang_up(c) \/ Listener!send_update(c)
      PROVE  UpdatesFit'
  BY <1>4 DEF UpdatesFit, Listener!process_event, Listener!send_fails, Listener!sender_on_shutdown, Listener!shutdown,
     Listener!server_ends, Listener!ws_handler, Listener!hang_up, Listener!send_update
<1>5. CASE UNCHANGED listenerVars
  BY <1>5 DEF listenerVars, UpdatesFit
<1> QED BY <1>2, <1>3, <1>4, <1>5 DEF ServicesNext, servicesVars, Listener!Next

LEMMA ListenerTypesHold == ServicesSpec => []Listener!TypeOK
<1>1. Init => ListenerInv /\ UpdatesFit
  <2>1. Listener!spawn => UpdatesFit
    <3>1. Len(<<>>) = 0
      OBVIOUS
    <3> QED BY <3>1, ListenerAssumption DEF Listener!spawn, UpdatesFit
  <2> QED BY <2>1, ListenerInit DEF Init
<1>2. ListenerInv /\ UpdatesFit => Listener!TypeOK
  BY DEF ListenerInv, ListenerTypes, ClientState, UpdatesFit, Listener!TypeOK
<1> QED BY <1>1, <1>2, ListenerStep, UpdatesFitStep, PTL DEF ServicesSpec

LEMMA DisputesTypes == ServicesSpec => []DisputesTypeOK
<1>1. Init => DisputesInit
  BY DEF Init
<1>2. [ServicesNext]_servicesVars => [DisputesNext]_disputesVars
  BY DEF ServicesNext, servicesVars
<1>3. ServicesSpec => DisputesSpec
  BY <1>1, <1>2, PTL DEF ServicesSpec, DisputesSpec
<1> QED BY <1>3, TypesHold

(* Nothing the services hold outgrows its bound: the queues to the storage and to the
   nodes, the retries, the charts, the broadcast channel, the trackers' channels, the
   table of last blocks and the channel to the websocket clients (MAX_MSG_QUEUE_SIZE,
   Retry, max_charts, evict_stalled). *)
THEOREM ServicesTypesHold == ServicesSpec => []ServicesTypeOK
<1>1. StorageTypeOK /\ Executor!TypeOK /\ Monitor!TypeOK /\ Broadcast!TypeOK /\ Listener!TypeOK /\ DisputesTypeOK
        => ServicesTypeOK
  BY DEF ServicesTypeOK
<1>2. ServicesSpec => []StorageTypeOK
  BY ServicesRunStorage, StorageTypes
<1> QED BY <1>1, <1>2, ExecutorTypes, MonitorTypes, BroadcastTypesHold, ListenerTypesHold, DisputesTypes, PTL
=============================================================================
