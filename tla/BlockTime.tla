------------------------------ MODULE BlockTime ------------------------------
(***************************************************************************)
(* The block time monitor (block-time/src/main.rs): a watcher per node     *)
(* measures the time between a block and the next; in Cli mode it first    *)
(* fetches the last blocks (populate_view) and sends every interval to the *)
(* task that draws the charts, in Prometheus mode it fills a histogram.    *)
(*                                                                         *)
(* The node's blocks form a tree; its head moves from any block to any     *)
(* other (reorganisations, blocks missed), every request may fail, and the *)
(* updates of the subscription queue up while the watcher is busy.         *)
(* Drawing is left out.                                                    *)
(***************************************************************************)
EXTENDS Integers, Sequences, FiniteSets

CONSTANTS Endpoints,   \* the nodes
          Tree,        \* block -> its number, timestamp and parent
          NoBlock,     \* no hash
          Modes,       \* "Cli", "Prometheus"
          ChartWidth,  \* blocks to show, and to fetch at the start
          MaxUpdates   \* bound: updates per endpoint

VARIABLES mode,
          head,      \* the head of every node
          updates,   \* the updates of the subscription, and how many there were
          watcher,   \* watch_node of every node
          messages,  \* the channel to display_charts
          values,    \* the intervals of every chart
          observed,  \* the intervals in the histogram
          display    \* "running" or "ended"

vars == <<mode, head, updates, watcher, messages, values, observed, display>>

AllBlocks == DOMAIN Tree
Number(b) == Tree[b].number
Timestamp(b) == Tree[b].timestamp
saturating_sub(x, y) == IF x > y THEN x - y ELSE 0

(* A header names its parent, which is one block below it if the node has it. *)
MonitorConstants ==
  /\ ChartWidth \in Nat \ {0}
  /\ NoBlock \notin AllBlocks
  /\ \A b \in AllBlocks :
       /\ Number(b) \in Nat /\ Timestamp(b) \in Nat
       /\ Tree[b].parent # NoBlock
       /\ Tree[b].parent \in AllBlocks => Number(b) = Number(Tree[b].parent) + 1
-----------------------------------------------------------------------------
(* `fetched` counts the requests of populate_view, 0 for a timestamp not known. *)
NewWatcher == [status |-> "populating", fetched |-> 0, parent_hash |-> NoBlock, prev_ts |-> 0,
               block_times |-> <<>>, prev_block |-> 0]

Init ==
  /\ mode \in Modes
  /\ head \in [Endpoints -> AllBlocks]
  /\ updates = [e \in Endpoints |-> [queue |-> <<>>, count |-> 0]]
  /\ watcher = [e \in Endpoints |-> [NewWatcher EXCEPT !.status = IF mode = "Cli" THEN @ ELSE "watching"]]
  /\ messages = <<>>
  /\ values = [e \in Endpoints |-> <<>>]
  /\ observed = [e \in Endpoints |-> {}]
  /\ display = "running"

(* The subscription: a new head, or its end. *)
Update(e, u) ==
  /\ updates[e].count < MaxUpdates
  /\ updates' = [updates EXCEPT ![e] = [queue |-> Append(@.queue, u), count |-> IF u = NoBlock THEN MaxUpdates ELSE @.count + 1]]
NewHead(e, b) ==
  /\ head[e] # b
  /\ Update(e, b) /\ head' = [head EXCEPT ![e] = b]
  /\ UNCHANGED <<mode, watcher, messages, values, observed, display>>
Termination(e) ==
  /\ Update(e, NoBlock)
  /\ UNCHANGED <<mode, head, watcher, messages, values, observed, display>>

Send(e, interval) == messages' = Append(messages, [url |-> e, block_time |-> interval])
-----------------------------------------------------------------------------
Populating(e) == watcher[e].status = "populating" /\ watcher[e].fetched < ChartWidth
Asked(e) == IF watcher[e].parent_hash = NoBlock THEN head[e] ELSE watcher[e].parent_hash

(* One turn of the loop, walking backwards from the head. *)
populate_block(e) ==
  /\ Populating(e) /\ Asked(e) \in AllBlocks
  /\ LET b == Asked(e)  w == watcher[e] IN
     watcher' = [watcher EXCEPT
       ![e].fetched = @ + 1, ![e].prev_ts = Timestamp(b), ![e].parent_hash = Tree[b].parent,
       ![e].block_times = IF w.prev_ts = 0 THEN @ ELSE <<saturating_sub(w.prev_ts, Timestamp(b))>> \o @]
  /\ UNCHANGED <<mode, head, updates, messages, values, observed, display>>

(* A wrong turn that starts again at the head. *)
populate_misses_restarting(e) ==
  /\ Populating(e)
  /\ watcher' = [watcher EXCEPT ![e].fetched = @ + 1, ![e].parent_hash = NoBlock]
  /\ UNCHANGED <<mode, head, updates, messages, values, observed, display>>

(* The request for the header fails or finds nothing: the turn is lost. *)
populate_misses(e) ==
  /\ Populating(e)
  /\ watcher' = [watcher EXCEPT ![e].fetched = @ + 1]
  /\ UNCHANGED <<mode, head, updates, messages, values, observed, display>>

(* The request for the timestamp fails and is unwrapped. *)
populate_panics(e) ==
  /\ Populating(e) /\ Asked(e) \in AllBlocks
  /\ watcher' = [watcher EXCEPT ![e].status = "panicked"]
  /\ UNCHANGED <<mode, head, updates, messages, values, observed, display>>

(* The intervals are sent, the oldest first, and the loop starts. *)
populate_sends(e) ==
  /\ watcher[e].status = "populating" /\ watcher[e].fetched = ChartWidth
  /\ LET w == watcher[e] IN
     IF w.block_times = <<>>
       THEN /\ watcher' = [watcher EXCEPT ![e] = [NewWatcher EXCEPT !.status = "watching"]]
            /\ UNCHANGED messages
       ELSE /\ watcher' = [watcher EXCEPT ![e].block_times = Tail(@)]
            /\ Send(e, Head(w.block_times))
  /\ UNCHANGED <<mode, head, updates, values, observed, display>>
-----------------------------------------------------------------------------
Watching(e) == watcher[e].status = "watching" /\ updates[e].queue # <<>>
Taken(e) == updates' = [updates EXCEPT ![e].queue = Tail(@)]

(* The timestamp of a new block is known: an interval if it is the one above the
   last block, nothing after a gap or another block of its height. *)
watch_block(e) ==
  /\ Watching(e) /\ Head(updates[e].queue) \in AllBlocks
  /\ LET b == Head(updates[e].queue)  w == watcher[e]
         interval == saturating_sub(Timestamp(b), w.prev_ts)
         next == w.prev_block # 0 /\ saturating_sub(Number(b), w.prev_block) = 1
     IN /\ IF next /\ mode = "Cli" THEN Send(e, interval) ELSE UNCHANGED messages
        /\ observed' = [observed EXCEPT ![e] = @ \cup
             {t \in {interval, 0} : /\ mode # "Cli"
                                    /\ \/ next /\ t = interval
                                       \/ w.prev_block = 0 /\ t = 0}]
        /\ watcher' = [watcher EXCEPT ![e].prev_ts = Timestamp(b), ![e].prev_block = Number(b)]
  /\ Taken(e)
  /\ UNCHANGED <<mode, head, values, display>>

(* The request for the timestamp fails: the block is passed over. *)
watch_misses(e) ==
  /\ Watching(e) /\ Head(updates[e].queue) \in AllBlocks
  /\ Taken(e)
  /\ UNCHANGED <<mode, head, watcher, messages, values, observed, display>>

(* Termination: EndpointDisconected, whose send is unwrapped. *)
watch_ends(e) ==
  /\ Watching(e) /\ Head(updates[e].queue) = NoBlock
  /\ Taken(e)
  /\ IF display = "running"
       THEN /\ messages' = Append(messages, [url |-> e, block_time |-> NoBlock])
            /\ watcher' = [watcher EXCEPT ![e].status = "ended"]
       ELSE /\ watcher' = [watcher EXCEPT ![e].status = "panicked"]
            /\ UNCHANGED messages
  /\ UNCHANGED <<mode, head, values, observed, display>>
-----------------------------------------------------------------------------
(* A chart keeps the last `chart_width` intervals.  A disconnected endpoint
   changes nothing: the result of the subtraction is dropped. *)
display_charts ==
  /\ display = "running" /\ mode = "Cli" /\ messages # <<>>
  /\ LET m == Head(messages)  v == Append(values[m.url], m.block_time) IN
     values' = IF m.block_time = NoBlock THEN values
               ELSE [values EXCEPT ![m.url] = SubSeq(v, 1 + saturating_sub(Len(v), ChartWidth), Len(v))]
  /\ messages' = Tail(messages)
  /\ UNCHANGED <<mode, head, updates, watcher, observed, display>>

(* With Prometheus there is nothing to draw, and the receiver is dropped. *)
display_ends ==
  /\ display = "running" /\ mode # "Cli"
  /\ display' = "ended" /\ messages' = <<>>
  /\ UNCHANGED <<mode, head, updates, watcher, values, observed>>

Next ==
  \/ \E e \in Endpoints :
       \/ \E b \in AllBlocks : NewHead(e, b)
       \/ Termination(e)
       \/ populate_block(e) \/ populate_misses(e) \/ populate_panics(e) \/ populate_sends(e)
       \/ watch_block(e) \/ watch_misses(e) \/ watch_ends(e)
  \/ display_charts \/ display_ends

Spec == Init /\ [][Next]_vars
-----------------------------------------------------------------------------
TypeOK ==
  /\ \A e \in Endpoints :
       /\ watcher[e].status \in {"populating", "watching", "ended", "panicked"}
       /\ Len(values[e]) <= ChartWidth
       /\ Len(watcher[e].block_times) < ChartWidth
  /\ display = "ended" => mode # "Cli"

(* The times between two blocks, one directly above the other's height. *)
Intervals ==
  LET Neighbours == {p \in AllBlocks \X AllBlocks : Number(p[2]) = Number(p[1]) + 1}
  IN {saturating_sub(Timestamp(p[2]), Timestamp(p[1])) : p \in Neighbours}

(* Whatever is missed, skipped or reorganised, before the start or after it, no
   chart and no histogram ever holds a time that spans more than two neighbouring
   heights (watch_node, populate_view). *)
ChartsNeighbours ==
  \A e \in Endpoints :
    /\ \A i \in DOMAIN values[e] : values[e][i] \in Intervals
    /\ \A i \in DOMAIN watcher[e].block_times : watcher[e].block_times[i] \in Intervals
    /\ observed[e] \subseteq Intervals \cup {0}
=============================================================================
