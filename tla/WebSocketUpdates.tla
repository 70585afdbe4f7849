-------------------------- MODULE WebSocketUpdates --------------------------
(***************************************************************************)
(* The websocket listener of the collector (collector/ws.rs, started by    *)
(* Collector::spawn when --listen is given): the collector sends an update *)
(* for every candidate and dispute event into one channel, and waits while *)
(* it is full; the server holds a receiver, and every websocket connection *)
(* a clone of it, so that an update goes to one of them.                   *)
(*                                                                         *)
(* The tasks of the connections do not hear the shutdown, the collector    *)
(* not while it waits.  An update is its number; the HTTP handlers are in  *)
(* StorageApi.                                                             *)
(***************************************************************************)
EXTENDS Naturals, Sequences

CONSTANTS WsClients,    \* connections
          UpdatesRoom,  \* of the channel
          MaxEvents     \* bound: events of the collector

VARIABLES sender,        \* the collector: "running", "sending", "ended"
          events,        \* how many events it has processed
          to_websocket,  \* the channel
          server,        \* "up" or "down"
          client,        \* the task of every connection, and what the client got
          stop           \* a shutdown has been broadcast

vars == <<sender, events, to_websocket, server, client, stop>>
-----------------------------------------------------------------------------
NotConnected == [task |-> "none", link |-> "down", update |-> 0, got |-> <<>>]

spawn ==
  /\ sender = "running" /\ events = 0 /\ to_websocket = <<>>
  /\ server = "up" /\ stop = FALSE
  /\ client = [c \in WsClients |-> NotConnected]

HasTask(c) == client[c].task \in {"receiving", "sending"}

(* A wrong collector that keeps a receiver of its own. *)
ReceiverKept == TRUE

(* Somebody holds a receiver: the routes of the server or a connection. *)
Received == server = "up" \/ \E c \in WsClients : HasTask(c)

(* An event is processed up to `to_websocket.send(..).await`. *)
process_event ==
  /\ sender = "running" /\ events < MaxEvents
  /\ sender' = "sending" /\ events' = events + 1
  /\ UNCHANGED <<to_websocket, server, client, stop>>

send ==
  /\ sender = "sending" /\ Received /\ Len(to_websocket) < UpdatesRoom
  /\ to_websocket' = Append(to_websocket, events)
  /\ sender' = "running"
  /\ UNCHANGED <<events, server, client, stop>>

(* SendFatal: the collector terminates abnormally. *)
send_fails ==
  /\ sender = "sending" /\ ~Received
  /\ sender' = "ended"
  /\ UNCHANGED <<events, to_websocket, server, client, stop>>

(* "Received shutdown signal in collector" *)
sender_on_shutdown ==
  /\ sender = "running" /\ stop
  /\ sender' = "ended"
  /\ UNCHANGED <<events, to_websocket, server, client, stop>>
-----------------------------------------------------------------------------
(* A client connects and its task starts. *)
ws_handler(c) ==
  /\ server = "up" /\ client[c].task = "none"
  /\ client' = [client EXCEPT ![c].task = "receiving", ![c].link = "up"]
  /\ UNCHANGED <<sender, events, to_websocket, server, stop>>

hang_up(c) ==
  /\ client[c].link = "up"
  /\ client' = [client EXCEPT ![c].link = "down"]
  /\ UNCHANGED <<sender, events, to_websocket, server, stop>>

(* handle_ws_connection: the task takes an update, or finds the channel closed and
   empty, *)
take_update(c) ==
  /\ client[c].task = "receiving"
  /\ IF to_websocket # <<>>
       THEN /\ client' = [client EXCEPT ![c].task = "sending", ![c].update = Head(to_websocket)]
            /\ to_websocket' = Tail(to_websocket)
       ELSE /\ sender = "ended"
            /\ client' = [client EXCEPT ![c].task = "ended"]
            /\ UNCHANGED to_websocket
  /\ UNCHANGED <<sender, events, server, stop>>

(* A wrong task that goes on with the next update when one cannot be sent. *)
send_update_going_on(c) ==
  /\ client[c].task = "sending"
  /\ IF client[c].link = "up"
       THEN client' = [client EXCEPT ![c] = [task |-> "receiving", link |-> "up", update |-> 0,
                                       got |-> Append(client[c].got, client[c].update)]]
       ELSE client' = [client EXCEPT ![c].task = "receiving"]
  /\ UNCHANGED <<sender, events, to_websocket, server, stop>>

(* and sends it to the client; an update that cannot be sent is lost with the task. *)
send_update(c) ==
  /\ client[c].task = "sending"
  /\ IF client[c].link = "up"
       THEN client' = [client EXCEPT ![c] = [task |-> "receiving", link |-> "up", update |-> 0,
                                       got |-> Append(client[c].got, client[c].update)]]
       ELSE client' = [client EXCEPT ![c].task = "ended"]
  /\ UNCHANGED <<sender, events, to_websocket, server, stop>>
-----------------------------------------------------------------------------
shutdown ==
  /\ ~stop /\ stop' = TRUE
  /\ UNCHANGED <<sender, events, to_websocket, server, client>>

(* The graceful shutdown of the server drops its routes; upgraded connections are
   not part of it. *)
server_ends ==
  /\ stop /\ server = "up"
  /\ server' = "down"
  /\ UNCHANGED <<sender, events, to_websocket, client, stop>>

Next ==
  \/ process_event \/ send \/ send_fails \/ sender_on_shutdown
  \/ \E c \in WsClients : ws_handler(c) \/ hang_up(c) \/ take_update(c) \/ send_update(c)
  \/ shutdown \/ server_ends

(* The tasks run; a client reads what it is sent, or its connection breaks. *)
Fairness ==
  /\ WF_vars(send \/ send_fails \/ sender_on_shutdown)
  /\ \A c \in WsClients : WF_vars(take_update(c)) /\ WF_vars(send_update(c))
  /\ WF_vars(server_ends)

Spec == spawn /\ [][Next]_vars /\ Fairness
-----------------------------------------------------------------------------
TypeOK ==
  /\ sender \in {"running", "sending", "ended"} /\ server \in {"up", "down"}
  /\ Len(to_websocket) <= UpdatesRoom
  /\ \A c \in WsClients : client[c].task \in {"none", "receiving", "sending", "ended"}

(* Every update sent is in the channel, with one client, or was lost with a task
   whose connection had broken, one per task; each client gets its share in
   order (handle_ws_connection). *)
UpdatesShared ==
  LET sent == IF sender = "running" THEN 1..events ELSE 1..events - 1
      got(c) == {client[c].got[i] : i \in DOMAIN client[c].got}
      held(c) == {client[c].update} \ {0}
      queued == {to_websocket[i] : i \in DOMAIN to_websocket}
  IN /\ sent \subseteq queued \cup UNION {got(c) \cup held(c) : c \in WsClients}
     /\ \A c, d \in WsClients : c # d => (got(c) \cup held(c)) \cap (got(d) \cup held(d)) = {}
     /\ \A c \in WsClients : \A i \in 2..Len(client[c].got) : client[c].got[i - 1] < client[c].got[i]

(* A shutdown gets through to the collector although it may be waiting for room in
   the channel: with no client the end of the server closes the channel, with a
   client its task makes room or goes (update_state and process_candidate_change
   do not look at shutdown_rx while they send). *)
CollectorStops == stop ~> sender = "ended"
=============================================================================
