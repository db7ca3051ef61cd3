----------------------------- MODULE ClientSync ------------------------------
(***************************************************************************)
(* The synchronisation mode "client".  The trigger on the title of an      *)
(* article publishes it through an MQTT client of its own process          *)
(* (publishMqttMessage, triggers/client/mqttClient.c).  The client is made *)
(* at the first call and connects in the background; what is published     *)
(* waits in it (QoS 2) until its network thread has a connection.          *)
(*                                                                         *)
(* The MQTT library is modelled by what the code asks of it: a client      *)
(* sends in order and each message at most once, connects again after the  *)
(* broker was gone, and dies with its process.  What the broker does with  *)
(* a message, and when a trigger is fired, is said in SyncModes.           *)
(***************************************************************************)
EXTENDS Sequences

CONSTANT Writers   \* database processes that set titles

VARIABLES
  conn_result,     \* static: whether mosquitto_connect_async has succeeded
  connection,      \* of the static client
  outbox           \* messages published through it and not yet sent

client == <<conn_result, connection, outbox>>

ClientTypeOK(Message) ==
  /\ conn_result \in [Writers -> BOOLEAN]
  /\ connection \in [Writers -> {"none", "pending", "open"}]
  /\ outbox \in [Writers -> Seq(Message)]

ClientInit ==
  /\ conn_result = [w \in Writers |-> FALSE]
  /\ connection = [w \in Writers |-> "none"]
  /\ outbox = [w \in Writers |-> <<>>]

-----------------------------------------------------------------------------
(* The client is there, or has been made and connects in the background.   *)
HasClient(w) ==
  /\ conn_result' = [conn_result EXCEPT ![w] = TRUE]
  /\ connection' = [connection EXCEPT ![w] = IF conn_result[w] THEN @ ELSE "pending"]

(* publishMqttMessage: the message is queued in the client.                *)
PublishThroughClient(w, message) ==
  HasClient(w) /\ outbox' = [outbox EXCEPT ![w] = Append(@, message)]

(* mosquitto_publish fails: the message is given up, the client kept.      *)
PublishFails(w) == HasClient(w) /\ UNCHANGED outbox

(* Mutant of ConnectFails: the first client is kept whatever became of it. *)
ConnectFailsForGood(w) ==
  /\ ~conn_result[w]
  /\ conn_result' = [conn_result EXCEPT ![w] = TRUE]
  /\ UNCHANGED <<connection, outbox>>

(* One of the calls that make and connect the client fails: the message is *)
(* given up.  The client made is never freed nor used again; the next call *)
(* makes another.                                                          *)
ConnectFails(w) ==
  /\ ~conn_result[w]
  /\ UNCHANGED client

-----------------------------------------------------------------------------
(* The network thread of the client connects, and sends.                   *)
ClientConnects(w) ==
  /\ connection[w] = "pending"
  /\ connection' = [connection EXCEPT ![w] = "open"]
  /\ UNCHANGED <<conn_result, outbox>>

ClientSends(w) ==
  /\ connection[w] = "open" /\ outbox[w] # <<>>
  /\ outbox' = [outbox EXCEPT ![w] = Tail(@)]
  /\ UNCHANGED <<conn_result, connection>>

(* The broker goes: the connections break, and of each client the message  *)
(* whose exchange of QoS 2 was under way may be lost.                      *)
ConnectionsBreak(losers) ==
  /\ losers \subseteq {w \in Writers : connection[w] = "open" /\ outbox[w] # <<>>}
  /\ connection' = [w \in Writers |-> IF connection[w] = "open" THEN "pending" ELSE connection[w]]
  /\ outbox' = [w \in Writers |-> IF w \in losers THEN Tail(outbox[w]) ELSE outbox[w]]
  /\ UNCHANGED conn_result

(* The process ends, after its last set or before, with all it holds.      *)
ClientEnds(w) ==
  /\ conn_result' = [conn_result EXCEPT ![w] = FALSE]
  /\ connection' = [connection EXCEPT ![w] = "none"]
  /\ outbox' = [outbox EXCEPT ![w] = <<>>]
==============================================================================
