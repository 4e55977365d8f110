--------------------------- MODULE EspMqttClient ---------------------------
(***************************************************************************)
(* How telemetry leaves the sensor node: MqttManager (components/          *)
(* mqtt_manager), called by the loop of app_main, on top of the MQTT       *)
(* client (managed_components/espressif__mqtt/mqtt_client.c) with the      *)
(* options this firmware builds it with: MQTT 3.1.1, automatic reconnect,  *)
(* clean sessions, no outbox limit, events run by the task that raises     *)
(* them, random message identifiers.                                       *)
(*                                                                         *)
(* Two tasks share the client under its recursive API lock: the main task  *)
(* in esp_mqtt_client_publish and the MQTT task in its loop.  What a task  *)
(* does between two network operations is one step.  Telemetry is numbered *)
(* by app_main's counter.  Timers are kept as ages that Tick advances.     *)
(*                                                                         *)
(* External: the transport, which may die at any time without either side  *)
(* noticing, and the broker, which acknowledges what it receives.          *)
(***************************************************************************)
EXTENDS Outbox, Sequences

CONSTANTS MaxMessages,    \* bound: telemetry messages app_main produces
          MaxInFlight,    \* bound: packets in one direction of a connection
          IdChoices       \* message -> identifiers platform_random may draw

Messages == 1 .. MaxMessages
MsgIds == UNION {IdChoices[m] : m \in Messages}

ASSUME ClientAssumption == /\ MaxMessages \in Nat
                           /\ MaxInFlight \in Nat \ {0}
                           /\ \A m \in Messages : IdChoices[m] # {}

VARIABLES
    (* the client                                                          *)
    lock,             \* holder of the API lock: "none", "main", "mqtt"
    state,            \* INIT, CONNECTED or WAIT_RECONNECT
    outbox,
    ping,             \* wait_for_ping_resp
    keepaliveAge,     \* since keepalive_tick, in halves of the keep-alive
    reconnectDue,     \* reconnect_timeout_ms have passed since the abort
    last_retransmit,  \* "unset", "recent", or "due": message_retransmit_timeout ago
    mqttAt,           \* where the MQTT task is
    (* MqttManager and app_main                                            *)
    is_connected_,
    mainAt,           \* where the main task is in publish
    counter,          \* the message app_main handles next
    reported,         \* what publish returned for each message
    (* the transport and the broker                                        *)
    conn,             \* "closed", "open", "dead" (peer gone, not noticed)
    uplink,           \* PUBLISH packets under way
    downlink,         \* identifiers of PUBACK packets under way
    (* history                                                             *)
    plain,            \* copies without DUP the broker has received, up to 2
    flagged,          \* messages the broker has received with DUP
    acked,            \* messages a PUBACK removed from the outbox
    expired           \* messages that expired in the outbox

taskVars == <<lock, mqttAt>>
connVars == <<state, ping, reconnectDue, is_connected_, conn, downlink>>
mainVars == <<mainAt, counter, reported>>
brokerVars == <<plain, flagged>>
historyVars == <<acked, expired>>
clientVars == <<lock, mqttAt, connVars, outbox, keepaliveAge, last_retransmit,
                mainVars, uplink, brokerVars, historyVars>>

ClientInit == /\ lock = "none"
              /\ state = "INIT"
              /\ outbox = outbox_init
              /\ ping = FALSE
              /\ keepaliveAge = 0
              /\ reconnectDue = FALSE
              /\ last_retransmit = "unset"
              /\ mqttAt = "loop"
              /\ is_connected_ = FALSE
              /\ mainAt = "idle"
              /\ counter = 1
              /\ reported = [m \in Messages |-> "nothing"]
              /\ conn = "closed"
              /\ uplink = <<>>
              /\ downlink = <<>>
              /\ plain = [m \in Messages |-> 0]
              /\ flagged = {}
              /\ acked = {}
              /\ expired = {}

-----------------------------------------------------------------------------
(* Pieces of the handlers                                                  *)

(* MqttManager::mqtt_event_handler, run by esp_mqtt_dispatch_event in the  *)
(* task that raises the event.                                             *)
OnConnected == is_connected_' = TRUE
OnDisconnected == is_connected_' = FALSE

(* Mutant: the abort raises no event.                                      *)
AbortConnectionNoEvent == /\ conn' = "closed"
                          /\ downlink' = <<>>
                          /\ reconnectDue' = FALSE
                          /\ state' = "WAIT_RECONNECT"
                          /\ ping' = FALSE
                          /\ UNCHANGED is_connected_

(* esp_mqtt_abort_connection, by whichever task noticed the failure.  What *)
(* the broker has been sent may still reach it; what it answers is lost.   *)
AbortConnection == /\ conn' = "closed"
                   /\ downlink' = <<>>
                   /\ reconnectDue' = FALSE
                   /\ state' = "WAIT_RECONNECT"
                   /\ ping' = FALSE
                   /\ OnDisconnected

(* esp_mqtt_write of a PUBLISH: accepted by the transport, though a dead   *)
(* peer never sees it; or failed, or not completed in time.                *)
Written(m, dup) ==
    /\ conn # "closed"
    /\ conn = "open" => Len(uplink) < MaxInFlight
    /\ uplink' = IF conn = "open"
                 THEN Append(uplink, [msg |-> m, id |-> outbox[m].id, dup |-> dup])
                 ELSE uplink

WriteFails == conn # "open" \/ Len(uplink) = MaxInFlight

-----------------------------------------------------------------------------
(* The main task: app_main's loop and MqttManager::publish                 *)

Return(result) == /\ reported' = [reported EXCEPT ![counter] = result]
                  /\ counter' = counter + 1
                  /\ mainAt' = "idle"

PublishCall == /\ mainAt = "idle"
               /\ counter <= MaxMessages
               /\ \/ is_connected_ /\ mainAt' = "lock" /\ UNCHANGED <<counter, reported>>
                  \/ ~is_connected_ /\ Return("false")
               /\ UNCHANGED <<taskVars, connVars, outbox, keepaliveAge, last_retransmit,
                              uplink, brokerVars, historyVars>>

(* esp_mqtt_client_publish                                                 *)
PublishLock == /\ mainAt = "lock"
               /\ lock = "none"
               /\ lock' = "main"
               /\ mainAt' = "enqueue"
               /\ UNCHANGED <<mqttAt, connVars, outbox, keepaliveAge, last_retransmit,
                              counter, reported, uplink, brokerVars, historyVars>>

(* Mutant: without a connection the message is not stored.                 *)
PublishEnqueueConnectedOnly ==
    /\ mainAt = "enqueue"
    /\ \/ /\ state = "CONNECTED"
          /\ \E id \in IdChoices[counter] : outbox' = outbox_enqueue(outbox, counter, id)
          /\ mainAt' = "write" /\ UNCHANGED <<lock, counter, reported>>
       \/ state # "CONNECTED" /\ Return("true") /\ lock' = "none" /\ UNCHANGED outbox
    /\ UNCHANGED <<mqttAt, connVars, keepaliveAge, last_retransmit,
                   uplink, brokerVars, historyVars>>

(* The message gets a random identifier and is stored; without a           *)
(* connection it is left to the MQTT task.                                 *)
PublishEnqueue ==
    /\ mainAt = "enqueue"
    /\ \E id \in IdChoices[counter] : outbox' = outbox_enqueue(outbox, counter, id)
    /\ \/ state = "CONNECTED" /\ mainAt' = "write" /\ UNCHANGED <<lock, counter, reported>>
       \/ state # "CONNECTED" /\ Return("true") /\ lock' = "none"
    /\ UNCHANGED <<mqttAt, connVars, keepaliveAge, last_retransmit,
                   uplink, brokerVars, historyVars>>

(* outbox_enqueue finds no memory.                                         *)
PublishNoMemory == /\ mainAt = "enqueue"
                   /\ Return("false")
                   /\ lock' = "none"
                   /\ UNCHANGED <<mqttAt, connVars, outbox, keepaliveAge, last_retransmit,
                                  uplink, brokerVars, historyVars>>

PublishWrite ==
    /\ mainAt = "write"
    /\ \/ /\ Written(counter, FALSE)
          /\ LET id == outbox[counter].id
             IN  outbox' = outbox_set_pending(outbox_set_tick(outbox, id), id, "TRANSMITTED")
          /\ Return("true")
          /\ UNCHANGED connVars
       \/ /\ WriteFails
          /\ AbortConnection
          /\ Return("false")
          /\ UNCHANGED <<uplink, outbox>>
    /\ lock' = "none"
    /\ UNCHANGED <<mqttAt, keepaliveAge, last_retransmit, brokerVars, historyVars>>

-----------------------------------------------------------------------------
(* The MQTT task: one iteration of the loop of esp_mqtt_task               *)

TaskLock == /\ mqttAt = "loop"
            /\ lock = "none"
            /\ lock' = "mqtt"
            /\ outbox' = outbox_delete_expired(outbox)
            /\ expired' = expired \cup Expired(outbox)
            /\ mqttAt' = CASE state = "INIT" -> "connect"
                           [] state = "CONNECTED" -> "receive"
                           [] state = "WAIT_RECONNECT" -> "wait"
            /\ UNCHANGED <<connVars, keepaliveAge, last_retransmit, mainVars, uplink,
                           brokerVars, acked>>

(* The iteration ends: the lock is released before the socket is polled.   *)
Unlock(next) == lock' = "none" /\ mqttAt' = next

(* Transport connection, CONNECT and CONNACK.                              *)
ConnectOk == /\ mqttAt = "connect"
             /\ conn' = "open"
             /\ uplink' = <<>>
             /\ downlink' = <<>>
             /\ ping' = FALSE
             /\ state' = "CONNECTED"
             /\ OnConnected
             /\ keepaliveAge' = 0
             /\ Unlock("poll")
             /\ UNCHANGED <<reconnectDue, outbox, last_retransmit, mainVars, brokerVars,
                            historyVars>>

ConnectFails == /\ mqttAt = "connect"
                /\ AbortConnection
                /\ Unlock("poll")
                /\ UNCHANGED <<outbox, keepaliveAge, last_retransmit, mainVars, uplink,
                               brokerVars, historyVars>>

(* mqtt_process_receive has returned ESP_OK: "connected for first time,    *)
(* set last_retransmit to now, avoid retransmit".                          *)
ReceiveDone == /\ mqttAt' = "resend"
               /\ last_retransmit' = IF last_retransmit = "unset" THEN "recent" ELSE last_retransmit

(* mqtt_process_receive: nothing, a PUBACK, a PINGRESP or a failure.       *)
ReceiveNothing == /\ mqttAt = "receive"
                  /\ ReceiveDone
                  /\ UNCHANGED <<lock, connVars, outbox, keepaliveAge,
                                 mainVars, uplink, brokerVars, historyVars>>

ReceivePuback ==
    /\ mqttAt = "receive"
    /\ downlink # <<>>
    /\ downlink' = Tail(downlink)
    /\ outbox' = outbox_delete(outbox, Head(downlink))
    /\ acked' = acked \cup outbox_get(outbox, Head(downlink))
    /\ ReceiveDone
    /\ UNCHANGED <<lock, state, ping, reconnectDue, is_connected_, conn, keepaliveAge,
                   mainVars, uplink, brokerVars, expired>>

ReceivePingresp == /\ mqttAt = "receive"
                   /\ ping
                   /\ conn = "open"
                   /\ ping' = FALSE
                   /\ keepaliveAge' = 0
                   /\ ReceiveDone
                   /\ UNCHANGED <<lock, state, reconnectDue, is_connected_, conn, downlink,
                                  outbox, mainVars, uplink, brokerVars, historyVars>>

ReceiveError == /\ mqttAt = "receive"
                /\ conn # "open"
                /\ AbortConnection
                /\ Unlock("poll")
                /\ UNCHANGED <<outbox, keepaliveAge, last_retransmit, mainVars, uplink,
                               brokerVars, historyVars>>

(* mqtt_resend_queued: a copy of a message that was transmitted before     *)
(* carries the DUP flag; a failed write aborts the connection.             *)
Resent(m) == Written(m, outbox[m].pending = "TRANSMITTED") /\ UNCHANGED connVars

ResendFails == WriteFails /\ AbortConnection /\ UNCHANGED uplink

(* Mutant: a message that was sent is not marked as transmitted.           *)
ResendQueuedNotMarked ==
    /\ mqttAt = "resend"
    /\ \E m \in outbox_dequeue(outbox, "QUEUED") : Resent(m) \/ ResendFails
    /\ mqttAt' = "keepalive"
    /\ UNCHANGED <<lock, outbox, keepaliveAge, last_retransmit, mainVars, brokerVars, historyVars>>

(* "resend all non-transmitted messages first": the first one per          *)
(* iteration.                                                              *)
ResendQueued ==
    /\ mqttAt = "resend"
    /\ \E m \in outbox_dequeue(outbox, "QUEUED") :
          \/ Resent(m) /\ outbox' = outbox_set_pending(outbox, outbox[m].id, "TRANSMITTED")
          \/ ResendFails /\ UNCHANGED outbox
    /\ mqttAt' = "keepalive"
    /\ UNCHANGED <<lock, keepaliveAge, last_retransmit, mainVars, brokerVars, historyVars>>

(* "resend other "transmitted" messages after 1s": the oldest.             *)
RetransmitCandidates == {m \in outbox_dequeue(outbox, "TRANSMITTED") :
                            outbox[m].age > RetransmitTimeout}

ResendTransmitted ==
    /\ mqttAt = "resend"
    /\ outbox_dequeue(outbox, "QUEUED") = {}
    /\ last_retransmit = "due"
    /\ last_retransmit' = "recent"
    /\ \/ RetransmitCandidates = {} /\ UNCHANGED <<uplink, connVars>>
       \/ \E m \in RetransmitCandidates : Resent(m) \/ ResendFails
    /\ mqttAt' = "keepalive"
    /\ UNCHANGED <<lock, outbox, keepaliveAge, mainVars, brokerVars, historyVars>>

ResendNothing == /\ mqttAt = "resend"
                 /\ outbox_dequeue(outbox, "QUEUED") = {}
                 /\ last_retransmit # "due"
                 /\ mqttAt' = "keepalive"
                 /\ UNCHANGED <<lock, connVars, outbox, keepaliveAge, last_retransmit,
                                mainVars, uplink, brokerVars, historyVars>>

(* Mutant: nobody waits for the PINGRESP.                                  *)
KeepaliveUnanswered ==
    /\ mqttAt = "keepalive"
    /\ \/ /\ keepaliveAge >= 1
          /\ conn # "closed"
          /\ ping' = TRUE
          /\ UNCHANGED <<state, reconnectDue, is_connected_, conn, downlink>>
       \/ /\ keepaliveAge >= 1
          /\ WriteFails
          /\ AbortConnection
       \/ /\ keepaliveAge < 1
          /\ UNCHANGED connVars
    /\ Unlock("poll")
    /\ UNCHANGED <<outbox, keepaliveAge, last_retransmit, mainVars, uplink, brokerVars, historyVars>>

(* process_keepalive: a ping after half the keep-alive time, an abort when *)
(* it is over without an answer.                                           *)
Keepalive ==
    /\ mqttAt = "keepalive"
    /\ \/ /\ ping /\ keepaliveAge >= 2
          /\ AbortConnection
       \/ /\ ~ping /\ keepaliveAge >= 1
          /\ conn # "closed"
          /\ ping' = TRUE
          /\ UNCHANGED <<state, reconnectDue, is_connected_, conn, downlink>>
       \/ /\ ~ping /\ keepaliveAge >= 1
          /\ WriteFails
          /\ AbortConnection
       \/ /\ keepaliveAge < IF ping THEN 2 ELSE 1
          /\ UNCHANGED connVars
    /\ Unlock("poll")
    /\ UNCHANGED <<outbox, keepaliveAge, last_retransmit, mainVars, uplink, brokerVars, historyVars>>

(* MQTT_STATE_WAIT_RECONNECT                                               *)
WaitReconnect == /\ mqttAt = "wait"
                 /\ state' = IF reconnectDue THEN "INIT" ELSE state
                 /\ Unlock("loop")
                 /\ UNCHANGED <<ping, reconnectDue, is_connected_, conn, downlink, outbox,
                                keepaliveAge, last_retransmit, mainVars, uplink, brokerVars, historyVars>>

(* state is read, and the socket polled, without the lock.                 *)
PollStart == /\ mqttAt = "poll"
             /\ mqttAt' = IF state = "CONNECTED" THEN "polling" ELSE "loop"
             /\ UNCHANGED <<lock, connVars, outbox, keepaliveAge, last_retransmit,
                            mainVars, uplink, brokerVars, historyVars>>

PollEnd == /\ mqttAt = "polling"
           /\ \/ mqttAt' = "loop"
              \/ conn # "open" /\ mqttAt' = "abort"
           /\ UNCHANGED <<lock, connVars, outbox, keepaliveAge, last_retransmit,
                          mainVars, uplink, brokerVars, historyVars>>

PollAbort == /\ mqttAt = "abort"
             /\ lock = "none"
             /\ AbortConnection
             /\ mqttAt' = "loop"
             /\ UNCHANGED <<lock, outbox, keepaliveAge, last_retransmit, mainVars, uplink,
                            brokerVars, historyVars>>

-----------------------------------------------------------------------------
(* The transport, the broker and time                                      *)

NetworkDrop == /\ conn = "open"
               /\ conn' = "dead"
               /\ downlink' = <<>>
               /\ UNCHANGED <<taskVars, state, ping, reconnectDue, is_connected_, outbox,
                              keepaliveAge, last_retransmit, mainVars, uplink, brokerVars, historyVars>>

(* The broker takes a PUBLISH and acknowledges it if it can.               *)
BrokerReceive ==
    /\ uplink # <<>>
    /\ Len(downlink) < MaxInFlight
    /\ uplink' = Tail(uplink)
    /\ LET p == Head(uplink)
       IN  /\ downlink' = IF conn = "open" THEN Append(downlink, p.id) ELSE downlink
           /\ IF p.dup THEN flagged' = flagged \cup {p.msg} /\ UNCHANGED plain
                       ELSE /\ plain' = [plain EXCEPT ![p.msg] = IF @ = 2 THEN 2 ELSE @ + 1]
                            /\ UNCHANGED flagged
    /\ UNCHANGED <<taskVars, state, ping, reconnectDue, is_connected_, conn, outbox,
                   keepaliveAge, last_retransmit, mainVars, historyVars>>

Tick == /\ outbox' = Older(outbox)
        /\ keepaliveAge' = IF keepaliveAge = 2 THEN 2 ELSE keepaliveAge + 1
        /\ reconnectDue' = TRUE
        /\ last_retransmit' = IF last_retransmit = "unset" THEN "unset" ELSE "due"
        /\ UNCHANGED <<taskVars, state, ping, is_connected_, conn, downlink, mainVars, uplink,
                       brokerVars, historyVars>>

-----------------------------------------------------------------------------
MainStep == \/ PublishLock \/ PublishEnqueue \/ PublishNoMemory \/ PublishWrite

MqttStep == \/ ConnectOk \/ ConnectFails
            \/ ReceiveNothing \/ ReceivePuback \/ ReceivePingresp \/ ReceiveError
            \/ ResendQueued \/ ResendTransmitted \/ ResendNothing
            \/ Keepalive \/ WaitReconnect
            \/ PollStart \/ PollEnd \/ PollAbort

ClientNext == \/ PublishCall \/ MainStep
              \/ TaskLock \/ MqttStep
              \/ NetworkDrop \/ BrokerReceive \/ Tick

ClientSafety == ClientInit /\ [][ClientNext]_clientVars

(* Both tasks are scheduled and get the lock; time passes; a client that   *)
(* keeps trying to connect succeeds some day.  No message need arrive.     *)
ClientFairness == /\ WF_clientVars(MqttStep) /\ SF_clientVars(TaskLock) /\ SF_clientVars(PollAbort)
                  /\ SF_clientVars(MainStep)
                  /\ WF_clientVars(Tick)
                  /\ SF_clientVars(ConnectOk)

ClientSpec == ClientSafety /\ ClientFairness

-----------------------------------------------------------------------------
(* Properties                                                              *)

Received == {m \in Messages : plain[m] > 0} \cup flagged

(* Every variable holds a value of its type.                               *)
ClientTypeOK ==
    /\ lock \in {"none", "main", "mqtt"}
    /\ state \in {"INIT", "CONNECTED", "WAIT_RECONNECT"}
    /\ DOMAIN outbox \subseteq Messages
    /\ \A m \in DOMAIN outbox : outbox[m] \in Items(MsgIds)
    /\ ping \in BOOLEAN /\ reconnectDue \in BOOLEAN
    /\ last_retransmit \in {"unset", "recent", "due"}
    /\ keepaliveAge \in 0 .. 2
    /\ mqttAt \in {"loop", "connect", "receive", "resend", "keepalive", "wait",
                   "poll", "polling", "abort"}
    /\ is_connected_ \in BOOLEAN
    /\ mainAt \in {"idle", "lock", "enqueue", "write"}
    /\ counter \in 1 .. MaxMessages + 1
    /\ reported \in [Messages -> {"nothing", "true", "false"}]
    /\ conn \in {"closed", "open", "dead"}
    /\ uplink \in Seq([msg : Messages, id : MsgIds, dup : BOOLEAN])
    /\ downlink \in Seq(MsgIds)
    /\ plain \in [Messages -> 0 .. 2]
    /\ flagged \subseteq Messages /\ acked \subseteq Messages /\ expired \subseteq Messages

(* Whenever no task is inside the client, MqttManager's is_connected_, the *)
(* client's state and the transport agree, although two tasks may abort    *)
(* the connection and the events run in either of them.                    *)
ConnectionAgreement == lock = "none" => /\ is_connected_ <=> state = "CONNECTED"
                                        /\ conn # "closed" <=> state = "CONNECTED"

(* A message leaves the outbox on a PUBACK only if the broker has it.      *)
AckedWereReceived == acked \subseteq Received

(* A message for which publish has returned true is still in the outbox,   *)
(* or has reached the broker, or has expired: reconnects, failed writes    *)
(* and lost acknowledgements lose nothing else.                            *)
NoSilentLoss == \A m \in Messages :
                    reported[m] = "true" => m \in DOMAIN outbox \cup Received \cup expired

(* The broker can tell copies apart: at most one copy of a message comes   *)
(* without the DUP flag, through any retransmission and reconnect.         *)
OneUnflaggedCopy == \A m \in Messages : plain[m] <= 1

(* The client always gets back to a connection, also from one whose peer   *)
(* is gone, which the keep-alive notices even when neither reads nor       *)
(* writes fail.                                                            *)
LinkRestored == conn # "open" ~> conn = "open"

(* No message stays in the outbox for ever: it has no size limit in this   *)
(* build, so expiry is what bounds it.                                     *)
OutboxDrains == \A m \in Messages : m \in DOMAIN outbox ~> m \notin DOMAIN outbox
=============================================================================
