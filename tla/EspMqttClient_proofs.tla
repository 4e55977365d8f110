------------------------ MODULE EspMqttClient_proofs ------------------------
(***************************************************************************)
(* Theorems about the node's MQTT client, for any number of messages, any  *)
(* choice of identifiers and any timeouts.                                 *)
(***************************************************************************)
EXTENDS EspMqttClient, Outbox_proofs, SequenceTheorems

(* The points of the MQTT task and of the main task at which the API lock  *)
(* is held.                                                                *)
TaskInside == {"connect", "receive", "resend", "keepalive", "wait"}
MainInside == {"enqueue", "write"}

(* The API lock is held by exactly the task that is inside the client.     *)
LockInv == /\ lock \in {"none", "main", "mqtt"}
           /\ lock = "mqtt" <=> mqttAt \in TaskInside
           /\ lock = "main" <=> mainAt \in MainInside

(* What ConnectionAgreement needs to be inductive: the agreement itself,   *)
(* whoever holds the lock, and that the task waiting to reconnect is not   *)
(* overtaken by a connection.                                              *)
ConnInv == /\ LockInv
           /\ state \in {"INIT", "CONNECTED", "WAIT_RECONNECT"}
           /\ mqttAt = "wait" => state # "CONNECTED"
           /\ is_connected_ \in BOOLEAN
           /\ is_connected_ <=> state = "CONNECTED"
           /\ conn # "closed" <=> state = "CONNECTED"

(* What an action may do to the connection without help from the lock.     *)
LEMMA ConnStep ==
  ASSUME ConnInv, LockInv', UNCHANGED connVars \/ AbortConnection,
         mqttAt' = "wait" => mqttAt = "wait" \/ state # "CONNECTED"
  PROVE  ConnInv'
<1>1. CASE UNCHANGED connVars
  BY <1>1 DEF ConnInv, connVars
<1>2. CASE AbortConnection
  BY <1>2 DEF ConnInv, AbortConnection, OnDisconnected
<1> QED BY <1>1, <1>2

(* Publishing takes and returns the lock, and aborts at most the whole     *)
(* connection.                                                             *)
LEMMA MainKeepsConn ==
  ASSUME ConnInv, PublishCall \/ MainStep
  PROVE  ConnInv'
<1>1. mqttAt' = mqttAt
  BY DEF PublishCall, MainStep, PublishLock, PublishEnqueue, PublishNoMemory, PublishWrite, taskVars
<1>2. UNCHANGED connVars \/ AbortConnection
  BY DEF PublishCall, MainStep, PublishLock, PublishEnqueue, PublishNoMemory, PublishWrite
<1>3. LockInv'
  <2> USE DEF ConnInv, LockInv, TaskInside, MainInside
  <2>1. CASE PublishCall
    BY <1>1, <2>1 DEF PublishCall, Return, taskVars
  <2>2. CASE PublishLock
    BY <1>1, <2>2 DEF PublishLock
  <2>3. CASE PublishEnqueue
    <3>1. /\ mainAt = "enqueue"
          /\ \/ mainAt' = "write" /\ UNCHANGED lock
             \/ mainAt' = "idle" /\ lock' = "none"
      BY <2>3 DEF PublishEnqueue, Return
    <3> QED BY <1>1, <3>1
  <2>4. CASE PublishNoMemory \/ PublishWrite
    <3>1. mainAt \in MainInside /\ mainAt' = "idle" /\ lock' = "none"
      BY <2>4 DEF PublishNoMemory, PublishWrite, Return
    <3> QED BY <1>1, <3>1
  <2> QED BY <2>1, <2>2, <2>3, <2>4 DEF MainStep
<1> QED BY <1>1, <1>2, <1>3, ConnStep

(* Every step of the MQTT task, with or without an abort.                  *)
LEMMA TaskKeepsConn ==
  ASSUME ConnInv, TaskLock \/ MqttStep
  PROVE  ConnInv'
<1>1. CASE TaskLock
  <2>1. /\ mqttAt = "loop" /\ lock' = "mqtt" /\ UNCHANGED connVars /\ UNCHANGED mainVars
        /\ lock = "none"
        /\ mqttAt' = CASE state = "INIT" -> "connect"
                       [] state = "CONNECTED" -> "receive"
                       [] state = "WAIT_RECONNECT" -> "wait"
    BY <1>1 DEF TaskLock
  <2>2. mqttAt' \in TaskInside /\ (mqttAt' = "wait" => state # "CONNECTED")
    BY <2>1 DEF ConnInv, TaskInside
  <2>3. LockInv'
    BY <2>1, <2>2 DEF ConnInv, LockInv, MainInside, TaskInside, mainVars
  <2> QED BY <2>1, <2>2, <2>3, ConnStep
<1>2. CASE ConnectOk
  BY <1>2 DEF ConnectOk, Unlock, OnConnected, ConnInv, LockInv, TaskInside, MainInside, mainVars
<1>3. CASE WaitReconnect
  BY <1>3 DEF WaitReconnect, Unlock, ConnInv, LockInv, TaskInside, MainInside, mainVars
<1>4. CASE ReceivePuback \/ ReceivePingresp
  BY <1>4 DEF ReceivePuback, ReceivePingresp, ReceiveDone, ConnInv, LockInv, TaskInside,
              MainInside, mainVars
<1>5. CASE ReceiveNothing \/ ResendQueued \/ ResendTransmitted \/ ResendNothing
  <2>1. /\ mqttAt \in TaskInside /\ mqttAt' \in {"resend", "keepalive"}
        /\ UNCHANGED lock /\ UNCHANGED mainVars
    BY <1>5 DEF ReceiveNothing, ReceiveDone, ResendQueued, ResendTransmitted, ResendNothing,
                TaskInside
  <2>2. UNCHANGED connVars \/ AbortConnection
    BY <1>5 DEF ReceiveNothing, ResendQueued, ResendTransmitted, ResendNothing, Resent, ResendFails
  <2>3. LockInv'
    BY <2>1 DEF ConnInv, LockInv, TaskInside, MainInside, mainVars
  <2> QED BY <2>1, <2>2, <2>3, ConnStep
<1>6. CASE ConnectFails \/ ReceiveError
  <2>1. /\ mqttAt \in TaskInside /\ mqttAt' = "poll" /\ lock' = "none"
        /\ UNCHANGED mainVars /\ AbortConnection
    BY <1>6 DEF ConnectFails, ReceiveError, Unlock, TaskInside
  <2>2. LockInv'
    BY <2>1 DEF ConnInv, LockInv, TaskInside, MainInside, mainVars
  <2> QED BY <2>1, <2>2, ConnStep
<1>7. CASE Keepalive
  <2>1. /\ mqttAt = "keepalive" /\ mqttAt' = "poll" /\ lock' = "none" /\ UNCHANGED mainVars
    BY <1>7 DEF Keepalive, Unlock
  <2>2. LockInv'
    BY <2>1 DEF ConnInv, LockInv, TaskInside, MainInside, mainVars
  <2>3. \/ UNCHANGED <<state, is_connected_, conn>>
        \/ AbortConnection
    BY <1>7 DEF Keepalive, connVars
  <2>4. CASE UNCHANGED <<state, is_connected_, conn>>
    BY <2>1, <2>2, <2>4 DEF ConnInv
  <2>5. CASE AbortConnection
    BY <2>1, <2>2, <2>5, ConnStep
  <2> QED BY <2>3, <2>4, <2>5
<1>8. CASE PollStart \/ PollEnd
  <2>1. /\ mqttAt \in {"poll", "polling"} /\ mqttAt' \in {"polling", "loop", "abort"}
        /\ UNCHANGED <<lock, connVars, mainVars>>
    BY <1>8 DEF PollStart, PollEnd
  <2>2. LockInv'
    BY <2>1 DEF ConnInv, LockInv, TaskInside, MainInside, mainVars
  <2> QED BY <2>1, <2>2, ConnStep
<1>9. CASE PollAbort
  BY <1>9 DEF PollAbort, AbortConnection, OnDisconnected, ConnInv, LockInv, TaskInside,
              MainInside, mainVars
<1> QED BY <1>1, <1>2, <1>3, <1>4, <1>5, <1>6, <1>7, <1>8, <1>9 DEF MqttStep

(* The network, the broker and time.                                       *)
LEMMA EnvironmentKeepsConn ==
  ASSUME ConnInv, NetworkDrop \/ BrokerReceive \/ Tick
  PROVE  ConnInv'
BY DEF ConnInv, LockInv, TaskInside, MainInside, taskVars, mainVars, NetworkDrop, BrokerReceive, Tick

(* ConnInv holds in every state.                                           *)
LEMMA ClientConnInv == ClientSafety => []ConnInv
<1>1. ClientInit => ConnInv
  BY DEF ClientInit, ConnInv, LockInv, TaskInside, MainInside
<1>2. ConnInv /\ [ClientNext]_clientVars => ConnInv'
  <2>1. CASE UNCHANGED clientVars
    BY <2>1 DEF clientVars, connVars, mainVars, ConnInv, LockInv, TaskInside, MainInside
  <2> QED BY <2>1, MainKeepsConn, TaskKeepsConn, EnvironmentKeepsConn DEF ClientNext
<1> QED BY <1>1, <1>2, PTL DEF ClientSafety

(* Two tasks may abort one connection, each with its own event: they never *)
(* leave is_connected_, the client's state and the transport in            *)
(* disagreement.                                                           *)
THEOREM ClientConnectionAgreement == ClientSafety => []ConnectionAgreement
<1>1. ConnInv => ConnectionAgreement
  BY DEF ConnInv, ConnectionAgreement
<1> QED BY <1>1, ClientConnInv, PTL

-----------------------------------------------------------------------------
(* Delivery, when identifiers do not collide                               *)

(* platform_random draws no identifier for two messages.  Without this     *)
(* none of the properties below holds: the run client_collision shows why. *)
IdsDistinct == \A m, n \in Messages : IdChoices[m] \cap IdChoices[n] # {} => m = n

(* Messages that were given an identifier, or never will be.               *)
Begun == {m \in Messages : m < counter \/ (m = counter /\ mainAt = "write")}

Packets == [msg : Messages, id : MsgIds, dup : BOOLEAN]

(* The progress of app_main, and types.                                    *)
ProgressInv == /\ counter \in 1 .. MaxMessages + 1
               /\ mainAt \in {"idle", "lock", "enqueue", "write"}
               /\ mainAt # "idle" => counter \in Messages
               /\ reported \in [Messages -> {"nothing", "true", "false"}]
               /\ plain \in [Messages -> 0 .. 2]
               /\ flagged \subseteq Messages

(* The items of the outbox are those of messages begun, each with an       *)
(* identifier of its own; the one being published is there, unsent.        *)
OutboxInv ==
    /\ DOMAIN outbox \subseteq Begun
    /\ outbox = [m \in DOMAIN outbox |-> outbox[m]]
    /\ \A m \in DOMAIN outbox : outbox[m] \in Items(IdChoices[m])
    /\ mainAt = "write" => counter \in DOMAIN outbox /\ outbox[counter].pending = "QUEUED"

(* What is under way belongs to messages begun, and an acknowledgement     *)
(* under way to one the broker has received.                               *)
WireInv == /\ uplink \in Seq(Packets)
           /\ \A i \in 1 .. Len(uplink) : /\ uplink[i].msg \in Begun
                                           /\ uplink[i].id \in IdChoices[uplink[i].msg]
           /\ downlink \in Seq(MsgIds)
           /\ \A i \in 1 .. Len(downlink) : \E m \in Received : downlink[i] \in IdChoices[m]

(* A copy without DUP is the first one: there is none of a message that is *)
(* still QUEUED, and one at most of any, on its way or with the broker.    *)
CopyInv ==
    /\ OneUnflaggedCopy
    /\ \A m \in Messages \ Begun : plain[m] = 0
    /\ \A i \in 1 .. Len(uplink) : ~uplink[i].dup => plain[uplink[i].msg] = 0
    /\ \A i, j \in 1 .. Len(uplink) :
           ~uplink[i].dup /\ ~uplink[j].dup /\ uplink[i].msg = uplink[j].msg => i = j
    /\ \A m \in DOMAIN outbox : outbox[m].pending = "QUEUED" =>
           plain[m] = 0 /\ \A i \in 1 .. Len(uplink) : uplink[i].msg = m => uplink[i].dup

DeliveryInv == /\ ProgressInv /\ OutboxInv /\ WireInv /\ CopyInv
               /\ AckedWereReceived /\ NoSilentLoss

(* Messages are numbers, and so are the messages begun.                    *)
LEMMA OutboxFacts ==
  ASSUME IdsDistinct, OutboxInv
  PROVE  /\ Begun \subseteq Messages /\ Messages \subseteq Nat
         /\ DOMAIN outbox \subseteq Messages /\ DOMAIN outbox \subseteq Nat
         /\ \A m, n \in DOMAIN outbox : outbox[n].id = outbox[m].id => n = m
         /\ \A m \in DOMAIN outbox : outbox[m].id \in IdChoices[m] /\ outbox[m].id \in MsgIds
<1>1. Begun \subseteq Messages /\ Messages \subseteq Nat
  BY ClientAssumption DEF Begun, Messages
<1>2. DOMAIN outbox \subseteq Messages
  BY <1>1 DEF OutboxInv
<1>3. \A m \in DOMAIN outbox : outbox[m].id \in IdChoices[m]
  BY DEF OutboxInv, Items
<1>4. \A m \in DOMAIN outbox : outbox[m].id \in MsgIds
  BY <1>2, <1>3 DEF MsgIds
<1>5. \A m, n \in DOMAIN outbox : outbox[n].id = outbox[m].id => n = m
  BY <1>2, <1>3 DEF IdsDistinct
<1> QED BY <1>1, <1>2, <1>3, <1>4, <1>5

(* A step that sends, receives and stores nothing; it may lose the         *)
(* acknowledgements under way.                                             *)
LEMMA QuietStep ==
  ASSUME DeliveryInv, UNCHANGED <<outbox, mainVars, uplink, brokerVars, historyVars>>,
         downlink' = downlink \/ downlink' = <<>>
  PROVE  DeliveryInv'
<1> USE DEF mainVars, brokerVars, historyVars
<1>1. ProgressInv' /\ OutboxInv' /\ CopyInv'
  BY DEF DeliveryInv, ProgressInv, OutboxInv, CopyInv, OneUnflaggedCopy, Begun
<1>2. AckedWereReceived' /\ NoSilentLoss'
  BY DEF DeliveryInv, AckedWereReceived, NoSilentLoss, Received
<1>3. WireInv'
  <2>1. Received' = Received /\ Begun' = Begun
    BY DEF Received, Begun
  <2>2. CASE downlink' = downlink
    BY <2>1, <2>2 DEF DeliveryInv, WireInv
  <2>3. CASE downlink' = <<>>
    BY <2>1, <2>3 DEF DeliveryInv, WireInv
  <2> QED BY <2>2, <2>3
<1> QED BY <1>1, <1>2, <1>3 DEF DeliveryInv

(* A message of the outbox is written: without DUP if it was QUEUED, and   *)
(* it is TRANSMITTED from then on.                                         *)
LEMMA SendStep ==
  ASSUME IdsDistinct, DeliveryInv, NEW m \in DOMAIN outbox, NEW dup \in BOOLEAN,
         Written(m, dup), dup = (outbox[m].pending = "TRANSMITTED"),
         DOMAIN outbox' = DOMAIN outbox,
         \A n \in DOMAIN outbox : n # m => outbox'[n].pending = outbox[n].pending,
         outbox'[m].pending = "TRANSMITTED",
         Begun' = Begun, UNCHANGED <<downlink, plain, flagged>>
  PROVE  WireInv' /\ CopyInv'
<1> DEFINE p == [msg |-> m, id |-> outbox[m].id, dup |-> dup]
<1>1. /\ m \in Begun /\ m \in Messages
      /\ outbox[m].id \in IdChoices[m] /\ outbox[m].id \in MsgIds
  BY OutboxFacts DEF DeliveryInv, OutboxInv
<1>2. p \in Packets /\ p.msg = m /\ p.id = outbox[m].id /\ p.dup = dup
  BY <1>1 DEF Packets
<1>3. Received' = Received
  BY DEF Received
<1>4. uplink \in Seq(Packets) /\ Len(uplink) \in Nat
  BY DEF DeliveryInv, WireInv
<1>5. CASE uplink' = uplink
  BY <1>3, <1>5 DEF DeliveryInv, WireInv, CopyInv, OneUnflaggedCopy
<1>6. CASE uplink' = Append(uplink, p)
  <2> HIDE DEF p
  <2>1. /\ uplink' \in Seq(Packets) /\ Len(uplink') = Len(uplink) + 1
        /\ \A i \in 1 .. Len(uplink) : uplink'[i] = uplink[i]
        /\ uplink'[Len(uplink) + 1] = p
    BY <1>2, <1>4, <1>6, AppendProperties
  <2>2. \A i \in 1 .. Len(uplink') : i \in 1 .. Len(uplink) \/ i = Len(uplink) + 1
    BY <1>4, <2>1
  <2>3. WireInv'
    BY <1>1, <1>2, <1>3, <2>1, <2>2 DEF DeliveryInv, WireInv
  <2>4. ~dup => /\ plain[m] = 0
                /\ \A i \in 1 .. Len(uplink) : uplink[i].msg = m => uplink[i].dup
    <3>1. ~dup => outbox[m].pending = "QUEUED"
      BY DEF DeliveryInv, OutboxInv, Items
    <3> QED BY <3>1 DEF DeliveryInv, CopyInv
  <2>5. CopyInv'
    <3>1. OneUnflaggedCopy' /\ (\A n \in Messages \ Begun : plain[n] = 0)'
      BY DEF DeliveryInv, CopyInv, OneUnflaggedCopy
    <3>2. \A i \in 1 .. Len(uplink') : ~uplink'[i].dup => plain'[uplink'[i].msg] = 0
      BY <1>2, <2>1, <2>2, <2>4 DEF DeliveryInv, CopyInv
    <3>3. \A i, j \in 1 .. Len(uplink') :
             ~uplink'[i].dup /\ ~uplink'[j].dup /\ uplink'[i].msg = uplink'[j].msg => i = j
      BY <1>2, <2>1, <2>2, <2>4 DEF DeliveryInv, CopyInv
    <3>4. \A n \in DOMAIN outbox' : outbox'[n].pending = "QUEUED" =>
             plain'[n] = 0 /\ \A i \in 1 .. Len(uplink') : uplink'[i].msg = n => uplink'[i].dup
      BY <1>2, <2>1, <2>2 DEF DeliveryInv, CopyInv
    <3> QED BY <3>1, <3>2, <3>3, <3>4 DEF CopyInv
  <2> QED BY <2>3, <2>5
<1> QED BY <1>5, <1>6 DEF Written

(* publish: nothing leaves the outbox, and nothing is reported as accepted *)
(* that is not in it.                                                      *)
LEMMA PublishKeepsDelivery ==
  ASSUME IdsDistinct, ConnInv, DeliveryInv, PublishCall \/ MainStep
  PROVE  DeliveryInv'
<1> USE DEF taskVars, brokerVars, historyVars, mainVars
<1>0. MaxMessages \in Nat /\ counter \in Nat
  BY ClientAssumption DEF DeliveryInv, ProgressInv
<1>1. UNCHANGED <<plain, flagged, acked, expired>> /\ Received' = Received
  BY DEF PublishCall, MainStep, PublishLock, PublishEnqueue, PublishNoMemory, PublishWrite,
         Received
<1>2. /\ downlink' \in Seq(MsgIds)
      /\ \A i \in 1 .. Len(downlink') : \E m \in Received' : downlink'[i] \in IdChoices[m]
  <2>1. UNCHANGED downlink \/ downlink' = <<>>
    BY DEF PublishCall, MainStep, PublishLock, PublishEnqueue, PublishNoMemory, PublishWrite,
           connVars, AbortConnection
  <2>2. CASE UNCHANGED downlink
    BY <1>1, <2>2 DEF DeliveryInv, WireInv
  <2>3. CASE downlink' = <<>>
    BY <2>3
  <2> QED BY <2>1, <2>2, <2>3
<1>3. ASSUME UNCHANGED <<outbox, uplink>>, mainAt # "write", mainAt' # "write",
             ProgressInv',
             counter' = counter \/ (counter' = counter + 1 /\ counter \in Messages),
             \A m \in Messages : reported'[m] = "true" => reported[m] = "true"
      PROVE  DeliveryInv'
  <2>1. Begun \subseteq Begun' /\ \A m \in Messages \ Begun' : m \in Messages \ Begun
    BY <1>0, <1>3 DEF Begun, Messages
  <2>2. OutboxInv'
    BY <1>3, <2>1 DEF DeliveryInv, OutboxInv
  <2>3. WireInv'
    BY <1>1, <1>2, <1>3, <2>1 DEF DeliveryInv, WireInv
  <2>4. CopyInv'
    BY <1>1, <1>3, <2>1 DEF DeliveryInv, CopyInv, OneUnflaggedCopy
  <2>5. AckedWereReceived' /\ NoSilentLoss'
    BY <1>1, <1>3 DEF DeliveryInv, AckedWereReceived, NoSilentLoss
  <2> QED BY <1>3, <2>2, <2>3, <2>4, <2>5 DEF DeliveryInv
<1>4. CASE PublishCall \/ PublishLock \/ PublishNoMemory
  <2>1. ProgressInv'
    BY <1>0, <1>1, <1>4 DEF PublishCall, PublishLock, PublishNoMemory, Return, DeliveryInv, ProgressInv,
       Messages
  <2>2. UNCHANGED <<outbox, uplink>> /\ mainAt # "write" /\ mainAt' # "write"
    BY <1>4 DEF PublishCall, PublishLock, PublishNoMemory, Return
  <2>3. counter' = counter \/ (counter' = counter + 1 /\ counter \in Messages)
    BY <1>0, <1>4 DEF PublishCall, PublishLock, PublishNoMemory, Return, DeliveryInv, ProgressInv, Messages
  <2>4. \A m \in Messages : reported'[m] = "true" => reported[m] = "true"
    BY <1>4 DEF PublishCall, PublishLock, PublishNoMemory, Return, DeliveryInv, ProgressInv
  <2> QED BY <1>3, <2>1, <2>2, <2>3, <2>4
<1>5. CASE PublishEnqueue
  <2>1. PICK id \in IdChoices[counter] : outbox' = outbox_enqueue(outbox, counter, id)
    BY <1>5 DEF PublishEnqueue
  <2>2. /\ mainAt = "enqueue" /\ counter \in Messages /\ UNCHANGED uplink
        /\ \/ mainAt' = "write" /\ UNCHANGED <<counter, reported>>
           \/ /\ mainAt' = "idle" /\ counter' = counter + 1
              /\ reported' = [reported EXCEPT ![counter] = "true"]
    BY <1>5 DEF PublishEnqueue, Return, DeliveryInv, ProgressInv
  <2>3. Begun' = Begun \cup {counter} /\ counter \notin Begun
    BY <1>0, <2>2 DEF Begun, Messages
  <2>4. /\ DOMAIN outbox' = DOMAIN outbox \cup {counter}
        /\ counter \notin DOMAIN outbox
        /\ outbox'[counter] = [id |-> id, pending |-> "QUEUED", age |-> 0]
        /\ \A m \in DOMAIN outbox : outbox'[m] = outbox[m]
        /\ outbox' = [m \in DOMAIN outbox' |-> outbox'[m]]
    BY <2>1, <2>3 DEF outbox_enqueue, DeliveryInv, OutboxInv
  <2>5. ProgressInv'
    BY <1>0, <1>1, <2>2 DEF DeliveryInv, ProgressInv, Messages
  <2>6. OutboxInv'
    <3>1. outbox'[counter] \in Items(IdChoices[counter])
      BY <2>4, OutboxAssumption DEF Items
    <3>2. \A m \in DOMAIN outbox' : outbox'[m] \in Items(IdChoices[m])
      BY <2>4, <3>1 DEF DeliveryInv, OutboxInv
    <3>3. DOMAIN outbox' \subseteq Begun'
      BY <2>3, <2>4 DEF DeliveryInv, OutboxInv
    <3>4. mainAt' = "write" => counter' \in DOMAIN outbox' /\ outbox'[counter'].pending = "QUEUED"
      BY <2>2, <2>4
    <3> QED BY <2>4, <3>2, <3>3, <3>4 DEF OutboxInv
  <2>7. WireInv'
    BY <1>1, <1>2, <2>2, <2>3 DEF DeliveryInv, WireInv
  <2>8. CopyInv'
    <3>1. plain[counter] = 0 /\ \A i \in 1 .. Len(uplink) : uplink[i].msg # counter
      BY <2>2, <2>3 DEF DeliveryInv, CopyInv, WireInv
    <3>2. \A m \in DOMAIN outbox' : outbox'[m].pending = "QUEUED" =>
             plain[m] = 0 /\ \A i \in 1 .. Len(uplink) : uplink[i].msg = m => uplink[i].dup
      BY <2>4, <3>1 DEF DeliveryInv, CopyInv
    <3> QED BY <1>1, <2>2, <2>3, <3>2 DEF DeliveryInv, CopyInv, OneUnflaggedCopy
  <2>9. AckedWereReceived' /\ NoSilentLoss'
    BY <1>1, <2>2, <2>4 DEF DeliveryInv, ProgressInv, AckedWereReceived, NoSilentLoss
  <2> QED BY <2>5, <2>6, <2>7, <2>8, <2>9 DEF DeliveryInv
<1>6. CASE PublishWrite
  <2>1. /\ mainAt = "write" /\ counter \in Messages
        /\ counter \in DOMAIN outbox /\ outbox[counter].pending = "QUEUED"
        /\ mainAt' = "idle" /\ counter' = counter + 1
    BY <1>6 DEF PublishWrite, Return, DeliveryInv, ProgressInv, OutboxInv
  <2>2. Begun' = Begun
    BY <1>0, <2>1 DEF Begun, Messages
  <2>3. PICK r \in {"true", "false"} : reported' = [reported EXCEPT ![counter] = r]
    BY <1>6 DEF PublishWrite, Return
  <2>4. ProgressInv'
    BY <1>0, <1>1, <2>1, <2>3 DEF DeliveryInv, ProgressInv, Messages
  <2>5. ASSUME UNCHANGED <<outbox, uplink>> PROVE DeliveryInv'
    <3>0. WireInv'
      BY <1>2, <2>2, <2>5 DEF DeliveryInv, WireInv
    <3>1. OutboxInv' /\ CopyInv'
      BY <1>1, <2>1, <2>2, <2>5 DEF DeliveryInv, OutboxInv, CopyInv, OneUnflaggedCopy
    <3>2. AckedWereReceived' /\ NoSilentLoss'
      BY <1>1, <2>1, <2>3, <2>5 DEF DeliveryInv, ProgressInv, AckedWereReceived, NoSilentLoss
    <3> QED BY <2>4, <3>0, <3>1, <3>2 DEF DeliveryInv
  <2>6. ASSUME Written(counter, FALSE), UNCHANGED connVars,
               outbox' = outbox_set_pending(outbox_set_tick(outbox, outbox[counter].id),
                                            outbox[counter].id, "TRANSMITTED")
        PROVE  DeliveryInv'
    <3> DEFINE o == outbox_set_tick(outbox, outbox[counter].id)
    <3>1. o = [n \in DOMAIN outbox |->
                  IF n = counter THEN [outbox[counter] EXCEPT !.age = 0] ELSE outbox[n]]
      BY <2>1, OutboxFacts, SetTickChangesOne DEF DeliveryInv
    <3>2. /\ DOMAIN o = DOMAIN outbox /\ \A n \in DOMAIN o : o[n].id = outbox[n].id
          /\ \A n \in DOMAIN o : o[n] \in Items(IdChoices[n])
      <4>1. \A n \in DOMAIN outbox : outbox[n] \in Items(IdChoices[n])
        BY DEF DeliveryInv, OutboxInv
      <4> QED BY <3>1, <4>1, OutboxAssumption DEF Items
    <3> HIDE DEF o
    <3>3. outbox' = outbox_set_pending(o, o[counter].id, "TRANSMITTED")
      BY <2>1, <2>6, <3>2 DEF o
    <3>4. outbox' = [n \in DOMAIN o |->
                        IF n = counter THEN [o[counter] EXCEPT !.pending = "TRANSMITTED"] ELSE o[n]]
      BY <2>1, <3>2, <3>3, OutboxFacts, SetPendingChangesOne DEF DeliveryInv
    <3>5. /\ DOMAIN outbox' = DOMAIN outbox
          /\ outbox'[counter].pending = "TRANSMITTED"
          /\ \A n \in DOMAIN outbox : outbox'[n] \in Items(IdChoices[n])
          /\ outbox' = [n \in DOMAIN outbox' |-> outbox'[n]]
      BY <2>1, <3>2, <3>4 DEF Items
    <3>6. \A n \in DOMAIN outbox : n # counter => outbox'[n].pending = outbox[n].pending
      BY <3>1, <3>2, <3>4
    <3>7. OutboxInv'
      BY <2>1, <2>2, <3>5 DEF DeliveryInv, OutboxInv
    <3>8. WireInv' /\ CopyInv'
      BY <1>1, <2>1, <2>2, <2>6, <3>5, <3>6, SendStep DEF connVars
    <3>9. AckedWereReceived' /\ NoSilentLoss'
      BY <1>1, <2>1, <2>3, <3>5 DEF DeliveryInv, ProgressInv, AckedWereReceived, NoSilentLoss
    <3> QED BY <2>4, <3>7, <3>8, <3>9 DEF DeliveryInv
  <2> QED BY <1>6, <2>5, <2>6 DEF PublishWrite
<1> QED BY <1>4, <1>5, <1>6 DEF MainStep

(* Messages leave the outbox: what is left keeps its items.                *)
LEMMA RemoveStep ==
  ASSUME IdsDistinct, DeliveryInv, NEW X, outbox' = Keep(outbox, DOMAIN outbox \ X),
         mainAt # "write", UNCHANGED <<mainVars, uplink, brokerVars>>,
         WireInv', AckedWereReceived', X \subseteq Received \cup expired', expired \subseteq expired'
  PROVE  DeliveryInv'
<1> USE DEF mainVars, brokerVars
<1>1. Begun' = Begun /\ Received' = Received
  BY DEF Begun, Received
<1>2. /\ DOMAIN outbox' = DOMAIN outbox \ X
      /\ \A m \in DOMAIN outbox' : outbox'[m] = outbox[m]
      /\ outbox' = [m \in DOMAIN outbox' |-> outbox'[m]]
  BY DEF Keep
<1>3. ProgressInv' /\ OutboxInv'
  BY <1>1, <1>2 DEF DeliveryInv, ProgressInv, OutboxInv
<1>4. CopyInv'
  <2>1. \A m \in DOMAIN outbox' : outbox'[m].pending = "QUEUED" =>
           plain[m] = 0 /\ \A i \in 1 .. Len(uplink) : uplink[i].msg = m => uplink[i].dup
    <3> SUFFICES ASSUME NEW m \in DOMAIN outbox', outbox'[m].pending = "QUEUED"
                 PROVE  /\ plain[m] = 0
                        /\ \A i \in 1 .. Len(uplink) : uplink[i].msg = m => uplink[i].dup
      OBVIOUS
    <3>1. m \in DOMAIN outbox /\ outbox[m].pending = "QUEUED"
      BY <1>2
    <3> QED BY <3>1 DEF DeliveryInv, CopyInv
  <2> QED BY <1>1, <2>1 DEF DeliveryInv, CopyInv, OneUnflaggedCopy
<1>5. NoSilentLoss'
  BY <1>1, <1>2 DEF DeliveryInv, NoSilentLoss
<1> QED BY <1>3, <1>4, <1>5 DEF DeliveryInv

(* The MQTT task: what it removes has expired or was received, and what it *)
(* sends again has the DUP flag.                                           *)
LEMMA TaskKeepsDelivery ==
  ASSUME IdsDistinct, ConnInv, DeliveryInv, TaskLock \/ MqttStep
  PROVE  DeliveryInv'
<1>0. mqttAt \in TaskInside \/ lock = "none" => mainAt # "write"
  BY DEF ConnInv, LockInv, MainInside
<1>1. CASE TaskLock
  <2>1. /\ outbox' = Keep(outbox, DOMAIN outbox \ Expired(outbox)) /\ mainAt # "write"
        /\ expired' = expired \cup Expired(outbox)
        /\ UNCHANGED <<connVars, mainVars, uplink, brokerVars, acked>>
    BY <1>0, <1>1 DEF TaskLock, outbox_delete_expired
  <2>2. Received' = Received /\ Begun' = Begun
    BY <2>1 DEF Received, Begun, brokerVars, mainVars
  <2>3. WireInv' /\ AckedWereReceived'
    BY <2>1, <2>2 DEF DeliveryInv, WireInv, AckedWereReceived, connVars
  <2> QED BY <2>1, <2>3, RemoveStep
<1>2. CASE ConnectOk
  <2>1. /\ uplink' = <<>> /\ downlink' = <<>>
        /\ UNCHANGED <<outbox, mainVars, brokerVars, historyVars>>
    BY <1>2 DEF ConnectOk
  <2>2. ProgressInv' /\ OutboxInv' /\ AckedWereReceived' /\ NoSilentLoss'
    BY <2>1 DEF DeliveryInv, ProgressInv, OutboxInv, Begun, AckedWereReceived, NoSilentLoss, Received,
       mainVars, brokerVars, historyVars
  <2>3. WireInv'
    BY <2>1 DEF WireInv
  <2>4. CopyInv'
    BY <2>1 DEF DeliveryInv, CopyInv, OneUnflaggedCopy, Begun, mainVars, brokerVars
  <2> QED BY <2>2, <2>3, <2>4 DEF DeliveryInv
<1>3. CASE ReceivePuback
  <2>1. /\ downlink # <<>> /\ downlink' = Tail(downlink)
        /\ outbox' = Keep(outbox, DOMAIN outbox \ outbox_get(outbox, Head(downlink)))
        /\ acked' = acked \cup outbox_get(outbox, Head(downlink))
        /\ mainAt # "write" /\ UNCHANGED <<mainVars, uplink, brokerVars, expired>>
    BY <1>0, <1>3 DEF ReceivePuback, outbox_delete, TaskInside
  <2>2. Received' = Received /\ Begun' = Begun
    BY <2>1 DEF Received, Begun, brokerVars, mainVars
  <2>3. /\ Head(downlink) = downlink[1] /\ 1 \in 1 .. Len(downlink)
        /\ Tail(downlink) \in Seq(MsgIds) /\ Len(Tail(downlink)) = Len(downlink) - 1
        /\ \A i \in 1 .. Len(Tail(downlink)) : Tail(downlink)[i] = downlink[i + 1]
                                               /\ i + 1 \in 1 .. Len(downlink)
    BY <2>1 DEF DeliveryInv, WireInv
  <2>4. outbox_get(outbox, Head(downlink)) \subseteq Received
    <3> SUFFICES ASSUME NEW m \in outbox_get(outbox, Head(downlink)) PROVE m \in Received
      OBVIOUS
    <3>1. m \in DOMAIN outbox /\ outbox[m].id = Head(downlink)
      BY GetFindsOne, OutboxFacts DEF DeliveryInv
    <3>2. m \in Messages /\ Head(downlink) \in IdChoices[m]
      BY <3>1, OutboxFacts DEF DeliveryInv
    <3>3. PICK n \in Received : Head(downlink) \in IdChoices[n]
      BY <2>3 DEF DeliveryInv, WireInv
    <3>4. n \in Messages
      BY DEF Received, DeliveryInv, ProgressInv
    <3> QED BY <3>2, <3>3, <3>4 DEF IdsDistinct
  <2>5. WireInv'
    BY <2>1, <2>2, <2>3 DEF DeliveryInv, WireInv
  <2>6. AckedWereReceived'
    BY <2>1, <2>2, <2>4 DEF DeliveryInv, AckedWereReceived
  <2> QED BY <2>1, <2>4, <2>5, <2>6, RemoveStep
<1>4. CASE ResendQueued
  <2>1. PICK m \in outbox_dequeue(outbox, "QUEUED") :
          \/ Resent(m) /\ outbox' = outbox_set_pending(outbox, outbox[m].id, "TRANSMITTED")
          \/ ResendFails /\ UNCHANGED outbox
    BY <1>4 DEF ResendQueued
  <2>2. m \in DOMAIN outbox /\ outbox[m].pending = "QUEUED" /\ mainAt # "write"
    BY <1>0, <1>4, DequeueFindsFirst, OutboxFacts DEF DeliveryInv, ResendQueued, TaskInside
  <2>3. UNCHANGED <<mainVars, brokerVars, historyVars>>
    BY <1>4 DEF ResendQueued
  <2>4. CASE ResendFails /\ UNCHANGED outbox
    BY <2>3, <2>4, QuietStep DEF ResendFails, AbortConnection
  <2>5. CASE Resent(m) /\ outbox' = outbox_set_pending(outbox, outbox[m].id, "TRANSMITTED")
    <3>1. outbox' = [n \in DOMAIN outbox |->
                        IF n = m THEN [outbox[m] EXCEPT !.pending = "TRANSMITTED"] ELSE outbox[n]]
      BY <2>2, <2>5, OutboxFacts, SetPendingChangesOne DEF DeliveryInv
    <3>2. /\ DOMAIN outbox' = DOMAIN outbox
          /\ outbox'[m].pending = "TRANSMITTED"
          /\ \A n \in DOMAIN outbox : outbox'[n] \in Items(IdChoices[n])
          /\ outbox' = [n \in DOMAIN outbox' |-> outbox'[n]]
          /\ \A n \in DOMAIN outbox : n # m => outbox'[n].pending = outbox[n].pending
      <4>1. \A n \in DOMAIN outbox : outbox[n] \in Items(IdChoices[n])
        BY DEF DeliveryInv, OutboxInv
      <4> QED BY <2>2, <3>1, <4>1 DEF Items
    <3>3. Begun' = Begun /\ Received' = Received
      BY <2>3 DEF Begun, Received, mainVars, brokerVars
    <3>4. ProgressInv' /\ OutboxInv'
      BY <2>2, <2>3, <3>2, <3>3 DEF DeliveryInv, ProgressInv, OutboxInv, mainVars, brokerVars
    <3>5. WireInv' /\ CopyInv'
      BY <2>2, <2>3, <2>5, <3>2, <3>3, SendStep DEF Resent, connVars, brokerVars
    <3>6. AckedWereReceived' /\ NoSilentLoss'
      BY <2>3, <3>2, <3>3 DEF DeliveryInv, AckedWereReceived, NoSilentLoss, mainVars, historyVars
    <3> QED BY <3>4, <3>5, <3>6 DEF DeliveryInv
  <2> QED BY <2>1, <2>4, <2>5
<1>5. CASE ResendTransmitted
  <2>1. UNCHANGED <<outbox, mainVars, brokerVars, historyVars>>
    BY <1>5 DEF ResendTransmitted
  <2>2. \/ UNCHANGED <<uplink, connVars>>
        \/ \E m \in RetransmitCandidates : Resent(m) \/ ResendFails
    BY <1>5 DEF ResendTransmitted
  <2>3. CASE UNCHANGED <<uplink, connVars>> \/ ResendFails
    BY <2>1, <2>3, QuietStep DEF ResendFails, AbortConnection, connVars
  <2>4. ASSUME NEW m \in RetransmitCandidates, Resent(m) PROVE DeliveryInv'
    <3>1. m \in DOMAIN outbox /\ outbox[m].pending = "TRANSMITTED"
      BY DequeueFindsFirst, OutboxFacts DEF DeliveryInv, RetransmitCandidates
    <3>2. Begun' = Begun /\ Received' = Received
      BY <2>1 DEF Begun, Received, mainVars, brokerVars
    <3>3. ProgressInv' /\ OutboxInv' /\ AckedWereReceived' /\ NoSilentLoss'
      BY <2>1, <3>2 DEF DeliveryInv, ProgressInv, OutboxInv, AckedWereReceived, NoSilentLoss,
         mainVars, brokerVars, historyVars
    <3>4. WireInv' /\ CopyInv'
      BY <2>1, <2>4, <3>1, <3>2, SendStep DEF Resent, connVars, brokerVars
    <3> QED BY <3>3, <3>4 DEF DeliveryInv
  <2> QED BY <2>2, <2>3, <2>4
<1>6. CASE \/ ConnectFails \/ ReceiveNothing \/ ReceivePingresp \/ ReceiveError \/ ResendNothing
           \/ Keepalive \/ WaitReconnect \/ PollStart \/ PollEnd \/ PollAbort
  <2>1. /\ UNCHANGED <<outbox, mainVars, uplink, brokerVars, historyVars>>
        /\ downlink' = downlink \/ downlink' = <<>>
    BY <1>6 DEF ConnectFails, ReceiveNothing, ReceivePingresp, ReceiveError, ResendNothing, Keepalive,
       WaitReconnect, PollStart, PollEnd, PollAbort, AbortConnection, connVars
  <2> QED BY <2>1, QuietStep
<1> QED BY <1>1, <1>2, <1>3, <1>4, <1>5, <1>6 DEF MqttStep

(* The broker receives the oldest packet under way.                        *)
LEMMA BrokerKeepsDelivery ==
  ASSUME IdsDistinct, DeliveryInv, BrokerReceive
  PROVE  DeliveryInv'
<1> DEFINE p == Head(uplink)
<1>1. /\ uplink # <<>> /\ uplink' = Tail(uplink)
      /\ downlink' = IF conn = "open" THEN Append(downlink, p.id) ELSE downlink
      /\ IF p.dup THEN flagged' = flagged \cup {p.msg} /\ UNCHANGED plain
                  ELSE /\ plain' = [plain EXCEPT ![p.msg] = IF @ = 2 THEN 2 ELSE @ + 1]
                       /\ UNCHANGED flagged
      /\ UNCHANGED <<outbox, mainVars, historyVars>>
  BY DEF BrokerReceive
<1>2. /\ p = uplink[1] /\ 1 \in 1 .. Len(uplink) /\ p \in Packets
      /\ uplink' \in Seq(Packets) /\ Len(uplink') = Len(uplink) - 1
      /\ \A i \in 1 .. Len(uplink') : uplink'[i] = uplink[i + 1] /\ i + 1 \in 1 .. Len(uplink)
                                      /\ i + 1 # 1
  BY <1>1 DEF DeliveryInv, WireInv
<1>3. /\ p.msg \in Begun /\ p.msg \in Messages /\ p.dup \in BOOLEAN
      /\ p.id \in IdChoices[p.msg] /\ p.id \in MsgIds
  BY <1>2 DEF DeliveryInv, WireInv, Packets
<1>4. Begun' = Begun
  BY <1>1 DEF Begun, mainVars
<1>5. ~p.dup => plain[p.msg] = 0
  BY <1>2 DEF DeliveryInv, CopyInv
<1> HIDE DEF p
<1>6. /\ plain' \in [Messages -> 0 .. 2] /\ flagged' \subseteq Messages
      /\ \A m \in Messages : \/ plain'[m] = plain[m]
                             \/ m = p.msg /\ ~p.dup /\ plain[m] = 0 /\ plain'[m] = 1
  BY <1>1, <1>3, <1>5 DEF DeliveryInv, ProgressInv
<1>7. Received' \subseteq Messages /\ Received \subseteq Received' /\ p.msg \in Received'
  <2>1. Received' = {m \in Messages : plain'[m] > 0} \cup flagged'
    BY DEF Received
  <2>2. Received \subseteq Received'
    BY <1>1, <1>6, <2>1 DEF Received, DeliveryInv, ProgressInv
  <2>3. p.msg \in Received'
    BY <1>1, <1>3, <1>5, <2>1 DEF DeliveryInv, ProgressInv
  <2> QED BY <1>6, <2>1, <2>2, <2>3
<1>8. ProgressInv' /\ OutboxInv'
  BY <1>1, <1>4, <1>6 DEF DeliveryInv, ProgressInv, OutboxInv, mainVars
<1>9. WireInv'
  <2>1. \A i \in 1 .. Len(uplink') : /\ uplink'[i].msg \in Begun'
                                     /\ uplink'[i].id \in IdChoices[uplink'[i].msg]
    BY <1>2, <1>4 DEF DeliveryInv, WireInv
  <2>2. /\ downlink \in Seq(MsgIds) /\ Len(downlink) \in Nat
        /\ \A i \in 1 .. Len(downlink) : \E m \in Received' : downlink[i] \in IdChoices[m]
    BY <1>7 DEF DeliveryInv, WireInv
  <2>3. CASE downlink' = downlink
    BY <1>2, <2>1, <2>2, <2>3 DEF WireInv
  <2>4. CASE downlink' = Append(downlink, p.id)
    <3>1. /\ downlink' \in Seq(MsgIds) /\ Len(downlink') = Len(downlink) + 1
          /\ \A i \in 1 .. Len(downlink) : downlink'[i] = downlink[i]
          /\ downlink'[Len(downlink) + 1] = p.id
      BY <1>3, <2>2, <2>4, AppendProperties
    <3>2. \A i \in 1 .. Len(downlink') : i \in 1 .. Len(downlink) \/ i = Len(downlink) + 1
      BY <2>2, <3>1
    <3>3. \A i \in 1 .. Len(downlink') : \E m \in Received' : downlink'[i] \in IdChoices[m]
      BY <1>3, <1>7, <2>2, <3>1, <3>2
    <3> QED BY <1>2, <2>1, <3>1, <3>3 DEF WireInv
  <2> QED BY <1>1, <2>3, <2>4
<1>10. CopyInv'
  <2>1. OneUnflaggedCopy' /\ (\A m \in Messages \ Begun : plain[m] = 0)'
    BY <1>3, <1>4, <1>6 DEF DeliveryInv, CopyInv, OneUnflaggedCopy
  <2>2. \A i \in 1 .. Len(uplink') : ~uplink'[i].dup => plain'[uplink'[i].msg] = 0
    <3> SUFFICES ASSUME NEW i \in 1 .. Len(uplink'), ~uplink'[i].dup
                 PROVE  plain'[uplink'[i].msg] = 0
      OBVIOUS
    <3>1. /\ uplink'[i] = uplink[i + 1] /\ i + 1 \in 1 .. Len(uplink) /\ i + 1 # 1
          /\ plain[uplink'[i].msg] = 0 /\ uplink'[i].msg \in Messages
      BY <1>2, OutboxFacts DEF DeliveryInv, CopyInv, WireInv
    <3>2. ~p.dup => uplink'[i].msg # p.msg
      BY <1>2, <3>1 DEF DeliveryInv, CopyInv
    <3> QED BY <1>6, <3>1, <3>2
  <2>3. \A i, j \in 1 .. Len(uplink') :
           ~uplink'[i].dup /\ ~uplink'[j].dup /\ uplink'[i].msg = uplink'[j].msg => i = j
    <3>1. \A i, j \in 1 .. Len(uplink) :
             ~uplink[i].dup /\ ~uplink[j].dup /\ uplink[i].msg = uplink[j].msg => i = j
      BY DEF DeliveryInv, CopyInv
    <3> SUFFICES ASSUME NEW i \in 1 .. Len(uplink'), NEW j \in 1 .. Len(uplink'),
                        ~uplink'[i].dup, ~uplink'[j].dup, uplink'[i].msg = uplink'[j].msg
                 PROVE  i = j
      OBVIOUS
    <3>2. /\ i + 1 \in 1 .. Len(uplink) /\ uplink'[i] = uplink[i + 1]
          /\ j + 1 \in 1 .. Len(uplink) /\ uplink'[j] = uplink[j + 1]
      BY <1>2
    <3>3. i + 1 = j + 1
      BY <3>1, <3>2
    <3> QED BY <3>3
  <2>4. \A m \in DOMAIN outbox' : outbox'[m].pending = "QUEUED" =>
           plain'[m] = 0 /\ \A i \in 1 .. Len(uplink') : uplink'[i].msg = m => uplink'[i].dup
    <3> SUFFICES ASSUME NEW m \in DOMAIN outbox, outbox[m].pending = "QUEUED"
                 PROVE  plain'[m] = 0 /\ \A i \in 1 .. Len(uplink') : uplink'[i].msg = m => uplink'[i].dup
      BY <1>1
    <3>1. /\ m \in Messages /\ plain[m] = 0
          /\ \A i \in 1 .. Len(uplink) : uplink[i].msg = m => uplink[i].dup
      BY OutboxFacts DEF DeliveryInv, CopyInv
    <3> QED BY <1>2, <1>6, <3>1
  <2> QED BY <2>1, <2>2, <2>3, <2>4 DEF CopyInv
<1>11. AckedWereReceived' /\ NoSilentLoss'
  BY <1>1, <1>7 DEF DeliveryInv, AckedWereReceived, NoSilentLoss, mainVars, historyVars
<1> QED BY <1>8, <1>9, <1>10, <1>11 DEF DeliveryInv

(* Time only ages the items.                                               *)
LEMMA TickKeepsDelivery ==
  ASSUME IdsDistinct, DeliveryInv, Tick
  PROVE  DeliveryInv'
<1>1. /\ outbox' = [m \in DOMAIN outbox |->
                       [outbox[m] EXCEPT !.age = IF @ > ExpiryTimeout THEN @ ELSE @ + 1]]
      /\ UNCHANGED <<downlink, mainVars, uplink, brokerVars, historyVars>>
  BY DEF Tick, Older
<1>2. /\ DOMAIN outbox' = DOMAIN outbox
      /\ \A m \in DOMAIN outbox : /\ outbox'[m] \in Items(IdChoices[m])
                                  /\ outbox'[m].pending = outbox[m].pending
      /\ outbox' = [m \in DOMAIN outbox' |-> outbox'[m]]
  <2>1. \A m \in DOMAIN outbox : outbox[m] \in Items(IdChoices[m])
    BY DEF DeliveryInv, OutboxInv
  <2> QED BY <1>1, <2>1, OutboxAssumption DEF Items
<1>3. Begun' = Begun /\ Received' = Received
  BY <1>1 DEF Begun, Received, mainVars, brokerVars
<1>4. ProgressInv' /\ OutboxInv'
  BY <1>1, <1>2, <1>3 DEF DeliveryInv, ProgressInv, OutboxInv, mainVars, brokerVars
<1>5. WireInv' /\ AckedWereReceived' /\ NoSilentLoss'
  BY <1>1, <1>2, <1>3 DEF DeliveryInv, WireInv, AckedWereReceived, NoSilentLoss, mainVars, historyVars
<1>6. CopyInv'
  BY <1>1, <1>2, <1>3 DEF DeliveryInv, CopyInv, OneUnflaggedCopy, brokerVars
<1> QED BY <1>4, <1>5, <1>6 DEF DeliveryInv

(* DeliveryInv holds in every state.                                       *)
LEMMA ClientDeliveryInv == IdsDistinct /\ ClientSafety => []DeliveryInv
<1> SUFFICES ASSUME IdsDistinct PROVE ClientSafety => []DeliveryInv
  OBVIOUS
<1>1. ClientInit => DeliveryInv
  <2> SUFFICES ASSUME ClientInit PROVE DeliveryInv
    OBVIOUS
  <2>1. ProgressInv
    BY ClientAssumption DEF ClientInit, ProgressInv, Messages
  <2>2. OutboxInv
    BY DEF ClientInit, OutboxInv, outbox_init
  <2>3. WireInv
    BY DEF ClientInit, WireInv
  <2>4. CopyInv
    BY DEF ClientInit, CopyInv, OneUnflaggedCopy, outbox_init
  <2>5. AckedWereReceived /\ NoSilentLoss
    BY DEF ClientInit, AckedWereReceived, NoSilentLoss
  <2> QED BY <2>1, <2>2, <2>3, <2>4, <2>5 DEF DeliveryInv
<1>2. ConnInv /\ DeliveryInv /\ [ClientNext]_clientVars => DeliveryInv'
  <2>1. CASE UNCHANGED clientVars
    BY <2>1, QuietStep DEF clientVars, connVars
  <2>2. CASE NetworkDrop
    BY <2>2, QuietStep DEF NetworkDrop
  <2> QED BY <2>1, <2>2, PublishKeepsDelivery, TaskKeepsDelivery, BrokerKeepsDelivery, TickKeepsDelivery
          DEF ClientNext
<1> QED BY <1>1, <1>2, ClientConnInv, PTL DEF ClientSafety

(* A message leaves the outbox on a PUBACK only if the broker has it, for  *)
(* any number of messages, any timeouts, losses and retransmissions, as    *)
(* long as identifiers do not collide.                                     *)
THEOREM ClientAckedWereReceived == IdsDistinct /\ ClientSafety => []AckedWereReceived
<1>1. DeliveryInv => AckedWereReceived
  BY DEF DeliveryInv
<1> QED BY <1>1, ClientDeliveryInv, PTL

(* What publish accepted is kept, received by the broker or expired.       *)
THEOREM ClientNoSilentLoss == IdsDistinct /\ ClientSafety => []NoSilentLoss
<1>1. DeliveryInv => NoSilentLoss
  BY DEF DeliveryInv
<1> QED BY <1>1, ClientDeliveryInv, PTL

(* The broker receives at most one copy of a message without DUP.          *)
THEOREM ClientOneUnflaggedCopy == IdsDistinct /\ ClientSafety => []OneUnflaggedCopy
<1>1. DeliveryInv => OneUnflaggedCopy
  BY DEF DeliveryInv, CopyInv
<1> QED BY <1>1, ClientDeliveryInv, PTL
=============================================================================
