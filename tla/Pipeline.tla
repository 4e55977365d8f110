------------------------------ MODULE Pipeline ------------------------------
(***************************************************************************)
(* The whole path of a reading: edge node, Mosquitto as the gateway        *)
(* configures it, the gateway daemon under systemd, its worker.  Each part *)
(* is reduced to what the others see of it; the parts have modules of      *)
(* their own (EspMqttClient, GatewayService, SafeQueue).  The daemon's     *)
(* queue is the FIFO channel SafeQueue is shown to implement.              *)
(*                                                                         *)
(* Faults: either connection is lost with all that is in flight; the       *)
(* broker restarts; the daemon dies and systemd starts it again.  Outages  *)
(* are shorter than the 30 s after which the node's outbox expires.        *)
(***************************************************************************)
EXTENDS Naturals, Sequences, FiniteSets, SequencesExt

CONSTANTS AllowAnonymous,   \* mosquitto.conf: FALSE; no client here gives a user name
          MaxReadings, MaxNodeLosses, MaxDaemonLosses, MaxBrokerRestarts, MaxCrashes

VARIABLES counter, link, is_connected,  \* the node
          outbox,                    \* a set: its order is that of the counter
          toBroker, toNode,          \* PUBLISH and PUBACK in flight
          subscribed, session,       \* the broker: the daemon's subscription and its messages
          daemon, daemonLink, asked, queue, ingested,  \* asked: SUBSCRIBE in flight
          published, forgotten,  \* history
          faults                     \* bounds

nodeVars == <<counter, outbox, link, is_connected, published>>
wireVars == <<toBroker, toNode>>
brokerVars == <<subscribed, session>>
daemonVars == <<daemon, daemonLink, asked, queue, ingested>>
pipelineVars == <<nodeVars, wireVars, brokerVars, daemonVars, forgotten, faults>>

PipelineInit ==
    /\ counter = 0 /\ outbox = {} /\ link = "down" /\ is_connected = FALSE
    /\ toBroker = <<>> /\ toNode = <<>> /\ subscribed = FALSE /\ session = <<>>
    /\ daemon = "down" /\ daemonLink = "down" /\ asked = FALSE /\ queue = <<>> /\ ingested = {}
    /\ published = {} /\ forgotten = {}
    /\ faults = [node |-> 0, daemon |-> 0, broker |-> 0, crash |-> 0]

Fault(kind, max) == faults[kind] < max /\ faults' = [faults EXCEPT ![kind] = @ + 1]

-----------------------------------------------------------------------------
(* The node                                                                *)

(* A pass of app_main's loop: MqttManager::publish tests is_connected_;    *)
(* esp_mqtt_client_publish stores the message and writes it if it can.     *)
Read == /\ counter < MaxReadings
        /\ counter' = counter + 1
        /\ outbox' = IF is_connected THEN outbox \cup {counter} ELSE outbox
        /\ published' = IF is_connected THEN published \cup {counter} ELSE published
        /\ toBroker' = IF is_connected /\ link = "up" THEN Append(toBroker, counter) ELSE toBroker
        /\ UNCHANGED <<link, is_connected, toNode, brokerVars, daemonVars, forgotten, faults>>

NodeConnects == /\ link = "down" /\ ~is_connected /\ AllowAnonymous
                /\ link' = "up" /\ is_connected' = TRUE
                /\ UNCHANGED <<counter, outbox, published, wireVars, brokerVars, daemonVars,
                               forgotten, faults>>

(* The client's task notices the loss; the flag follows.                   *)
NodeNotices == /\ link = "down" /\ is_connected
               /\ is_connected' = FALSE
               /\ UNCHANGED <<counter, outbox, link, published, wireVars, brokerVars, daemonVars,
                              forgotten, faults>>

Oldest == {r \in outbox : \A s \in outbox : r <= s}

(* The retransmission of the oldest message, once nothing is on its way.   *)
Resend == /\ link = "up" /\ toBroker = <<>> /\ toNode = <<>>
          /\ \E r \in Oldest : toBroker' = <<r>>
          /\ UNCHANGED <<nodeVars, toNode, brokerVars, daemonVars, forgotten, faults>>

(* Mutant: whatever is acknowledged, the oldest message is dropped.         *)
NodeAckedFirst == /\ toNode # <<>>
                  /\ toNode' = Tail(toNode)
                  /\ outbox' = outbox \ Oldest
                  /\ UNCHANGED <<counter, link, is_connected, published, toBroker, brokerVars,
                                 daemonVars, forgotten, faults>>

(* PUBACK: the message with its identifier leaves the outbox.              *)
NodeAcked == /\ toNode # <<>>
             /\ toNode' = Tail(toNode)
             /\ outbox' = outbox \ {Head(toNode)}
             /\ UNCHANGED <<counter, link, is_connected, published, toBroker, brokerVars,
                            daemonVars, forgotten, faults>>

NodeLoses == /\ link = "up" /\ Fault("node", MaxNodeLosses)
             /\ link' = "down" /\ toBroker' = <<>> /\ toNode' = <<>>
             /\ UNCHANGED <<counter, outbox, is_connected, published, brokerVars, daemonVars,
                            forgotten>>

-----------------------------------------------------------------------------
(* Mosquitto                                                               *)

(* A reading without a subscriber is acknowledged and gone.                *)
BrokerAccepts ==
    /\ toBroker # <<>>
    /\ LET r == Head(toBroker) IN
         /\ session' = IF subscribed THEN Append(session, r) ELSE session
         /\ forgotten' = IF subscribed THEN forgotten ELSE forgotten \cup {r}
         /\ toNode' = Append(toNode, r)
    /\ toBroker' = Tail(toBroker)
    /\ UNCHANGED <<nodeVars, subscribed, daemonVars, faults>>

(* The broker takes the subscription up, sometime.                         *)
BrokerSubscribes == /\ asked /\ daemonLink = "up"
                    /\ asked' = FALSE /\ subscribed' = TRUE
                    /\ UNCHANGED <<nodeVars, wireVars, session, daemon, daemonLink,
                                   queue, ingested, forgotten, faults>>

(* The daemon's session is clean: it ends with its connection.             *)
SessionEnds == /\ subscribed' = FALSE /\ session' = <<>> /\ asked' = FALSE
               /\ daemonLink' = "down"

(* What persistence saves does not include a clean session.                *)
BrokerRestarts == /\ Fault("broker", MaxBrokerRestarts)
                  /\ link' = "down" /\ toBroker' = <<>> /\ toNode' = <<>>
                  /\ SessionEnds
                  /\ forgotten' = forgotten \cup ToSet(session)
                  /\ UNCHANGED <<counter, outbox, is_connected, published, daemon, queue, ingested>>

-----------------------------------------------------------------------------
(* The daemon                                                              *)

(* Mutant: the unit is not restarted.                                      *)
RestartNever == /\ daemon = "down" /\ faults.crash = 0
                /\ daemon' = "connecting"
                /\ UNCHANGED <<nodeVars, wireVars, brokerVars, daemonLink, asked, queue, ingested,
                               forgotten, faults>>

(* systemd starts the daemon, at boot and whenever it has ended.           *)
Restart == /\ daemon = "down"
           /\ daemon' = "connecting"
           /\ UNCHANGED <<nodeVars, wireVars, brokerVars, daemonLink, asked, queue, ingested,
                          forgotten, faults>>

(* MqttWrapper::connect waits for the connection.  A refusal, or a broker  *)
(* not there yet, is caught, and main goes on without a connection.        *)
DaemonConnects ==
    /\ daemon = "connecting"
    /\ \/ /\ daemonLink' = IF AllowAnonymous THEN "up" ELSE "down"
          /\ daemon' = IF AllowAnonymous THEN "subscribing" ELSE "alone"
          /\ UNCHANGED faults
       \/ /\ Fault("daemon", MaxDaemonLosses) /\ daemon' = "alone"
          /\ UNCHANGED daemonLink
    /\ UNCHANGED <<nodeVars, wireVars, brokerVars, asked, queue, ingested, forgotten>>

(* subscribe is sent and not waited for; main reports "Service ready".     *)
DaemonSubscribes == /\ daemon = "subscribing"
                    /\ daemon' = IF daemonLink = "up" THEN "ready" ELSE "alone"
                    /\ asked' = (daemonLink = "up")
                    /\ UNCHANGED <<nodeVars, wireVars, brokerVars, daemonLink, queue, ingested,
                                   forgotten, faults>>

(* connection_lost only reports it.                                        *)
DaemonLoses == /\ daemonLink = "up" /\ Fault("daemon", MaxDaemonLosses)
               /\ SessionEnds
               /\ forgotten' = forgotten \cup ToSet(session)
               /\ UNCHANGED <<nodeVars, wireVars, daemon, queue, ingested>>

message_arrived == /\ daemonLink = "up" /\ session # <<>>
                   /\ session' = Tail(session) /\ queue' = Append(queue, Head(session))
                   /\ UNCHANGED <<nodeVars, wireVars, subscribed, daemon, daemonLink,
                                  asked, ingested, forgotten, faults>>

(* The worker pops, parses and reports.                                    *)
Work == /\ queue # <<>>
        /\ queue' = Tail(queue) /\ ingested' = ingested \cup {Head(queue)}
        /\ UNCHANGED <<nodeVars, wireVars, brokerVars, daemon, daemonLink, asked, forgotten, faults>>

(* The daemon ends, with what it had queued.                               *)
Crash == /\ daemon # "down" /\ Fault("crash", MaxCrashes)
         /\ daemon' = "down" /\ queue' = <<>>
         /\ SessionEnds
         /\ forgotten' = forgotten \cup ToSet(session) \cup ToSet(queue)
         /\ UNCHANGED <<nodeVars, wireVars, ingested>>

PipelineNext == \/ Read \/ NodeConnects \/ NodeNotices \/ Resend \/ NodeAcked \/ NodeLoses
                \/ BrokerAccepts \/ BrokerSubscribes \/ BrokerRestarts
                \/ Restart \/ DaemonConnects \/ DaemonSubscribes \/ DaemonLoses
                \/ message_arrived \/ Work \/ Crash

(* Every task, thread and process that can go on does; no fault is fair.   *)
PipelineFairness ==
    /\ WF_pipelineVars(Read) /\ WF_pipelineVars(NodeConnects) /\ WF_pipelineVars(NodeNotices)
    /\ WF_pipelineVars(Resend) /\ WF_pipelineVars(NodeAcked)
    /\ WF_pipelineVars(BrokerAccepts) /\ WF_pipelineVars(BrokerSubscribes)
    /\ WF_pipelineVars(Restart) /\ WF_pipelineVars(DaemonConnects)
    /\ WF_pipelineVars(DaemonSubscribes) /\ WF_pipelineVars(message_arrived)
    /\ WF_pipelineVars(Work)

PipelineSafety == PipelineInit /\ [][PipelineNext]_pipelineVars
PipelineSpec == PipelineSafety /\ PipelineFairness

-----------------------------------------------------------------------------
(* Properties                                                              *)

(* The books balance at every moment, whatever is lost and restarted: a    *)
(* reading that was published is still in the node's outbox, or the        *)
(* gateway has it, or has ingested it, or could not keep it; and there is  *)
(* no other reading in any of these places.                                *)
Accounted == published = outbox \cup ToSet(session) \cup ToSet(queue) \cup ingested \cup forgotten

(* Nothing of a daemon outlives it: its connection, subscription, session  *)
(* and queue are those of a process that runs, so that no reading goes to  *)
(* one that is gone, and the next starts with nothing.                     *)
NothingOutlives == /\ daemon = "down" => daemonLink = "down" /\ queue = <<>>
                   /\ daemonLink = "down" => ~asked /\ ~subscribed /\ session = <<>>

(* A published reading is always somewhere, and nowhere for ever: it is    *)
(* ingested, or the gateway had no subscription, no session or no daemon   *)
(* to keep it.                                                             *)
NoReadingStuck == \A r \in 0..(MaxReadings - 1) :
                      [](Accounted /\ (r \in published => <>(r \in ingested \cup forgotten)))

Serving == daemon = "ready" /\ subscribed
(* The faults that take the daemon's connection from it.                   *)
Losses == faults.daemon + faults.broker

(* Whenever the daemon has died, the one systemd starts receives readings, *)
(* unless from then on its connection is refused or lost: connection_lost  *)
(* and a caught failure of connect leave a daemon that runs, deaf, and     *)
(* that nothing restarts.  Under the committed mosquitto.conf it is always *)
(* refused, as is the node, and no reading is ever published.              *)
ServesAgain ==
    IF AllowAnonymous
    THEN \A n \in 0..(MaxDaemonLosses + MaxBrokerRestarts) :
             (daemon = "down" /\ Losses = n) ~> (Serving \/ Losses > n)
    ELSE [](~subscribed /\ published = {})
=============================================================================
