------------------------------ MODULE MCSystem ------------------------------
(* Instances of the gateway's queue, of the node's start and of the path   *)
(* of a reading.  They share nothing, so a behaviour is one of one         *)
(* instance, which setting names, and the variables of the others stay as  *)
(* they are initially.                                                     *)
EXTENDS SafeQueue

VARIABLES setting,
          flash, at, bits, sta, events, config, mqtt, notices, node_connected, node_counter,
          drops, resets,
          counter, outbox, link, is_connected, toBroker, toNode, subscribed, session,
          daemon, daemonLink, asked, queue, ingested, published, forgotten, faults

(* The longest identifier that fits wifi_config with a terminator.         *)
Node == INSTANCE EdgeNode WITH
    SsidLength <- 31, PasswordLength <- 15, FlashStates <- {"ready", "no_free_pages", "new_version"},
    MaxReadings <- 3, MaxDrops <- 2, MaxResets <- 2,
    is_connected <- node_connected, counter <- node_counter

(* One fault of each kind; a daemon that dies twice and loses a connection *)
(* or is refused once; and the configuration as committed.                 *)
Faults == INSTANCE Pipeline WITH
    AllowAnonymous <- TRUE, MaxReadings <- 2, MaxNodeLosses <- 1, MaxDaemonLosses <- 1,
    MaxBrokerRestarts <- 1, MaxCrashes <- 1
Crashes == INSTANCE Pipeline WITH
    AllowAnonymous <- TRUE, MaxReadings <- 1, MaxNodeLosses <- 0, MaxDaemonLosses <- 1,
    MaxBrokerRestarts <- 0, MaxCrashes <- 2
Committed == INSTANCE Pipeline WITH
    AllowAnonymous <- FALSE, MaxReadings <- 2, MaxNodeLosses <- 1, MaxDaemonLosses <- 1,
    MaxBrokerRestarts <- 1, MaxCrashes <- 1

-----------------------------------------------------------------------------
nodeVars == <<flash, at, bits, sta, events, config, mqtt, notices, node_connected, node_counter,
              drops, resets>>
pipelineVars == <<counter, outbox, link, is_connected, toBroker, toNode, subscribed, session,
                  daemon, daemonLink, asked, queue, ingested, published, forgotten, faults>>
mcVars == <<setting, queueVars, nodeVars, pipelineVars>>

MCInit == /\ QueueInit /\ Node!NodeInit /\ Faults!PipelineInit
          /\ \/ setting = "node"
             \/ setting \in {"queue", "faults", "crashes", "committed"} /\ flash = "ready"

InQueue(step) == setting = "queue" /\ step /\ UNCHANGED <<setting, nodeVars, pipelineVars>>
InNode(step) == setting = "node" /\ step /\ UNCHANGED <<setting, queueVars, pipelineVars>>
InPath(faults_, crashes, committed) == /\ \/ setting = "faults" /\ faults_
                                          \/ setting = "crashes" /\ crashes
                                          \/ setting = "committed" /\ committed
                                       /\ UNCHANGED <<setting, queueVars, nodeVars>>

MCNext == \/ InQueue(QueueNext)
          \/ InNode(Node!NodeNext)
          \/ InPath(Faults!PipelineNext, Crashes!PipelineNext, Committed!PipelineNext)

(* QueueFairness, NodeFairness and PipelineFairness.                       *)
MCSpec ==
    /\ MCInit /\ [][MCNext]_mcVars
    /\ \A t \in Threads : WF_mcVars(InQueue(Inside(t))) /\ SF_mcVars(InQueue(Lock(t)))
    /\ \A t \in Poppers : WF_mcVars(InQueue(PopCall(t)))
    /\ WF_mcVars(InNode(Node!nvs_flash_init)) /\ WF_mcVars(InNode(Node!nvs_flash_erase))
    /\ WF_mcVars(InNode(Node!Construct)) /\ WF_mcVars(InNode(Node!connect))
    /\ WF_mcVars(InNode(Node!connected)) /\ WF_mcVars(InNode(Node!event_handler))
    /\ WF_mcVars(InNode(Node!Associate)) /\ WF_mcVars(InNode(Node!start))
    /\ WF_mcVars(InNode(Node!read)) /\ WF_mcVars(InNode(Node!ClientOnline))
    /\ WF_mcVars(InNode(Node!ClientOffline)) /\ WF_mcVars(InNode(Node!mqtt_event_handler))
    /\ WF_mcVars(InPath(Faults!Read, Crashes!Read, Committed!Read))
    /\ WF_mcVars(InPath(Faults!NodeConnects, Crashes!NodeConnects, Committed!NodeConnects))
    /\ WF_mcVars(InPath(Faults!NodeNotices, Crashes!NodeNotices, Committed!NodeNotices))
    /\ WF_mcVars(InPath(Faults!Resend, Crashes!Resend, Committed!Resend))
    /\ WF_mcVars(InPath(Faults!NodeAcked, Crashes!NodeAcked, Committed!NodeAcked))
    /\ WF_mcVars(InPath(Faults!BrokerAccepts, Crashes!BrokerAccepts, Committed!BrokerAccepts))
    /\ WF_mcVars(InPath(Faults!BrokerSubscribes, Crashes!BrokerSubscribes, Committed!BrokerSubscribes))
    /\ WF_mcVars(InPath(Faults!Restart, Crashes!Restart, Committed!Restart))
    /\ WF_mcVars(InPath(Faults!DaemonConnects, Crashes!DaemonConnects, Committed!DaemonConnects))
    /\ WF_mcVars(InPath(Faults!DaemonSubscribes, Crashes!DaemonSubscribes, Committed!DaemonSubscribes))
    /\ WF_mcVars(InPath(Faults!message_arrived, Crashes!message_arrived, Committed!message_arrived))
    /\ WF_mcVars(InPath(Faults!Work, Crashes!Work, Committed!Work))

-----------------------------------------------------------------------------
(* The properties of each module, for its instances; the others are those  *)
(* of SafeQueue                                                            *)

(* app_main gets to its loop from any flash, through resets and refusals,  *)
(* and MqttManager's is_connected_ settles on the truth.                   *)
NodeComesUp == (setting = "node") => Node!NodeComesUp

(* WifiManager's handler brings the radio back without a restart.          *)
RadioRecovers == (setting = "node") => Node!RadioRecovers

(* A published reading is ingested unless the gateway could not keep it,   *)
(* and until then it is somewhere on its way.                              *)
NoReadingStuck == Faults!NoReadingStuck

(* The daemon serves again however often systemd has to restart it, unless *)
(* it then loses its connection or is refused; nothing is left of the one  *)
(* before.  As committed, the broker refuses it.                           *)
ServesAgain == /\ []Faults!NothingOutlives
               /\ (setting = "faults") => Faults!ServesAgain
               /\ (setting = "crashes") => Crashes!ServesAgain
               /\ (setting = "committed") => Committed!ServesAgain
=============================================================================
