--------------------------- MODULE GatewayService ---------------------------
(***************************************************************************)
(* The gateway daemon (gateway-service/src/main.cpp, mqtt_wrapper.hpp):    *)
(* the main thread, the worker thread and the receive thread of the Paho   *)
(* MQTT client, which meet in one SafeQueue.  The life of the daemon runs  *)
(* from the start of main through the keep-alive loop to "Graceful         *)
(* Shutdown" and the destructors of main's local objects.                  *)
(*                                                                         *)
(* External, modelled from the calls the daemon makes: the Paho client     *)
(* (no automatic reconnect is configured, disconnect throws when there is  *)
(* no connection, destroying the client waits for a callback in progress)  *)
(* and the broker (it may drop the connection at any time, and forgets the *)
(* subscription then, because the session is clean).                       *)
(***************************************************************************)
EXTENDS SafeQueue

CONSTANTS Main, Worker, Paho,   \* the three threads
          Malformed             \* the records ParseFromString refuses

ASSUME GatewayAssumption == /\ Pushers = {Paho}
                            /\ Poppers = {Worker}
                            /\ Aborters = {Main}
                            /\ Malformed \subseteq Records

VARIABLES running,        \* the atomic flag of main.cpp
          mainAt,         \* where the main thread is
          workerAt,       \* where the worker thread is
          link,           \* Paho's connection: "up" or "down"
          subscription,   \* "no", "requested", "active"
          objects,        \* main's live local objects
          ingested        \* records parsed and reported by the worker

daemonVars == <<running, mainAt, workerAt, link, subscription, objects, ingested>>
gatewayVars == <<queueVars, daemonVars>>

MainPoints == {"start", "connect", "subscribe", "keep_alive", "aborting", "join",
               "handler_dtor", "disconnect", "disconnecting", "destroy_client",
               "destroy_queue", "exited", "terminated"}
WorkerPoints == {"none", "loop", "popping", "exited"}

GatewayInit == /\ QueueInit
               /\ running = TRUE
               /\ mainAt = "start"
               /\ workerAt = "none"
               /\ link = "down"
               /\ subscription = "no"
               /\ objects = {"queue"}
               /\ ingested = <<>>

(* The process exists: main has neither returned nor been terminated.      *)
Alive == mainAt \notin {"exited", "terminated"}

-----------------------------------------------------------------------------
(* signal_handler                                                          *)
Signal == /\ running
          /\ running' = FALSE
          /\ UNCHANGED <<queueVars, mainAt, workerAt, link, subscription, objects, ingested>>

-----------------------------------------------------------------------------
(* The main thread                                                         *)

(* Starts the worker and constructs the MqttWrapper.                       *)
MainStart == /\ mainAt = "start"
             /\ mainAt' = "connect"
             /\ workerAt' = "loop"
             /\ objects' = objects \cup {"client"}
             /\ UNCHANGED <<queueVars, running, link, subscription, ingested>>

(* connect(...)->wait() succeeds, or throws and MqttWrapper::connect       *)
(* returns false, which main ignores.                                      *)
ConnectWait == /\ mainAt = "connect"
               /\ \/ link' = "up" /\ mainAt' = "subscribe"
                  \/ link' = link /\ mainAt' = "keep_alive"
               /\ UNCHANGED <<queueVars, running, workerAt, subscription, objects, ingested>>

(* subscribe is sent and not waited for; it throws on a lost connection.   *)
Subscribe == /\ mainAt = "subscribe"
             /\ mainAt' = "keep_alive"
             /\ subscription' = IF link = "up" THEN "requested" ELSE subscription
             /\ UNCHANGED <<queueVars, running, workerAt, link, objects, ingested>>

(* Mutant: main joins without calling abort.                               *)
ShutdownNoAbort == /\ mainAt = "keep_alive"
                   /\ ~running
                   /\ mainAt' = "join"
                   /\ UNCHANGED <<queueVars, running, workerAt, link, subscription, objects, ingested>>

(* The keep-alive loop ends with running; main calls abort.                *)
Shutdown == /\ mainAt = "keep_alive"
            /\ ~running
            /\ AbortCall(Main)
            /\ mainAt' = "aborting"
            /\ UNCHANGED <<running, workerAt, link, subscription, objects, ingested>>

AbortReturns == /\ mainAt = "aborting"
                /\ pc[Main] = "idle"
                /\ mainAt' = "join"
                /\ UNCHANGED <<queueVars, running, workerAt, link, subscription, objects, ingested>>

(* Mutant: telemetry_queue declared after mqtt_handler.                    *)
JoinQueueDestroyedFirst ==
    /\ mainAt = "join"
    /\ workerAt = "exited"
    /\ mainAt' = "handler_dtor"
    /\ objects' = objects \ {"queue"}
    /\ UNCHANGED <<queueVars, running, workerAt, link, subscription, ingested>>

Join == /\ mainAt = "join"
        /\ workerAt = "exited"
        /\ mainAt' = "handler_dtor"
        /\ UNCHANGED <<queueVars, running, workerAt, link, subscription, objects, ingested>>

(* ~MqttWrapper tests is_connected ...                                     *)
HandlerDtor == /\ mainAt = "handler_dtor"
               /\ mainAt' = IF link = "up" THEN "disconnect" ELSE "destroy_client"
               /\ UNCHANGED <<queueVars, running, workerAt, link, subscription, objects, ingested>>

(* ... and then disconnects.  An exception that leaves a destructor ends   *)
(* the process through std::terminate.                                     *)
Disconnect == /\ mainAt = "disconnect"
              /\ mainAt' = IF link = "up" THEN "disconnecting" ELSE "terminated"
              /\ UNCHANGED <<queueVars, running, workerAt, link, subscription, objects, ingested>>

DisconnectWait == /\ mainAt = "disconnecting"
                  /\ \/ mainAt' = "destroy_client"
                     \/ link = "down" /\ mainAt' = "terminated"
                  /\ link' = "down"
                  /\ subscription' = "no"
                  /\ UNCHANGED <<queueVars, running, workerAt, objects, ingested>>

(* client_ is destroyed once no callback is running.                       *)
DestroyClient == /\ mainAt = "destroy_client"
                 /\ pc[Paho] = "idle"
                 /\ mainAt' = "destroy_queue"
                 /\ objects' = objects \ {"client"}
                 /\ link' = "down"
                 /\ subscription' = "no"
                 /\ UNCHANGED <<queueVars, running, workerAt, ingested>>

(* telemetry_queue, declared first, is destroyed last; main has returned.  *)
DestroyQueue == /\ mainAt = "destroy_queue"
                /\ mainAt' = "exited"
                /\ objects' = objects \ {"queue"}
                /\ UNCHANGED <<queueVars, running, workerAt, link, subscription, ingested>>

MainStep == \/ MainStart \/ ConnectWait \/ Subscribe
            \/ Shutdown \/ AbortReturns \/ Join
            \/ HandlerDtor \/ Disconnect \/ DisconnectWait
            \/ DestroyClient \/ DestroyQueue

-----------------------------------------------------------------------------
(* The worker thread                                                       *)

WorkerLoop == /\ workerAt = "loop"
              /\ \/ /\ running
                    /\ PopCall(Worker)
                    /\ workerAt' = "popping"
                 \/ /\ ~running
                    /\ workerAt' = "exited"
                    /\ UNCHANGED queueVars
              /\ UNCHANGED <<running, mainAt, link, subscription, objects, ingested>>

(* Mutant: running is tested again between pop and the report.             *)
WorkerPoppedRechecksRunning ==
    /\ workerAt = "popping"
    /\ pc[Worker] = "idle"
    /\ workerAt' = IF running THEN "loop" ELSE "exited"
    /\ ingested' = IF running /\ item[Worker] \notin Malformed \cup {Nullopt}
                   THEN Append(ingested, item[Worker]) ELSE ingested
    /\ UNCHANGED <<queueVars, running, mainAt, link, subscription, objects>>

(* pop has returned: leave on nullopt, else parse and report the record.   *)
WorkerPopped ==
    /\ workerAt = "popping"
    /\ pc[Worker] = "idle"
    /\ \/ /\ item[Worker] = Nullopt
          /\ workerAt' = "exited"
          /\ UNCHANGED ingested
       \/ /\ item[Worker] # Nullopt
          /\ workerAt' = "loop"
          /\ ingested' = IF item[Worker] \in Malformed THEN ingested
                                                       ELSE Append(ingested, item[Worker])
    /\ UNCHANGED <<queueVars, running, mainAt, link, subscription, objects>>

WorkerStep == WorkerLoop \/ WorkerPopped

-----------------------------------------------------------------------------
(* Paho and the broker                                                     *)

(* The broker processes the subscription.                                  *)
SubAck == /\ subscription = "requested"
          /\ link = "up"
          /\ subscription' = "active"
          /\ UNCHANGED <<queueVars, running, mainAt, workerAt, link, objects, ingested>>

(* message_arrived pushes the payload of a message of the subscription.    *)
MessageArrived(r) == /\ "client" \in objects
                     /\ link = "up"
                     /\ subscription = "active"
                     /\ PushesStarted < MaxPushes
                     /\ PushCall(Paho, r)
                     /\ UNCHANGED daemonVars

(* connection_lost only logs.                                              *)
ConnectionLost == /\ link = "up"
                  /\ link' = "down"
                  /\ subscription' = "no"
                  /\ UNCHANGED <<queueVars, running, mainAt, workerAt, objects, ingested>>

-----------------------------------------------------------------------------
QueueStep(t) == OpStep(t) /\ UNCHANGED daemonVars

Ended == ~Alive /\ UNCHANGED gatewayVars

GatewayNext == \/ /\ Alive
                  /\ \/ Signal
                     \/ MainStep
                     \/ WorkerStep
                     \/ SubAck
                     \/ \E r \in Records : MessageArrived(r)
                     \/ ConnectionLost
                     \/ \E t \in Threads : QueueStep(t)
               \/ Ended

(* Threads are scheduled, the mutex is granted to a thread that keeps      *)
(* asking, and Paho's connect and disconnect complete (they time out).     *)
(* Signals, messages, acknowledgements and lost connections may or may     *)
(* not come.                                                               *)
GatewayFairness ==
    /\ WF_gatewayVars(Alive /\ MainStep)
    /\ WF_gatewayVars(Alive /\ WorkerStep)
    /\ \A t \in Threads : /\ WF_gatewayVars(Alive /\ Inside(t) /\ UNCHANGED daemonVars)
                          /\ SF_gatewayVars(Alive /\ Lock(t) /\ UNCHANGED daemonVars)

GatewaySafety == GatewayInit /\ [][GatewayNext]_gatewayVars

GatewaySpec == GatewaySafety /\ GatewayFairness

-----------------------------------------------------------------------------
(* Properties                                                              *)

(* Every variable of the daemon holds a value of its type.                 *)
GatewayTypeOK == /\ running \in BOOLEAN
                 /\ mainAt \in MainPoints
                 /\ workerAt \in WorkerPoints
                 /\ link \in {"up", "down"}
                 /\ subscription \in {"no", "requested", "active"}
                 /\ objects \subseteq {"queue", "client"}
                 /\ ingested \in Seq(Records \ Malformed)

(* Paho's callback holds a reference to telemetry_queue and the worker's   *)
(* closure another: while a thread is inside push, pop or abort the queue  *)
(* exists, and it is never destroyed before the client whose callbacks     *)
(* use it, whatever the moment of the signal.                              *)
QueueOutlivesItsUsers == \/ "queue" \in objects
                         \/ /\ "client" \notin objects
                            /\ workerAt = "exited"
                            /\ \A t \in Threads : pc[t] = "idle"

(* The record pop has handed to the worker and the worker has not parsed.  *)
InHand == /\ workerAt = "popping"
          /\ pc[Worker] \in {"unlock", "idle"}
          /\ item[Worker] # Nullopt

Parses(r) == r \notin Malformed

(* How many records the worker is done with, and the places among them of  *)
(* the well-formed ones.                                                   *)
Handled == IF InHand THEN Len(popped) - 1 ELSE Len(popped)
WellFormed == {i \in 1 .. Handled : Parses(pushed[i])}

(* The worker reports exactly the well-formed records, once each, in the   *)
(* order in which the callback pushed them; a malformed one is skipped and *)
(* costs nothing else.                                                     *)
IngestedInOrder ==
    \E place \in [1 .. Len(ingested) -> WellFormed] :
        /\ \A i, j \in 1 .. Len(ingested) : i < j => place[i] < place[j]
        /\ \A k \in WellFormed : \E i \in 1 .. Len(ingested) : place[i] = k
        /\ \A i \in 1 .. Len(ingested) : ingested[i] = pushed[place[i]]

(* After SIGINT or SIGTERM the process ends, wherever its threads are: in  *)
(* particular a worker blocked in pop is released and joined.              *)
SignalEndsProcess == ~running ~> ~Alive

(* While no signal comes, every record the callback pushes reaches the     *)
(* worker.                                                                 *)
EveryRecordHandled ==
    \A n \in 1..MaxPushes : Len(pushed) >= n ~> (Len(popped) >= n \/ ~running)

-----------------------------------------------------------------------------
(* What the code's comments promise and the code does not do               *)

(* "if empty and aborted, return nullopt to stop the thread": the worker   *)
(* thread stops only when the queue is empty.                              *)
WorkerStopsOnEmptyQueue ==
    [][workerAt # "exited" /\ workerAt' = "exited" => queue_ = <<>>]_gatewayVars

(* "handle clean shutdown via Linux signals": the process does not end in  *)
(* std::terminate.                                                         *)
CleanShutdown == mainAt # "terminated"
=============================================================================
