-------------------------- MODULE ClientLifecycle --------------------------
(***************************************************************************)
(* The life of an esp-mqtt client (managed_components/espressif__mqtt/     *)
(* mqtt_client.c): the application starts, stops, disconnects, reconnects  *)
(* and destroys it while the MQTT task, created by every start, runs       *)
(* esp_mqtt_task.  The two meet in the flag run, the state, the status     *)
(* bits and the API lock; run, state and the bits are also read and        *)
(* written without the lock, each access being a step of its own.  What a  *)
(* connection carries is left to the other modules: here it is served,     *)
(* fails, or is refreshed.                                                 *)
(***************************************************************************)
EXTENDS Naturals, FiniteSets

CONSTANTS Tasks,              \* MQTT tasks that may exist at a time
          NoTask,             \* nobody holds the API lock
          App,                \* the application's thread
          Manners             \* how the application and the transport may behave

(* What a manner may have: start is called at any time; stop and destroy   *)
(* right after start; the option auto_reconnect; creating the transport    *)
(* can fail.                                                               *)
ASSUME LifecycleAssumption ==
    Manners \subseteq SUBSET {"starts_again", "stops_early", "auto_reconnect", "transport_may_fail"}

VARIABLES manner,       \* fixed from the beginning
          run,          \* client->run
          state,        \* client->state
          bits,         \* status_bits: STOPPED, RECONNECT, DISCONNECT
          lock,         \* the holder of api_lock
          task,         \* where every MQTT task is; "none": not created, or deleted
          task_handle,  \* the task the last start created
          app,          \* where the application is
          result,       \* what start or stop returned last
          event         \* the application has seen an event since the last start

lifecycleVars == <<manner, run, state, bits, lock, task, task_handle, app, result, event>>

(* esp_mqtt_client_init; calloc leaves run FALSE and state INIT.           *)
LifecycleInit == /\ manner \in Manners
                 /\ run = FALSE
                 /\ state = "INIT"
                 /\ bits = {}
                 /\ lock = NoTask
                 /\ task = [t \in Tasks |-> "none"]
                 /\ task_handle = NoTask
                 /\ app = "idle"
                 /\ result = "none"
                 /\ event = FALSE

Live(t) == task[t] # "none"
Goto(t, next) == task' = [task EXCEPT ![t] = next]

-----------------------------------------------------------------------------
(* The application                                                         *)

(* A careful application starts the client once, or again after a stop     *)
(* that returned ESP_OK, and stops or destroys it only after an event has  *)
(* told it that the task is running.                                       *)
MayStart == "starts_again" \in manner \/ result \in {"none", "stopped"}
MayStop == (event /\ result = "started") \/ "stops_early" \in manner
MayDestroy == MayStop \/ result \in {"none", "stopped"}

(* esp_mqtt_client_start returns before the new task has run.              *)
Start == /\ app = "idle"
         /\ MayStart
         /\ lock = NoTask
         /\ state \in {"INIT", "DISCONNECTED"}
         /\ \E t \in Tasks : ~Live(t) /\ Goto(t, "created") /\ task_handle' = t
         /\ event' = FALSE
         /\ result' = "started"
         /\ UNCHANGED <<manner, run, state, bits, lock, app>>

(* esp_mqtt_client_stop, up to the wait for STOPPED_BIT.                   *)
StopCall == /\ app = "idle"
            /\ MayStop
            /\ app' = "stop"
            /\ UNCHANGED <<manner, run, state, bits, lock, task, task_handle, result, event>>

StopRunning(next) == /\ lock = NoTask
                     /\ run
                     /\ run' = FALSE
                     /\ state' = "DISCONNECTED"
                     /\ app' = next
                     /\ UNCHANGED <<manner, bits, lock, task, task_handle, result, event>>

StopNotRunning(next) == /\ lock = NoTask
                        /\ ~run
                        /\ app' = next
                        /\ result' = "not_started"
                        /\ UNCHANGED <<manner, run, state, bits, lock, task, task_handle, event>>

Stop == app = "stop" /\ (StopRunning("stop_wait") \/ StopNotRunning("idle"))

StopWait == /\ app = "stop_wait"
            /\ "STOPPED" \in bits
            /\ app' = "idle"
            /\ result' = "stopped"
            /\ UNCHANGED <<manner, run, state, bits, lock, task, task_handle, event>>

(* Mutant: destroy does not stop the client.                               *)
DestroyCallNoStop == /\ app = "idle"
                     /\ MayDestroy
                     /\ app' = "free"
                     /\ UNCHANGED <<manner, run, state, bits, lock, task, task_handle, result, event>>

(* esp_mqtt_client_destroy reads run without the lock, stops a running     *)
(* client, ignores whether that worked, and frees everything.              *)
DestroyCall == /\ app = "idle"
               /\ MayDestroy
               /\ app' = IF run THEN "destroy_stop" ELSE "free"
               /\ UNCHANGED <<manner, run, state, bits, lock, task, task_handle, result, event>>

DestroyStop == app = "destroy_stop" /\ (StopRunning("destroy_wait") \/ StopNotRunning("free"))

DestroyWait == /\ app = "destroy_wait"
               /\ "STOPPED" \in bits
               /\ app' = "free"
               /\ UNCHANGED <<manner, run, state, bits, lock, task, task_handle, result, event>>

Free == /\ app = "free"
        /\ app' = "freed"
        /\ UNCHANGED <<manner, run, state, bits, lock, task, task_handle, result, event>>

(* esp_mqtt_client_disconnect                                              *)
Disconnect == /\ app = "idle"
              /\ bits' = bits \cup {"DISCONNECT"}
              /\ UNCHANGED <<manner, run, state, lock, task, task_handle, app, result, event>>

(* esp_mqtt_client_reconnect checks the state and sets the bit later, both *)
(* without the lock.                                                       *)
ReconnectCheck == /\ app = "idle"
                  /\ state = "WAIT_RECONNECT"
                  /\ app' = "reconnect"
                  /\ UNCHANGED <<manner, run, state, bits, lock, task, task_handle, result, event>>

ReconnectSet == /\ app = "reconnect"
                /\ bits' = bits \cup {"RECONNECT"}
                /\ app' = "idle"
                /\ UNCHANGED <<manner, run, state, lock, task, task_handle, result, event>>

-----------------------------------------------------------------------------
(* esp_mqtt_task                                                           *)

TaskRun(t) == /\ task[t] = "created"
              /\ run' = TRUE
              /\ Goto(t, "set_state")
              /\ UNCHANGED <<manner, state, bits, lock, task_handle, app, result, event>>

TaskState(t) == /\ task[t] = "set_state"
                /\ state' = "INIT"
                /\ Goto(t, "clear")
                /\ UNCHANGED <<manner, run, bits, lock, task_handle, app, result, event>>

(* Mutant: STOPPED_BIT of an earlier task is left set.                     *)
TaskClearNothing(t) ==
    /\ task[t] = "clear"
    /\ Goto(t, "while")
    /\ UNCHANGED <<manner, run, state, bits, lock, task_handle, app, result, event>>

TaskClear(t) == /\ task[t] = "clear"
                /\ bits' = bits \ {"STOPPED"}
                /\ Goto(t, "while")
                /\ UNCHANGED <<manner, run, state, lock, task_handle, app, result, event>>

(* Mutant: the loop does not test run.                                     *)
TaskWhileForever(t) ==
    /\ task[t] = "while"
    /\ Goto(t, "lock")
    /\ UNCHANGED <<manner, run, state, bits, lock, task_handle, app, result, event>>

TaskWhile(t) == /\ task[t] = "while"
                /\ Goto(t, IF run THEN "lock" ELSE "close")
                /\ UNCHANGED <<manner, run, state, bits, lock, task_handle, app, result, event>>

TaskLock(t) == /\ task[t] = "lock"
               /\ lock = NoTask
               /\ lock' = t
               /\ Goto(t, CASE state = "DISCONNECTED" -> "unlock"
                            [] state = "INIT" -> "init"
                            [] state = "CONNECTED" -> "serve"
                            [] state = "WAIT_RECONNECT" -> "wait")
               /\ UNCHANGED <<manner, run, state, bits, task_handle, app, result, event>>

(* Mutant: run stays set when the task gives up.                           *)
TaskInitKeepsRun(t) ==
    /\ task[t] = "init"
    /\ bits' = bits \ {"RECONNECT", "DISCONNECT"}
    /\ \/ event' = TRUE /\ Goto(t, "connecting") /\ UNCHANGED lock
       \/ "transport_may_fail" \in manner /\ lock' = NoTask /\ Goto(t, "close") /\ UNCHANGED event
    /\ UNCHANGED <<manner, run, state, task_handle, app, result>>

(* MQTT_STATE_INIT: requests made before are dropped; without a transport  *)
(* the task gives up, else MQTT_EVENT_BEFORE_CONNECT is dispatched.        *)
TaskInit(t) == /\ task[t] = "init"
               /\ bits' = bits \ {"RECONNECT", "DISCONNECT"}
               /\ \/ event' = TRUE /\ Goto(t, "connecting") /\ UNCHANGED run
                  \/ "transport_may_fail" \in manner /\ run' = FALSE /\ Goto(t, "unlock") /\ UNCHANGED event
               /\ UNCHANGED <<manner, state, lock, task_handle, app, result>>

(* esp_mqtt_abort_connection                                               *)
Abort == state' = "WAIT_RECONNECT"

TaskConnect(t) == /\ task[t] = "connecting"
                  /\ \/ state' = "CONNECTED"
                     \/ Abort
                  /\ Goto(t, "unlock")
                  /\ UNCHANGED <<manner, run, bits, lock, task_handle, app, result, event>>

(* An event handler calls esp_mqtt_client_stop: refused in the task that   *)
(* task_handle names, whose wait for STOPPED_BIT would never end.  Another *)
(* task of the same client is not recognised.                              *)
HandlerStop(t) == /\ task[t] = "connecting"
                  /\ run
                  /\ task_handle # t
                  /\ run' = FALSE
                  /\ state' = "DISCONNECTED"
                  /\ Goto(t, "self_wait")
                  /\ UNCHANGED <<manner, bits, lock, task_handle, app, result, event>>

HandlerStopWait(t) == /\ task[t] = "self_wait"
                      /\ "STOPPED" \in bits
                      /\ Goto(t, "connecting")
                      /\ UNCHANGED <<manner, run, state, bits, lock, task_handle, app, result, event>>

(* Mutant: the request to disconnect is not looked at.                     *)
TaskServeNoRequest(t) ==
    /\ task[t] = "serve"
    /\ UNCHANGED <<state, bits>>
    /\ Goto(t, "unlock")
    /\ UNCHANGED <<manner, run, lock, task_handle, app, result, event>>

(* MQTT_STATE_CONNECTED: a requested disconnection; or the connection is   *)
(* served, fails, or is given up to be refreshed.                          *)
TaskServe(t) ==
    /\ task[t] = "serve"
    /\ \/ "DISCONNECT" \in bits /\ bits' = bits \ {"DISCONNECT"} /\ Abort
       \/ /\ "DISCONNECT" \notin bits
          /\ UNCHANGED bits
          /\ \/ UNCHANGED state
             \/ Abort
             \/ state' = "INIT"
    /\ Goto(t, "unlock")
    /\ UNCHANGED <<manner, run, lock, task_handle, app, result, event>>

(* MQTT_STATE_WAIT_RECONNECT, whose timeout may be over at any time.       *)
TaskWait(t) ==
    /\ task[t] = "wait"
    /\ \/ /\ "auto_reconnect" \notin manner /\ "RECONNECT" \in bits
          /\ bits' = bits \ {"RECONNECT"}
          /\ state' = "INIT" /\ Goto(t, "unlock") /\ UNCHANGED lock
       \/ /\ "auto_reconnect" \in manner
          /\ state' = "INIT" /\ Goto(t, "unlock") /\ UNCHANGED <<lock, bits>>
       \/ /\ "auto_reconnect" \in manner \/ "RECONNECT" \notin bits
          /\ lock' = NoTask /\ Goto(t, "sleep") /\ UNCHANGED <<state, bits>>
    /\ UNCHANGED <<manner, run, task_handle, app, result, event>>

(* xEventGroupWaitBits has a timeout.                                      *)
TaskSleep(t) == /\ task[t] = "sleep"
                /\ Goto(t, "while")
                /\ UNCHANGED <<manner, run, state, bits, lock, task_handle, app, result, event>>

TaskUnlock(t) == /\ task[t] = "unlock"
                 /\ lock' = NoTask
                 /\ Goto(t, "poll")
                 /\ UNCHANGED <<manner, run, state, bits, task_handle, app, result, event>>

(* The socket is polled without the lock.                                  *)
TaskPoll(t) == /\ task[t] = "poll"
               /\ \/ Goto(t, "while")
                  \/ state = "CONNECTED" /\ Goto(t, "abort")
               /\ UNCHANGED <<manner, run, state, bits, lock, task_handle, app, result, event>>

TaskAbort(t) == /\ task[t] = "abort"
                /\ lock = NoTask
                /\ Abort
                /\ Goto(t, "while")
                /\ UNCHANGED <<manner, run, bits, lock, task_handle, app, result, event>>

TaskClose(t) == /\ task[t] = "close"
                /\ state' = "DISCONNECTED"
                /\ Goto(t, "stopped")
                /\ UNCHANGED <<manner, run, bits, lock, task_handle, app, result, event>>

(* The last step of a task: STOPPED_BIT, and vTaskDelete.                  *)
TaskStopped(t) == /\ task[t] = "stopped"
                  /\ bits' = bits \cup {"STOPPED"}
                  /\ Goto(t, "none")
                  /\ UNCHANGED <<manner, run, state, lock, task_handle, app, result, event>>

-----------------------------------------------------------------------------
AppStep == Stop \/ StopWait \/ DestroyStop \/ DestroyWait \/ Free \/ ReconnectSet

AppCall == Start \/ StopCall \/ DestroyCall \/ Disconnect \/ ReconnectCheck

TaskStep(t) == \/ TaskRun(t) \/ TaskState(t) \/ TaskClear(t) \/ TaskWhile(t)
               \/ TaskInit(t) \/ TaskConnect(t) \/ HandlerStopWait(t)
               \/ TaskServe(t) \/ TaskWait(t) \/ TaskSleep(t) \/ TaskUnlock(t)
               \/ TaskPoll(t) \/ TaskClose(t) \/ TaskStopped(t)

TaskLocks(t) == TaskLock(t) \/ TaskAbort(t)

Freed == app = "freed" /\ UNCHANGED lifecycleVars

LifecycleNext ==
    \/ /\ app # "freed"
       /\ \/ AppCall \/ AppStep
          \/ \E t \in Tasks : TaskStep(t) \/ TaskLocks(t) \/ HandlerStop(t)
    \/ Freed

LifecycleSafety == LifecycleInit /\ [][LifecycleNext]_lifecycleVars

(* Both threads are scheduled and get a lock they keep asking for.  The    *)
(* application need not call anything and a connection need not fail.      *)
LifecycleFairness ==
    /\ SF_lifecycleVars(AppStep)
    /\ \A t \in Tasks : WF_lifecycleVars(TaskStep(t)) /\ SF_lifecycleVars(TaskLocks(t))

LifecycleSpec == LifecycleSafety /\ LifecycleFairness

-----------------------------------------------------------------------------
(* Properties                                                              *)

(* The application waits for an event before it stops the client, starts   *)
(* it again only after that, and has a transport.                          *)
Careful == manner \cap {"starts_again", "stops_early", "transport_may_fail"} = {}

(* When esp_mqtt_client_stop has returned ESP_OK to a careful application, *)
(* the task is gone: its STOPPED_BIT was not that of an earlier task.      *)
StopFinishesTask == (Careful /\ result = "stopped" /\ app = "idle") => \A t \in Tasks : ~Live(t)

(* esp_mqtt_client_destroy, called by a careful application, frees the     *)
(* client, its lock and its bits only when no task will use them again.    *)
TaskNeverOutlivesClient == (Careful /\ app = "freed") => \A t \in Tasks : ~Live(t)

(* The tasks in their loop, which test run before they end.                *)
Looping(t) == task[t] \notin {"none", "created", "close", "stopped"}

(* client->run never claims a client that no task runs, however it is      *)
(* started and stopped, so that a stop that waits has a task to wait for.  *)
RunMeansTask == run => \E t \in Tasks : Looping(t)

(* A stop and a destroy of a careful application return: the task is not   *)
(* waiting for the lock, the application or itself.                        *)
StopReturns == (Careful /\ app \in {"stop", "stop_wait", "destroy_stop", "destroy_wait"})
                   ~> app \in {"idle", "freed"}

(* A disconnection that a careful application requests of a connected      *)
(* client takes place, and a reconnection requested of a waiting one that  *)
(* does not reconnect by itself.                                           *)
RequestsHonoured ==
    /\ (Careful /\ "DISCONNECT" \in bits /\ state = "CONNECTED") ~> state # "CONNECTED"
    /\ (Careful /\ "auto_reconnect" \notin manner /\ "RECONNECT" \in bits /\ state = "WAIT_RECONNECT")
           ~> state # "WAIT_RECONNECT"
=============================================================================
