------------------------ MODULE ClientControl_proofs ------------------------
(***************************************************************************)
(* What the application steers the client by, for arbitrary constants: its *)
(* life (ClientLifecycle), the MQTT 5 properties of its messages, the      *)
(* broker's limits and aliases (Mqtt5Properties), the lists of user        *)
(* properties (UserProperty) and the configuration (ClientConfig).         *)
(***************************************************************************)
EXTENDS ClientLifecycle, ClientConfig, Mqtt5Properties, UserProperty, SequenceTheorems, TLAPS

-----------------------------------------------------------------------------
(* ClientLifecycle.  First what holds however the application behaves:     *)
(* client->run is never set without a task to clear it.  Then what a       *)
(* careful application may rely on: stop and destroy return only when the  *)
(* task is gone.  The argument follows STOPPED_BIT: a task past its first  *)
(* steps has cleared the bit, an event comes only from such a task, and    *)
(* only the task's end sets the bit.                                       *)

Starting == {"created", "set_state", "clear"}
Stopping == {"stop", "stop_wait", "destroy_stop", "destroy_wait"}

HasTasks == DOMAIN task = Tasks
StateOK == state \in {"INIT", "CONNECTED", "WAIT_RECONNECT", "DISCONNECTED"}
RunInv == HasTasks /\ StateOK /\ RunMeansTask
(* Only the task of the last start can be alive.                           *)
OnlyHandle == \A t \in Tasks : t # task_handle => task[t] = "none"
(* Before a start, after a stop and after a destroy no task is alive.      *)
QuietBetween == (result \in {"none", "stopped"} \/ app \in {"free", "freed"})
                    => \A t \in Tasks : task[t] = "none"
(* A task past its first steps has cleared the bit it will set.            *)
BitCleared == \A t \in Tasks : task[t] \notin Starting \cup {"none"} => "STOPPED" \notin bits
EventAfterClear == event => \A t \in Tasks : task[t] \notin Starting
StopsStarted == app \in Stopping => event /\ result = "started"
StartedRuns == (result = "started" /\ app \in {"idle", "reconnect", "stop", "destroy_stop"})
                   => run \/ \E t \in Tasks : task[t] = "created"

CarefulInv == /\ RunInv /\ OnlyHandle /\ QuietBetween /\ BitCleared
              /\ EventAfterClear /\ StopsStarted /\ StartedRuns

-----------------------------------------------------------------------------
LEMMA TaskMoves ==
    ASSUME HasTasks, NEW t \in Tasks, NEW p, Goto(t, p)
    PROVE  /\ HasTasks'
           /\ task'[t] = p
           /\ \A u \in Tasks : u # t => task'[u] = task[u]
BY DEF HasTasks, Goto

(* client->run, however the application behaves.                           *)
LEMMA RunInvInit == LifecycleInit => RunInv
BY DEF LifecycleInit, RunInv, HasTasks, StateOK, RunMeansTask

(* The actions that a task takes, one disjunct each.                       *)
LEMMA StateTask ==
    ASSUME StateOK, NEW t \in Tasks, TaskStep(t) \/ TaskLocks(t) \/ HandlerStop(t)
    PROVE  StateOK'
BY DEF StateOK, TaskStep, TaskLocks, HandlerStop, TaskRun, TaskState, TaskClear, TaskWhile, TaskInit,
   TaskConnect, HandlerStopWait, TaskServe, TaskWait, TaskSleep, TaskUnlock, TaskPoll, TaskClose,
   TaskStopped, TaskLock, TaskAbort, Abort

(* A task that stays in its loop and leaves run alone.                     *)
LEMMA RunLoop ==
    ASSUME HasTasks, RunMeansTask, NEW t \in Tasks, NEW p, Goto(t, p), run' = run,
           Looping(t) => p \notin {"none", "created", "close", "stopped"}
    PROVE  HasTasks' /\ RunMeansTask'
BY TaskMoves DEF RunMeansTask, Looping

LEMMA RunTaskStep ==
    ASSUME HasTasks, StateOK, RunMeansTask, NEW t \in Tasks,
           TaskStep(t) \/ TaskLocks(t) \/ HandlerStop(t)
    PROVE  HasTasks' /\ RunMeansTask'
<1>1. CASE TaskRun(t)
  BY <1>1, TaskMoves DEF TaskRun, RunMeansTask, Looping
<1>2. CASE TaskState(t)
  BY <1>2, RunLoop DEF TaskState
<1>3. CASE TaskClear(t)
  BY <1>3, RunLoop DEF TaskClear
<1>4. CASE TaskWhile(t)
  <2>1. CASE run
    BY <1>4, <2>1, RunLoop DEF TaskWhile
  <2>2. CASE ~run
    BY <1>4, <2>2, TaskMoves DEF TaskWhile, RunMeansTask
  <2> QED
    BY <2>1, <2>2
<1>5. CASE TaskInit(t)
  <2>1. CASE run' = run /\ Goto(t, "connecting")
    BY <2>1, RunLoop
  <2>2. CASE run' = FALSE /\ Goto(t, "unlock")
    BY <2>2, TaskMoves DEF RunMeansTask
  <2> QED
    BY <1>5, <2>1, <2>2 DEF TaskInit
<1>6. CASE TaskConnect(t)
  BY <1>6, RunLoop DEF TaskConnect
<1>7. CASE HandlerStopWait(t)
  BY <1>7, RunLoop DEF HandlerStopWait
<1>8. CASE TaskServe(t)
  BY <1>8, RunLoop DEF TaskServe
<1>9. CASE TaskWait(t)
  <2>1. run' = run /\ (Goto(t, "unlock") \/ Goto(t, "sleep"))
    BY <1>9 DEF TaskWait
  <2> QED
    BY <2>1, RunLoop
<1>10. CASE TaskSleep(t)
  BY <1>10, RunLoop DEF TaskSleep
<1>11. CASE TaskUnlock(t)
  BY <1>11, RunLoop DEF TaskUnlock
<1>12. CASE TaskPoll(t)
  <2>1. run' = run /\ (Goto(t, "while") \/ Goto(t, "abort"))
    BY <1>12 DEF TaskPoll
  <2> QED
    BY <2>1, RunLoop
<1>13. CASE TaskClose(t)
  BY <1>13, RunLoop DEF TaskClose, Looping
<1>14. CASE TaskStopped(t)
  BY <1>14, RunLoop DEF TaskStopped, Looping
<1>15. CASE TaskLock(t)
  <2>1. run' = run /\ (Goto(t, "unlock") \/ Goto(t, "init") \/ Goto(t, "serve") \/ Goto(t, "wait"))
    BY <1>15 DEF TaskLock, StateOK
  <2> QED
    BY <2>1, RunLoop
<1>16. CASE TaskAbort(t)
  BY <1>16, RunLoop DEF TaskAbort
<1>17. CASE HandlerStop(t)
  BY <1>17, TaskMoves DEF HandlerStop, RunMeansTask
<1> QED
  BY <1>1, <1>2, <1>3, <1>4, <1>5, <1>6, <1>7, <1>8, <1>9, <1>10, <1>11, <1>12, <1>13,
     <1>14, <1>15, <1>16, <1>17 DEF TaskStep, TaskLocks

LEMMA RunAppStep ==
    ASSUME RunInv, AppCall \/ AppStep
    PROVE  RunInv'
<1>1. CASE Start
  <2>1. PICK t \in Tasks : task[t] = "none" /\ Goto(t, "created")
    BY <1>1 DEF Start, Live
  <2> QED
    BY <1>1, <2>1, RunLoop DEF Start, RunInv, StateOK, Looping
<1>2. CASE task' = task /\ run' = run /\ state' = state
  BY <1>2 DEF RunInv, HasTasks, StateOK, RunMeansTask, Looping
<1>3. CASE task' = task /\ run' = FALSE /\ state' = "DISCONNECTED"
  BY <1>3 DEF RunInv, HasTasks, StateOK, RunMeansTask, Looping
<1> QED
  BY <1>1, <1>2, <1>3 DEF AppCall, AppStep, StopCall, DestroyCall, Disconnect, ReconnectCheck,
     Stop, StopWait, DestroyStop, DestroyWait, Free, ReconnectSet, StopRunning, StopNotRunning

LEMMA RunInvNext == RunInv /\ [LifecycleNext]_lifecycleVars => RunInv'
<1> SUFFICES ASSUME RunInv, [LifecycleNext]_lifecycleVars PROVE RunInv'
  OBVIOUS
<1>1. CASE AppCall \/ AppStep
  BY <1>1, RunAppStep
<1>2. CASE \E t \in Tasks : TaskStep(t) \/ TaskLocks(t) \/ HandlerStop(t)
  BY <1>2, RunTaskStep, StateTask DEF RunInv
<1>3. CASE UNCHANGED lifecycleVars
  BY <1>3 DEF lifecycleVars, RunInv, HasTasks, StateOK, RunMeansTask, Looping
<1> QED
  BY <1>1, <1>2, <1>3 DEF LifecycleNext, Freed

(* However often and whenever the application starts, stops and destroys   *)
(* the client, and whatever fails: run is set only while a task is in the  *)
(* loop of esp_mqtt_task, which clears it or sees it cleared.              *)
THEOREM LifecycleRunMeansTask == LifecycleSpec => []RunMeansTask
<1>1. RunInv => RunMeansTask
  BY DEF RunInv
<1> QED
  BY <1>1, RunInvInit, RunInvNext, PTL DEF LifecycleSpec, LifecycleSafety

-----------------------------------------------------------------------------
(* The careful application.                                                *)
LEMMA CarefulInit == LifecycleInit => CarefulInv
<1> SUFFICES ASSUME LifecycleInit PROVE CarefulInv
  OBVIOUS
<1>1. \A t \in Tasks : task[t] = "none"
  BY DEF LifecycleInit
<1>2. RunInv
  BY RunInvInit
<1> QED
  BY <1>1, <1>2 DEF LifecycleInit, CarefulInv, OnlyHandle, QuietBetween, BitCleared, EventAfterClear,
     StopsStarted, StartedRuns, Stopping, Starting

(* A live task that moves on within its life and leaves the application    *)
(* and the bit alone.                                                      *)
LEMMA CarefulMove ==
    ASSUME CarefulInv, RunInv', NEW t \in Tasks, NEW p, Goto(t, p), task[t] # "none",
           p # "created",
           task[t] \notin Starting => p \notin Starting,
           p \notin Starting => task[t] \notin Starting \/ "STOPPED" \notin bits',
           "STOPPED" \in bits' => "STOPPED" \in bits,
           UNCHANGED <<task_handle, app, result>>,
           event' => event \/ task[t] \notin Starting,
           event => event',
           task[t] = "created" => run',
           run => run'
    PROVE  CarefulInv'
<1>1. /\ task'[t] = p
      /\ \A u \in Tasks : u # t => task'[u] = task[u]
  BY TaskMoves DEF CarefulInv, RunInv
<1>2. t = task_handle /\ \A u \in Tasks : u # t => task[u] = "none"
  BY DEF CarefulInv, OnlyHandle
<1>3. OnlyHandle'
  BY <1>1, <1>2 DEF OnlyHandle
<1>4. QuietBetween'
  BY DEF CarefulInv, QuietBetween
<1>5. BitCleared'
  BY <1>1, <1>2 DEF CarefulInv, BitCleared
<1>6. EventAfterClear'
  BY <1>1, <1>2 DEF CarefulInv, EventAfterClear, Starting
<1>7. StopsStarted'
  BY DEF CarefulInv, StopsStarted
<1>8. StartedRuns'
  BY <1>1, <1>2 DEF CarefulInv, StartedRuns
<1> QED
  BY <1>3, <1>4, <1>5, <1>6, <1>7, <1>8 DEF CarefulInv

LEMMA CarefulTask ==
    ASSUME Careful, CarefulInv, RunInv', NEW t \in Tasks,
           TaskStep(t) \/ TaskLocks(t) \/ HandlerStop(t)
    PROVE  CarefulInv'
<1>1. CASE TaskRun(t)
  BY <1>1, CarefulMove DEF TaskRun, Starting
<1>2. CASE TaskState(t)
  BY <1>2, CarefulMove DEF TaskState, Starting
<1>3. CASE TaskClear(t)
  BY <1>3, CarefulMove DEF TaskClear, Starting
<1>4. CASE TaskWhile(t)
  BY <1>4, CarefulMove DEF TaskWhile, Starting
<1>5. CASE TaskInit(t)
  BY <1>5, CarefulMove DEF TaskInit, Starting, Careful
<1>6. CASE TaskConnect(t)
  BY <1>6, CarefulMove DEF TaskConnect, Starting
<1>7. CASE HandlerStopWait(t)
  BY <1>7, CarefulMove DEF HandlerStopWait, Starting
<1>8. CASE TaskServe(t)
  BY <1>8, CarefulMove DEF TaskServe, Starting
<1>9. CASE TaskWait(t)
  <2>1. /\ Goto(t, "unlock") \/ Goto(t, "sleep")
        /\ "STOPPED" \in bits' => "STOPPED" \in bits
        /\ task[t] = "wait" /\ UNCHANGED <<run, task_handle, app, result, event>>
    BY <1>9 DEF TaskWait
  <2> QED
    BY <2>1, CarefulMove DEF Starting
<1>10. CASE TaskSleep(t)
  BY <1>10, CarefulMove DEF TaskSleep, Starting
<1>11. CASE TaskUnlock(t)
  BY <1>11, CarefulMove DEF TaskUnlock, Starting
<1>12. CASE TaskPoll(t)
  <2>1. /\ Goto(t, "while") \/ Goto(t, "abort")
        /\ task[t] = "poll" /\ UNCHANGED <<run, bits, task_handle, app, result, event>>
    BY <1>12 DEF TaskPoll
  <2> QED
    BY <2>1, CarefulMove DEF Starting
<1>13. CASE TaskClose(t)
  BY <1>13, CarefulMove DEF TaskClose, Starting
<1>14. CASE TaskStopped(t)
  <2>1. \A u \in Tasks : task'[u] = "none"
    BY <1>14, TaskMoves DEF TaskStopped, CarefulInv, RunInv, OnlyHandle
  <2>2. task[t] = "stopped" /\ UNCHANGED <<run, task_handle, app, result, event>>
    BY <1>14 DEF TaskStopped
  <2>3. StartedRuns'
    BY <2>1, <2>2 DEF CarefulInv, StartedRuns, OnlyHandle
  <2> QED
    BY <2>1, <2>2, <2>3 DEF CarefulInv, OnlyHandle, QuietBetween, BitCleared, EventAfterClear,
       StopsStarted, Starting
<1>15. CASE TaskLock(t)
  <2>1. /\ Goto(t, "unlock") \/ Goto(t, "init") \/ Goto(t, "serve") \/ Goto(t, "wait")
        /\ task[t] = "lock" /\ UNCHANGED <<run, bits, task_handle, app, result, event>>
    BY <1>15 DEF TaskLock, CarefulInv, RunInv, StateOK
  <2> QED
    BY <2>1, CarefulMove DEF Starting
<1>16. CASE TaskAbort(t)
  BY <1>16, CarefulMove DEF TaskAbort, Starting
<1>17. CASE HandlerStop(t)
  BY <1>17 DEF HandlerStop, CarefulInv, OnlyHandle
<1> QED
  BY <1>1, <1>2, <1>3, <1>4, <1>5, <1>6, <1>7, <1>8, <1>9, <1>10, <1>11, <1>12, <1>13,
     <1>14, <1>15, <1>16, <1>17 DEF TaskStep, TaskLocks

(* The bit that ends a wait is that of the task waited for, so nobody is   *)
(* left when the wait is over.                                             *)
LEMMA WaitEndsQuiet ==
    ASSUME CarefulInv, app \in Stopping, "STOPPED" \in bits
    PROVE  \A t \in Tasks : task[t] = "none"
BY DEF CarefulInv, BitCleared, StopsStarted, EventAfterClear

(* A client that may be stopped is running.                                *)
LEMMA StoppableRuns ==
    ASSUME CarefulInv, event, result = "started", app \in {"idle", "reconnect", "stop", "destroy_stop"}
    PROVE  run
BY DEF CarefulInv, StartedRuns, EventAfterClear, Starting

LEMMA CarefulApp ==
    ASSUME Careful, CarefulInv, RunInv', AppCall \/ AppStep
    PROVE  CarefulInv'
<1>1. CASE Start
  <2>1. PICK t \in Tasks : Goto(t, "created") /\ task_handle' = t
    BY <1>1 DEF Start
  <2>2. task'[t] = "created" /\ \A u \in Tasks : u # t => task'[u] = task[u]
    BY <2>1, TaskMoves DEF CarefulInv, RunInv
  <2>3. /\ app = "idle" /\ app' = "idle" /\ ~event' /\ result' = "started" /\ bits' = bits
        /\ \A u \in Tasks : task[u] = "none"
    BY <1>1 DEF Start, MayStart, Careful, CarefulInv, QuietBetween
  <2> QED
    BY <2>1, <2>2, <2>3 DEF CarefulInv, OnlyHandle, QuietBetween, BitCleared, EventAfterClear,
       StopsStarted, StartedRuns, Starting, Stopping
<1>2. CASE StopCall
  <2>1. /\ app = "idle" /\ event /\ result = "started" /\ app' = "stop"
        /\ UNCHANGED <<run, bits, task, task_handle, result, event>>
    BY <1>2 DEF StopCall, MayStop, Careful
  <2> QED
    BY <2>1 DEF CarefulInv, OnlyHandle, QuietBetween, BitCleared, EventAfterClear,
       StopsStarted, StartedRuns, Starting, Stopping
<1>3. CASE DestroyCall
  <2>1. /\ app = "idle" /\ UNCHANGED <<run, bits, task, task_handle, result, event>>
        /\ app' = IF run THEN "destroy_stop" ELSE "free"
        /\ (event /\ result = "started") \/ result \in {"none", "stopped"}
    BY <1>3 DEF DestroyCall, MayDestroy, MayStop, Careful
  <2>2. CASE run
    <3>1. event /\ result = "started"
      BY <2>1, <2>2 DEF CarefulInv, QuietBetween, RunInv, RunMeansTask, Looping
    <3> QED
      BY <2>1, <2>2, <3>1 DEF CarefulInv, OnlyHandle, QuietBetween, BitCleared, EventAfterClear,
         StopsStarted, StartedRuns, Starting, Stopping
  <2>3. CASE ~run
    <3>1. result \in {"none", "stopped"}
      BY <2>1, <2>3, StoppableRuns
    <3>2. \A t \in Tasks : task[t] = "none"
      BY <3>1 DEF CarefulInv, QuietBetween
    <3> QED
      BY <2>1, <2>3, <3>1, <3>2 DEF CarefulInv, OnlyHandle, QuietBetween, BitCleared, EventAfterClear,
         StopsStarted, StartedRuns, Starting, Stopping
  <2> QED
    BY <2>2, <2>3
<1>4. CASE Disconnect
  BY <1>4 DEF Disconnect, CarefulInv, OnlyHandle, QuietBetween, BitCleared, EventAfterClear,
     StopsStarted, StartedRuns, Starting, Stopping
<1>5. CASE ReconnectCheck
  BY <1>5 DEF ReconnectCheck, CarefulInv, OnlyHandle, QuietBetween, BitCleared, EventAfterClear,
     StopsStarted, StartedRuns, Starting, Stopping
<1>6. CASE ReconnectSet
  BY <1>6 DEF ReconnectSet, CarefulInv, OnlyHandle, QuietBetween, BitCleared, EventAfterClear,
     StopsStarted, StartedRuns, Starting, Stopping
<1>7. CASE Stop \/ DestroyStop
  <2>1. app \in {"stop", "destroy_stop"} /\ event /\ result = "started"
    BY <1>7 DEF Stop, DestroyStop, CarefulInv, StopsStarted, Stopping
  <2>2. run
    BY <2>1, StoppableRuns
  <2>3. app' \in {"stop_wait", "destroy_wait"} /\ UNCHANGED <<bits, task, task_handle, result, event>>
    BY <1>7, <2>2 DEF Stop, DestroyStop, StopRunning, StopNotRunning
  <2> QED
    BY <2>1, <2>3 DEF CarefulInv, OnlyHandle, QuietBetween, BitCleared, EventAfterClear,
       StopsStarted, StartedRuns, Starting, Stopping
<1>8. CASE StopWait \/ DestroyWait
  <2>1. \A t \in Tasks : task[t] = "none"
    BY <1>8, WaitEndsQuiet DEF StopWait, DestroyWait, Stopping
  <2>2. /\ UNCHANGED <<bits, task, task_handle, event>>
        /\ (app' = "idle" /\ result' = "stopped") \/ app' = "free"
    BY <1>8 DEF StopWait, DestroyWait
  <2> QED
    BY <2>1, <2>2 DEF CarefulInv, OnlyHandle, QuietBetween, BitCleared, EventAfterClear,
       StopsStarted, StartedRuns, Starting, Stopping
<1>9. CASE Free
  BY <1>9 DEF Free, CarefulInv, OnlyHandle, QuietBetween, BitCleared, EventAfterClear,
     StopsStarted, StartedRuns, Starting, Stopping
<1> QED
  BY <1>1, <1>2, <1>3, <1>4, <1>5, <1>6, <1>7, <1>8, <1>9 DEF AppCall, AppStep

LEMMA CarefulNext ==
    ASSUME Careful, CarefulInv, [LifecycleNext]_lifecycleVars
    PROVE  CarefulInv'
<1>1. RunInv'
  BY RunInvNext DEF CarefulInv
<1>2. CASE AppCall \/ AppStep
  BY <1>1, <1>2, CarefulApp
<1>3. CASE \E t \in Tasks : TaskStep(t) \/ TaskLocks(t) \/ HandlerStop(t)
  BY <1>1, <1>3, CarefulTask
<1>4. CASE UNCHANGED lifecycleVars
  BY <1>1, <1>4 DEF lifecycleVars, CarefulInv, OnlyHandle, QuietBetween, BitCleared,
     EventAfterClear, StopsStarted, StartedRuns
<1> QED
  BY <1>2, <1>3, <1>4 DEF LifecycleNext, Freed

(* Nobody becomes careful, or careless, on the way.                        *)
LEMMA MannerFixed == [LifecycleNext]_lifecycleVars => manner' = manner
<1> SUFFICES ASSUME [LifecycleNext]_lifecycleVars PROVE manner' = manner
  OBVIOUS
<1>1. CASE AppCall \/ AppStep
  BY <1>1 DEF AppCall, AppStep, Start, StopCall, DestroyCall, Disconnect, ReconnectCheck,
     Stop, StopWait, DestroyStop, DestroyWait, Free, ReconnectSet, StopRunning, StopNotRunning
<1>2. CASE \E t \in Tasks : TaskStep(t) \/ TaskLocks(t) \/ HandlerStop(t)
  BY <1>2 DEF TaskStep, TaskLocks, HandlerStop, TaskRun, TaskState, TaskClear, TaskWhile, TaskInit,
     TaskConnect, HandlerStopWait, TaskServe, TaskWait, TaskSleep, TaskUnlock, TaskPoll, TaskClose,
     TaskStopped, TaskLock, TaskAbort
<1>3. CASE UNCHANGED lifecycleVars
  BY <1>3 DEF lifecycleVars
<1> QED
  BY <1>1, <1>2, <1>3 DEF LifecycleNext, Freed

LEMMA CarefulAlways == LifecycleSpec => [](Careful => CarefulInv)
<1>1. LifecycleInit => (Careful => CarefulInv)
  BY CarefulInit
<1>2. (Careful => CarefulInv) /\ [LifecycleNext]_lifecycleVars => (Careful => CarefulInv)'
  <2> SUFFICES ASSUME Careful => CarefulInv, [LifecycleNext]_lifecycleVars, Careful'
               PROVE  CarefulInv'
    OBVIOUS
  <2>1. Careful
    BY MannerFixed DEF Careful
  <2> QED
    BY <2>1, CarefulNext
<1> QED
  BY <1>1, <1>2, PTL DEF LifecycleSpec, LifecycleSafety

(* For a careful application, any number of tasks and any order of starts, *)
(* losses and requests: when esp_mqtt_client_stop has returned ESP_OK, the *)
(* task is gone.                                                           *)
THEOREM CarefulStopFinishesTask == LifecycleSpec => []StopFinishesTask
<1>1. (Careful => CarefulInv) => StopFinishesTask
  BY DEF CarefulInv, QuietBetween, StopFinishesTask, Live
<1> QED
  BY <1>1, CarefulAlways, PTL

(* And esp_mqtt_client_destroy frees the client only when no task is left  *)
(* to use it.                                                              *)
THEOREM CarefulTaskNeverOutlivesClient == LifecycleSpec => []TaskNeverOutlivesClient
<1>1. (Careful => CarefulInv) => TaskNeverOutlivesClient
  BY DEF CarefulInv, QuietBetween, TaskNeverOutlivesClient, Live
<1> QED
  BY <1>1, CarefulAlways, PTL

-----------------------------------------------------------------------------
(* Mqtt5Properties: the properties of a message                            *)

(* What the client holds was set since the last message of the kind; and   *)
(* it is what a task set whose last call no other's has followed.          *)
Held == UNION {Properties[op] : op \in Ops}
WishInv == /\ info \in [Ops -> SUBSET Held] /\ unused \in [Ops -> SUBSET Held]
           /\ wish \in [Callers -> [Ops -> SUBSET Held]]
           /\ latest \in [Ops -> SUBSET Callers]
           /\ \A op \in Ops : info[op] \subseteq unused[op]
           /\ \A op \in Ops : \A t \in latest[op] : info[op] = wish[t][op]
           /\ PropertiesOfMessage

(* A step of any action keeps WishInv.                                     *)
LEMMA WishStep ==
    ASSUME WishInv, [P5Next]_p5Vars
    PROVE  WishInv'
<1> USE P5Assumption DEF WishInv, PropertiesOfMessage
<1>1. ASSUME NEW stated \in Announcements, Connect(stated)
      PROVE  WishInv'
  BY <1>1 DEF Connect, Nothing
<1>2. CASE Break
  BY <1>2 DEF Break, Nothing
<1>3. ASSUME NEW max \in AliasMaxima, set_connect_property(max)
      PROVE  WishInv'
  BY <1>3 DEF set_connect_property, Nothing
<1>4. ASSUME NEW t \in Callers, NEW op \in Ops, NEW p \in Properties[op], set_property(t, op, p)
      PROVE  WishInv'
  <2> HIDE P5Assumption DEF WishInv, PropertiesOfMessage
  <2>1. /\ info \in [Ops -> SUBSET Held] /\ unused \in [Ops -> SUBSET Held]
        /\ wish \in [Callers -> [Ops -> SUBSET Held]] /\ latest \in [Ops -> SUBSET Callers]
        /\ \A o \in Ops : info[o] \subseteq unused[o]
        /\ \A o \in Ops : \A u \in latest[o] : info[o] = wish[u][o]
    BY DEF WishInv
  <2>2. p \in Held
    BY Zenon DEF Held
  <2>3. PICK held : held = Replaced(op, info[op], p)
    OBVIOUS
  <2>4. PICK wished : wished = Replaced(op, wish[t][op], p)
    OBVIOUS
  <2>5. /\ held \subseteq Held /\ wished \subseteq Held /\ held \subseteq unused[op] \cup {p}
        /\ op # "disconnect" => held = wished
        /\ info[op] = wish[t][op] => held = wished
    <3>1. info[op] \subseteq Held /\ wish[t][op] \subseteq Held /\ info[op] \subseteq unused[op]
      BY <2>1
    <3>2. CASE op = "disconnect"
      <4>1. /\ held = {q \in info[op] : q.field # p.field} \cup {p}
            /\ wished = {q \in wish[t][op] : q.field # p.field} \cup {p}
        BY <2>3, <2>4, <3>2 DEF Replaced
      <4> QED BY <2>2, <3>1, <3>2, <4>1
    <3>3. CASE op # "disconnect"
      <4>1. held = {p} /\ wished = {p}
        BY <2>3, <2>4, <3>3 DEF Replaced
      <4> QED BY <2>2, <4>1
    <3> QED BY <3>2, <3>3
  <2>6. PICK after \in SUBSET Callers :
            /\ latest' = [latest EXCEPT ![op] = after]
            /\ after = IF op = "disconnect" THEN latest[op] \cap {t} ELSE {t}
    BY <1>4, <2>1 DEF set_property
  <2>7. /\ info' = [info EXCEPT ![op] = held] /\ wish' = [wish EXCEPT ![t][op] = wished]
        /\ unused' = [unused EXCEPT ![op] = unused[op] \cup {p}] /\ last' = Nothing
    BY <1>4, <2>3, <2>4 DEF set_property
  <2>8. /\ info' \in [Ops -> SUBSET Held] /\ unused' \in [Ops -> SUBSET Held]
        /\ wish' \in [Callers -> [Ops -> SUBSET Held]] /\ latest' \in [Ops -> SUBSET Callers]
        /\ \A o \in Ops : info'[o] \subseteq unused'[o]
    BY <2>1, <2>2, <2>5, <2>6, <2>7
  <2>9. ASSUME NEW o \in Ops, NEW u \in latest'[o] PROVE info'[o] = wish'[u][o]
    <3>1. CASE o = op
      <4>1. u = t /\ held = wished
        BY <2>1, <2>5, <2>6, <2>9, <3>1
      <4> QED BY <2>1, <2>7, <3>1, <4>1
    <3>2. CASE o # op
      <4>1. u \in latest[o] /\ u \in Callers
        BY <2>1, <2>6, <2>9, <3>2
      <4> QED BY <2>1, <2>7, <3>2, <4>1
    <3> QED BY <3>1, <3>2
  <2>10. PropertiesOfMessage'
    BY <2>7, P5Assumption DEF PropertiesOfMessage, Nothing
  <2> QED
    BY <2>8, <2>9, <2>10 DEF WishInv
<1>5. ASSUME NEW t \in Callers, NEW op \in Ops, NEW m \in Messages, Make(t, op, m)
      PROVE  WishInv'
  <2>1. /\ info' = [info EXCEPT ![op] = {}] /\ unused' = [unused EXCEPT ![op] = {}]
        /\ wish' = [wish EXCEPT ![t][op] = {}] /\ latest' = [latest EXCEPT ![op] = {t}]
        /\ last' = [what |-> op, property |-> info[op], message |-> m, wished |-> wish[t][op],
                    unused |-> unused[op], undisturbed |-> t \in latest[op]]
    BY <1>5 DEF Make, Used
  <2>2. /\ info' \in [Ops -> SUBSET Held] /\ unused' \in [Ops -> SUBSET Held]
        /\ wish' \in [Callers -> [Ops -> SUBSET Held]] /\ latest' \in [Ops -> SUBSET Callers]
        /\ \A o \in Ops : info'[o] \subseteq unused'[o]
    BY <2>1
  <2>3. ASSUME NEW o \in Ops, NEW u \in latest'[o] PROVE info'[o] = wish'[u][o]
    <3>1. CASE o = op
      BY <2>1, <2>3, <3>1
    <3>2. CASE o # op
      BY <2>1, <2>3, <3>2
    <3> QED BY <3>1, <3>2
  <2>4. PropertiesOfMessage'
    BY <2>1
  <2> QED
    BY <2>2, <2>3, <2>4
<1>6. ASSUME NEW t \in Callers, NEW op \in Ops, NEW m \in Messages, MakeFails(t, op, m)
      PROVE  WishInv'
  <2>1. /\ info' = info /\ unused' = unused
        /\ wish' = [wish EXCEPT ![t][op] = {}] /\ latest' = [latest EXCEPT ![op] = {}]
        /\ last'.what \in {"too long", "refused"}
    BY <1>6 DEF MakeFails
  <2>2. ASSUME NEW o \in Ops, NEW u \in latest'[o] PROVE info'[o] = wish'[u][o]
    BY <2>1, <2>2
  <2> QED
    BY <2>1, <2>2
<1>7. ASSUME NEW topic \in Topics, NEW alias \in 0 .. alias_told, NEW short \in BOOLEAN,
             BrokerPublish(topic, alias, short)
      PROVE  WishInv'
  BY <1>7 DEF BrokerPublish, get_publish_data
<1>8. CASE UNCHANGED p5Vars
  BY <1>8 DEF p5Vars
<1> QED
  BY <1>1, <1>2, <1>3, <1>4, <1>5, <1>6, <1>7, <1>8 DEF P5Next

(* publish_property_info and its like are set by one call, used and        *)
(* cleared by another: for any number of tasks, any properties, messages,  *)
(* refusals and connections, each is carried by one message at most, and   *)
(* by the one its task meant unless another call came between.             *)
THEOREM CallerPropertiesOfMessage == P5Spec => []PropertiesOfMessage
<1>1. P5Init => WishInv
  BY P5Assumption DEF P5Init, WishInv, PropertiesOfMessage, Nothing, Held
<1>2. WishInv /\ [P5Next]_p5Vars => WishInv'
  BY WishStep
<1>3. WishInv => PropertiesOfMessage
  BY DEF WishInv
<1> QED
  BY <1>1, <1>2, <1>3, PTL DEF P5Spec

-----------------------------------------------------------------------------
(* Mqtt5Properties: the limits of the broker                               *)

(* A limit that an earlier connection left in the client is at least as    *)
(* strict as that of the present one: CONNACK only replaces what it        *)
(* states, and what it does not state is no limit.                         *)
LimitsInv == /\ DOMAIN server = DOMAIN Defaults /\ DOMAIN announced = DOMAIN Defaults
             /\ server.max_qos \in 0 .. 2 /\ announced.max_qos \in 0 .. 2
             /\ server.max_qos <= announced.max_qos
             /\ server.retain_available \in BOOLEAN /\ announced.retain_available \in BOOLEAN
             /\ server.retain_available => announced.retain_available
             /\ WithinServerLimits

(* A step of any action keeps LimitsInv.                                   *)
LEMMA LimitsStep ==
    ASSUME LimitsInv, [P5Next]_p5Vars
    PROVE  LimitsInv'
<1> USE DEF LimitsInv, WithinServerLimits
<1>1. ASSUME NEW stated \in Announcements, Connect(stated)
      PROVE  LimitsInv'
  <2>1. /\ server' = Stating(stated, server) /\ announced' = Stating(stated, Defaults)
        /\ last' = Nothing
    BY <1>1 DEF Connect, parse_connack
  <2>2. /\ DOMAIN Defaults = {"topic_alias_maximum", "max_qos", "retain_available",
                              "shared_subscribe_available"}
        /\ Defaults.max_qos = 2 /\ Defaults.retain_available = TRUE
    BY DEF Defaults
  <2>3. DOMAIN server' = DOMAIN Defaults /\ DOMAIN announced' = DOMAIN Defaults
    BY <2>1 DEF Stating
  <2>4. /\ server'.max_qos \in 0 .. 2 /\ announced'.max_qos \in 0 .. 2
        /\ server'.max_qos <= announced'.max_qos
    BY <2>1, <2>2, P5Assumption DEF Stating
  <2>5. /\ server'.retain_available \in BOOLEAN /\ announced'.retain_available \in BOOLEAN
        /\ server'.retain_available => announced'.retain_available
    BY <2>1, <2>2, P5Assumption DEF Stating
  <2> QED
    BY <2>1, <2>3, <2>4, <2>5 DEF Nothing
<1>2. CASE Break
  BY <1>2 DEF Break, Nothing
<1>3. ASSUME NEW max \in AliasMaxima, set_connect_property(max)
      PROVE  LimitsInv'
  BY <1>3 DEF set_connect_property, Nothing
<1>4. ASSUME NEW t \in Callers, NEW op \in Ops, NEW p \in Properties[op], set_property(t, op, p)
      PROVE  LimitsInv'
  BY <1>4 DEF set_property, Nothing
<1>5. ASSUME NEW t \in Callers, NEW op \in Ops, NEW m \in Messages, Make(t, op, m)
      PROVE  LimitsInv'
  <2>1. /\ UNCHANGED <<server, announced, up>> /\ last'.what = op /\ last'.message = m
        /\ op = "publish" => m.qos <= server.max_qos /\ (m.retain => server.retain_available)
    BY <1>5 DEF Make, check
  <2>2. m.qos \in 0 .. 2
    BY P5Assumption
  <2> QED
    BY <2>1, <2>2
<1>6. ASSUME NEW t \in Callers, NEW op \in Ops, NEW m \in Messages, MakeFails(t, op, m)
      PROVE  LimitsInv'
  BY <1>6 DEF MakeFails
<1>7. ASSUME NEW topic \in Topics, NEW alias \in 0 .. alias_told, NEW short \in BOOLEAN,
             BrokerPublish(topic, alias, short)
      PROVE  LimitsInv'
  BY <1>7 DEF BrokerPublish, get_publish_data
<1>8. CASE UNCHANGED p5Vars
  BY <1>8 DEF p5Vars
<1> QED
  BY <1>1, <1>2, <1>3, <1>4, <1>5, <1>6, <1>7, <1>8 DEF P5Next

(* esp_mqtt5_client_publish_check reads limits that no connection resets;  *)
(* still no message exceeds what the broker of this connection allows.     *)
THEOREM PublishWithinServerLimits == P5Spec => []WithinServerLimits
<1>1. P5Init => LimitsInv
  BY DEF P5Init, LimitsInv, WithinServerLimits, Nothing, Defaults
<1>2. LimitsInv /\ [P5Next]_p5Vars => LimitsInv'
  BY LimitsStep
<1>3. LimitsInv => WithinServerLimits
  BY DEF LimitsInv
<1> QED
  BY <1>1, <1>2, <1>3, PTL DEF P5Spec

-----------------------------------------------------------------------------
(* Mqtt5Properties: the broker's topic aliases                             *)

(* The client's table, which no connection clears, agrees with the         *)
(* broker's wherever the broker's has an entry, and the broker was told no *)
(* more than the client allows.                                            *)
AliasInv == /\ alias_max \in Nat /\ alias_told \in Nat /\ alias_told <= alias_max
            /\ alias_max = 0 \/ alias_max \in AliasMaxima
            /\ \A a \in DOMAIN broker_alias : /\ a \in DOMAIN peer_topic_alias
                                              /\ peer_topic_alias[a] = broker_alias[a]
            /\ EventTopicRight

(* A step of any action keeps AliasInv.                                    *)
LEMMA AliasStep ==
    ASSUME OneMaximum, AliasInv, [P5Next]_p5Vars
    PROVE  AliasInv'
<1> USE DEF AliasInv, EventTopicRight
<1>1. ASSUME NEW stated \in Announcements, Connect(stated)
      PROVE  AliasInv'
  BY <1>1 DEF Connect, Nothing, NoAliases
<1>2. CASE Break
  BY <1>2 DEF Break, Nothing
<1>3. ASSUME NEW max \in AliasMaxima, set_connect_property(max)
      PROVE  AliasInv'
  BY <1>3, P5Assumption DEF set_connect_property, Nothing, OneMaximum
<1>4. ASSUME NEW t \in Callers, NEW op \in Ops, NEW p \in Properties[op], set_property(t, op, p)
      PROVE  AliasInv'
  BY <1>4 DEF set_property, Nothing
<1>5. ASSUME NEW t \in Callers, NEW op \in Ops, NEW m \in Messages, Make(t, op, m)
      PROVE  AliasInv'
  <2>1. last'.what # "event"
    BY <1>5, P5Assumption DEF Make
  <2> QED
    BY <1>5, <2>1 DEF Make
<1>6. ASSUME NEW t \in Callers, NEW op \in Ops, NEW m \in Messages, MakeFails(t, op, m)
      PROVE  AliasInv'
  BY <1>6 DEF MakeFails
<1>7. ASSUME NEW topic \in Topics, NEW alias \in 0 .. alias_told, NEW short \in BOOLEAN,
             BrokerPublish(topic, alias, short)
      PROVE  AliasInv'
  <2>1. /\ alias <= alias_max
        /\ short => alias \in DOMAIN peer_topic_alias /\ peer_topic_alias[alias] = topic
    BY <1>7 DEF BrokerPublish
  <2>2. last'.topic = last'.meant
    BY <1>7, <2>1 DEF BrokerPublish, get_publish_data
  <2>3. peer_topic_alias' = IF alias > 0 /\ ~short THEN WithAlias(peer_topic_alias, alias, topic)
                            ELSE peer_topic_alias
    BY <1>7, <2>1 DEF BrokerPublish, get_publish_data, update_topic_alias
  <2>4. broker_alias' = IF alias > 0 THEN WithAlias(broker_alias, alias, topic) ELSE broker_alias
    BY <1>7 DEF BrokerPublish
  <2>5. ASSUME NEW a \in DOMAIN broker_alias'
        PROVE  a \in DOMAIN peer_topic_alias' /\ peer_topic_alias'[a] = broker_alias'[a]
    <3>1. CASE alias > 0 /\ short
      BY <2>1, <2>3, <2>4, <2>5, <3>1 DEF WithAlias
    <3>2. CASE alias > 0 /\ ~short
      BY <2>3, <2>4, <2>5, <3>2 DEF WithAlias
    <3>3. CASE ~(alias > 0)
      BY <2>3, <2>4, <2>5, <3>3
    <3> QED
      BY <3>1, <3>2, <3>3
  <2> QED
    BY <1>7, <2>2, <2>5 DEF BrokerPublish
<1>8. CASE UNCHANGED p5Vars
  BY <1>8 DEF p5Vars
<1> QED
  BY <1>1, <1>2, <1>3, <1>4, <1>5, <1>6, <1>7, <1>8 DEF P5Next

(* esp_mqtt5_client_update_topic_alias keeps up with the broker: the event *)
(* of a message names its topic, through any aliases and connections.      *)
THEOREM AliasEventTopicRight == OneMaximum => (P5Spec => []EventTopicRight)
<1> SUFFICES ASSUME OneMaximum PROVE P5Spec => []EventTopicRight
  OBVIOUS
<1>1. P5Init => AliasInv
  BY DEF P5Init, AliasInv, EventTopicRight, Nothing, NoAliases
<1>2. AliasInv /\ [P5Next]_p5Vars => AliasInv'
  BY AliasStep
<1>3. AliasInv => EventTopicRight
  BY DEF AliasInv
<1> QED
  BY <1>1, <1>2, <1>3, PTL DEF P5Spec

-----------------------------------------------------------------------------
(* UserProperty                                                            *)

(* The types, and what part may hold at each point of a call.              *)
Lines == Seq(STRING)
CallOK == /\ call \in [op : {"none", "set", "copy", "read", "get"}, todo : Lines]
          /\ call.op = "none" => call = NoCall /\ part = 0
          /\ Making => part \in 0 .. 3
          /\ (Making /\ part # 0) => /\ list # <<>> /\ call.todo # <<>>
                                        /\ Head(call.todo) # "null"
          /\ call.op = "get" => part \in 0 .. 2
          /\ (call.op = "get" /\ part # 0) => call.todo # <<>>
ListOK == /\ list = <<>> \/ \E l \in Lines : list = <<l>>
          /\ \A i \in 1 .. Len(ItemsOf(list)) : ItemsOf(list)[i] # "null"
          /\ array \in Lines /\ want \in Lines

(* Blocks of the item, or of the copy of one, that is being made.          *)
PartItems == IF Making /\ part # 0 THEN 1 ELSE 0
PartTexts == IF PartItems = 1 THEN part - 1 ELSE part

(* Every block belongs to the list, to the array or to the item in hand.   *)
HeapInv == heap = [list |-> Len(list), item |-> Len(ItemsOf(list)) + PartItems,
                   text |-> 2 * Len(ItemsOf(list)) + 2 * Len(array) + PartTexts]

(* What remains to be done is the end of what was given, and the list is   *)
(* all that is complete before it.                                         *)
Before == Len(want) - Len(call.todo)
TodoInv == Making => /\ Len(call.todo) <= Len(want)
                     /\ \A i \in 1 .. Len(call.todo) : call.todo[i] = want[Before + i]
                     /\ Picks(ItemsOf(list), want, Before)
WholeInv == ~Making /\ list # <<>> => Picks(ItemsOf(list), want, Len(want))

UpInv == CallOK /\ ListOK /\ HeapInv /\ TodoInv /\ WholeInv

-----------------------------------------------------------------------------
(* Of no items nothing is picked.                                          *)
LEMMA PicksNothing ==
    ASSUME NEW t \in Lines
    PROVE  Picks(<<>>, t, 0)
<1>1. Given(t, 0) = {} /\ Len(<<>>) = 0
  BY DEF Given
<1>2. [i \in 1 .. Len(<<>>) |-> i] \in [1 .. Len(<<>>) -> Given(t, 0)]
  BY <1>1
<1> QED
  BY <1>1, <1>2 DEF Picks

(* A list without incomplete items is its own pick, whatever follows it.   *)
LEMMA PicksSelf ==
    ASSUME NEW s \in Lines, NEW t \in Lines, \A i \in 1 .. Len(s) : s[i] # "null"
    PROVE  Picks(s, s \o t, Len(s))
<1> DEFINE place == [i \in 1 .. Len(s) |-> i]
<1>1. \A i \in 1 .. Len(s) : (s \o t)[i] = s[i]
  BY DEF Lines
<1>2. Given(s \o t, Len(s)) = 1 .. Len(s)
  BY <1>1 DEF Given
<1>3. place \in [1 .. Len(s) -> Given(s \o t, Len(s))]
  BY <1>2
<1>4. /\ \A i, j \in 1 .. Len(s) : i < j => place[i] < place[j]
      /\ \A k \in Given(s \o t, Len(s)) : \E i \in 1 .. Len(s) : place[i] = k
      /\ \A i \in 1 .. Len(s) : s[i] = (s \o t)[place[i]]
  BY <1>1, <1>2
<1> QED
  BY <1>3, <1>4 DEF Picks

(* The next item is picked when it is complete.                            *)
LEMMA PicksNext ==
    ASSUME NEW s \in Lines, NEW t \in Lines, NEW n \in Nat,
           n < Len(t), Picks(s, t, n), t[n + 1] # "null"
    PROVE  Picks(Append(s, t[n + 1]), t, n + 1)
<1> DEFINE u == Append(s, t[n + 1])
<1>1. PICK place \in [1 .. Len(s) -> Given(t, n)] :
          /\ \A i, j \in 1 .. Len(s) : i < j => place[i] < place[j]
          /\ \A k \in Given(t, n) : \E i \in 1 .. Len(s) : place[i] = k
          /\ \A i \in 1 .. Len(s) : s[i] = t[place[i]]
  BY DEF Picks
<1> DEFINE next == [i \in 1 .. Len(u) |-> IF i = Len(s) + 1 THEN n + 1 ELSE place[i]]
<1>2. /\ Len(s) \in Nat /\ Len(u) = Len(s) + 1 /\ u[Len(s) + 1] = t[n + 1]
      /\ \A i \in 1 .. Len(s) : u[i] = s[i]
  <2>1. t[n + 1] \in STRING
    BY DEF Lines
  <2> QED
    BY <2>1 DEF Lines
<1>3. /\ Given(t, n + 1) = Given(t, n) \cup {n + 1}
      /\ \A k \in Given(t, n) : k \in Nat /\ k < n + 1
  BY DEF Given
<1> HIDE DEF u
<1>4. next \in [1 .. Len(u) -> Given(t, n + 1)]
  BY <1>2, <1>3
<1>5. \A i, j \in 1 .. Len(u) : i < j => next[i] < next[j]
  <2> TAKE i, j \in 1 .. Len(u)
  <2> HAVE i < j
  <2>1. i \in 1 .. Len(s) /\ next[i] = place[i]
    BY <1>2
  <2>2. CASE j = Len(s) + 1
    BY <1>2, <1>3, <2>1, <2>2
  <2>3. CASE j # Len(s) + 1
    <3>1. j \in 1 .. Len(s) /\ next[j] = place[j]
      BY <1>2, <2>3
    <3>2. place[i] < place[j]
      BY <1>1, <2>1, <3>1
    <3> QED
      BY <2>1, <3>1, <3>2
  <2> QED
    BY <2>2, <2>3
<1>6. \A k \in Given(t, n + 1) : \E i \in 1 .. Len(u) : next[i] = k
  <2> TAKE k \in Given(t, n + 1)
  <2>1. CASE k = n + 1
    BY <1>2, <2>1
  <2>2. CASE k # n + 1
    <3>1. PICK i \in 1 .. Len(s) : place[i] = k
      BY <1>1, <1>3, <2>2
    <3> QED
      BY <1>2, <3>1
  <2> QED
    BY <2>1, <2>2
<1>7. \A i \in 1 .. Len(u) : u[i] = t[next[i]]
  BY <1>1, <1>2
<1>8. Picks(u, t, n + 1)
  BY <1>4, <1>5, <1>6, <1>7 DEF Picks
<1> QED
  BY <1>8 DEF u

(* An incomplete item is not.                                              *)
LEMMA PicksSkip ==
    ASSUME NEW s \in Lines, NEW t \in Lines, NEW n \in Nat,
           n < Len(t), Picks(s, t, n), t[n + 1] = "null"
    PROVE  Picks(s, t, n + 1)
<1>1. Given(t, n + 1) = Given(t, n)
  BY DEF Given
<1> QED
  BY <1>1 DEF Picks

(* The list as its items.                                                  *)
LEMMA ListFacts ==
    ASSUME ListOK
    PROVE  /\ ItemsOf(list) \in Lines /\ Len(ItemsOf(list)) \in Nat
           /\ list = <<>> => ItemsOf(list) = <<>> /\ Len(list) = 0 /\ Len(ItemsOf(list)) = 0
           /\ list # <<>> => list = <<ItemsOf(list)>> /\ Len(list) = 1
           /\ \A l \in Lines : ItemsOf(<<l>>) = l /\ Len(<<l>>) = 1 /\ <<l>> # <<>>
           /\ ItemsOf(<<>>) = <<>>
<1>1. <<>> \in Lines /\ Len(<<>>) = 0
  BY DEF Lines
<1>2. \A l \in Lines : <<l>> # <<>> /\ <<l>>[1] = l /\ Len(<<l>>) = 1 /\ Len(l) \in Nat
  BY DEF Lines
<1> QED
  BY <1>1, <1>2 DEF ListOK, ItemsOf

(* esp_mqtt5_client_delete_user_property frees what the list takes.        *)
LEMMA DeletedFacts ==
    ASSUME ListOK, NEW x \in Nat
    PROVE  Deleted([list |-> Len(list), item |-> Len(ItemsOf(list)),
                    text |-> 2 * Len(ItemsOf(list)) + x], list)
             = [list |-> 0, item |-> 0, text |-> x]
<1> DEFINE n == Len(ItemsOf(list))
           h == [list |-> Len(list), item |-> n, text |-> 2 * n + x]
           g == [list |-> IF list = <<>> THEN h.list ELSE h.list - 1, item |-> h.item - n,
                 text |-> h.text - 2 * n]
<1>1. n \in Nat /\ (list = <<>> => Len(list) = 0) /\ (list # <<>> => Len(list) = 1)
  BY ListFacts
<1>2. Deleted(h, list) = g
  <2>1. Deleted(h, list) = [h EXCEPT !.list = IF list = <<>> THEN h.list ELSE h.list - 1,
                                     !.item = h.item - n, !.text = h.text - 2 * n]
    BY Zenon DEF Deleted
  <2> HIDE DEF n
  <2> QED
    BY <1>1, <2>1
<1>3. (IF list = <<>> THEN h.list ELSE h.list - 1) = 0 /\ h.item - n = 0 /\ h.text - 2 * n = x
  <2> HIDE DEF n
  <2> QED
    BY <1>1
<1>4. g = [list |-> 0, item |-> 0, text |-> x]
  BY <1>3
<1> QED
  BY <1>2, <1>4

-----------------------------------------------------------------------------
(* The beginning of esp_mqtt5_client_set_user_property, of the copy and of *)
(* the reading of a list.                                                  *)
LEMMA UpBegin ==
    ASSUME UpInv, NEW op \in Calls, NEW items \in Arrays, Begin(op, items)
    PROVE  UpInv'
<1> USE DEF UpInv
<1>1. /\ op \in {"set", "copy", "read"} /\ items \in Lines
      /\ call = NoCall /\ call' = [op |-> op, todo |-> items] /\ part' = 0 /\ array' = array
  BY UpAssumption DEF Begin, Lines
<1>2. ~Making /\ part = 0 /\ Making'
  BY <1>1 DEF Making, NoCall, CallOK
<1>3. CallOK'
  BY <1>1, <1>2 DEF CallOK, Making
<1>4. PartItems = 0 /\ PartTexts = 0 /\ PartItems' = 0 /\ PartTexts' = 0
  BY <1>1, <1>2 DEF PartItems, PartTexts
<1>5. CASE op = "set"
  <2>1. list' = list /\ heap' = heap /\ want' = ItemsOf(list) \o items
    BY <1>5 DEF Begin
  <2>2. ItemsOf(list)' = ItemsOf(list)
    BY <2>1
  <2>3. want' \in Lines /\ Len(want') = Len(ItemsOf(list)) + Len(items)
    BY <1>1, <2>1, ListFacts DEF Lines
  <2>4. ListOK'
    BY <1>1, <2>1, <2>3 DEF ListOK, ItemsOf
  <2>5. HeapInv'
    BY <1>1, <1>4, <2>1, <2>2 DEF HeapInv
  <2>6. Before' = Len(ItemsOf(list))
    BY <1>1, <2>3, ListFacts DEF Before, Lines
  <2>7. \A i \in 1 .. Len(items) : items[i] = want'[Len(ItemsOf(list)) + i]
    BY <1>1, <2>1, ListFacts DEF Lines
  <2>8. Picks(ItemsOf(list), want', Len(ItemsOf(list)))
    BY <1>1, <2>1, ListFacts, PicksSelf DEF ListOK
  <2>9. TodoInv'
    BY <1>1, <2>2, <2>3, <2>6, <2>7, <2>8, ListFacts DEF TodoInv, Lines
  <2> QED
    BY <1>2, <1>3, <2>4, <2>5, <2>9 DEF WholeInv
<1>6. CASE op # "set"
  <2>1. list' = <<>> /\ heap' = Deleted(heap, list) /\ want' = <<>> \o items
    BY <1>6 DEF Begin
  <2>2. want' = items
    BY <1>1, <2>1 DEF Lines
  <2>3. ItemsOf(list)' = <<>>
    BY <2>1 DEF ItemsOf
  <2>4. ListOK'
    BY <1>1, <2>1, <2>2, <2>3 DEF ListOK
  <2>5. HeapInv'
    <3>1. heap = [list |-> Len(list), item |-> Len(ItemsOf(list)),
                  text |-> 2 * Len(ItemsOf(list)) + 2 * Len(array)]
      BY <1>4, ListFacts DEF HeapInv, ListOK, Lines
    <3>2. 2 * Len(array) \in Nat
      BY DEF ListOK, Lines
    <3>3. heap' = [list |-> 0, item |-> 0, text |-> 2 * Len(array)]
      BY <2>1, <3>1, <3>2, DeletedFacts
    <3>4. /\ Len(list') = 0 /\ Len(ItemsOf(list)') + PartItems' = 0
          /\ 2 * Len(ItemsOf(list)') + 2 * Len(array') + PartTexts' = 2 * Len(array)
      BY <1>1, <1>4, <2>1, <2>3, <3>2
    <3> QED
      BY <3>3, <3>4 DEF HeapInv
  <2>6. Before' = 0
    BY <1>1, <2>2 DEF Before, Lines
  <2>7. TodoInv'
    BY <1>1, <2>2, <2>3, <2>6, PicksNothing DEF TodoInv, Lines
  <2> QED
    BY <1>2, <1>3, <2>4, <2>5, <2>7 DEF WholeInv
<1> QED
  BY <1>5, <1>6

(* Between calls: the list is whole, and nothing is in hand.               *)
LEMMA UpQuiet ==
    ASSUME call' = NoCall, part' = 0, ListOK',
           list' # <<>> => Picks(ItemsOf(list'), want', Len(want')),
           heap' = [list |-> Len(list'), item |-> Len(ItemsOf(list')),
                    text |-> 2 * Len(ItemsOf(list')) + 2 * Len(array')]
    PROVE  UpInv'
<1>1. call' = NoCall /\ part' = 0 /\ ~Making'
  BY DEF NoCall, Making
<1>2. CallOK'
  BY <1>1 DEF CallOK, NoCall, Lines
<1>3. PartItems' = 0 /\ PartTexts' = 0
  BY <1>1 DEF PartItems, PartTexts
<1>4. ItemsOf(list)' = ItemsOf(list')
  BY DEF ItemsOf
<1>5. Len(ItemsOf(list)') \in Nat
  BY <1>4, ListFacts DEF ListOK, Lines, ItemsOf
<1> QED
  BY <1>1, <1>2, <1>3, <1>4, <1>5 DEF UpInv, HeapInv, TodoInv, WholeInv, ListOK, Lines

(* A block is allocated.                                                   *)
LEMMA PlusFacts ==
    ASSUME NEW a \in Int, NEW b \in Int, NEW c \in Int, NEW h,
           h = [list |-> a, item |-> b, text |-> c]
    PROVE  /\ plus(h, "list") = [list |-> a + 1, item |-> b, text |-> c]
           /\ plus(h, "item") = [list |-> a, item |-> b + 1, text |-> c]
           /\ plus(h, "text") = [list |-> a, item |-> b, text |-> c + 1]
<1>1. plus(h, "list") = [h EXCEPT !.list = h.list + 1]
  BY Zenon DEF plus
<1>2. plus(h, "item") = [h EXCEPT !.item = h.item + 1]
  BY Zenon DEF plus
<1>3. plus(h, "text") = [h EXCEPT !.text = h.text + 1]
  BY Zenon DEF plus
<1> QED
  BY <1>1, <1>2, <1>3

(* The list itself is allocated, or cannot be.                             *)
LEMMA UpAllocList ==
    ASSUME UpInv, AllocList
    PROVE  UpInv'
<1> USE DEF UpInv
<1>1. Making /\ list = <<>> /\ array' = array /\ want' = want
  BY DEF AllocList
<1>2. part = 0 /\ PartItems = 0 /\ PartTexts = 0
  BY <1>1 DEF CallOK, PartItems, PartTexts
<1>3. 2 * Len(array) \in Nat /\ Len(ItemsOf(list)) = 0 /\ ItemsOf(list) = <<>> /\ Len(list) = 0
  BY <1>1, ListFacts DEF ListOK, Lines
<1>4. heap = [list |-> 0, item |-> 0, text |-> 2 * Len(array)]
  BY <1>2, <1>3 DEF HeapInv
<1>5. CASE list' = <<<<>>>> /\ heap' = plus(heap, "list") /\ UNCHANGED <<call, part, returned>>
  <2>1. ItemsOf(list)' = <<>> /\ Len(list') = 1 /\ <<>> \in Lines
    BY <1>5, ListFacts DEF ItemsOf, Lines
  <2>2. ListOK'
    BY <1>1, <1>5, <2>1 DEF ListOK
  <2>3. CallOK'
    BY <1>2, <1>5 DEF CallOK, Making
  <2>4. heap' = [list |-> 1, item |-> 0, text |-> 2 * Len(array)]
    BY <1>3, <1>4, <1>5, PlusFacts
  <2>5. PartItems' = 0 /\ PartTexts' = 0
    BY <1>2, <1>5 DEF PartItems, PartTexts
  <2>6. Len(ItemsOf(list)') + PartItems' = 0
        /\ 2 * Len(ItemsOf(list)') + 2 * Len(array') + PartTexts' = 2 * Len(array)
    BY <1>1, <1>3, <2>1, <2>5
  <2>7. HeapInv'
    BY <2>1, <2>4, <2>6 DEF HeapInv
  <2>8. Before' = Before /\ Making'
    BY <1>1, <1>5 DEF Before, Making
  <2>9. TodoInv' /\ WholeInv'
    BY <1>1, <1>3, <1>5, <2>1, <2>8 DEF TodoInv, WholeInv
  <2> QED
    BY <2>2, <2>3, <2>7, <2>9
<1>6. CASE Return("no memory") /\ UNCHANGED <<list, heap>>
  <2>1. list' = <<>> /\ ItemsOf(list') = <<>> /\ Len(list') = 0
    BY <1>1, <1>3, <1>6
  <2>2. ListOK'
    BY <1>1, <1>6, <2>1 DEF ListOK, ItemsOf
  <2>3. 2 * Len(ItemsOf(list')) + 2 * Len(array) = 2 * Len(array)
    BY <1>3, <2>1
  <2>4. heap' = [list |-> Len(list'), item |-> Len(ItemsOf(list')),
                 text |-> 2 * Len(ItemsOf(list')) + 2 * Len(array)]
    BY <1>3, <1>4, <1>6, <2>1, <2>3
  <2> QED
    BY <1>1, <1>6, <2>1, <2>2, <2>4, UpQuiet DEF Return
<1> QED
  BY <1>5, <1>6 DEF AllocList

(* A block of the next item is allocated, or the whole list given up.      *)
LEMMA UpAllocPart ==
    ASSUME CopiedForConnect, UpInv, AllocPart
    PROVE  UpInv'
<1> USE DEF UpInv
<1> DEFINE n == Len(ItemsOf(list))
           x == 2 * n + 2 * Len(array)
<1>1. /\ Making /\ list # <<>> /\ call.todo # <<>> /\ Head(call.todo) # "null"
      /\ part \in 0 .. 2 /\ array' = array /\ want' = want
  BY DEF AllocPart, CallOK
<1>2. n \in Nat /\ 2 * Len(array) \in Nat /\ Len(list) = 1 /\ x \in Nat
  BY <1>1, ListFacts DEF ListOK, Lines
<1>3. heap = [list |-> 1, item |-> n + PartItems, text |-> x + PartTexts]
  BY <1>2 DEF HeapInv
<1>4. /\ part = 0 => PartItems = 0 /\ PartTexts = 0 /\ NextPart = "item"
      /\ part # 0 => PartItems = 1 /\ PartTexts = part - 1 /\ NextPart = "text"
  BY <1>1 DEF PartItems, PartTexts, NextPart
<1>5. CASE part' = part + 1 /\ heap' = plus(heap, NextPart) /\ UNCHANGED <<list, call, returned>>
  <2>1. Making' /\ ItemsOf(list)' = ItemsOf(list) /\ Before' = Before /\ part' \in 1 .. 3
    BY <1>1, <1>5 DEF Making, Before, ItemsOf
  <2>2. CallOK'
    BY <1>1, <1>5, <2>1 DEF CallOK, Making
  <2>3. ListOK'
    BY <1>1, <1>5, <2>1 DEF ListOK
  <2>4. PartItems' = 1 /\ PartTexts' = part
    BY <1>1, <1>5, <2>1 DEF PartItems, PartTexts
  <2>5. heap' = [list |-> 1, item |-> n + 1, text |-> x + part]
    <3> HIDE DEF n, x
    <3>1. CASE part = 0
      BY <1>2, <1>3, <1>4, <1>5, <3>1, PlusFacts
    <3>2. CASE part # 0
      <4>1. heap = [list |-> 1, item |-> n + 1, text |-> x + (part - 1)]
        BY <1>3, <1>4, <3>2
      <4>2. heap' = [list |-> 1, item |-> n + 1, text |-> x + (part - 1) + 1]
        BY <1>1, <1>2, <1>4, <1>5, <3>2, <4>1, PlusFacts
      <4> QED
        BY <1>1, <1>2, <4>2
    <3> QED
      BY <3>1, <3>2
  <2>6. HeapInv'
    BY <1>1, <1>2, <1>5, <2>1, <2>4, <2>5 DEF HeapInv
  <2>7. TodoInv' /\ WholeInv'
    BY <1>1, <1>5, <2>1 DEF TodoInv, WholeInv
  <2> QED
    BY <2>2, <2>3, <2>6, <2>7
<1>6. CASE FailedMake
  <2> DEFINE own == IF part = 0 THEN heap
                    ELSE [heap EXCEPT !.item = heap.item - 1, !.text = heap.text - (part - 1)]
  <2>1. heap' = Deleted(own, list) /\ list' = <<>> /\ Return("no memory")
    BY <1>6, Zenon DEF FailedMake, CopiedForConnect
  <2>2. own = [list |-> 1, item |-> n, text |-> x]
    <3> HIDE DEF n, x
    <3>1. CASE part = 0
      BY <1>2, <1>3, <1>4, <3>1
    <3>2. CASE part # 0
      <4>1. heap = [list |-> 1, item |-> n + 1, text |-> x + (part - 1)]
        BY <1>3, <1>4, <3>2
      <4>2. heap.item - 1 = n /\ heap.text - (part - 1) = x
        BY <1>1, <1>2, <4>1
      <4>3. heap \in [list : {1}, item : {n + 1}, text : {x + (part - 1)}]
        BY <4>1
      <4>4. own \in [list : {1}, item : {n}, text : {x}]
        BY <3>2, <4>2, <4>3
      <4> HIDE DEF own
      <4> QED
        BY <4>4
    <3> QED
      BY <3>1, <3>2
  <2>3. heap' = [list |-> 0, item |-> 0, text |-> 2 * Len(array)]
    <3> HIDE DEF own
    <3> QED
      BY <1>2, <2>1, <2>2, DeletedFacts
  <2>4. ItemsOf(list') = <<>> /\ Len(list') = 0 /\ Len(ItemsOf(list')) = 0
    BY <2>1 DEF ItemsOf
  <2>5. ListOK'
    <3>1. ItemsOf(list)' = <<>> /\ Len(<<>>) = 0
      BY <2>1 DEF ItemsOf
    <3>2. array' \in Lines /\ want' \in Lines
      BY <1>1 DEF ListOK
    <3>3. \A i \in 1 .. Len(ItemsOf(list)') : ItemsOf(list)'[i] # "null"
      BY <3>1
    <3> QED
      BY <2>1, <3>2, <3>3 DEF ListOK
  <2>6. 2 * Len(ItemsOf(list')) + 2 * Len(array) = 2 * Len(array)
    BY <1>2, <2>4
  <2> QED
    BY <1>1, <2>1, <2>3, <2>4, <2>5, <2>6, UpQuiet DEF Return
<1> QED
  BY <1>5, <1>6 DEF AllocPart

(* What is left when the first item is done.                               *)
LEMMA TailFacts ==
    ASSUME NEW q \in Lines, q # <<>>
    PROVE  /\ Head(q) = q[1] /\ Head(q) \in STRING /\ Tail(q) \in Lines
           /\ Len(q) \in Nat /\ Len(q) >= 1 /\ Len(Tail(q)) = Len(q) - 1
           /\ \A i \in 1 .. Len(q) - 1 : Tail(q)[i] = q[i + 1]
<1>1. q \in Seq(STRING) /\ Len(q) \in Nat
  BY DEF Lines
<1>2. Head(q) \in STRING /\ Tail(q) \in Seq(STRING) /\ Len(Tail(q)) = Len(q) - 1
  BY <1>1, HeadTailProperties
<1>3. \A i \in 1 .. Len(Tail(q)) : Tail(q)[i] = q[i + 1]
  BY <1>1, HeadTailProperties
<1>4. Head(q) = q[1] /\ Len(q) # 0
  BY <1>1
<1> QED
  BY <1>1, <1>2, <1>3, <1>4 DEF Lines

(* The item is inserted, or an incomplete one passed over.                 *)
LEMMA UpInsert ==
    ASSUME UpInv, Insert
    PROVE  UpInv'
<1> USE DEF UpInv
<1> DEFINE s == ItemsOf(list)
           n == Before
<1>1. /\ Making /\ part = 3 /\ part' = 0 /\ array' = array /\ want' = want /\ heap' = heap
      /\ call' = [call EXCEPT !.todo = Tail(call.todo)]
      /\ list' = <<Append(list[1], Head(call.todo))>>
  BY DEF Insert
<1>2. list # <<>> /\ call.todo # <<>> /\ Head(call.todo) # "null" /\ call.todo \in Lines
  BY <1>1 DEF CallOK
<1>3. s \in Lines /\ Len(s) \in Nat /\ Len(list) = 1 /\ list[1] = s /\ want \in Lines /\ array \in Lines
  BY <1>2, ListFacts DEF ListOK, ItemsOf
<1>4. /\ Head(call.todo) = call.todo[1] /\ Head(call.todo) \in STRING /\ Tail(call.todo) \in Lines
      /\ Len(call.todo) \in Nat /\ Len(call.todo) >= 1 /\ Len(Tail(call.todo)) = Len(call.todo) - 1
      /\ \A i \in 1 .. Len(call.todo) - 1 : Tail(call.todo)[i] = call.todo[i + 1]
  BY <1>2, TailFacts
<1>5. call'.op = call.op /\ call'.todo = Tail(call.todo) /\ Making'
  BY <1>1 DEF Making, CallOK
<1>6. n \in Nat /\ n < Len(want) /\ Head(call.todo) = want[n + 1] /\ Before' = n + 1 /\ Len(want) \in Nat
  <2>1. Len(want) \in Nat /\ Len(call.todo) <= Len(want)
    BY <1>1, <1>3 DEF TodoInv, Lines
  <2>2. n = Len(want) - Len(call.todo) /\ Before' = Len(want) - (Len(call.todo) - 1)
    BY <1>1, <1>4, <1>5 DEF Before
  <2>3. call.todo[1] = want[n + 1]
    BY <1>1, <1>4 DEF TodoInv
  <2>4. Len(call.todo) \in Nat /\ Len(call.todo) >= 1
    BY <1>4
  <2>5. n \in Nat /\ n < Len(want) /\ Before' = n + 1
    <3> HIDE DEF n
    <3> QED
      BY <2>1, <2>2, <2>4
  <2> QED
    BY <1>1, <1>4, <2>1, <2>3, <2>5
<1>7. /\ ItemsOf(list)' = Append(s, Head(call.todo)) /\ Append(s, Head(call.todo)) \in Lines
      /\ Len(ItemsOf(list)') = Len(s) + 1 /\ Len(list') = 1
  <2>1. Append(s, Head(call.todo)) \in Lines /\ Len(Append(s, Head(call.todo))) = Len(s) + 1
    BY <1>3, <1>4 DEF Lines
  <2>2. list' = <<Append(s, Head(call.todo))>>
    BY <1>1, <1>3
  <2> HIDE DEF s
  <2> QED
    BY <2>1, <2>2 DEF ItemsOf
<1>8. CallOK'
  <2>1. call \in [op : {"none", "set", "copy", "read", "get"}, todo : Lines] /\ call.op # "none"
    BY <1>1 DEF CallOK, Making
  <2>2. call' \in [op : {"none", "set", "copy", "read", "get"}, todo : Lines]
    BY <1>1, <1>4, <2>1
  <2> QED
    BY <1>1, <1>5, <2>1, <2>2 DEF CallOK
<1>9. ListOK'
  <2>1. \A i \in 1 .. Len(s) + 1 : Append(s, Head(call.todo))[i] # "null"
    <3>1. \A i \in 1 .. Len(s) : s[i] # "null"
      BY DEF ListOK
    <3> QED
      BY <1>2, <1>3, <1>4, <3>1 DEF Lines
  <2> QED
    BY <1>1, <1>3, <1>7, <2>1 DEF ListOK
<1>10. HeapInv'
  <2>1. PartItems = 1 /\ PartTexts = 2 /\ PartItems' = 0 /\ PartTexts' = 0
    BY <1>1 DEF PartItems, PartTexts
  <2>2. 2 * Len(array) \in Nat
    BY <1>3 DEF Lines
  <2>3. /\ Len(s) + PartItems = Len(s) + 1 + PartItems'
        /\ 2 * Len(s) + 2 * Len(array) + PartTexts = 2 * (Len(s) + 1) + 2 * Len(array) + PartTexts'
    <3> HIDE DEF s
    <3> QED
      BY <1>3, <2>1, <2>2
  <2> QED
    BY <1>1, <1>3, <1>7, <2>3 DEF HeapInv
<1>11. TodoInv'
  <2>1. Picks(Append(s, want[n + 1]), want, n + 1)
    <3>1. Picks(s, want, n)
      BY <1>1 DEF TodoInv
    <3> HIDE DEF s, n
    <3> QED
      BY <1>2, <1>3, <1>6, <3>1, PicksNext
  <2>2. \A i \in 1 .. Len(call.todo) - 1 : Tail(call.todo)[i] = want[n + 1 + i]
    <3>1. \A i \in 1 .. Len(call.todo) : call.todo[i] = want[n + i]
      BY <1>1 DEF TodoInv
    <3> HIDE DEF n
    <3> TAKE i \in 1 .. Len(call.todo) - 1
    <3>2. Len(call.todo) \in Nat
      BY <1>4
    <3>3. i + 1 \in 1 .. Len(call.todo) /\ n + (i + 1) = n + 1 + i
      BY <1>6, <3>2
    <3> QED
      BY <1>4, <3>1, <3>3
  <2>3. Len(Tail(call.todo)) <= Len(want)
    BY <1>1, <1>4, <1>6 DEF TodoInv
  <2> HIDE DEF s, n
  <2> QED
    BY <1>1, <1>4, <1>5, <1>6, <1>7, <2>1, <2>2, <2>3 DEF TodoInv
<1> QED
  BY <1>5, <1>8, <1>9, <1>10, <1>11 DEF WholeInv

(* An item that is incomplete is left out of the list.                     *)
LEMMA UpSkip ==
    ASSUME UpInv, Skip
    PROVE  UpInv'
<1> USE DEF UpInv
<1> DEFINE s == ItemsOf(list)
           n == Before
<1>1. /\ Making /\ list # <<>> /\ call.todo # <<>> /\ Head(call.todo) = "null"
      /\ UNCHANGED <<list, array, part, heap, want>>
      /\ call' = [call EXCEPT !.todo = Tail(call.todo)]
  BY DEF Skip
<1>2. part = 0 /\ call.todo \in Lines
  BY <1>1 DEF CallOK
<1>3. s \in Lines /\ want \in Lines
  BY ListFacts DEF ListOK
<1>4. /\ Head(call.todo) = call.todo[1] /\ Tail(call.todo) \in Lines
      /\ Len(call.todo) \in Nat /\ Len(call.todo) >= 1 /\ Len(Tail(call.todo)) = Len(call.todo) - 1
      /\ \A i \in 1 .. Len(call.todo) - 1 : Tail(call.todo)[i] = call.todo[i + 1]
  BY <1>1, <1>2, TailFacts
<1>5. call'.op = call.op /\ call'.todo = Tail(call.todo) /\ Making'
  BY <1>1 DEF Making, CallOK
<1>6. n \in Nat /\ n < Len(want) /\ want[n + 1] = "null" /\ Before' = n + 1 /\ Len(want) \in Nat
  <2>1. Len(want) \in Nat /\ Len(call.todo) <= Len(want)
    BY <1>1, <1>3 DEF TodoInv, Lines
  <2>2. n = Len(want) - Len(call.todo) /\ Before' = Len(want) - (Len(call.todo) - 1)
    BY <1>1, <1>4, <1>5 DEF Before
  <2>3. call.todo[1] = want[n + 1]
    BY <1>1, <1>4 DEF TodoInv
  <2>4. Len(call.todo) \in Nat /\ Len(call.todo) >= 1
    BY <1>4
  <2>5. n \in Nat /\ n < Len(want) /\ Before' = n + 1
    <3> HIDE DEF n
    <3> QED
      BY <2>1, <2>2, <2>4
  <2> QED
    BY <1>1, <1>4, <2>1, <2>3, <2>5
<1>7. CallOK' /\ ListOK' /\ ItemsOf(list)' = s
  BY <1>1, <1>2, <1>4, <1>5 DEF CallOK, ListOK, Making, ItemsOf
<1>8. HeapInv'
  <2>1. PartItems' = PartItems /\ PartTexts' = PartTexts
    BY <1>1, <1>2 DEF PartItems, PartTexts
  <2> QED
    BY <1>1, <1>7, <2>1 DEF HeapInv
<1>9. TodoInv'
  <2>1. Picks(s, want, n + 1)
    <3>1. Picks(s, want, n)
      BY <1>1 DEF TodoInv
    <3> HIDE DEF s, n
    <3> QED
      BY <1>3, <1>6, <3>1, PicksSkip
  <2>2. \A i \in 1 .. Len(call.todo) - 1 : Tail(call.todo)[i] = want[n + 1 + i]
    <3>1. \A i \in 1 .. Len(call.todo) : call.todo[i] = want[n + i]
      BY <1>1 DEF TodoInv
    <3> HIDE DEF n
    <3> TAKE i \in 1 .. Len(call.todo) - 1
    <3>2. Len(call.todo) \in Nat
      BY <1>4
    <3>3. i + 1 \in 1 .. Len(call.todo) /\ n + (i + 1) = n + 1 + i
      BY <1>6, <3>2
    <3> QED
      BY <1>4, <3>1, <3>3
  <2>3. Len(Tail(call.todo)) <= Len(want)
    BY <1>1, <1>4, <1>6 DEF TodoInv
  <2> HIDE DEF s, n
  <2> QED
    BY <1>1, <1>4, <1>5, <1>6, <1>7, <2>1, <2>2, <2>3 DEF TodoInv
<1> QED
  BY <1>5, <1>7, <1>8, <1>9 DEF WholeInv

(* The heap when no list is being made, with t texts copied in hand.       *)
LEMMA HeapFacts ==
    ASSUME UpInv, part \in 0 .. 2, Making => part = 0
    PROVE  /\ heap = [list |-> Len(list), item |-> Len(ItemsOf(list)),
                      text |-> 2 * Len(ItemsOf(list)) + 2 * Len(array) + part]
           /\ PartItems = 0 /\ PartTexts = part
           /\ Len(list) \in Nat /\ Len(ItemsOf(list)) \in Nat /\ Len(array) \in Nat
<1>1. PartItems = 0 /\ PartTexts = part
  BY DEF PartItems, PartTexts
<1>2. Len(list) \in Nat /\ Len(ItemsOf(list)) \in Nat /\ Len(array) \in Nat
  BY ListFacts DEF UpInv, ListOK, Lines
<1>3. Len(ItemsOf(list)) + PartItems = Len(ItemsOf(list))
  BY <1>1, <1>2
<1> QED
  BY <1>1, <1>2, <1>3 DEF UpInv, HeapInv

(* A call that made its list returns.                                      *)
LEMMA UpDone ==
    ASSUME UpInv, Done
    PROVE  UpInv'
<1>1. /\ Making /\ call.todo = <<>> /\ call' = NoCall /\ part' = 0
      /\ UNCHANGED <<list, array, heap, want>>
  BY DEF Done, Return
<1>2. part = 0 /\ Len(call.todo) = 0
  BY <1>1 DEF UpInv, CallOK
<1>3. Before = Len(want)
  BY <1>2 DEF Before, UpInv, ListOK, Lines
<1>4. Picks(ItemsOf(list), want, Len(want))
  BY <1>1, <1>3 DEF UpInv, TodoInv
<1>5. ListOK' /\ ItemsOf(list') = ItemsOf(list)
  BY <1>1 DEF UpInv, ListOK, ItemsOf
<1>6. heap' = [list |-> Len(list'), item |-> Len(ItemsOf(list')),
               text |-> 2 * Len(ItemsOf(list')) + 2 * Len(array')]
  BY <1>1, <1>2, <1>5, HeapFacts
<1> QED
  BY <1>1, <1>4, <1>5, <1>6, UpQuiet

(* esp_mqtt5_client_get_user_property.                                     *)
LEMMA UpGetBegin ==
    ASSUME UpInv, NEW num \in 1 .. get_user_property_count(list), GetBegin(num)
    PROVE  UpInv'
<1> USE DEF UpInv
<1> DEFINE m == IF num < Len(ItemsOf(list)) THEN num ELSE Len(ItemsOf(list))
<1>1. /\ call = NoCall /\ list # <<>> /\ UNCHANGED <<list, array, part, heap, want>>
      /\ call' = [op |-> "get", todo |-> SubSeq(ItemsOf(list), 1, m)]
  BY DEF GetBegin
<1>2. part = 0 /\ ~Making /\ ~Making'
  BY <1>1 DEF CallOK, Making, NoCall
<1>3. SubSeq(ItemsOf(list), 1, m) \in Lines
  <2>1. ItemsOf(list) \in Seq(STRING) /\ Len(ItemsOf(list)) \in Nat
    BY ListFacts DEF Lines
  <2>2. num \in Nat /\ num >= 1
    OBVIOUS
  <2>3. m \in 0 .. Len(ItemsOf(list))
    BY <2>1, <2>2
  <2>4. \A k \in 1 .. m : ItemsOf(list)[k] \in STRING
    BY <2>1, <2>3
  <2> HIDE DEF m
  <2> QED
    BY <2>1, <2>3, <2>4, SubSeqProperties DEF Lines
<1>4. CallOK'
  BY <1>1, <1>2, <1>3 DEF CallOK
<1>5. ListOK' /\ ItemsOf(list)' = ItemsOf(list)
  BY <1>1 DEF ListOK, ItemsOf
<1>6. PartItems' = PartItems /\ PartTexts' = PartTexts
  BY <1>1, <1>2 DEF PartItems, PartTexts
<1>7. HeapInv'
  BY <1>1, <1>5, <1>6 DEF HeapInv
<1> QED
  BY <1>1, <1>2, <1>4, <1>5, <1>7 DEF TodoInv, WholeInv

(* A key or a value of the array that is given back.                       *)
LEMMA UpGetAlloc ==
    ASSUME UpInv, GetAlloc
    PROVE  UpInv'
<1> USE DEF UpInv
<1> DEFINE n == Len(ItemsOf(list))
           a == Len(array)
<1>1. /\ call.op = "get" /\ call.todo # <<>> /\ part \in 0 .. 1 /\ list' = list /\ want' = want
  <2>1. call.op = "get" /\ call.todo # <<>> /\ part < 2 /\ list' = list /\ want' = want
    BY DEF GetAlloc
  <2>2. part \in 0 .. 2
    BY <2>1 DEF CallOK
  <2> QED
    BY <2>1, <2>2
<1>2. ~Making
  BY <1>1 DEF Making
<1>3. /\ heap = [list |-> Len(list), item |-> n, text |-> 2 * n + 2 * a + part]
      /\ Len(list) \in Nat /\ n \in Nat /\ a \in Nat
  BY <1>1, <1>2, HeapFacts
<1>4. ItemsOf(list)' = ItemsOf(list) /\ ItemsOf(list') = ItemsOf(list)
  BY <1>1 DEF ItemsOf
<1>5. CASE part' = part + 1 /\ heap' = plus(heap, "text") /\ UNCHANGED <<array, call, returned>>
  <2>1. ~Making' /\ CallOK' /\ ListOK'
    BY <1>1, <1>2, <1>4, <1>5 DEF CallOK, ListOK, Making
  <2>2. 2 * n + 2 * a + part \in Int
    BY <1>1, <1>3
  <2>3. heap' = [list |-> Len(list), item |-> n, text |-> 2 * n + 2 * a + part + 1]
    <3> DEFINE c == 2 * n + 2 * a + part
    <3>1. heap = [list |-> Len(list), item |-> n, text |-> c] /\ c \in Int
      BY <1>3, <2>2
    <3> HIDE DEF n, c
    <3>2. heap \in [list : {Len(list)}, item : {n}, text : {c}] /\ heap.text = c
      BY <3>1
    <3>3. plus(heap, "text") = [heap EXCEPT !.text = heap.text + 1]
      BY Zenon DEF plus
    <3>4. heap' = [heap EXCEPT !.text = c + 1]
      BY <1>5, <3>2, <3>3
    <3>5. heap' \in [list : {Len(list)}, item : {n}, text : {c + 1}]
      BY <3>2, <3>4
    <3> QED
      BY <3>5 DEF c
  <2>4. PartItems' = 0 /\ PartTexts' = part + 1
    BY <1>5, <2>1 DEF PartItems, PartTexts
  <2>5. n + PartItems' = n /\ 2 * n + 2 * a + PartTexts' = 2 * n + 2 * a + part + 1
    <3> HIDE DEF n, a
    <3> QED
      BY <1>1, <1>3, <2>4
  <2>6. HeapInv'
    BY <1>1, <1>4, <1>5, <2>3, <2>5 DEF HeapInv
  <2> QED
    BY <1>1, <1>2, <1>4, <2>1, <2>6 DEF TodoInv, WholeInv
<1>6. CASE /\ heap' = [heap EXCEPT !.text = heap.text - part - 2 * Len(array)]
           /\ array' = <<>> /\ Return("no memory")
  <2>2. heap' = [list |-> Len(list), item |-> n, text |-> 2 * n]
    <3>1. heap.text - part - 2 * Len(array) = 2 * n
      <4>1. heap.text = 2 * n + 2 * a + part
        BY <1>3
      <4> HIDE DEF n, a
      <4>2. n \in Nat /\ a \in Nat /\ part \in Nat
        BY <1>1, <1>3
      <4>3. heap.text - part - 2 * a = 2 * n
        BY <4>1, <4>2
      <4> QED
        BY <4>3 DEF a
    <3>2. heap \in [list : {Len(list)}, item : {n}, text : {2 * n + 2 * a + part}]
      BY <1>3
    <3>3. heap' = [heap EXCEPT !.text = 2 * n]
      BY <1>6, <3>1
    <3> HIDE DEF n, a
    <3>4. heap' \in [list : {Len(list)}, item : {n}, text : {2 * n}]
      BY <3>2, <3>3
    <3> QED
      BY <3>4
  <2>3. <<>> \in Lines /\ Len(<<>>) = 0
    BY DEF Lines
  <2>4. ListOK'
    BY <1>1, <1>4, <1>6, <2>3 DEF ListOK
  <2>5. 2 * n + 2 * Len(array') = 2 * n
    <3>1. Len(array') = 0
      BY <1>6, <2>3
    <3>2. n \in Nat
      BY <1>3
    <3> HIDE DEF n
    <3> QED
      BY <3>1, <3>2
  <2>6. list' # <<>> => Picks(ItemsOf(list'), want', Len(want'))
    BY <1>1, <1>2, <1>4 DEF WholeInv
  <2> QED
    BY <1>1, <1>4, <1>6, <2>2, <2>4, <2>5, <2>6, UpQuiet DEF Return
<1> QED
  BY <1>5, <1>6, Zenon DEF GetAlloc

(* The item is complete and in the array.                                  *)
LEMMA UpGetItem ==
    ASSUME UpInv, GetItem
    PROVE  UpInv'
<1> USE DEF UpInv
<1> DEFINE n == Len(ItemsOf(list))
           a == Len(array)
<1>1. /\ call.op = "get" /\ part = 2 /\ part' = 0 /\ UNCHANGED <<list, heap, want>>
      /\ array' = Append(array, Head(call.todo))
      /\ call' = [call EXCEPT !.todo = Tail(call.todo)]
  BY DEF GetItem
<1>2. ~Making /\ call.todo # <<>> /\ call.todo \in Lines /\ array \in Lines
  BY <1>1 DEF Making, CallOK, ListOK
<1>3. Head(call.todo) \in STRING /\ Tail(call.todo) \in Lines
  BY <1>2, TailFacts
<1>4. array' \in Lines /\ Len(array') = a + 1
  BY <1>1, <1>2, <1>3 DEF Lines
<1>5. call' \in [op : {"none", "set", "copy", "read", "get"}, todo : Lines] /\ call'.op = "get"
  <2>1. call \in [op : {"none", "set", "copy", "read", "get"}, todo : Lines]
    BY DEF CallOK
  <2> QED
    BY <1>1, <1>3, <2>1
<1>6. ~Making' /\ CallOK'
  BY <1>1, <1>5 DEF Making, CallOK
<1>7. ListOK' /\ ItemsOf(list)' = ItemsOf(list)
  BY <1>1, <1>4 DEF ListOK, ItemsOf
<1>8. HeapInv'
  <2>1. /\ heap = [list |-> Len(list), item |-> n, text |-> 2 * n + 2 * a + part]
        /\ n \in Nat /\ a \in Nat
    BY <1>1, <1>2, HeapFacts
  <2>2. PartItems' = 0 /\ PartTexts' = 0
    BY <1>1, <1>6 DEF PartItems, PartTexts
  <2>3. n + PartItems' = n /\ 2 * n + 2 * Len(array') + PartTexts' = 2 * n + 2 * a + part
    <3> HIDE DEF n, a
    <3> QED
      BY <1>1, <1>4, <2>1, <2>2
  <2> QED
    BY <1>1, <1>7, <2>1, <2>3 DEF HeapInv
<1> QED
  BY <1>1, <1>2, <1>6, <1>7, <1>8 DEF TodoInv, WholeInv

(* The array is given back.                                                *)
LEMMA UpGetDone ==
    ASSUME UpInv, GetDone
    PROVE  UpInv'
<1>1. /\ call.op = "get" /\ call.todo = <<>> /\ call' = NoCall /\ part' = 0
      /\ UNCHANGED <<list, array, heap, want>>
  BY DEF GetDone, Return
<1>2. part = 0 /\ ~Making
  BY <1>1 DEF UpInv, CallOK, Making
<1>3. ListOK' /\ ItemsOf(list') = ItemsOf(list)
  BY <1>1 DEF UpInv, ListOK, ItemsOf
<1>4. list' # <<>> => Picks(ItemsOf(list'), want', Len(want'))
  BY <1>1, <1>2, <1>3 DEF UpInv, WholeInv
<1>5. heap' = [list |-> Len(list'), item |-> Len(ItemsOf(list')),
               text |-> 2 * Len(ItemsOf(list')) + 2 * Len(array')]
  BY <1>1, <1>2, <1>3, HeapFacts
<1> QED
  BY <1>1, <1>3, <1>4, <1>5, UpQuiet

(* The application frees the array, or deletes the list.                   *)
LEMMA UpFree ==
    ASSUME UpInv, FreeArray \/ delete_user_property
    PROVE  UpInv'
<1> DEFINE n == Len(ItemsOf(list))
           a == Len(array)
<1>1. call = NoCall /\ UNCHANGED <<call, part, want>>
  BY DEF FreeArray, delete_user_property
<1>2. part = 0 /\ ~Making /\ call' = NoCall /\ part' = 0
  BY <1>1 DEF UpInv, CallOK, Making, NoCall
<1>3. /\ heap = [list |-> Len(list), item |-> n, text |-> 2 * n + 2 * a]
      /\ Len(list) \in Nat /\ n \in Nat /\ a \in Nat
  BY <1>2, HeapFacts
<1>4. <<>> \in Lines /\ Len(<<>>) = 0
  BY DEF Lines
<1>5. CASE FreeArray
  <2>1. array' = <<>> /\ list' = list /\ heap' = [heap EXCEPT !.text = heap.text - 2 * a]
    BY <1>5, Zenon DEF FreeArray
  <2>2. ItemsOf(list)' = ItemsOf(list) /\ ItemsOf(list') = ItemsOf(list)
    BY <2>1 DEF ItemsOf
  <2>3. heap' = [list |-> Len(list), item |-> n, text |-> 2 * n + 2 * a - 2 * a]
    BY <1>3, <2>1
  <2>4. 2 * n + 2 * a - 2 * a = 2 * n + 2 * Len(array')
    <3> HIDE DEF n, a
    <3> QED
      BY <1>3, <1>4, <2>1
  <2>5. ListOK'
    BY <1>1, <1>4, <2>1, <2>2 DEF UpInv, ListOK
  <2>6. list' # <<>> => Picks(ItemsOf(list'), want', Len(want'))
    BY <1>1, <1>2, <2>1, <2>2 DEF UpInv, WholeInv
  <2> QED
    BY <1>2, <2>1, <2>2, <2>3, <2>4, <2>5, <2>6, UpQuiet
<1>6. CASE delete_user_property
  <2>1. list' = <<>> /\ array' = array /\ heap' = Deleted(heap, list)
    BY <1>6 DEF delete_user_property
  <2>2. ItemsOf(list)' = <<>> /\ ItemsOf(list') = <<>> /\ Len(list') = 0
    BY <1>4, <2>1 DEF ItemsOf
  <2>3. heap' = [list |-> 0, item |-> 0, text |-> 2 * a]
    <3>1. 2 * a \in Nat
      BY <1>3
    <3> QED
      BY <1>3, <2>1, <3>1, DeletedFacts DEF UpInv
  <2>4. 2 * Len(ItemsOf(list')) + 2 * Len(array') = 2 * a
    BY <1>3, <1>4, <2>1, <2>2
  <2>5. ListOK'
    <3>1. array' \in Lines /\ want' \in Lines
      BY <1>1, <2>1 DEF UpInv, ListOK
    <3>2. \A i \in 1 .. Len(ItemsOf(list)') : ItemsOf(list)'[i] # "null"
      BY <1>4, <2>2
    <3> QED
      BY <2>1, <3>1, <3>2 DEF ListOK
  <2> QED
    BY <1>2, <1>4, <2>1, <2>2, <2>3, <2>4, <2>5, UpQuiet
<1> QED
  BY <1>5, <1>6

-----------------------------------------------------------------------------
(* However allocations fail, the lists of user properties are whole or     *)
(* absent between calls and no block is lost, for arrays of any length.    *)
THEOREM UserListsWhole == CopiedForConnect => (UpSpec => []ListsWhole)
<1> SUFFICES ASSUME CopiedForConnect PROVE UpSpec => []ListsWhole
  OBVIOUS
<1>1. UpInit => UpInv
  <2> SUFFICES ASSUME UpInit PROVE UpInv
    OBVIOUS
  <2>1. /\ list = <<>> /\ array = <<>> /\ call = NoCall /\ part = 0
        /\ heap = Empty /\ want = <<>> /\ <<>> \in Lines /\ Len(<<>>) = 0
    BY DEF UpInit, Lines
  <2>2. ~Making /\ ItemsOf(list) = <<>> /\ PartItems = 0 /\ PartTexts = 0
    BY <2>1 DEF Making, NoCall, ItemsOf, PartItems, PartTexts
  <2>3. CallOK
    BY <2>1, <2>2 DEF CallOK, NoCall
  <2>4. ListOK
    BY <2>1, <2>2 DEF ListOK
  <2>5. HeapInv
    BY <2>1, <2>2 DEF HeapInv, Empty
  <2> QED
    BY <2>1, <2>2, <2>3, <2>4, <2>5 DEF UpInv, TodoInv, WholeInv
<1>2. UpInv /\ [UpNext]_upVars => UpInv'
  <2> SUFFICES ASSUME UpInv, [UpNext]_upVars PROVE UpInv'
    OBVIOUS
  <2>1. CASE UNCHANGED upVars
    BY <2>1 DEF upVars, UpInv, CallOK, ListOK, HeapInv, TodoInv, WholeInv, Making, PartItems,
                PartTexts, Before, ItemsOf
  <2> QED
    BY <2>1, UpBegin, UpAllocList, UpAllocPart, UpInsert, UpSkip, UpDone, UpGetBegin, UpGetAlloc,
       UpGetItem, UpGetDone, UpFree DEF UpNext
<1>3. UpInv => ListsWhole
  <2> SUFFICES ASSUME UpInv, call = NoCall PROVE ListsWhole
    BY DEF ListsWhole
  <2>1. part = 0 /\ ~Making
    BY DEF UpInv, CallOK, Making, NoCall
  <2>2. heap = [list |-> Len(list), item |-> Len(ItemsOf(list)),
                text |-> 2 * Len(ItemsOf(list)) + 2 * Len(array)]
    BY <2>1, HeapFacts
  <2> QED
    BY <2>1, <2>2 DEF UpInv, WholeInv, ListsWhole
<1> QED
  BY <1>1, <1>2, <1>3, PTL DEF UpSpec

-----------------------------------------------------------------------------
(* ClientConfig                                                            *)

Options == {TlsOptions[i] : i \in DOMAIN TlsOptions}
Text == STRING \cup {Absent, "generated"}
Stored == [uri : Seq(UriType), scheme : Text, host : Text, port : Nat, path : Text,
           username : Text, password : Text, client_id : Text, keepalive : Nat,
           tls : SUBSET Options]

(* A value some call gave, or none.                                        *)
Maybe(S) == {<<>>} \cup {<<v>> : v \in S}

(* The fields of which the default is no value.                            *)
Plain == {"scheme", "host", "path", "username", "password"}

(* What calls may have given.                                              *)
GivenOK(g) == /\ DOMAIN g = Named \cup {"tls"}
              /\ \A f \in Plain : g[f] \in Maybe(Text)
              /\ g.client_id \in Maybe(Text \ {Absent})
              /\ g.port \in Maybe(Nat \ {0}) /\ g.keepalive \in Maybe(Nat)
              /\ g.tls \in SUBSET Options

(* c holds what was given, and defaults otherwise.                         *)
Agrees(c, g, from) ==
    /\ \A f \in Plain : c[f] = OrElse(g[f], Absent)
    /\ c.client_id = OrElse(g.client_id, "generated")
    /\ c.keepalive = OrElse(g.keepalive, MQTT_KEEPALIVE_TICK)
    /\ c.port = OrElse(g.port, IF from = Absent THEN 0 ELSE DefaultPort(from))
    /\ g.tls \subseteq c.tls

(* As Agrees, of a record that may be empty.                               *)
AgreesOrBlank(c, g, from) ==
    /\ \A f \in Plain : c[f] = OrElse(g[f], Absent)
    /\ c.client_id = OrElse(g.client_id, "generated") \/ (g.client_id = <<>> /\ c.client_id = Absent)
    /\ c.keepalive = OrElse(g.keepalive, MQTT_KEEPALIVE_TICK) \/ (g.keepalive = <<>> /\ c.keepalive = 0)
    /\ c.port = OrElse(g.port, IF from = Absent THEN 0 ELSE DefaultPort(from))

(* What is held is what was given since it was empty.                      *)
ConfigInv == /\ config = <<>> => given = NothingGiven /\ first = Absent
             /\ config # <<>> => \E c \in Stored : config = <<c>> /\ Agrees(c, given, first)
             /\ GivenOK(given) /\ first \in Schemes \cup {Absent}
             /\ DialsAsAsked

(* esp_mqtt_client_set_uri takes from a URI what it names.                 *)
LEMMA UriFacts ==
    ASSUME NEW c \in Stored, NEW u \in UriType
    PROVE  /\ set_uri(c, u) \in Stored
           /\ set_uri(c, u).scheme = u.scheme /\ set_uri(c, u).host = u.host
           /\ set_uri(c, u).path = u.path
           /\ set_uri(c, u).port = IF u.port # 0 THEN u.port ELSE c.port
           /\ set_uri(c, u).username = IF u.username # Absent THEN u.username ELSE c.username
           /\ set_uri(c, u).password = IF u.password # Absent THEN u.password ELSE c.password
           /\ set_uri(c, u).client_id = c.client_id /\ set_uri(c, u).keepalive = c.keepalive
           /\ set_uri(c, u).tls = c.tls
  BY DEF set_uri, Stored, UriType, Text

(* esp_mqtt_set_config takes from a configuration what it gives.           *)
LEMMA FieldsFacts ==
    ASSUME NEW c \in Stored, NEW new \in ConfigType
    PROVE  /\ fields(c, new) \in Stored
           /\ fields(c, new).host = set_if_config(new.hostname, c.host)
           /\ fields(c, new).path = set_if_config(new.path, c.path)
           /\ fields(c, new).username = set_if_config(new.username, c.username)
           /\ fields(c, new).password = set_if_config(new.password, c.password)
           /\ fields(c, new).scheme = set_if_config(new.transport, c.scheme)
           /\ fields(c, new).port = IF new.port # 0 THEN new.port ELSE c.port
           /\ fields(c, new).client_id = IF new.client_id # Absent THEN new.client_id
                                         ELSE IF c.client_id = Absent THEN "generated" ELSE c.client_id
           /\ fields(c, new).tls = new.tls \cup (c.tls \cap Kept)
           /\ fields(c, new).keepalive =
                 IF new.disable_keepalive THEN 0
                 ELSE IF new.keepalive # 0 THEN new.keepalive
                 ELSE IF c.keepalive # 0 THEN c.keepalive ELSE MQTT_KEEPALIVE_TICK
<1> DEFINE ticks == IF new.keepalive # 0 THEN new.keepalive ELSE c.keepalive
           host == set_if_config(new.hostname, c.host)
           path == set_if_config(new.path, c.path)
           user == set_if_config(new.username, c.username)
           pass == set_if_config(new.password, c.password)
           id == IF new.client_id # Absent THEN new.client_id
                 ELSE IF c.client_id = Absent THEN "generated" ELSE c.client_id
           port == IF new.port # 0 THEN new.port ELSE c.port
           uri == IF new.uri # <<>> THEN new.uri ELSE c.uri
           keep == IF new.disable_keepalive THEN 0
                   ELSE IF ticks = 0 THEN MQTT_KEEPALIVE_TICK ELSE ticks
           tls == tls_configured(c.tls, new.tls)
           scheme == IF new.transport # Absent THEN new.transport ELSE c.scheme
           r == [c EXCEPT !.host = host, !.path = path, !.username = user, !.password = pass,
                          !.client_id = id, !.port = port, !.uri = uri, !.keepalive = keep,
                          !.tls = tls, !.scheme = scheme]
<1>1. fields(c, new) = r
  BY Zenon DEF fields
<1>2. /\ new.hostname \in Text /\ new.path \in Text /\ new.username \in Text
      /\ new.password \in Text /\ new.client_id \in Text /\ new.transport \in Text
      /\ new.port \in Nat /\ new.uri \in Seq(UriType)
  BY DEF ConfigType, Text
<1>3. /\ c.host \in Text /\ c.path \in Text /\ c.username \in Text /\ c.password \in Text
      /\ c.client_id \in Text /\ c.scheme \in Text /\ c.port \in Nat /\ c.uri \in Seq(UriType)
  BY DEF Stored
<1>4. host \in Text /\ path \in Text /\ user \in Text /\ pass \in Text
  BY <1>2, <1>3, Zenon DEF set_if_config
<1>5. port \in Nat /\ uri \in Seq(UriType) /\ scheme \in Text
  BY <1>2, <1>3, Zenon
<1>6. id \in Text
  <2>1. "generated" \in Text
    BY DEF Text
  <2> QED
    BY <1>2, <1>3, <2>1, Zenon
<1>7. keep \in Nat
  BY DEF Stored, ConfigType, MQTT_KEEPALIVE_TICK
<1>8. tls \in SUBSET Options /\ tls = new.tls \cup (c.tls \cap Kept)
  BY DEF Stored, ConfigType, Options, tls_configured
<1>9. /\ scheme = set_if_config(new.transport, c.scheme)
      /\ keep = IF new.disable_keepalive THEN 0
                ELSE IF new.keepalive # 0 THEN new.keepalive
                ELSE IF c.keepalive # 0 THEN c.keepalive ELSE MQTT_KEEPALIVE_TICK
  BY DEF set_if_config, ConfigType, Stored
<1> HIDE DEF host, path, user, pass, id, port, uri, keep, tls, scheme
<1>10. /\ r \in Stored /\ r.username = user /\ r.password = pass /\ r.client_id = id
       /\ r.keepalive = keep /\ r.tls = tls /\ r.host = host /\ r.path = path
       /\ r.port = port /\ r.scheme = scheme
  BY <1>4, <1>5, <1>6, <1>7, <1>8 DEF Stored
<1> HIDE DEF r
<1>11. /\ fields(c, new) \in Stored /\ fields(c, new).tls = new.tls \cup (c.tls \cap Kept)
       /\ fields(c, new).scheme = set_if_config(new.transport, c.scheme)
       /\ fields(c, new).keepalive = IF new.disable_keepalive THEN 0
                ELSE IF new.keepalive # 0 THEN new.keepalive
                ELSE IF c.keepalive # 0 THEN c.keepalive ELSE MQTT_KEEPALIVE_TICK
  BY <1>1, <1>8, <1>9, <1>10
<1>12. /\ fields(c, new).host = host /\ fields(c, new).path = path
       /\ fields(c, new).username = user /\ fields(c, new).password = pass
       /\ fields(c, new).port = port /\ fields(c, new).client_id = id
  BY <1>1, <1>10
<1> QED
  BY <1>11, <1>12 DEF host, path, user, pass, port, id

(* A value that was given, and none.                                       *)
LEMMA MaybeFacts ==
    /\ \A v, d : OrElse(<<v>>, d) = v /\ OrElse(<<>>, d) = d /\ <<v>> # <<>>
    /\ \A S : <<>> \in Maybe(S) /\ \A v \in S : <<v>> \in Maybe(S)
    /\ \A S : \A m \in Maybe(S) : m = <<>> \/ \E v \in S : m = <<v>>
    /\ \A v, w : <<v>> = <<w>> => v = w
  BY DEF OrElse, Maybe

(* A value held, and one given, when a call gives v unless v is nothing.   *)
Setting(v, nothing, held) == IF v # nothing THEN v ELSE held
Giving(v, nothing, held) == IF v # nothing THEN <<v>> ELSE held

LEMMA GivingFacts ==
    /\ \A v, nothing, g, default :
          OrElse(Giving(v, nothing, g), default) = Setting(v, nothing, OrElse(g, default))
    /\ \A S, v, nothing, g :
          g \in Maybe(S) /\ (v # nothing => v \in S) => Giving(v, nothing, g) \in Maybe(S)
<1>1. ASSUME NEW v, NEW nothing, NEW g, NEW default
      PROVE  OrElse(Giving(v, nothing, g), default) = Setting(v, nothing, OrElse(g, default))
  <2>1. CASE v # nothing
    BY <2>1, MaybeFacts DEF Giving, Setting
  <2>2. CASE v = nothing
    BY <2>2 DEF Giving, Setting
  <2> QED BY <2>1, <2>2
<1>2. ASSUME NEW S, NEW v, NEW nothing, NEW g, g \in Maybe(S), v # nothing => v \in S
      PROVE  Giving(v, nothing, g) \in Maybe(S)
  <2>1. CASE v # nothing
    BY <1>2, <2>1, MaybeFacts DEF Giving
  <2>2. CASE v = nothing
    BY <1>2, <2>2 DEF Giving
  <2> QED BY <2>1, <2>2
<1> QED BY <1>1, <1>2

(* A field of what has been given when one call more has spoken.           *)
LEMMA LatestFacts ==
    ASSUME NEW said, NEW held, NEW f \in Named
    PROVE  Latest(said, held)[f] = IF said[f] # <<>> THEN said[f] ELSE held[f]
  BY DEF Latest

(* A field a URI gives, and one given separately.                          *)
LEMMA SaidFacts ==
    ASSUME NEW new \in ConfigType
    PROVE  /\ new.uri = <<>> => Says(new) = SaysApart(new)
           /\ new.uri # <<>> => /\ new.uri[1] \in UriType
                               /\ Says(new) = Latest(SaysUri(new.uri[1]), SaysApart(new))
<1>1. new.uri \in Seq(UriType)
  BY DEF ConfigType
<1>2. CASE new.uri # <<>>
  <2>1. Len(new.uri) \in Nat /\ Len(new.uri) # 0
    BY <1>1, <1>2, EmptySeq
  <2> QED BY <1>1, <1>2, <2>1 DEF Says
<1> QED BY <1>2 DEF Says

(* esp_mqtt_client_set_uri follows what the URI gives.                     *)
LEMMA UriGiven ==
    ASSUME NEW c \in Stored, NEW u \in UriType, NEW g, GivenOK(g), NEW from, Agrees(c, g, from),
           NEW h, DOMAIN h = Named \cup {"tls"}, h.tls = g.tls,
           \A f \in Named : h[f] = Latest(SaysUri(u), g)[f]
    PROVE  Agrees(set_uri(c, u), h, from) /\ GivenOK(h)
<1> DEFINE d == set_uri(c, u)
<1>1. /\ d.scheme = u.scheme /\ d.host = u.host /\ d.path = u.path
      /\ d.port = Setting(u.port, 0, c.port)
      /\ d.username = Setting(u.username, Absent, c.username)
      /\ d.password = Setting(u.password, Absent, c.password)
      /\ d.client_id = c.client_id /\ d.keepalive = c.keepalive /\ d.tls = c.tls
  BY UriFacts DEF Setting
<1> HIDE DEF d
<1>2. /\ h.scheme = <<u.scheme>> /\ h.host = <<u.host>> /\ h.path = <<u.path>>
      /\ h.port = Giving(u.port, 0, g.port)
      /\ h.username = Giving(u.username, Absent, g.username)
      /\ h.password = Giving(u.password, Absent, g.password)
      /\ h.client_id = g.client_id /\ h.keepalive = g.keepalive
  <2>1. \A f \in Named : h[f] = IF SaysUri(u)[f] # <<>> THEN SaysUri(u)[f] ELSE g[f]
    BY LatestFacts
  <2>2. /\ SaysUri(u).scheme = <<u.scheme>> /\ SaysUri(u).host = <<u.host>>
        /\ SaysUri(u).path = <<u.path>> /\ SaysUri(u).client_id = <<>> /\ SaysUri(u).keepalive = <<>>
        /\ SaysUri(u).port = IF u.port = 0 THEN <<>> ELSE <<u.port>>
        /\ SaysUri(u).username = IF u.username = Absent THEN <<>> ELSE <<u.username>>
        /\ SaysUri(u).password = IF u.password = Absent THEN <<>> ELSE <<u.password>>
    BY DEF SaysUri, Unless
  <2>3. \A v : <<v>> # <<>>
    BY MaybeFacts
  <2> QED BY <2>1, <2>2, <2>3, Zenon DEF Named, Giving
<1>3. /\ u.scheme \in Text /\ u.host \in Text /\ u.path \in Text /\ u.port \in Nat
      /\ u.username \in Text /\ u.password \in Text
  BY DEF UriType, Text
<1>4. GivenOK(h)
  <2>1. /\ h.scheme \in Maybe(Text) /\ h.host \in Maybe(Text) /\ h.path \in Maybe(Text)
    BY <1>2, <1>3, MaybeFacts
  <2>2. g.username \in Maybe(Text) /\ g.password \in Maybe(Text) /\ g.port \in Maybe(Nat \ {0})
    BY DEF GivenOK, Plain
  <2>3. h.username \in Maybe(Text) /\ h.password \in Maybe(Text)
    BY <1>2, <1>3, <2>2, GivingFacts
  <2>4. u.port # 0 => u.port \in Nat \ {0}
    BY <1>3
  <2>5. h.port \in Maybe(Nat \ {0})
    BY <1>2, <2>2, <2>4, GivingFacts
  <2>6. \A f \in Plain : h[f] \in Maybe(Text)
    BY <2>1, <2>3 DEF Plain
  <2> QED BY <1>2, <2>5, <2>6 DEF GivenOK
<1>5. \A f \in Plain : d[f] = OrElse(h[f], Absent)
  <2>1. c.username = OrElse(g.username, Absent) /\ c.password = OrElse(g.password, Absent)
    BY DEF Agrees, Plain
  <2>2. d.scheme = OrElse(h.scheme, Absent) /\ d.host = OrElse(h.host, Absent) /\ d.path = OrElse(h.path, Absent)
    BY <1>1, <1>2, MaybeFacts
  <2>3. d.username = OrElse(h.username, Absent) /\ d.password = OrElse(h.password, Absent)
    BY <1>1, <1>2, <2>1, GivingFacts
  <2> QED BY <2>2, <2>3 DEF Plain
<1>6. d.port = OrElse(h.port, IF from = Absent THEN 0 ELSE DefaultPort(from))
  <2>1. c.port = OrElse(g.port, IF from = Absent THEN 0 ELSE DefaultPort(from))
    BY DEF Agrees
  <2>2. PICK default : default = IF from = Absent THEN 0 ELSE DefaultPort(from)
    OBVIOUS
  <2> QED BY <1>1, <1>2, <2>1, <2>2, GivingFacts
<1>7. /\ d.client_id = OrElse(h.client_id, "generated")
      /\ d.keepalive = OrElse(h.keepalive, MQTT_KEEPALIVE_TICK) /\ h.tls \subseteq d.tls
  BY <1>1, <1>2 DEF Agrees
<1> QED
  BY <1>4, <1>5, <1>6, <1>7 DEF Agrees, d

(* What is still held of what was given: a keepalive of zero is not.       *)
HeldOf(g) == [g EXCEPT !.keepalive = IF @ = <<0>> THEN <<>> ELSE @]

(* The fields of esp_mqtt_set_config follow what is given separately.      *)
LEMMA ApartGiven ==
    ASSUME NEW c \in Stored, NEW new \in ConfigType, NEW g, GivenOK(g), NEW from, AgreesOrBlank(c, g, from),
           NEW h, DOMAIN h = Named \cup {"tls"}, h.tls = new.tls,
           \A f \in Named : h[f] = Latest(SaysApart(new), HeldOf(g))[f]
    PROVE  Agrees(fields(c, new), h, from) /\ GivenOK(h)
<1> DEFINE d == fields(c, new)
<1>1. /\ d.host = Setting(new.hostname, Absent, c.host)
      /\ d.path = Setting(new.path, Absent, c.path)
      /\ d.username = Setting(new.username, Absent, c.username)
      /\ d.password = Setting(new.password, Absent, c.password)
      /\ d.scheme = Setting(new.transport, Absent, c.scheme)
      /\ d.port = Setting(new.port, 0, c.port)
      /\ d.client_id = Setting(new.client_id, Absent, Setting(c.client_id, Absent, "generated"))
      /\ d.tls = new.tls \cup (c.tls \cap Kept)
  <2>1. \A v, held : set_if_config(v, held) = Setting(v, Absent, held)
    BY DEF set_if_config, Setting
  <2>2. d.client_id = IF new.client_id # Absent THEN new.client_id
                      ELSE IF c.client_id = Absent THEN "generated" ELSE c.client_id
    BY FieldsFacts
  <2>3. d.port = IF new.port # 0 THEN new.port ELSE c.port
    BY FieldsFacts
  <2>4. /\ d.host = set_if_config(new.hostname, c.host) /\ d.path = set_if_config(new.path, c.path)
        /\ d.username = set_if_config(new.username, c.username)
        /\ d.password = set_if_config(new.password, c.password)
        /\ d.scheme = set_if_config(new.transport, c.scheme)
        /\ d.tls = new.tls \cup (c.tls \cap Kept)
    BY FieldsFacts
  <2> HIDE DEF d
  <2> QED BY <2>1, <2>2, <2>3, <2>4 DEF Setting
<1>0. d.keepalive = IF new.disable_keepalive THEN 0
                    ELSE Setting(new.keepalive, 0, Setting(c.keepalive, 0, MQTT_KEEPALIVE_TICK))
  <2>1. d.keepalive = IF new.disable_keepalive THEN 0
                      ELSE IF new.keepalive # 0 THEN new.keepalive
                      ELSE IF c.keepalive # 0 THEN c.keepalive ELSE MQTT_KEEPALIVE_TICK
    BY FieldsFacts
  <2> HIDE DEF d
  <2> QED BY <2>1 DEF Setting
<1> HIDE DEF d
<1> DEFINE e == HeldOf(g)
<1>2. /\ \A f \in Named \ {"keepalive"} : e[f] = g[f]
      /\ e.keepalive = IF g.keepalive = <<0>> THEN <<>> ELSE g.keepalive
  BY DEF GivenOK, Named, HeldOf
<1> HIDE DEF e
<1>3. \A f \in Named : h[f] = IF SaysApart(new)[f] # <<>> THEN SaysApart(new)[f] ELSE e[f]
  BY LatestFacts DEF e
<1>a. /\ \A v, default : OrElse(<<v>>, default) = v /\ OrElse(<<>>, default) = default
      /\ \A v : <<v>> # <<>>
  BY MaybeFacts
<1>4. /\ h.scheme = Giving(new.transport, Absent, g.scheme)
      /\ h.host = Giving(new.hostname, Absent, g.host)
      /\ h.path = Giving(new.path, Absent, g.path)
      /\ h.port = Giving(new.port, 0, g.port)
      /\ h.username = Giving(new.username, Absent, g.username)
      /\ h.password = Giving(new.password, Absent, g.password)
      /\ h.client_id = Giving(new.client_id, Absent, g.client_id)
  <2>1. /\ SaysApart(new).scheme = IF new.transport = Absent THEN <<>> ELSE <<new.transport>>
        /\ SaysApart(new).host = IF new.hostname = Absent THEN <<>> ELSE <<new.hostname>>
        /\ SaysApart(new).path = IF new.path = Absent THEN <<>> ELSE <<new.path>>
        /\ SaysApart(new).port = IF new.port = 0 THEN <<>> ELSE <<new.port>>
        /\ SaysApart(new).username = IF new.username = Absent THEN <<>> ELSE <<new.username>>
        /\ SaysApart(new).password = IF new.password = Absent THEN <<>> ELSE <<new.password>>
        /\ SaysApart(new).client_id = IF new.client_id = Absent THEN <<>> ELSE <<new.client_id>>
    BY DEF SaysApart, Unless
  <2>2. \A f \in Named \ {"keepalive"} :
            h[f] = IF SaysApart(new)[f] # <<>> THEN SaysApart(new)[f] ELSE g[f]
    BY <1>2, <1>3, Zenon
  <2>3. {"scheme", "host", "path", "port", "username", "password", "client_id"}
            \subseteq Named \ {"keepalive"}
    BY DEF Named
  <2> QED BY <1>a, <2>1, <2>2, <2>3, Zenon DEF Giving
<1>5. h.keepalive = IF new.disable_keepalive THEN <<0>> ELSE Giving(new.keepalive, 0, e.keepalive)
  <2>1. h.keepalive = IF SaysApart(new).keepalive # <<>> THEN SaysApart(new).keepalive ELSE e.keepalive
    BY <1>3 DEF Named
  <2>2. SaysApart(new).keepalive = IF new.disable_keepalive THEN <<0>>
                                   ELSE IF new.keepalive = 0 THEN <<>> ELSE <<new.keepalive>>
    BY DEF SaysApart, Unless
  <2> QED BY <1>a, <2>1, <2>2, Zenon DEF Giving
<1>6. /\ new.transport \in Text /\ new.hostname \in Text /\ new.path \in Text /\ new.port \in Nat
      /\ new.username \in Text /\ new.password \in Text /\ new.client_id \in Text
      /\ new.keepalive \in Nat /\ new.disable_keepalive \in BOOLEAN /\ new.tls \in SUBSET Options
  BY DEF ConfigType, Text, Options
<1>7. GivenOK(h)
  <2>0. /\ g.scheme \in Maybe(Text) /\ g.host \in Maybe(Text) /\ g.path \in Maybe(Text)
        /\ g.username \in Maybe(Text) /\ g.password \in Maybe(Text)
        /\ g.client_id \in Maybe(Text \ {Absent}) /\ g.port \in Maybe(Nat \ {0})
        /\ g.keepalive \in Maybe(Nat)
    BY DEF GivenOK, Plain
  <2>1. \A f \in Plain : h[f] \in Maybe(Text)
    <3>1. h.scheme \in Maybe(Text) /\ h.host \in Maybe(Text) /\ h.path \in Maybe(Text)
      BY <1>4, <1>6, <2>0, GivingFacts
    <3>2. h.username \in Maybe(Text) /\ h.password \in Maybe(Text)
      BY <1>4, <1>6, <2>0, GivingFacts
    <3> QED BY <3>1, <3>2 DEF Plain
  <2>2. h.client_id \in Maybe(Text \ {Absent}) /\ h.port \in Maybe(Nat \ {0})
    <3>1. /\ new.client_id # Absent => new.client_id \in Text \ {Absent}
          /\ new.port # 0 => new.port \in Nat \ {0}
      BY <1>6
    <3> QED BY <1>4, <2>0, <3>1, GivingFacts
  <2>3. h.keepalive \in Maybe(Nat)
    <3>1. e.keepalive \in Maybe(Nat)
      BY <1>2, <2>0, MaybeFacts
    <3>2. CASE new.disable_keepalive
      <4>1. h.keepalive = <<0>> /\ 0 \in Nat
        BY <1>5, <3>2
      <4> QED BY <4>1, MaybeFacts
    <3>3. CASE ~new.disable_keepalive
      <4>1. h.keepalive = Giving(new.keepalive, 0, e.keepalive)
        BY <1>5, <3>3
      <4> QED BY <1>6, <3>1, <4>1, GivingFacts
    <3> QED BY <3>2, <3>3
  <2> QED BY <1>6, <2>1, <2>2, <2>3 DEF GivenOK
<1>8. \A f \in Plain : d[f] = OrElse(h[f], Absent)
  <2>1. /\ c.scheme = OrElse(g.scheme, Absent) /\ c.host = OrElse(g.host, Absent) /\ c.path = OrElse(g.path, Absent)
        /\ c.username = OrElse(g.username, Absent) /\ c.password = OrElse(g.password, Absent)
    BY DEF AgreesOrBlank, Plain
  <2>2. d.scheme = OrElse(h.scheme, Absent) /\ d.host = OrElse(h.host, Absent) /\ d.path = OrElse(h.path, Absent)
    BY <1>1, <1>4, <2>1, GivingFacts
  <2>3. d.username = OrElse(h.username, Absent) /\ d.password = OrElse(h.password, Absent)
    BY <1>1, <1>4, <2>1, GivingFacts
  <2> QED BY <2>2, <2>3 DEF Plain
<1>9. d.port = OrElse(h.port, IF from = Absent THEN 0 ELSE DefaultPort(from))
  <2>1. c.port = OrElse(g.port, IF from = Absent THEN 0 ELSE DefaultPort(from))
    BY DEF AgreesOrBlank
  <2>2. PICK default : default = IF from = Absent THEN 0 ELSE DefaultPort(from)
    OBVIOUS
  <2> QED BY <1>1, <1>4, <2>1, <2>2, GivingFacts
<1>10. d.client_id = OrElse(h.client_id, "generated")
  <2>1. Setting(c.client_id, Absent, "generated") = OrElse(g.client_id, "generated")
    <3>1. CASE g.client_id = <<>>
      <4>1. OrElse(g.client_id, "generated") = "generated"
        BY <1>a, <3>1
      <4> QED BY <4>1 DEF AgreesOrBlank, Setting
    <3>2. CASE g.client_id # <<>>
      <4>1. PICK v \in Text \ {Absent} : g.client_id = <<v>>
        BY <3>2, MaybeFacts DEF GivenOK
      <4>2. OrElse(g.client_id, "generated") = v
        BY <1>a, <4>1
      <4> QED BY <3>2, <4>1, <4>2 DEF AgreesOrBlank, Setting
    <3> QED BY <3>1, <3>2
  <2> QED BY <1>1, <1>4, <2>1, GivingFacts
<1>11. d.keepalive = OrElse(h.keepalive, MQTT_KEEPALIVE_TICK)
  <2>1. Setting(c.keepalive, 0, MQTT_KEEPALIVE_TICK) = OrElse(e.keepalive, MQTT_KEEPALIVE_TICK)
    <3>1. CASE g.keepalive = <<>>
      <4>1. /\ OrElse(g.keepalive, MQTT_KEEPALIVE_TICK) = MQTT_KEEPALIVE_TICK
            /\ e.keepalive = <<>>
        BY <1>2, <1>a, <3>1
      <4> QED BY <3>1, <4>1 DEF AgreesOrBlank, Setting
    <3>2. CASE g.keepalive # <<>>
      <4>1. PICK v \in Nat : g.keepalive = <<v>>
        BY <3>2, MaybeFacts DEF GivenOK
      <4>2. c.keepalive = v
        <5>1. OrElse(g.keepalive, MQTT_KEEPALIVE_TICK) = v
          BY <1>a, <4>1
        <5> QED BY <3>2, <5>1 DEF AgreesOrBlank
      <4>3. e.keepalive = IF v = 0 THEN <<>> ELSE <<v>>
        <5>1. <<v>> = <<0>> => v = 0
          BY MaybeFacts
        <5> QED BY <1>2, <4>1, <5>1, Zenon
      <4>4. CASE v = 0
        <5>1. OrElse(e.keepalive, MQTT_KEEPALIVE_TICK) = MQTT_KEEPALIVE_TICK
          BY <1>a, <4>3, <4>4
        <5> QED BY <4>2, <4>4, <5>1 DEF Setting
      <4>5. CASE v # 0
        <5>1. e.keepalive = <<v>>
          BY <4>3, <4>5, Zenon
        <5>2. OrElse(e.keepalive, MQTT_KEEPALIVE_TICK) = v
          BY <1>a, <5>1
        <5> QED BY <4>2, <4>5, <5>2 DEF Setting
      <4> QED BY <4>4, <4>5
    <3> QED BY <3>1, <3>2
  <2>2. CASE new.disable_keepalive
    <3>1. h.keepalive = <<0>> /\ d.keepalive = 0
      BY <1>0, <1>5, <2>2
    <3> QED BY <1>a, <3>1
  <2>3. CASE ~new.disable_keepalive
    <3>1. /\ h.keepalive = Giving(new.keepalive, 0, e.keepalive)
          /\ d.keepalive = Setting(new.keepalive, 0, Setting(c.keepalive, 0, MQTT_KEEPALIVE_TICK))
      BY <1>0, <1>5, <2>3
    <3> QED BY <2>1, <3>1, GivingFacts
  <2> QED BY <2>2, <2>3
<1> QED
  BY <1>1, <1>7, <1>8, <1>9, <1>10, <1>11 DEF Agrees, d

(* What a configuration leaves is what has been given until now.           *)
LEMMA ConfiguredFacts ==
    ASSUME NEW new \in ConfigType, NEW c \in Stored, GivenOK(given), AgreesOrBlank(c, given, first)
    PROVE  /\ configured(c, new) \in Stored
           /\ Agrees(configured(c, new), GivenAfter(new), first) /\ GivenOK(GivenAfter(new))
<1> DEFINE e == fields(c, new)
           held == HeldOf(given)
           h == [f \in Named \cup {"tls"} |-> IF f = "tls" THEN new.tls
                                             ELSE Latest(SaysApart(new), held)[f]]
<1>1. e \in Stored
  BY FieldsFacts
<1>2. /\ DOMAIN h = Named \cup {"tls"} /\ h.tls = new.tls
      /\ \A f \in Named : h[f] = Latest(SaysApart(new), held)[f]
  BY DEF Named
<1>3. Agrees(e, h, first) /\ GivenOK(h)
  <2> HIDE DEF h
  <2> QED BY <1>2, ApartGiven
<1>4. /\ DOMAIN GivenAfter(new) = Named \cup {"tls"} /\ GivenAfter(new).tls = new.tls
      /\ \A f \in Named : GivenAfter(new)[f] = Latest(Says(new), held)[f]
  BY DEF GivenAfter, Named, HeldOf
<1>5. CASE new.uri = <<>>
  <2>1. configured(c, new) = e /\ Says(new) = SaysApart(new)
    BY <1>5, SaidFacts DEF configured
  <2>2. DOMAIN GivenAfter(new) = DOMAIN h /\ \A f \in DOMAIN h : GivenAfter(new)[f] = h[f]
    BY <1>2, <1>4, <2>1
  <2> HIDE DEF h, e
  <2>3. Agrees(e, GivenAfter(new), first) /\ GivenOK(GivenAfter(new))
    BY <1>2, <1>3, <2>2 DEF Agrees, GivenOK, Named, Plain
  <2> QED BY <1>1, <2>1, <2>3
<1>6. CASE new.uri # <<>>
  <2>1. PICK u : u = new.uri[1]
    OBVIOUS
  <2>2. u \in UriType /\ Says(new) = Latest(SaysUri(u), SaysApart(new))
    BY <1>6, <2>1, SaidFacts
  <2>3. configured(c, new) = set_uri(e, u)
    BY <1>6, <2>1 DEF configured
  <2> HIDE DEF h, e, held
  <2>4. \A f \in Named : GivenAfter(new)[f] = Latest(SaysUri(u), h)[f]
    <3>1. ASSUME NEW f \in Named
          PROVE  GivenAfter(new)[f] = Latest(SaysUri(u), h)[f]
      <4>1. Latest(Says(new), held)[f] = IF Says(new)[f] # <<>> THEN Says(new)[f] ELSE held[f]
        BY LatestFacts
      <4>2. Says(new)[f] = IF SaysUri(u)[f] # <<>> THEN SaysUri(u)[f] ELSE SaysApart(new)[f]
        BY <2>2, LatestFacts
      <4>3. h[f] = IF SaysApart(new)[f] # <<>> THEN SaysApart(new)[f] ELSE held[f]
        BY <1>2, LatestFacts
      <4>4. Latest(SaysUri(u), h)[f] = IF SaysUri(u)[f] # <<>> THEN SaysUri(u)[f] ELSE h[f]
        BY LatestFacts
      <4> QED BY <1>4, <4>1, <4>2, <4>3, <4>4
    <3> QED BY <3>1
  <2>5. set_uri(e, u) \in Stored
    BY <1>1, <2>2, UriFacts
  <2>6. Agrees(set_uri(e, u), GivenAfter(new), first) /\ GivenOK(GivenAfter(new))
    BY <1>1, <1>2, <1>3, <1>4, <2>2, <2>4, UriGiven
  <2> QED BY <2>3, <2>5, <2>6
<1> QED BY <1>5, <1>6

(* The options applied: the CA, which is the first; and all when the build  *)
(* lacks none.                                                             *)
LEMMA AppliedFacts ==
    ASSUME NEW options \in SUBSET Options
    PROVE  /\ "ca" \in options \ Unsupported => "ca" \in tls_applied(options)
           /\ options \cap Unsupported = {} => options \subseteq tls_applied(options)
<1> DEFINE cut == {i \in DOMAIN TlsOptions : TlsOptions[i] \in options \cap Unsupported}
           left == {j \in DOMAIN TlsOptions : TlsOptions[j] \in options /\ \A k \in cut : j < k}
<1>1. tls_applied(options) = {TlsOptions[i] : i \in left}
  BY Zenon DEF tls_applied
<1>2. ASSUME "ca" \in options \ Unsupported PROVE "ca" \in tls_applied(options)
  <2>1. DOMAIN TlsOptions = 1 .. 12 /\ TlsOptions[1] = "ca"
    BY DEF TlsOptions
  <2>2. \A k \in cut : k \in 1 .. 12 /\ k # 1
    BY <1>2, <2>1
  <2>3. 1 \in left
    BY <1>2, <2>1, <2>2
  <2> QED BY <1>1, <2>1, <2>3
<1>3. options \cap Unsupported = {} => options \subseteq tls_applied(options)
  <2>1. HAVE options \cap Unsupported = {}
  <2>2. cut = {}
    BY <2>1
  <2>3. SUFFICES ASSUME NEW o \in options PROVE \E i \in left : o = TlsOptions[i]
    BY <1>1, Zenon
  <2>4. PICK i \in DOMAIN TlsOptions : o = TlsOptions[i]
    BY Zenon DEF Options
  <2>5. i \in left
    BY <2>2, <2>3, <2>4, Zenon
  <2> QED BY <2>4, <2>5
<1> QED BY <1>2, <1>3

(* calloc leaves a record of the type.                                     *)
LEMMA BlankStored == Blank \in Stored
  BY DEF Blank, Stored, Text

(* A stored record with another port.                                      *)
LEMMA PortFacts ==
    ASSUME NEW c \in Stored, NEW port \in Nat
    PROVE  /\ [c EXCEPT !.port = port] \in Stored
           /\ [c EXCEPT !.port = port].port = port
           /\ \A f \in (Named \cup {"tls"}) \ {"port"} : [c EXCEPT !.port = port][f] = c[f]
  BY DEF Stored, Named

(* Nothing given, and nothing held.                                        *)
LEMMA NothingFacts == GivenOK(NothingGiven) /\ AgreesOrBlank(Blank, NothingGiven, Absent)
<1>1. /\ DOMAIN NothingGiven = Named \cup {"tls"} /\ NothingGiven.tls = {}
      /\ \A f \in Named : NothingGiven[f] = <<>>
  BY DEF NothingGiven, Named
<1>2. OrElse(<<>>, Absent) = Absent /\ OrElse(<<>>, 0) = 0 /\ \A S : <<>> \in Maybe(S)
  BY MaybeFacts
<1>3. GivenOK(NothingGiven)
  BY <1>1, <1>2 DEF GivenOK, Plain, Named
<1>4. \A f \in Plain : Blank[f] = Absent /\ NothingGiven[f] = <<>>
  BY <1>1 DEF Blank, Plain, Named
<1>5. /\ NothingGiven.port = <<>> /\ NothingGiven.client_id = <<>> /\ NothingGiven.keepalive = <<>>
      /\ Blank.port = 0 /\ Blank.client_id = Absent /\ Blank.keepalive = 0
  <2>1. {"port", "client_id", "keepalive"} \subseteq Named
    BY DEF Named
  <2>2. /\ NothingGiven["port"] = <<>> /\ NothingGiven["client_id"] = <<>>
        /\ NothingGiven["keepalive"] = <<>>
    BY <1>1, <2>1
  <2> QED BY <2>2 DEF Blank
<1> QED BY <1>2, <1>3, <1>4, <1>5 DEF AgreesOrBlank

(* An empty configuration keeps ConfigInv.                                 *)
LEMMA ForgottenStep ==
    ASSUME ConfigInv, Forgotten, dialled' = <<>>
    PROVE  ConfigInv'
<1>1. config' = <<>> /\ given' = NothingGiven /\ first' = Absent
  BY DEF Forgotten
<1>2. GivenOK(given')
  BY <1>1, NothingFacts
<1> QED BY <1>1, <1>2 DEF ConfigInv, DialsAsAsked

(* esp_mqtt_client_init and esp_mqtt_set_config.                           *)
LEMMA ConfigureStep ==
    ASSUME ConfigInv, NEW new \in Configs, init(new) \/ set_config(new)
    PROVE  ConfigInv'
<1>1. dialled' = <<>> /\ new \in ConfigType
  BY ConfigAssumption DEF init, set_config
<1>2. DialsAsAsked'
  BY <1>1 DEF ConfigInv, DialsAsAsked
<1>3. Forgotten \/ (Succeeds(new) /\ set_config(new)) \/ (Succeeds(new) /\ init(new) /\ ~client)
  BY Zenon DEF init, set_config, Fails
<1>4. CASE Forgotten
  BY <1>1, <1>4, ForgottenStep
<1>5. CASE Succeeds(new)
  <2>1. Current \in Stored /\ AgreesOrBlank(Current, given, first) /\ GivenOK(given)
    <3>1. CASE config = <<>>
      BY <3>1, BlankStored, NothingFacts DEF Current, ConfigInv
    <3>2. CASE config # <<>>
      <4>1. PICK c \in Stored : config = <<c>> /\ Agrees(c, given, first)
        BY <3>2 DEF ConfigInv
      <4>2. AgreesOrBlank(c, given, first)
        BY <4>1 DEF AgreesOrBlank, Agrees
      <4> QED BY <3>2, <4>1, <4>2 DEF Current, ConfigInv
    <3> QED BY <3>1, <3>2
  <2>2. /\ configured(Current, new) \in Stored
        /\ Agrees(configured(Current, new), GivenAfter(new), first) /\ GivenOK(GivenAfter(new))
    BY <1>1, <2>1, ConfiguredFacts
  <2>3. /\ config' = <<configured(Current, new)>> /\ given' = GivenAfter(new) /\ first' = first
    BY <1>5 DEF Succeeds
  <2> QED BY <1>2, <2>2, <2>3 DEF ConfigInv
<1> QED
  BY <1>3, <1>4, <1>5

(* esp_mqtt_client_set_uri.                                                *)
LEMMA SetUriStep ==
    ASSUME ConfigInv, NEW u \in Uris, SetUri(u)
    PROVE  ConfigInv'
<1>1. u \in UriType /\ GivenOK(given)
  BY ConfigAssumption DEF ConfigInv
<1>2. PICK c \in Stored : config = <<c>> /\ Agrees(c, given, first)
  BY DEF ConfigInv, SetUri
<1>3. /\ config' = <<set_uri(c, u)>> /\ given' = GivenAfterUri(u)
      /\ first' = first /\ dialled' = <<>>
  BY <1>2 DEF SetUri
<1>4. /\ DOMAIN GivenAfterUri(u) = Named \cup {"tls"} /\ GivenAfterUri(u).tls = given.tls
      /\ \A f \in Named : GivenAfterUri(u)[f] = Latest(SaysUri(u), given)[f]
  BY DEF GivenAfterUri, Named
<1>5. Agrees(set_uri(c, u), GivenAfterUri(u), first) /\ GivenOK(GivenAfterUri(u))
  BY <1>1, <1>2, <1>4, UriGiven
<1>6. set_uri(c, u) \in Stored
  BY <1>1, UriFacts
<1> QED
  BY <1>3, <1>5, <1>6 DEF ConfigInv, DialsAsAsked

(* The connection attempt.                                                 *)
LEMMA DialStep ==
    ASSUME ConfigInv, Dial
    PROVE  ConfigInv'
<1>1. PICK c \in Stored : config = <<c>> /\ Agrees(c, given, first)
  BY DEF ConfigInv, Dial
<1>2. /\ GivenOK(given) /\ first \in Schemes \cup {Absent} /\ c.scheme \in Schemes
      /\ c.port \in Nat /\ c.tls \in SUBSET Options
  BY <1>1 DEF ConfigInv, Dial, Stored
<1> DEFINE port == IF c.port = 0 THEN DefaultPort(c.scheme) ELSE c.port
           from == IF first = Absent THEN c.scheme ELSE first
           tls == IF c.scheme \in Secured THEN tls_applied(c.tls) ELSE {}
           d == [c EXCEPT !.port = port]
           attempt == [to |-> d, tls |-> tls, given |-> given, first |-> from]
<1>3. /\ config' = <<d>> /\ first' = from /\ given' = given
      /\ dialled' = <<attempt>>
  BY <1>1 DEF Dial
<1>4. \A s \in Schemes : DefaultPort(s) \in Nat \ {0}
  BY DEF DefaultPort, Schemes
<1>5. from \in Schemes /\ port \in Nat
  BY <1>2, <1>4 DEF Schemes
<1>6. port = OrElse(given.port, DefaultPort(from))
  <2>1. CASE given.port = <<>> /\ first = Absent
    BY <1>1, <2>1 DEF Agrees, OrElse
  <2>2. CASE given.port = <<>> /\ first # Absent
    BY <1>1, <1>2, <1>4, <2>2 DEF Agrees, OrElse
  <2>3. CASE given.port # <<>>
    <3>1. PICK v \in Nat \ {0} : given.port = <<v>>
      BY <1>2, <2>3, MaybeFacts DEF GivenOK
    <3>2. \A default : OrElse(given.port, default) = v
      BY <3>1, MaybeFacts
    <3> QED BY <1>1, <3>2 DEF Agrees
  <2> QED BY <2>1, <2>2, <2>3
<1> HIDE DEF port
<1>7. /\ d \in Stored /\ d.port = port
      /\ \A f \in (Named \cup {"tls"}) \ {"port"} : d[f] = c[f]
  BY <1>5, PortFacts
<1> HIDE DEF d, from
<1>8. /\ \A f \in Plain : d[f] = OrElse(given[f], Absent)
      /\ d.client_id = OrElse(given.client_id, "generated")
      /\ d.keepalive = OrElse(given.keepalive, MQTT_KEEPALIVE_TICK)
      /\ d.port = OrElse(given.port, DefaultPort(from)) /\ given.tls \subseteq d.tls
      /\ d.scheme = c.scheme /\ d.tls = c.tls
  BY <1>1, <1>6, <1>7 DEF Agrees, Named, Plain
<1>9. Agrees(d, given, from) /\ from # Absent
  <2>1. from # Absent
    BY <1>5 DEF Absent, Schemes
  <2> QED BY <1>8, <2>1 DEF Agrees
<1>10. /\ (d.scheme \in Secured /\ "ca" \in given.tls \ Unsupported) => "ca" \in tls
       /\ (d.scheme \in Secured /\ d.tls \cap Unsupported = {}) => given.tls \subseteq tls
  BY <1>2, <1>8, AppliedFacts
<1> HIDE DEF tls
<1>11. DialsAsAsked'
  <2>1. /\ dialled' = <<attempt>> /\ attempt.to = d /\ attempt.tls = tls
        /\ attempt.given = given /\ attempt.first = from
    BY <1>3
  <2> HIDE DEF attempt
  <2> QED BY <1>8, <1>10, <2>1 DEF DialsAsAsked, Plain
<1> QED
  BY <1>2, <1>3, <1>5, <1>7, <1>9, <1>11 DEF ConfigInv

(* A step of any action keeps ConfigInv.                                   *)
LEMMA ConfigStep ==
    ASSUME ConfigInv, [ConfigNext]_configVars
    PROVE  ConfigInv'
<1>1. CASE UNCHANGED configVars
  BY <1>1 DEF configVars, ConfigInv, DialsAsAsked
<1>2. ASSUME NEW new \in Configs, init(new) \/ set_config(new) PROVE ConfigInv'
  BY <1>2, ConfigureStep
<1>3. ASSUME NEW u \in Uris, SetUri(u) PROVE ConfigInv'
  BY <1>3, SetUriStep
<1>4. CASE Dial
  BY <1>4, DialStep
<1>5. CASE Destroy
  BY <1>5, ForgottenStep DEF Destroy
<1> QED
  BY <1>1, <1>2, <1>3, <1>4, <1>5 DEF ConfigNext

(* DialsAsAsked for any configurations and URIs: in whatever order the     *)
(* client is configured, given a URI, dials, fails to be configured and is *)
(* destroyed, a connection attempt of the task goes to what was given last,*)
(* field by field, and to the defaults of what was never given.            *)
THEOREM ConfigDialsAsAsked == ConfigSpec => []DialsAsAsked
<1>1. ConfigInit => ConfigInv
  BY NothingFacts DEF ConfigInit, ConfigInv, DialsAsAsked
<1>2. ConfigInv /\ [ConfigNext]_configVars => ConfigInv'
  BY ConfigStep
<1>3. ConfigInv => DialsAsAsked
  BY DEF ConfigInv
<1> QED
  BY <1>1, <1>2, <1>3, PTL DEF ConfigSpec
=============================================================================
