----------------------- MODULE GatewayService_proofs -----------------------
(***************************************************************************)
(* Proofs about the gateway daemon: it uses SafeQueue as SafeQueue is      *)
(* specified, so that everything proved of the queue holds in the daemon,  *)
(* and no thread ever touches a destroyed queue.                           *)
(***************************************************************************)
EXTENDS GatewayService, SafeQueue_proofs

(* Every step of the daemon is a step of the queue or leaves it alone.     *)
LEMMA DaemonStepsQueue ==
    ASSUME [GatewayNext]_gatewayVars
    PROVE  [QueueNext]_queueVars
<1>1. Main \in Aborters /\ Worker \in Poppers /\ Paho \in Pushers
  BY GatewayAssumption
<1>2. CASE UNCHANGED gatewayVars
  BY <1>2 DEF gatewayVars
<1>3. ASSUME NEW r \in Records, MessageArrived(r) PROVE QueueNext
  BY <1>1, <1>3 DEF MessageArrived, QueueNext
<1>4. ASSUME NEW t \in Threads, QueueStep(t) PROVE QueueNext
  BY <1>4 DEF QueueStep, QueueNext
<1>5. CASE MainStep
  BY <1>1, <1>5 DEF MainStep, MainStart, ConnectWait, Subscribe, Shutdown, AbortReturns, Join,
     HandlerDtor, Disconnect, DisconnectWait, DestroyClient, DestroyQueue, QueueNext
<1>6. CASE WorkerStep
  BY <1>1, <1>6 DEF WorkerStep, WorkerLoop, WorkerPopped, QueueNext
<1>7. CASE Signal \/ SubAck \/ ConnectionLost \/ Ended
  BY <1>7 DEF Signal, SubAck, ConnectionLost, Ended, gatewayVars
<1> QED BY <1>2, <1>3, <1>4, <1>5, <1>6, <1>7 DEF GatewayNext

(* The daemon, with its three threads, is a user of SafeQueue: whatever    *)
(* holds of every behaviour of the queue holds in the daemon.              *)
THEOREM DaemonUsesQueue == GatewaySafety => QueueSafety
<1>1. GatewayInit => QueueInit
  BY DEF GatewayInit
<1> QED BY <1>1, DaemonStepsQueue, PTL DEF GatewaySafety, QueueSafety

-----------------------------------------------------------------------------
(* A thread that is inside no operation is not moved by the others.        *)
LEMMA IdleStaysIdle ==
    ASSUME QueueInv, NEW t \in Threads, OpStep(t), NEW u \in Threads, pc[u] = "idle"
    PROVE  pc'[u] = "idle"
<1>1. pc \in [Threads -> PushPoints \cup PopPoints \cup AbortPoints] /\ cond_ \in SUBSET Poppers
  BY DEF QueueInv, QueueTypeOK
<1>2. u \notin cond_
  BY <1>1 DEF QueueInv, CondInv
<1> QED
  BY <1>1, <1>2
  DEF OpStep, Inside, Lock, AfterLock, Unlock, PushAppend, NotifyOne, PopTest, PopWait,
      SpuriousWake, PopTake, AbortSet, NotifyAll, Goto

(* Where main is tells which objects live and which threads are outside    *)
(* the queue's operations.                                                 *)
LifeInv == /\ mainAt \in MainPoints
           /\ workerAt \in WorkerPoints
           /\ "queue" \notin objects => mainAt = "exited"
           /\ mainAt = "start" => workerAt = "none"
           /\ mainAt \in {"start", "destroy_queue", "exited"} => "client" \notin objects
           /\ mainAt \in {"handler_dtor", "disconnect", "disconnecting", "destroy_client",
                          "destroy_queue", "exited"} => workerAt = "exited"
           /\ workerAt # "popping" => pc[Worker] = "idle"
           /\ mainAt # "aborting" => pc[Main] = "idle"
           /\ "client" \notin objects => pc[Paho] = "idle"

LEMMA LifeStep ==
    ASSUME QueueInv, LifeInv, [GatewayNext]_gatewayVars
    PROVE  LifeInv'
<1> USE DEF LifeInv, MainPoints, WorkerPoints
<1>0. /\ Main \in Threads /\ Worker \in Threads /\ Paho \in Threads
      /\ Main # Worker /\ Main # Paho /\ Worker # Paho
      /\ pc \in [Threads -> PushPoints \cup PopPoints \cup AbortPoints]
  BY GatewayAssumption, QueueAssumption DEF Threads, QueueInv, QueueTypeOK
<1>1. CASE UNCHANGED gatewayVars
  BY <1>1 DEF gatewayVars, daemonVars, queueVars
<1>2. CASE Alive /\ MainStep
  <2>1. CASE Shutdown
    BY <1>0, <2>1 DEF Shutdown, AbortCall, Goto
  <2>2. CASE MainStart \/ ConnectWait \/ Subscribe \/ AbortReturns \/ Join
    BY <1>0, <2>2 DEF MainStart, ConnectWait, Subscribe, AbortReturns, Join, queueVars
  <2>3. CASE HandlerDtor \/ Disconnect \/ DisconnectWait
    BY <1>0, <2>3 DEF HandlerDtor, Disconnect, DisconnectWait, queueVars
  <2>4. CASE DestroyClient
    BY <1>0, <2>4 DEF DestroyClient, queueVars
  <2>5. CASE DestroyQueue
    BY <1>0, <2>5 DEF DestroyQueue, queueVars
  <2> QED BY <1>2, <2>1, <2>2, <2>3, <2>4, <2>5 DEF MainStep
<1>3. CASE Alive /\ WorkerStep
  BY <1>0, <1>3 DEF Alive, WorkerStep, WorkerLoop, WorkerPopped, PopCall, Goto, queueVars
<1>4. CASE Alive /\ (Signal \/ SubAck \/ ConnectionLost)
  BY <1>4 DEF Signal, SubAck, ConnectionLost, queueVars
<1>5. ASSUME NEW r \in Records, Alive, MessageArrived(r) PROVE LifeInv'
  BY <1>0, <1>5 DEF Alive, MessageArrived, PushCall, Goto, daemonVars
<1>6. ASSUME NEW t \in Threads, Alive, QueueStep(t) PROVE LifeInv'
  <2>1. \A u \in Threads : pc[u] = "idle" => pc'[u] = "idle"
    BY <1>6, IdleStaysIdle DEF QueueStep
  <2>2. UNCHANGED daemonVars
    BY <1>6 DEF QueueStep
  <2> QED BY <1>0, <2>1, <2>2 DEF daemonVars
<1> QED BY <1>1, <1>2, <1>3, <1>4, <1>5, <1>6 DEF GatewayNext, Ended

(* LifeInv holds in every state.                                           *)
LEMMA DaemonLife == GatewaySafety => []LifeInv
<1>1. GatewayInit => LifeInv
  BY GatewayAssumption DEF GatewayInit, QueueInit, LifeInv, MainPoints, WorkerPoints, Threads
<1>2. GatewaySafety => []QueueInv
  BY DaemonUsesQueue, QueueInvariant, PTL
<1> QED BY <1>1, <1>2, LifeStep, PTL DEF GatewaySafety

(* No callback, worker or main step ever uses a destroyed telemetry_queue, *)
(* for any records, any number of messages and any moment of the signal.   *)
THEOREM DaemonQueueOutlivesItsUsers == GatewaySafety => []QueueOutlivesItsUsers
<1>1. LifeInv => QueueOutlivesItsUsers
  BY GatewayAssumption DEF LifeInv, QueueOutlivesItsUsers, Threads
<1> QED BY <1>1, DaemonLife, PTL

(* A worker blocked in pop is never forgotten by the callback's push or by *)
(* main's abort.                                                           *)
THEOREM DaemonNoLostWakeup == GatewaySafety => []NoLostWakeup
BY DaemonUsesQueue, QueueNoLostWakeup, PTL

-----------------------------------------------------------------------------
(* What pop has handed to the worker is the last record taken from the     *)
(* queue.                                                                  *)
HandInv == /\ ingested \in Seq(Records)
           /\ InHand => popped # <<>> /\ item[Worker] = popped[Len(popped)]

(* A step that handles and reports nothing, and changes no record pushed.  *)
LEMMA NothingHandled ==
    ASSUME IngestedInOrder, Handled' = Handled, ingested' = ingested,
           \A i \in 1 .. Handled : pushed'[i] = pushed[i]
    PROVE  IngestedInOrder'
<1>1. WellFormed' = WellFormed /\ WellFormed \subseteq 1 .. Handled
  BY DEF WellFormed, Parses
<1>2. PICK place \in [1 .. Len(ingested) -> WellFormed] :
        /\ \A i, j \in 1 .. Len(ingested) : i < j => place[i] < place[j]
        /\ \A k \in WellFormed : \E i \in 1 .. Len(ingested) : place[i] = k
        /\ \A i \in 1 .. Len(ingested) : ingested[i] = pushed[place[i]]
  BY DEF IngestedInOrder
<1>3. \A i \in 1 .. Len(ingested) : ingested[i] = pushed'[place[i]]
  BY <1>1, <1>2
<1> QED BY <1>1, <1>2, <1>3 DEF IngestedInOrder

(* The worker is done with one more record, which it skips if malformed    *)
(* and reports otherwise.                                                  *)
LEMMA OneHandled ==
    ASSUME IngestedInOrder, ingested \in Seq(Records), Handled \in Nat, Handled' = Handled + 1,
           pushed' = pushed, pushed[Handled + 1] \in Records,
           ingested' = IF pushed[Handled + 1] \in Malformed THEN ingested
                       ELSE Append(ingested, pushed[Handled + 1])
    PROVE  IngestedInOrder'
<1> DEFINE h == Handled
           r == pushed[h + 1]
           n == Len(ingested)
<1>0. n \in Nat /\ h \in Nat
  BY LenProperties
<1>1. PICK place \in [1 .. n -> WellFormed] :
        /\ \A i, j \in 1 .. n : i < j => place[i] < place[j]
        /\ \A k \in WellFormed : \E i \in 1 .. n : place[i] = k
        /\ \A i \in 1 .. n : ingested[i] = pushed[place[i]]
  BY DEF IngestedInOrder
<1>2. /\ WellFormed = {i \in 1 .. h : pushed[i] \notin Malformed}
      /\ WellFormed' = {i \in 1 .. h + 1 : pushed[i] \notin Malformed}
  BY DEF WellFormed, Parses
<1>3. CASE r \in Malformed
  <2>1. WellFormed' = WellFormed
    BY <1>0, <1>2, <1>3
  <2> QED BY <1>1, <1>3, <2>1 DEF IngestedInOrder
<1>4. CASE r \notin Malformed
  <2>1. /\ WellFormed' = WellFormed \cup {h + 1}
        /\ \A k \in WellFormed : k \in Nat /\ k < h + 1
    BY <1>0, <1>2, <1>4
  <2>2. /\ Len(ingested') = n + 1
        /\ \A i \in 1 .. n : ingested'[i] = ingested[i]
        /\ ingested'[n + 1] = r
    BY <1>0, <1>4, AppendProperties
  <2> DEFINE more == [i \in 1 .. n + 1 |-> IF i = n + 1 THEN h + 1 ELSE place[i]]
  <2>3. \A i \in 1 .. n + 1 : i = n + 1 \/ i \in 1 .. n
    BY <1>0
  <2>4. /\ \A i \in 1 .. n : i \in 1 .. n + 1 /\ more[i] = place[i] /\ place[i] \in WellFormed
        /\ n + 1 \in 1 .. n + 1 /\ more[n + 1] = h + 1
    BY <1>0, <1>1
  <2>5. more \in [1 .. n + 1 -> WellFormed']
    BY <1>1, <2>1, <2>3
  <2> HIDE DEF more
  <2>6. \A i, j \in 1 .. n + 1 : i < j => more[i] < more[j]
    <3> SUFFICES ASSUME NEW i \in 1 .. n + 1, NEW j \in 1 .. n + 1, i < j
                 PROVE  more[i] < more[j]
      OBVIOUS
    <3>1. i \in 1 .. n
      BY <1>0, <2>3
    <3>2. CASE j \in 1 .. n
      BY <1>1, <2>4, <3>1, <3>2
    <3>3. CASE j = n + 1
      BY <2>1, <2>4, <3>1, <3>3
    <3> QED BY <2>3, <3>2, <3>3
  <2>7. \A k \in WellFormed' : \E i \in 1 .. n + 1 : more[i] = k
    BY <1>1, <2>1, <2>4
  <2>8. \A i \in 1 .. n + 1 : ingested'[i] = pushed'[more[i]]
    BY <1>1, <2>2, <2>3, <2>4
  <2> DEFINE N == n + 1
             W == WellFormed'
             J == ingested'
             P == pushed'
  <2>9. N = Len(J)
    BY <2>2
  <2> HIDE DEF N, W, J, P
  <2>10. \E f \in [1 .. N -> W] :
          /\ \A i, j \in 1 .. N : i < j => f[i] < f[j]
          /\ \A k \in W : \E i \in 1 .. N : f[i] = k
          /\ \A i \in 1 .. N : J[i] = P[f[i]]
    <3> SUFFICES /\ more \in [1 .. N -> W]
                 /\ \A i, j \in 1 .. N : i < j => more[i] < more[j]
                 /\ \A k \in W : \E i \in 1 .. N : more[i] = k
                 /\ \A i \in 1 .. N : J[i] = P[more[i]]
      OBVIOUS
    <3> QED BY <2>5, <2>6, <2>7, <2>8 DEF N, W, J, P
  <2>11. \E f \in [1 .. Len(J) -> W] :
          /\ \A i, j \in 1 .. Len(J) : i < j => f[i] < f[j]
          /\ \A k \in W : \E i \in 1 .. Len(J) : f[i] = k
          /\ \A i \in 1 .. Len(J) : J[i] = P[f[i]]
    BY <2>9, <2>10, Zenon
  <2> QED BY <2>11, Zenon DEF IngestedInOrder, W, J, P
<1> QED BY <1>3, <1>4

(* Every step of the daemon keeps the order.                               *)
LEMMA IngestStep ==
    ASSUME QueueInv, QueueInv', LifeInv, HandInv, IngestedInOrder, [GatewayNext]_gatewayVars
    PROVE  HandInv' /\ IngestedInOrder'
<1>0. /\ Worker \in Threads /\ Worker \in Poppers /\ Poppers = {Worker}
      /\ Main \in Threads /\ Paho \in Threads /\ Main # Worker /\ Paho # Worker
      /\ pc \in [Threads -> PushPoints \cup PopPoints \cup AbortPoints]
      /\ item \in [Threads -> Records \cup {Nullopt, NoItem}]
      /\ pushed \in Seq(Records) /\ popped \in Seq(Records) /\ queue_ \in Seq(Records)
  BY GatewayAssumption, QueueAssumption DEF Threads, QueueInv, QueueTypeOK
<1>1. /\ Len(popped) \in Nat /\ Len(popped) <= Len(pushed) /\ Len(pushed) \in Nat
      /\ \A i \in 1 .. Len(popped) : pushed[i] = popped[i]
  BY <1>0, ConcatProperties, LenProperties DEF QueueInv, History
<1>2. Handled \in Nat /\ Handled <= Len(popped)
  <2>1. InHand => Len(popped) > 0
    BY <1>0, <1>1, EmptySeq DEF HandInv
  <2> QED BY <1>1, <2>1 DEF Handled
<1>3. ASSUME UNCHANGED <<popped, ingested>>,
             InHand' <=> InHand, InHand => item'[Worker] = item[Worker],
             pushed' = pushed \/ \E r \in Records : pushed' = Append(pushed, r)
      PROVE  HandInv' /\ IngestedInOrder'
  <2>1. \A i \in 1 .. Handled : pushed'[i] = pushed[i]
    <3> SUFFICES ASSUME NEW i \in 1 .. Handled PROVE pushed'[i] = pushed[i]
      OBVIOUS
    <3>1. i \in 1 .. Len(pushed)
      BY <1>1, <1>2
    <3>2. CASE \E r \in Records : pushed' = Append(pushed, r)
      BY <1>0, <3>1, <3>2, AppendProperties
    <3> QED BY <1>3, <3>2
  <2>2. Handled' = Handled
    BY <1>3 DEF Handled
  <2>3. HandInv'
    BY <1>3 DEF HandInv
  <2> QED BY <1>3, <2>1, <2>2, <2>3, NothingHandled
<1>4. CASE UNCHANGED gatewayVars
  BY <1>3, <1>4 DEF gatewayVars, queueVars, daemonVars, InHand
<1>5. CASE MainStep
  <2>1. CASE Shutdown
    <3>1. UNCHANGED <<workerAt, ingested, popped, pushed, item>> /\ pc'[Worker] = pc[Worker]
      BY <1>0, <2>1 DEF Shutdown, AbortCall, Goto
    <3> QED BY <1>3, <3>1 DEF InHand
  <2>2. CASE MainStart
    <3>1. UNCHANGED <<ingested, popped, pushed, item>> /\ ~InHand /\ ~InHand'
      BY <2>2 DEF MainStart, queueVars, LifeInv, InHand
    <3> QED BY <1>3, <3>1
  <2>3. CASE MainStep /\ ~Shutdown /\ ~MainStart
    <3>1. UNCHANGED <<workerAt, ingested, popped, pushed, item, pc>>
      BY <2>3 DEF MainStep, ConnectWait, Subscribe, AbortReturns, Join, HandlerDtor, Disconnect,
         DisconnectWait, DestroyClient, DestroyQueue, queueVars
    <3> QED BY <1>3, <3>1 DEF InHand
  <2> QED BY <1>5, <2>1, <2>2, <2>3
<1>6. CASE WorkerLoop
  <2>1. UNCHANGED <<ingested, popped, pushed, item>> /\ ~InHand /\ ~InHand'
    BY <1>0, <1>6 DEF WorkerLoop, PopCall, Goto, queueVars, InHand
  <2> QED BY <1>3, <2>1
<1>7. CASE WorkerPopped
  <2>1. /\ UNCHANGED <<pushed, popped, item, pc>> /\ workerAt = "popping" /\ ~InHand'
        /\ pc[Worker] = "idle"
    BY <1>7 DEF WorkerPopped, queueVars, InHand
  <2>2. CASE item[Worker] = Nullopt
    <3>1. ingested' = ingested /\ ~InHand
      BY <1>7, <2>2 DEF WorkerPopped, InHand
    <3> QED BY <1>3, <2>1, <3>1
  <2>3. CASE item[Worker] # Nullopt
    <3>1. InHand /\ popped # <<>> /\ item[Worker] = popped[Len(popped)]
      BY <2>1, <2>3 DEF InHand, HandInv
    <3>2. Handled' = Handled + 1 /\ Handled + 1 = Len(popped) /\ Len(popped) \in 1 .. Len(popped)
      BY <1>0, <1>1, <2>1, <3>1, EmptySeq DEF Handled
    <3>3. pushed[Handled + 1] = item[Worker] /\ item[Worker] \in Records
      BY <1>0, <1>1, <3>1, <3>2, ElementOfSeq
    <3>4. ingested' = IF pushed[Handled + 1] \in Malformed THEN ingested
                      ELSE Append(ingested, pushed[Handled + 1])
      BY <1>7, <2>3, <3>3 DEF WorkerPopped
    <3>5. IngestedInOrder'
      BY <1>2, <2>1, <3>2, <3>3, <3>4, OneHandled DEF HandInv
    <3>6. ingested' \in Seq(Records)
      BY <3>3, <3>4, AppendProperties DEF HandInv
    <3> QED BY <2>1, <3>5, <3>6 DEF HandInv
  <2> QED BY <2>2, <2>3
<1>8. CASE Signal \/ SubAck \/ ConnectionLost
  BY <1>3, <1>8 DEF Signal, SubAck, ConnectionLost, queueVars, InHand
<1>9. ASSUME NEW r \in Records, MessageArrived(r) PROVE HandInv' /\ IngestedInOrder'
  <2>1. /\ UNCHANGED <<workerAt, ingested, popped, pushed>>
        /\ pc'[Worker] = pc[Worker] /\ item'[Worker] = item[Worker]
    BY <1>0, <1>9 DEF MessageArrived, PushCall, Goto, daemonVars
  <2> QED BY <1>3, <2>1 DEF InHand
<1>10. ASSUME NEW t \in Threads, QueueStep(t) PROVE HandInv' /\ IngestedInOrder'
  <2>0. UNCHANGED <<workerAt, ingested>> /\ OpStep(t)
    BY <1>10 DEF QueueStep, daemonVars
  <2>1. pc[Worker] \notin {"unlock", "idle"} => ~InHand
    BY DEF InHand
  <2>2. CASE PopTake(t)
    <3>1. t = Worker /\ pc[Worker] = "take" /\ pc'[Worker] = "unlock" /\ workerAt = "popping"
      BY <1>0, <2>2, Roles DEF PopTake, Goto, QueueInv, LifeInv
    <3>2. CASE UNCHANGED popped /\ item' = [item EXCEPT ![t] = Nullopt]
      <4>1. ~InHand /\ ~InHand' /\ pushed' = pushed
        BY <1>0, <2>2, <3>1, <3>2 DEF InHand, PopTake
      <4> QED BY <1>3, <2>0, <3>2, <4>1
    <3>3. CASE /\ queue_ # <<>> /\ item' = [item EXCEPT ![t] = Head(queue_)]
               /\ popped' = Append(popped, Head(queue_))
      <4>1. Head(queue_) \in Records
        BY <1>0, <3>3, HeadTailProperties
      <4>2. item'[Worker] = Head(queue_) /\ Head(queue_) # Nullopt
        BY <1>0, <3>1, <3>3, <4>1, QueueAssumption
      <4>3. /\ Len(popped') = Len(popped) + 1 /\ popped'[Len(popped')] = Head(queue_)
            /\ popped' # <<>>
        BY <1>0, <1>1, <3>3, <4>1, AppendProperties
      <4>4. InHand' /\ ~InHand
        BY <2>0, <3>1, <4>2 DEF InHand
      <4>5. Handled' = Handled
        BY <1>1, <4>3, <4>4 DEF Handled
      <4>6. pushed' = pushed
        BY <2>2 DEF PopTake
      <4>7. HandInv'
        BY <2>0, <4>2, <4>3 DEF HandInv
      <4> QED BY <2>0, <4>5, <4>6, <4>7, NothingHandled
    <3> QED BY <2>2, <3>2, <3>3 DEF PopTake
  <2>3. CASE PushAppend(t)
    <3>1. t # Worker /\ item[t] \in Records
      BY <1>0, <2>3, Roles DEF PushAppend, QueueInv, QueueTypeOK
    <3>2. /\ UNCHANGED <<item, popped>> /\ pc'[Worker] = pc[Worker]
          /\ pushed' = Append(pushed, item[t])
      BY <1>0, <2>3, <3>1 DEF PushAppend, Goto
    <3> QED BY <1>3, <2>0, <3>1, <3>2 DEF InHand
  <2>4. ASSUME UNCHANGED <<pushed, popped, item>>,
               pc'[Worker] \in {"unlock", "idle"} <=> pc[Worker] \in {"unlock", "idle"}
        PROVE  HandInv' /\ IngestedInOrder'
    BY <1>3, <2>0, <2>4 DEF InHand
  <2>5. CASE Lock(t) \/ SpuriousWake(t) \/ PopTest(t) \/ PopWait(t) \/ AbortSet(t) \/ Unlock(t)
    <3>1. UNCHANGED <<pushed, popped, item>>
      BY <2>5 DEF Lock, SpuriousWake, PopTest, PopWait, AbortSet, Unlock
    <3>2. cond_ \subseteq Poppers /\ (Worker \in cond_ => pc[Worker] = "asleep")
      BY <1>0 DEF QueueInv, CondInv, QueueTypeOK
    <3>3. pc'[Worker] \in {"unlock", "idle"} <=> pc[Worker] \in {"unlock", "idle"}
      BY <1>0, <2>5, <3>2 DEF Lock, AfterLock, SpuriousWake, PopTest, PopWait, AbortSet, Unlock, Goto
    <3> QED BY <2>4, <3>1, <3>3
  <2>6. CASE NotifyOne(t) \/ NotifyAll(t)
    <3>1. UNCHANGED <<pushed, popped, item>> /\ t # Worker
      BY <1>0, <2>6, Roles DEF NotifyOne, NotifyAll, QueueInv
    <3>2. cond_ \subseteq Poppers /\ (Worker \in cond_ => pc[Worker] = "asleep")
      BY <1>0 DEF QueueInv, CondInv, QueueTypeOK
    <3>3. pc'[Worker] = pc[Worker] \/ (Worker \in cond_ /\ pc'[Worker] = "woken")
      BY <1>0, <2>6, <3>1, <3>2 DEF NotifyOne, NotifyAll, Goto
    <3> QED BY <2>4, <3>1, <3>2, <3>3
  <2> QED BY <2>0, <2>2, <2>3, <2>5, <2>6 DEF OpStep, Inside
<1> QED BY <1>4, <1>5, <1>6, <1>7, <1>8, <1>9, <1>10 DEF GatewayNext, WorkerStep, Ended

(* The worker reports exactly the well-formed records in the order of the  *)
(* callback's pushes, for any records and any number of them, whenever the *)
(* signal comes.                                                           *)
THEOREM DaemonIngestedInOrder == GatewaySafety => []IngestedInOrder
<1>1. GatewayInit => HandInv /\ IngestedInOrder
  <2> SUFFICES ASSUME GatewayInit PROVE HandInv /\ IngestedInOrder
    OBVIOUS
  <2>1. ingested = <<>> /\ popped = <<>> /\ ~InHand
    BY DEF GatewayInit, QueueInit, InHand
  <2>2. Len(ingested) = 0 /\ Handled = 0 /\ ingested \in Seq(Records)
    BY <2>1, EmptySeq DEF Handled
  <2>3. WellFormed = {} /\ 1 .. Len(ingested) = {}
    BY <2>2 DEF WellFormed
  <2>4. [i \in {} |-> 0] \in [1 .. Len(ingested) -> WellFormed]
    BY <2>3
  <2> QED BY <2>1, <2>2, <2>3, <2>4 DEF HandInv, IngestedInOrder
<1>2. GatewaySafety => []QueueInv
  BY DaemonUsesQueue, QueueInvariant, PTL
<1>3. GatewaySafety => []LifeInv
  BY DaemonLife
<1>4. QueueInv /\ QueueInv' /\ LifeInv /\ HandInv /\ IngestedInOrder /\ [GatewayNext]_gatewayVars
        => HandInv' /\ IngestedInOrder'
  BY IngestStep
<1> QED BY <1>1, <1>2, <1>3, <1>4, PTL DEF GatewaySafety
=============================================================================
