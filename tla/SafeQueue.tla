----------------------------- MODULE SafeQueue -----------------------------
(***************************************************************************)
(* industrial::SafeQueue (gateway-service/src/safe_queue.hpp): a monitor   *)
(* made of std::queue, std::mutex, std::condition_variable and the flag    *)
(* aborted_.  A thread inside an operation is at a program point pc[t];    *)
(* everything between acquiring and releasing mutex_ is split into the     *)
(* accesses the code makes, so that mutual exclusion, the atomic           *)
(* "release and sleep" of wait and the choice of the thread that           *)
(* notify_one wakes are all explicit.                                      *)
(***************************************************************************)
EXTENDS Naturals, Sequences, FiniteSets

CONSTANTS Pushers,     \* threads that call push
          Poppers,     \* threads that call pop
          Aborters,    \* threads that call abort
          Records,     \* payloads
          Nullopt,     \* std::nullopt, the result of pop that ends a thread
          NoItem,      \* no value: a thread that has passed or received none
          NoThread,    \* owner of a free mutex
          MaxPushes    \* bound: calls of push that are explored

Threads == Pushers \cup Poppers \cup Aborters

ASSUME QueueAssumption ==
    /\ Nullopt \notin Records
    /\ NoItem \notin Records
    /\ Nullopt # NoItem
    /\ NoThread \notin Threads
    /\ IsFiniteSet(Threads)
    /\ Pushers \cap Poppers = {}
    /\ Pushers \cap Aborters = {}
    /\ Poppers \cap Aborters = {}
    /\ MaxPushes \in Nat

VARIABLES queue_,      \* the std::queue, front first
          aborted_,
          mutex_,      \* the thread that holds the mutex, or NoThread
          cond_,       \* the threads blocked on the condition variable
          pc,          \* where each thread is
          item,        \* the argument of push, the result of pop
          pushed,      \* history: every record appended to queue_, in order
          popped       \* history: every record taken from queue_, in order

queueVars == <<queue_, aborted_, mutex_, cond_, pc, item, pushed, popped>>

PushPoints  == {"idle", "push", "append", "notify_one", "unlock"}
PopPoints   == {"idle", "pop", "test", "wait", "asleep", "woken", "take", "unlock"}
AbortPoints == {"idle", "abort", "set", "notify_all", "unlock"}

Goto(t, point) == pc' = [pc EXCEPT ![t] = point]

QueueInit == /\ queue_ = <<>>
             /\ aborted_ = FALSE
             /\ mutex_ = NoThread
             /\ cond_ = {}
             /\ pc = [t \in Threads |-> "idle"]
             /\ item = [t \in Threads |-> NoItem]
             /\ pushed = <<>>
             /\ popped = <<>>

-----------------------------------------------------------------------------
(* Calls: what a thread may start when it is inside no operation.          *)

PushCall(t, r) == /\ pc[t] = "idle"
                  /\ Goto(t, "push")
                  /\ item' = [item EXCEPT ![t] = r]
                  /\ UNCHANGED <<queue_, aborted_, mutex_, cond_, pushed, popped>>

(* A thread that was given std::nullopt does not call pop again.           *)
PopCall(t) == /\ pc[t] = "idle"
              /\ item[t] # Nullopt
              /\ Goto(t, "pop")
              /\ UNCHANGED <<queue_, aborted_, mutex_, cond_, item, pushed, popped>>

AbortCall(t) == /\ pc[t] = "idle"
                /\ Goto(t, "abort")
                /\ UNCHANGED <<queue_, aborted_, mutex_, cond_, item, pushed, popped>>

-----------------------------------------------------------------------------
(* The mutex.  lock_guard and unique_lock release it on return.  A thread  *)
(* that leaves the condition variable must acquire it again.               *)

(* Mutant: wait without a predicate, as if every wakeup meant a record.    *)
AfterLockNoRetest == [push |-> "append", pop |-> "test", woken |-> "take", abort |-> "set"]

AfterLock == [push |-> "append", pop |-> "test", woken |-> "test", abort |-> "set"]

Lock(t) == /\ pc[t] \in DOMAIN AfterLock
           /\ mutex_ = NoThread
           /\ mutex_' = t
           /\ Goto(t, AfterLock[pc[t]])
           /\ UNCHANGED <<queue_, aborted_, cond_, item, pushed, popped>>

Unlock(t) == /\ pc[t] = "unlock"
             /\ mutex_' = NoThread
             /\ Goto(t, "idle")
             /\ UNCHANGED <<queue_, aborted_, cond_, item, pushed, popped>>

-----------------------------------------------------------------------------
(* push                                                                    *)

(* Mutant: notify only when the queue was empty.                           *)
PushAppendNotifyIfEmpty(t) ==
    /\ pc[t] = "append"
    /\ queue_' = Append(queue_, item[t])
    /\ pushed' = Append(pushed, item[t])
    /\ Goto(t, IF queue_ = <<>> THEN "notify_one" ELSE "unlock")
    /\ UNCHANGED <<aborted_, mutex_, cond_, item, popped>>

PushAppend(t) == /\ pc[t] = "append"
                 /\ queue_' = Append(queue_, item[t])
                 /\ pushed' = Append(pushed, item[t])
                 /\ Goto(t, "notify_one")
                 /\ UNCHANGED <<aborted_, mutex_, cond_, item, popped>>

(* Mutant: push forgets to notify.                                         *)
NotifyOneForgotten(t) == /\ pc[t] = "notify_one"
                         /\ Goto(t, "unlock")
                         /\ UNCHANGED <<queue_, aborted_, mutex_, cond_, item, pushed, popped>>

(* notify_one unblocks some thread that is blocked, if there is one.       *)
NotifyOne(t) ==
    /\ pc[t] = "notify_one"
    /\ \/ /\ cond_ = {}
          /\ Goto(t, "unlock")
          /\ UNCHANGED cond_
       \/ \E w \in cond_ : /\ cond_' = cond_ \ {w}
                           /\ pc' = [pc EXCEPT ![t] = "unlock", ![w] = "woken"]
    /\ UNCHANGED <<queue_, aborted_, mutex_, item, pushed, popped>>

-----------------------------------------------------------------------------
(* pop                                                                     *)

(* The predicate of cond_.wait, evaluated with the mutex held.             *)
PopTest(t) == /\ pc[t] = "test"
              /\ Goto(t, IF queue_ # <<>> \/ aborted_ THEN "take" ELSE "wait")
              /\ UNCHANGED <<queue_, aborted_, mutex_, cond_, item, pushed, popped>>

(* cond_.wait releases the mutex and blocks in one step.                   *)
PopWait(t) == /\ pc[t] = "wait"
              /\ mutex_' = NoThread
              /\ cond_' = cond_ \cup {t}
              /\ Goto(t, "asleep")
              /\ UNCHANGED <<queue_, aborted_, item, pushed, popped>>

(* A condition variable may unblock a thread that nobody notified.         *)
SpuriousWake(t) == /\ t \in cond_
                   /\ cond_' = cond_ \ {t}
                   /\ Goto(t, "woken")
                   /\ UNCHANGED <<queue_, aborted_, mutex_, item, pushed, popped>>

PopTake(t) ==
    /\ pc[t] = "take"
    /\ \/ /\ aborted_ /\ queue_ = <<>>
          /\ item' = [item EXCEPT ![t] = Nullopt]
          /\ UNCHANGED <<queue_, popped>>
       \/ /\ queue_ # <<>>
          /\ item' = [item EXCEPT ![t] = Head(queue_)]
          /\ popped' = Append(popped, Head(queue_))
          /\ queue_' = Tail(queue_)
    /\ Goto(t, "unlock")
    /\ UNCHANGED <<aborted_, mutex_, cond_, pushed>>

-----------------------------------------------------------------------------
(* abort                                                                   *)

AbortSet(t) == /\ pc[t] = "set"
               /\ aborted_' = TRUE
               /\ Goto(t, "notify_all")
               /\ UNCHANGED <<queue_, mutex_, cond_, item, pushed, popped>>

(* Mutant: abort wakes a single popper.                                    *)
NotifyAllWakesOne(t) ==
    /\ pc[t] = "notify_all"
    /\ \/ /\ cond_ = {}
          /\ Goto(t, "unlock")
          /\ UNCHANGED cond_
       \/ \E w \in cond_ : /\ cond_' = cond_ \ {w}
                           /\ pc' = [pc EXCEPT ![t] = "unlock", ![w] = "woken"]
    /\ UNCHANGED <<queue_, aborted_, mutex_, item, pushed, popped>>

NotifyAll(t) == /\ pc[t] = "notify_all"
                /\ cond_' = {}
                /\ pc' = [u \in Threads |-> CASE u = t -> "unlock"
                                              [] u \in cond_ -> "woken"
                                              [] OTHER -> pc[u]]
                /\ UNCHANGED <<queue_, aborted_, mutex_, item, pushed, popped>>

-----------------------------------------------------------------------------
(* The step a thread takes inside an operation once it has the mutex, and  *)
(* every step of an operation.                                             *)

Inside(t) == \/ PushAppend(t) \/ NotifyOne(t)
             \/ PopTest(t) \/ PopWait(t) \/ PopTake(t)
             \/ AbortSet(t) \/ NotifyAll(t)
             \/ Unlock(t)

OpStep(t) == Lock(t) \/ Inside(t) \/ SpuriousWake(t)

(* Pushes started: the ones appended and the ones on their way.            *)
PushesStarted == Len(pushed) + Cardinality({t \in Pushers : pc[t] \in {"push", "append"}})

QueueNext == \/ \E t \in Pushers, r \in Records : PushesStarted < MaxPushes /\ PushCall(t, r)
             \/ \E t \in Poppers : PopCall(t)
             \/ \E t \in Aborters : AbortCall(t)
             \/ \E t \in Threads : OpStep(t)

(* A thread inside an operation keeps running; the mutex is handed to      *)
(* every thread that keeps asking for it; consumers keep calling pop.      *)
QueueFairness == /\ \A t \in Threads : WF_queueVars(Inside(t)) /\ SF_queueVars(Lock(t))
                 /\ \A t \in Poppers : WF_queueVars(PopCall(t))

QueueSafety == QueueInit /\ [][QueueNext]_queueVars

QueueSpec == QueueSafety /\ QueueFairness

-----------------------------------------------------------------------------
(* Properties                                                              *)

(* Every variable holds a value of its type.                               *)
QueueTypeOK ==
    /\ queue_ \in Seq(Records)
    /\ pushed \in Seq(Records)
    /\ popped \in Seq(Records)
    /\ aborted_ \in BOOLEAN
    /\ mutex_ \in Threads \cup {NoThread}
    /\ cond_ \in SUBSET Poppers
    /\ pc \in [Threads -> PushPoints \cup PopPoints \cup AbortPoints]
    /\ item \in [Threads -> Records \cup {Nullopt, NoItem}]
    /\ \A t \in Pushers : /\ pc[t] \in PushPoints
                          /\ pc[t] \in {"push", "append"} => item[t] \in Records
    /\ \A t \in Poppers : pc[t] \in PopPoints
    /\ \A t \in Aborters : pc[t] \in AbortPoints

(* pop never applies front() and pop() to an empty std::queue, which is    *)
(* undefined behaviour: whoever has passed the wait predicate still finds  *)
(* it true when it takes the record, however many poppers were woken.      *)
FrontDefined == \A t \in Poppers : pc[t] = "take" => queue_ # <<>> \/ aborted_

(* Awake poppers that will evaluate the predicate again, or have.          *)
Awake == {t \in Poppers : pc[t] \in {"woken", "test", "take"}}

(* Pushers that have appended and have not notified yet.                   *)
Notifying == {t \in Pushers : pc[t] = "notify_one"}

(* No lost wakeup: while some popper is blocked, every record in the queue *)
(* has an awake popper or a coming notify_one of its own (push's single    *)
(* notify_one per record is enough), and after abort a notify_all is       *)
(* still to come.                                                          *)
NoLostWakeup == cond_ # {} =>
                   /\ Len(queue_) <= Cardinality(Awake) + Cardinality(Notifying)
                   /\ aborted_ => \E t \in Aborters : pc[t] = "notify_all"

(* The queue is a closable FIFO channel.                                   *)
Channel == INSTANCE FifoChannel WITH
               Receivers <- Poppers,
               sent <- pushed, received <- popped, closed <- aborted_,
               ended <- {t \in Poppers : item[t] = Nullopt}

(* SafeQueue implements the channel: records are delivered once and in     *)
(* order, nullopt is only returned by a drained, aborted queue, and no     *)
(* record stays in the queue while poppers keep calling pop.               *)
ImplementsChannel == Channel!Spec
=============================================================================
