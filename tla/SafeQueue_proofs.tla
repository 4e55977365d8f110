-------------------------- MODULE SafeQueue_proofs --------------------------
(***************************************************************************)
(* Proofs about SafeQueue for any number of threads of each role, any set  *)
(* of records and any number of calls.                                     *)
(***************************************************************************)
EXTENDS SafeQueue, FiniteSetTheorems, SequenceTheorems, TLAPS

(* The program points at which a thread holds the mutex.                   *)
Locked == {"append", "notify_one", "test", "wait", "take", "set", "notify_all", "unlock"}

MutexInv == \A t \in Threads : pc[t] \in Locked <=> mutex_ = t

CondInv == \A t \in Poppers : t \in cond_ <=> pc[t] = "asleep"

(* A popper about to block has seen an empty queue and no abort, and       *)
(* nobody can have changed that.                                           *)
WaitInv == \A t \in Poppers : pc[t] = "wait" => queue_ = <<>> /\ ~aborted_

(* What was pushed is what was popped followed by what is in the queue.    *)
History == pushed = popped \o queue_

(* A popper that was given nullopt is not inside another call of pop.      *)
EndedInv == \A t \in Poppers : item[t] = Nullopt => pc[t] \in {"idle", "unlock"}

QueueInv == /\ QueueTypeOK
            /\ MutexInv
            /\ CondInv
            /\ WaitInv
            /\ FrontDefined
            /\ EndedInv
            /\ History
            /\ NoLostWakeup

-----------------------------------------------------------------------------
(* An action of a thread is one of these.                                  *)
LEMMA QueueCases ==
    ASSUME QueueNext,
           NEW P,
           \A t \in Pushers, r \in Records : PushCall(t, r) => P,
           \A t \in Poppers : PopCall(t) => P,
           \A t \in Aborters : AbortCall(t) => P,
           \A t \in Threads : Lock(t) => P,
           \A t \in Threads : Unlock(t) => P,
           \A t \in Threads : PushAppend(t) => P,
           \A t \in Threads : NotifyOne(t) => P,
           \A t \in Threads : PopTest(t) => P,
           \A t \in Threads : PopWait(t) => P,
           \A t \in Threads : SpuriousWake(t) => P,
           \A t \in Threads : PopTake(t) => P,
           \A t \in Threads : AbortSet(t) => P,
           \A t \in Threads : NotifyAll(t) => P
    PROVE  P
BY DEF QueueNext, OpStep, Inside

(* The role of a thread follows from its program point.                    *)
LEMMA Roles ==
    ASSUME QueueTypeOK, NEW t \in Threads
    PROVE  /\ pc[t] \in {"push", "append", "notify_one"} => t \in Pushers /\ t \notin Poppers
           /\ pc[t] \in {"pop", "test", "wait", "asleep", "woken", "take"} => t \in Poppers
           /\ pc[t] \in {"abort", "set", "notify_all"} => t \in Aborters /\ t \notin Poppers
BY QueueAssumption DEF QueueTypeOK, Threads, PushPoints, PopPoints, AbortPoints

(* Types are preserved by every step.                                      *)
LEMMA TypeStep ==
    ASSUME QueueTypeOK, [QueueNext]_queueVars
    PROVE  QueueTypeOK'
<1> USE QueueAssumption DEF QueueTypeOK, Threads, PushPoints, PopPoints, AbortPoints, Goto
<1>1. CASE UNCHANGED queueVars
  BY <1>1 DEF queueVars
<1>2. CASE QueueNext
  <2>1. ASSUME NEW t \in Pushers, NEW r \in Records, PushCall(t, r) PROVE QueueTypeOK'
    BY <2>1 DEF PushCall
  <2>2. ASSUME NEW t \in Poppers, PopCall(t) PROVE QueueTypeOK'
    BY <2>2 DEF PopCall
  <2>3. ASSUME NEW t \in Aborters, AbortCall(t) PROVE QueueTypeOK'
    BY <2>3 DEF AbortCall
  <2>4. ASSUME NEW t \in Threads, Lock(t) PROVE QueueTypeOK'
    BY <2>4 DEF Lock, AfterLock
  <2>5. ASSUME NEW t \in Threads, Unlock(t) PROVE QueueTypeOK'
    BY <2>5 DEF Unlock
  <2>6. ASSUME NEW t \in Threads, PushAppend(t) PROVE QueueTypeOK'
    <3>1. t \in Pushers /\ item[t] \in Records
      BY <2>6, Roles DEF PushAppend
    <3>2. queue_' \in Seq(Records) /\ pushed' \in Seq(Records)
      BY <2>6, <3>1, AppendProperties DEF PushAppend
    <3> QED BY <2>6, <3>1, <3>2 DEF PushAppend
  <2>7. ASSUME NEW t \in Threads, NotifyOne(t) PROVE QueueTypeOK'
    <3>1. t \in Pushers /\ t \notin Poppers
      BY <2>7, Roles DEF NotifyOne
    <3> QED BY <2>7, <3>1 DEF NotifyOne
  <2>8. ASSUME NEW t \in Threads, PopTest(t) PROVE QueueTypeOK'
    BY <2>8 DEF PopTest
  <2>9. ASSUME NEW t \in Threads, PopWait(t) PROVE QueueTypeOK'
    BY <2>9, Roles DEF PopWait
  <2>10. ASSUME NEW t \in Threads, SpuriousWake(t) PROVE QueueTypeOK'
    BY <2>10 DEF SpuriousWake
  <2>11. ASSUME NEW t \in Threads, PopTake(t) PROVE QueueTypeOK'
    <3>1. t \in Poppers
      BY <2>11, Roles DEF PopTake
    <3>2. CASE queue_ = <<>>
      BY <2>11, <3>1, <3>2 DEF PopTake
    <3>3. CASE queue_ # <<>>
      <4>1. Head(queue_) \in Records /\ Tail(queue_) \in Seq(Records)
        BY <3>3, HeadTailProperties
      <4>2. Append(popped, Head(queue_)) \in Seq(Records)
        BY <4>1, AppendProperties
      <4>3. /\ queue_' = Tail(queue_)
            /\ popped' = Append(popped, Head(queue_))
            /\ item' = [item EXCEPT ![t] = Head(queue_)]
            /\ pc' = [pc EXCEPT ![t] = "unlock"]
            /\ UNCHANGED <<aborted_, mutex_, cond_, pushed>>
        BY <2>11, <3>3 DEF PopTake
      <4>4. item' \in [Threads -> Records \cup {Nullopt, NoItem}]
        BY <4>1, <4>3
      <4> QED BY <2>11, <3>1, <4>1, <4>2, <4>3, <4>4
    <3> QED BY <3>2, <3>3
  <2>12. ASSUME NEW t \in Threads, AbortSet(t) PROVE QueueTypeOK'
    BY <2>12 DEF AbortSet
  <2>13. ASSUME NEW t \in Threads, NotifyAll(t) PROVE QueueTypeOK'
    <3>1. t \in Aborters /\ t \notin Poppers
      BY <2>13, Roles DEF NotifyAll
    <3> QED BY <2>13, <3>1 DEF NotifyAll
  <2> HIDE DEF QueueTypeOK
  <2> QED
    BY <1>2, <2>1, <2>2, <2>3, <2>4, <2>5, <2>6, <2>7, <2>8, <2>9, <2>10,
       <2>11, <2>12, <2>13, QueueCases
<1> QED BY <1>1, <1>2

(* Every variable of the queue always has its type, for any number of      *)
(* threads in push, pop and abort.                                         *)
THEOREM QueueTypeCorrect == QueueSafety => []QueueTypeOK
<1>1. QueueInit => QueueTypeOK
  <2>1. <<>> \in Seq(Records)
    BY EmptySeq
  <2> QED
    BY <2>1 DEF QueueInit, QueueTypeOK, Threads, PushPoints, PopPoints, AbortPoints
<1> QED BY <1>1, TypeStep, PTL DEF QueueSafety

-----------------------------------------------------------------------------
(* Mutual exclusion and what it gives: a popper that has tested the wait   *)
(* predicate acts on it before anybody can change the queue or the flag.   *)
ControlInv == MutexInv /\ CondInv /\ WaitInv /\ FrontDefined /\ EndedInv

LEMMA ControlStep ==
    ASSUME QueueTypeOK, ControlInv, [QueueNext]_queueVars
    PROVE  ControlInv'
<1> USE QueueAssumption, Roles
    DEF ControlInv, MutexInv, CondInv, WaitInv, FrontDefined, EndedInv, Locked, Goto
<1>0. /\ pc \in [Threads -> PushPoints \cup PopPoints \cup AbortPoints]
      /\ item \in [Threads -> Records \cup {Nullopt, NoItem}]
      /\ cond_ \in SUBSET Poppers
      /\ Pushers \subseteq Threads /\ Poppers \subseteq Threads /\ Aborters \subseteq Threads
  BY DEF QueueTypeOK, Threads
<1>1. CASE UNCHANGED queueVars
  BY <1>1 DEF queueVars
<1>2. CASE QueueNext
  <2>1. ASSUME NEW t \in Pushers, NEW r \in Records, PushCall(t, r) PROVE ControlInv'
    BY <1>0, <2>1 DEF PushCall
  <2>2. ASSUME NEW t \in Poppers, PopCall(t) PROVE ControlInv'
    BY <1>0, <2>2 DEF PopCall
  <2>3. ASSUME NEW t \in Aborters, AbortCall(t) PROVE ControlInv'
    BY <1>0, <2>3 DEF AbortCall
  <2>4. ASSUME NEW t \in Threads, Lock(t) PROVE ControlInv'
    BY <1>0, <2>4 DEF Lock, AfterLock
  <2>5. ASSUME NEW t \in Threads, Unlock(t) PROVE ControlInv'
    BY <1>0, <2>5 DEF Unlock
  <2>6. ASSUME NEW t \in Threads, PushAppend(t) PROVE ControlInv'
    BY <1>0, <2>6 DEF PushAppend
  <2>7. ASSUME NEW t \in Threads, NotifyOne(t) PROVE ControlInv'
    BY <1>0, <2>7 DEF NotifyOne
  <2>8. ASSUME NEW t \in Threads, PopTest(t) PROVE ControlInv'
    BY <1>0, <2>8 DEF PopTest
  <2>9. ASSUME NEW t \in Threads, PopWait(t) PROVE ControlInv'
    BY <1>0, <2>9 DEF PopWait
  <2>10. ASSUME NEW t \in Threads, SpuriousWake(t) PROVE ControlInv'
    BY <1>0, <2>10 DEF SpuriousWake
  <2>11. ASSUME NEW t \in Threads, PopTake(t) PROVE ControlInv'
    BY <1>0, <2>11 DEF PopTake
  <2>12. ASSUME NEW t \in Threads, AbortSet(t) PROVE ControlInv'
    BY <1>0, <2>12 DEF AbortSet
  <2>13. ASSUME NEW t \in Threads, NotifyAll(t) PROVE ControlInv'
    BY <1>0, <2>13 DEF NotifyAll
  <2> HIDE DEF ControlInv
  <2> QED
    BY <1>2, <2>1, <2>2, <2>3, <2>4, <2>5, <2>6, <2>7, <2>8, <2>9, <2>10,
       <2>11, <2>12, <2>13, QueueCases
<1> QED BY <1>1, <1>2

-----------------------------------------------------------------------------
(* Sequence facts behind the history: appending to the second operand of a *)
(* concatenation, and moving the head of the second to the first.          *)
LEMMA ConcatAppend ==
    ASSUME NEW S, NEW s \in Seq(S), NEW u \in Seq(S), NEW e \in S
    PROVE  Append(s \o u, e) = s \o Append(u, e)
<1>1. <<e>> \in Seq(S) /\ s \o u \in Seq(S)
  BY ConcatProperties
<1>2. Append(s \o u, e) = (s \o u) \o <<e>> /\ Append(u, e) = u \o <<e>>
  BY <1>1, AppendIsConcat
<1> QED BY <1>1, <1>2, ConcatAssociative

LEMMA ConcatHeadTail ==
    ASSUME NEW S, NEW s \in Seq(S), NEW u \in Seq(S), u # <<>>
    PROVE  /\ Append(s, Head(u)) \o Tail(u) = s \o u
           /\ Len(s) < Len(s \o u)
           /\ (s \o u)[Len(s) + 1] = Head(u)
<1>1. /\ Head(u) \in S /\ Tail(u) \in Seq(S) /\ Len(Tail(u)) = Len(u) - 1
      /\ Len(u) \in Nat \ {0} /\ Len(s) \in Nat
      /\ \A i \in 1 .. Len(Tail(u)) : Tail(u)[i] = u[i + 1]
  BY HeadTailProperties, EmptySeq, LenProperties
<1>2. Head(u) = u[1]
  OBVIOUS
<1>3. /\ Append(s, Head(u)) \in Seq(S)
      /\ Len(Append(s, Head(u))) = Len(s) + 1
      /\ \A i \in 1 .. Len(s) : Append(s, Head(u))[i] = s[i]
      /\ Append(s, Head(u))[Len(s) + 1] = Head(u)
  BY <1>1, AppendProperties
<1> DEFINE l == Append(s, Head(u)) \o Tail(u)
           r == s \o u
<1>4. /\ l \in Seq(S) /\ Len(l) = Len(s) + Len(u)
      /\ \A i \in 1 .. Len(s) + Len(u) : l[i] =
            IF i <= Len(s) + 1 THEN Append(s, Head(u))[i] ELSE Tail(u)[i - (Len(s) + 1)]
  <2>1. /\ l \in Seq(S)
        /\ Len(l) = Len(Append(s, Head(u))) + Len(Tail(u))
        /\ \A i \in 1 .. Len(Append(s, Head(u))) + Len(Tail(u)) : l[i] =
             IF i <= Len(Append(s, Head(u))) THEN Append(s, Head(u))[i]
                                             ELSE Tail(u)[i - Len(Append(s, Head(u)))]
    BY <1>1, <1>3, ConcatProperties
  <2>2. Len(Append(s, Head(u))) + Len(Tail(u)) = Len(s) + Len(u)
    BY <1>1, <1>3
  <2> QED BY <2>1, <2>2, <1>3
<1>5. /\ r \in Seq(S) /\ Len(r) = Len(s) + Len(u)
      /\ \A i \in 1 .. Len(s) + Len(u) : r[i] = IF i <= Len(s) THEN s[i] ELSE u[i - Len(s)]
  BY ConcatProperties
<1> HIDE DEF l, r
<1>6. \A i \in 1 .. Len(l) : l[i] = r[i]
  <2> SUFFICES ASSUME NEW i \in 1 .. Len(s) + Len(u) PROVE l[i] = r[i]
    BY <1>4
  <2>1. CASE i <= Len(s)
    BY <2>1, <1>1, <1>3, <1>4, <1>5
  <2>2. CASE i = Len(s) + 1
    BY <2>2, <1>1, <1>2, <1>3, <1>4, <1>5
  <2>3. CASE i > Len(s) + 1
    <3>1. i - (Len(s) + 1) \in 1 .. Len(Tail(u))
      BY <2>3, <1>1
    <3>2. l[i] = Tail(u)[i - (Len(s) + 1)] /\ r[i] = u[i - Len(s)]
      BY <2>3, <1>1, <1>4, <1>5
    <3>3. Tail(u)[i - (Len(s) + 1)] = u[(i - (Len(s) + 1)) + 1]
      BY <3>1, <1>1
    <3>4. (i - (Len(s) + 1)) + 1 = i - Len(s)
      BY <1>1
    <3> QED BY <3>2, <3>3, <3>4
  <2> QED BY <2>1, <2>2, <2>3, <1>1
<1>7. l = r
  BY <1>4, <1>5, <1>6, SeqEqual
<1>8. Len(s) < Len(r) /\ r[Len(s) + 1] = Head(u)
  BY <1>1, <1>2, <1>5
<1> QED BY <1>7, <1>8 DEF l, r

(* Only push and pop change the history, and they keep it.                 *)
LEMMA HistoryStep ==
    ASSUME QueueTypeOK, History, [QueueNext]_queueVars
    PROVE  History'
<1>1. CASE UNCHANGED queueVars
  BY <1>1 DEF queueVars, History
<1>2. CASE QueueNext
  <2>1. ASSUME NEW t \in Threads, PushAppend(t) PROVE History'
    <3>1. item[t] \in Records
      BY <2>1, Roles DEF PushAppend, QueueTypeOK
    <3>2. queue_ \in Seq(Records) /\ popped \in Seq(Records)
      BY DEF QueueTypeOK
    <3>3. pushed' = Append(pushed, item[t]) /\ queue_' = Append(queue_, item[t]) /\ popped' = popped
      BY <2>1 DEF PushAppend
    <3>4. Append(popped \o queue_, item[t]) = popped \o Append(queue_, item[t])
      BY <3>1, <3>2, ConcatAppend
    <3> QED BY <3>3, <3>4, Zenon DEF History
  <2>2. ASSUME NEW t \in Threads, PopTake(t) PROVE History'
    <3>1. CASE queue_ = <<>>
      BY <2>2, <3>1 DEF PopTake, History
    <3>2. CASE queue_ # <<>>
      <4>1. queue_ \in Seq(Records) /\ popped \in Seq(Records)
        BY DEF QueueTypeOK
      <4>2. pushed' = pushed /\ popped' = Append(popped, Head(queue_)) /\ queue_' = Tail(queue_)
        BY <2>2, <3>2 DEF PopTake
      <4>3. Append(popped, Head(queue_)) \o Tail(queue_) = popped \o queue_
        BY <3>2, <4>1, ConcatHeadTail
      <4> QED BY <4>2, <4>3, Zenon DEF History
    <3> QED BY <3>1, <3>2
  <2>3. CASE UNCHANGED <<queue_, pushed, popped>>
    BY <2>3 DEF History
  <2> QED
    BY <1>2, <2>1, <2>2, <2>3
    DEF QueueNext, OpStep, Inside, PushCall, PopCall, AbortCall, Lock, Unlock,
        NotifyOne, PopTest, PopWait, SpuriousWake, AbortSet, NotifyAll
<1> QED BY <1>1, <1>2

-----------------------------------------------------------------------------
(* Counting: each action moves at most one thread into or out of Awake and *)
(* Notifying, abort's notify_all apart.                                    *)
LEMMA Counts ==
    ASSUME QueueTypeOK
    PROVE  /\ IsFiniteSet(Awake) /\ IsFiniteSet(Notifying)
           /\ Cardinality(Awake) \in Nat /\ Cardinality(Notifying) \in Nat
           /\ Len(queue_) \in Nat
<1>1. Awake \in SUBSET Threads /\ Notifying \in SUBSET Threads
  BY DEF Awake, Notifying, Threads
<1>2. IsFiniteSet(Awake) /\ IsFiniteSet(Notifying)
  BY <1>1, QueueAssumption, FS_Subset
<1> QED BY <1>2, FS_CardinalityType, LenProperties DEF QueueTypeOK

(* No wakeup is lost by any step.                                          *)
LEMMA WakeupStep ==
    ASSUME QueueTypeOK, QueueTypeOK', ControlInv, NoLostWakeup, [QueueNext]_queueVars
    PROVE  NoLostWakeup'
<1>0. /\ pc \in [Threads -> PushPoints \cup PopPoints \cup AbortPoints]
      /\ cond_ \in SUBSET Poppers
      /\ Pushers \subseteq Threads /\ Poppers \subseteq Threads /\ Aborters \subseteq Threads
      /\ queue_ \in Seq(Records)
  BY DEF QueueTypeOK, Threads
<1>a. /\ IsFiniteSet(Awake) /\ IsFiniteSet(Notifying)
      /\ Cardinality(Awake) \in Nat /\ Cardinality(Notifying) \in Nat
      /\ Len(queue_) \in Nat
  BY Counts
<1>b. /\ Cardinality(Awake') \in Nat /\ Cardinality(Notifying') \in Nat
      /\ IsFiniteSet(Awake') /\ IsFiniteSet(Notifying')
  <2>1. Awake' \in SUBSET Threads /\ Notifying' \in SUBSET Threads
    BY DEF Awake, Notifying, Threads
  <2> QED BY <2>1, QueueAssumption, FS_Subset, FS_CardinalityType
<1>1. CASE UNCHANGED queueVars
  BY <1>1 DEF queueVars, NoLostWakeup, Awake, Notifying
<1>2. CASE QueueNext
  (* Steps that leave the queue, the sleepers and the counted threads alone *)
  (* or only add to them.                                                   *)
  <2> DEFINE Grows == /\ queue_' = queue_
                      /\ cond_' \subseteq cond_
                      /\ aborted_' = aborted_
                      /\ Awake \subseteq Awake'
                      /\ Notifying \subseteq Notifying'
                      /\ \A a \in Aborters : pc[a] = "notify_all" => pc'[a] = "notify_all"
  <2>g. Grows => NoLostWakeup'
    <3> SUFFICES ASSUME Grows, cond_' # {}
                 PROVE  /\ Len(queue_') <= Cardinality(Awake') + Cardinality(Notifying')
                        /\ aborted_' => \E t \in Aborters : pc'[t] = "notify_all"
      BY DEF NoLostWakeup
    <3>1. Cardinality(Awake) <= Cardinality(Awake')
      BY <1>b, FS_Subset
    <3>2. Cardinality(Notifying) <= Cardinality(Notifying')
      BY <1>b, FS_Subset
    <3>3. cond_ # {}
      OBVIOUS
    <3>4. Len(queue_) <= Cardinality(Awake) + Cardinality(Notifying)
      BY <3>3 DEF NoLostWakeup
    <3>5. Len(queue_') <= Cardinality(Awake') + Cardinality(Notifying')
      BY <1>a, <1>b, <3>1, <3>2, <3>4
    <3> QED BY <3>3, <3>5 DEF NoLostWakeup
  <2>1. ASSUME NEW t \in Pushers, NEW r \in Records, PushCall(t, r) PROVE NoLostWakeup'
    <3>1. Grows BY <1>0, <2>1 DEF PushCall, Goto, Awake, Notifying
    <3> QED BY <2>g, <3>1
  <2>2. ASSUME NEW t \in Poppers, PopCall(t) PROVE NoLostWakeup'
    <3>1. Grows BY <1>0, <2>2 DEF PopCall, Goto, Awake, Notifying
    <3> QED BY <2>g, <3>1
  <2>3. ASSUME NEW t \in Aborters, AbortCall(t) PROVE NoLostWakeup'
    <3>1. Grows BY <1>0, <2>3 DEF AbortCall, Goto, Awake, Notifying
    <3> QED BY <2>g, <3>1
  <2>4. ASSUME NEW t \in Threads, Lock(t) PROVE NoLostWakeup'
    <3>1. Grows BY <1>0, <2>4 DEF Lock, AfterLock, Goto, Awake, Notifying
    <3> QED BY <2>g, <3>1
  <2>5. ASSUME NEW t \in Threads, Unlock(t) PROVE NoLostWakeup'
    <3>1. Grows BY <1>0, <2>5 DEF Unlock, Goto, Awake, Notifying
    <3> QED BY <2>g, <3>1
  (* push appends one record and owes one notification.                     *)
  <2>6. ASSUME NEW t \in Threads, PushAppend(t) PROVE NoLostWakeup'
    <3>1. t \in Pushers /\ item[t] \in Records
      BY <2>6, Roles DEF PushAppend, QueueTypeOK
    <3>2. Notifying' = Notifying \cup {t} /\ t \notin Notifying
      BY <1>0, <2>6, <3>1 DEF PushAppend, Goto, Notifying
    <3>3. Awake' = Awake
      BY <1>0, <2>6, <3>1, QueueAssumption DEF PushAppend, Goto, Awake
    <3>4. Cardinality(Notifying') = Cardinality(Notifying) + 1
      BY <1>a, <3>2, FS_AddElement
    <3>5. Len(queue_') = Len(queue_) + 1
      BY <1>0, <2>6, <3>1, AppendProperties DEF PushAppend
    <3>6. cond_' = cond_ /\ aborted_' = aborted_
      BY <2>6 DEF PushAppend
    <3>7. \A a \in Aborters : pc[a] = "notify_all" => pc'[a] = "notify_all"
      BY <1>0, <2>6 DEF PushAppend, Goto
    <3> QED BY <1>a, <3>3, <3>4, <3>5, <3>6, <3>7 DEF NoLostWakeup
  (* notify_one pays with a popper that was asleep.                         *)
  <2>7. ASSUME NEW t \in Threads, NotifyOne(t) PROVE NoLostWakeup'
    <3>1. t \in Pushers /\ t \notin Poppers
      BY <2>7, Roles DEF NotifyOne
    <3>2. CASE cond_ = {}
      <4>1. cond_' = {} BY <2>7, <3>2 DEF NotifyOne
      <4> QED BY <4>1 DEF NoLostWakeup
    <3>3. CASE \E w \in cond_ : /\ cond_' = cond_ \ {w}
                               /\ pc' = [pc EXCEPT ![t] = "unlock", ![w] = "woken"]
      <4>1. PICK w \in cond_ : /\ cond_' = cond_ \ {w}
                               /\ pc' = [pc EXCEPT ![t] = "unlock", ![w] = "woken"]
        BY <3>3
      <4>2. w \in Poppers /\ w # t /\ w \notin Pushers /\ w \notin Aborters /\ pc[w] = "asleep"
        BY <1>0, <3>1, <4>1, QueueAssumption DEF ControlInv, CondInv
      <4>3. Awake' = Awake \cup {w} /\ w \notin Awake
        BY <1>0, <3>1, <4>1, <4>2 DEF Awake
      <4>4. Notifying' = Notifying \ {t} /\ t \in Notifying
        BY <1>0, <2>7, <3>1, <4>1, <4>2 DEF Notifying, NotifyOne
      <4>5. Cardinality(Awake') = Cardinality(Awake) + 1
        BY <1>a, <4>3, FS_AddElement
      <4>6. Cardinality(Notifying') = Cardinality(Notifying) - 1
        BY <1>a, <4>4, FS_RemoveElement
      <4>7. queue_' = queue_ /\ aborted_' = aborted_ /\ cond_ # {}
        BY <2>7, <4>1 DEF NotifyOne
      <4>8. \A a \in Aborters : pc[a] = "notify_all" => pc'[a] = "notify_all"
        BY <1>0, <3>1, <4>1, <4>2, QueueAssumption
      <4> QED BY <1>a, <1>b, <4>5, <4>6, <4>7, <4>8 DEF NoLostWakeup
    <3> QED BY <2>7, <3>2, <3>3 DEF NotifyOne
  (* A popper gives up only on an empty queue.                              *)
  <2>8. ASSUME NEW t \in Threads, PopTest(t) PROVE NoLostWakeup'
    <3>1. CASE queue_ # <<>> \/ aborted_
      <4>1. Grows BY <1>0, <2>8, <3>1 DEF PopTest, Goto, Awake, Notifying
      <4> QED BY <2>g, <4>1
    <3>2. CASE queue_ = <<>> /\ ~aborted_
      <4>1. queue_' = <<>> /\ ~aborted_'
        BY <2>8, <3>2 DEF PopTest
      <4> QED BY <1>b, <4>1, EmptySeq DEF NoLostWakeup
    <3> QED BY <3>1, <3>2
  <2>9. ASSUME NEW t \in Threads, PopWait(t) PROVE NoLostWakeup'
    <3>1. t \in Poppers
      BY <2>9, Roles DEF PopWait
    <3>2. queue_' = <<>> /\ ~aborted_'
      BY <2>9, <3>1 DEF PopWait, ControlInv, WaitInv
    <3> QED BY <1>b, <3>2, EmptySeq DEF NoLostWakeup
  <2>10. ASSUME NEW t \in Threads, SpuriousWake(t) PROVE NoLostWakeup'
    <3>1. pc[t] = "asleep" /\ t \in Poppers
      BY <1>0, <2>10 DEF SpuriousWake, ControlInv, CondInv
    <3>2. Grows BY <1>0, <2>10, <3>1 DEF SpuriousWake, Goto, Awake, Notifying
    <3> QED BY <2>g, <3>2
  (* A popper that leaves takes a record along, or the queue is empty and   *)
  (* aborted.                                                               *)
  <2>11. ASSUME NEW t \in Threads, PopTake(t) PROVE NoLostWakeup'
    <3>1. t \in Poppers /\ pc[t] = "take"
      BY <2>11, Roles DEF PopTake
    <3>2. Awake' = Awake \ {t} /\ t \in Awake
      BY <1>0, <2>11, <3>1 DEF PopTake, Goto, Awake
    <3>3. Notifying' = Notifying
      BY <1>0, <2>11, <3>1, QueueAssumption DEF PopTake, Goto, Notifying
    <3>4. Cardinality(Awake') = Cardinality(Awake) - 1
      BY <1>a, <3>2, FS_RemoveElement
    <3>5. cond_' = cond_ /\ aborted_' = aborted_
      BY <2>11 DEF PopTake
    <3>6. \A a \in Aborters : pc[a] = "notify_all" => pc'[a] = "notify_all"
      BY <1>0, <2>11, <3>1 DEF PopTake, Goto
    <3>7. CASE queue_ = <<>>
      <4>1. queue_' = <<>>
        BY <2>11, <3>7 DEF PopTake
      <4>2. Len(queue_') = 0
        BY <4>1, EmptySeq
      <4> QED BY <1>b, <3>5, <3>6, <4>2 DEF NoLostWakeup
    <3>8. CASE queue_ # <<>>
      <4>1. Len(queue_') = Len(queue_) - 1
        BY <1>0, <2>11, <3>8, HeadTailProperties DEF PopTake
      <4> QED BY <1>a, <1>b, <3>3, <3>4, <3>5, <3>6, <4>1 DEF NoLostWakeup
    <3> QED BY <3>7, <3>8
  <2>12. ASSUME NEW t \in Threads, AbortSet(t) PROVE NoLostWakeup'
    <3>1. t \in Aborters /\ t \notin Poppers
      BY <2>12, Roles DEF AbortSet
    <3>2. pc'[t] = "notify_all"
      BY <1>0, <2>12 DEF AbortSet, Goto
    <3>3. Awake' = Awake /\ Notifying' = Notifying
      BY <1>0, <2>12, <3>1, QueueAssumption DEF AbortSet, Goto, Awake, Notifying
    <3>4. queue_' = queue_ /\ cond_' = cond_
      BY <2>12 DEF AbortSet
    <3> QED BY <3>1, <3>2, <3>3, <3>4 DEF NoLostWakeup
  <2>13. ASSUME NEW t \in Threads, NotifyAll(t) PROVE NoLostWakeup'
    BY <2>13 DEF NotifyAll, NoLostWakeup
  <2> HIDE DEF Grows
  <2> QED
    BY <1>2, <2>1, <2>2, <2>3, <2>4, <2>5, <2>6, <2>7, <2>8, <2>9, <2>10,
       <2>11, <2>12, <2>13, QueueCases
<1> QED BY <1>1, <1>2

-----------------------------------------------------------------------------
(* The inductive invariant holds in every reachable state.                 *)
THEOREM QueueInvariant == QueueSafety => []QueueInv
<1>1. QueueInit => QueueInv
  <2> SUFFICES ASSUME QueueInit PROVE QueueInv
    OBVIOUS
  <2>1. <<>> \in Seq(Records) /\ <<>> = <<>> \o <<>>
    BY EmptySeq, ConcatEmptySeq
  <2>2. QueueTypeOK
    BY <2>1 DEF QueueInit, QueueTypeOK, Threads, PushPoints, PopPoints, AbortPoints
  <2>3. MutexInv /\ CondInv /\ WaitInv /\ FrontDefined
    BY QueueAssumption DEF QueueInit, MutexInv, CondInv, WaitInv, FrontDefined, Threads, Locked
  <2>4. EndedInv /\ History /\ NoLostWakeup
    BY <2>1, QueueAssumption DEF QueueInit, EndedInv, History, NoLostWakeup, Threads
  <2> QED BY <2>2, <2>3, <2>4 DEF QueueInv
<1>2. QueueInv /\ [QueueNext]_queueVars => QueueInv'
  BY TypeStep, ControlStep, HistoryStep, WakeupStep DEF QueueInv, ControlInv
<1> QED BY <1>1, <1>2, PTL DEF QueueSafety

(* pop never reads the front of an empty std::queue.                       *)
THEOREM QueueFrontDefined == QueueSafety => []FrontDefined
BY QueueInvariant, PTL DEF QueueInv

(* push's single notify_one and abort's notify_all are enough: no record   *)
(* and no abort is ever left without a thread that will look at it.        *)
THEOREM QueueNoLostWakeup == QueueSafety => []NoLostWakeup
BY QueueInvariant, PTL DEF QueueInv

-----------------------------------------------------------------------------
(* Every step of the queue is a step of the channel or leaves it alone.    *)
LEMMA ChannelStep ==
    ASSUME QueueInv, [QueueNext]_queueVars
    PROVE  [Channel!Next]_(Channel!vars)
<1> DEFINE ended == {t \in Poppers : item[t] = Nullopt}
<1>0. /\ pc \in [Threads -> PushPoints \cup PopPoints \cup AbortPoints]
      /\ item \in [Threads -> Records \cup {Nullopt, NoItem}]
      /\ Pushers \subseteq Threads /\ Poppers \subseteq Threads /\ Aborters \subseteq Threads
      /\ queue_ \in Seq(Records) /\ pushed \in Seq(Records) /\ popped \in Seq(Records)
  BY DEF QueueInv, QueueTypeOK, Threads
<1>1. ASSUME UNCHANGED <<pushed, popped, aborted_>>, ended' = ended
      PROVE  UNCHANGED Channel!vars
  BY <1>1 DEF Channel!vars
<1>2. ASSUME NEW t \in Threads, PushAppend(t) PROVE Channel!Next
  <2>1. item[t] \in Records
    BY <1>2, Roles DEF PushAppend, QueueTypeOK, QueueInv
  <2>2. Channel!Send(item[t])
    BY <1>2 DEF PushAppend, Channel!Send
  <2> QED BY <2>1, <2>2 DEF Channel!Next
<1>3. ASSUME NEW t \in Threads, PopTake(t) PROVE Channel!Next
  <2>1. t \in Poppers /\ pc[t] = "take" /\ item[t] # Nullopt
    BY <1>3, Roles DEF PopTake, QueueInv, EndedInv
  <2>2. CASE queue_ = <<>>
    <3>1. pushed = popped
      BY <1>0, <2>2, ConcatEmptySeq DEF QueueInv, History
    <3>2. /\ aborted_ /\ item' = [item EXCEPT ![t] = Nullopt]
          /\ UNCHANGED <<pushed, popped, aborted_>>
      BY <1>3, <2>2 DEF PopTake
    <3>3. ended' = ended \cup {t} /\ t \notin ended
      BY <1>0, <2>1, <3>2
    <3>4. Channel!End(t)
      BY <3>1, <3>2, <3>3 DEF Channel!End, Channel!Drained
    <3> QED BY <2>1, <3>4 DEF Channel!Next
  <2>3. CASE queue_ # <<>>
    <3>1. Len(popped) < Len(pushed) /\ pushed[Len(popped) + 1] = Head(queue_)
      BY <1>0, <2>3, ConcatHeadTail DEF QueueInv, History
    <3>2. /\ popped' = Append(popped, Head(queue_))
          /\ item' = [item EXCEPT ![t] = Head(queue_)]
          /\ UNCHANGED <<pushed, aborted_>>
      BY <1>3, <2>3 DEF PopTake
    <3>3. Head(queue_) # Nullopt
      BY <1>0, <2>3, HeadTailProperties, QueueAssumption
    <3>4. ended' = ended /\ ended # Poppers
      BY <1>0, <2>1, <3>2, <3>3
    <3>5. Len(popped) \in Nat /\ Len(pushed) \in Nat
      BY <1>0, LenProperties
    <3>6. Len(popped) # Len(pushed)
      BY <3>1, <3>5
    <3>7. Channel!Receive
      BY <3>1, <3>2, <3>4, <3>6 DEF Channel!Receive, Channel!Drained
    <3> QED BY <3>7 DEF Channel!Next
  <2> QED BY <2>2, <2>3
<1>4. ASSUME NEW t \in Threads, AbortSet(t) PROVE Channel!Next
  <2>1. Channel!Close
    BY <1>4 DEF AbortSet, Channel!Close
  <2> QED BY <2>1 DEF Channel!Next
<1>5. ASSUME NEW t \in Pushers, NEW r \in Records, PushCall(t, r) PROVE UNCHANGED Channel!vars
  <2>1. ended' = ended
    BY <1>0, <1>5, QueueAssumption DEF PushCall
  <2> QED BY <1>1, <1>5, <2>1 DEF PushCall
<1>6. CASE UNCHANGED <<pushed, popped, aborted_, item>>
  BY <1>1, <1>6
<1> QED
  BY <1>2, <1>3, <1>4, <1>5, <1>6
  DEF QueueNext, OpStep, Inside, PopCall, AbortCall, Lock, Unlock,
      NotifyOne, PopTest, PopWait, SpuriousWake, NotifyAll, queueVars

(* SafeQueue implements the safety part of the closable FIFO channel:      *)
(* records come out once, in order, and nullopt means aborted and drained. *)
THEOREM QueueImplementsChannel == QueueSafety => Channel!Safety
<1>1. QueueInit => Channel!Init
  BY QueueAssumption DEF QueueInit, Channel!Init, Threads
<1> QED BY <1>1, QueueInvariant, ChannelStep, PTL DEF QueueSafety, Channel!Safety
=============================================================================
