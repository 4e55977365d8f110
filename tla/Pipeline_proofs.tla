-------------------------- MODULE Pipeline_proofs --------------------------
(***************************************************************************)
(* The whole path, for any number of readings, losses, restarts and        *)
(* crashes: where the readings are, and what is left of a daemon.          *)
(***************************************************************************)
EXTENDS Pipeline, SequenceTheorems, TLAPS

(* What the gateway has taken over from the node.                          *)
Taken == ToSet(session) \cup ToSet(queue) \cup ingested \cup forgotten

TypeInv == /\ toBroker \in Seq(Nat) /\ toNode \in Seq(Nat)
           /\ session \in Seq(Nat) /\ queue \in Seq(Nat)
           /\ counter \in Nat /\ outbox \subseteq Nat

(* A copy on its way is of a published reading, and the node lets go only  *)
(* of what the gateway has taken over.                                     *)
PathInv == /\ TypeInv
           /\ ToSet(toBroker) \subseteq published
           /\ ToSet(toNode) \subseteq Taken
           /\ published = outbox \cup Taken

-----------------------------------------------------------------------------
(* Sequences as sets.                                                      *)
LEMMA SetOfEmpty == ToSet(<<>>) = {}
BY DEF ToSet

LEMMA SetOfOne == ASSUME NEW r PROVE ToSet(<<r>>) = {r}
BY DEF ToSet

LEMMA SetOfAppend ==
    ASSUME NEW s \in Seq(Nat), NEW r \in Nat
    PROVE  Append(s, r) \in Seq(Nat) /\ ToSet(Append(s, r)) = ToSet(s) \cup {r}
<1>1. /\ Append(s, r) \in Seq(Nat) /\ Len(s) \in Nat
      /\ DOMAIN s = 1..Len(s)
      /\ DOMAIN Append(s, r) = 1..(Len(s) + 1)
      /\ Append(s, r)[Len(s) + 1] = r
      /\ \A i \in 1..Len(s) : Append(s, r)[i] = s[i]
  OBVIOUS
<1>2. ASSUME NEW x \in ToSet(Append(s, r)) PROVE x \in ToSet(s) \cup {r}
  <2>1. PICK i \in 1..(Len(s) + 1) : x = Append(s, r)[i]
    BY <1>1, <1>2 DEF ToSet
  <2>2. CASE i = Len(s) + 1
    BY <1>1, <2>1, <2>2
  <2>3. CASE i \in 1..Len(s)
    BY <1>1, <2>1, <2>3 DEF ToSet
  <2> QED
    BY <1>1, <2>2, <2>3
<1>3. ASSUME NEW x \in ToSet(s) PROVE x \in ToSet(Append(s, r))
  <2>1. PICK i \in 1..Len(s) : x = s[i]
    BY <1>1, <1>3 DEF ToSet
  <2>2. i \in 1..(Len(s) + 1) /\ x = Append(s, r)[i]
    BY <1>1, <2>1
  <2> QED
    BY <1>1, <2>2 DEF ToSet
<1>4. r \in ToSet(Append(s, r))
  <2>1. Len(s) + 1 \in 1..(Len(s) + 1)
    BY <1>1
  <2> QED
    BY <1>1, <2>1 DEF ToSet
<1> QED
  BY <1>1, <1>2, <1>3, <1>4

LEMMA SetOfTail ==
    ASSUME NEW s \in Seq(Nat), s # <<>>
    PROVE  /\ Tail(s) \in Seq(Nat) /\ Head(s) \in Nat
           /\ ToSet(s) = {Head(s)} \cup ToSet(Tail(s))
<1>1. /\ Tail(s) \in Seq(Nat) /\ Head(s) = s[1] /\ Len(s) \in Nat /\ Len(s) >= 1
      /\ DOMAIN s = 1..Len(s)
      /\ DOMAIN Tail(s) = 1..(Len(s) - 1)
      /\ \A i \in 1..(Len(s) - 1) : Tail(s)[i] = s[i + 1]
      /\ \A i \in 1..Len(s) : s[i] \in Nat
  OBVIOUS
<1>2. 1 \in 1..Len(s)
  BY <1>1
<1>3. Head(s) \in Nat /\ Head(s) \in ToSet(s)
  BY <1>1, <1>2 DEF ToSet
<1>4. ASSUME NEW x \in ToSet(s) PROVE x \in {Head(s)} \cup ToSet(Tail(s))
  <2>1. PICK i \in 1..Len(s) : x = s[i]
    BY <1>1, <1>4 DEF ToSet
  <2>2. CASE i = 1
    BY <1>1, <2>1, <2>2
  <2>3. CASE i # 1
    <3>1. PICK k \in 1..(Len(s) - 1) : i = k + 1
      <4>1. i - 1 \in 1..(Len(s) - 1) /\ i = (i - 1) + 1
        BY <1>1, <2>3
      <4> QED
        BY <4>1
    <3>2. x = Tail(s)[k]
      BY <1>1, <2>1, <3>1
    <3> QED
      BY <1>1, <3>1, <3>2 DEF ToSet
  <2> QED
    BY <2>2, <2>3
<1>5. ASSUME NEW x \in ToSet(Tail(s)) PROVE x \in ToSet(s)
  <2>1. PICK k \in 1..(Len(s) - 1) : x = Tail(s)[k]
    BY <1>1, <1>5 DEF ToSet
  <2>2. k + 1 \in 1..Len(s) /\ x = s[k + 1]
    BY <1>1, <2>1
  <2> QED
    BY <1>1, <2>2 DEF ToSet
<1> QED
  BY <1>1, <1>3, <1>4, <1>5

-----------------------------------------------------------------------------
LEMMA PathInit == PipelineInit => PathInv
BY SetOfEmpty DEF PipelineInit, PathInv, TypeInv, Taken

LEMMA PathNode ==
    ASSUME PathInv, Read \/ NodeConnects \/ NodeNotices \/ Resend \/ NodeAcked \/ NodeLoses
    PROVE  PathInv'
<1> USE DEF PathInv, TypeInv
<1>1. CASE Read
  <2>1. /\ UNCHANGED <<toNode, session, queue, ingested, forgotten>>
        /\ counter' = counter + 1
        /\ \/ UNCHANGED <<outbox, published, toBroker>>
           \/ /\ outbox' = outbox \cup {counter} /\ published' = published \cup {counter}
              /\ toBroker' = toBroker \/ toBroker' = Append(toBroker, counter)
    BY <1>1 DEF Read, brokerVars, daemonVars
  <2>2. Taken' = Taken
    BY <2>1 DEF Taken
  <2>3. Append(toBroker, counter) \in Seq(Nat)
        /\ ToSet(Append(toBroker, counter)) = ToSet(toBroker) \cup {counter}
    BY SetOfAppend
  <2>4. CASE UNCHANGED <<outbox, published, toBroker>>
    BY <2>1, <2>2, <2>4
  <2>5. CASE outbox' = outbox \cup {counter} /\ published' = published \cup {counter}
    <3>1. CASE toBroker' = toBroker
      BY <2>1, <2>2, <2>5, <3>1
    <3>2. CASE toBroker' = Append(toBroker, counter)
      BY <2>1, <2>2, <2>3, <2>5, <3>2
    <3> QED
      BY <2>1, <2>4, <3>1, <3>2
  <2> QED
    BY <2>1, <2>4, <2>5
<1>2. CASE NodeConnects \/ NodeNotices
  BY <1>2 DEF NodeConnects, NodeNotices, wireVars, brokerVars, daemonVars, Taken
<1>3. CASE Resend
  <2>1. PICK r \in outbox : toBroker' = <<r>>
    BY <1>3 DEF Resend, Oldest
  <2>2. UNCHANGED <<counter, outbox, published, toNode, session, queue, ingested, forgotten>>
    BY <1>3 DEF Resend, nodeVars, brokerVars, daemonVars
  <2>3. Taken' = Taken
    BY <2>2 DEF Taken
  <2>4. toBroker' \in Seq(Nat) /\ ToSet(toBroker') = {r}
    BY <2>1, SetOfOne
  <2> QED
    BY <2>1, <2>2, <2>3, <2>4
<1>4. CASE NodeAcked
  <2>1. /\ toNode # <<>> /\ toNode' = Tail(toNode) /\ outbox' = outbox \ {Head(toNode)}
        /\ UNCHANGED <<counter, published, toBroker, session, queue, ingested, forgotten>>
    BY <1>4 DEF NodeAcked, brokerVars, daemonVars
  <2>2. Taken' = Taken
    BY <2>1 DEF Taken
  <2>3. toNode' \in Seq(Nat) /\ Head(toNode) \in Taken /\ ToSet(toNode') \subseteq Taken
    BY <2>1, SetOfTail
  <2> QED
    BY <2>1, <2>2, <2>3
<1>5. CASE NodeLoses
  <2>1. /\ toBroker' = <<>> /\ toNode' = <<>>
        /\ UNCHANGED <<counter, outbox, published, session, queue, ingested, forgotten>>
    BY <1>5 DEF NodeLoses, brokerVars, daemonVars
  <2>2. Taken' = Taken
    BY <2>1 DEF Taken
  <2> QED
    BY <2>1, <2>2, SetOfEmpty
<1> QED
  BY <1>1, <1>2, <1>3, <1>4, <1>5

(* A step that takes nothing back and publishes nothing.                   *)
LEMMA PathKept ==
    ASSUME PathInv, UNCHANGED <<counter, outbox, published>>,
           session' \in Seq(Nat), queue' \in Seq(Nat), Taken' = Taken,
           UNCHANGED <<toBroker, toNode>> \/ (toBroker' = <<>> /\ toNode' = <<>>)
    PROVE  PathInv'
<1>1. CASE UNCHANGED <<toBroker, toNode>>
  BY <1>1 DEF PathInv, TypeInv
<1>2. CASE toBroker' = <<>> /\ toNode' = <<>>
  BY <1>2, SetOfEmpty DEF PathInv, TypeInv
<1> QED
  BY <1>1, <1>2

LEMMA PathBroker ==
    ASSUME PathInv, BrokerAccepts \/ BrokerSubscribes \/ BrokerRestarts
    PROVE  PathInv'
<1>1. CASE BrokerAccepts
  <2> DEFINE r == Head(toBroker)
  <2>1. /\ toBroker # <<>> /\ toBroker' = Tail(toBroker) /\ toNode' = Append(toNode, r)
        /\ \/ session' = Append(session, r) /\ forgotten' = forgotten
           \/ session' = session /\ forgotten' = forgotten \cup {r}
        /\ UNCHANGED <<counter, outbox, published, queue, ingested>>
    BY <1>1 DEF BrokerAccepts, nodeVars, daemonVars
  <2>2. r \in Nat /\ r \in published /\ toBroker' \in Seq(Nat) /\ ToSet(toBroker') \subseteq published
    BY <2>1, SetOfTail DEF PathInv, TypeInv
  <2>3. toNode' \in Seq(Nat) /\ ToSet(toNode') = ToSet(toNode) \cup {r}
    BY <2>1, <2>2, SetOfAppend DEF PathInv, TypeInv
  <2>4. session' \in Seq(Nat) /\ Taken' = Taken \cup {r}
    <3>1. CASE session' = Append(session, r) /\ forgotten' = forgotten
      <4>1. session' \in Seq(Nat) /\ ToSet(session') = ToSet(session) \cup {r}
        BY <2>2, <3>1, SetOfAppend DEF PathInv, TypeInv
      <4> QED
        BY <2>1, <3>1, <4>1 DEF Taken
    <3>2. CASE session' = session /\ forgotten' = forgotten \cup {r}
      BY <2>1, <3>2 DEF Taken, PathInv, TypeInv
    <3> QED
      BY <2>1, <3>1, <3>2
  <2> HIDE DEF r
  <2> QED
    BY <2>1, <2>2, <2>3, <2>4 DEF PathInv, TypeInv
<1>2. CASE BrokerSubscribes
  BY <1>2 DEF BrokerSubscribes, nodeVars, wireVars, PathInv, TypeInv, Taken
<1>3. CASE BrokerRestarts
  <2>1. /\ session' = <<>> /\ toBroker' = <<>> /\ toNode' = <<>>
        /\ forgotten' = forgotten \cup ToSet(session)
        /\ UNCHANGED <<counter, outbox, published, queue, ingested>>
    BY <1>3 DEF BrokerRestarts, SessionEnds
  <2>2. session' \in Seq(Nat) /\ Taken' = Taken
    BY <2>1, SetOfEmpty DEF Taken
  <2>3. queue' \in Seq(Nat)
    BY <2>1 DEF PathInv, TypeInv
  <2> QED
    BY <2>1, <2>2, <2>3, PathKept
<1> QED
  BY <1>1, <1>2, <1>3

LEMMA PathDaemon ==
    ASSUME PathInv,
           \/ Restart \/ DaemonConnects \/ DaemonSubscribes \/ DaemonLoses
           \/ message_arrived \/ Work \/ Crash
    PROVE  PathInv'
<1>1. CASE Restart \/ DaemonConnects \/ DaemonSubscribes
  BY <1>1 DEF Restart, DaemonConnects, DaemonSubscribes, nodeVars, wireVars, brokerVars,
     PathInv, TypeInv, Taken
<1>2. CASE DaemonLoses
  <2>1. /\ session' = <<>> /\ forgotten' = forgotten \cup ToSet(session)
        /\ UNCHANGED <<counter, outbox, published, toBroker, toNode, queue, ingested>>
    BY <1>2 DEF DaemonLoses, SessionEnds, nodeVars, wireVars
  <2>2. session' \in Seq(Nat) /\ Taken' = Taken
    BY <2>1, SetOfEmpty DEF Taken
  <2>3. queue' \in Seq(Nat)
    BY <2>1 DEF PathInv, TypeInv
  <2> QED
    BY <2>1, <2>2, <2>3, PathKept
<1>3. CASE message_arrived
  <2>1. /\ session # <<>> /\ session' = Tail(session) /\ queue' = Append(queue, Head(session))
        /\ UNCHANGED <<counter, outbox, published, toBroker, toNode, ingested, forgotten>>
    BY <1>3 DEF message_arrived, nodeVars, wireVars
  <2>2. /\ session' \in Seq(Nat) /\ Head(session) \in Nat
        /\ ToSet(session) = {Head(session)} \cup ToSet(session')
    BY <2>1, SetOfTail DEF PathInv, TypeInv
  <2>3. queue' \in Seq(Nat) /\ ToSet(queue') = ToSet(queue) \cup {Head(session)}
    BY <2>1, <2>2, SetOfAppend DEF PathInv, TypeInv
  <2>4. Taken' = Taken
    BY <2>1, <2>2, <2>3 DEF Taken
  <2> QED
    BY <2>1, <2>2, <2>3, <2>4, PathKept
<1>4. CASE Work
  <2>1. /\ queue # <<>> /\ queue' = Tail(queue) /\ ingested' = ingested \cup {Head(queue)}
        /\ UNCHANGED <<counter, outbox, published, toBroker, toNode, session, forgotten>>
    BY <1>4 DEF Work, nodeVars, wireVars, brokerVars
  <2>2. queue' \in Seq(Nat) /\ ToSet(queue) = {Head(queue)} \cup ToSet(queue')
    BY <2>1, SetOfTail DEF PathInv, TypeInv
  <2>3. session' \in Seq(Nat) /\ Taken' = Taken
    BY <2>1, <2>2 DEF Taken, PathInv, TypeInv
  <2> QED
    BY <2>1, <2>2, <2>3, PathKept
<1>5. CASE Crash
  <2>1. /\ session' = <<>> /\ queue' = <<>>
        /\ forgotten' = forgotten \cup ToSet(session) \cup ToSet(queue)
        /\ UNCHANGED <<counter, outbox, published, toBroker, toNode, ingested>>
    BY <1>5 DEF Crash, SessionEnds, nodeVars, wireVars
  <2>2. session' \in Seq(Nat) /\ queue' \in Seq(Nat) /\ Taken' = Taken
    BY <2>1, SetOfEmpty DEF Taken
  <2> QED
    BY <2>1, <2>2, PathKept
<1> QED
  BY <1>1, <1>2, <1>3, <1>4, <1>5

LEMMA PathNext == PathInv /\ [PipelineNext]_pipelineVars => PathInv'
<1> SUFFICES ASSUME PathInv, [PipelineNext]_pipelineVars PROVE PathInv'
  OBVIOUS
<1>1. CASE UNCHANGED pipelineVars
  BY <1>1 DEF pipelineVars, nodeVars, wireVars, brokerVars, daemonVars, PathInv, TypeInv, Taken
<1> QED
  BY <1>1, PathNode, PathBroker, PathDaemon DEF PipelineNext

(* The safety half of what the path promises, for any number of readings   *)
(* and faults: a published reading is in the node's outbox, at the         *)
(* gateway, ingested, or among those the gateway could not keep, since an  *)
(* acknowledgement is sent only for what the broker has taken over.        *)
THEOREM PathAccounted == PipelineSpec => []Accounted
<1>1. PathInv => Accounted
  BY DEF PathInv, Taken, Accounted
<1> QED
  BY <1>1, PathInit, PathNext, PTL DEF PipelineSpec, PipelineSafety

-----------------------------------------------------------------------------
(* A connection is that of a daemon that has made it.                      *)
OwnedInv == /\ daemonLink \in {"up", "down"}
            /\ daemonLink = "up" => daemon \in {"subscribing", "ready"}
            /\ NothingOutlives

(* However often the daemon dies, the broker restarts and connections are  *)
(* lost: subscription, session and queue go with the daemon they are of,   *)
(* so that the one systemd starts next begins with nothing.                *)
THEOREM PathNothingOutlives == PipelineSpec => []NothingOutlives
<1>1. PipelineInit => OwnedInv
  BY DEF PipelineInit, OwnedInv, NothingOutlives
<1>2. OwnedInv /\ [PipelineNext]_pipelineVars => OwnedInv'
  <2> SUFFICES ASSUME OwnedInv, [PipelineNext]_pipelineVars PROVE OwnedInv'
    OBVIOUS
  <2> USE DEF OwnedInv, NothingOutlives
  <2>1. CASE Read \/ NodeConnects \/ NodeNotices \/ Resend \/ NodeAcked \/ NodeLoses
    BY <2>1 DEF Read, NodeConnects, NodeNotices, Resend, NodeAcked, NodeLoses, brokerVars, daemonVars
  <2>2. CASE BrokerAccepts
    BY <2>2 DEF BrokerAccepts, daemonVars
  <2>3. CASE BrokerSubscribes
    BY <2>3 DEF BrokerSubscribes
  <2>4. CASE BrokerRestarts \/ DaemonLoses \/ Crash
    BY <2>4 DEF BrokerRestarts, DaemonLoses, Crash, SessionEnds
  <2>5. CASE Restart \/ DaemonConnects
    BY <2>5 DEF Restart, DaemonConnects, brokerVars
  <2>6. CASE DaemonSubscribes
    <3>1. /\ daemonLink = "down" => daemon' = "alone" /\ ~asked'
          /\ daemonLink = "up" => daemon' = "ready"
          /\ UNCHANGED <<daemonLink, queue, session, subscribed>>
      BY <2>6 DEF DaemonSubscribes, brokerVars
    <3>2. daemon # "down" /\ daemon' # "down"
      BY <2>6 DEF DaemonSubscribes
    <3> QED
      BY <3>1, <3>2
  <2>7. CASE message_arrived
    BY <2>7 DEF message_arrived
  <2>8. CASE Work
    BY <2>8 DEF Work, brokerVars
  <2>9. CASE UNCHANGED pipelineVars
    BY <2>9 DEF pipelineVars, brokerVars, daemonVars
  <2> QED
    BY <2>1, <2>2, <2>3, <2>4, <2>5, <2>6, <2>7, <2>8, <2>9 DEF PipelineNext
<1>3. OwnedInv => NothingOutlives
  BY DEF OwnedInv
<1> QED
  BY <1>1, <1>2, <1>3, PTL DEF PipelineSpec, PipelineSafety
=============================================================================
