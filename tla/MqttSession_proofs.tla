------------------------- MODULE MqttSession_proofs -------------------------
(***************************************************************************)
(* What holds of the message flows between the client and a broker that    *)
(* keeps its session, for any number of messages, callers, packets under   *)
(* way and connections lost, at every quality of service.  The inductive   *)
(* invariant says what every packet under way implies about its sender.    *)
(***************************************************************************)
EXTENDS MqttSession, Outbox_proofs, SequenceTheorems, FiniteSetTheorems

Kinds == {"PUBLISH", "SUBSCRIBE", "UNSUBSCRIBE"}
Answers == {"PUBACK", "PUBREC", "PUBCOMP"}
Ids == {0} \cup Msgs \cup In
Packets == [type : Kinds \cup Answers \cup {"PUBREL", "SUBACK", "UNSUBACK", "REST"},
            id : Ids, m : Ids, qos : 0..2, dup : BOOLEAN]

(* Messages the broker has.                                                *)
Received == {m \in Msgs : broker.got[m] > 0}

Brokers == [rec : SUBSET Msgs, got : [Msgs -> 0..2],
            out : UNION {[S -> {"sent", "rec", "done"}] : S \in SUBSET In}]

Calling == [Callers -> {"none", "enqueue", "store", "subscribe", "unsubscribe"}]

Extents == {"none", "part", "late", "whole"}
Events == {"none", "done", "refused", Expiry}

StateOK ==
    /\ sent \in Seq(Kinds \X (0..2)) /\ Len(sent) <= N
    /\ broker \in Brokers
    /\ data \in [In -> Extents]
    /\ ret \in [Msgs -> {"none", "id", "fail"}]
    /\ event \in [Msgs -> Events]
    /\ call \in Calling

SessionTypeOK == StateOK /\ c2b \in Seq(Packets) /\ b2c \in Seq(Packets)

(* An item of the outbox is a message of the application, kept under its   *)
(* number unless it is of QoS 0; only a PUBLISH waits to be sent.          *)
ItemOk(m, item) ==
    /\ item \in [type : Kinds, id : Ids, qos : 0..2, via : {"publish", "enqueue"},
                 pending : {"QUEUED", "TRANSMITTED", "ACKNOWLEDGED"}]
    /\ sent[m] = <<item.type, IF item.type = "PUBLISH" THEN item.qos ELSE 1>>
    /\ item.id = IF item.type = "PUBLISH" /\ item.qos = 0 THEN 0 ELSE m
    /\ item.type # "PUBLISH" => item.qos = 0
    /\ item.pending = "QUEUED" => item.type = "PUBLISH"
    /\ item.qos = 0 /\ item.type = "PUBLISH" => item.pending = "QUEUED"
    /\ item.pending = "ACKNOWLEDGED" => m \in Received

ItemsInv == /\ DOMAIN outbox \subseteq DOMAIN sent
            /\ outbox = [m \in DOMAIN outbox |-> outbox[m]]
            /\ \A m \in DOMAIN outbox : ItemOk(m, outbox[m])

(* A packet to the broker is a message of the application, or answers one  *)
(* of the broker's that the application has.                               *)
UpOk(p) ==
    /\ p.type \in Kinds => /\ p.m \in DOMAIN sent
                           /\ sent[p.m] = <<p.type, IF p.type = "PUBLISH" THEN p.qos ELSE 1>>
                           /\ p.id = IF p.type = "PUBLISH" /\ p.qos = 0 THEN 0 ELSE p.m
    /\ p.type = "PUBREL" => p.id \in Received
    /\ p.type \in Answers => p.m = p.id /\ p.m \in In /\ Delivered(data[p.m])
    /\ p.type \notin {"SUBACK", "UNSUBACK", "REST"}

(* A packet from the broker answers a message that it has, or is one of    *)
(* its own.                                                                *)
DownOk(p) ==
    /\ p.type \in Answers \cup {"UNSUBACK"} \/ (p.type = "SUBACK" /\ ~p.dup) => p.id \in Received
    /\ p.type = "SUBACK" => p.id \in Msgs
    /\ p.type = "PUBLISH" => p.m = p.id /\ p.m \in In /\ p.qos = InQoS[p.m]
    /\ p.type = "PUBREL" => p.id \in In /\ Delivered(data[p.id])
    /\ p.type \notin {"SUBSCRIBE", "UNSUBSCRIBE"}

WireInv == /\ \A p \in Range(c2b) : UpOk(p)
           /\ \A p \in Range(b2c) : DownOk(p)
           /\ broker.rec \subseteq Received
           /\ Received \subseteq DOMAIN sent
           /\ \A k \in DOMAIN broker.out : broker.out[k] = "rec" => Delivered(data[k])

(* PUBLISH of m is among the packets from place i on.                      *)
PublishFrom(i, m) == \E j \in 1 .. Len(c2b) : j >= i /\ c2b[j].type = "PUBLISH" /\ c2b[j].m = m

(* A message that waits to be sent was never sent.                         *)
UnsentInv == \A m \in DOMAIN outbox :
                 outbox[m].pending = "QUEUED" => m \notin Received /\ ~PublishFrom(1, m)

(* The client is past PUBLISH of m.                                        *)
Past(m) == m \in DOMAIN outbox => outbox[m].pending = "ACKNOWLEDGED"

(* Once the broker may forget the identifier of a QoS 2 message, there is  *)
(* no PUBLISH of it left, and none will be sent.                           *)
OnceInv ==
    \A m \in DOMAIN sent : sent[m] = <<"PUBLISH", 2>> =>
        /\ broker.got[m] <= 1
        /\ m \in Received /\ m \notin broker.rec => ~PublishFrom(1, m) /\ Past(m)
        /\ \A i \in 1 .. Len(c2b) :
               c2b[i].type = "PUBREL" /\ c2b[i].id = m => ~PublishFrom(i, m) /\ Past(m)

(* A completion event tells the truth, also of messages not yet sent.      *)
EventsInv == \A m \in Msgs : event[m] = "done" => m \in Received

(* A message that got an identifier is in the outbox or has come to an end.*)
NoneForgotten ==
    \A m \in DOMAIN sent : ret[m] = "id" /\ sent[m][2] > 0 /\ event[m] = "none"
                               => m \in DOMAIN outbox

(* What the client keeps, and what is under way.                           *)
ClientInv == StateOK /\ ItemsInv /\ EventsInv /\ NoneForgotten /\ EnqueuedInOrder
FlowInv == /\ c2b \in Seq(Packets) /\ b2c \in Seq(Packets)
           /\ WireInv /\ UnsentInv /\ OnceInv /\ AcknowledgedWasDelivered

SessionInv == ClientInv /\ FlowInv

-----------------------------------------------------------------------------
(* What the steps do to the packets under way                              *)

(* The messages sent so far are numbers.                                   *)
LEMMA SentFacts ==
    ASSUME SessionTypeOK
    PROVE  /\ N \in Nat /\ Msgs = 1 .. N /\ Msgs \subseteq Nat
           /\ Len(sent) \in Nat /\ DOMAIN sent = 1 .. Len(sent) /\ DOMAIN sent \subseteq Msgs
           /\ Len(c2b) \in Nat /\ Len(b2c) \in Nat
BY SessionAssumption, LenProperties DEF SessionTypeOK, StateOK, Msgs

(* A step forgets no message sent, received or handed to the application.  *)
Grows == /\ DOMAIN sent \subseteq DOMAIN sent' /\ \A m \in DOMAIN sent : sent'[m] = sent[m]
         /\ Received \subseteq Received'
         /\ \A k \in In : Delivered(data[k]) => Delivered(data'[k])

(* What a packet implies then remains true.                                *)
LEMMA GrowsKeeps ==
    ASSUME Grows
    PROVE  /\ \A p : UpOk(p) => UpOk(p)'
           /\ \A p : DownOk(p) => DownOk(p)'
<1>1. ASSUME NEW p, UpOk(p) PROVE UpOk(p)'
  BY <1>1 DEF Grows, UpOk
<1>2. ASSUME NEW p, DownOk(p) PROVE DownOk(p)'
  BY <1>2 DEF Grows, DownOk
<1> QED BY <1>1, <1>2

(* The first packet of a sequence is taken out.                            *)
LEMMA TailFacts ==
    ASSUME NEW S, NEW s \in Seq(S), s # <<>>
    PROVE  /\ Tail(s) \in Seq(S) /\ Head(s) \in S /\ Head(s) = s[1]
           /\ Len(s) \in Nat /\ Len(s) > 0 /\ Len(Tail(s)) = Len(s) - 1
           /\ \A i \in 1 .. Len(Tail(s)) : i + 1 \in 1 .. Len(s) /\ Tail(s)[i] = s[i + 1]
           /\ Range(Tail(s)) \subseteq Range(s) /\ Head(s) \in Range(s)
<1>1. Len(s) \in Nat /\ Len(s) > 0 /\ DOMAIN s = 1 .. Len(s)
  BY EmptySeq, LenProperties
<1>2. /\ Tail(s) \in Seq(S) /\ Head(s) \in S /\ Head(s) = s[1] /\ Len(Tail(s)) = Len(s) - 1
      /\ \A i \in 1 .. Len(Tail(s)) : i + 1 \in 1 .. Len(s) /\ Tail(s)[i] = s[i + 1]
  BY <1>1, HeadTailProperties
<1>3. DOMAIN Tail(s) = 1 .. Len(Tail(s)) /\ 1 \in DOMAIN s
  BY <1>1, <1>2, LenProperties
<1> QED BY <1>1, <1>2, <1>3 DEF Range

(* A packet is put at the end of a sequence.                               *)
LEMMA AppendFacts ==
    ASSUME NEW S, NEW s \in Seq(S), NEW e \in S
    PROVE  /\ Append(s, e) \in Seq(S) /\ Len(s) \in Nat /\ Len(Append(s, e)) = Len(s) + 1
           /\ \A i \in 1 .. Len(s) : Append(s, e)[i] = s[i]
           /\ Append(s, e)[Len(s) + 1] = e
           /\ \A i \in 1 .. Len(Append(s, e)) : i \in 1 .. Len(s) \/ i = Len(s) + 1
           /\ Range(Append(s, e)) = Range(s) \cup {e}
<1>1. /\ Append(s, e) \in Seq(S) /\ Len(s) \in Nat /\ Len(Append(s, e)) = Len(s) + 1
      /\ \A i \in 1 .. Len(s) : Append(s, e)[i] = s[i]
      /\ Append(s, e)[Len(s) + 1] = e
      /\ \A i \in 1 .. Len(Append(s, e)) : i \in 1 .. Len(s) \/ i = Len(s) + 1
  BY AppendProperties, LenProperties
<1>2. DOMAIN s = 1 .. Len(s) /\ DOMAIN Append(s, e) = 1 .. Len(s) + 1
  BY <1>1, LenProperties
<1>3. 1 .. Len(s) + 1 = (1 .. Len(s)) \cup {Len(s) + 1}
  BY <1>1
<1>4. Range(Append(s, e)) = Range(s) \cup {e}
  BY <1>1, <1>2, <1>3 DEF Range
<1> QED BY <1>1, <1>4

(* Nothing is under way.                                                   *)
LEMMA EmptyFacts == <<>> \in Seq(Packets) /\ Range(<<>>) = {} /\ Len(<<>>) = 0
BY DEF Range

(* What is on the way to the client loses its head, or all, or nothing.    *)
Shrinks == b2c' = b2c \/ b2c' = <<>> \/ (b2c # <<>> /\ b2c' = Tail(b2c))

Lawful == b2c' \in Seq(Packets) /\ \A p \in Range(b2c') : DownOk(p)'

LEMMA ShrinksKeeps ==
    ASSUME SessionTypeOK, WireInv, Grows, Shrinks
    PROVE  Lawful
<1>1. \A p \in Range(b2c) : DownOk(p)'
  BY GrowsKeeps DEF WireInv
<1>2. b2c \in Seq(Packets)
  BY DEF SessionTypeOK
<1>3. b2c' \in Seq(Packets) /\ Range(b2c') \subseteq Range(b2c)
  <2>1. CASE b2c' = <<>>
    BY <2>1, EmptyFacts
  <2>2. CASE b2c # <<>> /\ b2c' = Tail(b2c)
    BY <1>2, <2>2, TailFacts
  <2> QED BY <1>2, <2>1, <2>2 DEF Shrinks
<1> QED BY <1>1, <1>3 DEF Lawful

(* What is left of the packets to the client, with the rest of one before  *)
(* them, which promises nothing.                                           *)
LEMMA RestKeeps ==
    ASSUME SessionTypeOK, WireInv, Grows, b2c' \in Seq(Packets),
           \A p \in Range(b2c') : p.type = "REST" \/ p \in Range(b2c)
    PROVE  Lawful
<1>1. \A p \in Range(b2c) : DownOk(p)'
  BY GrowsKeeps DEF WireInv
<1>2. \A p : p.type = "REST" => DownOk(p)'
  BY DEF DownOk, Answers
<1> QED BY <1>1, <1>2 DEF Lawful

(* A packet is put before a sequence, or a sequence loses its first ones.  *)
LEMMA FrontFacts ==
    ASSUME NEW S, NEW s \in Seq(S), NEW e \in S
    PROVE  <<e>> \o s \in Seq(S) /\ Range(<<e>> \o s) \subseteq {e} \cup Range(s)
<1>1. /\ <<e>> \in Seq(S) /\ Len(<<e>>) = 1 /\ <<e>>[1] = e /\ Len(s) \in Nat
      /\ DOMAIN s = 1 .. Len(s)
  BY LenProperties
<1>2. /\ <<e>> \o s \in Seq(S) /\ Len(<<e>> \o s) = 1 + Len(s)
      /\ \A i \in 1 .. 1 + Len(s) : (<<e>> \o s)[i] = IF i <= 1 THEN <<e>>[i] ELSE s[i - 1]
  BY <1>1, ConcatProperties
<1>3. DOMAIN (<<e>> \o s) = 1 .. 1 + Len(s)
  BY <1>1, <1>2, LenProperties
<1>4. ASSUME NEW i \in 1 .. 1 + Len(s) PROVE (<<e>> \o s)[i] \in {e} \cup Range(s)
  <2>1. CASE i = 1
    BY <1>1, <1>2, <2>1
  <2>2. CASE i # 1
    <3>1. i - 1 \in DOMAIN s /\ (<<e>> \o s)[i] = s[i - 1]
      BY <1>1, <1>2, <2>2
    <3> QED BY <3>1 DEF Range
  <2> QED BY <2>1, <2>2
<1> QED BY <1>2, <1>3, <1>4 DEF Range

LEMMA SuffixFacts ==
    ASSUME NEW S, NEW s \in Seq(S), NEW n \in 1 .. Len(s)
    PROVE  /\ SubSeq(s, n + 1, Len(s)) \in Seq(S)
           /\ Range(SubSeq(s, n + 1, Len(s))) \subseteq Range(s)
<1>1. Len(s) \in Nat /\ DOMAIN s = 1 .. Len(s)
  BY LenProperties
<1>0. PICK t : t = SubSeq(s, n + 1, Len(s))
  OBVIOUS
<1>a. PICK L \in Nat : L = Len(s) /\ n \in 1 .. L
  BY <1>1
<1>b. n \in Nat /\ n + 1 \in Nat /\ n >= 1 /\ n <= L
  BY <1>a
<1>2. /\ t \in Seq(S) /\ Len(t) = Len(s) - n
      /\ \A i \in 1 .. Len(s) - n : t[i] = s[n + i]
  <2>1. \A i \in n + 1 .. L : s[i] \in S
    BY <1>1, <1>a
  <2>2. /\ t \in Seq(S) /\ Len(t) = IF n + 1 <= L THEN L - (n + 1) + 1 ELSE 0
        /\ \A i \in 1 .. L - (n + 1) + 1 : t[i] = s[n + 1 + i - 1]
    BY <1>0, <1>a, <1>b, <2>1, SubSeqProperties
  <2>3. L - (n + 1) + 1 = L - n /\ (n + 1 <= L \/ L - n = 0)
    BY <1>a, <1>b
  <2>4. \A i \in 1 .. L - n : n + 1 + i - 1 = n + i
    BY <1>a, <1>b
  <2>5. \A i \in 1 .. L - n : t[i] = s[n + i]
    BY <2>2, <2>3, <2>4
  <2>6. Len(t) = L - n
    BY <2>2, <2>3
  <2> QED BY <1>a, <2>2, <2>5, <2>6
<1>3. DOMAIN t = 1 .. Len(s) - n
  BY <1>2, LenProperties
<1>4. ASSUME NEW i \in DOMAIN t PROVE t[i] \in Range(s)
  <2>1. n + i \in DOMAIN s /\ t[i] = s[n + i]
    BY <1>1, <1>2, <1>3
  <2> QED BY <2>1 DEF Range
<1> QED BY <1>0, <1>2, <1>4 DEF Range

(* The client writes packet p, or nothing, or loses what is under way.     *)
(* PUBLISH is written only of a message that is not past it and no longer  *)
(* waits, PUBREL only of one that is past it.                              *)
Writes(p) == /\ p \in Packets /\ UpOk(p)'
             /\ c2b' = Append(c2b, p)
             /\ p.type = "PUBLISH" =>
                    /\ p.m \notin DOMAIN sent \/ ~Past(p.m)
                    /\ p.m \in DOMAIN outbox' => outbox'[p.m].pending # "QUEUED"
             /\ p.type = "PUBREL" => Past(p.id)'
LosesOrKeeps == c2b' = c2b \/ c2b' = <<>>

(* No item starts to wait again, and none takes back PUBREL.               *)
Moves == \A m \in DOMAIN outbox' :
             \/ m \notin DOMAIN sent
             \/ /\ m \in DOMAIN outbox
                /\ outbox'[m].pending = "QUEUED" => outbox[m].pending = "QUEUED"
                /\ outbox[m].pending = "ACKNOWLEDGED" => outbox'[m].pending = "ACKNOWLEDGED"

(* What PublishFrom becomes when the client writes or loses packets.       *)
LEMMA PublishFromWrites ==
    ASSUME c2b \in Seq(Packets), NEW p \in Packets, c2b' = Append(c2b, p)
    PROVE  \A m : \A i \in Nat : PublishFrom(i, m)' =>
               PublishFrom(i, m) \/ (p.type = "PUBLISH" /\ p.m = m)
<1> SUFFICES ASSUME NEW i \in Nat, NEW m, PublishFrom(i, m)'
             PROVE  PublishFrom(i, m) \/ (p.type = "PUBLISH" /\ p.m = m)
  OBVIOUS
<1>1. PICK j \in 1 .. Len(c2b') : j >= i /\ c2b'[j].type = "PUBLISH" /\ c2b'[j].m = m
  BY DEF PublishFrom
<1>2. (j \in 1 .. Len(c2b) /\ c2b'[j] = c2b[j]) \/ c2b'[j] = p
  BY <1>1, AppendFacts
<1> QED BY <1>1, <1>2 DEF PublishFrom

(* A step of the client: it changes nothing the broker has.                *)
LEMMA ClientStep ==
    ASSUME SessionInv, Grows, Shrinks \/ Lawful, Moves, UNCHANGED broker, data' \in [In -> Extents],
           DOMAIN sent' \subseteq Msgs,
           LosesOrKeeps \/ \E p \in Packets : Writes(p)
    PROVE  FlowInv'
<1>0. /\ SessionTypeOK /\ WireInv /\ UnsentInv /\ OnceInv
      /\ c2b \in Seq(Packets) /\ Len(c2b) \in Nat
      /\ DOMAIN broker.out \subseteq In
      /\ Received' = Received /\ Received \subseteq DOMAIN sent
  <2>1. SessionTypeOK /\ WireInv /\ UnsentInv /\ OnceInv
    BY DEF SessionInv, ClientInv, FlowInv, SessionTypeOK
  <2> QED BY <2>1, SentFacts DEF SessionTypeOK, StateOK, Brokers, Received, WireInv
<1>1. b2c' \in Seq(Packets) /\ \A p \in Range(b2c') : DownOk(p)'
  BY <1>0, ShrinksKeeps DEF Lawful
<1>2. AcknowledgedWasDelivered'
  BY <1>0 DEF SessionInv, FlowInv, AcknowledgedWasDelivered, Grows
<1>3. /\ broker'.rec \subseteq Received' /\ Received' \subseteq DOMAIN sent'
      /\ \A k \in DOMAIN broker'.out : broker'.out[k] = "rec" => Delivered(data'[k])
  BY <1>0 DEF WireInv, Grows
<1>4. \A m \in DOMAIN sent : Past(m) => Past(m)'
  BY DEF Past, Moves
<1>5. \A m \in DOMAIN outbox' : outbox'[m].pending = "QUEUED" =>
          m \notin DOMAIN sent \/ (m \in DOMAIN outbox /\ outbox[m].pending = "QUEUED")
  BY DEF Moves
<1>6. \A p \in Range(c2b) : UpOk(p)'
  BY <1>0, GrowsKeeps DEF WireInv
<1>7. \A i \in 1 .. Len(c2b) : /\ c2b[i] \in Range(c2b) /\ c2b[i] \in Packets /\ UpOk(c2b[i])
                               /\ c2b[i].type = "PUBREL" => c2b[i].id \in DOMAIN sent
                               /\ c2b[i].type = "PUBLISH" => c2b[i].m \in DOMAIN sent
  <2>1. \A i \in 1 .. Len(c2b) : c2b[i] \in Range(c2b) /\ c2b[i] \in Packets
    BY <1>0, LenProperties DEF Range
  <2> QED BY <1>0, <2>1 DEF WireInv, UpOk, Kinds
<1>8. \A m : m \notin DOMAIN sent => ~PublishFrom(1, m)
  BY <1>7 DEF PublishFrom
<1> DEFINE New(m) == /\ m \notin DOMAIN sent \/ ~Past(m)
                     /\ m \in DOMAIN outbox' => outbox'[m].pending # "QUEUED"
           Old(i) == i \in 1 .. Len(c2b) /\ c2b'[i] = c2b[i]
<1>9. /\ c2b' \in Seq(Packets) /\ \A p \in Range(c2b') : UpOk(p)'
      /\ \A m : \A i \in Nat : PublishFrom(i, m)' => PublishFrom(i, m) \/ New(m)
      /\ \A i \in 1 .. Len(c2b') :
             \/ Old(i)
             \/ \A m : c2b'[i].type = "PUBREL" /\ c2b'[i].id = m =>
                        Past(m)' /\ m \in Received' /\ ~PublishFrom(i, m)'
  <2>1. CASE c2b' = c2b
    BY <1>0, <1>6, <2>1 DEF PublishFrom
  <2>2. CASE c2b' = <<>>
    BY <2>2, EmptyFacts DEF PublishFrom
  <2>3. CASE \E p \in Packets : Writes(p)
    <3>0. PICK p \in Packets : Writes(p)
      BY <2>3
    <3>1. Writes(p) /\ c2b' = Append(c2b, p) /\ UpOk(p)'
      BY <3>0 DEF Writes
    <3>2. c2b' \in Seq(Packets) /\ Range(c2b') = Range(c2b) \cup {p} /\ Len(c2b') = Len(c2b) + 1
      BY <1>0, <3>1, AppendFacts
    <3>3. \A m : \A i \in Nat : PublishFrom(i, m)' => PublishFrom(i, m) \/ New(m)
      BY <1>0, <3>1, PublishFromWrites DEF Writes
    <3>4. ASSUME NEW i \in 1 .. Len(c2b')
          PROVE  \/ Old(i)
                 \/ \A m : c2b'[i].type = "PUBREL" /\ c2b'[i].id = m =>
                            Past(m)' /\ m \in Received' /\ ~PublishFrom(i, m)'
      <4>1. Old(i) \/ (i = Len(c2b) + 1 /\ c2b'[i] = p)
        BY <1>0, <3>1, AppendFacts
      <4>2. CASE i = Len(c2b) + 1 /\ c2b'[i] = p /\ p.type = "PUBREL"
        <5>1. \A m : m = p.id => Past(m)' /\ m \in Received'
          BY <3>1, <4>2 DEF Writes, UpOk
        <5>2. \A j \in 1 .. Len(c2b') : j >= i => j = i
          BY <1>0, <3>2, <4>2
        <5>3. \A m : ~PublishFrom(i, m)'
          BY <4>2, <5>2 DEF PublishFrom
        <5> QED BY <4>2, <5>1, <5>3
      <4> QED BY <4>1, <4>2
    <3> QED BY <1>6, <3>1, <3>2, <3>3, <3>4
  <2> QED BY <2>1, <2>2, <2>3 DEF LosesOrKeeps
<1>10. WireInv'
  BY <1>1, <1>3, <1>9 DEF WireInv
<1>11. UnsentInv'
  BY <1>0, <1>5, <1>8, <1>9 DEF UnsentInv
<1>12. OnceInv'
  <2> SUFFICES ASSUME NEW m \in DOMAIN sent', sent'[m] = <<"PUBLISH", 2>>
               PROVE  /\ broker'.got[m] <= 1
                      /\ m \in Received' /\ m \notin broker'.rec => ~PublishFrom(1, m)' /\ Past(m)'
                      /\ \A i \in 1 .. Len(c2b') :
                             c2b'[i].type = "PUBREL" /\ c2b'[i].id = m => ~PublishFrom(i, m)' /\ Past(m)'
    BY DEF OnceInv
  <2>1. CASE m \in DOMAIN sent
    <3>1. /\ broker.got[m] <= 1
          /\ m \in Received /\ m \notin broker.rec => ~PublishFrom(1, m) /\ Past(m)
          /\ \A i \in 1 .. Len(c2b) :
                 c2b[i].type = "PUBREL" /\ c2b[i].id = m => ~PublishFrom(i, m) /\ Past(m)
      BY <1>0, <2>1 DEF OnceInv, Grows
    <3>2. Past(m) => ~New(m)
      BY <2>1
    <3>3. m \in Received' /\ m \notin broker'.rec => ~PublishFrom(1, m)' /\ Past(m)'
      BY <1>0, <1>4, <1>9, <2>1, <3>1, <3>2
    <3>4. ASSUME NEW i \in 1 .. Len(c2b'), c2b'[i].type = "PUBREL", c2b'[i].id = m
          PROVE  ~PublishFrom(i, m)' /\ Past(m)'
      <4>1. CASE Old(i)
        BY <1>4, <1>9, <2>1, <3>1, <3>2, <3>4, <4>1
      <4>2. CASE ~Old(i)
        BY <1>9, <3>4, <4>2
      <4> QED BY <4>1, <4>2
    <3> QED BY <3>1, <3>3, <3>4
  <2>2. CASE m \notin DOMAIN sent
    <3>1. m \in Msgs /\ m \notin Received /\ broker.got[m] \in 0..2
      BY <1>0, <2>2 DEF SessionTypeOK, StateOK, Brokers
    <3>2. broker.got[m] <= 1
      BY <3>1 DEF Received
    <3>3. ASSUME NEW i \in 1 .. Len(c2b'), c2b'[i].type = "PUBREL", c2b'[i].id = m
          PROVE  FALSE
      BY <1>0, <1>7, <1>9, <2>2, <3>3
    <3> QED BY <1>0, <3>1, <3>2, <3>3
  <2> QED BY <2>1, <2>2
<1> QED BY <1>1, <1>2, <1>9, <1>10, <1>11, <1>12 DEF FlowInv

-----------------------------------------------------------------------------
(* What the steps do to the outbox                                         *)

LEMMA ItemGrows ==
    ASSUME Grows, NEW m \in DOMAIN sent, NEW item, ItemOk(m, item)
    PROVE  ItemOk(m, item)'
BY DEF Grows, ItemOk

(* The broker has the application's messages, and the client no new one.   *)
LEMMA QuietClient ==
    ASSUME SessionInv, Grows, UNCHANGED <<outbox, sent, ret, event>>, StateOK'
    PROVE  ClientInv' /\ Moves
<1>1. ItemsInv'
  <2>1. \A m \in DOMAIN outbox : m \in DOMAIN sent /\ ItemOk(m, outbox[m])
    BY DEF SessionInv, ClientInv, ItemsInv
  <2>2. \A m \in DOMAIN outbox : \A item : item = outbox[m] => ItemOk(m, item)'
    BY <2>1, ItemGrows
  <2>3. \A m \in DOMAIN outbox' : \A item : item = outbox'[m] => ItemOk(m, item)'
    BY <2>2
  <2> QED BY <2>3 DEF SessionInv, ClientInv, ItemsInv
<1>2. EventsInv'
  BY DEF SessionInv, ClientInv, EventsInv, Grows
<1>3. NoneForgotten' /\ EnqueuedInOrder'
  BY DEF SessionInv, ClientInv, NoneForgotten, EnqueuedInOrder
<1>4. Moves
  BY DEF Moves, SessionInv, ClientInv, ItemsInv
<1> QED BY <1>1, <1>2, <1>3, <1>4 DEF ClientInv

(* The API takes a message, and keeps it unless it is of QoS 0 or refused. *)
LEMMA NewMessage ==
    ASSUME SessionInv, NEW x \in Kinds \X (0..2), NEW r \in {"id", "fail"}, NEW item,
           Len(sent) + 1 \in Msgs, sent' = Append(sent, x), UNCHANGED <<broker, data, event>>,
           ret' = [ret EXCEPT ![Len(sent) + 1] = r],
           call' \in Calling,
           \/ outbox' = outbox /\ ~(r = "id" /\ x[2] > 0)
           \/ /\ outbox' = Extended(outbox, Len(sent) + 1, item)
              /\ \A m : m = Len(sent) + 1 => ItemOk(m, item)'
              /\ item.pending # "QUEUED" => item.via = "publish"
    PROVE  Grows /\ Moves /\ DOMAIN sent' \subseteq Msgs /\ ClientInv'
<1> DEFINE n == Len(sent) + 1
<1>0. /\ N \in Nat /\ Msgs = 1 .. N /\ Len(sent) \in Nat /\ DOMAIN sent = 1 .. Len(sent)
      /\ DOMAIN sent \subseteq Msgs /\ sent \in Seq(Kinds \X (0..2))
      /\ StateOK /\ ItemsInv
  BY SentFacts DEF SessionInv, ClientInv, FlowInv, SessionTypeOK, StateOK
<1>1. /\ sent' \in Seq(Kinds \X (0..2)) /\ Len(sent') = n /\ DOMAIN sent' = 1 .. n
      /\ \A i \in DOMAIN sent : sent'[i] = sent[i]
      /\ sent'[n] = x
  BY <1>0, AppendProperties, LenProperties
<1>2. DOMAIN sent' = DOMAIN sent \cup {n} /\ n \notin DOMAIN sent /\ DOMAIN sent' \subseteq Msgs
  BY <1>0, <1>1
<1>3. Grows
  BY <1>1, <1>2 DEF Grows, Received
<1>4. StateOK'
  BY <1>0, <1>1 DEF StateOK
<1>5. EventsInv'
  BY DEF SessionInv, ClientInv, EventsInv, Received
<1>6. \A m \in DOMAIN outbox : \A it : it = outbox[m] => ItemOk(m, it)'
  <2>1. \A m \in DOMAIN outbox : m \in DOMAIN sent /\ ItemOk(m, outbox[m])
    BY <1>0 DEF ItemsInv
  <2> QED BY <1>3, <2>1, ItemGrows
<1>7. ret'[n] = r /\ \A m \in DOMAIN sent : ret'[m] = ret[m]
  BY <1>0, <1>2 DEF StateOK
<1> HIDE DEF n
<1>8. CASE outbox' = outbox /\ ~(r = "id" /\ x[2] > 0)
  <2>1. ItemsInv'
    <3>1. \A m \in DOMAIN outbox' : \A it : it = outbox'[m] => ItemOk(m, it)'
      BY <1>6, <1>8
    <3> QED BY <1>0, <1>2, <1>8, <3>1 DEF ItemsInv
  <2>2. Moves
    BY <1>0, <1>8 DEF Moves, ItemsInv
  <2>3. EnqueuedInOrder'
    BY <1>8 DEF SessionInv, ClientInv, EnqueuedInOrder
  <2>4. NoneForgotten'
    BY <1>1, <1>2, <1>7, <1>8 DEF SessionInv, ClientInv, NoneForgotten
  <2> QED BY <1>2, <1>3, <1>4, <1>5, <2>1, <2>2, <2>3, <2>4 DEF ClientInv
<1>9. CASE /\ outbox' = Extended(outbox, n, item)
           /\ \A m : m = n => ItemOk(m, item)'
           /\ item.pending # "QUEUED" => item.via = "publish"
  <2>0. /\ DOMAIN outbox' = DOMAIN outbox \cup {n} /\ outbox'[n] = item
        /\ \A m \in DOMAIN outbox : outbox'[m] = outbox[m]
        /\ outbox' = [m \in DOMAIN outbox' |-> outbox'[m]]
        /\ DOMAIN outbox \subseteq DOMAIN sent
    BY <1>0, <1>2, <1>9 DEF Extended, ItemsInv
  <2>1. ItemsInv'
    <3>1. \A m \in DOMAIN outbox' : \A it : it = outbox'[m] => ItemOk(m, it)'
      BY <1>6, <1>9, <2>0
    <3> QED BY <1>2, <2>0, <3>1 DEF ItemsInv
  <2>2. Moves
    BY <1>2, <2>0 DEF Moves
  <2>3. EnqueuedInOrder'
    <3>1. \A m \in DOMAIN outbox : m < n
      BY <1>0, <2>0 DEF n
    <3>2. \A m \in DOMAIN outbox : m \in Nat /\ n \in Nat
      BY <1>0, <2>0 DEF n
    <3> QED BY <1>9, <2>0, <3>1, <3>2 DEF SessionInv, ClientInv, EnqueuedInOrder
  <2>4. NoneForgotten'
    BY <1>1, <1>2, <1>7, <2>0 DEF SessionInv, ClientInv, NoneForgotten
  <2> QED BY <1>2, <1>3, <1>4, <1>5, <2>1, <2>2, <2>3, <2>4 DEF ClientInv
<1> QED BY <1>8, <1>9 DEF n

-----------------------------------------------------------------------------
(* The application's calls                                                 *)

(* The item and the packet of a new message are of that message.           *)
LEMMA NewItem ==
    ASSUME SessionInv, NEW type \in Kinds, NEW qos \in 0..2, NEW via \in {"publish", "enqueue"},
           NEW n, NEW s \in {"QUEUED", "TRANSMITTED"},
           n = Len(sent) + 1, n \in Msgs,
           type # "PUBLISH" => qos = 0 /\ s = "TRANSMITTED",
           type = "PUBLISH" /\ qos = 0 => s = "QUEUED",
           sent' = Append(sent, <<type, IF type = "PUBLISH" THEN qos ELSE 1>>),
           NEW id, id = IF type = "PUBLISH" /\ qos = 0 THEN 0 ELSE n
    PROVE  /\ ItemOk(n, [type |-> type, id |-> id, qos |-> qos, via |-> via, pending |-> s])'
           /\ Packet(type, id, n, qos, FALSE) \in Packets
           /\ UpOk(Packet(type, id, n, qos, FALSE))'
           /\ n \in DOMAIN sent' /\ n \notin DOMAIN sent
           /\ <<type, IF type = "PUBLISH" THEN qos ELSE 1>> \in Kinds \X (0..2)
<1> DEFINE x == <<type, IF type = "PUBLISH" THEN qos ELSE 1>>
<1>0. /\ Len(sent) \in Nat /\ sent \in Seq(Kinds \X (0..2)) /\ DOMAIN sent = 1 .. Len(sent)
  BY SentFacts DEF SessionInv, ClientInv, FlowInv, SessionTypeOK, StateOK
<1>1. x \in Kinds \X (0..2)
  OBVIOUS
<1>2. sent'[n] = x /\ n \in DOMAIN sent' /\ n \notin DOMAIN sent
  BY <1>0, <1>1, AppendProperties, LenProperties
<1>3. id \in Ids /\ n \in Ids
  BY DEF Ids
<1>4. ItemOk(n, [type |-> type, id |-> id, qos |-> qos, via |-> via, pending |-> s])'
  BY <1>2, <1>3 DEF ItemOk
<1>5. Packet(type, id, n, qos, FALSE) \in Packets
  BY <1>3 DEF Packet, Packets, Kinds
<1>6. UpOk(Packet(type, id, n, qos, FALSE))'
  BY <1>2 DEF UpOk, Packet, Kinds, Answers
<1> QED BY <1>1, <1>2, <1>4, <1>5, <1>6

(* What the lemmas about the application's calls start from.               *)
LEMMA SessionFacts ==
    ASSUME SessionInv
    PROVE  /\ N \in Nat /\ Msgs \subseteq Nat /\ Len(sent) \in Nat /\ data \in [In -> Extents]
           /\ StateOK /\ ItemsInv /\ QoS \subseteq 0..2 /\ call \in Calling
           /\ DOMAIN outbox \subseteq DOMAIN sent /\ DOMAIN sent \subseteq Msgs
           /\ DOMAIN outbox \subseteq Nat
BY SentFacts, SessionAssumption
   DEF SessionInv, ClientInv, FlowInv, SessionTypeOK, StateOK, ItemsInv

LEMMA PublishKeepsSession ==
    ASSUME SessionInv, NEW q \in QoS, Publish(q), NEW n, n = Len(sent) + 1,
           NEW id, id = IF q = 0 THEN 0 ELSE n,
           NEW queued, queued = [type |-> "PUBLISH", id |-> id, qos |-> q, via |-> "publish",
                                 pending |-> "QUEUED"],
           NEW gone, gone = [type |-> "PUBLISH", id |-> id, qos |-> q, via |-> "publish",
                             pending |-> "TRANSMITTED"],
           NEW p, p = Packet("PUBLISH", id, n, q, FALSE)
    PROVE  SessionInv'
<1>0. /\ q \in 0..2 /\ data \in [In -> Extents] /\ call \in Calling
      /\ DOMAIN outbox \subseteq DOMAIN sent
  BY SessionFacts
<1>1. /\ n \in Msgs /\ UNCHANGED <<call, event, data, broker>>
      /\ sent' = Append(sent, <<"PUBLISH", q>>)
  BY DEF Publish
<1>2. /\ Item("PUBLISH", id, q, "publish") = queued
      /\ Transmitted(Enqueued(n, queued), n) = Extended(outbox, n, gone)
      /\ PacketOf(n, queued) = p
  <2>1. Item("PUBLISH", id, q, "publish") = queued
    BY DEF Item
  <2>2. /\ queued.type = "PUBLISH" /\ queued.id = id /\ queued.qos = q /\ queued.pending = "QUEUED"
        /\ [queued EXCEPT !.pending = "TRANSMITTED"] = gone
    OBVIOUS
  <2>3. (queued.type = "PUBLISH" /\ queued.qos > 0 /\ queued.pending = "TRANSMITTED") = FALSE
    BY <2>2
  <2>4. PacketOf(n, queued) = p
    BY <2>2, <2>3, Zenon DEF PacketOf
  <2>5. [Extended(outbox, n, queued) EXCEPT ![n] = gone] = Extended(outbox, n, gone)
    BY DEF Extended
  <2>6. Extended(outbox, n, queued)[n] = queued
    BY DEF Extended
  <2>7. Transmitted(Enqueued(n, queued), n) = Extended(outbox, n, gone)
    BY <2>2, <2>5, <2>6 DEF Transmitted, Enqueued
  <2> QED BY <2>1, <2>4, <2>7
<1>3. /\ p \in Packets /\ UpOk(p)' /\ p.type = "PUBLISH" /\ p.m = n
      /\ n \notin DOMAIN sent /\ n \notin DOMAIN outbox
      /\ <<"PUBLISH", q>> \in Kinds \X (0..2)
      /\ ItemOk(n, queued)'
  <2>1. "PUBLISH" \in Kinds /\ (IF "PUBLISH" = "PUBLISH" THEN q ELSE 1) = q
    BY DEF Kinds
  <2>2. p.type = "PUBLISH" /\ p.m = n
    BY DEF Packet
  <2> QED BY <1>0, <1>1, <2>1, <2>2, NewItem
<1>4. q # 0 => ItemOk(n, gone)'
  BY <1>0, <1>1, NewItem DEF Kinds
<1>5. PICK r \in {"id", "fail"} :
        /\ ret' = [ret EXCEPT ![n] = r]
        /\ \/ /\ q = 0 /\ outbox' = outbox
           \/ /\ q # 0 /\ outbox' = Extended(outbox, n, queued)
           \/ /\ q # 0 /\ outbox' = Extended(outbox, n, gone)
        /\ \/ /\ c2b' = Append(c2b, p) /\ UNCHANGED b2c
              /\ q # 0 => outbox' = Extended(outbox, n, gone)
           \/ c2b' = c2b /\ UNCHANGED b2c
           \/ c2b' = <<>> /\ b2c' = <<>>
  BY <1>0, <1>2 DEF Publish, WriteOk, abort_connection, Enqueued
<1>6. Grows /\ Moves /\ DOMAIN sent' \subseteq Msgs /\ ClientInv'
  <2>1. CASE q = 0 /\ outbox' = outbox
    <3>1. ~(r = "id" /\ <<"PUBLISH", q>>[2] > 0)
      BY <2>1
    <3> QED BY <1>0, <1>1, <1>3, <1>5, <2>1, <3>1, NewMessage
  <2>2. CASE outbox' = Extended(outbox, n, queued)
    <3>1. queued.pending = "QUEUED"
      OBVIOUS
    <3> QED BY <1>0, <1>1, <1>3, <1>5, <2>2, <3>1, NewMessage
  <2>3. CASE q # 0 /\ outbox' = Extended(outbox, n, gone)
    <3>1. gone.via = "publish"
      OBVIOUS
    <3> QED BY <1>0, <1>1, <1>3, <1>4, <1>5, <2>3, <3>1, NewMessage
  <2> QED BY <1>5, <2>1, <2>2, <2>3
<1>7. LosesOrKeeps \/ \E e \in Packets : Writes(e)
  <2>1. ASSUME c2b' = Append(c2b, p), q # 0 => outbox' = Extended(outbox, n, gone)
        PROVE  Writes(p)
    <3>1. n \in DOMAIN outbox' => outbox'[n].pending # "QUEUED"
      BY <1>3, <1>5, <2>1 DEF Extended
    <3> QED BY <1>3, <2>1, <3>1 DEF Writes
  <2> QED BY <1>3, <1>5, <2>1 DEF LosesOrKeeps
<1>8. Shrinks /\ data' \in [In -> Extents]
  BY <1>0, <1>1, <1>5 DEF Shrinks
<1> QED BY <1>1, <1>6, <1>7, <1>8, ClientStep DEF SessionInv

LEMMA EnqueueKeepsSession ==
    ASSUME SessionInv, NEW q \in QoS, NEW c \in Callers, Enqueue(c, q), NEW n, n = Len(sent) + 1,
           NEW id, id = IF q = 0 THEN 0 ELSE n,
           NEW queued, queued = [type |-> "PUBLISH", id |-> id, qos |-> q, via |-> "enqueue",
                                 pending |-> "QUEUED"]
    PROVE  SessionInv'
<1>0. q \in 0..2 /\ data \in [In -> Extents] /\ call \in Calling
  BY SessionFacts
<1>1. /\ n \in Msgs /\ UNCHANGED <<event, data, broker, c2b, b2c>>
      /\ call' = [call EXCEPT ![c] = "none"]
      /\ sent' = Append(sent, <<"PUBLISH", q>>)
  BY DEF Enqueue, linkVars
<1>2. /\ <<"PUBLISH", q>> \in Kinds \X (0..2) /\ ItemOk(n, queued)'
  <2>1. "PUBLISH" \in Kinds /\ (IF "PUBLISH" = "PUBLISH" THEN q ELSE 1) = q
    BY DEF Kinds
  <2> QED BY <1>0, <1>1, <2>1, NewItem
<1>3. call' \in Calling
  BY <1>0, <1>1 DEF Calling
<1>4. Item("PUBLISH", id, q, "enqueue") = queued /\ queued.pending = "QUEUED"
  BY DEF Item
<1>5. \/ outbox' = outbox /\ q = 0 /\ ret' = [ret EXCEPT ![n] = "fail"]
      \/ outbox' = Extended(outbox, n, queued) /\ ret' = [ret EXCEPT ![n] = "id"]
  <2>1. \/ outbox' = outbox /\ q = 0 /\ ret' = [ret EXCEPT ![n] = "fail"]
        \/ /\ outbox' = Enqueued(n, Item("PUBLISH", IF q = 0 THEN 0 ELSE n, q, "enqueue"))
           /\ ret' = [ret EXCEPT ![n] = "id"]
    <3>1. CASE q > 0 \/ call[c] = "store"
      BY <3>1 DEF Enqueue
    <3>2. CASE ~(q > 0 \/ call[c] = "store")
      BY <1>0, <3>2 DEF Enqueue
    <3> QED BY <3>1, <3>2
  <2> QED BY <1>4, <2>1 DEF Enqueued
<1>6. Grows /\ Moves /\ DOMAIN sent' \subseteq Msgs /\ ClientInv'
  <2>1. CASE outbox' = outbox /\ ret' = [ret EXCEPT ![n] = "fail"]
    BY <1>1, <1>2, <1>3, <2>1, NewMessage
  <2>2. CASE outbox' = Extended(outbox, n, queued) /\ ret' = [ret EXCEPT ![n] = "id"]
    BY <1>1, <1>2, <1>3, <1>4, <2>2, NewMessage
  <2> QED BY <1>5, <2>1, <2>2
<1>7. LosesOrKeeps /\ Shrinks /\ data' \in [In -> Extents]
  BY <1>0, <1>1 DEF LosesOrKeeps, Shrinks
<1> QED BY <1>1, <1>6, <1>7, ClientStep DEF SessionInv

LEMMA SubscribeKeepsSession ==
    ASSUME SessionInv, NEW c \in Callers, Subscribe(c), NEW n, n = Len(sent) + 1,
           NEW type, type = IF call[c] = "subscribe" THEN "SUBSCRIBE" ELSE "UNSUBSCRIBE",
           NEW queued, queued = [type |-> type, id |-> n, qos |-> 0, via |-> "publish",
                                 pending |-> "QUEUED"],
           NEW gone, gone = [type |-> type, id |-> n, qos |-> 0, via |-> "publish",
                             pending |-> "TRANSMITTED"],
           NEW p, p = Packet(type, n, n, 0, FALSE)
    PROVE  SessionInv'
<1>0. /\ data \in [In -> Extents] /\ call \in Calling /\ type \in Kinds /\ type # "PUBLISH"
      /\ DOMAIN outbox \subseteq DOMAIN sent
  BY SessionFacts DEF Kinds
<1>1. Item(type, n, 0, "publish") = queued /\ queued.type = type
  BY DEF Item
<1>2. /\ PacketOf(n, queued) = p
      /\ Transmitted(Enqueued(n, queued), n) = Extended(outbox, n, gone)
  <2>2. /\ queued.type = type /\ queued.id = n /\ queued.qos = 0 /\ queued.pending = "QUEUED"
        /\ [queued EXCEPT !.pending = "TRANSMITTED"] = gone
    OBVIOUS
  <2>3. (queued.type = "PUBLISH" /\ queued.qos > 0 /\ queued.pending = "TRANSMITTED") = FALSE
    BY <2>2
  <2>4. PacketOf(n, queued) = p
    BY <2>2, <2>3, Zenon DEF PacketOf
  <2>5. [Extended(outbox, n, queued) EXCEPT ![n] = gone] = Extended(outbox, n, gone)
    BY DEF Extended
  <2>6. Extended(outbox, n, queued)[n] = queued
    BY DEF Extended
  <2>7. Transmitted(Enqueued(n, queued), n) = Extended(outbox, n, gone)
    BY <2>2, <2>5, <2>6 DEF Transmitted, Enqueued
  <2> QED BY <2>4, <2>7
<1>3. /\ n \in Msgs /\ UNCHANGED <<event, data, b2c, broker>>
      /\ call' = [call EXCEPT ![c] = "none"]
      /\ sent' = Append(sent, <<type, 1>>)
      /\ outbox' = Extended(outbox, n, gone)
      /\ c2b' = c2b \/ c2b' = Append(c2b, p)
  BY <1>1, <1>2 DEF Subscribe, WriteOk
<1>4. /\ p \in Packets /\ UpOk(p)' /\ p.type # "PUBLISH" /\ p.type # "PUBREL"
      /\ <<type, 1>> \in Kinds \X (0..2)
      /\ ItemOk(n, gone)'
  <2>1. /\ sent' = Append(sent, <<type, IF type = "PUBLISH" THEN 0 ELSE 1>>)
        /\ n = IF type = "PUBLISH" /\ 0 = 0 THEN 0 ELSE n
        /\ <<type, 1>> \in Kinds \X (0..2)
    BY <1>0, <1>3
  <2>2. p.type # "PUBLISH" /\ p.type # "PUBREL"
    BY DEF Packet
  <2>3. 0 \in 0..2 /\ (type # "PUBLISH" => 0 = 0 /\ "TRANSMITTED" = "TRANSMITTED")
    OBVIOUS
  <2>4. p \in Packets /\ UpOk(p)' /\ ItemOk(n, gone)'
    BY <1>0, <1>3, <2>1, <2>3, NewItem
  <2> QED BY <2>1, <2>2, <2>4
<1>5. PICK r \in {"id", "fail"} : ret' = [ret EXCEPT ![n] = r]
  BY DEF Subscribe
<1>6. call' \in Calling /\ gone.via = "publish"
  BY <1>0, <1>3 DEF Calling
<1>7. Grows /\ Moves /\ DOMAIN sent' \subseteq Msgs /\ ClientInv'
  BY <1>3, <1>4, <1>5, <1>6, NewMessage
<1>8. LosesOrKeeps \/ \E e \in Packets : Writes(e)
  BY <1>3, <1>4 DEF Writes, LosesOrKeeps
<1>9. Shrinks /\ data' \in [In -> Extents]
  BY <1>0, <1>3 DEF Shrinks
<1> QED BY <1>3, <1>7, <1>8, <1>9, ClientStep DEF SessionInv

(* A step that marks, removes, receives and hands over no message.         *)
LEMMA IdleKeepsSession ==
    ASSUME SessionInv, UNCHANGED <<outbox, sent, ret, event, data, broker>>, call' \in Calling,
           LosesOrKeeps \/ \E e \in Packets : Writes(e), Shrinks \/ Lawful
    PROVE  SessionInv'
<1>1. StateOK' /\ Grows /\ DOMAIN sent' \subseteq Msgs /\ data' \in [In -> Extents]
  BY SessionFacts DEF StateOK, Grows, Received
<1> QED BY <1>1, QuietClient, ClientStep DEF SessionInv

LEMMA AppKeepsSession ==
    ASSUME SessionInv, App
    PROVE  SessionInv'
<1>1. ASSUME NEW q \in QoS, Publish(q) PROVE SessionInv'
  BY <1>1, PublishKeepsSession
<1>2. ASSUME NEW c \in Callers, NEW q \in QoS, Enqueue(c, q) PROVE SessionInv'
  BY <1>2, EnqueueKeepsSession
<1>3. ASSUME NEW c \in Callers, Subscribe(c) PROVE SessionInv'
  BY <1>3, SubscribeKeepsSession
<1>4. ASSUME NEW c \in Callers,
             \/ \E s \in {"enqueue", "store"} : EnqueueCheck(c, s)
             \/ EnqueueRefused(c)
             \/ \E k \in {"subscribe", "unsubscribe"} : SubscribeCheck(c, k)
      PROVE  SessionInv'
  <2>1. /\ UNCHANGED <<outbox, sent, ret, event, data, broker, c2b, b2c>>
        /\ \E s \in {"none", "enqueue", "store", "subscribe", "unsubscribe"} :
               call' = [call EXCEPT ![c] = s]
    BY <1>4 DEF EnqueueCheck, EnqueueRefused, SubscribeCheck, linkVars
  <2>2. call' \in Calling /\ LosesOrKeeps /\ Shrinks
    BY <2>1, SessionFacts DEF Calling, LosesOrKeeps, Shrinks
  <2> QED BY <2>1, <2>2, IdleKeepsSession
<1> QED BY <1>1, <1>2, <1>3, <1>4 DEF App

-----------------------------------------------------------------------------
(* The task                                                                *)

(* Messages leave the outbox: completed, refused or expired, or of QoS 0.  *)
LEMMA RemoveItems ==
    ASSUME SessionInv, NEW S, S \subseteq DOMAIN outbox,
           outbox' = Keep(outbox, DOMAIN outbox \ S), UNCHANGED <<sent, ret, data, broker, call>>,
           event' \in [Msgs -> Events],
           \A m \in Msgs : event'[m] = event[m] \/ (m \in S /\ (event'[m] = "done" => m \in Received)),
           \A m \in S : event'[m] # "none" \/ sent[m][2] = 0
    PROVE  Grows /\ Moves /\ ClientInv'
<1>0. DOMAIN sent \subseteq Msgs /\ DOMAIN outbox \subseteq DOMAIN sent /\ StateOK /\ ItemsInv
  BY SessionFacts
<1>1. Received' = Received /\ Grows
  BY DEF Received, Grows
<1>2. /\ DOMAIN outbox' = DOMAIN outbox \ S
      /\ \A m \in DOMAIN outbox' : m \in DOMAIN outbox /\ outbox'[m] = outbox[m]
      /\ outbox' = [m \in DOMAIN outbox' |-> outbox'[m]]
  BY DEF Keep
<1>3. ItemsInv'
  <2>1. \A m \in DOMAIN outbox : \A it : it = outbox[m] => ItemOk(m, it)'
    BY <1>0, <1>1, ItemGrows DEF ItemsInv
  <2>2. \A m \in DOMAIN outbox' : \A it : it = outbox'[m] => ItemOk(m, it)'
    BY <1>2, <2>1
  <2> QED BY <1>0, <1>2, <2>2 DEF ItemsInv
<1>4. Moves
  BY <1>2 DEF Moves
<1>5. EventsInv'
  BY <1>1 DEF SessionInv, ClientInv, EventsInv
<1>6. NoneForgotten'
  <2> SUFFICES ASSUME NEW m \in DOMAIN sent, ret[m] = "id", sent[m][2] > 0, event'[m] = "none"
               PROVE  m \in DOMAIN outbox'
    BY DEF NoneForgotten
  <2>1. m \notin S
    OBVIOUS
  <2>2. event[m] = "none"
    BY <1>0, <2>1
  <2> QED BY <1>2, <2>1, <2>2 DEF SessionInv, ClientInv, NoneForgotten
<1>7. EnqueuedInOrder'
  <2> SUFFICES ASSUME NEW a \in DOMAIN outbox', NEW b \in DOMAIN outbox', a < b,
                      outbox'[a].pending = "QUEUED", outbox'[b].pending # "QUEUED"
               PROVE  outbox'[b].via = "publish"
    BY DEF EnqueuedInOrder
  <2>1. /\ a \in DOMAIN outbox /\ outbox'[a] = outbox[a]
        /\ b \in DOMAIN outbox /\ outbox'[b] = outbox[b]
    BY <1>2
  <2> QED BY <2>1 DEF SessionInv, ClientInv, EnqueuedInOrder
<1>8. StateOK'
  BY <1>0 DEF StateOK
<1> QED BY <1>1, <1>3, <1>4, <1>5, <1>6, <1>7, <1>8 DEF ClientInv

(* A message is marked: TRANSMITTED if it is the first that waits,         *)
(* ACKNOWLEDGED if the broker has it.                                      *)
LEMMA MarkItem ==
    ASSUME SessionInv, NEW m \in DOMAIN outbox, NEW s \in {"TRANSMITTED", "ACKNOWLEDGED"},
           outbox' = [n \in DOMAIN outbox |->
                         IF n = m THEN [outbox[m] EXCEPT !.pending = s] ELSE outbox[n]],
           UNCHANGED <<sent, ret, event, data, broker, call>>,
           s = "TRANSMITTED" => /\ outbox[m].pending = "QUEUED" /\ outbox[m].qos # 0
                                /\ \A n \in DOMAIN outbox : outbox[n].pending = "QUEUED" => m <= n,
           s = "ACKNOWLEDGED" => m \in Received /\ outbox[m].pending # "QUEUED"
    PROVE  Grows /\ Moves /\ ClientInv'
<1>0. /\ DOMAIN sent \subseteq Msgs /\ DOMAIN outbox \subseteq DOMAIN sent /\ StateOK /\ ItemsInv
      /\ DOMAIN outbox \subseteq Nat
  BY SessionFacts
<1>1. Received' = Received /\ Grows
  BY DEF Received, Grows
<1>2. ItemOk(m, outbox[m])
  BY <1>0 DEF ItemsInv
<1>3. PICK item : item = [outbox[m] EXCEPT !.pending = s]
  OBVIOUS
<1>4. /\ item.type = outbox[m].type /\ item.id = outbox[m].id /\ item.qos = outbox[m].qos
      /\ item.via = outbox[m].via /\ item.pending = s
      /\ item \in [type : Kinds, id : Ids, qos : 0..2, via : {"publish", "enqueue"},
                   pending : {"QUEUED", "TRANSMITTED", "ACKNOWLEDGED"}]
  BY <1>2, <1>3 DEF ItemOk
<1>5. ItemOk(m, item)
  BY <1>2, <1>4 DEF ItemOk
<1>6. /\ DOMAIN outbox' = DOMAIN outbox /\ outbox'[m] = item
      /\ \A n \in DOMAIN outbox : n # m => outbox'[n] = outbox[n]
      /\ outbox' = [n \in DOMAIN outbox' |-> outbox'[n]]
  BY <1>3
<1>7. ItemsInv'
  <2>1. \A n \in DOMAIN outbox : \A it : it = outbox'[n] => ItemOk(n, it)
    BY <1>0, <1>5, <1>6 DEF ItemsInv
  <2>2. \A n \in DOMAIN outbox : \A it : it = outbox'[n] => ItemOk(n, it)'
    BY <1>0, <1>1, <2>1, ItemGrows
  <2>3. \A n \in DOMAIN outbox' : \A it : it = outbox'[n] => ItemOk(n, it)'
    BY <1>6, <2>2
  <2> QED BY <1>0, <1>6, <2>3 DEF ItemsInv
<1>8. Moves
  BY <1>4, <1>6 DEF Moves
<1>9. EventsInv' /\ NoneForgotten'
  BY <1>1, <1>6 DEF SessionInv, ClientInv, EventsInv, NoneForgotten
<1>10. EnqueuedInOrder'
  <2> SUFFICES ASSUME NEW a \in DOMAIN outbox, NEW b \in DOMAIN outbox, a < b,
                      outbox'[a].pending = "QUEUED", outbox'[b].pending # "QUEUED"
               PROVE  outbox'[b].via = "publish"
    BY <1>6 DEF EnqueuedInOrder
  <2>1. a # m /\ outbox[a].pending = "QUEUED"
    BY <1>4, <1>6
  <2>2. CASE b = m
    BY <1>0, <1>4, <1>6, <2>1, <2>2 DEF SessionInv, ClientInv, EnqueuedInOrder
  <2>3. CASE b # m
    BY <1>6, <2>1, <2>3 DEF SessionInv, ClientInv, EnqueuedInOrder
  <2> QED BY <2>2, <2>3
<1>11. StateOK'
  BY <1>0 DEF StateOK
<1> QED BY <1>1, <1>7, <1>8, <1>9, <1>10, <1>11 DEF ClientInv

(* What the head of b2c says, when the client is about to read it.         *)
LEMMA HeadFacts ==
    ASSUME SessionInv, NEW type, Arrives(type)
    PROVE  /\ b2c # <<>> /\ Head(b2c) \in Packets /\ DownOk(Head(b2c)) /\ Head(b2c).type = type
           /\ Received \subseteq Msgs /\ 0 \notin Msgs
<1>1. b2c # <<>> /\ b2c \in Seq(Packets) /\ Head(b2c).type = type
  BY DEF Arrives, SessionInv, FlowInv
<1>2. Head(b2c) \in Packets /\ Head(b2c) \in Range(b2c)
  BY <1>1, TailFacts
<1>3. 0 \notin Msgs
  BY SessionAssumption DEF Msgs
<1> QED BY <1>1, <1>2, <1>3 DEF SessionInv, FlowInv, WireInv, Received

(* An identifier that is not 0 is that of one message.                     *)
LEMMA IdFacts ==
    ASSUME SessionInv, NEW m \in DOMAIN outbox
    PROVE  /\ outbox[m].id \in {0, m} /\ ItemOk(m, outbox[m]) /\ m \in Nat /\ m # 0 /\ m \in Msgs
           /\ outbox[m].id = 0 <=> outbox[m].type = "PUBLISH" /\ outbox[m].qos = 0
<1>1. m \in Msgs /\ ItemOk(m, outbox[m]) /\ m \in Nat
  BY SessionFacts DEF ItemsInv
<1>2. m # 0
  BY <1>1, SessionAssumption DEF Msgs
<1> QED BY <1>1, <1>2 DEF ItemOk

(* remove_initiator_message removes the message the packet is about.       *)
LEMMA CompletesKeepsSession ==
    ASSUME SessionInv, NEW type \in DOMAIN Initiator, NEW result \in {"done", "refused"},
           Completes(type, result), result = "done" => Head(b2c).id \in Received,
           Head(b2c).id \in Msgs
    PROVE  SessionInv'
<1> DEFINE found == {m \in DOMAIN outbox : /\ outbox[m].id = Head(b2c).id
                                           /\ outbox[m].type = Initiator[type]}
<1>1. /\ Arrives(type) /\ outbox' = Keep(outbox, DOMAIN outbox \ found)
      /\ event' = [m \in Msgs |-> IF m \in found THEN result ELSE event[m]]
      /\ b2c' = Tail(b2c) /\ UNCHANGED <<sent, call, ret, data, c2b, broker>>
  BY DEF Completes
<1>2. b2c # <<>> /\ 0 \notin Msgs
  BY <1>1, HeadFacts
<1>3. \A m \in found : m = Head(b2c).id
  BY <1>2, IdFacts
<1>4. event \in [Msgs -> Events] /\ data \in [In -> Extents]
      /\ DOMAIN outbox \subseteq Msgs /\ DOMAIN sent \subseteq Msgs
  BY SessionFacts DEF StateOK
<1>5. found \subseteq DOMAIN outbox
  OBVIOUS
<1>6. /\ \A m \in Msgs : event'[m] = event[m] \/ (m \in found /\ (event'[m] = "done" => m \in Received))
      /\ \A m \in found : event'[m] # "none"
      /\ event' \in [Msgs -> Events]
  BY <1>1, <1>3, <1>4 DEF Events
<1> HIDE DEF found
<1>7. Grows /\ Moves /\ ClientInv'
  BY <1>1, <1>5, <1>6, RemoveItems
<1>8. Shrinks /\ LosesOrKeeps
  BY <1>1, <1>2 DEF Shrinks, LosesOrKeeps
<1> QED BY <1>1, <1>4, <1>7, <1>8, ClientStep DEF SessionInv

LEMMA AckFacts ==
    ASSUME NEW type \in Answers \cup {"PUBREL", "SUBACK", "UNSUBACK"}, NEW id \in Ids
    PROVE  /\ Ack(type, id) \in Packets /\ Ack(type, id).type = type
           /\ Ack(type, id).id = id /\ Ack(type, id).m = id /\ Ack(type, id).dup = FALSE
           /\ type \notin Kinds
BY DEF Ack, Packet, Packets, Answers, Kinds

LEMMA ReceivePubrecKeepsSession ==
    ASSUME SessionInv, ReceivePubrec, NEW id, id = Head(b2c).id
    PROVE  SessionInv'
<1>1. /\ Arrives("PUBREC") /\ outbox' = outbox_set_pending(outbox, id, "ACKNOWLEDGED")
      /\ WriteOk(Ack("PUBREL", id)) /\ b2c' = Tail(b2c)
      /\ UNCHANGED <<sent, call, ret, event, data, broker>>
  BY DEF ReceivePubrec, Replies
<1>2. b2c # <<>> /\ id \in Received /\ Received \subseteq Msgs /\ 0 \notin Msgs
  BY <1>1, HeadFacts DEF DownOk, Answers
<1>3. /\ DOMAIN outbox \subseteq Nat /\ DOMAIN sent \subseteq Msgs /\ data \in [In -> Extents]
      /\ StateOK /\ ItemsInv /\ UnsentInv
  BY SessionFacts DEF SessionInv, FlowInv
<1>4. Grows /\ Moves /\ ClientInv' /\ Past(id)'
  <2>1. CASE id \in DOMAIN outbox
    <3>1. outbox[id].pending # "QUEUED" /\ outbox[id].id = id
      BY <1>2, <1>3, <2>1, IdFacts DEF UnsentInv, ItemOk
    <3>2. \A n \in DOMAIN outbox : outbox[n].id = outbox[id].id => n = id
      BY <1>2, <3>1, IdFacts
    <3>3. outbox' = [n \in DOMAIN outbox |->
                        IF n = id THEN [outbox[id] EXCEPT !.pending = "ACKNOWLEDGED"] ELSE outbox[n]]
      <4>1. WithId(outbox, id) = {id} /\ id \in Nat
        BY <1>3, <2>1, <3>1, <3>2 DEF WithId
      <4>2. outbox_get(outbox, id) = {id}
        BY <4>1, GetFindsIt
      <4> QED BY <1>1, <4>2 DEF outbox_set_pending
    <3>4. Grows /\ Moves /\ ClientInv'
      BY <1>1, <1>2, <2>1, <3>1, <3>3, MarkItem
    <3>5. outbox[id] \in [type : Kinds, id : Ids, qos : 0..2, via : {"publish", "enqueue"},
                          pending : {"QUEUED", "TRANSMITTED", "ACKNOWLEDGED"}]
      BY <2>1, IdFacts DEF ItemOk
    <3>6. outbox'[id].pending = "ACKNOWLEDGED"
      BY <2>1, <3>3, <3>5
    <3> QED BY <3>4, <3>6 DEF Past
  <2>2. CASE id \notin DOMAIN outbox
    <3>1. \A n \in DOMAIN outbox : outbox[n].id # id
      BY <1>2, <2>2, IdFacts
    <3>2. outbox' = outbox
      BY <1>1, <1>3, <3>1, SetPendingChangesNone DEF ItemsInv
    <3>3. Grows /\ StateOK'
      BY <1>1, <1>3 DEF Grows, Received, StateOK
    <3> QED BY <1>1, <2>2, <3>2, <3>3, QuietClient DEF Past
  <2> QED BY <2>1, <2>2
<1>5. LosesOrKeeps \/ \E e \in Packets : Writes(e)
  <2>1. PICK p : p = Ack("PUBREL", id)
    OBVIOUS
  <2>2. p \in Packets /\ p.type = "PUBREL" /\ p.id = id
    <3>1. id \in Ids
      BY <1>2 DEF Ids
    <3> QED BY <2>1, <3>1, AckFacts
  <2>3. UpOk(p)'
    BY <1>2, <1>4, <2>2 DEF UpOk, Grows, Kinds, Answers
  <2>4. c2b' = Append(c2b, p) => Writes(p)
    BY <1>4, <2>2, <2>3 DEF Writes
  <2> QED BY <1>1, <2>1, <2>2, <2>4 DEF WriteOk, LosesOrKeeps
<1>6. Shrinks /\ data' \in [In -> Extents] /\ DOMAIN sent' \subseteq Msgs
  BY <1>1, <1>2, <1>3 DEF Shrinks
<1> QED BY <1>1, <1>4, <1>5, <1>6, ClientStep DEF SessionInv

(* What the application was given of a message only becomes more.          *)
LEMMA GivenFacts ==
    ASSUME data \in [In -> Extents], NEW k \in In, NEW d \in Extents, Given(k, d),
           d = "late" => LongMessages
    PROVE  /\ data' \in [In -> Extents]
           /\ \A j \in In : Delivered(data[j]) => Delivered(data'[j])
           /\ d \in {"late", "whole"} => Delivered(data'[k])
<1>1. /\ Extent["none"] = 0 /\ Extent["part"] = 1 /\ Extent["late"] = 2 /\ Extent["whole"] = 3
  BY DEF Extent
<1>2. data[k] \in Extents
  OBVIOUS
<1>3. /\ data'[k] = IF Extent[d] > Extent[data[k]] THEN d ELSE data[k]
      /\ \A j \in In : j # k => data'[j] = data[j]
      /\ data' \in [In -> Extents]
  BY DEF Given
<1>4. /\ Delivered(data[k]) => Delivered(data'[k])
      /\ d \in {"late", "whole"} => Delivered(data'[k])
  BY <1>1, <1>2, <1>3 DEF Delivered, Extents
<1> QED BY <1>3, <1>4

(* PUBREL and PUBLISH of the broker: an answer to what the application     *)
(* has, or none.                                                           *)
LEMMA ReceiveTheirsKeepsSession ==
    ASSUME SessionInv, ReceivePubrel \/ ReceivePublish, NEW h, h = Head(b2c)
    PROVE  SessionInv'
<1>1. /\ b2c # <<>> /\ h \in Packets /\ DownOk(h) /\ h.type \in {"PUBREL", "PUBLISH"}
      /\ h.id \in In /\ h.id \in Ids
  BY HeadFacts DEF ReceivePubrel, ReceivePublish, DownOk, Ids, Packets
<1>2. /\ DOMAIN sent \subseteq Msgs /\ data \in [In -> Extents] /\ StateOK
  BY SessionFacts
<1> DEFINE rest == [h EXCEPT !.type = "REST"]
           Says == c2b' = c2b \/ \E type \in Answers : c2b' = Append(c2b, Ack(type, h.id))
<1>3. /\ UNCHANGED <<outbox, sent, call, ret, event, broker>> /\ data' \in [In -> Extents]
      /\ \A k \in In : Delivered(data[k]) => Delivered(data'[k])
      /\ \/ c2b' = <<>> /\ b2c' = <<>>
         \/ /\ Delivered(data'[h.id]) /\ Says
            /\ b2c' = Tail(b2c) \/ b2c' = <<rest>> \o Tail(b2c)
  <2>1. CASE ReceivePubrel
    <3>1. UNCHANGED <<outbox, sent, call, ret, event, broker, data>> /\ h.type = "PUBREL"
      BY <2>1 DEF ReceivePubrel, clientVars, Arrives
    <3>2. b2c' = Tail(b2c) /\ Says
      BY <2>1 DEF ReceivePubrel, Replies, WriteOk, Answers
    <3> QED BY <1>1, <1>2, <3>1, <3>2 DEF DownOk
  <2>2. CASE ReceivePublish
    <3>1. h.m = h.id /\ UNCHANGED <<outbox, sent, call, ret, event, broker>>
      BY <1>1, <2>2 DEF ReceivePublish, DownOk, Arrives
    <3>2. CASE \E d \in {"none", "part", "whole"} : Given(h.m, d) /\ abort_connection
      BY <1>1, <1>2, <3>1, <3>2, GivenFacts DEF abort_connection, Extents
    <3>3. ASSUME NEW d \in {"late", "whole"}, Given(h.m, d), d = "late" => LongMessages,
                 b2c' = Tail(b2c) \/ b2c' = <<rest>> \o Tail(b2c), Says
          PROVE  /\ data' \in [In -> Extents] /\ Delivered(data'[h.id])
                 /\ \A k \in In : Delivered(data[k]) => Delivered(data'[k])
      BY <1>1, <1>2, <3>1, <3>3, GivenFacts DEF Extents
    <3>4. \/ \E d \in {"none", "part", "whole"} : Given(h.m, d) /\ abort_connection
          \/ /\ Given(h.m, "whole") /\ b2c' = Tail(b2c) /\ Says
          \/ /\ LongMessages /\ Given(h.m, "late") /\ b2c' = <<rest>> \o Tail(b2c) /\ Says
      BY <3>1, <2>2 DEF ReceivePublish, WriteOk, Answers
    <3> QED BY <3>1, <3>2, <3>3, <3>4
  <2> QED BY <2>1, <2>2
<1>5. Grows /\ StateOK' /\ DOMAIN sent' \subseteq Msgs
  BY <1>2, <1>3 DEF Grows, Received, StateOK
<1>6. ClientInv' /\ Moves
  BY <1>3, <1>5, QuietClient
<1>7. Shrinks \/ Lawful
  <2>1. CASE b2c' = <<rest>> \o Tail(b2c)
    <3>1. SessionTypeOK /\ WireInv /\ b2c \in Seq(Packets)
      BY DEF SessionInv, ClientInv, FlowInv, SessionTypeOK
    <3>2. Tail(b2c) \in Seq(Packets) /\ Range(Tail(b2c)) \subseteq Range(b2c)
      BY <1>1, <3>1, TailFacts
    <3>3. rest \in Packets /\ rest.type = "REST"
      BY <1>1 DEF Packets
    <3>4. <<rest>> \o Tail(b2c) \in Seq(Packets)
          /\ Range(<<rest>> \o Tail(b2c)) \subseteq {rest} \cup Range(Tail(b2c))
      BY <3>2, <3>3, FrontFacts
    <3> QED BY <1>5, <2>1, <3>1, <3>2, <3>3, <3>4, RestKeeps
  <2> QED BY <1>1, <1>3, <2>1 DEF Shrinks
<1>8. LosesOrKeeps \/ \E e \in Packets : Writes(e)
  <2>1. ASSUME NEW type \in Answers, c2b' = Append(c2b, Ack(type, h.id)), Delivered(data'[h.id])
        PROVE  \E e \in Packets : Writes(e)
    <3>1. PICK p : p = Ack(type, h.id)
      OBVIOUS
    <3>2. p \in Packets /\ p.type = type /\ p.id = h.id /\ p.m = h.id
      BY <1>1, <3>1, AckFacts
    <3>3. UpOk(p)'
      BY <1>1, <2>1, <3>2 DEF UpOk, Kinds, Answers
    <3>4. Writes(p)
      BY <2>1, <3>1, <3>2, <3>3 DEF Writes, Answers
    <3> QED BY <3>2, <3>4
  <2> QED BY <1>3, <2>1 DEF LosesOrKeeps
<1> QED BY <1>3, <1>5, <1>6, <1>7, <1>8, ClientStep DEF SessionInv

(* The rest of a message takes packets with it, or the connection.         *)
LEMMA ReceiveRestKeepsSession ==
    ASSUME SessionInv, ReceiveRest
    PROVE  SessionInv'
<1>1. /\ UNCHANGED <<outbox, sent, call, ret, event, data, broker>>
      /\ \/ c2b' = <<>> /\ b2c' = <<>>
         \/ c2b' = c2b /\ \E n \in 1 .. Len(b2c) : b2c' = SubSeq(b2c, n + 1, Len(b2c))
  BY DEF ReceiveRest, abort_connection, clientVars
<1>2. /\ SessionTypeOK /\ WireInv /\ b2c \in Seq(Packets) /\ StateOK
      /\ DOMAIN sent \subseteq Msgs /\ data \in [In -> Extents]
  BY SessionFacts DEF SessionInv, ClientInv, FlowInv, SessionTypeOK
<1>3. Grows /\ StateOK'
  BY <1>1, <1>2 DEF Grows, Received, StateOK
<1>4. ClientInv' /\ Moves
  BY <1>1, <1>3, QuietClient
<1>5. Shrinks \/ Lawful
  <2>1. CASE b2c' = <<>>
    BY <2>1 DEF Shrinks
  <2>2. ASSUME NEW n \in 1 .. Len(b2c), b2c' = SubSeq(b2c, n + 1, Len(b2c))
        PROVE  Lawful
    BY <1>2, <1>3, <2>2, SuffixFacts, RestKeeps
  <2> QED BY <1>1, <2>1, <2>2
<1> QED BY <1>1, <1>2, <1>3, <1>4, <1>5, ClientStep DEF LosesOrKeeps, SessionInv

LEMMA ReceiveKeepsSession ==
    ASSUME SessionInv, Receive
    PROVE  SessionInv'
<1>1. CASE ReceiveSuback
  <2>1. PICK result \in {"done", "refused"} :
            /\ Completes("SUBACK", result) /\ (result = "done" => ~Head(b2c).dup)
    BY <1>1 DEF ReceiveSuback
  <2>2. Arrives("SUBACK")
    BY <2>1 DEF Completes
  <2>3. (result = "done" => Head(b2c).id \in Received) /\ Head(b2c).id \in Msgs
    BY <2>1, <2>2, HeadFacts DEF DownOk
  <2> QED BY <2>1, <2>3, CompletesKeepsSession DEF Initiator
<1>2. CASE ReceiveUnsuback \/ ReceivePuback \/ ReceivePubcomp
  <2>1. PICK type \in {"UNSUBACK", "PUBACK", "PUBCOMP"} : Completes(type, "done")
    BY <1>2 DEF ReceiveUnsuback, ReceivePuback, ReceivePubcomp
  <2>2. Arrives(type)
    BY <2>1 DEF Completes
  <2>3. Head(b2c).id \in Received /\ Head(b2c).id \in Msgs
    BY <2>1, <2>2, HeadFacts DEF DownOk, Answers
  <2> QED BY <2>1, <2>3, CompletesKeepsSession DEF Initiator
<1> QED BY <1>1, <1>2, ReceivePubrecKeepsSession, ReceiveTheirsKeepsSession,
       ReceiveRestKeepsSession DEF Receive

(* The packet of a message in the outbox is of that message.               *)
LEMMA PacketOfFacts ==
    ASSUME SessionInv, NEW m \in DOMAIN outbox, NEW p, p = PacketOf(m, outbox[m])
    PROVE  /\ p \in Packets /\ UpOk(p) /\ p.type = outbox[m].type /\ p.m = m
           /\ p.type # "PUBREL"
<1>1. ItemOk(m, outbox[m]) /\ m \in Ids /\ m \in DOMAIN sent /\ outbox[m].type \in Kinds
  BY IdFacts, SessionFacts DEF Ids, ItemOk
<1>2. PICK dup \in BOOLEAN :
        p = [type |-> outbox[m].type, id |-> outbox[m].id, m |-> m, qos |-> outbox[m].qos, dup |-> dup]
  BY DEF PacketOf, Packet
<1>3. p \in Packets
  BY <1>1, <1>2 DEF Packets, ItemOk
<1>4. p.type = outbox[m].type /\ p.id = outbox[m].id /\ p.m = m /\ p.qos = outbox[m].qos
  BY <1>2
<1>5. UpOk(p)
  BY <1>1, <1>4 DEF UpOk, ItemOk, Kinds, Answers
<1> QED BY <1>1, <1>3, <1>4, <1>5 DEF Kinds

LEMMA ResendQueuedKeepsSession ==
    ASSUME SessionInv, ResendQueued
    PROVE  SessionInv'
<1>0. /\ DOMAIN outbox \subseteq Nat /\ DOMAIN sent \subseteq Msgs /\ data \in [In -> Extents]
      /\ DOMAIN outbox \subseteq DOMAIN sent /\ StateOK /\ call \in Calling
  BY SessionFacts
<1>1. PICK m \in outbox_dequeue(outbox, "QUEUED") :
        \/ /\ WriteOk(PacketOf(m, outbox[m])) /\ UNCHANGED b2c
           /\ outbox' = IF outbox[m].qos = 0 THEN Keep(outbox, DOMAIN outbox \ {m})
                        ELSE outbox_set_pending(outbox, outbox[m].id, "TRANSMITTED")
        \/ abort_connection /\ UNCHANGED outbox
  BY DEF ResendQueued
<1>2. UNCHANGED <<sent, call, ret, event, data, broker>>
  BY DEF ResendQueued
<1>3. /\ m \in DOMAIN outbox /\ outbox[m].pending = "QUEUED"
      /\ \A n \in DOMAIN outbox : outbox[n].pending = "QUEUED" => m <= n
  BY <1>0, DequeueFindsFirst
<1>4. PICK p : p = PacketOf(m, outbox[m])
  OBVIOUS
<1>5. /\ p \in Packets /\ UpOk(p) /\ p.type = "PUBLISH" /\ p.m = m
      /\ ItemOk(m, outbox[m]) /\ outbox[m].type = "PUBLISH"
  BY <1>3, <1>4, PacketOfFacts, IdFacts DEF ItemOk
<1>6. CASE abort_connection /\ UNCHANGED outbox
  BY <1>0, <1>2, <1>6, IdleKeepsSession DEF abort_connection, LosesOrKeeps, Shrinks
<1>7. CASE WriteOk(p) /\ UNCHANGED b2c /\ outbox[m].qos = 0
           /\ outbox' = Keep(outbox, DOMAIN outbox \ {m})
  <2>1. sent[m][2] = 0
    BY <1>5, <1>7 DEF ItemOk
  <2>2. event' \in [Msgs -> Events]
    BY <1>0, <1>2 DEF StateOK
  <2>3. Grows /\ Moves /\ ClientInv'
    <3>1. PICK S : S = {m}
      OBVIOUS
    <3>2. /\ S \subseteq DOMAIN outbox /\ outbox' = Keep(outbox, DOMAIN outbox \ S)
          /\ \A n \in S : event'[n] # "none" \/ sent[n][2] = 0
      BY <1>3, <1>7, <2>1, <3>1
    <3>3. \A n \in Msgs : event'[n] = event[n] \/ (n \in S /\ (event'[n] = "done" => n \in Received))
      BY <1>2
    <3> QED BY <1>2, <2>2, <3>2, <3>3, RemoveItems
  <2>4. UpOk(p)' /\ m \notin DOMAIN outbox' /\ ~Past(m)
    BY <1>3, <1>5, <1>7, <2>3, GrowsKeeps DEF Keep, Past
  <2>5. LosesOrKeeps \/ Writes(p)
    BY <1>5, <1>7, <2>4 DEF WriteOk, LosesOrKeeps, Writes
  <2> QED BY <1>0, <1>2, <1>5, <1>7, <2>3, <2>5, ClientStep DEF Shrinks, SessionInv
<1>8. CASE WriteOk(p) /\ UNCHANGED b2c /\ outbox[m].qos # 0
           /\ outbox' = outbox_set_pending(outbox, outbox[m].id, "TRANSMITTED")
  <2>1. WithId(outbox, outbox[m].id) = {m} /\ m \in Nat
    BY <1>0, <1>3, <1>8, IdFacts DEF WithId
  <2>2. outbox' = [n \in DOMAIN outbox |->
                      IF n = m THEN [outbox[m] EXCEPT !.pending = "TRANSMITTED"] ELSE outbox[n]]
    <3>1. outbox_get(outbox, outbox[m].id) = {m}
      BY <2>1, GetFindsIt
    <3> QED BY <1>8, <3>1 DEF outbox_set_pending
  <2>3. Grows /\ Moves /\ ClientInv'
    BY <1>2, <1>3, <1>8, <2>2, MarkItem
  <2>4. outbox'[m].pending # "QUEUED"
    BY <1>3, <1>5, <2>2 DEF ItemOk
  <2>5. UpOk(p)' /\ ~Past(m)
    BY <1>3, <1>5, <2>3, GrowsKeeps DEF Past
  <2>6. LosesOrKeeps \/ Writes(p)
    BY <1>5, <1>8, <2>4, <2>5 DEF WriteOk, LosesOrKeeps, Writes
  <2> QED BY <1>0, <1>2, <1>5, <1>8, <2>3, <2>6, ClientStep DEF Shrinks, SessionInv
<1> QED BY <1>1, <1>4, <1>6, <1>7, <1>8

LEMMA RetransmitKeepsSession ==
    ASSUME SessionInv, RetransmitFirst \/ resend_pubrel
    PROVE  SessionInv'
<1>0. DOMAIN outbox \subseteq Nat /\ call \in Calling
  BY SessionFacts
<1>1. ASSUME NEW p \in Packets, Retransmit(p), UpOk(p),
             p.type = "PUBLISH" => /\ p.m \in DOMAIN outbox
                                   /\ outbox[p.m].pending = "TRANSMITTED",
             p.type = "PUBREL" => Past(p.id)
      PROVE  SessionInv'
  <2>1. /\ UNCHANGED <<outbox, sent, call, ret, event, data, broker>>
        /\ \/ WriteOk(p) /\ UNCHANGED b2c
           \/ abort_connection
    BY <1>1 DEF Retransmit
  <2>2. UpOk(p)' /\ (p.type = "PUBREL" => Past(p.id)')
    BY <1>1, <2>1 DEF UpOk, Received, Past
  <2>3. c2b' = Append(c2b, p) => Writes(p)
    BY <1>1, <2>1, <2>2 DEF Writes, Past
  <2>4. LosesOrKeeps \/ \E e \in Packets : Writes(e)
    BY <1>1, <2>1, <2>3 DEF WriteOk, abort_connection, LosesOrKeeps
  <2>5. Shrinks /\ call' \in Calling
    BY <1>0, <2>1 DEF abort_connection, Shrinks
  <2> QED BY <2>1, <2>4, <2>5, IdleKeepsSession
<1>2. CASE RetransmitFirst
  <2>1. PICK m \in outbox_dequeue(outbox, "TRANSMITTED") : Retransmit(PacketOf(m, outbox[m]))
    BY <1>2 DEF RetransmitFirst
  <2>2. m \in DOMAIN outbox /\ outbox[m].pending = "TRANSMITTED"
    BY <1>0, DequeueFindsFirst
  <2>3. PICK p : p = PacketOf(m, outbox[m])
    OBVIOUS
  <2>4. p \in Packets /\ UpOk(p) /\ p.m = m /\ p.type # "PUBREL"
    BY <2>2, <2>3, PacketOfFacts
  <2> QED BY <1>1, <2>1, <2>2, <2>3, <2>4
<1>3. CASE resend_pubrel
  <2>1. PICK m \in outbox_dequeue(outbox, "ACKNOWLEDGED") : Retransmit(Ack("PUBREL", outbox[m].id))
    BY <1>3 DEF resend_pubrel
  <2>2. m \in DOMAIN outbox /\ outbox[m].pending = "ACKNOWLEDGED"
    BY <1>0, DequeueFindsFirst
  <2>3. outbox[m].id = m /\ m \in Received /\ m \in Ids
    BY <2>2, IdFacts DEF ItemOk, Ids
  <2>4. PICK p : p = Ack("PUBREL", m)
    OBVIOUS
  <2>5. p \in Packets /\ p.type = "PUBREL" /\ p.id = m
    BY <2>3, <2>4, AckFacts
  <2>6. UpOk(p) /\ Past(p.id)
    BY <2>2, <2>3, <2>5 DEF UpOk, Past, Kinds, Answers
  <2> QED BY <1>1, <2>1, <2>3, <2>4, <2>5, <2>6
<1> QED BY <1>2, <1>3

LEMMA ExpireKeepsSession ==
    ASSUME SessionInv, Expire
    PROVE  SessionInv'
<1>1. PICK m \in DOMAIN outbox : /\ outbox' = Keep(outbox, DOMAIN outbox \ {m})
                                 /\ event' = [event EXCEPT ![m] = Expiry]
  BY DEF Expire
<1>2. UNCHANGED <<sent, call, ret, data, broker, c2b, b2c>>
  BY DEF Expire, linkVars
<1>3. /\ m \in Msgs /\ data \in [In -> Extents] /\ DOMAIN sent \subseteq Msgs
      /\ event \in [Msgs -> Events]
  BY SessionFacts DEF StateOK
<1>0. Expiry \in Events \ {"none", "done"}
  BY DEF Expiry, Events
<1>4. /\ event' \in [Msgs -> Events]
      /\ event'[m] = Expiry /\ \A n \in Msgs : n # m => event'[n] = event[n]
  BY <1>0, <1>1, <1>3
<1>5. Grows /\ Moves /\ ClientInv'
  <2>1. PICK S : S = {m}
    OBVIOUS
  <2>2. /\ S \subseteq DOMAIN outbox /\ outbox' = Keep(outbox, DOMAIN outbox \ S)
        /\ \A n \in S : event'[n] # "none" \/ sent[n][2] = 0
    BY <1>0, <1>1, <1>4, <2>1
  <2>3. \A n \in Msgs : event'[n] = event[n] \/ (n \in S /\ (event'[n] = "done" => n \in Received))
    BY <1>0, <1>4, <2>1
  <2> QED BY <1>2, <1>4, <2>2, <2>3, RemoveItems
<1> QED BY <1>2, <1>3, <1>5, ClientStep DEF Shrinks, LosesOrKeeps, SessionInv

-----------------------------------------------------------------------------
(* The connection and the broker                                           *)

(* SetToSeq is a sequence of elements of the set.                          *)
LEMMA SetToSeqFacts ==
    ASSUME NEW S, IsFiniteSet(S)
    PROVE  SetToSeq(S) \in Seq(S)
<1>1. Cardinality(S) \in Nat /\ ExistsBijection(1 .. Cardinality(S), S)
  BY FS_CardinalityType
<1>2. PICK f \in Bijection(1 .. Cardinality(S), S) : TRUE
  BY <1>1 DEF ExistsBijection
<1>3. f \in [1 .. Cardinality(S) -> S] /\ IsInjective(f)
  BY <1>2 DEF Bijection, Injection, IsInjective
<1>4. SetToSeq(S) \in [1 .. Cardinality(S) -> S]
  BY <1>3 DEF SetToSeq
<1> QED BY <1>1, <1>4

(* What the broker sends again is its own, and PUBREL what was handed over.*)
LEMMA ResumedFacts ==
    ASSUME SessionInv
    PROVE  Resumed \in Seq(Packets) /\ \A p \in Range(Resumed) : DownOk(p)
<1> DEFINE again(k) == IF broker.out[k] = "sent" THEN Packet("PUBLISH", k, k, InQoS[k], TRUE)
                       ELSE Ack("PUBREL", k)
           S == {k \in DOMAIN broker.out : broker.out[k] \in {"sent", "rec"}}
           order == SetToSeq(S)
<1>1. /\ DOMAIN broker.out \subseteq In
      /\ \A k \in DOMAIN broker.out : broker.out[k] = "rec" => Delivered(data[k])
  BY SessionFacts DEF StateOK, Brokers, SessionInv, FlowInv, WireInv
<1>2. S \subseteq In /\ IsFiniteSet(S)
  <2>1. S \in SUBSET In
    BY <1>1
  <2> QED BY <2>1, SessionAssumption, FS_Subset
<1>3. order \in Seq(S)
  BY <1>2, SetToSeqFacts
<1>4. \A k \in S : again(k) \in Packets /\ DownOk(again(k))
  <2> SUFFICES ASSUME NEW k \in S PROVE again(k) \in Packets /\ DownOk(again(k))
    OBVIOUS
  <2>1. k \in Ids /\ k \in In /\ InQoS[k] \in 0..2
    BY <1>2, SessionAssumption DEF Ids, Range
  <2>2. CASE broker.out[k] = "sent"
    <3>1. again(k) = Packet("PUBLISH", k, k, InQoS[k], TRUE)
      BY <2>2
    <3>2. Packet("PUBLISH", k, k, InQoS[k], TRUE) \in Packets
      BY <2>1 DEF Packet, Packets, Kinds
    <3>3. DownOk(Packet("PUBLISH", k, k, InQoS[k], TRUE))
      BY <2>1 DEF Packet, DownOk, Answers
    <3> QED BY <3>1, <3>2, <3>3
  <2>3. CASE broker.out[k] # "sent"
    <3>1. again(k) = Ack("PUBREL", k)
      BY <2>3
    <3>2. Delivered(data[k])
      BY <1>1, <2>3
    <3>3. Ack("PUBREL", k) \in Packets /\ Ack("PUBREL", k).type = "PUBREL" /\ Ack("PUBREL", k).id = k
      BY <2>1, AckFacts
    <3>4. DownOk(Ack("PUBREL", k))
      BY <2>1, <3>2, <3>3 DEF DownOk, Answers
    <3> QED BY <3>1, <3>3, <3>4
  <2> QED BY <2>2, <2>3
<1>5. Resumed = [i \in DOMAIN order |-> again(order[i])]
  BY DEF Resumed
<1> HIDE DEF again, order, S
<1>6. Len(order) \in Nat /\ DOMAIN order = 1 .. Len(order) /\ \A i \in DOMAIN order : order[i] \in S
  BY <1>3, LenProperties, ElementOfSeq
<1>7. Resumed \in [1 .. Len(order) -> Packets]
  BY <1>4, <1>5, <1>6
<1>8. \A p \in Range(Resumed) : DownOk(p)
  BY <1>4, <1>5, <1>6 DEF Range
<1> QED BY <1>6, <1>7, <1>8

LEMMA LinkKeepsSession ==
    ASSUME SessionInv, Connect \/ Notice \/ Break
    PROVE  SessionInv'
<1>0. call \in Calling
  BY SessionFacts
<1>1. CASE Notice \/ Break
  BY <1>0, <1>1, IdleKeepsSession
     DEF Notice, Break, abort_connection, clientVars, LosesOrKeeps, Shrinks
<1>2. CASE Connect
  <2>1. /\ UNCHANGED <<outbox, sent, call, ret, event, data, broker>>
        /\ c2b' = <<>> /\ b2c' = Resumed
    BY <1>2 DEF Connect
  <2>2. PICK s : s = Resumed
    OBVIOUS
  <2>3. \A p \in Range(s) : DownOk(p)'
    <3>1. \A p \in Range(s) : DownOk(p)
      BY <2>2, ResumedFacts
    <3>2. Grows
      BY <2>1 DEF Grows, Received
    <3> QED BY <3>1, <3>2, GrowsKeeps
  <2>4. Lawful
    BY <2>1, <2>2, <2>3, ResumedFacts DEF Lawful
  <2> QED BY <1>0, <2>1, <2>4, IdleKeepsSession DEF LosesOrKeeps
<1> QED BY <1>1, <1>2

(* The broker takes the first packet p, and may answer it.                 *)
LEMMA BrokerStep ==
    ASSUME SessionInv, NEW p, c2b # <<>>, p = Head(c2b), c2b' = Tail(c2b),
           UNCHANGED clientVars, StateOK',
           b2c' = b2c \/ \E q \in Packets : b2c' = Append(b2c, q) /\ DownOk(q)',
           Received \subseteq Received', p.type \notin Kinds => Received' = Received,
           Received' \subseteq Received \cup {p.m},
           broker'.rec \subseteq Received',
           \A k \in DOMAIN broker'.out : broker'.out[k] = "rec" => Delivered(data[k]),
           AcknowledgedWasDelivered',
           \A m \in DOMAIN sent : sent[m] = <<"PUBLISH", 2>> =>
               /\ broker'.got[m] <= 1
               /\ m \in Received' /\ m \notin broker'.rec =>
                      \/ m \in Received /\ m \notin broker.rec
                      \/ p.type = "PUBREL" /\ p.id = m
    PROVE  SessionInv'
<1> USE DEF clientVars
<1>0. /\ c2b \in Seq(Packets) /\ b2c \in Seq(Packets) /\ WireInv /\ UnsentInv /\ OnceInv
      /\ ItemsInv
  BY SessionFacts DEF SessionInv, FlowInv
<1>1. /\ Tail(c2b) \in Seq(Packets) /\ p = c2b[1] /\ p \in Range(c2b)
      /\ Len(c2b) \in Nat /\ Len(c2b) > 0 /\ Len(Tail(c2b)) = Len(c2b) - 1
      /\ \A i \in 1 .. Len(Tail(c2b)) : i + 1 \in 1 .. Len(c2b) /\ Tail(c2b)[i] = c2b[i + 1]
      /\ Range(Tail(c2b)) \subseteq Range(c2b)
  BY <1>0, TailFacts
<1>2. UpOk(p)
  BY <1>0, <1>1 DEF WireInv
<1>3. Grows
  BY DEF Grows
<1>4. ClientInv'
  BY <1>3, QuietClient
<1>5. \A m : \A i \in Nat : PublishFrom(i, m)' => PublishFrom(i + 1, m)
  <2> SUFFICES ASSUME NEW m, NEW i \in Nat, PublishFrom(i, m)' PROVE PublishFrom(i + 1, m)
    OBVIOUS
  <2>1. PICK j \in 1 .. Len(c2b') : j >= i /\ c2b'[j].type = "PUBLISH" /\ c2b'[j].m = m
    BY DEF PublishFrom
  <2>2. j + 1 \in 1 .. Len(c2b) /\ c2b'[j] = c2b[j + 1] /\ j + 1 >= i + 1
    BY <1>1, <2>1
  <2> QED BY <2>1, <2>2 DEF PublishFrom
<1>6. \A m : PublishFrom(2, m) => PublishFrom(1, m)
  BY DEF PublishFrom
<1>7. WireInv' /\ b2c' \in Seq(Packets)
  <2>1. \A e \in Range(c2b') : UpOk(e)'
    BY <1>0, <1>1, <1>3, GrowsKeeps DEF WireInv
  <2>2. \A e \in Range(b2c) : DownOk(e)'
    BY <1>0, <1>3, GrowsKeeps DEF WireInv
  <2>3. b2c' \in Seq(Packets) /\ \A e \in Range(b2c') : DownOk(e)'
    <3>1. ASSUME NEW q \in Packets, b2c' = Append(b2c, q), DownOk(q)'
          PROVE  b2c' \in Seq(Packets) /\ \A e \in Range(b2c') : DownOk(e)'
      <4>1. b2c' \in Seq(Packets) /\ Range(b2c') = Range(b2c) \cup {q}
        BY <1>0, <3>1, AppendFacts
      <4> QED BY <2>2, <3>1, <4>1
    <3> QED BY <1>0, <2>2, <3>1
  <2>4. Received' \subseteq DOMAIN sent
    <3>1. p.type \in Kinds => p.m \in DOMAIN sent
      BY <1>2 DEF UpOk
    <3> QED BY <1>0, <3>1 DEF WireInv
  <2> QED BY <2>1, <2>3, <2>4 DEF WireInv
<1>8. UnsentInv'
  <2> SUFFICES ASSUME NEW m \in DOMAIN outbox, outbox[m].pending = "QUEUED"
               PROVE  m \notin Received' /\ ~PublishFrom(1, m)'
    BY DEF UnsentInv
  <2>1. m \notin Received /\ ~PublishFrom(1, m)
    BY <1>0 DEF UnsentInv
  <2>2. ~PublishFrom(1, m)'
    BY <1>5, <1>6, <2>1
  <2>3. ASSUME m = p.m, p.type \in Kinds PROVE FALSE
    <3>1. sent[m] = <<"PUBLISH", outbox[m].qos>>
      BY <1>0 DEF ItemsInv, ItemOk
    <3>2. sent[m] = <<p.type, IF p.type = "PUBLISH" THEN p.qos ELSE 1>>
      BY <1>2, <2>3 DEF UpOk
    <3>3. p.type = "PUBLISH"
      BY <3>1, <3>2
    <3> QED BY <1>1, <2>1, <2>3, <3>3 DEF PublishFrom
  <2> QED BY <2>1, <2>2, <2>3
<1>9. OnceInv'
  <2> SUFFICES ASSUME NEW m \in DOMAIN sent, sent[m] = <<"PUBLISH", 2>>
               PROVE  /\ broker'.got[m] <= 1
                      /\ m \in Received' /\ m \notin broker'.rec => ~PublishFrom(1, m)' /\ Past(m)'
                      /\ \A i \in 1 .. Len(c2b') :
                             c2b'[i].type = "PUBREL" /\ c2b'[i].id = m => ~PublishFrom(i, m)' /\ Past(m)'
    BY DEF OnceInv
  <2>1. /\ m \in Received /\ m \notin broker.rec => ~PublishFrom(1, m) /\ Past(m)
        /\ \A i \in 1 .. Len(c2b) :
               c2b[i].type = "PUBREL" /\ c2b[i].id = m => ~PublishFrom(i, m) /\ Past(m)
    BY <1>0 DEF OnceInv
  <2>2. Past(m)' <=> Past(m)
    BY DEF Past
  <2>3. p.type = "PUBREL" /\ p.id = m => ~PublishFrom(1, m) /\ Past(m)
    BY <1>1, <2>1
  <2>4. m \in Received' /\ m \notin broker'.rec => ~PublishFrom(1, m)' /\ Past(m)'
    BY <1>5, <1>6, <2>1, <2>2, <2>3
  <2>5. ASSUME NEW i \in 1 .. Len(c2b'), c2b'[i].type = "PUBREL", c2b'[i].id = m
        PROVE  ~PublishFrom(i, m)' /\ Past(m)'
    <3>1. i + 1 \in 1 .. Len(c2b) /\ c2b'[i] = c2b[i + 1] /\ i \in Nat
      BY <1>1
    <3> QED BY <1>5, <2>1, <2>2, <2>5, <3>1
  <2> QED BY <2>4, <2>5
<1> QED BY <1>1, <1>4, <1>7, <1>8, <1>9 DEF SessionInv, FlowInv

(* The broker passes message m on.                                         *)
LEMMA PassedFacts ==
    ASSUME broker \in Brokers, NEW m \in Msgs, broker' \in Brokers,
           broker'.got = [broker.got EXCEPT ![m] = Twice(@)]
    PROVE  /\ Received' = Received \cup {m}
           /\ \A n \in Msgs : n # m => broker'.got[n] = broker.got[n]
           /\ m \notin Received => broker'.got[m] = 1
<1>1. \A j \in 0..2 : Twice(j) \in 1..2 /\ (~(j > 0) => Twice(j) = 1)
  BY DEF Twice
<1>2. /\ broker.got \in [Msgs -> 0..2] /\ broker'.got[m] = Twice(broker.got[m])
      /\ \A n \in Msgs : n # m => broker'.got[n] = broker.got[n]
      /\ broker.got[m] \in 0..2
  BY DEF Brokers
<1>3. broker'.got[m] > 0
  BY <1>1, <1>2
<1> QED BY <1>1, <1>2, <1>3 DEF Received

LEMMA BrokerReceiveKeepsSession ==
    ASSUME SessionInv, BrokerReceive, NEW p, p = Head(c2b)
    PROVE  SessionInv'
<1>0. /\ StateOK /\ broker \in Brokers /\ DOMAIN sent \subseteq Msgs /\ WireInv /\ OnceInv
      /\ c2b \in Seq(Packets) /\ AcknowledgedWasDelivered /\ 0 \notin Msgs
  BY SessionFacts, SessionAssumption DEF StateOK, Brokers, SessionInv, FlowInv, Msgs
<1>1. c2b # <<>> /\ c2b' = Tail(c2b) /\ UNCHANGED clientVars
  BY DEF BrokerReceive
<1>2. p \in Packets /\ UpOk(p) /\ p = c2b[1] /\ Len(c2b) \in Nat /\ Len(c2b) > 0
  BY <1>0, <1>1, TailFacts DEF WireInv
<1>3. /\ p.type \in Kinds \cup Answers \cup {"PUBREL"} /\ p.qos \in 0..2
      /\ p.id \in Ids
  BY <1>2 DEF UpOk, Packets
<1>4. ASSUME broker' \in Brokers PROVE StateOK'
  BY <1>0, <1>1, <1>4 DEF StateOK, Brokers, clientVars
<1>5. ASSUME NEW type \in Answers \cup {"PUBREL", "SUBACK", "UNSUBACK"}, NEW id \in Ids,
             b2c' = Append(b2c, Ack(type, id)),
             type = "PUBREL" => id \in In /\ Delivered(data[id]),
             type # "PUBREL" => id \in Received' /\ id \in Msgs
      PROVE  \E q \in Packets : b2c' = Append(b2c, q) /\ DownOk(q)'
  <2>1. PICK q : q = Ack(type, id)
    OBVIOUS
  <2>2. q \in Packets /\ q.type = type /\ q.id = id /\ type \notin Kinds
    BY <2>1, AckFacts
  <2>3. DownOk(q)'
    BY <1>1, <1>5, <2>2 DEF DownOk, Kinds, Answers, clientVars
  <2> QED BY <1>5, <2>1, <2>2, <2>3
<1>6. CASE p.type \in Kinds /\ ~(p.type = "PUBLISH" /\ p.qos = 2)
  <2>1. /\ p.m \in DOMAIN sent /\ p.m \in Msgs /\ sent[p.m] # <<"PUBLISH", 2>>
        /\ p.type # "PUBLISH" \/ p.qos # 0 => p.id = p.m
    BY <1>0, <1>2, <1>6 DEF UpOk
  <2>2. ASSUME broker' = [broker EXCEPT !.got[p.m] = Twice(@)],
               b2c' = b2c \/ \E type \in {"PUBACK", "SUBACK", "UNSUBACK"} :
                                 p.id = p.m /\ b2c' = Append(b2c, Ack(type, p.id))
        PROVE  SessionInv'
    <3>1. /\ broker' \in Brokers /\ broker'.got = [broker.got EXCEPT ![p.m] = Twice(@)]
          /\ broker'.rec = broker.rec /\ broker'.out = broker.out
      <4>1. \A j \in 0..2 : Twice(j) \in 0..2
        BY DEF Twice
      <4> QED BY <1>0, <2>1, <2>2, <4>1 DEF Brokers
    <3>2. /\ Received' = Received \cup {p.m}
          /\ \A n \in Msgs : n # p.m => broker'.got[n] = broker.got[n]
      BY <1>0, <2>1, <3>1, PassedFacts
    <3>3. b2c' = b2c \/ \E q \in Packets : b2c' = Append(b2c, q) /\ DownOk(q)'
      BY <1>3, <1>5, <2>1, <2>2, <3>2 DEF Answers
    <3>4. StateOK'
      BY <1>4, <3>1
    <3>5. broker'.rec \subseteq Received'
      BY <1>0, <3>1, <3>2 DEF WireInv
    <3>6. AcknowledgedWasDelivered' /\ \A k \in DOMAIN broker'.out : broker'.out[k] = "rec" => Delivered(data[k])
      BY <1>0, <1>1, <3>1 DEF WireInv, AcknowledgedWasDelivered, clientVars
    <3>7. \A m \in DOMAIN sent : sent[m] = <<"PUBLISH", 2>> =>
               /\ broker'.got[m] <= 1
               /\ m \in Received' /\ m \notin broker'.rec =>
                      \/ m \in Received /\ m \notin broker.rec
                      \/ p.type = "PUBREL" /\ p.id = m
      BY <1>0, <2>1, <3>1, <3>2 DEF OnceInv
    <3> QED BY <1>1, <1>6, <3>2, <3>3, <3>4, <3>5, <3>6, <3>7, BrokerStep
  <2>3. CASE p.type = "PUBLISH"
    <3>1. p.qos = 0 \/ p.qos = 1
      BY <1>3, <1>6, <2>3
    <3>2. CASE p.qos = 0
      <4>1. broker' = [broker EXCEPT !.got[p.m] = Twice(@)] /\ b2c' = b2c
        BY <1>3, <2>3, <3>2 DEF BrokerReceive
      <4> QED BY <2>2, <4>1
    <3>3. CASE p.qos = 1
      <4>1. /\ broker' = [broker EXCEPT !.got[p.m] = Twice(@)]
            /\ b2c' = Append(b2c, Ack("PUBACK", p.id))
        BY <1>3, <2>3, <3>3 DEF BrokerReceive
      <4>2. p.id = p.m
        BY <2>1, <3>3
      <4> QED BY <2>2, <4>1, <4>2
    <3> QED BY <3>1, <3>2, <3>3
  <2>4. CASE p.type = "UNSUBSCRIBE"
    BY <2>1, <2>2, <2>4 DEF BrokerReceive
  <2>5. CASE p.type = "SUBSCRIBE"
    <3>1. \/ /\ broker' = [broker EXCEPT !.got[p.m] = Twice(@)]
             /\ b2c' = Append(b2c, Ack("SUBACK", p.id))
          \/ b2c' = Append(b2c, [Ack("SUBACK", p.id) EXCEPT !.dup = TRUE]) /\ UNCHANGED broker
      BY <2>5 DEF BrokerReceive
    <3>2. CASE b2c' = Append(b2c, [Ack("SUBACK", p.id) EXCEPT !.dup = TRUE]) /\ UNCHANGED broker
      <4>1. PICK q : q = [Ack("SUBACK", p.id) EXCEPT !.dup = TRUE]
        OBVIOUS
      <4>2. q \in Packets /\ q.type = "SUBACK" /\ q.dup = TRUE /\ q.id = p.id
        <5>1. q = [type |-> "SUBACK", id |-> p.id, m |-> p.id, qos |-> 0, dup |-> TRUE]
          BY <4>1 DEF Ack, Packet
        <5> QED BY <1>3, <5>1 DEF Packets
      <4>3. DownOk(q)'
        BY <2>1, <2>5, <4>2 DEF DownOk, Answers
      <4>4. StateOK' /\ Received' = Received
        BY <1>0, <1>4, <3>2 DEF Received
      <4>5. AcknowledgedWasDelivered'
        BY <1>0, <1>1, <3>2 DEF AcknowledgedWasDelivered, clientVars
      <4>6. \E e \in Packets : b2c' = Append(b2c, e) /\ DownOk(e)'
        BY <3>2, <4>1, <4>2, <4>3
      <4> QED BY <1>0, <1>1, <3>2, <4>4, <4>5, <4>6, BrokerStep DEF WireInv, OnceInv
    <3> QED BY <2>1, <2>2, <2>5, <3>1, <3>2
  <2> QED BY <1>6, <2>3, <2>4, <2>5 DEF Kinds
<1>7. CASE p.type = "PUBLISH" /\ p.qos = 2
  <2>1. /\ p.m \in DOMAIN sent /\ p.m \in Msgs /\ sent[p.m] = <<"PUBLISH", 2>> /\ p.id = p.m
        /\ p.type \in Kinds /\ p.type # "PUBREL"
    BY <1>0, <1>2, <1>7 DEF UpOk, Kinds
  <2>2. /\ b2c' = Append(b2c, Ack("PUBREC", p.id))
        /\ broker' = IF p.id \in broker.rec THEN broker
                     ELSE [broker EXCEPT !.got[p.m] = Twice(@), !.rec = @ \cup {p.id}]
    BY <1>7 DEF BrokerReceive
  <2>3. CASE p.id \in broker.rec
    <3>1. broker' = broker /\ Received' = Received /\ StateOK'
      BY <1>0, <1>4, <2>2, <2>3 DEF Received
    <3>2. p.id \in Received
      BY <1>0, <2>3 DEF WireInv
    <3>3. \E q \in Packets : b2c' = Append(b2c, q) /\ DownOk(q)'
      BY <1>3, <1>5, <2>1, <2>2, <3>1, <3>2 DEF Answers
    <3>4. AcknowledgedWasDelivered'
      BY <1>0, <1>1, <3>1 DEF AcknowledgedWasDelivered, clientVars
    <3> QED BY <1>0, <1>1, <3>1, <3>3, <3>4, BrokerStep DEF WireInv, OnceInv
  <2>4. CASE p.id \notin broker.rec
    <3>1. /\ broker' \in Brokers /\ broker'.got = [broker.got EXCEPT ![p.m] = Twice(@)]
          /\ broker'.rec = broker.rec \cup {p.id} /\ broker'.out = broker.out
      <4>1. \A j \in 0..2 : Twice(j) \in 0..2
        BY DEF Twice
      <4>2. broker' = [broker EXCEPT !.got[p.m] = Twice(@), !.rec = @ \cup {p.id}]
        BY <2>2, <2>4
      <4> QED BY <1>0, <2>1, <4>1, <4>2 DEF Brokers
    <3>2. PublishFrom(1, p.m)
      BY <1>2, <1>7 DEF PublishFrom
    <3>3. p.m \notin Received
      BY <1>0, <2>1, <2>4, <3>2 DEF OnceInv
    <3>4. /\ Received' = Received \cup {p.m}
          /\ \A n \in Msgs : n # p.m => broker'.got[n] = broker.got[n]
          /\ broker'.got[p.m] = 1
      BY <1>0, <2>1, <3>1, <3>3, PassedFacts
    <3>5. \E q \in Packets : b2c' = Append(b2c, q) /\ DownOk(q)'
      BY <1>3, <1>5, <2>1, <2>2, <3>4 DEF Answers
    <3>6. StateOK' /\ broker'.rec \subseteq Received'
      BY <1>0, <1>4, <2>1, <3>1, <3>4 DEF WireInv
    <3>7. AcknowledgedWasDelivered' /\ \A k \in DOMAIN broker'.out : broker'.out[k] = "rec" => Delivered(data[k])
      BY <1>0, <1>1, <3>1 DEF WireInv, AcknowledgedWasDelivered, clientVars
    <3>8. \A m \in DOMAIN sent : sent[m] = <<"PUBLISH", 2>> =>
               /\ broker'.got[m] <= 1
               /\ m \in Received' /\ m \notin broker'.rec =>
                      \/ m \in Received /\ m \notin broker.rec
                      \/ p.type = "PUBREL" /\ p.id = m
      BY <1>0, <2>1, <3>1, <3>4 DEF OnceInv
    <3> QED BY <1>1, <2>1, <3>4, <3>5, <3>6, <3>7, <3>8, BrokerStep
  <2> QED BY <2>3, <2>4
<1>8. CASE p.type = "PUBREL"
  <2>1. /\ broker' = [broker EXCEPT !.rec = @ \ {p.id}] /\ b2c' = Append(b2c, Ack("PUBCOMP", p.id))
        /\ p.id \in Received /\ p.id \in Msgs
    BY <1>2, <1>8 DEF BrokerReceive, UpOk, Received
  <2>2. /\ broker' \in Brokers /\ broker'.got = broker.got /\ broker'.out = broker.out
        /\ broker'.rec = broker.rec \ {p.id}
    BY <1>0, <2>1 DEF Brokers
  <2>3. Received' = Received /\ StateOK' /\ broker'.rec \subseteq Received'
    BY <1>0, <1>4, <2>2 DEF Received, WireInv
  <2>4. \E q \in Packets : b2c' = Append(b2c, q) /\ DownOk(q)'
    BY <1>3, <1>5, <2>1, <2>3 DEF Answers
  <2>5. AcknowledgedWasDelivered' /\ \A k \in DOMAIN broker'.out : broker'.out[k] = "rec" => Delivered(data[k])
    BY <1>0, <1>1, <2>2 DEF WireInv, AcknowledgedWasDelivered, clientVars
  <2>6. \A m \in DOMAIN sent : sent[m] = <<"PUBLISH", 2>> =>
             /\ broker'.got[m] <= 1
             /\ m \in Received' /\ m \notin broker'.rec =>
                    \/ m \in Received /\ m \notin broker.rec
                    \/ p.type = "PUBREL" /\ p.id = m
    BY <1>0, <1>8, <2>2, <2>3 DEF OnceInv
  <2> QED BY <1>1, <2>3, <2>4, <2>5, <2>6, BrokerStep
<1>9. CASE p.type \in Answers
  <2>1. /\ p.m = p.id /\ p.m \in In /\ Delivered(data[p.m]) /\ p.type \notin Kinds
    BY <1>2, <1>9 DEF UpOk, Kinds, Answers
  <2>2. /\ \E s \in {"rec", "done"} : broker' = [broker EXCEPT !.out[p.m] = s]
        /\ b2c' = b2c \/ b2c' = Append(b2c, Ack("PUBREL", p.id))
    BY <1>9 DEF BrokerReceive, Answers
  <2>3. /\ broker' \in Brokers /\ broker'.got = broker.got /\ broker'.rec = broker.rec
        /\ DOMAIN broker'.out = DOMAIN broker.out
        /\ \A k \in DOMAIN broker.out : k # p.m => broker'.out[k] = broker.out[k]
    <3>1. PICK s \in {"rec", "done"} : broker' = [broker EXCEPT !.out[p.m] = s]
      BY <2>2
    <3>2. PICK S \in SUBSET In : broker.out \in [S -> {"sent", "rec", "done"}]
      BY <1>0 DEF Brokers
    <3>3. [broker.out EXCEPT ![p.m] = s] \in [S -> {"sent", "rec", "done"}]
      BY <3>2
    <3>4. /\ broker'.out = [broker.out EXCEPT ![p.m] = s]
          /\ broker'.got = broker.got /\ broker'.rec = broker.rec
          /\ broker' = [rec |-> broker.rec, got |-> broker.got, out |-> [broker.out EXCEPT ![p.m] = s]]
      BY <1>0, <3>1 DEF Brokers
    <3>5. broker' \in Brokers
      BY <1>0, <3>3, <3>4 DEF Brokers
    <3> QED BY <3>2, <3>4, <3>5
  <2>4. Received' = Received /\ StateOK'
    BY <1>4, <2>3 DEF Received
  <2>5. b2c' = b2c \/ \E q \in Packets : b2c' = Append(b2c, q) /\ DownOk(q)'
    BY <1>3, <1>5, <2>1, <2>2
  <2>6. AcknowledgedWasDelivered' /\ \A k \in DOMAIN broker'.out : broker'.out[k] = "rec" => Delivered(data[k])
    BY <1>0, <1>1, <2>1, <2>3 DEF WireInv, AcknowledgedWasDelivered, clientVars
  <2> QED BY <1>0, <1>1, <2>3, <2>4, <2>5, <2>6, BrokerStep DEF WireInv, OnceInv
<1> QED BY <1>3, <1>6, <1>7, <1>8, <1>9

LEMMA BrokerPublishKeepsSession ==
    ASSUME SessionInv, NEW k \in In, BrokerPublish(k)
    PROVE  SessionInv'
<1>0. /\ StateOK /\ broker \in Brokers /\ WireInv /\ UnsentInv /\ OnceInv /\ AcknowledgedWasDelivered
      /\ c2b \in Seq(Packets) /\ b2c \in Seq(Packets) /\ InQoS[k] \in 0..2 /\ k \in Ids
  BY SessionFacts, SessionAssumption DEF StateOK, SessionInv, FlowInv, Range, Ids
<1>1. PICK q : q = Packet("PUBLISH", k, k, InQoS[k], FALSE)
  OBVIOUS
<1>2. /\ q \in Packets /\ q.type = "PUBLISH" /\ q.id = k /\ q.m = k /\ q.qos = InQoS[k]
  BY <1>0, <1>1 DEF Packet, Packets, Kinds
<1>3. PICK s \in {"sent", "done"} :
        /\ InQoS[k] > 0 => s = "sent"
        /\ broker' = [broker EXCEPT !.out = Extended(@, k, s)]
  <2>1. PICK s : s = IF InQoS[k] = 0 THEN "done" ELSE "sent"
    OBVIOUS
  <2>2. broker' = [broker EXCEPT !.out = Extended(@, k, s)]
    BY <2>1 DEF BrokerPublish
  <2>3. s \in {"sent", "done"} /\ (InQoS[k] > 0 => s = "sent")
    BY <1>0, <2>1
  <2> QED BY <2>2, <2>3
<1>4. /\ k \notin DOMAIN broker.out /\ UNCHANGED clientVars /\ c2b' = c2b /\ b2c' = Append(b2c, q)
  BY <1>1 DEF BrokerPublish
<1>5. PICK S \in SUBSET In : broker.out \in [S -> {"sent", "rec", "done"}]
  BY <1>0 DEF Brokers
<1>6. /\ Extended(broker.out, k, s) \in [S \cup {k} -> {"sent", "rec", "done"}]
      /\ Extended(broker.out, k, s)[k] = s
      /\ \A j \in S : Extended(broker.out, k, s)[j] = broker.out[j]
  BY <1>4, <1>5 DEF Extended
<1>7. /\ broker'.out = Extended(broker.out, k, s) /\ broker'.got = broker.got
      /\ broker'.rec = broker.rec
      /\ broker' = [rec |-> broker.rec, got |-> broker.got, out |-> Extended(broker.out, k, s)]
  BY <1>0, <1>3 DEF Brokers
<1>8. S \cup {k} \in SUBSET In
  OBVIOUS
<1>9. broker' \in Brokers
  BY <1>0, <1>6, <1>7, <1>8 DEF Brokers
<1>10. StateOK' /\ Received' = Received
  BY <1>0, <1>4, <1>7, <1>9 DEF StateOK, Received, clientVars
<1>11. Grows
  BY <1>4, <1>10 DEF Grows, clientVars
<1>12. ClientInv'
  BY <1>4, <1>10, <1>11, QuietClient DEF clientVars
<1>13. AcknowledgedWasDelivered' /\ \A j \in DOMAIN broker'.out : broker'.out[j] = "rec" => Delivered(data'[j])
  <2>1. \A j \in DOMAIN broker'.out : j = k \/ (j \in S /\ broker'.out[j] = broker.out[j])
    BY <1>6, <1>7
  <2>2. broker'.out[k] = s /\ DOMAIN broker.out = S /\ data' = data
    BY <1>4, <1>5, <1>6, <1>7 DEF clientVars
  <2> QED BY <1>0, <1>3, <2>1, <2>2 DEF AcknowledgedWasDelivered, WireInv
<1>14. WireInv' /\ b2c' \in Seq(Packets)
  <2>1. \A e \in Range(c2b') : UpOk(e)'
    BY <1>0, <1>4, <1>11, GrowsKeeps DEF WireInv
  <2>2. b2c' \in Seq(Packets) /\ Range(b2c') = Range(b2c) \cup {q}
    BY <1>0, <1>2, <1>4, AppendFacts
  <2>3. DownOk(q)'
    BY <1>2 DEF DownOk, Answers
  <2>4. \A e \in Range(b2c') : DownOk(e)'
    BY <1>0, <1>11, <2>2, <2>3, GrowsKeeps DEF WireInv
  <2> QED BY <1>0, <1>4, <1>7, <1>10, <1>13, <2>1, <2>2, <2>4 DEF WireInv, clientVars
<1>15. \A m : \A i \in Nat : PublishFrom(i, m)' <=> PublishFrom(i, m)
  BY <1>4 DEF PublishFrom
<1>16. UnsentInv'
  BY <1>0, <1>4, <1>10, <1>15 DEF UnsentInv, clientVars
<1>17. OnceInv'
  <2>1. \A m : Past(m)' <=> Past(m)
    BY <1>4 DEF Past, clientVars
  <2>2. \A i \in 1 .. Len(c2b) : i \in Nat
    OBVIOUS
  <2> QED BY <1>0, <1>4, <1>7, <1>10, <1>15, <2>1, <2>2 DEF OnceInv, clientVars
<1> QED BY <1>0, <1>4, <1>12, <1>13, <1>14, <1>16, <1>17 DEF SessionInv, FlowInv

(* At the start nothing is sent, kept or under way.                        *)
LEMMA SessionStarts == SessionInit => SessionInv
<1> SUFFICES ASSUME SessionInit PROVE SessionInv
  OBVIOUS
<1>0. N \in Nat
  BY SessionAssumption
<1>1. /\ c2b = <<>> /\ b2c = <<>> /\ sent = <<>> /\ DOMAIN sent = {} /\ DOMAIN outbox = {}
      /\ outbox = [m \in {} |-> 0] /\ Len(sent) = 0
  BY DEF SessionInit, outbox_init
<1>2. /\ broker \in Brokers /\ broker.rec = {} /\ broker.got = [m \in Msgs |-> 0]
      /\ DOMAIN broker.out = {}
  <2>1. <<>> \in [{} -> {"sent", "rec", "done"}] /\ {} \in SUBSET In
    OBVIOUS
  <2>2. broker = [rec |-> {}, got |-> [m \in Msgs |-> 0], out |-> <<>>]
    BY DEF SessionInit
  <2> QED BY <2>1, <2>2 DEF Brokers
<1>3. Received = {}
  BY <1>2 DEF Received
<1>4. StateOK
  BY <1>0, <1>1, <1>2 DEF SessionInit, StateOK, Calling, Events, Extents
<1>5. ItemsInv /\ UnsentInv /\ EnqueuedInOrder
  BY <1>1 DEF ItemsInv, UnsentInv, EnqueuedInOrder
<1>6. EventsInv /\ NoneForgotten /\ OnceInv
  BY <1>1 DEF SessionInit, EventsInv, NoneForgotten, OnceInv
<1>7. WireInv /\ AcknowledgedWasDelivered
  BY <1>1, <1>2, <1>3, EmptyFacts DEF WireInv, AcknowledgedWasDelivered
<1> QED BY <1>1, <1>4, <1>5, <1>6, <1>7, EmptyFacts DEF SessionInv, ClientInv, FlowInv

(* Every step of the session keeps the invariant.                          *)
LEMMA SessionStep == SessionInv /\ [SessionNext]_sessionVars => SessionInv'
<1> SUFFICES ASSUME SessionInv, [SessionNext]_sessionVars PROVE SessionInv'
  OBVIOUS
<1>1. CASE UNCHANGED sessionVars
  <2>1. UNCHANGED <<outbox, sent, ret, event, data, broker, call, c2b, b2c>>
    BY <1>1 DEF sessionVars, clientVars, linkVars
  <2> QED BY <2>1, SessionFacts, IdleKeepsSession DEF LosesOrKeeps, Shrinks
<1> QED BY <1>1, AppKeepsSession, ReceiveKeepsSession, ResendQueuedKeepsSession,
           RetransmitKeepsSession, ExpireKeepsSession, LinkKeepsSession,
           BrokerReceiveKeepsSession, BrokerPublishKeepsSession DEF SessionNext, Resend

(* SessionInv holds in every state.                                        *)
LEMMA SessionInvariant == SessionSafety => []SessionInv
BY SessionStarts, SessionStep, PTL DEF SessionSafety

(* The broker passes a QoS 2 message on at most once, whatever is lost,    *)
(* sent again or expires: any number of messages and lost connections.     *)
THEOREM SessionDeliveredAtMostOnce == SessionSafety => []DeliveredAtMostOnce
<1>1. SessionInv => DeliveredAtMostOnce
  BY DEF SessionInv, FlowInv, OnceInv, DeliveredAtMostOnce
<1> QED BY <1>1, SessionInvariant, PTL

(* MQTT_EVENT_PUBLISHED, _SUBSCRIBED and _UNSUBSCRIBED are posted only for *)
(* what the broker has.                                                    *)
THEOREM SessionCompletedWasReceived == SessionSafety => []CompletedWasReceived
<1>1. SessionInv => CompletedWasReceived
  BY SessionFacts DEF SessionInv, ClientInv, EventsInv, CompletedWasReceived, Received
<1> QED BY <1>1, SessionInvariant, PTL

(* A message whose call returned an identifier leaves the outbox completed *)
(* or refused, which the application is told, or expired, which it is told *)
(* under MQTT_REPORT_DELETED_MESSAGES only.                                *)
THEOREM SessionNothingForgotten == SessionSafety => []NothingForgotten
<1>1. SessionInv => NothingForgotten
  BY SessionFacts DEF SessionInv, ClientInv, StateOK, Events, NoneForgotten, NothingForgotten
<1> QED BY <1>1, SessionInvariant, PTL

(* What esp_mqtt_client_enqueue stores is sent in the order stored.        *)
THEOREM SessionEnqueuedInOrder == SessionSafety => []EnqueuedInOrder
<1>1. SessionInv => EnqueuedInOrder
  BY DEF SessionInv, ClientInv
<1> QED BY <1>1, SessionInvariant, PTL

(* The client acknowledges the broker's messages only once the application *)
(* has them, but for the end of a long payload that came too late.         *)
THEOREM SessionAcknowledgedWasDelivered == SessionSafety => []AcknowledgedWasDelivered
<1>1. SessionInv => AcknowledgedWasDelivered
  BY DEF SessionInv, FlowInv
<1> QED BY <1>1, SessionInvariant, PTL
=============================================================================
