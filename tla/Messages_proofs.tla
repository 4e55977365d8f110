-------------------------- MODULE Messages_proofs --------------------------
(***************************************************************************)
(* What the messages of the edge node carry, for every buffer size, every  *)
(* payload and every way the stream may be cut up: in OutboundMessage the  *)
(* header announces the body (HeaderAnnouncesBody, StoredWhole); in        *)
(* SensorCodec the reading arrives as it was measured; in MqttFraming the  *)
(* broker's messages are handled whole, in order and once (HandledAsSent). *)
(***************************************************************************)
EXTENDS OutboundMessage, SensorCodec, MqttFraming, SequenceTheorems, FiniteSetTheorems, TLAPS

-----------------------------------------------------------------------------
(* OutboundMessage: the total outlives a call only while a long message is *)
(* abandoned, and the offset never exceeds that of the last message that   *)
(* was left unwritten.                                                     *)

(* The fields between two messages.                                        *)
FieldsKnown == /\ total # 0 => abandoned
               /\ offset <= HEADER + unwritten
OutInv == OutTypeOK /\ FieldsKnown /\ HeaderAnnouncesBody /\ StoredWhole

(* What the two properties ask of a message.                               *)
Whole(m) == m.stale \/ m.announced = m.follows

-----------------------------------------------------------------------------
(* fini_message: the remaining length takes one to four bytes, so that the *)
(* offset never moves up.                                                  *)
LEMMA LengthBytes ==
    ASSUME NEW n \in Int
    PROVE  len_bytes(n) \in 1..4
BY DEF len_bytes

(* fini_message takes the offset back by the bytes it does not need.       *)
LEMMA MovedDown ==
    ASSUME NEW off \in Int, NEW n \in Int
    PROVE  moved(off, n) \in Int /\ moved(off, n) <= off
BY LengthBytes DEF moved, HEADER

(* The length of a payload, or of none.                                    *)
LEMMA PayloadLength ==
    ASSUME NEW d \in Data
    PROVE  d \in Int /\ len(d) \in Nat /\ (d # NULL => d \in Nat /\ len(d) = d)
BY OutboundAssumption DEF Data, NULL, len

(* mqtt_msg_publish: the types of what it makes.                           *)
LEMMA PublishTypes ==
    ASSUME NEW h \in Nat, NEW d \in Data, total \in Nat
    PROVE  /\ made_total(h, d) \in Nat
           /\ made_body(h, d) \in Int
           /\ made_announced(h, d) \in Int
           /\ made_length(h, d) \in Int
<1>1. d \in Int /\ len(d) \in Nat /\ (d # NULL => d \in Nat)
  BY PayloadLength
<1>2. made_total(h, d) \in Nat
  BY <1>1 DEF made_total, HEADER
<1>3. made_body(h, d) \in Int
  BY <1>1, OutboundAssumption DEF made_body, HEADER
<1>4. made_announced(h, d) \in Int
  BY <1>2, <1>3 DEF made_announced, announced, HEADER
<1>5. len_bytes(made_announced(h, d)) \in Int
  <2>1. len_bytes(made_announced(h, d)) \in 1..4
    BY <1>4, LengthBytes
  <2> QED
    BY <2>1
<1> QED
  BY <1>2, <1>3, <1>4, <1>5 DEF made_length

(* What the header of a message announces, whether or not it fits the      *)
(* buffer, when no total was left for one without a payload.               *)
LEMMA PublishAnnounces ==
    ASSUME NEW h \in Nat, NEW d \in Data, total \in Nat, d = NULL => total = 0
    PROVE  made_announced(h, d) = h + len(d)
<1>1. d \in Int /\ len(d) \in Nat /\ (d # NULL => d \in Nat /\ len(d) = d)
  BY PayloadLength
<1>2. CASE Fragmented(h, d)
  <2>1. made_total(h, d) = d + HEADER + h /\ d \in Nat /\ len(d) = d
    BY <1>1, <1>2 DEF made_total, Fragmented
  <2> QED
    BY <2>1 DEF made_announced, announced, HEADER
<1>3. CASE ~Fragmented(h, d)
  <2>1. made_total(h, d) = 0 /\ made_body(h, d) = h + len(d)
    BY <1>3 DEF made_total, made_body
  <2> QED
    BY <2>1 DEF made_announced, announced
<1> QED
  BY <1>2, <1>3

(* The payload that the code takes to be in the buffer: the difference     *)
(* does not depend on how far the header was moved.                        *)
LEMMA DataSent ==
    ASSUME NEW h \in Nat, NEW d \in Data, total \in Nat, offset \in Int
    PROVE  /\ made_offset(h, d) \in Int
           /\ data_sent(h, d) = made_body(h, d) + HEADER
                                - (IF Fragmented(h, d) THEN HEADER + h ELSE offset)
<1>1. made_announced(h, d) \in Int /\ made_body(h, d) \in Int
  BY PublishTypes
<1>2. len_bytes(made_announced(h, d)) \in Int
  <2>1. len_bytes(made_announced(h, d)) \in 1..4
    BY <1>1, LengthBytes
  <2> QED
    BY <2>1
<1>3. CASE Fragmented(h, d)
  BY <1>1, <1>2, <1>3 DEF data_sent, made_length, made_offset, moved, HEADER
<1>4. CASE ~Fragmented(h, d)
  BY <1>1, <1>2, <1>4 DEF data_sent, made_length, made_offset, moved, HEADER
<1> QED
  BY <1>3, <1>4

(* The offset a message leaves when it is made and not written.            *)
LEMMA LeavesKnown ==
    ASSUME NEW h \in Nat, NEW d \in Data, OutTypeOK, FieldsKnown, Leaves(h, d)
    PROVE  /\ offset' \in Int /\ unwritten' \in Nat
           /\ offset' <= HEADER + unwritten'
<1>1. total \in Nat /\ offset \in Int /\ unwritten \in Nat /\ offset <= HEADER + unwritten
  BY DEF OutTypeOK, FieldsKnown
<1>2. made_announced(h, d) \in Int
  BY <1>1, PublishTypes
<1>3. CASE Fragmented(h, d)
  <2>1. HEADER + h \in Int
    BY DEF HEADER
  <2>2. moved(HEADER + h, made_announced(h, d)) \in Int
        /\ moved(HEADER + h, made_announced(h, d)) <= HEADER + h
    BY <1>2, <2>1, MovedDown
  <2> QED
    BY <1>3, <2>2 DEF Leaves, made_offset
<1>4. CASE ~Fragmented(h, d)
  <2>1. moved(offset, made_announced(h, d)) \in Int
        /\ moved(offset, made_announced(h, d)) <= offset
    BY <1>1, <1>2, MovedDown
  <2>2. offset' = moved(offset, made_announced(h, d)) /\ unwritten' = unwritten
    BY <1>4 DEF Leaves, made_offset
  <2> QED
    BY <1>1, <2>1, <2>2 DEF HEADER
<1> QED
  BY <1>3, <1>4

(* A PUBLISH is whole, stored or written, unless what it finds is stale.   *)
LEMMA PublishWhole ==
    ASSUME NEW h \in Nat, NEW d \in Data, OutTypeOK, FieldsKnown
    PROVE  /\ Stored(h, d) \in Message /\ Whole(Stored(h, d))
           /\ Written(h, d) \in Message /\ Whole(Written(h, d))
<1>1. total \in Nat /\ offset \in Int /\ unwritten \in Nat /\ offset <= HEADER + unwritten
  BY DEF OutTypeOK, FieldsKnown
<1>2. /\ d \in Int /\ len(d) \in Nat /\ (d # NULL => d \in Nat /\ len(d) = d)
      /\ made_total(h, d) \in Nat /\ made_body(h, d) \in Int
      /\ made_announced(h, d) \in Int
  BY <1>1, PayloadLength, PublishTypes
<1>3. data_sent(h, d) = made_body(h, d) + HEADER
                        - (IF Fragmented(h, d) THEN HEADER + h ELSE offset)
  BY <1>1, DataSent
<1>4. remaining(h, d) \in Int
  BY <1>1, <1>2, <1>3 DEF remaining, HEADER
<1>5. ASSUME NEW rest \in Int
      PROVE  Made(h, d, rest) \in Message
  <2>1. made_body(h, d) + rest \in Int
    BY <1>2
  <2>2. (\/ d = NULL /\ abandoned
         \/ ~Fragmented(h, d) /\ unwritten > h) \in BOOLEAN
    OBVIOUS
  <2> QED
    BY <1>2, <2>1, <2>2, Zenon DEF Made, Message
<1>6. Stored(h, d) \in Message /\ Written(h, d) \in Message
  BY <1>4, <1>5 DEF Stored, Written
<1>7. CASE (d = NULL /\ abandoned) \/ (~Fragmented(h, d) /\ unwritten > h)
  <2>1. \A rest : Made(h, d, rest).stale
    BY <1>7 DEF Made
  <2> QED
    BY <1>6, <2>1 DEF Stored, Written, Whole
<1>8. CASE ~((d = NULL /\ abandoned) \/ (~Fragmented(h, d) /\ unwritten > h))
  <2>1. d = NULL => total = 0
    BY <1>8 DEF FieldsKnown
  <2>2. made_announced(h, d) = h + len(d)
    BY <1>1, <2>1, PublishAnnounces
  <2>3. CASE Fragmented(h, d)
    <3>1. d \in Nat /\ len(d) = d /\ made_total(h, d) = d + HEADER + h
          /\ made_body(h, d) = buffer_length - HEADER
      BY <1>2, <2>3 DEF Fragmented, made_total, made_body
    <3>2. remaining(h, d) = d + h + HEADER - buffer_length
      BY <1>3, <2>3, <3>1, OutboundAssumption DEF remaining, HEADER
    <3>3. remaining(h, d) > 0 /\ made_total(h, d) # 0
          /\ made_body(h, d) + remaining(h, d) = h + d
      BY <2>3, <3>1, <3>2, OutboundAssumption DEF Fragmented, HEADER
    <3>4. Stored(h, d) = Made(h, d, remaining(h, d)) /\ Written(h, d) = Made(h, d, remaining(h, d))
      BY <3>3 DEF Stored, Written
    <3>5. Whole(Made(h, d, remaining(h, d)))
      BY <2>2, <3>1, <3>3 DEF Whole, Made
    <3> QED
      BY <1>6, <3>4, <3>5
  <2>4. CASE ~Fragmented(h, d)
    <3>1. made_total(h, d) = 0 /\ made_body(h, d) = h + len(d) /\ unwritten <= h
      BY <1>1, <1>8, <2>1, <2>4 DEF made_total, made_body
    <3>2. remaining(h, d) = offset - h - HEADER
      BY <1>1, <1>2, <1>3, <2>4, <3>1 DEF remaining, HEADER
    <3>3. ~(remaining(h, d) > 0)
      BY <1>1, <3>1, <3>2 DEF HEADER
    <3>4. Stored(h, d) = Made(h, d, 0) /\ Written(h, d) = Made(h, d, 0)
      BY <3>1, <3>3 DEF Stored, Written
    <3>5. Whole(Made(h, d, 0))
      BY <1>2, <2>2, <3>1 DEF Whole, Made
    <3> QED
      BY <1>6, <3>4, <3>5
  <2> QED
    BY <2>3, <2>4
<1> QED
  BY <1>7, <1>8

(* The outbox stays whole when a whole message is appended or the first    *)
(* one leaves.                                                             *)
LEMMA AppendWhole ==
    ASSUME NEW q \in Seq(Message), NEW m \in Message, Whole(m),
           \A k \in DOMAIN q : Whole(q[k])
    PROVE  /\ Append(q, m) \in Seq(Message)
           /\ \A k \in DOMAIN Append(q, m) : Whole(Append(q, m)[k])
<1>1. Append(q, m) \in Seq(Message) /\ DOMAIN q = 1..Len(q)
      /\ DOMAIN Append(q, m) = 1..(Len(q) + 1) /\ Len(q) \in Nat
  OBVIOUS
<1>2. ASSUME NEW k \in 1..(Len(q) + 1)
      PROVE  Whole(Append(q, m)[k])
  <2>1. CASE k = Len(q) + 1
    <3>1. Append(q, m)[k] = m
      BY <2>1
    <3> QED
      BY <3>1
  <2>2. CASE k \in 1..Len(q)
    <3>1. Append(q, m)[k] = q[k]
      BY <2>2
    <3> QED
      BY <1>1, <2>2, <3>1
  <2> QED
    BY <1>1, <2>1, <2>2
<1> QED
  BY <1>1, <1>2

(* The outbox after its first message was taken.                           *)
LEMMA HeadTailWhole ==
    ASSUME NEW q \in Seq(Message), q # <<>>,
           \A k \in DOMAIN q : Whole(q[k])
    PROVE  /\ Head(q) \in Message /\ Whole(Head(q))
           /\ Tail(q) \in Seq(Message)
           /\ \A k \in DOMAIN Tail(q) : Whole(Tail(q)[k])
<1>1. Len(q) \in Nat \ {0} /\ DOMAIN q = 1..Len(q) /\ Tail(q) \in Seq(Message)
      /\ DOMAIN Tail(q) = 1..(Len(q) - 1)
  OBVIOUS
<1>2. Head(q) = q[1] /\ 1 \in DOMAIN q /\ Head(q) \in Message
  BY <1>1
<1>3. \A k \in 1..(Len(q) - 1) : Tail(q)[k] = q[k + 1] /\ k + 1 \in DOMAIN q
  BY <1>1
<1> QED
  BY <1>1, <1>2, <1>3
-----------------------------------------------------------------------------
(* The state after mqtt_msg_buffer_init, when the node starts.             *)
LEMMA Fresh ==
    ASSUME total = 0, offset = 0, connected = FALSE, outbox = <<>>, wire = NoMessage,
           abandoned = FALSE, unwritten = 0
    PROVE  OutInv
<1>1. NoMessage \in Message /\ NoMessage.announced = NoMessage.follows
  BY DEF NoMessage, Message
<1>2. outbox \in Seq(Message) /\ DOMAIN outbox = {}
  OBVIOUS
<1>3. OutTypeOK
  <2>1. connected \in BOOLEAN /\ abandoned \in BOOLEAN
    BY Zenon
  <2> QED
    BY <1>1, <1>2, <2>1 DEF OutTypeOK
<1>4. FieldsKnown
  BY DEF FieldsKnown, HEADER
<1> QED
  BY <1>1, <1>2, <1>3, <1>4 DEF OutInv, HeaderAnnouncesBody, StoredWhole

(* mqtt_msg_buffer_init clears both fields.                                *)
LEMMA InvInit == OutInit => OutInv
BY Fresh DEF OutInit

(* A panic starts the node again.                                          *)
LEMMA InvPanic ==
    ASSUME NEW h, NEW d, Panic(h, d)
    PROVE  OutInv'
<1>1. NoMessage \in Message /\ NoMessage.announced = NoMessage.follows
  BY DEF NoMessage, Message
<1>2. outbox' \in Seq(Message) /\ DOMAIN outbox' = {} /\ wire' = NoMessage
  BY DEF Panic
<1>3. OutTypeOK'
  <2>1. connected' \in BOOLEAN /\ abandoned' \in BOOLEAN
    BY Zenon DEF Panic
  <2> QED
    BY <1>1, <1>2, <2>1 DEF Panic, OutTypeOK
<1>4. FieldsKnown'
  BY DEF Panic, FieldsKnown, HEADER
<1> QED
  BY <1>1, <1>2, <1>3, <1>4 DEF OutInv, HeaderAnnouncesBody, StoredWhole

(* What is stored is whole.                                                *)
LEMMA StoreWhole ==
    ASSUME OutInv, NEW h \in TopicLengths, NEW d \in Data,
           Store(h, d) \/ UNCHANGED outbox
    PROVE  outbox' \in Seq(Message) /\ StoredWhole'
<1>1. h \in Nat /\ OutTypeOK /\ FieldsKnown /\ outbox \in Seq(Message)
      /\ \A k \in DOMAIN outbox : Whole(outbox[k])
  BY OutboundAssumption DEF OutInv, OutTypeOK, StoredWhole, Whole
<1>2. CASE UNCHANGED outbox
  BY <1>1, <1>2 DEF StoredWhole, Whole
<1>3. CASE Store(h, d)
  <2>1. outbox' = Append(outbox, Stored(h, d))
    BY <1>3 DEF Store
  <2>2. Stored(h, d) \in Message /\ Whole(Stored(h, d))
    BY <1>1, PublishWhole
  <2>3. outbox' \in Seq(Message) /\ \A k \in DOMAIN outbox' : Whole(outbox'[k])
    BY <1>1, <2>1, <2>2, AppendWhole
  <2> QED
    BY <2>3 DEF StoredWhole, Whole
<1> QED
  BY <1>2, <1>3

(* A publish leaves the fields known and the outbox whole.                 *)
LEMMA InvPublish ==
    ASSUME OutInv, NEW h \in TopicLengths, NEW d \in Data,
           NEW qos \in 0..2, Publish(h, d, qos)
    PROVE  OutInv'
<1>1. h \in Nat /\ OutTypeOK /\ FieldsKnown
  BY OutboundAssumption DEF OutInv
<1>2. total' = 0 /\ abandoned' = FALSE
  BY DEF Publish
<1>3. outbox' \in Seq(Message) /\ StoredWhole'
  <2>1. Store(h, d) \/ UNCHANGED outbox
    BY Zenon DEF Publish
  <2> QED
    BY <2>1, StoreWhole
<1>4. offset' \in Int /\ unwritten' \in Nat /\ offset' <= HEADER + unwritten'
  <2>1. CASE Leaves(h, d)
    BY <1>1, <2>1, LeavesKnown
  <2>2. CASE offset' = 0 /\ unwritten' = 0
    BY <2>2 DEF HEADER
  <2>3. Leaves(h, d) \/ (offset' = 0 /\ unwritten' = 0)
    BY DEF Publish
  <2> QED
    BY <2>1, <2>2, <2>3
<1>5. wire' \in Message /\ HeaderAnnouncesBody'
  <2>1. wire' = wire \/ wire' = Written(h, d)
    BY DEF Publish
  <2>2. Written(h, d) \in Message /\ Whole(Written(h, d))
    BY <1>1, PublishWhole
  <2>3. wire \in Message /\ Whole(wire)
    BY DEF OutInv, OutTypeOK, HeaderAnnouncesBody, Whole
  <2> QED
    BY <2>1, <2>2, <2>3 DEF HeaderAnnouncesBody, Whole
<1>6. connected' \in BOOLEAN
  BY <1>1, Zenon DEF Publish, OutTypeOK
<1>7. abandoned' \in BOOLEAN
  BY <1>2, Zenon
<1> QED
  BY <1>2, <1>3, <1>4, <1>5, <1>6, <1>7 DEF OutInv, OutTypeOK, FieldsKnown

(* A message made and not stored: its total is known to be abandoned.      *)
LEMMA InvUnstored ==
    ASSUME OutInv, NEW h \in TopicLengths, NEW d \in Data, Leaves(h, d),
           total' = made_total(h, d),
           abandoned' = (IF d = NULL THEN abandoned ELSE Fragmented(h, d)),
           UNCHANGED <<connected, outbox, wire>>
    PROVE  OutInv'
<1>1. h \in Nat /\ OutTypeOK /\ FieldsKnown
  BY OutboundAssumption DEF OutInv
<1>2. offset' \in Int /\ unwritten' \in Nat /\ offset' <= HEADER + unwritten'
  BY <1>1, LeavesKnown
<1>3. total' \in Nat
  BY <1>1, PublishTypes DEF OutTypeOK
<1>4. abandoned' \in BOOLEAN /\ (total' # 0 => abandoned')
  <2>1. CASE d = NULL
    <3>1. total' = total /\ abandoned' = abandoned
      BY <2>1 DEF made_total
    <3> QED
      BY <1>1, <3>1 DEF OutTypeOK, FieldsKnown
  <2>2. CASE d # NULL
    <3>1. abandoned' = Fragmented(h, d)
      BY <2>2, Zenon
    <3>2. total' = IF Fragmented(h, d) THEN d + HEADER + h ELSE 0
      BY <2>2 DEF made_total
    <3>3. Fragmented(h, d) \in BOOLEAN
      BY DEF Fragmented
    <3> QED
      BY <3>1, <3>2, <3>3
  <2> QED
    BY <2>1, <2>2
<1> QED
  BY <1>2, <1>3, <1>4 DEF OutInv, OutTypeOK, FieldsKnown, HeaderAnnouncesBody, StoredWhole

(* A message made, and stored or not.                                      *)
LEMMA InvEnqueue ==
    ASSUME OutInv, NEW h \in TopicLengths, NEW d \in Data,
           NEW stored \in BOOLEAN, Enqueue(h, d, stored)
    PROVE  OutInv'
<1>1. CASE stored
  <2>1. h \in Nat /\ OutTypeOK /\ FieldsKnown
    BY OutboundAssumption DEF OutInv
  <2>2. Leaves(h, d) /\ Store(h, d) /\ total' = 0 /\ abandoned' = FALSE
        /\ UNCHANGED <<connected, wire>>
    BY <1>1 DEF Enqueue
  <2>3. outbox' \in Seq(Message) /\ StoredWhole'
    BY <2>2, StoreWhole
  <2>4. offset' \in Int /\ unwritten' \in Nat /\ offset' <= HEADER + unwritten'
    BY <2>1, <2>2, LeavesKnown
  <2>5. abandoned' \in BOOLEAN
    BY <2>2, Zenon
  <2> QED
    BY <2>2, <2>3, <2>4, <2>5 DEF OutInv, OutTypeOK, FieldsKnown, HeaderAnnouncesBody
<1>2. CASE ~stored
  <2>1. /\ Leaves(h, d) /\ total' = made_total(h, d)
        /\ abandoned' = (IF d = NULL THEN abandoned ELSE Fragmented(h, d))
        /\ UNCHANGED <<connected, outbox, wire>>
    BY <1>2 DEF Enqueue
  <2> QED
    BY <2>1, InvUnstored
<1> QED
  BY <1>1, <1>2

(* A control message finds a total only if one was abandoned.              *)
LEMMA InvBuild ==
    ASSUME OutInv, NEW n \in ControlLengths, Build(n), connected' \in BOOLEAN
    PROVE  OutInv'
<1>1. n \in Nat /\ offset \in Int /\ total \in Nat /\ unwritten \in Nat /\ abandoned \in BOOLEAN
      /\ offset <= HEADER + unwritten /\ (total # 0 => abandoned)
  BY OutboundAssumption DEF OutInv, OutTypeOK, FieldsKnown
<1>2. announced(total, n) \in Int /\ (total = 0 => announced(total, n) = n)
  BY <1>1 DEF announced, HEADER
<1>3. offset' \in Int /\ offset' <= offset
  BY <1>1, <1>2, MovedDown DEF Build
<1>4. FieldsKnown'
  <2>1. total' = total /\ abandoned' = abandoned /\ unwritten' = unwritten
    BY DEF Build
  <2> QED
    BY <1>1, <1>3, <2>1 DEF FieldsKnown, HEADER
<1>5. wire' \in Message /\ HeaderAnnouncesBody'
  <2>1. wire' = [announced |-> announced(total, n), follows |-> n,
                 total |-> total, stale |-> abandoned]
    BY DEF Build
  <2>2. wire' \in Message
    <3>1. \A a \in Int, f \in Int, t \in Nat, s \in BOOLEAN :
             [announced |-> a, follows |-> f, total |-> t, stale |-> s] \in Message
      BY DEF Message
    <3>2. n \in Int
      BY <1>1
    <3> QED
      BY <1>1, <1>2, <2>1, <3>1, <3>2, Zenon
  <2>3. wire'.stale = abandoned /\ wire'.announced = announced(total, n) /\ wire'.follows = n
    BY <2>1
  <2> QED
    BY <1>1, <1>2, <2>2, <2>3 DEF HeaderAnnouncesBody
<1>6. outbox' \in Seq(Message) /\ StoredWhole'
  BY DEF Build, OutInv, OutTypeOK, StoredWhole
<1> QED
  BY <1>1, <1>3, <1>4, <1>5, <1>6 DEF Build, OutInv, OutTypeOK

(* A message taken from the outbox.                                        *)
LEMMA InvResend ==
    ASSUME OutInv, Resend
    PROVE  OutInv'
<1>1. outbox \in Seq(Message) /\ outbox # <<>> /\ \A k \in DOMAIN outbox : Whole(outbox[k])
  BY DEF Resend, OutInv, OutTypeOK, StoredWhole, Whole
<1>2. Head(outbox) \in Message /\ Whole(Head(outbox))
      /\ Tail(outbox) \in Seq(Message)
      /\ \A k \in DOMAIN Tail(outbox) : Whole(Tail(outbox)[k])
  BY <1>1, HeadTailWhole
<1>3. HeaderAnnouncesBody' /\ StoredWhole'
  BY <1>2 DEF Resend, HeaderAnnouncesBody, StoredWhole, Whole
<1> QED
  BY <1>2, <1>3 DEF Resend, OutInv, OutTypeOK, FieldsKnown

(* Every step keeps the invariant.                                         *)
LEMMA InvNext ==
    ASSUME OutInv, [OutNext]_outVars
    PROVE  OutInv'
<1>1. ASSUME NEW h \in TopicLengths, NEW d \in Data, NEW qos \in 0..2, Publish(h, d, qos)
      PROVE  OutInv'
  BY <1>1, InvPublish
<1>2. ASSUME NEW h \in TopicLengths, NEW d \in Data, NEW stored \in BOOLEAN,
             Enqueue(h, d, stored)
      PROVE  OutInv'
  BY <1>2, InvEnqueue
<1>3. ASSUME NEW h \in TopicLengths, NEW d \in Data, EnqueueFails(h, d)
      PROVE  OutInv'
  <2>1. /\ Leaves(h, d) /\ total' = made_total(h, d)
        /\ abandoned' = (IF d = NULL THEN abandoned ELSE Fragmented(h, d))
        /\ UNCHANGED <<connected, outbox, wire>>
    BY <1>3 DEF EnqueueFails
  <2> QED
    BY <2>1, InvUnstored
<1>4. ASSUME NEW h \in TopicLengths, NEW d \in Data, Panic(h, d)
      PROVE  OutInv'
  BY <1>4, InvPanic
<1>5. ASSUME NEW n \in ControlLengths, Control(n)
      PROVE  OutInv'
  BY <1>5, InvBuild DEF Control, OutInv, OutTypeOK
<1>6. ASSUME NEW n \in ControlLengths, Connect(n)
      PROVE  OutInv'
  <2>1. connected' \in BOOLEAN
    BY <1>6, Zenon DEF Connect
  <2> QED
    BY <1>6, <2>1, InvBuild DEF Connect
<1>7. CASE Resend
  BY <1>7, InvResend
<1>8. CASE Disconnect
  <2>1. connected' \in BOOLEAN
    BY <1>8, Zenon DEF Disconnect
  <2> QED
    BY <1>8, <2>1 DEF Disconnect, OutInv, OutTypeOK, FieldsKnown, HeaderAnnouncesBody, StoredWhole
<1>9. CASE UNCHANGED outVars
  BY <1>9 DEF outVars, OutInv, OutTypeOK, FieldsKnown, HeaderAnnouncesBody, StoredWhole
<1> QED
  BY <1>1, <1>2, <1>3, <1>4, <1>5, <1>6, <1>7, <1>8, <1>9 DEF OutNext, OutStep

-----------------------------------------------------------------------------
(* Whatever the application publishes, enqueues, stores or fails to store, *)
(* for any buffer, topics, payloads and control messages: a header written *)
(* announces the bytes that follow it, except while a long message is      *)
(* abandoned or one of a longer topic was left unwritten.                  *)
THEOREM OutboundHeaderAnnouncesBody == OutSpec => []HeaderAnnouncesBody
<1>1. OutInit => OutInv
  BY InvInit
<1>2. OutInv /\ [OutNext]_outVars => OutInv'
  BY InvNext
<1>3. OutInv => HeaderAnnouncesBody
  BY DEF OutInv
<1> QED
  BY <1>1, <1>2, <1>3, PTL DEF OutSpec

(* So does every message that mqtt_enqueue has put into the outbox.        *)
THEOREM OutboundStoredWhole == OutSpec => []StoredWhole
<1>1. OutInit => OutInv
  BY InvInit
<1>2. OutInv /\ [OutNext]_outVars => OutInv'
  BY InvNext
<1>3. OutInv => StoredWhole
  BY DEF OutInv
<1> QED
  BY <1>1, <1>2, <1>3, PTL DEF OutSpec

-----------------------------------------------------------------------------
(* SensorCodec: pb_encode writes the fields that are not zero one after    *)
(* the other, and ParseFromString finds each where it was put.             *)

(* The weights of the 7-bit groups of a varint.                            *)
LEMMA Weights ==
    /\ Weight[1] = 1 /\ Weight[2] = 128 /\ Weight[3] = 16384
    /\ Weight[4] = 2097152 /\ Weight[5] = 268435456
BY SMT DEF Weight

(* A number is the sum of its 7-bit groups times their weights.            *)
LEMMA Digits ==
    ASSUME NEW n \in Nat
    PROVE  /\ n \div 1 = n /\ \A m \in {1, 128, 16384, 2097152, 268435456} : (n \div m) % 128 \in 0..127
           /\ n < 128 => n = (n \div 1) % 128
           /\ n < 16384 => n = (n % 128) + ((n \div 128) % 128) * 128
           /\ n < 2097152 => n = (n % 128) + ((n \div 128) % 128) * 128 + ((n \div 16384) % 128) * 16384
           /\ n < 268435456 => n = (n % 128) + ((n \div 128) % 128) * 128 + ((n \div 16384) % 128) * 16384
                                 + ((n \div 2097152) % 128) * 2097152
           /\ n \div 268435456 < 16 => n = (n % 128) + ((n \div 128) % 128) * 128 + ((n \div 16384) % 128) * 16384
                                 + ((n \div 2097152) % 128) * 2097152 + ((n \div 268435456) % 128) * 268435456
<1>1. n \div 1 = n
  BY SMT
<1>2. \A m \in {1, 128, 16384, 2097152, 268435456} : (n \div m) % 128 \in 0..127
  BY SMT
<1>3. n < 16384 => n = (n % 128) + ((n \div 128) % 128) * 128
  BY SMT
<1>4. n < 2097152 => n = (n % 128) + ((n \div 128) % 128) * 128 + ((n \div 16384) % 128) * 16384
  BY SMT
<1>5. n < 268435456 => n = (n % 128) + ((n \div 128) % 128) * 128 + ((n \div 16384) % 128) * 16384
                                 + ((n \div 2097152) % 128) * 2097152
  BY SMT
<1>6. n \div 268435456 < 16 => n = (n % 128) + ((n \div 128) % 128) * 128 + ((n \div 16384) % 128) * 16384
                                 + ((n \div 2097152) % 128) * 2097152 + ((n \div 268435456) % 128) * 268435456
  BY SMT
<1> QED
  BY SMT, <1>1, <1>2, <1>3, <1>4, <1>5, <1>6

(* pb_encode_varint writes as many groups as the number takes: one to      *)
(* five.                                                                   *)
LEMMA GroupsOf ==
    ASSUME NEW n \in Nat
    PROVE  /\ Groups(n) \in 1..5
           /\ Groups(n) < 5 => n < Weight[Groups(n) + 1]
           /\ Groups(n) > 1 => n >= Weight[Groups(n)]
<1>1. \E k \in 1..5 : (k < 5 => n < Weight[k + 1]) /\ (k > 1 => n >= Weight[k])
  <2>1. n < 128 \/ (n >= 128 /\ n < 16384) \/ (n >= 16384 /\ n < 2097152)
        \/ (n >= 2097152 /\ n < 268435456) \/ n >= 268435456
    BY SMT
  <2> DEFINE P(k) == (k < 5 => n < Weight[k + 1]) /\ (k > 1 => n >= Weight[k])
  <2>2. n < 128 => P(1)
    BY SMT, Weights
  <2>3. (n >= 128 /\ n < 16384) => P(2)
    BY SMT, Weights
  <2>4. (n >= 16384 /\ n < 2097152) => P(3)
    BY SMT, Weights
  <2>5. (n >= 2097152 /\ n < 268435456) => P(4)
    BY SMT, Weights
  <2>6. n >= 268435456 => P(5)
    BY SMT, Weights
  <2> HIDE DEF P
  <2>7. \E k \in 1..5 : P(k)
    BY SMT, <2>1, <2>2, <2>3, <2>4, <2>5, <2>6
  <2> QED
    BY SMT, <2>7 DEF P
<1> QED
  BY SMT, <1>1 DEF Groups


(* A group before the last has its top bit set, the last has not.          *)
LEMMA LengthRead ==
    ASSUME NEW b, NEW p \in Nat \ {0}, NEW G \in 1..5, NEW d \in [1..5 -> 0..127],
           \A i \in 1..G : b[p + i - 1] = d[i] + (IF i < G THEN 128 ELSE 0)
    PROVE  VarintLength(b, p) = G
<1> DEFINE P(k) == b[p + k - 1] < 128 /\ \A j \in 1..(k - 1) : b[p + j - 1] >= 128
<1>1. P(G)
  <2>1. b[p + G - 1] = d[G] /\ d[G] < 128
    OBVIOUS
  <2>2. ASSUME NEW j \in 1..(G - 1) PROVE b[p + j - 1] >= 128
    <3>1. j \in 1..G /\ j < G /\ d[j] \in Nat
      OBVIOUS
    <3>2. b[p + j - 1] = d[j] + 128
      BY <3>1
    <3> QED
      BY <3>1, <3>2
  <2> QED
    BY <2>1, <2>2
<1>2. ASSUME NEW k \in 1..5, P(k), k # G PROVE FALSE
  <2>1. CASE k < G
    <3>1. k \in 1..G /\ b[p + k - 1] = d[k] + 128 /\ d[k] \in Nat
      BY <2>1
    <3> QED
      BY <1>2, <3>1
  <2>2. CASE k > G
    <3>1. G \in 1..(k - 1) /\ b[p + G - 1] = d[G] /\ d[G] \in 0..127
      BY <2>2
    <3>2. b[p + G - 1] >= 128
      BY <1>2, <3>1
    <3> QED
      BY <3>1, <3>2
  <2> QED
    BY <1>2, <2>1, <2>2
<1>3. G = CHOOSE k \in 1..5 : P(k)
  <2> HIDE DEF P
  <2> QED
    BY <1>1, <1>2
<1> QED
  BY <1>3 DEF VarintLength

(* The parser adds up the groups it finds.                                 *)
LEMMA ValueRead ==
    ASSUME NEW b, NEW p \in Nat \ {0}, NEW G \in 1..5, NEW d \in [1..5 -> 0..127],
           VarintLength(b, p) = G,
           \A i \in 1..G : b[p + i - 1] = d[i] + (IF i < G THEN 128 ELSE 0)
    PROVE  LET h(i) == IF i <= G THEN d[i] * Weight[i] ELSE 0
           IN  VarintValue(b, p) = h(1) + h(2) + h(3) + h(4) + h(5)
<1>1. ASSUME NEW i \in 1..G PROVE b[p + i - 1] % 128 = d[i]
  <2>1. d[i] \in 0..127 /\ b[p + i - 1] \in {d[i], d[i] + 128}
    OBVIOUS
  <2>2. d[i] % 128 = d[i] /\ (d[i] + 128) % 128 = d[i]
    BY <2>1
  <2> QED
    BY <2>1, <2>2
<1>2. \A i \in 1..G : b[p + i - 1] % 128 = d[i]
  BY <1>1
<1> DEFINE h(i) == IF i <= G THEN d[i] * Weight[i] ELSE 0
           group(i) == IF i <= VarintLength(b, p) THEN (b[p + i - 1] % 128) * Weight[i] ELSE 0
<1>3. group(1) = h(1) /\ group(2) = h(2) /\ group(3) = h(3) /\ group(4) = h(4) /\ group(5) = h(5)
  BY <1>2
<1>4. VarintValue(b, p) = group(1) + group(2) + group(3) + group(4) + group(5)
  BY DEF VarintValue
<1> QED
  BY <1>3, <1>4

(* The groups pb_encode_varint writes of a uint32_t add up to it.          *)
LEMMA GroupsSum ==
    ASSUME NEW n \in uint32, NEW G \in 1..5, G < 5 => n < Weight[G + 1],
           NEW d \in [1..5 -> 0..127], \A i \in 1..5 : d[i] = (n \div Weight[i]) % 128
    PROVE  LET h(i) == IF i <= G THEN d[i] * Weight[i] ELSE 0
           IN  h(1) + h(2) + h(3) + h(4) + h(5) = n
<1> n \in Nat
  BY SMT DEF uint32
<1>1. /\ d[1] = n % 128 /\ d[2] = (n \div 128) % 128 /\ d[3] = (n \div 16384) % 128
      /\ d[4] = (n \div 2097152) % 128 /\ d[5] = (n \div 268435456) % 128
  <2>1. /\ d[1] = (n \div Weight[1]) % 128 /\ d[2] = (n \div Weight[2]) % 128
        /\ d[3] = (n \div Weight[3]) % 128 /\ d[4] = (n \div Weight[4]) % 128
        /\ d[5] = (n \div Weight[5]) % 128
    BY SMT
  <2>2. n \div 1 = n
    BY SMT, Digits
  <2> QED
    BY SMT, <2>1, <2>2, Weights
<1>2. CASE G = 1
  BY SMT, <1>1, <1>2, Weights, Digits
<1>3. CASE G = 2
  BY SMT, <1>1, <1>3, Weights, Digits
<1>4. CASE G = 3
  BY SMT, <1>1, <1>4, Weights, Digits
<1>5. CASE G = 4
  <2>1. n = (n % 128) + ((n \div 128) % 128) * 128 + ((n \div 16384) % 128) * 16384
            + ((n \div 2097152) % 128) * 2097152
    BY SMT, <1>5, Weights, Digits
  <2>2. n = d[1] + d[2] * 128 + d[3] * 16384 + d[4] * 2097152
    BY SMT, <1>1, <2>1
  <2> QED
    BY SMT, <1>5, <2>2, Weights
<1>6. CASE G = 5
  <2>1. n = (n % 128) + ((n \div 128) % 128) * 128 + ((n \div 16384) % 128) * 16384
            + ((n \div 2097152) % 128) * 2097152 + ((n \div 268435456) % 128) * 268435456
    BY SMT, Digits DEF uint32
  <2>2. n = d[1] + d[2] * 128 + d[3] * 16384 + d[4] * 2097152 + d[5] * 268435456
    BY SMT, <1>1, <2>1
  <2> QED
    BY SMT, <1>6, <2>2, Weights
<1> QED
  BY SMT, <1>2, <1>3, <1>4, <1>5, <1>6

(* A varint is read back as it was written, wherever it is.                *)
LEMMA VarintRead ==
    ASSUME NEW n \in uint32, NEW b, NEW p \in Nat \ {0},
           \A i \in 1..Groups(n) : b[p + i - 1] = pb_encode_varint(n)[i]
    PROVE  VarintLength(b, p) = Groups(n) /\ VarintValue(b, p) = n
<1> n \in Nat
  BY SMT DEF uint32
<1> DEFINE d == [i \in 1..5 |-> (n \div Weight[i]) % 128]
<1>1. Groups(n) \in 1..5 /\ (Groups(n) < 5 => n < Weight[Groups(n) + 1])
  BY SMT, GroupsOf
<1>2. d \in [1..5 -> 0..127] /\ \A i \in 1..5 : d[i] = (n \div Weight[i]) % 128
  <2>1. \A i \in 1..5 : (n \div Weight[i]) % 128 \in 0..127
    <3>1. \A i \in 1..5 : Weight[i] \in {1, 128, 16384, 2097152, 268435456}
      BY SMT, Weights
    <3>2. \A m \in {1, 128, 16384, 2097152, 268435456} : (n \div m) % 128 \in 0..127
      BY SMT, Digits
    <3> QED
      BY SMT, <3>1, <3>2
  <2> QED
    BY SMT, <2>1
<1>3. \A i \in 1..Groups(n) : b[p + i - 1] = d[i] + (IF i < Groups(n) THEN 128 ELSE 0)
  <2> SUFFICES ASSUME NEW i \in 1..Groups(n)
               PROVE  b[p + i - 1] = d[i] + (IF i < Groups(n) THEN 128 ELSE 0)
    BY SMT
  <2>1. i \in 1..5
    BY SMT, <1>1
  <2>2. pb_encode_varint(n)[i] = ((n \div Weight[i]) % 128) + (IF i < Groups(n) THEN 128 ELSE 0)
    BY SMT DEF pb_encode_varint
  <2> QED
    BY SMT, <2>1, <2>2
<1> HIDE DEF d
<1>4. VarintLength(b, p) = Groups(n)
  BY SMT, <1>1, <1>2, <1>3, LengthRead
<1> QED
  BY SMT, <1>1, <1>2, <1>3, <1>4, ValueRead, GroupsSum

(* The part of b that agrees with s is s.                                  *)
LEMMA SubSeqIs ==
    ASSUME NEW S, NEW b \in Seq(S), NEW s \in Seq(S), NEW q \in Nat \ {0},
           q + Len(s) - 1 <= Len(b), \A i \in 1..Len(s) : b[q + i - 1] = s[i]
    PROVE  SubSeq(b, q, q + Len(s) - 1) = s
<1> DEFINE c == SubSeq(b, q, q + Len(s) - 1)
<1>1. Len(s) \in Nat /\ s \in [1..Len(s) -> S]
  OBVIOUS
<1>2. Len(c) = Len(s) /\ c \in Seq(S) /\ \A i \in 1..Len(s) : c[i] = b[q + i - 1]
  BY <1>1, SubSeqProperties
<1> HIDE DEF c
<1>3. c = s
  BY <1>1, <1>2, SeqEqual
<1> QED
  BY <1>3 DEF c

(* A number below 128, a length or a small counter, is one byte.           *)
LEMMA Small ==
    ASSUME NEW n \in 0..127
    PROVE  n \in uint32 /\ Groups(n) = 1 /\ pb_encode_varint(n) = <<n>>
<1>1. Groups(n) = 1
  BY SMT, GroupsOf, Weights
<1>2. n \div 1 = n /\ n % 128 = n
  BY SMT
<1>3. pb_encode_varint(n) = [i \in 1..1 |-> n]
  BY SMT, <1>1, <1>2, Weights DEF pb_encode_varint
<1>4. n \in uint32
  BY SMT DEF uint32
<1> QED
  BY SMT, <1>1, <1>3, <1>4

(* A field of the message, wherever it is in the payload.                  *)
Holds(b, p, field) == /\ p + Len(field) - 1 <= Len(b)
                      /\ \A i \in 1..Len(field) : b[p + i - 1] = field[i]

(* A field at p is the part of the payload from p on.                      *)
LEMMA HoldsSubSeq ==
    ASSUME NEW S, NEW b \in Seq(S), NEW p \in Nat \ {0}, NEW s \in Seq(S), Holds(b, p, s)
    PROVE  SubSeq(b, p, p + Len(s) - 1) = s
BY SubSeqIs DEF Holds

(* One tag of one byte, and then the value.                                *)
LEMMA Concat1 ==
    ASSUME NEW S, NEW x \in S, NEW s \in Seq(S)
    PROVE  /\ Len(<<x>> \o s) = Len(s) + 1 /\ (<<x>> \o s)[1] = x
           /\ \A i \in 1..Len(s) : (<<x>> \o s)[i + 1] = s[i]
           /\ <<x>> \o s \in Seq(S)
OBVIOUS

(* pb_enc_string writes the tag, the length and the bytes.                 *)
LEMMA StringShape ==
    ASSUME NEW s \in Seq(Bytes), Len(s) \in 1..31
    PROVE  /\ StringField(1, s) \in Seq(Bytes) /\ Len(StringField(1, s)) = Len(s) + 2
           /\ StringField(1, s)[1] = 10 /\ StringField(1, s)[2] = Len(s)
           /\ \A i \in 1..Len(s) : StringField(1, s)[i + 2] = s[i]
<1>1. PICK n \in 1..31 : n = Len(s)
  OBVIOUS
<1>2. n \in 0..127 /\ n # 0 /\ n \in Bytes /\ 10 \in Bytes
  BY DEF Bytes
<1>3. pb_encode_varint(n) = <<n>>
  BY <1>2, Small
<1>4. StringField(1, s) = <<8 * 1 + 2>> \o <<n>> \o s
  BY <1>1, <1>2, <1>3, Zenon DEF StringField
<1>5. PICK f : f = <<10>> \o <<n>> \o s
  OBVIOUS
<1>6. StringField(1, s) = f
  BY <1>4, <1>5
<1>7. f \in Seq(Bytes) /\ Len(f) = Len(s) + 2 /\ f[1] = 10 /\ f[2] = n
      /\ \A i \in 1..Len(s) : f[i + 2] = s[i]
  BY <1>2, <1>5
<1> QED
  BY <1>1, <1>6, <1>7

(* A float that is not zero is its tag and its four bytes.                 *)
LEMMA FloatShape ==
    ASSUME NEW tag \in {2, 3}, NEW f \in Seq(Bytes), Len(f) = 4, f # <<0, 0, 0, 0>>
    PROVE  /\ FloatField(tag, f) \in Seq(Bytes) /\ Len(FloatField(tag, f)) = 5
           /\ tag = 2 => FloatField(tag, f)[1] = 21
           /\ tag = 3 => FloatField(tag, f)[1] = 29
           /\ \A i \in 1..4 : FloatField(tag, f)[i + 1] = f[i]
<1>1. PICK x \in Bytes : x = 8 * tag + 5
  BY DEF Bytes
<1>2. (tag = 2 => x = 21) /\ (tag = 3 => x = 29)
  BY <1>1
<1>3. PICK t : t = <<x>> \o f
  OBVIOUS
<1>4. FloatField(tag, f) = t
  BY <1>1, <1>3 DEF FloatField
<1>5. /\ t \in Seq(Bytes) /\ Len(t) = Len(f) + 1 /\ t[1] = x
      /\ \A i \in 1..Len(f) : t[i + 1] = f[i]
  BY <1>3, Concat1
<1>6. Len(t) = 5 /\ \A i \in 1..4 : t[i + 1] = f[i]
  BY <1>5
<1> QED
  BY <1>2, <1>4, <1>5, <1>6

(* A varint is a sequence of one to five bytes.                            *)
LEMMA EncodedVarint ==
    ASSUME NEW n \in uint32
    PROVE  /\ Groups(n) \in 1..5 /\ pb_encode_varint(n) \in Seq(Bytes)
           /\ Len(pb_encode_varint(n)) = Groups(n)
<1> n \in Nat
  BY SMT DEF uint32
<1>1. Groups(n) \in 1..5
  BY SMT, GroupsOf
<1>2. PICK G \in 1..5 : G = Groups(n)
  BY <1>1
<1>3. \A i \in 1..5 : Weight[i] \in {1, 128, 16384, 2097152, 268435456}
  BY SMT, Weights
<1>4. \A k \in {1, 128, 16384, 2097152, 268435456} : (n \div k) % 128 \in 0..127
  BY SMT, Digits
<1>5. \A i \in 1..5 : (n \div Weight[i]) % 128 \in 0..127
  BY SMT, <1>3, <1>4
<1>6. PICK d \in [1..5 -> 0..127] : \A i \in 1..5 : d[i] = (n \div Weight[i]) % 128
  <2> DEFINE e == [i \in 1..5 |-> (n \div Weight[i]) % 128]
  <2>1. e \in [1..5 -> 0..127] /\ \A i \in 1..5 : e[i] = (n \div Weight[i]) % 128
    BY SMT, <1>5
  <2> QED
    BY <2>1
<1>7. \A i \in 1..G : d[i] + (IF i < G THEN 128 ELSE 0) \in Bytes
  BY DEF Bytes
<1>8. pb_encode_varint(n) = [i \in 1..G |-> d[i] + (IF i < G THEN 128 ELSE 0)]
  BY <1>2, <1>6 DEF pb_encode_varint
<1> QED
  BY <1>2, <1>7, <1>8

(* A counter that is not zero is its tag and a varint.                     *)
LEMMA UptimeShape ==
    ASSUME NEW n \in uint32, n # 0
    PROVE  /\ VarintField(4, n) \in Seq(Bytes) /\ Len(VarintField(4, n)) = Groups(n) + 1
           /\ VarintField(4, n)[1] = 32
           /\ \A i \in 1..Groups(n) : VarintField(4, n)[i + 1] = pb_encode_varint(n)[i]
<1>1. PICK e \in Seq(Bytes) : e = pb_encode_varint(n)
  BY EncodedVarint
<1>2. Len(e) = Groups(n) /\ 32 \in Bytes
  BY <1>1, EncodedVarint DEF Bytes
<1>3. PICK t : t = <<32>> \o e
  OBVIOUS
<1>4. VarintField(4, n) = t
  BY <1>1, <1>3 DEF VarintField
<1>5. /\ t \in Seq(Bytes) /\ Len(t) = Len(e) + 1 /\ t[1] = 32
      /\ \A i \in 1..Len(e) : t[i + 1] = e[i]
  BY <1>2, <1>3, Concat1
<1> QED
  BY <1>1, <1>2, <1>4, <1>5

(* The four tags of the schema are told apart.                             *)
LEMMA FieldOf ==
    ASSUME NEW b, NEW p \in Nat \ {0}, NEW m
    PROVE  /\ b[p] = 10 => Field(b, p, m) = Text(b, p, m)
           /\ b[p] = 21 => Field(b, p, m) = Temperature(b, p, m)
           /\ b[p] = 29 => Field(b, p, m) = Humidity(b, p, m)
           /\ b[p] = 32 => Field(b, p, m) = Uptime(b, p, m)
BY SMT DEF Field

(* The parser reads a field, or is at the end of the payload.              *)
LEMMA NextFieldOf ==
    ASSUME NEW b, NEW p, NEW m
    PROVE  /\ ~(p > Len(b)) => NextField(b, <<m, p>>) = Field(b, p, m)
           /\ p > Len(b) => NextField(b, <<m, p>>) = <<m, p>>
BY DEF NextField

(* A reading, and the four fields read one after the other.                *)
Reading(id, t, h, u) == [device_id |-> id, temperature |-> t, humidity |-> h, uptime_ms |-> u]
Zero == <<0, 0, 0, 0>>

(* What the reader finds at p.                                             *)
TextAt(b, p, s) == /\ b[p] = 10 /\ ~(p > Len(b))
                   /\ b[p + 1] = Len(s) /\ Len(s) \in 1..31
                   /\ SubSeq(b, p + 2, p + 2 + Len(s) - 1) = s
TemperatureAt(b, p, x) == b[p] = 21 /\ ~(p > Len(b)) /\ SubSeq(b, p + 1, p + 4) = x
HumidityAt(b, p, x) == b[p] = 29 /\ ~(p > Len(b)) /\ SubSeq(b, p + 1, p + 4) = x
UptimeAt(b, p, n) == /\ b[p] = 32 /\ ~(p > Len(b))
                     /\ \A i \in 1..Groups(n) : b[(p + 1) + i - 1] = pb_encode_varint(n)[i]

(* Reading the identifier changes the identifier only.                     *)
LEMMA TextRead ==
    ASSUME NEW b, NEW p \in Nat \ {0}, NEW s, TextAt(b, p, s), NEW id, NEW t, NEW h, NEW u
    PROVE  NextField(b, <<Reading(id, t, h, u), p>>) = <<Reading(s, t, h, u), p + Len(s) + 2>>
<1> DEFINE m == Reading(id, t, h, u)
<1>1. PICK n \in 1..31 : n = Len(s)
  BY DEF TextAt
<1>2. b[p] = 10 /\ b[p + 1] = n /\ ~(p > Len(b)) /\ SubSeq(b, p + 2, p + 2 + n - 1) = s
  BY <1>1 DEF TextAt
<1>3. n \in 0..127 /\ p + 1 \in Nat \ {0}
  OBVIOUS
<1>4. n \in uint32 /\ Groups(n) = 1 /\ pb_encode_varint(n) = <<n>>
  BY <1>3, Small
<1>5. VarintLength(b, p + 1) = 1 /\ VarintValue(b, p + 1) = n
  <2>1. (p + 1) + 1 - 1 = p + 1 /\ 1..1 = {1} /\ <<n>>[1] = n
    OBVIOUS
  <2>2. \A i \in 1..Groups(n) : b[(p + 1) + i - 1] = pb_encode_varint(n)[i]
    BY <1>2, <1>4, <2>1, Zenon
  <2> QED
    BY <1>3, <1>4, <2>2, VarintRead
<1> HIDE DEF m
<1>6. Text(b, p, m) = <<[m EXCEPT !.device_id = s], p + n + 2>>
  <2>1. Text(b, p, m) = <<[m EXCEPT !.device_id = SubSeq(b, p + 1 + 1, p + 1 + 1 + n - 1)], p + 1 + 1 + n>>
    BY <1>5 DEF Text
  <2>2. p + 1 + 1 = p + 2 /\ p + 1 + 1 + n = p + n + 2
    OBVIOUS
  <2> QED
    BY <1>2, <2>1, <2>2
<1>7. NextField(b, <<m, p>>) = Field(b, p, m)
  BY <1>2, NextFieldOf
<1>8. Field(b, p, m) = Text(b, p, m)
  BY <1>2, FieldOf
<1>9. [m EXCEPT !.device_id = s] = Reading(s, t, h, u)
  BY DEF m, Reading
<1>10. NextField(b, <<m, p>>) = <<Reading(s, t, h, u), p + n + 2>>
  BY <1>6, <1>7, <1>8, <1>9
<1> QED
  BY <1>1, <1>10 DEF m

(* Reading the temperature changes the temperature only.                   *)
LEMMA TemperatureRead ==
    ASSUME NEW b, NEW p \in Nat \ {0}, NEW x, TemperatureAt(b, p, x), NEW id, NEW t, NEW h, NEW u
    PROVE  NextField(b, <<Reading(id, t, h, u), p>>) = <<Reading(id, x, h, u), p + 5>>
<1> DEFINE m == Reading(id, t, h, u)
<1>1. b[p] = 21 /\ ~(p > Len(b)) /\ SubSeq(b, p + 1, p + 4) = x
  BY DEF TemperatureAt
<1> HIDE DEF m
<1>2. Temperature(b, p, m) = <<[m EXCEPT !.temperature = x], p + 5>>
  BY <1>1 DEF Temperature
<1>3. NextField(b, <<m, p>>) = Field(b, p, m)
  BY <1>1, NextFieldOf
<1>4. Field(b, p, m) = Temperature(b, p, m)
  BY <1>1, FieldOf
<1>5. [m EXCEPT !.temperature = x] = Reading(id, x, h, u)
  BY DEF m, Reading
<1>6. NextField(b, <<m, p>>) = <<Reading(id, x, h, u), p + 5>>
  BY <1>2, <1>3, <1>4, <1>5
<1> QED
  BY <1>6 DEF m

(* Reading the humidity changes the humidity only.                         *)
LEMMA HumidityRead ==
    ASSUME NEW b, NEW p \in Nat \ {0}, NEW x, HumidityAt(b, p, x), NEW id, NEW t, NEW h, NEW u
    PROVE  NextField(b, <<Reading(id, t, h, u), p>>) = <<Reading(id, t, x, u), p + 5>>
<1> DEFINE m == Reading(id, t, h, u)
<1>1. b[p] = 29 /\ ~(p > Len(b)) /\ SubSeq(b, p + 1, p + 4) = x
  BY DEF HumidityAt
<1> HIDE DEF m
<1>2. Humidity(b, p, m) = <<[m EXCEPT !.humidity = x], p + 5>>
  BY <1>1 DEF Humidity
<1>3. NextField(b, <<m, p>>) = Field(b, p, m)
  BY <1>1, NextFieldOf
<1>4. Field(b, p, m) = Humidity(b, p, m)
  BY <1>1, FieldOf
<1>5. [m EXCEPT !.humidity = x] = Reading(id, t, x, u)
  BY DEF m, Reading
<1>6. NextField(b, <<m, p>>) = <<Reading(id, t, x, u), p + 5>>
  BY <1>2, <1>3, <1>4, <1>5
<1> QED
  BY <1>6 DEF m

(* Reading the uptime changes the uptime only.                             *)
LEMMA UptimeRead ==
    ASSUME NEW b, NEW p \in Nat \ {0}, NEW n \in uint32, UptimeAt(b, p, n), NEW id, NEW t, NEW h, NEW u
    PROVE  NextField(b, <<Reading(id, t, h, u), p>>) = <<Reading(id, t, h, n), p + Groups(n) + 1>>
<1> DEFINE m == Reading(id, t, h, u)
<1>1. PICK G \in 1..5 : G = Groups(n)
  BY EncodedVarint
<1>2. b[p] = 32 /\ ~(p > Len(b))
  BY DEF UptimeAt
<1>3. VarintLength(b, p + 1) = G /\ VarintValue(b, p + 1) = n
  <2>1. \A i \in 1..Groups(n) : b[(p + 1) + i - 1] = pb_encode_varint(n)[i]
    BY Zenon DEF UptimeAt
  <2>2. p + 1 \in Nat \ {0}
    OBVIOUS
  <2> QED
    BY <1>1, <2>1, <2>2, VarintRead
<1> HIDE DEF m
<1>4. Uptime(b, p, m) = <<[m EXCEPT !.uptime_ms = n], p + 1 + G>>
  BY <1>3 DEF Uptime
<1>5. p + 1 + G = p + G + 1
  OBVIOUS
<1>6. NextField(b, <<m, p>>) = Field(b, p, m)
  BY <1>2, NextFieldOf
<1>7. Field(b, p, m) = Uptime(b, p, m)
  BY <1>2, FieldOf
<1>8. [m EXCEPT !.uptime_ms = n] = Reading(id, t, h, n)
  BY DEF m, Reading
<1>9. NextField(b, <<m, p>>) = <<Reading(id, t, h, n), p + G + 1>>
  BY <1>4, <1>5, <1>6, <1>7, <1>8
<1> QED
  BY <1>1, <1>9 DEF m

(* What follows a payload does not move its fields.                        *)
LEMMA HoldsLeft ==
    ASSUME NEW S, NEW a \in Seq(S), NEW c \in Seq(S), NEW p \in Nat \ {0}, NEW x \in Seq(S), Holds(a, p, x)
    PROVE  Holds(a \o c, p, x)
<1>1. PICK d : d = a \o c
  OBVIOUS
<1>2. Len(d) = Len(a) + Len(c) /\ (\A i \in 1..Len(a) : d[i] = a[i]) /\ Len(a) \in Nat /\ Len(c) \in Nat
      /\ Len(x) \in Nat
  BY <1>1
<1>3. p + Len(x) - 1 <= Len(d)
  BY <1>2 DEF Holds
<1>4. ASSUME NEW i \in 1..Len(x) PROVE d[p + i - 1] = x[i]
  <2>1. p + i - 1 \in 1..Len(a) /\ a[p + i - 1] = x[i]
    BY <1>2 DEF Holds
  <2> QED
    BY <1>2, <2>1
<1>5. Holds(d, p, x)
  BY <1>3, <1>4 DEF Holds
<1> QED
  BY <1>1, <1>5

(* A field appended to a payload begins where it ended.                    *)
LEMMA HoldsRight ==
    ASSUME NEW S, NEW a \in Seq(S), NEW c \in Seq(S)
    PROVE  Holds(a \o c, Len(a) + 1, c)
<1>1. PICK d : d = a \o c
  OBVIOUS
<1>2. Len(d) = Len(a) + Len(c) /\ (\A i \in 1..Len(c) : d[Len(a) + i] = c[i]) /\ Len(a) \in Nat /\ Len(c) \in Nat
  BY <1>1
<1>3. \A i \in 1..Len(c) : d[(Len(a) + 1) + i - 1] = c[i]
  BY <1>2
<1>4. Holds(d, Len(a) + 1, c)
  BY <1>2, <1>3 DEF Holds
<1> QED
  BY <1>1, <1>4

(* A payload of four parts.                                                *)
LEMMA Parts ==
    ASSUME NEW f1 \in Seq(Bytes), NEW f2 \in Seq(Bytes), NEW f3 \in Seq(Bytes), NEW f4 \in Seq(Bytes)
    PROVE  LET b == f1 \o f2 \o f3 \o f4 IN
           /\ b \in Seq(Bytes) /\ Len(b) = Len(f1) + Len(f2) + Len(f3) + Len(f4)
           /\ Holds(b, 1, f1) /\ Holds(b, Len(f1) + 1, f2)
           /\ Holds(b, Len(f1) + Len(f2) + 1, f3) /\ Holds(b, Len(f1) + Len(f2) + Len(f3) + 1, f4)
<1> DEFINE b == f1 \o f2 \o f3 \o f4
<1> HIDE DEF b
<1>1. PICK b2 \in Seq(Bytes) : b2 = f1 \o f2
  BY ConcatProperties, Zenon
<1>2. Len(b2) = Len(f1) + Len(f2)
  BY <1>1
<1>3. PICK b3 \in Seq(Bytes) : b3 = b2 \o f3
  BY ConcatProperties, Zenon
<1>4. Len(b3) = Len(b2) + Len(f3)
  BY <1>3
<1>5. b = b3 \o f4
  BY <1>1, <1>3 DEF b
<1>6. b \in Seq(Bytes) /\ Len(b) = Len(b3) + Len(f4)
  BY <1>5
<1>7. /\ Len(f1) \in Nat /\ Len(f2) \in Nat /\ Len(f3) \in Nat
      /\ Len(f1) + 1 \in Nat \ {0} /\ Len(b2) + 1 \in Nat \ {0} /\ 1 \in Nat \ {0}
  <2>1. Len(f1) \in Nat /\ Len(f2) \in Nat /\ Len(f3) \in Nat /\ Len(b2) \in Nat
    BY LenProperties, Zenon
  <2> QED
    BY <2>1
<1>8. Holds(b2, Len(f1) + 1, f2) /\ Holds(b3, Len(b2) + 1, f3) /\ Holds(b, Len(b3) + 1, f4)
  BY <1>1, <1>3, <1>5, HoldsRight
<1>9. Holds(f1, 1, f1)
  BY <1>7 DEF Holds
<1>10. Holds(b2, 1, f1)
  BY <1>1, <1>7, <1>9, HoldsLeft
<1>11. Holds(b3, 1, f1)
  BY <1>3, <1>7, <1>10, HoldsLeft
<1>12. Holds(b3, Len(f1) + 1, f2)
  BY <1>3, <1>7, <1>8, HoldsLeft
<1>13. Holds(b, 1, f1)
  BY <1>5, <1>7, <1>11, HoldsLeft
<1>14. Holds(b, Len(f1) + 1, f2)
  BY <1>5, <1>7, <1>12, HoldsLeft
<1>15. Holds(b, Len(b2) + 1, f3)
  BY <1>5, <1>7, <1>8, HoldsLeft
<1> QED
  BY <1>2, <1>4, <1>6, <1>7, <1>8, <1>13, <1>14, <1>15 DEF b

(* Four applications pass the fields there are, however few.               *)
LEMMA FourFields ==
    ASSUME NEW b, NEW s0, NEW s1, NEW s2, NEW s3, NEW s4,
           s1 = s0 \/ NextField(b, s0) = s1, s2 = s1 \/ NextField(b, s1) = s2,
           s3 = s2 \/ NextField(b, s2) = s3, s4 = s3 \/ NextField(b, s3) = s4, NextField(b, s4) = s4
    PROVE  NextField(b, NextField(b, NextField(b, NextField(b, s0)))) = s4
OBVIOUS

(* A field left out takes no bytes.                                        *)
LEMMA NoBytes == <<>> \in Seq(Bytes) /\ Len(<<>>) = 0
OBVIOUS

(* An encoded identifier is found by the parser.                           *)
LEMMA TextHeld ==
    ASSUME NEW s, NEW f, NEW b, NEW p \in Nat \ {0}, Len(b) \in Nat, Len(s) \in 1..31,
           Len(f) = Len(s) + 2, f[1] = 10, f[2] = Len(s), Holds(b, p, f),
           SubSeq(b, p + 2, p + 2 + Len(s) - 1) = s
    PROVE  TextAt(b, p, s)
<1>1. PICK n \in 1..31 : n = Len(s)
  OBVIOUS
<1>2. Len(f) = n + 2 /\ f[2] = n
  BY <1>1
<1>3. b[p] = 10 /\ ~(p > Len(b)) /\ b[p + 1] = n
  BY <1>2 DEF Holds
<1> QED
  BY <1>1, <1>3, Zenon DEF TextAt

(* The identifier is left out when empty, and found otherwise.             *)
LEMMA IdStep ==
    ASSUME NEW id \in Seq(Bytes), Len(id) <= 31, NEW f, f = StringField(1, id)
    PROVE  /\ f \in Seq(Bytes) /\ Len(f) <= 33
           /\ \/ id = <<>> /\ Len(f) = 0
              \/ Len(f) = Len(id) + 2 /\ \A b \in Seq(Bytes), p \in Nat \ {0} : Holds(b, p, f) => TextAt(b, p, id)
<1>1. CASE Len(id) = 0
  <2>1. f = <<>> /\ id = <<>>
    BY <1>1, EmptySeq, Zenon DEF StringField
  <2>2. f \in Seq(Bytes) /\ Len(f) = 0
    BY <2>1, NoBytes, Zenon
  <2> QED
    BY <2>1, <2>2
<1>2. CASE Len(id) # 0
  <2>1. Len(id) \in 1..31
    <3>1. Len(id) \in Nat
      BY LenProperties, Zenon
    <3>2. \A k \in Nat : k <= 31 /\ k # 0 => k \in 1..31
      OBVIOUS
    <3> QED
      BY <1>2, <3>1, <3>2, Zenon
  <2>2. f \in Seq(Bytes) /\ Len(f) = Len(id) + 2 /\ f[1] = 10 /\ f[2] = Len(id)
        /\ \A i \in 1..Len(id) : f[i + 2] = id[i]
    BY <2>1, StringShape, Zenon
  <2>3. ASSUME NEW b \in Seq(Bytes), NEW p \in Nat \ {0}, Holds(b, p, f)
        PROVE  TextAt(b, p, id)
    <3>1. Holds(b, p + 2, id)
      BY <2>1, <2>2, <2>3 DEF Holds
    <3>2. p + 2 \in Nat \ {0} /\ Len(b) \in Nat
      OBVIOUS
    <3>3. SubSeq(b, p + 2, p + 2 + Len(id) - 1) = id
      BY <3>1, <3>2, HoldsSubSeq, Zenon
    <3> QED
      BY <2>1, <2>2, <2>3, <3>2, <3>3, TextHeld, Zenon
  <2>4. \A k \in 1..31 : k + 2 <= 33
    OBVIOUS
  <2> QED
    BY <2>1, <2>2, <2>3, <2>4, Zenon
<1> QED
  BY <1>1, <1>2

(* An encoded float is found by the parser.                                *)
LEMMA FloatHeld ==
    ASSUME NEW x, NEW f, NEW b, NEW p \in Nat \ {0}, Len(b) \in Nat,
           Len(f) = 5, Holds(b, p, f), SubSeq(b, p + 1, p + 4) = x
    PROVE  (f[1] = 21 => TemperatureAt(b, p, x)) /\ (f[1] = 29 => HumidityAt(b, p, x))
BY DEF TemperatureAt, HumidityAt, Holds

(* A float is left out when it is zero, and found otherwise.               *)
LEMMA FloatStep ==
    ASSUME NEW x \in Seq(Bytes), Len(x) = 4, NEW tag \in {2, 3}, NEW f, f = FloatField(tag, x)
    PROVE  /\ f \in Seq(Bytes)
           /\ \/ x = Zero /\ Len(f) = 0
              \/ Len(f) = 5 /\ \A b \in Seq(Bytes), p \in Nat \ {0} : Holds(b, p, f) =>
                     (tag = 2 => TemperatureAt(b, p, x)) /\ (tag = 3 => HumidityAt(b, p, x))
<1>1. CASE x = Zero
  <2>1. f = <<>>
    BY <1>1 DEF FloatField, Zero
  <2> QED
    BY <1>1, <2>1, NoBytes, Zenon
<1>2. CASE x # Zero
  <2>1. /\ f \in Seq(Bytes) /\ Len(f) = 5
        /\ tag = 2 => f[1] = 21
        /\ tag = 3 => f[1] = 29
        /\ \A i \in 1..4 : f[i + 1] = x[i]
    BY <1>2, FloatShape, Zenon DEF Zero
  <2>3. ASSUME NEW b \in Seq(Bytes), NEW p \in Nat \ {0}, Holds(b, p, f)
        PROVE  (tag = 2 => TemperatureAt(b, p, x)) /\ (tag = 3 => HumidityAt(b, p, x))
    <3>1. Holds(b, p + 1, x)
      BY <2>1, <2>3 DEF Holds
    <3>2. p + 1 \in Nat \ {0} /\ Len(b) \in Nat
      OBVIOUS
    <3>3. SubSeq(b, p + 1, p + 1 + Len(x) - 1) = x
      BY <3>1, <3>2, HoldsSubSeq, Zenon
    <3>4. p + 1 + Len(x) - 1 = p + 4
      OBVIOUS
    <3>5. SubSeq(b, p + 1, p + 4) = x
      BY <3>3, <3>4
    <3> QED
      BY <2>1, <2>3, <3>2, <3>5, FloatHeld, Zenon
  <2> QED
    BY <2>1, <2>3, Zenon
<1> QED
  BY <1>1, <1>2

(* The uptime is left out when it is zero, and found otherwise.            *)
LEMMA UptimeStep ==
    ASSUME NEW u \in uint32, NEW f, f = VarintField(4, u)
    PROVE  /\ f \in Seq(Bytes) /\ Len(f) <= 6
           /\ \/ u = 0 /\ Len(f) = 0
              \/ Len(f) = Groups(u) + 1 /\ \A b \in Seq(Bytes), p \in Nat \ {0} : Holds(b, p, f) => UptimeAt(b, p, u)
<1>1. CASE u = 0
  <2>1. f = <<>>
    BY <1>1 DEF VarintField
  <2>2. f \in Seq(Bytes) /\ Len(f) = 0
    BY <2>1, NoBytes, Zenon
  <2> QED
    BY <1>1, <2>2
<1>2. CASE u # 0
  <2>1. /\ f \in Seq(Bytes) /\ Len(f) = Groups(u) + 1 /\ f[1] = 32
        /\ \A i \in 1..Groups(u) : f[i + 1] = pb_encode_varint(u)[i]
    BY <1>2, UptimeShape, Zenon
  <2>2. Groups(u) \in 1..5
    BY EncodedVarint
  <2>3. ASSUME NEW b \in Seq(Bytes), NEW p \in Nat \ {0}, Holds(b, p, f)
        PROVE  UptimeAt(b, p, u)
    <3>1. Len(b) \in Nat
      OBVIOUS
    <3>2. b[p] = 32 /\ ~(p > Len(b)) /\ \A i \in 1..Groups(u) : b[(p + 1) + i - 1] = pb_encode_varint(u)[i]
      <4>1. PICK G \in 1..5 : G = Groups(u)
        BY <2>2
      <4>2. PICK e : e = pb_encode_varint(u)
        OBVIOUS
      <4>3. Len(f) = G + 1 /\ f[1] = 32 /\ \A i \in 1..G : f[i + 1] = e[i]
        BY <2>1, <4>1, <4>2
      <4>4. b[p] = 32 /\ ~(p > Len(b)) /\ \A i \in 1..G : b[(p + 1) + i - 1] = e[i]
        <5>1. Len(f) \in Nat /\ (\A i \in 1..Len(f) : b[p + i - 1] = f[i]) /\ p + Len(f) - 1 <= Len(b)
          BY <2>3, <4>3 DEF Holds
        <5>2. b[p] = 32 /\ ~(p > Len(b))
          BY <3>1, <4>3, <5>1
        <5>3. ASSUME NEW i \in 1..G PROVE b[(p + 1) + i - 1] = e[i]
          <6>1. i + 1 \in 1..Len(f) /\ p + (i + 1) - 1 = (p + 1) + i - 1
            BY <4>3
          <6>2. b[p + (i + 1) - 1] = f[i + 1]
            BY <5>1, <6>1
          <6> QED
            BY <4>3, <6>1, <6>2
        <5> QED
          BY <5>2, <5>3
      <4> QED
        BY <4>1, <4>2, <4>4
    <3> QED
      BY <3>2 DEF UptimeAt
  <2>4. \A k \in 1..5 : k + 1 <= 6
    OBVIOUS
  <2> QED
    BY <2>1, <2>2, <2>3, <2>4, Zenon
<1> QED
  BY <1>1, <1>2

(* b is made of the fields of a reading that are not left out, of the      *)
(* given lengths and from the given positions on.                          *)
Layout(b, id, t, h, u, n1, n2, n3, n4, p2, p3, p4) ==
    /\ Len(b) = n1 + n2 + n3 + n4
    /\ p2 = n1 + 1 /\ p3 = n1 + n2 + 1 /\ p4 = n1 + n2 + n3 + 1
    /\ (id = <<>> /\ n1 = 0) \/ (n1 = Len(id) + 2 /\ Len(id) \in Nat /\ TextAt(b, 1, id))
    /\ (t = Zero /\ n2 = 0) \/ (n2 = 5 /\ TemperatureAt(b, p2, t))
    /\ (h = Zero /\ n3 = 0) \/ (n3 = 5 /\ HumidityAt(b, p3, h))
    /\ (u = 0 /\ n4 = 0) \/ (n4 = Groups(u) + 1 /\ UptimeAt(b, p4, u))

(* The reader passes the fields there are, and leaves the others at their  *)
(* defaults.                                                               *)
LEMMA FieldsRead ==
    ASSUME NEW b, NEW id, NEW t, NEW h, NEW u \in uint32,
           NEW n1 \in Nat, NEW n2 \in Nat, NEW n3 \in Nat, NEW n4 \in Nat,
           NEW p2 \in Nat \ {0}, NEW p3 \in Nat \ {0}, NEW p4 \in Nat \ {0},
           Layout(b, id, t, h, u, n1, n2, n3, n4, p2, p3, p4)
    PROVE  Parsed(b) = Reading(id, t, h, u)
<1>0. /\ Len(b) = n1 + n2 + n3 + n4
      /\ p2 = n1 + 1 /\ p3 = n1 + n2 + 1 /\ p4 = n1 + n2 + n3 + 1
      /\ (id = <<>> /\ n1 = 0) \/ (n1 = Len(id) + 2 /\ Len(id) \in Nat /\ TextAt(b, 1, id))
      /\ (t = Zero /\ n2 = 0) \/ (n2 = 5 /\ TemperatureAt(b, p2, t))
      /\ (h = Zero /\ n3 = 0) \/ (n3 = 5 /\ HumidityAt(b, p3, h))
      /\ (u = 0 /\ n4 = 0) \/ (n4 = Groups(u) + 1 /\ UptimeAt(b, p4, u))
  BY Zenon DEF Layout
<1>1. PICK p5 \in Nat \ {0} : p5 = n1 + n2 + n3 + n4 + 1
  OBVIOUS
<1> DEFINE s0 == <<Reading(<<>>, Zero, Zero, 0), 1>>
           s1 == <<Reading(id, Zero, Zero, 0), p2>>
           s2 == <<Reading(id, t, Zero, 0), p3>>
           s3 == <<Reading(id, t, h, 0), p4>>
           s4 == <<Reading(id, t, h, u), p5>>
<1>2. s1 = s0 \/ NextField(b, s0) = s1
  <2>1. CASE id = <<>> /\ n1 = 0
    BY <1>0, <2>1
  <2>2. CASE n1 = Len(id) + 2 /\ Len(id) \in Nat /\ TextAt(b, 1, id)
    <3>1. PICK p \in Nat \ {0} : p = 1
      OBVIOUS
    <3>2. TextAt(b, p, id)
      BY <2>2, <3>1
    <3>3. NextField(b, <<Reading(<<>>, Zero, Zero, 0), p>>) = <<Reading(id, Zero, Zero, 0), p + Len(id) + 2>>
      <4>1. \A e, z, n : NextField(b, <<Reading(e, z, z, n), p>>) = <<Reading(id, z, z, n), p + Len(id) + 2>>
        BY <3>2, TextRead
      <4> QED
        BY <4>1, Zenon
    <3>4. p + Len(id) + 2 = p2
      BY <1>0, <2>2, <3>1
    <3> QED
      BY <3>1, <3>3, <3>4
  <2> QED
    BY <1>0, <2>1, <2>2
<1>3. s2 = s1 \/ NextField(b, s1) = s2
  <2>1. CASE t = Zero /\ n2 = 0
    BY <1>0, <2>1
  <2>2. CASE n2 = 5 /\ TemperatureAt(b, p2, t)
    <3>1. NextField(b, s1) = <<Reading(id, t, Zero, 0), p2 + 5>>
      BY <2>2, TemperatureRead
    <3>2. p2 + 5 = p3
      BY <1>0, <2>2
    <3> QED
      BY <3>1, <3>2
  <2> QED
    BY <1>0, <2>1, <2>2
<1>4. s3 = s2 \/ NextField(b, s2) = s3
  <2>1. CASE h = Zero /\ n3 = 0
    BY <1>0, <2>1
  <2>2. CASE n3 = 5 /\ HumidityAt(b, p3, h)
    <3>1. NextField(b, s2) = <<Reading(id, t, h, 0), p3 + 5>>
      BY <2>2, HumidityRead
    <3>2. p3 + 5 = p4
      BY <1>0, <2>2
    <3> QED
      BY <3>1, <3>2
  <2> QED
    BY <1>0, <2>1, <2>2
<1>5. s4 = s3 \/ NextField(b, s3) = s4
  <2>1. CASE u = 0 /\ n4 = 0
    BY <1>0, <1>1, <2>1
  <2>2. CASE n4 = Groups(u) + 1 /\ UptimeAt(b, p4, u)
    <3>1. NextField(b, s3) = <<Reading(id, t, h, u), p4 + Groups(u) + 1>>
      BY <2>2, UptimeRead
    <3>2. PICK G \in 1..5 : G = Groups(u)
      BY EncodedVarint
    <3>3. p4 + G + 1 = p5
      BY <1>0, <1>1, <2>2, <3>2
    <3> QED
      BY <3>1, <3>2, <3>3
  <2> QED
    BY <1>0, <2>1, <2>2
<1>6. NextField(b, s4) = s4
  <2>1. p5 > Len(b)
    BY <1>0, <1>1
  <2> QED
    BY <2>1, NextFieldOf
<1>7. NextField(b, NextField(b, NextField(b, NextField(b, s0)))) = s4
  <2> HIDE DEF s0, s1, s2, s3, s4
  <2> QED
    BY <1>2, <1>3, <1>4, <1>5, <1>6, FourFields
<1>8. s0 = <<Defaults, 1>>
  BY DEF Defaults, Reading, Zero
<1>9. Parsed(b) = s4[1]
  <2> HIDE DEF s0, s4
  <2> QED
    BY <1>7, <1>8, Zenon DEF Parsed
<1> QED
  BY <1>9

(* ParseFromString reads what pb_encode wrote, field by field.             *)
LEMMA EncodedIsParsed ==
    ASSUME NEW id \in Seq(Bytes), Len(id) <= 31, NEW t \in Seq(Bytes), Len(t) = 4,
           NEW h \in Seq(Bytes), Len(h) = 4, NEW u \in uint32
    PROVE  LET b == pb_encode(Reading(id, t, h, u))
           IN  Len(b) \in 0..BUFFER_SIZE /\ Parsed(b) = Reading(id, t, h, u)
<1>1. PICK f1 : f1 = StringField(1, id)
  OBVIOUS
<1>2. PICK f2 : f2 = FloatField(2, t)
  OBVIOUS
<1>3. PICK f3 : f3 = FloatField(3, h)
  OBVIOUS
<1>4. PICK f4 : f4 = VarintField(4, u)
  OBVIOUS
<1>5. PICK b : b = f1 \o f2 \o f3 \o f4
  OBVIOUS
<1>6. pb_encode(Reading(id, t, h, u)) = b
  BY <1>1, <1>2, <1>3, <1>4, <1>5, Zenon DEF pb_encode, Reading
<1>7. /\ f1 \in Seq(Bytes) /\ Len(f1) <= 33
      /\ \/ id = <<>> /\ Len(f1) = 0
         \/ Len(f1) = Len(id) + 2 /\ \A c \in Seq(Bytes), p \in Nat \ {0} : Holds(c, p, f1) => TextAt(c, p, id)
  BY <1>1, IdStep, Zenon
<1>8. /\ f2 \in Seq(Bytes)
      /\ \/ t = Zero /\ Len(f2) = 0
         \/ Len(f2) = 5 /\ \A c \in Seq(Bytes), p \in Nat \ {0} : Holds(c, p, f2) => TemperatureAt(c, p, t)
  <2>1. 2 \in {2, 3} /\ 2 = 2
    OBVIOUS
  <2> QED
    BY <1>2, <2>1, FloatStep, Zenon
<1>9. /\ f3 \in Seq(Bytes)
      /\ \/ h = Zero /\ Len(f3) = 0
         \/ Len(f3) = 5 /\ \A c \in Seq(Bytes), p \in Nat \ {0} : Holds(c, p, f3) => HumidityAt(c, p, h)
  <2>1. 3 \in {2, 3} /\ 3 = 3
    OBVIOUS
  <2> QED
    BY <1>3, <2>1, FloatStep, Zenon
<1>10. /\ f4 \in Seq(Bytes) /\ Len(f4) <= 6
       /\ \/ u = 0 /\ Len(f4) = 0
          \/ Len(f4) = Groups(u) + 1 /\ \A c \in Seq(Bytes), p \in Nat \ {0} : Holds(c, p, f4) => UptimeAt(c, p, u)
  BY <1>4, UptimeStep, Zenon
<1>11. /\ b \in Seq(Bytes) /\ Len(b) = Len(f1) + Len(f2) + Len(f3) + Len(f4)
       /\ Holds(b, 1, f1) /\ Holds(b, Len(f1) + 1, f2)
       /\ Holds(b, Len(f1) + Len(f2) + 1, f3) /\ Holds(b, Len(f1) + Len(f2) + Len(f3) + 1, f4)
  <2>1. f1 \in Seq(Bytes) /\ f2 \in Seq(Bytes) /\ f3 \in Seq(Bytes) /\ f4 \in Seq(Bytes)
    BY <1>7, <1>8, <1>9, <1>10, Zenon
  <2> DEFINE c == f1 \o f2 \o f3 \o f4
  <2>2. /\ c \in Seq(Bytes) /\ Len(c) = Len(f1) + Len(f2) + Len(f3) + Len(f4)
        /\ Holds(c, 1, f1) /\ Holds(c, Len(f1) + 1, f2)
        /\ Holds(c, Len(f1) + Len(f2) + 1, f3) /\ Holds(c, Len(f1) + Len(f2) + Len(f3) + 1, f4)
    BY <2>1, Parts, Zenon
  <2>3. c = b
    BY <1>5
  <2> HIDE DEF c
  <2> QED
    BY <2>2, <2>3, Zenon
<1>12. PICK n1 \in Nat, n2 \in Nat, n3 \in Nat, n4 \in Nat :
           n1 = Len(f1) /\ n2 = Len(f2) /\ n3 = Len(f3) /\ n4 = Len(f4)
  <2>1. Len(f1) \in Nat /\ Len(f2) \in Nat /\ Len(f3) \in Nat /\ Len(f4) \in Nat
    BY <1>7, <1>8, <1>9, <1>10, LenProperties, Zenon
  <2> QED
    BY <2>1
<1>13. Len(b) = n1 + n2 + n3 + n4 /\ Len(b) \in 0..BUFFER_SIZE
  <2>1. n1 <= 33 /\ n2 <= 5 /\ n3 <= 5 /\ n4 <= 6
    <3>1. n1 <= 33 /\ n4 <= 6
      BY <1>7, <1>10, <1>12, Zenon
    <3>2. n2 = 0 \/ n2 = 5
      BY <1>8, <1>12, Zenon
    <3>3. n3 = 0 \/ n3 = 5
      BY <1>9, <1>12, Zenon
    <3> QED
      BY <3>1, <3>2, <3>3
  <2>2. Len(b) = n1 + n2 + n3 + n4
    BY <1>11, <1>12, Zenon
  <2> QED
    BY <2>1, <2>2 DEF BUFFER_SIZE
<1>14. PICK p2 \in Nat \ {0}, p3 \in Nat \ {0}, p4 \in Nat \ {0} :
           p2 = n1 + 1 /\ p3 = n1 + n2 + 1 /\ p4 = n1 + n2 + n3 + 1
  OBVIOUS
<1>15. Holds(b, 1, f1) /\ Holds(b, p2, f2) /\ Holds(b, p3, f3) /\ Holds(b, p4, f4)
  BY <1>11, <1>12, <1>14, Zenon
<1>16. (id = <<>> /\ n1 = 0) \/ (n1 = Len(id) + 2 /\ Len(id) \in Nat /\ TextAt(b, 1, id))
  <2>1. 1 \in Nat \ {0} /\ Len(id) \in Nat
    OBVIOUS
  <2> QED
    BY <2>1, <1>7, <1>11, <1>12, <1>15, Zenon
<1>17. (t = Zero /\ n2 = 0) \/ (n2 = 5 /\ TemperatureAt(b, p2, t))
  BY <1>8, <1>11, <1>12, <1>15, Zenon
<1>18. (h = Zero /\ n3 = 0) \/ (n3 = 5 /\ HumidityAt(b, p3, h))
  BY <1>9, <1>11, <1>12, <1>15, Zenon
<1>19. (u = 0 /\ n4 = 0) \/ (n4 = Groups(u) + 1 /\ UptimeAt(b, p4, u))
  BY <1>10, <1>11, <1>12, <1>15, Zenon
<1>20. Parsed(b) = Reading(id, t, h, u)
  <2>1. Layout(b, id, t, h, u, n1, n2, n3, n4, p2, p3, p4)
    BY <1>13, <1>14, <1>16, <1>17, <1>18, <1>19, Zenon DEF Layout
  <2> QED
    BY <2>1, FieldsRead, Zenon
<1> QED
  BY <1>6, <1>13, <1>20, Zenon

-----------------------------------------------------------------------------
(* The payload is that of the reading.                                     *)
Cut(id) == First31(c_str(id))
SensorInv == /\ message # <<>> => reading # <<>>
             /\ reading # <<>> => \E id \in DeviceIds, t \in Floats, h \in Floats, u \in Uptimes :
                                      /\ reading = <<Reading(id, t, h, u)>>
                                      /\ payload = serialize_sensor_data(Reading(id, t, h, u))
             /\ IngestedAsMeasured

(* snprintf keeps the first 31 bytes of a longer identifier.               *)
LEMMA CutIs ==
    ASSUME NEW id \in DeviceIds
    PROVE  snprintf(id) = Cut(id) /\ snprintf(id) \in Seq(Bytes) /\ Len(snprintf(id)) <= 31
<1>1. id \in Seq(Bytes) /\ Len(id) \in Nat
  BY SensorAssumption
<1> DEFINE text == {n \in 1..Len(id) : \A i \in 1..n : id[i] # 0}
<1>2. Cardinality(text) \in 0..Len(id)
  <2>1. IsFiniteSet(1..Len(id)) /\ Cardinality(1..Len(id)) = Len(id)
    BY <1>1, FS_Interval
  <2>2. IsFiniteSet(text) /\ Cardinality(text) <= Len(id)
    BY <2>1, FS_Subset
  <2>3. Cardinality(text) \in Nat
    BY <2>2, FS_CardinalityType
  <2> QED
    BY <1>1, <2>2, <2>3
<1>3. PICK c : c = c_str(id)
  OBVIOUS
<1>4. c \in Seq(Bytes)
  <2>1. c = SubSeq(id, 1, Cardinality(text))
    BY <1>3 DEF c_str
  <2> HIDE DEF text
  <2> QED
    BY <1>1, <1>2, <2>1, SubSeqProperties
<1>5. PICK n \in Nat : n = Len(c)
  BY <1>4
<1>6. PICK k \in 0..n : k <= 31 /\ k = IF n < 31 THEN n ELSE 31
  <2>1. CASE n < 31
    BY <2>1
  <2>2. CASE ~(n < 31)
    BY <2>2
  <2> QED
    BY <2>1, <2>2
<1>7. (IF n < DEVICE_ID_SIZE THEN n ELSE DEVICE_ID_SIZE - 1) = k
  BY <1>6 DEF DEVICE_ID_SIZE
<1>8. snprintf(id) = SubSeq(c, 1, k)
  BY <1>3, <1>5, <1>7, Zenon DEF snprintf
<1>9. Cut(id) = SubSeq(c, 1, k)
  BY <1>3, <1>5, <1>6, Zenon DEF Cut, First31
<1>10. SubSeq(c, 1, k) \in Seq(Bytes) /\ Len(SubSeq(c, 1, k)) = k
  BY <1>4, <1>5, <1>6, SubSeqProperties
<1> QED
  BY <1>6, <1>8, <1>9, <1>10

(* serialize_sensor_data and ParseFromString, one after the other.         *)
LEMMA Ingested ==
    ASSUME TextIds, NEW id \in DeviceIds, NEW t \in Floats, NEW h \in Floats, NEW u \in Uptimes
    PROVE  ParseFromString(serialize_sensor_data(Reading(id, t, h, u))) = Reading(Cut(id), t, h, u)
<1>1. PICK c : c = snprintf(id)
  OBVIOUS
<1>2. c = Cut(id) /\ c \in Seq(Bytes) /\ Len(c) <= 31
  BY <1>1, CutIs, Zenon
<1>3. t \in Seq(Bytes) /\ Len(t) = 4 /\ h \in Seq(Bytes) /\ Len(h) = 4 /\ u \in uint32
  BY SensorAssumption, Zenon
<1>4. PICK b : b = pb_encode(Reading(c, t, h, u))
  OBVIOUS
<1>5. Len(b) \in 0..BUFFER_SIZE /\ Parsed(b) = Reading(c, t, h, u)
  BY <1>2, <1>3, <1>4, EncodedIsParsed, Zenon
<1>6. serialize_sensor_data(Reading(id, t, h, u)) = b
  <2> DEFINE m == [Reading(id, t, h, u) EXCEPT !.device_id = snprintf(@)]
  <2>1. m = Reading(c, t, h, u)
    BY <1>1 DEF Reading
  <2>2. m.device_id = c
    BY <2>1 DEF Reading
  <2>3. Len(m.device_id) <= 31 /\ Len(m.device_id) \in Nat
    BY <1>2, <2>2
  <2>4. ~(Len(m.device_id) >= DEVICE_ID_SIZE \/ Len(pb_encode(m)) > BUFFER_SIZE)
    <3>1. ~(Len(m.device_id) >= DEVICE_ID_SIZE)
      BY <2>3 DEF DEVICE_ID_SIZE
    <3>2. ~(Len(b) > BUFFER_SIZE)
      <4>1. \A k \in 0..BUFFER_SIZE : ~(k > BUFFER_SIZE)
        BY DEF BUFFER_SIZE
      <4> QED
        BY <1>5, <4>1, Zenon
    <3>3. pb_encode(m) = b
      BY <1>4, <2>1
    <3> QED
      BY <3>1, <3>2, <3>3, Zenon
  <2> HIDE DEF m
  <2>5. pb_encode(m) = b
    BY <1>4, <2>1, Zenon
  <2> QED
    BY <2>4, <2>5, Zenon DEF serialize_sensor_data, m
<1>7. Utf8(c)
  BY <1>1, Zenon DEF TextIds
<1>8. Parsed(b).device_id = c
  BY <1>5 DEF Reading
<1> QED
  BY <1>2, <1>5, <1>6, <1>7, <1>8, Zenon DEF ParseFromString

(* What the gateway's worker parses is what serialize_sensor_data was      *)
(* given, zero values and multi-byte counters included: for any            *)
(* identifiers that are still text when snprintf has cut them to the       *)
(* field, any floats and any uptime of 32 bits.                            *)
THEOREM SensorIngestedAsMeasured == TextIds => (SensorSpec => []IngestedAsMeasured)
<1> SUFFICES ASSUME TextIds PROVE SensorSpec => []IngestedAsMeasured
  OBVIOUS
<1>1. SensorInit => SensorInv
  BY DEF SensorInit, SensorInv, IngestedAsMeasured
<1>2. SensorInv /\ [SensorNext]_sensorVars => SensorInv'
  <2> SUFFICES ASSUME SensorInv, [SensorNext]_sensorVars PROVE SensorInv'
    OBVIOUS
  <2>1. ASSUME NEW id \in DeviceIds, NEW t \in Floats, NEW h \in Floats, NEW u \in Uptimes,
               Serialize(Reading(id, t, h, u))
        PROVE  SensorInv'
    <3>1. message' = <<>>
      BY <2>1 DEF Serialize, SensorInv
    <3>3. reading' = <<Reading(id, t, h, u)>> /\ payload' = serialize_sensor_data(Reading(id, t, h, u))
      BY <2>1 DEF Serialize
    <3> QED
      BY <3>1, <3>3, Zenon DEF SensorInv, IngestedAsMeasured
  <2>2. CASE Parse
    <3>1. PICK id \in DeviceIds, t \in Floats, h \in Floats, u \in Uptimes :
              /\ reading = <<Reading(id, t, h, u)>>
              /\ payload = serialize_sensor_data(Reading(id, t, h, u))
      BY <2>2, Zenon DEF Parse, SensorInv
    <3>2. PICK r : r = Reading(id, t, h, u)
      OBVIOUS
    <3>3. message' = <<Reading(Cut(id), t, h, u)>>
      BY <2>2, <3>1, <3>2, Ingested, Zenon DEF Parse
    <3>4. Reading(Cut(id), t, h, u) = [r EXCEPT !.device_id = First31(c_str(@))]
      BY <3>2 DEF Reading, Cut
    <3>5. reading' = <<r>> /\ payload' = payload
      BY <2>2, <3>1, <3>2 DEF Parse
    <3>6. IngestedAsMeasured'
      BY <3>3, <3>4, <3>5 DEF IngestedAsMeasured
    <3>7. reading' # <<>>
      BY <3>5
    <3> QED
      BY <3>1, <3>2, <3>5, <3>6, <3>7, Zenon DEF SensorInv
  <2>3. CASE UNCHANGED sensorVars
    BY <2>3 DEF sensorVars, SensorInv, IngestedAsMeasured
  <2> QED
    BY <2>1, <2>2, <2>3, Zenon DEF SensorNext, Reading
<1>3. SensorInv => IngestedAsMeasured
  BY DEF SensorInv
<1> QED
  BY <1>1, <1>2, <1>3, PTL DEF SensorSpec

-----------------------------------------------------------------------------
(* MqttFraming: the client is in one message of the stream, holds its      *)
(* first bytes, and what it reads of them is what the whole message says.  *)

(* The fixed header of p has h bytes.                                      *)
HeaderEnd(p, h) == /\ h \in 2..5 /\ h <= Len(p) /\ p[h] < 128
                   /\ \A i \in 2..5 : i < h => p[i] >= 128

(* A message with a remaining length has a header.                         *)
LEMMA HasHeaderEnd ==
    ASSUME NEW p, Len(p) \in Nat, \A i \in 1..Len(p) : p[i] \in Int,
           \E i \in 2..5 : i <= Len(p) /\ p[i] < 128
    PROVE  \E h \in 2..5 : HeaderEnd(p, h)
<1>1. CASE p[2] < 128 /\ 2 <= Len(p)
  <2> HeaderEnd(p, 2)
    BY <1>1 DEF HeaderEnd
  <2> QED
    OBVIOUS
<1>2. CASE ~(p[2] < 128) /\ p[3] < 128 /\ 3 <= Len(p)
  <2> HeaderEnd(p, 3)
    BY <1>2 DEF HeaderEnd
  <2> QED
    OBVIOUS
<1>3. CASE ~(p[2] < 128) /\ ~(p[3] < 128) /\ p[4] < 128 /\ 4 <= Len(p)
  <2> HeaderEnd(p, 4)
    BY <1>3 DEF HeaderEnd
  <2> QED
    OBVIOUS
<1>4. CASE ~(p[2] < 128) /\ ~(p[3] < 128) /\ ~(p[4] < 128) /\ p[5] < 128 /\ 5 <= Len(p)
  <2> HeaderEnd(p, 5)
    BY <1>4 DEF HeaderEnd
  <2> QED
    OBVIOUS
<1> QED
  BY <1>1, <1>2, <1>3, <1>4

(* get_total_length stops at the first byte without the top bit.           *)
LEMMA HeaderLength ==
    ASSUME NEW p, Len(p) \in Nat, NEW h, HeaderEnd(p, h),
           \A i \in 1..Len(p) : p[i] \in Int
    PROVE  fixed_header_len(p) = h
<1> DEFINE last == {i \in 1 .. Len(p) - 1 : p[i + 1] < 128}
<1>1. h - 1 \in last
  BY DEF HeaderEnd
<1>2. \A j \in last : h - 1 <= j
  <2> SUFFICES ASSUME NEW j \in 1 .. Len(p) - 1, p[j + 1] < 128, j < h - 1 PROVE FALSE
    BY DEF HeaderEnd
  <2>1. j + 1 \in 2..5 /\ j + 1 < h
    BY DEF HeaderEnd
  <2>2. p[j + 1] >= 128
    BY <2>1 DEF HeaderEnd
  <2>3. p[j + 1] \in Int
    OBVIOUS
  <2> QED
    BY <2>2, <2>3
<1>3. last \subseteq Nat /\ last # {}
  BY <1>1
<1>4. PICK c : c = CHOOSE i \in last : \A j \in last : i <= j
  OBVIOUS
<1>5. c \in last /\ \A j \in last : c <= j
  BY <1>1, <1>2, <1>4
<1>6. fixed_header_len(p) = c + 1
  BY <1>3, <1>4 DEF fixed_header_len, At
<1> HIDE DEF last
<1>7. c <= h - 1 /\ h - 1 <= c /\ c \in Nat
  BY <1>1, <1>2, <1>3, <1>5
<1>8. h \in Int
  BY DEF HeaderEnd
<1> QED
  BY <1>6, <1>7, <1>8

(* Bytes are numbers.                                                      *)
LEMMA ByteInt ==
    ASSUME NEW p \in Seq(Byte)
    PROVE  /\ Len(p) \in Nat
           /\ \A i \in 1..Len(p) : p[i] \in Byte /\ p[i] \in Int
<1>1. Len(p) \in Nat /\ \A i \in 1..Len(p) : p[i] \in Byte
  OBVIOUS
<1>2. \A x \in Byte : x \in Int
  BY DEF Byte
<1> QED
  BY <1>1, <1>2

(* A part of a part.                                                       *)
LEMMA PartOfPart ==
    ASSUME NEW b \in Seq(Byte), NEW i \in Nat, NEW j \in Nat, i <= j, j <= Len(b),
           NEW m \in Nat, NEW n \in Nat, m <= n, n <= j - i
    PROVE  SubSeq(SubSeq(b, i + 1, j), m + 1, n) = SubSeq(b, i + m + 1, i + n)
<1>1. Len(b) \in Nat /\ \A x \in 1..Len(b) : b[x] \in Byte
  BY ByteInt
<1>2. PICK c : c = SubSeq(b, i + 1, j)
  OBVIOUS
<1>3. /\ c \in Seq(Byte)
      /\ Len(c) = IF i + 1 <= j THEN j - (i + 1) + 1 ELSE 0
      /\ \A x \in 1 .. j - (i + 1) + 1 : c[x] = b[i + 1 + x - 1]
  <2> i + 1 \in Int /\ j \in Int /\ \A x \in i + 1 .. j : b[x] \in Byte
    BY <1>1
  <2> QED
    BY <1>2, SubSeqProperties
<1>4. PICK d : d = SubSeq(c, m + 1, n)
  OBVIOUS
<1>5. /\ d \in Seq(Byte)
      /\ Len(d) = IF m + 1 <= n THEN n - (m + 1) + 1 ELSE 0
      /\ \A x \in 1 .. n - (m + 1) + 1 : d[x] = c[m + 1 + x - 1]
  <2> m + 1 \in Int /\ n \in Int /\ \A x \in m + 1 .. n : c[x] \in Byte
    BY <1>1, <1>3
  <2> QED
    BY <1>4, SubSeqProperties
<1>. PICK u \in Int : u = i + m + 1
  OBVIOUS
<1>. PICK v \in Int : v = i + n
  OBVIOUS
<1>6. PICK e : e = SubSeq(b, u, v)
  OBVIOUS
<1>7. /\ e \in Seq(Byte)
      /\ Len(e) = IF u <= v THEN v - u + 1 ELSE 0
      /\ \A x \in 1 .. v - u + 1 : e[x] = b[u + x - 1]
  <2> \A x \in u .. v : b[x] \in Byte
    BY <1>1
  <2> QED
    BY <1>6, SubSeqProperties
<1>8. Len(d) = n - m /\ Len(e) = n - m
  BY <1>5, <1>7
<1>9. ASSUME NEW x \in 1..Len(d) PROVE d[x] = e[x]
  <2>1. x \in 1..n - m
    BY <1>8
  <2>2. d[x] = c[m + x]
    BY <1>5, <2>1
  <2>3. c[m + x] = b[i + m + x]
    BY <1>3, <2>1
  <2>4. e[x] = b[i + m + x]
    <3>1. x \in 1 .. v - u + 1 /\ u + x - 1 = i + m + x
      BY <2>1
    <3>2. e[x] = b[u + x - 1]
      BY <1>7, <3>1
    <3> QED
      BY <3>1, <3>2
  <2> QED
    BY <2>2, <2>3, <2>4
<1>10. d = e
  BY <1>5, <1>7, <1>8, <1>9, SeqEqual
<1> QED
  BY <1>2, <1>4, <1>6, <1>10

(* A PUBLISH is no acknowledgement: which identifier is looked for.        *)
LEMMA PublishId ==
    ASSUME NEW buf, Is(buf, "PUBLISH")
    PROVE  mqtt_get_id(buf) =
             IF \/ TopicAt(buf) >= Len(buf) \/ mqtt_get_qos(buf) = 0
                \/ AfterTopic(buf) + 2 > Len(buf)
             THEN 0 ELSE TwoAt(buf, AfterTopic(buf))
<1>1. Type["PUBLISH"] = 3 /\ \A t \in WithIdentifier : Type[t] # 3
  BY DEF Type, WithIdentifier
<1>2. ~ \E t \in WithIdentifier : Is(buf, t)
  BY <1>1 DEF Is
<1> QED
  BY <1>2, Zenon DEF mqtt_get_id

(* The quality of service of a message is a number.                        *)
LEMMA Numbers ==
    /\ \A x \in Byte : x \in Nat
    /\ \A x \in Nat : (x \div 2) % 4 \in Nat
    /\ \A x, y \in Nat : 256 * x + y \in Nat
BY DEF Byte

(* What the readers find in the first r bytes of a message is what they    *)
(* find in all of it, as soon as the bytes they look at are there.         *)
LEMMA FirstBytes ==
    ASSUME NEW p \in Seq(Byte), NEW r \in 0..Len(p)
    PROVE  /\ SubSeq(p, 1, r) \in Seq(Byte)
           /\ Len(SubSeq(p, 1, r)) = r
           /\ \A i \in 1..r : SubSeq(p, 1, r)[i] = p[i]
           /\ SubSeq(p, 1, 0) = <<>>
<1>1. Len(p) \in Nat /\ \A i \in 1..Len(p) : p[i] \in Byte
  OBVIOUS
<1>2. \A i \in 1..r : p[i] \in Byte
  BY <1>1
<1>3. /\ SubSeq(p, 1, r) \in Seq(Byte)
      /\ Len(SubSeq(p, 1, r)) = IF 1 <= r THEN r - 1 + 1 ELSE 0
      /\ \A i \in 1 .. r - 1 + 1 : SubSeq(p, 1, r)[i] = p[1 + i - 1]
  BY <1>1, <1>2, SubSeqProperties
<1>4. SubSeq(p, 1, 0) = <<>>
  BY SubSeqEmpty
<1>5. PICK q : q = SubSeq(p, 1, r)
  OBVIOUS
<1>6. Len(q) = r /\ \A i \in 1..r : q[i] = p[i]
  BY <1>1, <1>3, <1>5
<1> QED
  BY <1>3, <1>4, <1>5, <1>6

(* The type, the quality of service and, once the header is there, the     *)
(* length that is announced.                                               *)
LEMMA HeaderRead ==
    ASSUME NEW p \in Seq(Byte), NEW r \in 1..Len(p), NEW h, HeaderEnd(p, h)
    PROVE  LET q == SubSeq(p, 1, r) IN
           /\ mqtt_get_type(q) = mqtt_get_type(p)
           /\ mqtt_get_qos(q) = mqtt_get_qos(p)
           /\ h <= r => /\ fixed_header_len(q) = h
                        /\ mqtt_get_total_length(q) = mqtt_get_total_length(p)
<1> DEFINE q == SubSeq(p, 1, r)
<1>1. Len(p) \in Nat /\ \A i \in 1..Len(p) : p[i] \in Int
  BY ByteInt
<1>2. q \in Seq(Byte) /\ Len(q) = r /\ \A i \in 1..r : q[i] = p[i]
  BY FirstBytes
<1>3. SubSeq(p, 1, h) = SubSeq(q, 1, h) \/ ~(h <= r)
  <2> SUFFICES ASSUME h <= r PROVE SubSeq(p, 1, h) = SubSeq(q, 1, h)
    OBVIOUS
  <2>1. h \in Nat /\ r \in Nat /\ r <= Len(p) /\ 0 \in Nat /\ 0 <= h /\ 0 <= r /\ h <= r - 0
    BY <1>1 DEF HeaderEnd
  <2>2. SubSeq(SubSeq(p, 0 + 1, r), 0 + 1, h) = SubSeq(p, 0 + 0 + 1, 0 + h)
    BY <2>1, PartOfPart
  <2> QED
    BY <2>1, <2>2
<1> HIDE DEF q
<1>4. q[1] = p[1]
  BY <1>2
<1>5. ASSUME h <= r PROVE HeaderEnd(q, h)
  BY <1>1, <1>2, <1>5 DEF HeaderEnd
<1>6. h <= r => fixed_header_len(q) = h
  BY <1>1, <1>2, <1>5, HeaderLength
<1>7. fixed_header_len(p) = h
  BY <1>1, HeaderLength
<1>8. h <= r => mqtt_get_total_length(q) = mqtt_get_total_length(p)
  BY <1>3, <1>6, <1>7, Zenon DEF mqtt_get_total_length
<1>9. mqtt_get_type(q) = mqtt_get_type(p) /\ mqtt_get_qos(q) = mqtt_get_qos(p)
  BY <1>4 DEF mqtt_get_type, mqtt_get_qos, At
<1> QED
  BY <1>6, <1>8, <1>9 DEF q

(* From the length of the topic on.                                        *)
LEMMA TopicRead ==
    ASSUME NEW p \in Seq(Byte), NEW r \in 1..Len(p), NEW h, HeaderEnd(p, h), h + 2 <= r
    PROVE  LET q == SubSeq(p, 1, r) IN
           /\ topiclen(q) = topiclen(p) /\ topiclen(p) \in Nat
           /\ TopicAt(q) = h + 2 /\ TopicAt(p) = h + 2
           /\ AfterTopic(q) = AfterTopic(p) /\ AfterTopic(p) = h + 2 + topiclen(p)
           /\ PayloadAt(q) = PayloadAt(p)
           /\ HeaderOf(q) = HeaderOf(p)
<1>1. Len(p) \in Nat /\ \A i \in 1..Len(p) : p[i] \in Byte /\ p[i] \in Int
  BY ByteInt
<1>2. PICK q : q = SubSeq(p, 1, r)
  OBVIOUS
<1>3. q \in Seq(Byte) /\ Len(q) = r /\ \A i \in 1..r : q[i] = p[i]
  BY <1>2, FirstBytes
<1>4. h \in 2..5 /\ h <= r
  BY <1>1 DEF HeaderEnd
<1>5. fixed_header_len(p) = h
  BY <1>1, HeaderLength
<1>6. fixed_header_len(q) = h /\ mqtt_get_qos(q) = mqtt_get_qos(p)
  BY <1>2, <1>4, HeaderRead
<1>7. q[h + 1] = p[h + 1] /\ q[h + 1 + 1] = p[h + 1 + 1]
  BY <1>3, <1>4
<1>8. p[h + 1] \in Nat /\ p[h + 1 + 1] \in Nat
  <2> p[h + 1] \in Byte /\ p[h + 1 + 1] \in Byte
    BY <1>1, <1>4
  <2> QED
    BY Numbers
<1>9. topiclen(q) = topiclen(p)
  BY <1>5, <1>6, <1>7 DEF topiclen, TwoAt, At
<1>10. topiclen(p) \in Nat
  BY <1>5, <1>8, Numbers, Zenon DEF topiclen, TwoAt, At
<1>11. TopicAt(q) = h + 2 /\ TopicAt(p) = h + 2
  BY <1>5, <1>6 DEF TopicAt
<1>12. AfterTopic(q) = AfterTopic(p) /\ AfterTopic(p) = h + 2 + topiclen(p)
  BY <1>9, <1>11 DEF AfterTopic
<1>13. PayloadAt(q) = PayloadAt(p)
  BY <1>6, <1>12 DEF PayloadAt
<1>14. HeaderOf(q) = HeaderOf(p)
  BY <1>5, <1>6, <1>9 DEF HeaderOf
<1> QED
  BY <1>2, <1>9, <1>10, <1>11, <1>12, <1>13, <1>14

(* The identifier and the payload, once the whole header is there.         *)
LEMMA PublishRead ==
    ASSUME NEW p \in Seq(Byte), NEW r \in 1..Len(p), NEW h, HeaderEnd(p, h),
           Is(p, "PUBLISH"), topiclen(p) > 0, PayloadAt(p) <= r, h + 2 <= r,
           mqtt_get_total_length(p) = Len(p)
    PROVE  LET q == SubSeq(p, 1, r) IN
           /\ mqtt_get_publish_topic(q) # {}
           /\ Identifiers(q) = {mqtt_get_id(p)}
           /\ mqtt_get_publish_data(q) = SubSeq(p, PayloadAt(p) + 1, r)
           /\ PayloadAt(p) \in Nat /\ h + 2 < PayloadAt(p)
<1>1. Len(p) \in Nat /\ \A i \in 1..Len(p) : p[i] \in Byte /\ p[i] \in Int
  BY ByteInt
<1>2. PICK q : q = SubSeq(p, 1, r)
  OBVIOUS
<1>3. q \in Seq(Byte) /\ Len(q) = r /\ \A i \in 1..r : q[i] = p[i]
  BY <1>2, FirstBytes
<1>4. h \in 2..5 /\ h <= r
  BY <1>1 DEF HeaderEnd
<1>5. /\ mqtt_get_type(q) = mqtt_get_type(p)
      /\ mqtt_get_qos(q) = mqtt_get_qos(p)
      /\ mqtt_get_total_length(q) = Len(p)
  BY <1>2, <1>4, HeaderRead
<1>6. /\ topiclen(p) \in Nat
      /\ TopicAt(q) = h + 2 /\ TopicAt(p) = h + 2
      /\ AfterTopic(q) = AfterTopic(p) /\ AfterTopic(p) = h + 2 + topiclen(p)
      /\ PayloadAt(q) = PayloadAt(p)
  BY <1>2, TopicRead
<1>7. mqtt_get_qos(p) \in Nat
  <2> p[1] \in Byte /\ 0 + 1 = 1
    BY <1>1
  <2> QED
    BY Numbers DEF mqtt_get_qos, At
<1>8. PICK a : a = AfterTopic(p)
  OBVIOUS
<1>9. a \in Nat /\ h + 2 < a /\ AfterTopic(q) = a
  BY <1>4, <1>6, <1>8
<1>10. PICK g : g = PayloadAt(p)
  OBVIOUS
<1>11. g = a + (IF mqtt_get_qos(p) > 0 THEN 2 ELSE 0)
  BY <1>8, <1>10 DEF PayloadAt
<1>12. g \in Nat /\ a <= g /\ g <= r /\ (mqtt_get_qos(p) > 0 => g = a + 2) /\ PayloadAt(q) = g
  BY <1>6, <1>7, <1>9, <1>10, <1>11
<1>13. mqtt_get_publish_topic(q) # {}
  BY <1>3, <1>4, <1>6, <1>9, <1>12 DEF mqtt_get_publish_topic
<1>14. Is(q, "PUBLISH")
  BY <1>5 DEF Is
<1>15. mqtt_get_id(q) = mqtt_get_id(p)
  <2>1. CASE mqtt_get_qos(p) = 0
    BY <2>1, <1>5, <1>14, PublishId
  <2>2. CASE mqtt_get_qos(p) > 0
    <3>1. q[a + 1] = p[a + 1] /\ q[a + 1 + 1] = p[a + 1 + 1]
      BY <2>2, <1>3, <1>9, <1>12
    <3>2. TwoAt(q, a) = TwoAt(p, a)
      BY <3>1 DEF TwoAt, At
    <3>3. mqtt_get_id(q) = TwoAt(q, a)
      <4>1. ~(TopicAt(q) >= Len(q)) /\ ~(mqtt_get_qos(q) = 0) /\ ~(AfterTopic(q) + 2 > Len(q))
        <5>1. Len(q) = r /\ TopicAt(q) = h + 2 /\ AfterTopic(q) = a /\ a + 2 <= r /\ h + 2 < a
          BY <2>2, <1>3, <1>6, <1>9, <1>12
        <5>2. mqtt_get_qos(q) > 0 /\ mqtt_get_qos(q) \in Nat
          BY <2>2, <1>5, <1>7
        <5> QED
          BY <1>4, <1>9, <5>1, <5>2
      <4> QED
        BY <4>1, <1>9, <1>14, PublishId
    <3>4. mqtt_get_id(p) = TwoAt(p, a)
      <4>1. ~(TopicAt(p) >= Len(p)) /\ ~(mqtt_get_qos(p) = 0) /\ ~(AfterTopic(p) + 2 > Len(p))
        <5>1. TopicAt(p) = h + 2 /\ AfterTopic(p) = a /\ a + 2 <= r /\ h + 2 < a
          BY <2>2, <1>6, <1>8, <1>9, <1>12
        <5>2. PICK n \in Nat : n = Len(p) /\ r <= n
          BY <1>1
        <5>3. ~(h + 2 >= n) /\ ~(a + 2 > n)
          BY <1>4, <1>9, <5>1, <5>2
        <5> QED
          BY <2>2, <1>7, <5>1, <5>2, <5>3
      <4> QED
        BY <4>1, <1>8, PublishId
    <3> QED
      BY <3>2, <3>3, <3>4
  <2> QED
    BY <1>7, <2>1, <2>2
<1>16. Identifiers(q) = {mqtt_get_id(p)}
  BY <1>3, <1>5, <1>7, <1>9, <1>12, <1>15 DEF Identifiers
<1>17. mqtt_get_publish_data(q) = SubSeq(p, g + 1, r)
  <2>1. CASE g = r
    <3>1. mqtt_get_publish_data(q) = <<>>
      BY <2>1, <1>3, <1>12 DEF mqtt_get_publish_data
    <3>2. SubSeq(p, g + 1, r) = <<>>
      BY <2>1, <1>12, SubSeqEmpty
    <3> QED
      BY <3>1, <3>2
  <2>2. CASE g < r
    <3>1. mqtt_get_publish_data(q) = Part(q, g, r - g)
      <4>1. (IF mqtt_get_total_length(q) <= Len(q) THEN mqtt_get_total_length(q) ELSE Len(q)) = r
        BY <1>1, <1>3, <1>5
      <4>2. ~(TopicAt(q) >= Len(q) \/ PayloadAt(q) >= Len(q) \/ mqtt_get_total_length(q) < PayloadAt(q))
        BY <2>2, <1>1, <1>3, <1>4, <1>5, <1>6, <1>9, <1>12
      <4> QED
        BY <4>1, <4>2, <1>12, Zenon DEF mqtt_get_publish_data
    <3>2. Part(q, g, r - g) = SubSeq(q, g + 1, r)
      BY <2>2, <1>12 DEF Part
    <3>3. SubSeq(SubSeq(p, 0 + 1, r), g + 1, r) = SubSeq(p, 0 + g + 1, 0 + r)
      <4> 0 \in Nat /\ r \in Nat /\ 0 <= r /\ r <= Len(p) /\ g <= r /\ r <= r - 0
        BY <1>1, <1>12
      <4> QED
        BY <1>12, PartOfPart
    <3>4. SubSeq(q, g + 1, r) = SubSeq(p, g + 1, r)
      BY <1>2, <1>12, <3>3
    <3> QED
      BY <3>1, <3>2, <3>4
  <2> QED
    BY <1>12, <2>1, <2>2
<1>18. g \in Nat /\ h + 2 < g
  BY <1>4, <1>9, <1>12
<1> QED
  BY <1>2, <1>10, <1>13, <1>16, <1>17, <1>18, Zenon

-----------------------------------------------------------------------------
(* A connection on which the client has kept its place.                    *)
Tracked == ~derailed
Packet == PacketOf(link, Len(handled) + 1)
Start == StartOf(link, Len(handled) + 1)
IsSeq(q) == Len(q) \in Nat /\ q = [k \in 1..Len(q) |-> q[k]]
HandledSoFar == /\ Len(handled) <= Len(link.ends)
                /\ \A k \in 1..Len(handled) : handled[k] = Meaning(PacketOf(link, k))

(* Between messages, when there are no more.                               *)
AllRead == /\ Len(handled) = Len(link.ends) /\ in_buffer = <<>>
           /\ position = Len(link.bytes) /\ pc \in {"poll", "first"}

(* In message p, which begins after the first s bytes, r of it read.  The  *)
(* test of Poll may send the pass back to the remaining length although    *)
(* the header is complete; what is read then still belongs to p.           *)
Held(p, s, r) == /\ r <= Len(p) /\ in_buffer = SubSeq(p, 1, r)
                 /\ pc # "deliver" => position = s + r
PassInv(p, r) == /\ pc = "poll" => \/ r = 0
                                   \/ /\ r < Len(p)
                                      /\ r = 1 \/ (r < 6 /\ p[r] >= 128) \/ fixed_header_len(p) <= r
                 /\ pc = "first" => r = 0
                 /\ pc = "remaining" => r \in 1..5 /\ r < Len(p) /\ (r = 1 \/ p[r] >= 128)
                 /\ pc = "length" => fixed_header_len(p) <= r
LongPublish(p) == Is(p, "PUBLISH") /\ Len(p) > link.in_buffer_length
RestInv(p, r) == /\ pc = "topic" => LongPublish(p) /\ r \in {fixed_header_len(p), fixed_header_len(p) + 1}
                 /\ pc = "rest" => /\ fixed_header_len(p) <= r
                                   /\ \/ Len(p) <= link.in_buffer_length /\ total_len = Len(p)
                                      \/ /\ LongPublish(p) /\ fixed_header_len(p) + 2 <= r
                                         /\ PayloadAt(p) <= link.in_buffer_length
                                         /\ total_len = link.in_buffer_length
DeliverInv(p, s, r) == pc = "deliver" =>
                        /\ Is(p, "PUBLISH") /\ PayloadAt(p) <= r
                        /\ position - s \in PayloadAt(p)..Len(p)
                        /\ left = Len(p) - (position - s)
                        /\ given = SubSeq(p, PayloadAt(p) + 1, position - s)
                        /\ event.offset \in 0..Len(given)
                        /\ event.offset + Len(event.data) = Len(given)
                        /\ event.data = SubSeq(given, event.offset + 1, Len(given))
                        /\ event.total = Len(p) - PayloadAt(p)
Inside(p, s, r) == Held(p, s, r) /\ PassInv(p, r) /\ RestInv(p, r) /\ DeliverInv(p, s, r)
InMessage == /\ Len(handled) < Len(link.ends) /\ Len(in_buffer) \in Nat /\ position \in Nat
             /\ Inside(Packet, Start, Len(in_buffer))
FramingInv == /\ link \in Links
              /\ IsSeq(handled)
              /\ Tracked => HandledSoFar /\ (pc = "aborted" \/ AllRead \/ InMessage)

(* A message of a link, as WellFormed has it.                              *)
Good(p) == /\ p \in Seq(Byte) /\ Len(p) \in Nat
           /\ \A i \in 1..Len(p) : p[i] \in Int
           /\ HeaderEnd(p, fixed_header_len(p))
           /\ mqtt_get_total_length(p) = Len(p)
           /\ Is(p, "PUBLISH") =>
                /\ TopicAt(p) < Len(p) /\ topiclen(p) > 0 /\ PayloadAt(p) <= Len(p)

(* The messages of a link lie one after the other.                         *)
LEMMA Lies ==
    ASSUME WellFormed, NEW l \in Links, NEW k \in 1..Len(l.ends)
    PROVE  /\ StartOf(l, k) \in Nat /\ l.ends[k] \in Nat
           /\ StartOf(l, k) < l.ends[k] /\ l.ends[k] <= Len(l.bytes)
           /\ Len(PacketOf(l, k)) = l.ends[k] - StartOf(l, k)
           /\ Good(PacketOf(l, k))
<1>1. /\ l.bytes \in Seq(Byte) /\ l.ends \in Seq(Nat)
      /\ StartOf(l, k) < l.ends[k] /\ l.ends[k] <= Len(l.bytes)
  BY FramingAssumption
<1>2. Len(l.ends) \in Nat /\ Len(l.bytes) \in Nat /\ \A i \in 1..Len(l.ends) : l.ends[i] \in Nat
  BY <1>1
<1>3. StartOf(l, k) \in Nat /\ l.ends[k] \in Nat
  <2>1. CASE k = 1
    BY <2>1, <1>2 DEF StartOf
  <2>2. CASE k # 1
    <3>1. k - 1 \in 1..Len(l.ends)
      BY <2>2, <1>2
    <3>2. l.ends[k - 1] \in Nat
      BY <1>2, <3>1
    <3> QED
      BY <2>2, <3>2, <1>2 DEF StartOf
  <2> QED
    BY <2>1, <2>2
<1>4. PICK s \in Nat : s = StartOf(l, k)
  BY <1>3
<1>5. PICK e \in Nat : e = l.ends[k]
  BY <1>3
<1>6. PICK p : p = PacketOf(l, k)
  OBVIOUS
<1>7. \A i \in 1..Len(l.bytes) : l.bytes[i] \in Byte
  BY <1>1
<1>8. /\ p \in Seq(Byte)
      /\ Len(p) = IF s + 1 <= e THEN e - (s + 1) + 1 ELSE 0
  <2>1. \A i \in s + 1 .. e : l.bytes[i] \in Byte
    BY <1>1, <1>2, <1>4, <1>5, <1>7
  <2>2. p = SubSeq(l.bytes, s + 1, e)
    BY <1>4, <1>5, <1>6 DEF PacketOf
  <2>3. s + 1 \in Int /\ e \in Int
    OBVIOUS
  <2> QED
    BY <2>1, <2>2, <2>3, SubSeqProperties
<1>9. Len(p) = e - s
  <2>1. s < e
    BY <1>1, <1>4, <1>5
  <2>2. Len(p) = IF s + 1 <= e THEN e - (s + 1) + 1 ELSE 0
    BY <1>8
  <2> QED
    BY <2>1, <2>2
<1>10. Len(p) \in Nat /\ \A i \in 1..Len(p) : p[i] \in Int
  BY <1>8, ByteInt
<1>11. /\ \E i \in 2..5 : i <= Len(p) /\ p[i] < 128
       /\ mqtt_get_total_length(p) = Len(p)
       /\ Is(p, "PUBLISH") =>
            /\ TopicAt(p) < Len(p) /\ topiclen(p) > 0 /\ PayloadAt(p) <= Len(p)
  BY <1>6, Zenon DEF WellFormed
<1>12. PICK h \in 2..5 : HeaderEnd(p, h)
  BY <1>10, <1>11, HasHeaderEnd
<1>13. fixed_header_len(p) = h
  BY <1>10, <1>12, HeaderLength
<1>14. Good(p)
  BY <1>8, <1>10, <1>11, <1>12, <1>13, Zenon DEF Good
<1> QED
  BY <1>1, <1>3, <1>4, <1>5, <1>6, <1>9, <1>14

(* The client is in message p.                                             *)
Here(p, s, r) == /\ p = Packet /\ s = Start /\ r = Len(in_buffer)
                 /\ s \in Nat /\ r \in Nat /\ position \in Nat
                 /\ Len(handled) < Len(link.ends)
                 /\ Good(p) /\ link.in_buffer_length \in Nat
                 /\ s + Len(p) = link.ends[Len(handled) + 1]
                 /\ s + Len(p) <= Len(link.bytes) /\ Len(link.bytes) \in Nat
                 /\ Inside(p, s, r)

(* The message the client is in, by name.                                  *)
LEMMA IsHere ==
    ASSUME WellFormed, FramingInv, InMessage
    PROVE  \E p, s, r : Here(p, s, r)
<1>1. PICK k : k = Len(handled) + 1
  OBVIOUS
<1>2. Len(handled) \in Nat /\ link \in Links
  BY DEF FramingInv, IsSeq
<1>3. Len(link.ends) \in Nat /\ Len(link.bytes) \in Nat /\ link.in_buffer_length \in Nat
  BY <1>2, FramingAssumption
<1>4. k \in 1..Len(link.ends)
  BY <1>1, <1>2, <1>3 DEF InMessage
<1>5. /\ StartOf(link, k) \in Nat /\ link.ends[k] \in Nat
      /\ StartOf(link, k) < link.ends[k] /\ link.ends[k] <= Len(link.bytes)
      /\ Len(PacketOf(link, k)) = link.ends[k] - StartOf(link, k)
      /\ Good(PacketOf(link, k))
  BY <1>2, <1>4, Lies
<1>6. PICK p : p = Packet
  OBVIOUS
<1>7. PICK s : s = Start
  OBVIOUS
<1>8. PICK r : r = Len(in_buffer)
  OBVIOUS
<1>9. PICK e : e = link.ends[k]
  OBVIOUS
<1>10. /\ s \in Nat /\ e \in Nat /\ e <= Len(link.bytes) /\ Len(p) = e - s
       /\ Good(p)
  BY <1>1, <1>5, <1>6, <1>7, <1>9 DEF Packet, Start
<1>11. s + Len(p) = e
  BY <1>10
<1>12. /\ r \in Nat /\ Inside(p, s, r) /\ Len(handled) < Len(link.ends) /\ position \in Nat
  BY <1>6, <1>7, <1>8 DEF InMessage
<1>13. Here(p, s, r)
  BY <1>1, <1>3, <1>6, <1>7, <1>8, <1>9, <1>10, <1>11, <1>12 DEF Here
<1> QED
  BY <1>13

(* What is read next is the next part of the message.                      *)
LEMMA Takes ==
    ASSUME FramingInv, NEW p, NEW s, NEW r, Here(p, s, r), NEW d \in Nat, NEW k \in Nat,
           position = s + d, d + k <= Len(p)
    PROVE  Taken(k) = SubSeq(p, d + 1, d + k)
<1>1. /\ link.bytes \in Seq(Byte) /\ s \in Nat
      /\ s + Len(p) = link.ends[Len(handled) + 1]
      /\ s + Len(p) <= Len(link.bytes) /\ p = PacketOf(link, Len(handled) + 1)
      /\ s = StartOf(link, Len(handled) + 1)
      /\ Len(p) \in Nat
  BY FramingAssumption DEF FramingInv, Here, Packet, Start, Good
<1>2. PICK e : e = link.ends[Len(handled) + 1]
  OBVIOUS
<1>3. PICK b : b = link.bytes
  OBVIOUS
<1>4. p = SubSeq(b, s + 1, e)
  BY <1>1, <1>2, <1>3 DEF PacketOf
<1>5. s + Len(p) = e /\ s + Len(p) <= Len(b)
  BY <1>1, <1>2, <1>3
<1>6. /\ b \in Seq(Byte) /\ s \in Nat /\ e \in Nat /\ s <= e /\ e <= Len(b)
      /\ d <= d + k /\ d + k <= e - s /\ d + k \in Nat
  BY <1>1, <1>3, <1>5
<1>7. SubSeq(SubSeq(b, s + 1, e), d + 1, d + k) = SubSeq(b, s + d + 1, s + (d + k))
  BY <1>6, PartOfPart
<1>8. Taken(k) = SubSeq(b, (s + d) + 1, (s + d) + k)
  BY <1>3 DEF Taken
<1>9. (s + d) + k = s + (d + k)
  BY <1>6
<1> QED
  BY <1>4, <1>7, <1>8, <1>9

(* Two parts of a message that lie side by side are one.                   *)
LEMMA Grows ==
    ASSUME NEW p \in Seq(Byte), NEW u \in Nat \ {0}, NEW r \in Nat, NEW k \in Nat,
           u <= r + 1, r + k <= Len(p)
    PROVE  SubSeq(p, u, r) \o SubSeq(p, r + 1, r + k) = SubSeq(p, u, r + k)
<1>1. PICK n : n = r + k
  OBVIOUS
<1>2. Len(p) \in Nat
  OBVIOUS
<1>3. u \in 1..Len(p) + 1 /\ r \in u - 1..Len(p) /\ n \in r..Len(p)
  BY <1>1, <1>2
<1>4. SubSeq(p, u, r) \o SubSeq(p, r + 1, n) = SubSeq(p, u, n)
  BY <1>3, ConcatAdjacentSubSeq
<1> QED
  BY <1>1, <1>4

(* The length of a part of a message.                                      *)
LEMMA PartLength ==
    ASSUME NEW p \in Seq(Byte), NEW i \in Nat, NEW r \in Nat, i <= r, r <= Len(p)
    PROVE  SubSeq(p, i + 1, r) \in Seq(Byte) /\ Len(SubSeq(p, i + 1, r)) = r - i
<1>1. Len(p) \in Nat /\ \A x \in 1..Len(p) : p[x] \in Byte
  BY ByteInt
<1>2. i + 1 \in Int /\ r \in Int /\ \A x \in i + 1 .. r : p[x] \in Byte
  BY <1>1
<1>3. PICK c : c = SubSeq(p, i + 1, r)
  OBVIOUS
<1>4. c \in Seq(Byte) /\ Len(c) = IF i + 1 <= r THEN r - (i + 1) + 1 ELSE 0
  BY <1>2, <1>3, SubSeqProperties
<1> QED
  BY <1>3, <1>4

(* A step within the message.                                              *)
LEMMA Within ==
    ASSUME FramingInv, NEW p, NEW s, NEW r, Here(p, s, r), link' = link, handled' = handled,
           position' \in Nat, NEW r2 \in Nat, Len(in_buffer') = r2, Inside(p, s, r2)'
    PROVE  InMessage'
<1>1. Packet' = p /\ Start' = s
  BY DEF Here, Packet, Start
<1> QED
  BY <1>1 DEF InMessage, Here

(* A step that handles nothing.                                            *)
LEMMA Unhandled ==
    ASSUME FramingInv, link' = link, handled' = handled, Tracked' => Tracked,
           Tracked /\ Tracked' => pc' = "aborted" \/ AllRead' \/ InMessage'
    PROVE  FramingInv'
<1>2. HandledSoFar => HandledSoFar'
  BY DEF HandledSoFar
<1>3. IsSeq(handled)'
  BY DEF FramingInv, IsSeq
<1> QED
  BY <1>2, <1>3 DEF FramingInv

(* A PUBLISH has a topic.                                                  *)
LEMMA PublishHead ==
    ASSUME NEW p, Good(p), Is(p, "PUBLISH")
    PROVE  /\ fixed_header_len(p) + 2 < PayloadAt(p) /\ PayloadAt(p) \in Nat
           /\ fixed_header_len(p) + 2 < Len(p)
           /\ fixed_header_len(p) + topiclen(p) + (IF mqtt_get_qos(p) > 0 THEN 2 ELSE 0) <= PayloadAt(p)
<1>1. PICK h : h = fixed_header_len(p)
  OBVIOUS
<1>2. /\ p \in Seq(Byte) /\ Len(p) \in Nat /\ HeaderEnd(p, h) /\ topiclen(p) > 0
      /\ h + 2 < Len(p)
  BY <1>1 DEF Good, TopicAt
<1>3. h \in 2..5
  BY <1>2 DEF HeaderEnd
<1>4. PICK r : r = Len(p)
  OBVIOUS
<1>5. r \in 1..Len(p) /\ h + 2 <= r
  BY <1>2, <1>3, <1>4
<1>6. topiclen(p) \in Nat
  BY <1>2, <1>5, TopicRead
<1>7. PayloadAt(p) = h + 2 + topiclen(p) + (IF mqtt_get_qos(p) > 0 THEN 2 ELSE 0)
  BY <1>1 DEF PayloadAt, AfterTopic, TopicAt
<1>8. PICK x : x = IF mqtt_get_qos(p) > 0 THEN 2 ELSE 0
  OBVIOUS
<1>9. x \in {0, 2}
  BY <1>8
<1> QED
  BY <1>1, <1>2, <1>3, <1>6, <1>7, <1>8, <1>9

(* esp_mqtt_client_init: nothing is read yet.                              *)
LEMMA InitStep ==
    ASSUME WellFormed, FramingInit
    PROVE  FramingInv
<1>1. link \in Links /\ Len(handled) = 0 /\ handled = <<>> /\ position = 0 /\ in_buffer = <<>> /\ pc = "poll"
  BY DEF FramingInit
<1>2. IsSeq(handled)
  BY <1>1 DEF IsSeq
<1>3. Len(link.ends) \in Nat /\ StartOf(link, Len(link.ends) + 1) = Len(link.bytes)
  BY <1>1, FramingAssumption
<1>4. HandledSoFar
  BY <1>1, <1>3 DEF HandledSoFar
<1>5. CASE Len(link.ends) = 0
  <2>1. Len(link.bytes) = 0
    BY <1>3, <1>5 DEF StartOf
  <2> QED
    BY <1>1, <1>2, <1>4, <1>5, <2>1 DEF FramingInv, AllRead
<1>6. CASE Len(link.ends) # 0
  <2>1. 1 \in 1..Len(link.ends)
    BY <1>3, <1>6
  <2>2. PICK p : p = Packet
    OBVIOUS
  <2>3. p \in Seq(Byte) /\ Len(p) \in Nat
    BY <1>1, <2>1, <2>2, Lies DEF Packet, Good
  <2>4. Start = 0
    BY <1>1 DEF Start, StartOf
  <2>5. in_buffer = SubSeq(p, 1, 0)
    BY <1>1, <2>3, SubSeqEmpty
  <2>6. Inside(p, 0, 0)
    BY <1>1, <2>3, <2>5 DEF Inside, Held, PassInv, RestInv, DeliverInv
  <2>7. Len(in_buffer) = 0
    BY <1>1
  <2>8. InMessage
    BY <1>1, <1>3, <2>1, <2>2, <2>4, <2>6, <2>7 DEF InMessage
  <2> QED
    BY <1>1, <1>2, <1>4, <2>8 DEF FramingInv
<1> QED
  BY <1>5, <1>6

(* mqtt_message_receive goes on where the pass before stopped.             *)
LEMMA PollStep ==
    ASSUME WellFormed, FramingInv, Poll
    PROVE  FramingInv'
<1>1. /\ pc = "poll" /\ link' = link /\ handled' = handled /\ position' = position
      /\ in_buffer' = in_buffer /\ (Tracked' => Tracked)
  BY DEF Poll, Tracked
<1>2. CASE AllRead
  BY <1>1, <1>2, Unhandled DEF AllRead, Poll
<1>3. CASE InMessage
  <2>1. PICK p, s, r : Here(p, s, r)
    BY <1>3, IsHere
  <2>2. /\ p \in Seq(Byte) /\ Len(p) \in Nat /\ r \in Nat /\ r = Len(in_buffer)
        /\ r <= Len(p) /\ in_buffer = SubSeq(p, 1, r) /\ position = s + r /\ position \in Nat
        /\ PassInv(p, r)
    BY <1>1, <2>1 DEF Here, Good, Inside, Held
  <2>3. \A i \in 1..r : in_buffer[i] = p[i]
    BY <2>2, FirstBytes
  <2>4. CASE r = 0
    <3>1. in_buffer = <<>>
      BY <2>2, <2>4, SubSeqEmpty
    <3>2. pc' = "first"
      BY <3>1 DEF Poll
    <3>3. Inside(p, s, r)'
      BY <1>1, <2>2, <2>4, <3>2 DEF Inside, Held, PassInv, RestInv, DeliverInv
    <3> QED
      BY <1>1, <2>1, <2>2, <3>3, Within, Unhandled
  <2>5. CASE r # 0
    <3>1. in_buffer # <<>>
      BY <2>2, <2>5
    <3>2. StillRemainingLength(in_buffer) <=> r = 1 \/ (r < 6 /\ p[r] >= 128)
      BY <2>2, <2>3, <2>5 DEF StillRemainingLength
    <3>3. CASE StillRemainingLength(in_buffer)
      <4>1. pc' = "remaining"
        BY <3>1, <3>3 DEF Poll
      <4>2. r < Len(p)
        BY <1>1, <2>2, <2>5 DEF PassInv
      <4>3. r \in 1..5 /\ r < Len(p) /\ (r = 1 \/ p[r] >= 128)
        <5> r \in Nat
          BY <2>2
        <5> QED
          BY <2>5, <3>2, <3>3, <4>2
      <4>4. Inside(p, s, r)'
        BY <1>1, <2>2, <4>1, <4>3 DEF Inside, Held, PassInv, RestInv, DeliverInv
      <4> QED
        BY <1>1, <2>1, <2>2, <4>4, Within, Unhandled
    <3>4. CASE ~StillRemainingLength(in_buffer)
      <4>1. pc' = "length"
        BY <3>1, <3>4 DEF Poll
      <4>2. Inside(p, s, r)'
        BY <1>1, <2>2, <2>5, <3>2, <3>4, <4>1 DEF Inside, Held, PassInv, RestInv, DeliverInv
      <4> QED
        BY <1>1, <2>1, <2>2, <4>2, Within, Unhandled
    <3> QED
      BY <3>3, <3>4
  <2> QED
    BY <2>4, <2>5
<1>4. CASE ~Tracked
  BY <1>1, <1>4, Unhandled
<1> QED
  BY <1>1, <1>2, <1>3, <1>4 DEF FramingInv

(* A read that times out in mid-message keeps what was read.               *)
LEMMA TimeoutStep ==
    ASSUME WellFormed, FramingInv, Timeout
    PROVE  FramingInv'
<1>1. /\ pc \in {"remaining", "topic", "rest"} /\ link' = link /\ handled' = handled
      /\ position' = position /\ in_buffer' = in_buffer
      /\ pc' = "aborted" \/ pc' = "poll"
      /\ pc = "rest" => Len(in_buffer) < total_len
      /\ Tracked' => Tracked
  BY DEF Timeout, Tracked
<1>2. CASE pc' = "aborted" \/ ~Tracked
  BY <1>1, <1>2, Unhandled
<1>3. CASE Tracked /\ pc' = "poll"
  <2>1. InMessage
    BY <1>1, <1>3 DEF FramingInv, AllRead
  <2>2. PICK p, s, r : Here(p, s, r)
    BY <2>1, IsHere
  <2>3. /\ Len(p) \in Nat /\ r \in Nat /\ r = Len(in_buffer)
        /\ r <= Len(p) /\ in_buffer = SubSeq(p, 1, r) /\ position = s + r /\ position \in Nat
        /\ PassInv(p, r) /\ RestInv(p, r) /\ link.in_buffer_length \in Nat
    BY <1>1, <2>2 DEF Here, Good, Inside, Held
  <2>4. PICK h \in 2..5 : h = fixed_header_len(p)
    BY <2>2 DEF Here, Good, HeaderEnd
  <2>5. r < Len(p) /\ (r = 1 \/ (r < 6 /\ p[r] >= 128) \/ h <= r)
    <3>1. CASE pc = "remaining"
      BY <2>3, <3>1 DEF PassInv
    <3>2. CASE pc = "topic"
      <4>1. h <= r /\ r <= h + 1 /\ LongPublish(p)
        BY <2>3, <2>4, <3>2 DEF RestInv
      <4>2. h + 2 < Len(p)
        BY <2>2, <2>4, <4>1, PublishHead DEF Here, LongPublish
      <4> QED
        BY <2>3, <4>1, <4>2
    <3>3. CASE pc = "rest"
      BY <1>1, <2>3, <2>4, <3>3 DEF RestInv, LongPublish
    <3> QED
      BY <1>1, <3>1, <3>2, <3>3
  <2>6. Inside(p, s, r)'
    BY <1>1, <1>3, <2>3, <2>4, <2>5 DEF Inside, Held, PassInv, RestInv, DeliverInv
  <2> QED
    BY <1>1, <2>2, <2>3, <2>6, Within, Unhandled
<1> QED
  BY <1>1, <1>2, <1>3

(* The first byte of a message: the broker sends valid ones.               *)
LEMMA ReadFirstStep ==
    ASSUME WellFormed, FramingInv, ReadFirst
    PROVE  FramingInv'
<1>1. pc = "first" /\ link' = link /\ handled' = handled /\ (Tracked' => Tracked)
  BY DEF ReadFirst, Read, Tracked
<1>2. CASE AllRead
  <2>1. Len(link.bytes) \in Nat
    BY FramingAssumption DEF FramingInv
  <2>2. pc' = "poll" /\ position' = position /\ in_buffer' = in_buffer
    BY <1>2, <2>1 DEF ReadFirst, Read, AllRead
  <2> QED
    BY <1>1, <1>2, <2>2, Unhandled DEF AllRead
<1>3. CASE InMessage
  <2>1. PICK p, s, r : Here(p, s, r)
    BY <1>3, IsHere
  <2>2. /\ p \in Seq(Byte) /\ Len(p) \in Nat /\ s \in Nat /\ r = 0 /\ r = Len(in_buffer)
        /\ in_buffer = SubSeq(p, 1, 0) /\ position = s /\ position \in Nat
    BY <1>1, <2>1 DEF Here, Good, Inside, Held, PassInv
  <2>3. PICK h \in 2..5 : h = fixed_header_len(p) /\ h <= Len(p)
    BY <2>1 DEF Here, Good, HeaderEnd
  <2>4. CASE pc' = "poll" /\ position' = position /\ in_buffer' = in_buffer
    <3>1. Inside(p, s, 0)'
      BY <1>1, <2>2, <2>4 DEF Inside, Held, PassInv, RestInv, DeliverInv
    <3>2. Len(in_buffer') = 0
      BY <2>2, <2>4
    <3> QED
      BY <1>1, <2>1, <2>2, <2>4, <3>1, <3>2, Within, Unhandled
  <2>5. CASE /\ pc' = "remaining" /\ position' = position + 1 /\ in_buffer' = Taken(1)
    <3>1. position = s + 0 /\ 0 + 1 <= Len(p) /\ 1 \in Nat /\ 0 \in Nat
      BY <2>2, <2>3
    <3>2. Taken(1) = SubSeq(p, 0 + 1, 0 + 1)
      BY <2>1, <3>1, Takes
    <3>3. in_buffer' = SubSeq(p, 1, 1)
      BY <2>5, <3>2
    <3>4. Len(in_buffer') = 1
      BY <2>2, <2>3, <3>3, FirstBytes
    <3>5. Inside(p, s, 1)'
      BY <1>1, <2>2, <2>3, <2>5, <3>3 DEF Inside, Held, PassInv, RestInv, DeliverInv
    <3>6. position' \in Nat
      BY <2>2, <2>5
    <3> QED
      BY <1>1, <2>1, <3>4, <3>5, <3>6, Within, Unhandled
  <2>6. CASE pc' = "aborted"
    BY <1>1, <2>6, Unhandled
  <2> QED
    BY <2>4, <2>5, <2>6 DEF ReadFirst, Read
<1>4. CASE ~Tracked
  BY <1>1, <1>4, Unhandled
<1> QED
  BY <1>1, <1>2, <1>3, <1>4 DEF FramingInv

(* The next k bytes of the message are read.                               *)
Fetched(p, s, r, k) == /\ k \in Nat \ {0} /\ r + k <= Len(p) /\ position = s + r
                       /\ in_buffer' = in_buffer \o Taken(k) /\ position' = position + k

(* What esp_transport_read returned is the next part of the message.       *)
LEMMA Grown ==
    ASSUME FramingInv, NEW p, NEW s, NEW r, NEW k, Here(p, s, r), Fetched(p, s, r, k)
    PROVE  /\ in_buffer' = SubSeq(p, 1, r + k) /\ Len(in_buffer') = r + k
           /\ Taken(k)[1] = p[r + 1]
           /\ r + k \in Nat /\ position' \in Nat /\ position' = s + (r + k)
<1>1. /\ p \in Seq(Byte) /\ Len(p) \in Nat /\ r \in Nat /\ s \in Nat /\ in_buffer = SubSeq(p, 1, r)
  BY DEF Here, Good, Inside, Held
<1>0. /\ k \in Nat \ {0} /\ r + k <= Len(p) /\ position = s + r
      /\ in_buffer' = in_buffer \o Taken(k) /\ position' = position + k
  BY Zenon DEF Fetched
<1>2. Taken(k) = SubSeq(p, r + 1, r + k)
  <2> k \in Nat
    BY <1>0
  <2> QED
    BY <1>0, <1>1, Takes
<1>3. PICK n \in Nat : n = r + k
  BY <1>0, <1>1
<1>4. SubSeq(p, 1, r) \o SubSeq(p, r + 1, r + k) = SubSeq(p, 1, r + k)
  <2>1. PICK u : u = 1
    OBVIOUS
  <2>2. u \in Nat \ {0} /\ u <= r + 1
    BY <1>0, <1>1, <2>1
  <2>3. SubSeq(p, u, r) \o SubSeq(p, r + 1, r + k) = SubSeq(p, u, r + k)
    BY <1>0, <1>1, <2>2, Grows
  <2> QED
    BY <2>1, <2>3, Zenon
<1>5. in_buffer' = SubSeq(p, 1, n)
  BY <1>0, <1>1, <1>2, <1>3, <1>4, Zenon
<1>6. Len(SubSeq(p, 1, n)) = n
  BY <1>0, <1>1, <1>3, FirstBytes
<1>7. \A i \in 1..n - (r + 1) + 1 : SubSeq(p, r + 1, n)[i] = p[(r + 1) + i - 1]
  <2> r + 1 \in Int /\ n \in Int /\ \A i \in r + 1..n : p[i] \in Byte
    BY <1>0, <1>1, <1>3
  <2> QED
    BY SubSeqProperties
<1>8. SubSeq(p, r + 1, n)[1] = p[r + 1]
  <2>1. 1 \in 1..n - (r + 1) + 1 /\ (r + 1) + 1 - 1 = r + 1
    BY <1>0, <1>1, <1>3
  <2> QED
    BY <1>7, <2>1
<1>9. position' \in Nat /\ position' = s + n
  BY <1>0, <1>1, <1>3
<1> QED
  BY <1>2, <1>3, <1>5, <1>6, <1>8, <1>9

(* The bytes of the remaining length; a pass sent back to them by mistake  *)
(* reads a byte of the body, which belongs to the message too.             *)
LEMMA ReadRemainingStep ==
    ASSUME WellFormed, FramingInv, ReadRemaining
    PROVE  FramingInv'
<1>1. /\ pc = "remaining" /\ link' = link /\ handled' = handled
      /\ position' = position + 1 /\ in_buffer' = in_buffer \o Taken(1)
      /\ Tracked' => Tracked /\ ~(pc' = "remaining" /\ AtItsEnd(position'))
  BY DEF ReadRemaining, Read, Tracked
<1>2. CASE ~Tracked \/ ~Tracked'
  BY <1>1, <1>2, Unhandled
<1>3. CASE Tracked /\ Tracked'
  <2>1. InMessage
    BY <1>1, <1>3 DEF FramingInv, AllRead
  <2>2. PICK p, s, r : Here(p, s, r)
    BY <2>1, IsHere
  <2>3. /\ p \in Seq(Byte) /\ Len(p) \in Nat /\ r \in 1..5 /\ r = Len(in_buffer) /\ r < Len(p)
        /\ position = s + r /\ (r = 1 \/ p[r] >= 128)
    BY <1>1, <2>2 DEF Here, Good, Inside, Held, PassInv
  <2>4. PICK h \in 2..5 : h = fixed_header_len(p)
    BY <2>2 DEF Here, Good, HeaderEnd
  <2>5. /\ h <= Len(p) /\ p[h] < 128 /\ \A i \in 2..5 : i < h => p[i] >= 128
        /\ \A i \in 1..Len(p) : p[i] \in Int
    BY <2>2, <2>4 DEF Here, Good, HeaderEnd
  <2>6. /\ in_buffer' = SubSeq(p, 1, r + 1) /\ Len(in_buffer') = r + 1
        /\ Taken(1)[1] = p[r + 1]
        /\ r + 1 \in Nat /\ position' \in Nat /\ position' = s + (r + 1)
    <3>1. PICK k : k = 1
      OBVIOUS
    <3>2. k \in Nat \ {0} /\ r + k <= Len(p)
      BY <2>3, <3>1
    <3>3. in_buffer' = in_buffer \o Taken(k) /\ position' = position + k /\ position = s + r
      <4>1. Taken(k) = Taken(1)
        BY <3>1
      <4>2. in_buffer' = in_buffer \o Taken(k)
        BY <1>1, <4>1, Zenon
      <4>3. position' = position + k
        BY <1>1, <3>1, Zenon
      <4> QED
        BY <2>3, <4>2, <4>3, Zenon
    <3>4. /\ in_buffer' = SubSeq(p, 1, r + k) /\ Len(in_buffer') = r + k
          /\ Taken(k)[1] = p[r + 1]
          /\ r + k \in Nat /\ position' \in Nat /\ position' = s + (r + k)
      <4> Fetched(p, s, r, k)
        BY <3>2, <3>3, Zenon DEF Fetched
      <4> QED
        BY <2>2, Grown
    <3> QED
      BY <3>1, <3>4
  <2>7. CASE r + 1 < 6 /\ p[r + 1] >= 128
    <3>1. pc' = "remaining"
      BY <2>3, <2>6, <2>7 DEF ReadRemaining
    <3>2. r + 1 < Len(p)
      <4>1. position' # link.ends[Len(handled) + 1]
        BY <1>1, <1>3, <3>1 DEF AtItsEnd
      <4>2. s + Len(p) = link.ends[Len(handled) + 1] /\ s \in Nat
        BY <2>2 DEF Here
      <4> QED
        BY <2>3, <2>6, <4>1, <4>2
    <3>3. PICK n : n = r + 1
      OBVIOUS
    <3>4. Inside(p, s, n)'
      BY <2>3, <2>6, <2>7, <3>1, <3>2, <3>3 DEF Inside, Held, PassInv, RestInv, DeliverInv
    <3> QED
      BY <1>1, <2>2, <2>6, <3>3, <3>4, Within, Unhandled
  <2>8. CASE ~(r + 1 < 6 /\ p[r + 1] >= 128)
    <3>1. pc' = "length"
      BY <2>3, <2>6, <2>8 DEF ReadRemaining
    <3>2. h <= r + 1
      <4> r \in 1..5
        BY <2>3
      <4> SUFFICES ASSUME h > r + 1 PROVE FALSE
        OBVIOUS
      <4>1. r + 1 \in 2..5
        OBVIOUS
      <4>2. p[r + 1] >= 128
        BY <2>5, <4>1
      <4> QED
        BY <2>8, <4>1, <4>2
    <3>3. PICK n : n = r + 1
      OBVIOUS
    <3>4. Inside(p, s, n)'
      BY <2>3, <2>4, <2>6, <3>1, <3>2, <3>3 DEF Inside, Held, PassInv, RestInv, DeliverInv
    <3> QED
      BY <1>1, <2>2, <2>6, <3>3, <3>4, Within, Unhandled
  <2> QED
    BY <2>7, <2>8
<1> QED
  BY <1>2, <1>3

(* The length that was announced is that of the message, and a long        *)
(* PUBLISH has its header in the buffer.                                   *)
LEMMA LengthStep ==
    ASSUME WellFormed, FramingInv, Length
    PROVE  FramingInv'
<1>1. /\ pc = "length" /\ link' = link /\ handled' = handled
      /\ position' = position /\ in_buffer' = in_buffer
      /\ Tracked' => Tracked /\ ~(pc' = "rest" /\ HeaderCut(total_len'))
  BY DEF Length, Tracked
<1>2. CASE ~Tracked \/ ~Tracked'
  BY <1>1, <1>2, Unhandled
<1>3. CASE Tracked /\ Tracked'
  <2>1. InMessage
    BY <1>1, <1>3 DEF FramingInv, AllRead
  <2>2. PICK p, s, r : Here(p, s, r)
    BY <2>1, IsHere
  <2>3. PICK h \in 2..5 : h = fixed_header_len(p) /\ HeaderEnd(p, h)
    BY <2>2 DEF Here, Good, HeaderEnd
  <2>4. /\ p \in Seq(Byte) /\ Len(p) \in Nat /\ r \in Nat /\ r = Len(in_buffer)
        /\ r <= Len(p) /\ h <= r /\ in_buffer = SubSeq(p, 1, r)
        /\ mqtt_get_total_length(p) = Len(p)
        /\ link.in_buffer_length \in Nat
        /\ Good(p)
        /\ position = s + r /\ position \in Nat
    BY <1>1, <2>2, <2>3 DEF Here, Good, Inside, Held, PassInv
  <2>5. r \in 1..Len(p)
    BY <2>3, <2>4
  <2>6. /\ mqtt_get_type(in_buffer) = mqtt_get_type(p)
        /\ fixed_header_len(in_buffer) = h
        /\ mqtt_get_total_length(in_buffer) = Len(p)
    BY <2>3, <2>4, <2>5, HeaderRead
  <2>7. Is(in_buffer, "PUBLISH") <=> Is(p, "PUBLISH")
    BY <2>6 DEF Is
  <2>8. CASE ~(Len(p) > link.in_buffer_length)
    <3>1. pc' = "rest" /\ total_len' = Len(p)
      BY <2>6, <2>8, Zenon DEF Length
    <3>2. Len(p) <= link.in_buffer_length
      <4> link.in_buffer_length \in Nat /\ Len(p) \in Nat
        BY <2>4
      <4> QED
        BY <2>8
    <3>3. Inside(p, s, r)'
      BY <1>1, <2>3, <2>4, <3>1, <3>2 DEF Inside, Held, PassInv, RestInv, DeliverInv
    <3> QED
      BY <1>1, <2>2, <2>4, <3>3, Within, Unhandled
  <2>9. CASE Len(p) > link.in_buffer_length /\ ~Is(p, "PUBLISH")
    <3>1. pc' = "aborted"
      BY <2>6, <2>7, <2>9, Zenon DEF Length
    <3> QED
      BY <1>1, <3>1, Unhandled
  <2>10. CASE Len(p) > link.in_buffer_length /\ Is(p, "PUBLISH")
    <3>1. IF r < h + 2 THEN pc' = "topic" /\ UNCHANGED total_len
          ELSE IF HeaderOf(in_buffer) > link.in_buffer_length
               THEN pc' = "aborted" /\ UNCHANGED total_len
               ELSE pc' = "rest" /\ total_len' = link.in_buffer_length
      BY <2>4, <2>6, <2>7, <2>10, Zenon DEF Length
    <3>2. LongPublish(p) /\ LongPublish(p)'
      BY <1>1, <2>10 DEF LongPublish
    <3>3. CASE r < h + 2
      <4>1. r \in {h, h + 1}
        <5> r \in Nat /\ h <= r
          BY <2>4
        <5> QED
          BY <2>3, <3>3
      <4>2. pc' = "topic"
        BY <3>1, <3>3
      <4>3. Inside(p, s, r)'
        BY <1>1, <2>3, <2>4, <3>2, <4>1, <4>2 DEF Inside, Held, PassInv, RestInv, DeliverInv
      <4> QED
        BY <1>1, <2>2, <2>4, <4>3, Within, Unhandled
    <3>4. CASE ~(r < h + 2) /\ pc' = "aborted"
      BY <1>1, <3>4, Unhandled
    <3>5. CASE ~(r < h + 2) /\ pc' = "rest" /\ total_len' = link.in_buffer_length
      <4>1. h + 2 <= r
        <5> r \in Nat
          BY <2>4
        <5> QED
          BY <2>3, <3>5
      <4>2. PayloadAt(in_buffer) = PayloadAt(p) /\ PayloadAt(p) \in Nat
        BY <2>3, <2>4, <2>5, <2>10, <4>1, TopicRead, PublishHead
      <4>3. PayloadAt(p) <= link.in_buffer_length
        <5>1. ~HeaderCut(link.in_buffer_length)
          BY <1>1, <1>3, <3>5
        <5> QED
          BY <2>4, <2>6, <2>10, <4>2, <5>1 DEF HeaderCut
      <4>4. Inside(p, s, r)'
        BY <1>1, <2>3, <2>4, <3>2, <3>5, <4>1, <4>3 DEF Inside, Held, PassInv, RestInv, DeliverInv
      <4> QED
        BY <1>1, <2>2, <2>4, <4>4, Within, Unhandled
    <3> QED
      BY <3>1, <3>3, <3>4, <3>5
  <2> QED
    BY <2>8, <2>9, <2>10
<1> QED
  BY <1>2, <1>3

(* The length of the topic, and perhaps a byte of the topic.               *)
LEMMA ReadTopicLengthStep ==
    ASSUME WellFormed, FramingInv, ReadTopicLength
    PROVE  FramingInv'
<1>1. pc = "topic" /\ link' = link /\ handled' = handled /\ (Tracked' => Tracked)
  BY DEF ReadTopicLength, Read, Tracked
<1>2. CASE ~Tracked
  BY <1>1, <1>2, Unhandled
<1>3. CASE Tracked
  <2>1. InMessage
    BY <1>1, <1>3 DEF FramingInv, AllRead
  <2>2. PICK p, s, r : Here(p, s, r)
    BY <2>1, IsHere
  <2>3. PICK h \in 2..5 : h = fixed_header_len(p) /\ HeaderEnd(p, h)
    BY <2>2 DEF Here, Good, HeaderEnd
  <2>4. /\ p \in Seq(Byte) /\ Len(p) \in Nat /\ r = Len(in_buffer)
        /\ r \in {h, h + 1} /\ r <= Len(p) /\ in_buffer = SubSeq(p, 1, r)
        /\ LongPublish(p) /\ link.in_buffer_length \in Nat
        /\ Good(p)
        /\ position = s + r
    BY <1>1, <2>2, <2>3 DEF Here, Good, Inside, Held, RestInv
  <2>5. r \in 1..Len(p)
    BY <2>3, <2>4
  <2>6. fixed_header_len(in_buffer) = h
    <3> h <= r
      BY <2>3, <2>4
    <3> QED
      BY <2>3, <2>4, <2>5, HeaderRead
  <2>9. h + 4 <= Len(p)
    <3> Len(p) > link.in_buffer_length /\ link.in_buffer_length >= 9
      BY <2>4, FramingAssumption DEF LongPublish, FramingInv
    <3> QED
      BY <2>3, <2>4
  <2>10. PICK k \in 1..3 :
           /\ Read(Len(in_buffer) - fixed_header_len(in_buffer) + 2, k)
           /\ in_buffer' = in_buffer \o Taken(k)
           /\ pc' = IF Len(in_buffer) + k < fixed_header_len(in_buffer) + 2 THEN "poll" ELSE "length"
    BY Zenon DEF ReadTopicLength
  <2>11. /\ r + k <= Len(p) /\ h <= r /\ (r + k < h + 2 => r + k < Len(p)) /\ h <= r + k
         /\ k \in Nat \ {0} /\ position' = position + k
         /\ pc' = IF r + k < h + 2 THEN "poll" ELSE "length"
    <3>1. /\ Read(r - h + 2, k)
          /\ pc' = IF r + k < h + 2 THEN "poll" ELSE "length"
      BY <2>4, <2>6, <2>10, Zenon
    <3>2. k <= r - h + 2 /\ position' = position + k
      <4> r \in {h, h + 1}
        BY <2>4
      <4> QED
        BY <2>3, <3>1 DEF Read
    <3>3. r \in {h, h + 1} /\ Len(p) \in Nat
      BY <2>4
    <3>4. /\ r + k <= Len(p) /\ h <= r /\ (r + k < h + 2 => r + k < Len(p)) /\ h <= r + k
          /\ k \in Nat \ {0}
      <4>1. PICK n \in Nat : n = Len(p)
        BY <3>3
      <4>2. k <= r - h + 2 /\ r \in {h, h + 1} /\ h + 4 <= n
        BY <2>9, <3>2, <3>3, <4>1
      <4>3. /\ r + k <= n /\ h <= r /\ (r + k < h + 2 => r + k < n) /\ h <= r + k
            /\ k \in Nat \ {0}
        BY <4>2
      <4> QED
        BY <4>1, <4>3
    <3> QED
      BY <3>1, <3>2, <3>4, Zenon
  <2>12. /\ in_buffer' = SubSeq(p, 1, r + k) /\ Len(in_buffer') = r + k
         /\ r + k \in Nat /\ position' \in Nat /\ position' = s + (r + k)
    <3>1. in_buffer' = in_buffer \o Taken(k)
      BY <2>10, Zenon
    <3>2. /\ k \in Nat \ {0} /\ r + k <= Len(p) /\ position' = position + k /\ position = s + r
      BY <2>4, <2>11, Zenon
    <3>3. Fetched(p, s, r, k)
      BY <3>1, <3>2, Zenon DEF Fetched
    <3> QED
      BY <2>2, <3>3, Grown
  <2>13. PICK n : n = r + k
    OBVIOUS
  <2>14. pc' \in {"poll", "length"} /\ (pc' = "poll" => n < Len(p)) /\ h <= n /\ n <= Len(p)
    BY <2>11, <2>13
  <2>15. Inside(p, s, n)'
    BY <2>3, <2>12, <2>13, <2>14 DEF Inside, Held, PassInv, RestInv, DeliverInv
  <2> QED
    BY <1>1, <2>2, <2>12, <2>13, <2>15, Within, Unhandled
<1> QED
  BY <1>2, <1>3

(* No more is read than the message has.                                   *)
LEMMA ReadRestStep ==
    ASSUME WellFormed, FramingInv, ReadRest
    PROVE  FramingInv'
<1>1. /\ pc = "rest" /\ link' = link /\ handled' = handled /\ total_len' = total_len
      /\ Len(in_buffer) < total_len /\ (Tracked' => Tracked)
  BY DEF ReadRest, Read, Tracked
<1>2. CASE ~Tracked
  BY <1>1, <1>2, Unhandled
<1>3. CASE Tracked
  <2>1. InMessage
    BY <1>1, <1>3 DEF FramingInv, AllRead
  <2>2. PICK p, s, r : Here(p, s, r)
    BY <2>1, IsHere
  <2>3. PICK h \in 2..5 : h = fixed_header_len(p)
    BY <2>2 DEF Here, Good, HeaderEnd
  <2>4. /\ Len(p) \in Nat /\ r \in Nat /\ r = Len(in_buffer) /\ h <= r
        /\ position = s + r /\ link.in_buffer_length \in Nat
        /\ \/ Len(p) <= link.in_buffer_length /\ total_len = Len(p)
           \/ /\ LongPublish(p) /\ h + 2 <= r /\ PayloadAt(p) <= link.in_buffer_length
              /\ total_len = link.in_buffer_length
    BY <1>1, <2>2, <2>3 DEF Here, Good, Inside, Held, RestInv
  <2>5. total_len \in Nat /\ total_len <= Len(p)
    BY <2>4 DEF LongPublish
  <2>6. PICK k \in 1..total_len :
           /\ Read(total_len - Len(in_buffer), k)
           /\ in_buffer' = in_buffer \o Taken(k)
           /\ pc' = IF Len(in_buffer) + k < total_len THEN "poll" ELSE "rest"
    BY Zenon DEF ReadRest
  <2>7. /\ k \in Nat \ {0} /\ r + k <= Len(p) /\ h <= r + k /\ (r + k < total_len => r + k < Len(p))
        /\ position' = position + k
        /\ pc' = IF r + k < total_len THEN "poll" ELSE "rest"
    <3>1. /\ Read(total_len - r, k)
          /\ pc' = IF r + k < total_len THEN "poll" ELSE "rest"
      BY <2>4, <2>6, Zenon
    <3>2. r \in Nat /\ Len(p) \in Nat /\ h <= r
      BY <2>4
    <3>3. k \in 1..total_len - r /\ position' = position + k
      BY <3>1 DEF Read
    <3> QED
      BY <2>3, <2>5, <3>1, <3>2, <3>3
  <2>8. /\ in_buffer' = SubSeq(p, 1, r + k) /\ Len(in_buffer') = r + k
        /\ r + k \in Nat /\ position' \in Nat /\ position' = s + (r + k)
    <3>1. in_buffer' = in_buffer \o Taken(k)
      BY <2>6, Zenon
    <3>2. /\ k \in Nat \ {0} /\ r + k <= Len(p) /\ position' = position + k /\ position = s + r
      BY <2>4, <2>7, Zenon
    <3>3. Fetched(p, s, r, k)
      BY <3>1, <3>2, Zenon DEF Fetched
    <3> QED
      BY <2>2, <3>3, Grown
  <2>9. PICK n : n = r + k
    OBVIOUS
  <2>10. pc' \in {"poll", "rest"} /\ (pc' = "poll" => n < Len(p)) /\ h <= n /\ n <= Len(p)
    BY <2>7, <2>9
  <2>11. \/ Len(p) <= link'.in_buffer_length /\ total_len' = Len(p)
         \/ /\ LongPublish(p)' /\ h + 2 <= n /\ PayloadAt(p) <= link'.in_buffer_length
            /\ total_len' = link'.in_buffer_length
    <3>1. r <= n
      BY <2>4, <2>7, <2>9
    <3>2. LongPublish(p) => LongPublish(p)'
      BY <1>1 DEF LongPublish
    <3>3. h + 2 <= r => h + 2 <= n
      BY <2>3, <2>4, <2>8, <2>9, <3>1
    <3> QED
      BY <1>1, <2>4, <3>2, <3>3
  <2>12. Inside(p, s, n)'
    BY <2>3, <2>8, <2>9, <2>10, <2>11 DEF Inside, Held, PassInv, RestInv, DeliverInv
  <2> QED
    BY <1>1, <2>2, <2>8, <2>9, <2>12, Within, Unhandled
<1> QED
  BY <1>2, <1>3

(* The history of messages, one longer.                                    *)
LEMMA Appended ==
    ASSUME NEW q, IsSeq(q), NEW m
    PROVE  /\ IsSeq(Append(q, m)) /\ Append(q, m) # <<>>
           /\ Len(Append(q, m)) = Len(q) + 1
           /\ \A k \in 1..Len(q) : Append(q, m)[k] = q[k]
           /\ Append(q, m)[Len(q) + 1] = m
<1> DEFINE S == {q[k] : k \in 1..Len(q)} \cup {m}
<1>1. Len(q) \in Nat /\ q = [k \in 1..Len(q) |-> q[k]]
  BY DEF IsSeq
<1>2. q \in Seq(S) /\ m \in S
  BY <1>1
<1> HIDE DEF S
<1>3. PICK a : a = Append(q, m)
  OBVIOUS
<1>4. /\ a \in Seq(S) /\ a # <<>> /\ Len(a) = Len(q) + 1
      /\ \A k \in 1..Len(q) : a[k] = q[k]
      /\ a[Len(q) + 1] = m
  BY <1>2, <1>3, AppendProperties
<1>5. IsSeq(a)
  BY <1>4 DEF IsSeq
<1> QED
  BY <1>3, <1>4, <1>5

(* The message is handled, and the next one begins.                        *)
LEMMA NextMessage ==
    ASSUME WellFormed, FramingInv, NEW m, handled' = Append(handled, m), link' = link,
           pc' = "poll", in_buffer' = <<>>, position' = position,
           Tracked' => Tracked,
           Tracked /\ Tracked' => /\ Len(handled) < Len(link.ends) /\ m = Meaning(Packet)
                                  /\ position = link.ends[Len(handled) + 1]
    PROVE  FramingInv'
<1>1. /\ IsSeq(handled') /\ handled' # <<>> /\ Len(handled') = Len(handled) + 1
      /\ \A k \in 1..Len(handled) : handled'[k] = handled[k]
      /\ handled'[Len(handled) + 1] = m
  BY Appended, Zenon DEF FramingInv
<1>3. Len(handled) \in Nat /\ link \in Links
  BY DEF FramingInv, IsSeq
<1>4. Len(link.ends) \in Nat /\ StartOf(link, Len(link.ends) + 1) = Len(link.bytes)
  BY <1>3, FramingAssumption
<1>5. SUFFICES ASSUME Tracked, Tracked'
               PROVE  HandledSoFar' /\ (AllRead' \/ InMessage')
  BY <1>1, <1>3 DEF FramingInv
<1>6. PICK j \in Nat : j = Len(handled)
  BY <1>3
<1>7. HandledSoFar /\ j < Len(link.ends) /\ m = Meaning(PacketOf(link, j + 1)) /\ position = link.ends[j + 1]
  BY <1>5, <1>6 DEF FramingInv, Packet
<1>8. HandledSoFar'
  <2>1. Len(handled') <= Len(link.ends)
    BY <1>1, <1>4, <1>6, <1>7
  <2>2. ASSUME NEW k \in 1..Len(handled') PROVE handled'[k] = Meaning(PacketOf(link, k))
    <3>1. CASE k = j + 1
      BY <1>1, <1>6, <1>7, <3>1, Zenon
    <3>2. CASE k # j + 1
      <4>1. k \in 1..Len(handled)
        BY <1>1, <1>6, <3>2
      <4> QED
        BY <1>1, <1>7, <4>1, Zenon DEF HandledSoFar
    <3> QED
      BY <3>1, <3>2
  <2> QED
    BY <2>1, <2>2 DEF HandledSoFar
<1>9. CASE j + 1 = Len(link.ends)
  <2>1. StartOf(link, Len(link.ends) + 1) = link.ends[j + 1]
    BY <1>4, <1>6, <1>9 DEF StartOf
  <2> QED
    BY <1>1, <1>4, <1>6, <1>7, <1>8, <1>9, <2>1 DEF AllRead
<1>10. CASE j + 1 # Len(link.ends)
  <2>1. j + 1 + 1 \in 1..Len(link.ends) /\ j + 1 < Len(link.ends) /\ j + 1 \in 1..Len(link.ends)
    BY <1>4, <1>6, <1>7, <1>10
  <2>2. Start' = link.ends[j + 1]
    <3>1. j + 1 + 1 # 1 /\ (j + 1 + 1) - 1 = j + 1
      OBVIOUS
    <3>2. Start' = StartOf(link, j + 1 + 1)
      BY <1>1, <1>6, Zenon DEF Start
    <3> QED
      BY <3>1, <3>2 DEF StartOf
  <2>3. PICK p : p = Packet'
    OBVIOUS
  <2>4. p \in Seq(Byte) /\ Len(p) \in Nat
    <3>1. p = PacketOf(link, j + 1 + 1)
      BY <1>1, <1>6, <2>3, Zenon DEF Packet
    <3> QED
      BY <1>3, <2>1, <3>1, Lies DEF Good
  <2>5. link.ends[j + 1] \in Nat
    BY <1>3, <2>1, Lies
  <2>6. PICK s \in Nat : s = Start'
    BY <2>2, <2>5
  <2>7. in_buffer' = SubSeq(p, 1, 0)
    BY <2>4, SubSeqEmpty
  <2>8. position' = s
    BY <1>7, <2>2, <2>6
  <2>9. Inside(p, s, 0)'
    BY <2>4, <2>7, <2>8 DEF Inside, Held, PassInv, RestInv, DeliverInv
  <2>10. Len(in_buffer') = 0
    OBVIOUS
  <2>11. InMessage'
    BY <1>1, <1>6, <2>1, <2>3, <2>6, <2>8, <2>9, <2>10 DEF InMessage
  <2> QED
    BY <1>8, <2>11
<1> QED
  BY <1>9, <1>10

(* A message that is no PUBLISH is handled whole.                          *)
LEMMA HandleStep ==
    ASSUME WellFormed, FramingInv, Handle
    PROVE  FramingInv'
<1>1. /\ pc = "rest" /\ Len(in_buffer) >= total_len /\ ~Is(in_buffer, "PUBLISH")
      /\ link' = link /\ position' = position /\ in_buffer' = <<>> /\ pc' = "poll"
      /\ Tracked' => Tracked
  BY DEF Handle, Complete, Handled, Tracked
<1>2. PICK data : data = IF Is(in_buffer, "SUBACK") THEN mqtt_get_suback_data(in_buffer) ELSE <<>>
  OBVIOUS
<1>3. Handled(data)
  BY <1>2, Zenon DEF Handle
<1>4. Identifiers(in_buffer) = {mqtt_get_id(in_buffer)}
  BY <1>1 DEF Identifiers
<1>5. PICK m : /\ handled' = Append(handled, m)
               /\ m = [type |-> mqtt_get_type(in_buffer), id |-> mqtt_get_id(in_buffer), data |-> data]
  BY <1>3, <1>4, Zenon DEF Handled
<1>6. ASSUME Tracked
      PROVE  /\ Len(handled) < Len(link.ends) /\ m = Meaning(Packet)
             /\ position = link.ends[Len(handled) + 1]
  <2>1. InMessage
    BY <1>1, <1>6 DEF FramingInv, AllRead
  <2>2. PICK p, s, r : Here(p, s, r)
    BY <2>1, IsHere
  <2>3. PICK h \in 2..5 : h = fixed_header_len(p) /\ HeaderEnd(p, h)
    BY <2>2 DEF Here, Good, HeaderEnd
  <2>4. /\ p \in Seq(Byte) /\ Len(p) \in Nat /\ r \in Nat /\ r = Len(in_buffer) /\ r <= Len(p)
        /\ h <= r /\ in_buffer = SubSeq(p, 1, r) /\ position = s + r
        /\ \/ total_len = Len(p)
           \/ LongPublish(p)
        /\ p = Packet /\ Len(handled) < Len(link.ends) /\ s + Len(p) = link.ends[Len(handled) + 1]
    BY <1>1, <2>2, <2>3 DEF Here, Good, Inside, Held, RestInv
  <2>5. r \in 1..Len(p)
    BY <2>3, <2>4
  <2>6. mqtt_get_type(in_buffer) = mqtt_get_type(p)
    BY <2>3, <2>4, <2>5, HeaderRead
  <2>7. ~LongPublish(p)
    BY <1>1, <2>6 DEF LongPublish, Is
  <2>8. r = Len(p)
    BY <1>1, <2>4, <2>7
  <2>9. in_buffer = p
    <3>1. SubSeq(p, 1, Len(p)) = p
      BY <2>4, SubSeqFull
    <3> QED
      BY <2>4, <2>8, <3>1, Zenon
  <2>10. m = Meaning(p)
    <3>1. data = CASE Is(p, "PUBLISH") -> mqtt_get_publish_data(p)
                   [] Is(p, "SUBACK") -> mqtt_get_suback_data(p)
                   [] OTHER -> <<>>
      BY <1>1, <1>2, <2>9, Zenon
    <3> QED
      BY <1>5, <2>9, <3>1, Zenon DEF Meaning
  <2>11. position = link.ends[Len(handled) + 1]
    BY <2>4, <2>8, Zenon
  <2> QED
    BY <2>4, <2>10, <2>11, Zenon
<1> QED
  BY <1>1, <1>5, <1>6, NextMessage

(* The first event has what the buffer holds of the payload.               *)
LEMMA DeliverFirstStep ==
    ASSUME WellFormed, FramingInv, DeliverFirst
    PROVE  FramingInv'
<1>1. /\ pc = "rest" /\ Len(in_buffer) >= total_len /\ Is(in_buffer, "PUBLISH")
      /\ link' = link /\ position' = position /\ in_buffer' = in_buffer /\ handled' = handled
      /\ Tracked' => Tracked
  BY DEF DeliverFirst, Complete, Tracked
<1>2. CASE ~Tracked
  BY <1>1, <1>2, Unhandled
<1>3. CASE Tracked
  <2>1. InMessage
    BY <1>1, <1>3 DEF FramingInv, AllRead
  <2>2. PICK p, s, r : Here(p, s, r)
    BY <2>1, IsHere
  <2>3. PICK h \in 2..5 : h = fixed_header_len(p) /\ HeaderEnd(p, h)
    BY <2>2 DEF Here, Good, HeaderEnd
  <2>4. /\ p \in Seq(Byte) /\ Len(p) \in Nat /\ r \in Nat /\ r = Len(in_buffer) /\ r <= Len(p)
        /\ h <= r /\ in_buffer = SubSeq(p, 1, r) /\ position = s + r /\ s \in Nat
        /\ \/ total_len = Len(p)
           \/ /\ LongPublish(p) /\ total_len = link.in_buffer_length
              /\ PayloadAt(p) <= link.in_buffer_length
        /\ link.in_buffer_length \in Nat /\ Good(p)
        /\ mqtt_get_total_length(p) = Len(p)
    BY <1>1, <2>2, <2>3 DEF Here, Good, Inside, Held, RestInv
  <2>5. r \in 1..Len(p)
    BY <2>3, <2>4
  <2>6. mqtt_get_type(in_buffer) = mqtt_get_type(p) /\ mqtt_get_total_length(in_buffer) = Len(p)
    BY <2>3, <2>4, <2>5, HeaderRead
  <2>7. Is(p, "PUBLISH")
    BY <1>1, <2>6 DEF Is
  <2>8. PICK g : g = PayloadAt(p)
    OBVIOUS
  <2>9. h + 2 < g /\ g \in Nat
    BY <2>3, <2>4, <2>7, <2>8, PublishHead
  <2>10. topiclen(p) > 0 /\ g <= Len(p)
    BY <2>4, <2>7, <2>8 DEF Good
  <2>11. g <= r /\ h + 2 <= r
    <3>1. r >= total_len /\ r \in Nat /\ Len(p) \in Nat /\ link.in_buffer_length \in Nat
      BY <1>1, <2>4
    <3>2. CASE total_len = Len(p)
      BY <2>3, <2>9, <2>10, <3>1, <3>2
    <3>3. CASE PayloadAt(p) <= link.in_buffer_length /\ total_len = link.in_buffer_length
      BY <2>3, <2>8, <2>9, <3>1, <3>3
    <3> QED
      BY <2>4, <3>2, <3>3
  <2>12. /\ mqtt_get_publish_topic(in_buffer) # {}
         /\ mqtt_get_publish_data(in_buffer) = SubSeq(p, g + 1, r)
    BY <2>3, <2>4, <2>5, <2>7, <2>8, <2>10, <2>11, PublishRead
  <2>13. PICK data : data = mqtt_get_publish_data(in_buffer)
    OBVIOUS
  <2>14. /\ event' = [offset |-> 0, data |-> data, total |-> Len(data) + (Len(p) - r)]
         /\ given' = data /\ left' = Len(p) - r /\ pc' = "deliver"
    BY <2>4, <2>6, <2>12, <2>13, Zenon DEF DeliverFirst
  <2>15. data = SubSeq(p, g + 1, r)
    BY <2>12, <2>13
  <2>16. data \in Seq(Byte) /\ Len(data) = r - g
    BY <2>4, <2>9, <2>11, <2>15, PartLength
  <2>17. SubSeq(data, 0 + 1, Len(data)) = data
    BY <2>16, SubSeqFull
  <2>18. position' - s = r
    BY <1>1, <2>4
  <2>19. /\ event'.offset = 0 /\ event'.data = data /\ event'.total = Len(data) + (Len(p) - r)
    BY <2>14
  <2>20. /\ event'.offset \in 0..Len(given')
         /\ event'.offset + Len(event'.data) = Len(given')
    BY <2>14, <2>16, <2>19, <2>9, <2>11, <2>4
  <2>21. event'.data = SubSeq(given', event'.offset + 1, Len(given'))
    BY <2>14, <2>17, <2>19, Zenon
  <2>22. event'.total = Len(p) - g
    BY <2>4, <2>9, <2>16, <2>19
  <2>23. position' - s \in g..Len(p) /\ left' = Len(p) - (position' - s)
    BY <2>4, <2>9, <2>11, <2>14, <2>18
  <2>24. given' = SubSeq(p, g + 1, position' - s)
    BY <2>14, <2>15, <2>18, Zenon
  <2>25. DeliverInv(p, s, r)'
    BY <2>7, <2>8, <2>11, <2>20, <2>21, <2>22, <2>23, <2>24, Zenon DEF DeliverInv
  <2>26. Inside(p, s, r)'
    BY <1>1, <2>4, <2>14, <2>25 DEF Inside, Held, PassInv, RestInv
  <2>27. position' \in Nat
    BY <1>1, <2>4
  <2> QED
    BY <1>1, <2>2, <2>4, <2>26, <2>27, Within, Unhandled
<1> QED
  BY <1>2, <1>3

(* A further event begins where the one before ended.                      *)
LEMMA DeliverMoreStep ==
    ASSUME WellFormed, FramingInv, DeliverMore
    PROVE  FramingInv'
<1>1. /\ pc = "deliver" /\ left > 0 /\ pc' = "deliver"
      /\ link' = link /\ in_buffer' = in_buffer /\ handled' = handled
      /\ Tracked' => Tracked
  BY DEF DeliverMore, Read, Tracked
<1>2. CASE ~Tracked
  BY <1>1, <1>2, Unhandled
<1>3. CASE Tracked
  <2>1. InMessage
    BY <1>1, <1>3 DEF FramingInv, AllRead
  <2>2. PICK p, s, r : Here(p, s, r)
    BY <2>1, IsHere
  <2>3. PICK g : g = PayloadAt(p)
    OBVIOUS
  <2>4. PICK d : d = position - s
    OBVIOUS
  <2>5. /\ p \in Seq(Byte) /\ Len(p) \in Nat /\ r \in Nat /\ r = Len(in_buffer) /\ r <= Len(p)
        /\ in_buffer = SubSeq(p, 1, r) /\ s \in Nat /\ position \in Nat
        /\ Is(p, "PUBLISH") /\ g <= r /\ Good(p)
        /\ link.in_buffer_length \in Nat
    BY <1>1, <2>2, <2>3 DEF Here, Good, Inside, Held, DeliverInv
  <2>6. g \in Nat
    BY <2>3, <2>5, PublishHead
  <2>7. /\ d \in g..Len(p) /\ left = Len(p) - d
        /\ given = SubSeq(p, g + 1, d)
        /\ event.offset + Len(event.data) = Len(given)
        /\ event.total = Len(p) - g
    BY <1>1, <2>2, <2>3, <2>4 DEF Here, Inside, DeliverInv
  <2>8. d \in Nat /\ position = s + d
    <3> d \in g..Len(p) /\ Len(p) \in Nat /\ s \in Nat /\ position \in Nat
      BY <2>5, <2>7
    <3> QED
      BY <2>4, <2>6
  <2>9. PICK k \in 1..link.in_buffer_length :
          /\ Read(IF left > link.in_buffer_length THEN link.in_buffer_length ELSE left, k)
          /\ left' = left - k
          /\ event' = [offset |-> event.offset + Len(event.data), data |-> Taken(k),
                       total |-> event.total]
          /\ given' = given \o Taken(k)
    BY Zenon DEF DeliverMore
  <2>10. k \in Nat /\ k >= 1 /\ d + k <= Len(p) /\ position' = position + k /\ left' = left - k
    <3>1. Read(IF left > link.in_buffer_length THEN link.in_buffer_length ELSE left, k) /\ left' = left - k
      BY <2>9, Zenon
    <3>2. PICK n \in Nat : n = link.in_buffer_length
      BY <2>5
    <3>3. PICK y \in Nat : y = Len(p)
      BY <2>5
    <3>4. left = y - d /\ left \in Int
      BY <2>7, <2>8, <3>3
    <3>5. k \in 1..(IF left > n THEN n ELSE left) /\ position' = position + k
      BY <3>1, <3>2 DEF Read
    <3>6. k \in Nat /\ k >= 1 /\ k <= left
      BY <3>4, <3>5
    <3> QED
      BY <2>8, <3>1, <3>3, <3>4, <3>5, <3>6
  <2>11. PICK e : e = d + k
    OBVIOUS
  <2>12. e \in Nat /\ e <= Len(p) /\ d <= e /\ g <= d /\ g <= e
    <3> d \in g..Len(p) /\ Len(p) \in Nat
      BY <2>5, <2>7
    <3> QED
      BY <2>6, <2>8, <2>10, <2>11
  <2>13. Taken(k) = SubSeq(p, d + 1, e)
    BY <2>2, <2>8, <2>10, <2>11, Takes
  <2>14. given' = SubSeq(p, g + 1, e)
    <3>1. PICK u : u = g + 1
      OBVIOUS
    <3>2. u \in Nat \ {0} /\ u <= d + 1
      BY <2>6, <2>8, <2>12, <3>1
    <3>3. SubSeq(p, u, d) \o SubSeq(p, d + 1, d + k) = SubSeq(p, u, d + k)
      BY <2>5, <2>8, <2>10, <3>2, Grows
    <3> QED
      BY <2>7, <2>9, <2>11, <2>13, <3>1, <3>3, Zenon
  <2>15. Len(given) = d - g /\ Len(given') = e - g
    <3>1. Len(SubSeq(p, g + 1, d)) = d - g
      BY <2>5, <2>6, <2>8, <2>12, PartLength
    <3>2. Len(SubSeq(p, g + 1, e)) = e - g
      BY <2>5, <2>6, <2>12, PartLength
    <3> QED
      BY <2>7, <2>14, <3>1, <3>2, Zenon
  <2>16. event'.offset = d - g /\ event'.data = SubSeq(p, d + 1, e) /\ event'.total = Len(p) - g
    <3>1. /\ event'.offset = event.offset + Len(event.data) /\ event'.data = Taken(k)
          /\ event'.total = event.total
      BY <2>9
    <3> QED
      BY <2>7, <2>13, <2>15, <3>1, Zenon
  <2>17. event'.data = SubSeq(given', event'.offset + 1, Len(given'))
    <3>1. PICK a \in Nat : a = d - g
      BY <2>6, <2>8, <2>12
    <3>2. PICK b \in Nat : b = e - g
      BY <2>6, <2>8, <2>12
    <3>3. a <= b /\ b <= e - g /\ g + a = d /\ g + b = e
      BY <2>6, <2>8, <2>12, <3>1, <3>2
    <3>4. SubSeq(SubSeq(p, g + 1, e), a + 1, b) = SubSeq(p, g + a + 1, g + b)
      BY <2>5, <2>6, <2>12, <3>3, PartOfPart
    <3>5. SubSeq(given', a + 1, b) = SubSeq(p, d + 1, e)
      BY <2>14, <3>3, <3>4, Zenon
    <3> QED
      BY <2>15, <2>16, <3>1, <3>2, <3>5, Zenon
  <2>18. event'.offset \in 0..Len(given') /\ event'.offset + Len(event'.data) = Len(given')
    <3>1. Len(SubSeq(p, d + 1, e)) = e - d
      BY <2>5, <2>8, <2>12, PartLength
    <3>2. event'.offset = d - g /\ Len(event'.data) = e - d /\ Len(given') = e - g
      BY <2>15, <2>16, <3>1, Zenon
    <3> QED
      BY <2>6, <2>8, <2>12, <3>2
  <2>19. position' - s = e
    <3> s \in Nat
      BY <2>5
    <3> QED
      BY <2>8, <2>10, <2>11
  <2>20. position' - s \in g..Len(p) /\ left' = Len(p) - (position' - s)
    <3> Len(p) \in Nat /\ left = Len(p) - d
      BY <2>5, <2>7
    <3> QED
      BY <2>6, <2>8, <2>10, <2>11, <2>12, <2>19
  <2>21. given' = SubSeq(p, g + 1, position' - s)
    BY <2>14, <2>19, Zenon
  <2>22. event'.total = Len(p) - g /\ Is(p, "PUBLISH") /\ g <= r
    BY <2>5, <2>16, Zenon
  <2>23. DeliverInv(p, s, r)'
    BY <2>3, <2>17, <2>18, <2>20, <2>21, <2>22, Zenon DEF DeliverInv
  <2>24. Held(p, s, r)' /\ PassInv(p, r)' /\ RestInv(p, r)'
    BY <1>1, <2>5 DEF Held, PassInv, RestInv
  <2>25. Inside(p, s, r)'
    BY <2>23, <2>24 DEF Inside
  <2>26. position' \in Nat
    BY <2>5, <2>8, <2>10
  <2> QED
    BY <1>1, <2>2, <2>5, <2>25, <2>26, Within, Unhandled
<1> QED
  BY <1>2, <1>3

(* The payload is what the events hand over until none of it is left.      *)
LEMMA PayloadIs ==
    ASSUME NEW p, Good(p), Is(p, "PUBLISH")
    PROVE  mqtt_get_publish_data(p) = SubSeq(p, PayloadAt(p) + 1, Len(p))
<1>1. PICK h \in 2..5 : h = fixed_header_len(p) /\ HeaderEnd(p, h)
  BY DEF Good, HeaderEnd
<1>2. PICK r : r = Len(p)
  OBVIOUS
<1>3. /\ p \in Seq(Byte) /\ Len(p) \in Nat /\ topiclen(p) > 0 /\ PayloadAt(p) <= r
      /\ mqtt_get_total_length(p) = Len(p)
  BY <1>2 DEF Good
<1>4. h + 2 < Len(p)
  BY <1>1, PublishHead
<1>5. r \in 1..Len(p) /\ h + 2 <= r
  BY <1>1, <1>2, <1>3, <1>4
<1>6. mqtt_get_publish_data(SubSeq(p, 1, r)) = SubSeq(p, PayloadAt(p) + 1, r)
  BY <1>1, <1>3, <1>5, PublishRead
<1>7. SubSeq(p, 1, r) = p
  BY <1>2, <1>3, SubSeqFull
<1> QED
  BY <1>2, <1>6, <1>7, Zenon

(* When nothing is left, the events were the whole payload.                *)
LEMMA DeliverDoneStep ==
    ASSUME WellFormed, FramingInv, DeliverDone
    PROVE  FramingInv'
<1>1. /\ pc = "deliver" /\ left = 0 /\ Handled(given)
      /\ link' = link /\ position' = position /\ (Tracked' => Tracked)
  BY DEF DeliverDone, Tracked
<1>2. PICK id \in Identifiers(in_buffer) :
        handled' = Append(handled, [type |-> mqtt_get_type(in_buffer), id |-> id, data |-> given])
  BY <1>1, Zenon DEF Handled
<1>3. PICK m : m = [type |-> mqtt_get_type(in_buffer), id |-> id, data |-> given]
  OBVIOUS
<1>4. handled' = Append(handled, m) /\ pc' = "poll" /\ in_buffer' = <<>>
  BY <1>1, <1>2, <1>3, Zenon DEF Handled
<1>5. ASSUME Tracked
      PROVE  /\ Len(handled) < Len(link.ends) /\ m = Meaning(Packet)
             /\ position = link.ends[Len(handled) + 1]
  <2>1. InMessage
    BY <1>1, <1>5 DEF FramingInv, AllRead
  <2>2. PICK p, s, r : Here(p, s, r)
    BY <2>1, IsHere
  <2>3. PICK h \in 2..5 : h = fixed_header_len(p) /\ HeaderEnd(p, h)
    BY <2>2 DEF Here, Good, HeaderEnd
  <2>4. /\ p \in Seq(Byte) /\ Len(p) \in Nat /\ r \in Nat /\ r <= Len(p)
        /\ in_buffer = SubSeq(p, 1, r) /\ s \in Nat /\ position \in Nat
        /\ Is(p, "PUBLISH") /\ PayloadAt(p) <= r /\ Good(p)
        /\ topiclen(p) > 0 /\ mqtt_get_total_length(p) = Len(p)
        /\ p = Packet /\ Len(handled) < Len(link.ends) /\ s + Len(p) = link.ends[Len(handled) + 1]
    BY <1>1, <2>2 DEF Here, Good, Inside, Held, DeliverInv
  <2>5. /\ position - s \in PayloadAt(p)..Len(p) /\ left = Len(p) - (position - s)
        /\ given = SubSeq(p, PayloadAt(p) + 1, position - s)
    BY <1>1, <2>2 DEF Here, Inside, DeliverInv
  <2>6. h + 2 < PayloadAt(p) /\ PayloadAt(p) \in Nat
    BY <2>3, <2>4, PublishHead
  <2>7. r \in 1..Len(p) /\ h + 2 <= r
    <3> Len(p) \in Nat /\ r \in Nat /\ PayloadAt(p) <= r /\ r <= Len(p)
      BY <2>4
    <3> QED
      BY <2>3, <2>6
  <2>8. position - s = Len(p) /\ position = s + Len(p)
    <3> Len(p) \in Nat /\ s \in Nat /\ position \in Nat
      BY <2>4
    <3> QED
      BY <1>1, <2>5
  <2>9. given = mqtt_get_publish_data(p)
    <3>1. mqtt_get_publish_data(p) = SubSeq(p, PayloadAt(p) + 1, Len(p))
      BY <2>4, PayloadIs
    <3> QED
      BY <2>5, <2>8, <3>1, Zenon
  <2>10. Identifiers(in_buffer) = {mqtt_get_id(p)}
    BY <2>3, <2>4, <2>7, PublishRead
  <2>11. mqtt_get_type(in_buffer) = mqtt_get_type(p)
    BY <2>3, <2>4, <2>7, HeaderRead
  <2>12. id = mqtt_get_id(p)
    BY <1>2, <2>10
  <2>13. given = CASE Is(p, "PUBLISH") -> mqtt_get_publish_data(p)
                   [] Is(p, "SUBACK") -> mqtt_get_suback_data(p)
                   [] OTHER -> <<>>
    <3>1. ~Is(p, "SUBACK")
      <4> Type["PUBLISH"] # Type["SUBACK"]
        BY DEF Type
      <4> QED
        BY <2>4, Zenon DEF Is
    <3> QED
      BY <2>4, <2>9, <3>1, Zenon
  <2>14. m = Meaning(p)
    BY <1>3, <2>11, <2>12, <2>13, Zenon DEF Meaning
  <2> QED
    BY <2>4, <2>8, <2>14, Zenon
<1> QED
  BY <1>1, <1>4, <1>5, NextMessage

(* When a payload comes too late, the client loses its place.              *)
LEMMA DeliverStallsStep ==
    ASSUME WellFormed, FramingInv, DeliverStalls
    PROVE  FramingInv'
<1>1. Handled(given) /\ link' = link /\ position' = position /\ ~Tracked'
  BY DEF DeliverStalls, Tracked
<1>2. PICK id \in Identifiers(in_buffer) :
        handled' = Append(handled, [type |-> mqtt_get_type(in_buffer), id |-> id, data |-> given])
  BY <1>1, Zenon DEF Handled
<1>3. PICK m : m = [type |-> mqtt_get_type(in_buffer), id |-> id, data |-> given]
  OBVIOUS
<1>4. handled' = Append(handled, m) /\ pc' = "poll" /\ in_buffer' = <<>>
  BY <1>1, <1>2, <1>3, Zenon DEF Handled
<1> QED
  BY <1>1, <1>4, NextMessage

(* What the invariant says of the events is what EventsTile says.          *)
LEMMA EventsInTile ==
    ASSUME WellFormed, FramingInv, Tracked, pc = "deliver"
    PROVE  EventsTile
<1>1. InMessage
  BY DEF FramingInv, AllRead
<1>2. PICK p, s, r : Here(p, s, r)
  BY <1>1, IsHere
<1>3. PICK g : g = PayloadAt(p)
  OBVIOUS
<1>4. PICK d : d = position - s
  OBVIOUS
<1>5. /\ p \in Seq(Byte) /\ Len(p) \in Nat /\ Is(p, "PUBLISH") /\ Good(p)
      /\ p = Packet
  BY <1>2 DEF Here, Good, Inside, DeliverInv
<1>6. g \in Nat
  BY <1>3, <1>5, PublishHead
<1>7. /\ d \in g..Len(p)
      /\ given = SubSeq(p, g + 1, d)
      /\ event.offset \in 0..Len(given)
      /\ event.offset + Len(event.data) = Len(given)
      /\ event.data = SubSeq(given, event.offset + 1, Len(given))
      /\ event.total = Len(p) - g
  BY <1>2, <1>3, <1>4 DEF Here, Inside, DeliverInv
<1>8. PICK y \in Nat : y = Len(p)
  BY <1>5
<1>9. d \in Nat /\ g <= d /\ d <= y /\ g <= y /\ y <= Len(p)
  <2> d \in g..y
    BY <1>7, <1>8
  <2> QED
    BY <1>6, <1>8
<1>10. PICK q : q = mqtt_get_publish_data(p)
  OBVIOUS
<1>11. q = SubSeq(p, g + 1, y)
  BY <1>3, <1>5, <1>8, <1>10, PayloadIs
<1>12. q \in Seq(Byte) /\ Len(q) = y - g
  BY <1>5, <1>6, <1>9, <1>11, PartLength
<1>13. Len(given) = d - g
  <2>1. Len(SubSeq(p, g + 1, d)) = d - g
    BY <1>5, <1>6, <1>8, <1>9, PartLength
  <2> QED
    BY <1>7, <2>1, Zenon
<1>14. PICK n \in Nat : n = d - g
  BY <1>6, <1>9
<1>15. n <= y - g /\ g + n = d /\ n <= Len(q) /\ Len(q) \in Nat
  BY <1>6, <1>9, <1>12, <1>14
<1>16. PICK z \in Nat : z = 0
  OBVIOUS
<1>17. given = SubSeq(q, z + 1, n)
  <2>1. z <= n /\ g + z = g
    BY <1>6, <1>14, <1>16
  <2>2. SubSeq(SubSeq(p, g + 1, y), z + 1, n) = SubSeq(p, g + z + 1, g + n)
    BY <1>5, <1>6, <1>9, <1>15, <2>1, PartOfPart
  <2> QED
    BY <1>7, <1>11, <1>15, <2>1, <2>2, Zenon
<1>18. PICK o \in Nat : o = event.offset
  BY <1>7, <1>13, <1>14
<1>19. o <= n
  <2>1. o \in 0..n
    BY <1>7, <1>13, <1>14, <1>18, Zenon
  <2> QED
    BY <2>1
<1>20. event.data = SubSeq(q, o + 1, n)
  <2>1. z <= n /\ n <= Len(q) /\ n <= n - z /\ z + o = o /\ z + n = n
    BY <1>14, <1>15, <1>16, <1>18
  <2>2. SubSeq(SubSeq(q, z + 1, n), o + 1, n) = SubSeq(q, z + o + 1, z + n)
    BY <1>12, <1>19, <2>1, PartOfPart
  <2>3. event.data = SubSeq(given, o + 1, n)
    BY <1>7, <1>13, <1>14, <1>18, Zenon
  <2> QED
    BY <1>17, <2>1, <2>2, <2>3, Zenon
<1>21. given = SubSeq(q, 1, n) /\ n = Len(given)
  <2>1. z + 1 = 1
    BY <1>16
  <2> QED
    BY <1>13, <1>14, <1>17, <2>1, Zenon
<1>22. event.total = Len(q)
  BY <1>7, <1>8, <1>12
<1>23. q = mqtt_get_publish_data(PacketOf(link, Len(handled) + 1))
  BY <1>5, <1>10 DEF Packet
<1>24. event.offset + Len(event.data) = Len(given)
  BY <1>7
<1> QED
  BY <1>15, <1>18, <1>20, <1>21, <1>22, <1>23, <1>24, Zenon DEF EventsTile

(* Every step of mqtt_process_receive keeps the invariant.                 *)
LEMMA FramingStep ==
    ASSUME WellFormed, FramingInv, [FramingNext]_framingVars
    PROVE  FramingInv'
<1>1. CASE UNCHANGED framingVars
  <2>1. /\ link' = link /\ handled' = handled /\ pc' = pc /\ in_buffer' = in_buffer
        /\ position' = position /\ total_len' = total_len /\ left' = left
        /\ given' = given /\ event' = event /\ derailed' = derailed
    BY <1>1 DEF framingVars
  <2>2. AllRead => AllRead'
    BY <2>1 DEF AllRead
  <2>3. InMessage => InMessage'
    BY <2>1 DEF InMessage, Inside, Held, PassInv, RestInv, LongPublish, DeliverInv, Packet, Start
  <2> QED
    BY <2>1, <2>2, <2>3, Unhandled DEF FramingInv, Tracked
<1> QED
  BY <1>1, PollStep, TimeoutStep, ReadFirstStep, ReadRemainingStep, LengthStep, ReadTopicLengthStep,
     ReadRestStep, HandleStep, DeliverFirstStep, DeliverMoreStep, DeliverDoneStep, DeliverStallsStep
     DEF FramingNext, Reads, Steps

(* For any connection whose broker sends messages the protocol allows, any *)
(* in buffer of nine bytes or more and any way esp_transport_read cuts the *)
(* stream up: mqtt_process_receive handles the messages as they were sent, *)
(* in order and once, and the events deliver_publish makes of a long one   *)
(* tile its payload, unless and until one of the three steps that derailed *)
(* records has been taken.                                                 *)
THEOREM FramingHandledAsSent == WellFormed => (FramingSafety => []HandledAsSent)
<1> SUFFICES ASSUME WellFormed PROVE FramingSafety => []HandledAsSent
  OBVIOUS
<1>1. FramingInit => FramingInv
  BY InitStep
<1>2. FramingInv /\ [FramingNext]_framingVars => FramingInv'
  BY FramingStep
<1>3. FramingInv => HandledAsSent
  BY EventsInTile DEF FramingInv, HandledAsSent, HandledSoFar, Tracked
<1> QED
  BY <1>1, <1>2, <1>3, PTL DEF FramingSafety
=============================================================================
