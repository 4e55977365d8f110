-------------------------- MODULE OutboundMessage --------------------------
(***************************************************************************)
(* connection.outbound_message of the esp-mqtt client: the message under   *)
(* construction, shared by everything the client sends (lib/mqtt_msg.c and *)
(* mqtt_client.c).  Two of its fields survive from one message to the      *)
(* next, fragmented_msg_total_length and fragmented_msg_data_offset.  A    *)
(* message is its lengths: what its fixed header announces, and the bytes  *)
(* that follow it on the wire.  Each action is one holding of the API      *)
(* lock.  The offset is used in differences only, so that its wrapping     *)
(* (size_t) does not show and it is an integer here.                       *)
(***************************************************************************)
EXTENDS Integers, Sequences

CONSTANTS buffer_length,
          TopicLengths,      \* of a PUBLISH: topic, its length and the identifier
          DataLengths,       \* of its payload
          ControlLengths,    \* of the other messages
          MaxQueue,          \* bound: items in the outbox
          MinOffset          \* bound: how far messages that fit lower the offset

ASSUME OutboundAssumption ==
    /\ buffer_length \in Nat
    /\ TopicLengths \subseteq Nat /\ DataLengths \subseteq Nat /\ ControlLengths \subseteq Nat
    /\ MaxQueue \in Nat /\ MinOffset \in Int

VARIABLES total,       \* fragmented_msg_total_length
          offset,      \* fragmented_msg_data_offset
          connected,
          outbox,      \* messages stored
          wire,        \* the last message written
          abandoned,   \* history: a long message was made and neither stored nor
                       \* published, and nothing with a payload was made since
          unwritten    \* history: the topic length of the last long message that was
                       \* not written when made, 0 once a publish is written

outVars == <<total, offset, connected, outbox, wire, abandoned, unwritten>>

HEADER == 5            \* MQTT_MAX_FIXED_HEADER_SIZE

(* A message also carries fragmented_msg_total_length as it was when its   *)
(* header was made, and whether the application had left a long message    *)
(* behind whose field it could find.                                       *)
Message == [announced : Int, follows : Int, total : Nat, stale : BOOLEAN]
NoMessage == [announced |-> 0, follows |-> 0, total |-> 0, stale |-> FALSE]

OutInit == /\ total = 0 /\ offset = 0
           /\ connected = FALSE
           /\ outbox = <<>>
           /\ wire = NoMessage
           /\ abandoned = FALSE /\ unwritten = 0

(* A publish with data == NULL; of any other d is the payload's length.    *)
NULL == -1
len(d) == IF d = NULL THEN 0 ELSE d
Data == DataLengths \cup {NULL}

(* fini_message: the size of the encoded length, the length announced for  *)
(* n bytes in the buffer, and the offset, moved with the start of the      *)
(* message.                                                                *)
len_bytes(n) == IF n < 128 THEN 1 ELSE IF n < 16384 THEN 2 ELSE IF n < 2097152 THEN 3 ELSE 4
announced(t, n) == IF t # 0 THEN t - HEADER ELSE n
moved(off, n) == off - (HEADER - 1 - len_bytes(n))

(* mqtt_msg_publish: the fields it leaves, and the bytes in the buffer.    *)
(* Without a payload neither field is touched.                             *)
Fragmented(h, d) == d # NULL /\ HEADER + h + d > buffer_length
made_total(h, d) == IF d = NULL THEN total
                    ELSE IF Fragmented(h, d) THEN d + HEADER + h ELSE 0
made_body(h, d) == IF Fragmented(h, d) THEN buffer_length - HEADER ELSE h + len(d)
made_announced(h, d) == announced(made_total(h, d), made_body(h, d))
made_offset(h, d) == moved(IF Fragmented(h, d) THEN HEADER + h ELSE offset, made_announced(h, d))
(* outbound_message.length                                                 *)
made_length(h, d) == made_body(h, d) + len_bytes(made_announced(h, d)) + 1

(* Mutant: the header of a fragmented message is taken for payload.        *)
data_sentWithHeader(h, d) == made_length(h, d)

(* The payload bytes the code takes to be in the buffer, and the rest.     *)
data_sent(h, d) == made_length(h, d) - made_offset(h, d)
remaining(h, d) == len(d) - data_sent(h, d)

Made(h, d, rest) == [announced |-> made_announced(h, d), follows |-> made_body(h, d) + rest,
                     total |-> made_total(h, d),
                     stale |-> \/ d = NULL /\ abandoned
                               \/ ~Fragmented(h, d) /\ unwritten > h]

(* mqtt_client_enqueue_publish stores the buffer, and with a total the     *)
(* payload past it.                                                        *)
Stored(h, d) == Made(h, d, IF made_total(h, d) # 0 THEN remaining(h, d) ELSE 0)

(* esp_mqtt_client_publish writes the buffer and then the payload that     *)
(* remains by its count, if any.                                           *)
Written(h, d) == Made(h, d, IF remaining(h, d) > 0 THEN remaining(h, d) ELSE 0)

(* Either takes the rest from the address data + data_sent, which is no    *)
(* memory of the node when data is NULL.                                   *)
FaultsStored(h, d) == d = NULL /\ made_total(h, d) # 0 /\ data_sent(h, d) # 0
FaultsWritten(h, d) == d = NULL /\ remaining(h, d) > 0

Fits(h) == HEADER + h <= buffer_length

-----------------------------------------------------------------------------
Store(h, d) == /\ Len(outbox) < MaxQueue /\ ~FaultsStored(h, d)
               /\ outbox' = Append(outbox, Stored(h, d))

(* What a message leaves behind that is made and not written.              *)
Leaves(h, d) == /\ offset' = made_offset(h, d)
                /\ unwritten' = IF Fragmented(h, d) THEN h ELSE unwritten

(* Mutant: the fields are not cleared after the message.                   *)
PublishKeepsFields(h, d, qos) ==
    /\ Fits(h)
    /\ IF qos > 0 THEN Store(h, d) ELSE UNCHANGED outbox
    /\ wire' = IF connected THEN Written(h, d) ELSE wire
    /\ total' = made_total(h, d) /\ offset' = made_offset(h, d)
    /\ abandoned' = FALSE /\ unwritten' = IF connected THEN 0 ELSE unwritten
    /\ UNCHANGED connected

(* esp_mqtt_client_publish: written at once, or left to the outbox because *)
(* there is no connection, or the write of one of its parts fails.         *)
Publish(h, d, qos) ==
    /\ Fits(h)
    /\ IF qos > 0 THEN Store(h, d) ELSE UNCHANGED outbox
    /\ total' = 0 /\ abandoned' = FALSE
    /\ \/ /\ connected /\ ~FaultsWritten(h, d)
          /\ wire' = Written(h, d) /\ offset' = 0 /\ unwritten' = 0
          /\ UNCHANGED connected
       \/ /\ ~connected
          /\ Leaves(h, d)
          /\ UNCHANGED <<connected, wire>>
       \/ /\ connected /\ connected' = FALSE
          /\ \/ Leaves(h, d)
             \/ /\ remaining(h, d) > 0 /\ ~FaultsWritten(h, d)
                /\ offset' = 0 /\ unwritten' = 0
          /\ UNCHANGED wire

(* esp_mqtt_client_enqueue; with qos 0 and store false nothing is stored.  *)
Enqueue(h, d, stored) ==
    /\ Fits(h)
    /\ Leaves(h, d)
    /\ IF stored THEN Store(h, d) /\ total' = 0 /\ abandoned' = FALSE
       ELSE /\ total' = made_total(h, d)
            /\ abandoned' = IF d = NULL THEN abandoned ELSE Fragmented(h, d)
            /\ UNCHANGED outbox
    /\ UNCHANGED <<connected, wire>>

(* outbox_enqueue fails to allocate: the call returns from where it is.    *)
EnqueueFails(h, d) ==
    /\ Fits(h)
    /\ Leaves(h, d)
    /\ total' = made_total(h, d)
    /\ abandoned' = IF d = NULL THEN abandoned ELSE Fragmented(h, d)
    /\ UNCHANGED <<connected, outbox, wire>>

(* The fault ends in a panic, and the node starts again.                   *)
Panic(h, d) == /\ Fits(h)
               /\ FaultsStored(h, d) \/ (connected /\ FaultsWritten(h, d))
               /\ total' = 0 /\ offset' = 0 /\ connected' = FALSE
               /\ outbox' = <<>> /\ wire' = NoMessage
               /\ abandoned' = FALSE /\ unwritten' = 0

(* Any other message: a ping, a subscription, an acknowledgement.          *)
Build(n) == /\ wire' = [announced |-> announced(total, n), follows |-> n,
                        total |-> total, stale |-> abandoned]
            /\ offset' = moved(offset, announced(total, n))
            /\ UNCHANGED <<total, outbox, abandoned, unwritten>>

Control(n) == connected /\ Build(n) /\ UNCHANGED connected

(* CONNECT, on a new connection.                                           *)
Connect(n) == ~connected /\ Build(n) /\ connected' = TRUE

(* mqtt_resend_queued points the message at the stored bytes.              *)
Resend == /\ connected /\ outbox # <<>>
          /\ wire' = Head(outbox) /\ outbox' = Tail(outbox)
          /\ UNCHANGED <<total, offset, connected, abandoned, unwritten>>

Disconnect == /\ connected /\ connected' = FALSE
              /\ UNCHANGED <<total, offset, outbox, wire, abandoned, unwritten>>

OutStep == \/ \E h \in TopicLengths, d \in Data :
                  \/ \E qos \in 0..2 : Publish(h, d, qos)
                  \/ \E stored \in BOOLEAN : Enqueue(h, d, stored)
                  \/ EnqueueFails(h, d)
                  \/ Panic(h, d)
           \/ \E n \in ControlLengths : Control(n) \/ Connect(n)
           \/ Resend \/ Disconnect

OutNext == OutStep /\ offset' >= MinOffset

OutSpec == OutInit /\ [][OutNext]_outVars

-----------------------------------------------------------------------------
(* Properties                                                              *)

OutTypeOK == /\ total \in Nat /\ offset \in Int /\ connected \in BOOLEAN
             /\ outbox \in Seq(Message) /\ wire \in Message
             /\ abandoned \in BOOLEAN /\ unwritten \in Nat

(* Only two things the application may have done before make a header      *)
(* wrong: a long message it enqueued was not stored, and no publish came   *)
(* since; or one of a longer topic was not written when it was made, and   *)
(* no publish was written since.  Otherwise the header of every message    *)
(* written announces the bytes that follow, whatever was built, stored,    *)
(* skipped or interrupted before, and the broker finds the next message    *)
(* where it looks for it.                                                  *)
HeaderAnnouncesBody == wire.stale \/ wire.announced = wire.follows

(* And so does that of every message kept for later.                       *)
StoredWhole == \A k \in DOMAIN outbox : outbox[k].stale \/ outbox[k].announced = outbox[k].follows

(* mqtt_msg.h says of fragmented_msg_total_length: "total len of           *)
(* fragmented messages (zero for all other messages)".  A fragmented       *)
(* message does not fit the buffer.                                        *)
ZeroForAllOther == wire.follows <= buffer_length - HEADER => wire.total = 0
=============================================================================
