---------------------------- MODULE MqttFraming ----------------------------
(***************************************************************************)
(* How the esp-mqtt client cuts the byte stream into messages              *)
(* (mqtt_client.c: mqtt_message_receive, mqtt_process_receive,             *)
(* deliver_publish).  The transport returns any part of what was asked     *)
(* for, or nothing in time, so a message may arrive in any pieces over any *)
(* number of passes; one longer than the in buffer is handed over in       *)
(* several events.  Each esp_transport_read is a step.                     *)
(***************************************************************************)
EXTENDS MqttRead

Byte == 0..255

(* The connections: what the broker sends and where each of its messages   *)
(* ends, and the client's buffer, which holds at least a fixed header and  *)
(* what is read with a topic's length.                                     *)
CONSTANT Links

(* Where the kth message of a link begins, and its bytes.                  *)
StartOf(l, k) == IF k = 1 THEN 0 ELSE l.ends[k - 1]
PacketOf(l, k) == SubSeq(l.bytes, StartOf(l, k) + 1, l.ends[k])

ASSUME FramingAssumption ==
    \A l \in Links :
        /\ l.bytes \in Seq(Byte) /\ l.ends \in Seq(Nat)
        /\ l.in_buffer_length \in Nat /\ l.in_buffer_length >= 9
        /\ \A k \in 1..Len(l.ends) : StartOf(l, k) < l.ends[k] /\ l.ends[k] <= Len(l.bytes)
        /\ StartOf(l, Len(l.ends) + 1) = Len(l.bytes)

VARIABLES link,        \* the connection
          position,    \* bytes read from it
          in_buffer,   \* what was read of the current message
          pc,          \* the read it is in
          before,      \* previous_in_buffer_read_len
          total_len,   \* what mqtt_message_receive wants to have
          left,        \* bytes of the message deliver_publish has not read
          event,       \* the last MQTT_EVENT_DATA
          given,       \* history: the payload handed over of this message
          handled,     \* history: messages handled
          derailed     \* history: the client has lost its place in the stream

framingVars == <<link, position, in_buffer, pc, before, total_len, left, event, given, handled,
                 derailed>>

NoEvent == [offset |-> 0, data |-> <<>>, total |-> 0]

FramingInit == /\ link \in Links /\ position = 0
               /\ in_buffer = <<>> /\ pc = "poll" /\ before = 0
               /\ total_len = 0 /\ left = 0
               /\ event = NoEvent /\ given = <<>> /\ handled = <<>>
               /\ derailed = FALSE

(* The test before the remaining length is read: the last byte read may    *)
(* also be one of the bytes that follow the fixed header.                  *)
StillRemainingLength(buf) == \/ Len(buf) = 1
                             \/ Len(buf) < 6 /\ buf[Len(buf)] >= 128

(* Mutant: a message that has begun is not taken up again.                 *)
PollNewOnly == /\ pc = "poll" /\ in_buffer = <<>>
               /\ before' = 0 /\ pc' = "first"
               /\ UNCHANGED <<link, position, in_buffer, total_len, left, event, given, handled, derailed>>

(* A call of mqtt_process_receive when something can be read.              *)
Poll == /\ pc = "poll"
        /\ before' = Len(in_buffer)
        /\ pc' = IF in_buffer = <<>> THEN "first"
                 ELSE IF StillRemainingLength(in_buffer) THEN "remaining" ELSE "length"
        /\ UNCHANGED <<link, position, in_buffer, total_len, left, event, given, handled, derailed>>

(* esp_transport_read of at most n bytes, which are Taken.                 *)
Read(n, k) == /\ k \in 1..n /\ k <= Len(link.bytes) - position
              /\ position' = position + k /\ UNCHANGED link
Taken(k) == SubSeq(link.bytes, position + 1, position + k)

(* esp_mqtt_handle_transport_read_error, for a timeout in mid-message: an  *)
(* error when nothing came since the previous pass.                        *)
Timeout == /\ pc \in {"remaining", "topic", "rest"}
           /\ pc = "rest" => Len(in_buffer) < total_len
           /\ IF Len(in_buffer) = before THEN pc' = "aborted" ELSE pc' = "poll"
           /\ UNCHANGED <<link, position, in_buffer, before, total_len, left, event, given, handled, derailed>>

ReadFirst == /\ pc = "first"
             /\ \/ /\ Read(1, 1)
                   /\ IF mqtt_has_valid_msg_hdr(Taken(1)[1])
                      THEN in_buffer' = Taken(1) /\ pc' = "remaining"
                      ELSE pc' = "aborted" /\ UNCHANGED in_buffer
                \/ pc' = "poll" /\ UNCHANGED <<link, position, in_buffer>>
             /\ UNCHANGED <<before, total_len, left, event, given, handled, derailed>>

(* The client goes on to look for the remaining length of a message that   *)
(* it has read whole, and takes it from the next.                          *)
AtItsEnd(p) == p = link.ends[Len(handled) + 1]

ReadRemaining == /\ pc = "remaining"
                 /\ Read(1, 1)
                 /\ in_buffer' = in_buffer \o Taken(1)
                 /\ pc' = IF Len(in_buffer) + 1 < 6 /\ Taken(1)[1] >= 128
                          THEN "remaining" ELSE "length"
                 /\ derailed' = (derailed \/ (pc' = "remaining" /\ AtItsEnd(position')))
                 /\ UNCHANGED <<before, total_len, left, event, given, handled>>

(* The code's idea of how far the header of a PUBLISH goes: without the    *)
(* two bytes of the topic's length, so that one it takes to fit the buffer *)
(* may not.                                                                *)
HeaderOf(buf) == fixed_header_len(buf) + topiclen(buf) + (IF mqtt_get_qos(buf) > 0 THEN 2 ELSE 0)

HeaderCut(n) == /\ mqtt_get_total_length(in_buffer) > n
                /\ PayloadAt(in_buffer) > n

(* The length is known: a PUBLISH longer than the buffer is read as far as *)
(* the buffer goes, any other long message is an error.                    *)
Length == /\ pc = "length"
          /\ LET len == mqtt_get_total_length(in_buffer)
                 long == len > link.in_buffer_length
             IN  CASE ~long -> pc' = "rest" /\ total_len' = len
                   [] long /\ ~Is(in_buffer, "PUBLISH") -> pc' = "aborted" /\ UNCHANGED total_len
                   [] long /\ Is(in_buffer, "PUBLISH") ->
                        IF Len(in_buffer) < fixed_header_len(in_buffer) + 2
                        THEN pc' = "topic" /\ UNCHANGED total_len
                        ELSE IF HeaderOf(in_buffer) > link.in_buffer_length
                             THEN pc' = "aborted" /\ UNCHANGED total_len
                             ELSE pc' = "rest" /\ total_len' = link.in_buffer_length
          /\ derailed' = (derailed \/ (pc' = "rest" /\ HeaderCut(total_len')))
          /\ UNCHANGED <<link, position, in_buffer, before, left, event, given, handled>>

(* The two bytes of the topic's length; as written in the code, three are  *)
(* asked for when one of them is there already.                            *)
ReadTopicLength ==
    /\ pc = "topic"
    /\ \E k \in 1..3 :
        /\ Read(Len(in_buffer) - fixed_header_len(in_buffer) + 2, k)
        /\ in_buffer' = in_buffer \o Taken(k)
        /\ pc' = IF Len(in_buffer) + k < fixed_header_len(in_buffer) + 2 THEN "poll" ELSE "length"
    /\ UNCHANGED <<before, total_len, left, event, given, handled, derailed>>

ReadRest ==
    /\ pc = "rest" /\ Len(in_buffer) < total_len
    /\ \E k \in 1..total_len :
        /\ Read(total_len - Len(in_buffer), k)
        /\ in_buffer' = in_buffer \o Taken(k)
        /\ pc' = IF Len(in_buffer) + k < total_len THEN "poll" ELSE "rest"
    /\ UNCHANGED <<before, total_len, left, event, given, handled, derailed>>

-----------------------------------------------------------------------------
(* The rest of mqtt_process_receive                                        *)

(* What the application has seen of a message, and what was acknowledged.  *)
(* The identifier is looked for as if the whole message were in the        *)
(* buffer: past its end the bytes are whatever the memory holds.           *)
Identifiers(buf) ==
    IF Is(buf, "PUBLISH") /\ mqtt_get_qos(buf) > 0 /\ AfterTopic(buf) + 2 > Len(buf)
    THEN {0, 65535} ELSE {mqtt_get_id(buf)}

(* Mutant: in_buffer_read_len is not reset.                                *)
HandledNotCleared(data) ==
    /\ handled' = Append(handled, [type |-> mqtt_get_type(in_buffer),
                                   id |-> mqtt_get_id(in_buffer), data |-> data])
    /\ event' = NoEvent /\ given' = <<>> /\ pc' = "poll" /\ UNCHANGED in_buffer

Handled(data) == /\ \E id \in Identifiers(in_buffer) :
                       handled' = Append(handled, [type |-> mqtt_get_type(in_buffer),
                                                   id |-> id, data |-> data])
                 /\ in_buffer' = <<>> /\ event' = NoEvent /\ given' = <<>>
                 /\ pc' = "poll"

Complete == pc = "rest" /\ Len(in_buffer) >= total_len

Handle == /\ Complete /\ ~Is(in_buffer, "PUBLISH")
          /\ Handled(IF Is(in_buffer, "SUBACK") THEN mqtt_get_suback_data(in_buffer) ELSE <<>>)
          /\ UNCHANGED <<link, position, before, total_len, left, derailed>>

(* deliver_publish: the first event.                                       *)
DeliverFirst ==
    /\ Complete /\ Is(in_buffer, "PUBLISH")
    /\ LET data == mqtt_get_publish_data(in_buffer)
           more == mqtt_get_total_length(in_buffer) - Len(in_buffer)
       IN  IF mqtt_get_publish_topic(in_buffer) = {}
           THEN pc' = "aborted" /\ UNCHANGED <<left, event, given>>
           ELSE /\ event' = [offset |-> 0, data |-> data, total |-> Len(data) + more]
                /\ given' = data
                /\ left' = more
                /\ pc' = "deliver"
    /\ UNCHANGED <<link, position, in_buffer, before, total_len, handled, derailed>>

(* Further data overwrite the buffer and are handed over as they come.     *)
DeliverMore ==
    /\ pc = "deliver" /\ left > 0
    /\ \E k \in 1..link.in_buffer_length :
        /\ Read(IF left > link.in_buffer_length THEN link.in_buffer_length ELSE left, k)
        /\ left' = left - k
        /\ event' = [offset |-> event.offset + Len(event.data), data |-> Taken(k),
                     total |-> event.total]
        /\ given' = given \o Taken(k)
    /\ UNCHANGED <<in_buffer, pc, before, total_len, handled, derailed>>

(* A timeout here counts as the end of the message, and what comes of it   *)
(* later as other messages.                                                *)
DeliverStalls == /\ pc = "deliver" /\ left > 0
                 /\ Handled(given)
                 /\ derailed' = TRUE
                 /\ UNCHANGED <<link, position, before, total_len, left>>

DeliverDone == /\ pc = "deliver" /\ left = 0
               /\ Handled(given)
               /\ UNCHANGED <<link, position, before, total_len, left, derailed>>

Reads == \/ ReadFirst \/ ReadRemaining \/ ReadTopicLength \/ ReadRest \/ DeliverMore
Steps == Poll \/ Length \/ Handle \/ DeliverFirst \/ DeliverDone

FramingNext == Reads \/ Steps \/ Timeout \/ DeliverStalls

FramingSafety == FramingInit /\ [][FramingNext]_framingVars

(* Bytes on their way arrive, and the task is scheduled.                   *)
FramingSpec == /\ FramingSafety
               /\ WF_framingVars(Steps)
               /\ SF_framingVars(ReadFirst /\ position' # position) /\ SF_framingVars(ReadRemaining)
               /\ SF_framingVars(ReadTopicLength) /\ SF_framingVars(ReadRest)
               /\ WF_framingVars(DeliverMore)

-----------------------------------------------------------------------------
(* Properties                                                              *)

(* What the broker sent, read whole.                                       *)
Meaning(p) == [type |-> mqtt_get_type(p), id |-> mqtt_get_id(p),
               data |-> CASE Is(p, "PUBLISH") -> mqtt_get_publish_data(p)
                          [] Is(p, "SUBACK") -> mqtt_get_suback_data(p)
                          [] OTHER -> <<>>]

(* The events of a long message tile its payload: each begins where the    *)
(* one before ended, together they are its first bytes, and all announce   *)
(* its length.                                                             *)
EventsTile == LET payload_sent == mqtt_get_publish_data(PacketOf(link, Len(handled) + 1))
              IN  /\ event.offset + Len(event.data) = Len(given)
                  /\ event.data = SubSeq(payload_sent, event.offset + 1, Len(given))
                  /\ Len(given) <= Len(payload_sent)
                  /\ given = SubSeq(payload_sent, 1, Len(given))
                  /\ event.total = Len(payload_sent)

(* mqtt_process_receive handles the broker's messages whole, in order and  *)
(* once, and the events deliver_publish makes of a long one tile its       *)
(* payload, however the stream is cut up and however late its parts are,   *)
(* until one of three things derails the client: it looks for the          *)
(* remaining length of a message it has read whole, a payload times out    *)
(* between two events, or a header it takes to fit the buffer does not.    *)
HandledAsSent == ~derailed =>
                     /\ Len(handled) <= Len(link.ends)
                     /\ \A k \in 1..Len(handled) : handled[k] = Meaning(PacketOf(link, k))
                     /\ pc = "deliver" => EventsTile

(* Every message is handled, unless the client derails or a pass brings    *)
(* nothing of a message that has begun and the connection is given up.     *)
AllHandled == <>(Len(handled) = Len(link.ends) \/ pc = "aborted" \/ derailed)

(* What MQTT 3.1.1 says of each message: its remaining length takes at     *)
(* most four bytes and is its own, and a PUBLISH has a topic, and its      *)
(* header within it.                                                       *)
WellFormed ==
    \A l \in Links : \A k \in 1..Len(l.ends) :
        LET p == PacketOf(l, k)
        IN  /\ \E i \in 2..5 : i <= Len(p) /\ p[i] < 128
            /\ mqtt_get_total_length(p) = Len(p)
            /\ Is(p, "PUBLISH") => /\ TopicAt(p) < Len(p) /\ topiclen(p) > 0
                                   /\ PayloadAt(p) <= Len(p)
=============================================================================
