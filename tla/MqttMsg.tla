------------------------------ MODULE MqttMsg ------------------------------
(***************************************************************************)
(* The MQTT 3.1 and 3.1.1 messages of esp-mqtt (lib/mqtt_msg.c): builders  *)
(* into the out buffer; MqttRead has the readers.  A byte is 0..255, text  *)
(* is a sequence of bytes, and a message that cannot be built is the empty *)
(* sequence.  Every append tests that it fits and lengths only grow, so a  *)
(* message is refused exactly when its whole body does not fit.            *)
(***************************************************************************)
EXTENDS MqttRead, SequencesExt

CONSTANT buffer_length      \* of the out buffer

MQTT_MAX_FIXED_HEADER_SIZE == 5

Two(n) == <<(n \div 256) % 256, n % 256>>
append_string(s) == Two(Len(s)) \o s
append_message_id(id) == Two(id)
If(c, s) == IF c THEN s ELSE <<>>
Bit(c, weight) == IF c THEN weight ELSE 0

(* The remaining length, seven bits to a byte, low bits first.             *)
encoded_length[n \in Nat] ==
    IF n < 128 THEN <<n>> ELSE <<128 + (n % 128)>> \o encoded_length[n \div 128]

fail_message == <<>>

Header(type, qos, retain, total) ==
    <<16 * Type[type] + 2 * qos + retain>> \o encoded_length[total]

(* fini_message: body is what is in the buffer, total what will be sent.   *)
fini_message(type, qos, retain, total, body) ==
    IF Len(encoded_length[total]) + 1 > MQTT_MAX_FIXED_HEADER_SIZE
    THEN fail_message
    ELSE Header(type, qos, retain, total) \o body

Fits(body) == MQTT_MAX_FIXED_HEADER_SIZE + Len(body) <= buffer_length

Message(type, qos, body) ==
    IF Fits(body) THEN fini_message(type, qos, 0, Len(body), body) ELSE fail_message

-----------------------------------------------------------------------------
(* Builders                                                                *)

(* mqtt_msg_connect; a password alone goes with an empty user name.        *)
mqtt_msg_connect(info) ==
    LET will == info.will_topic # <<>>
        user == info.username # <<>>
        pass == info.password # <<>>
        flags == Bit(user \/ pass, 128) + Bit(pass, 64) + Bit(info.clean_session, 2)
                 + Bit(will, 4 + 8 * info.will_qos + Bit(info.will_retain, 32))
        v31 == info.protocol_ver = 3
        name == IF v31 THEN <<77, 81, 73, 115, 100, 112>> ELSE <<77, 81, 84, 84>>
    IN  Message("CONNECT", 0,
            append_string(name) \o <<IF v31 THEN 3 ELSE 4, flags>> \o Two(info.keepalive)
            \o append_string(info.client_id)
            \o If(will, append_string(info.will_topic) \o append_string(info.will_message))
            \o If(user \/ pass, append_string(info.username))
            \o If(pass, append_string(info.password)))

(* mqtt_msg_publish: a message too long for the buffer is cut, its header  *)
(* announces the whole of it.                                              *)
mqtt_msg_publish(topic, data, qos, retain, id) ==
    LET head == append_string(topic) \o If(qos > 0, append_message_id(id))
        room == buffer_length - MQTT_MAX_FIXED_HEADER_SIZE - Len(head)
    IN  IF topic = <<>> \/ ~Fits(head) THEN fail_message
        ELSE fini_message("PUBLISH", qos, retain, Len(head) + Len(data),
                          head \o IF Len(data) > room THEN SubSeq(data, 1, room) ELSE data)

mqtt_msg_puback(id) == Message("PUBACK", 0, append_message_id(id))
mqtt_msg_pubrec(id) == Message("PUBREC", 0, append_message_id(id))
mqtt_msg_pubrel(id) == Message("PUBREL", 1, append_message_id(id))
mqtt_msg_pubcomp(id) == Message("PUBCOMP", 0, append_message_id(id))

mqtt_msg_subscribe(topics, id) ==
    IF \E t \in ToSet(topics) : t.filter = <<>> THEN fail_message
    ELSE Message("SUBSCRIBE", 1,
             FoldLeft(LAMBDA body, t : body \o append_string(t.filter) \o <<t.qos>>,
                      append_message_id(id), topics))

mqtt_msg_unsubscribe(topic, id) ==
    IF topic = <<>> THEN fail_message
    ELSE Message("UNSUBSCRIBE", 1, append_message_id(id) \o append_string(topic))

mqtt_msg_pingreq == Message("PINGREQ", 0, <<>>)
mqtt_msg_disconnect == Message("DISCONNECT", 0, <<>>)

(* esp_mqtt_client_publish sends what did not fit by the bufferful.        *)
Rest(data, done) == SubSeq(data, done + 1, Len(data))
Sent(data, done) == (Len(data) - done + buffer_length - 1) \div buffer_length
Fragments(first, data, done) ==
    <<first>> \o [k \in 1..Sent(data, done) |->
                     LET from == done + (k - 1) * buffer_length
                     IN  SubSeq(data, from + 1, IF from + buffer_length > Len(data)
                                                THEN Len(data) ELSE from + buffer_length)]
=============================================================================
