------------------------------ MODULE MqttRead ------------------------------
(***************************************************************************)
(* The readers of lib/mqtt_msg.c.  buf is what was read of a message, a    *)
(* sequence of bytes; an absent result is {}.                              *)
(***************************************************************************)
EXTENDS Naturals, Sequences

Type == [CONNECT |-> 1, CONNACK |-> 2, PUBLISH |-> 3, PUBACK |-> 4, PUBREC |-> 5,
         PUBREL |-> 6, PUBCOMP |-> 7, SUBSCRIBE |-> 8, SUBACK |-> 9,
         UNSUBSCRIBE |-> 10, UNSUBACK |-> 11, PINGREQ |-> 12, PINGRESP |-> 13,
         DISCONNECT |-> 14]

At(buf, i) == buf[i + 1]                     \* C's index
mqtt_get_type(buf) == At(buf, 0) \div 16
mqtt_get_dup(buf) == (At(buf, 0) \div 8) % 2
mqtt_get_qos(buf) == (At(buf, 0) \div 2) % 4
mqtt_get_retain(buf) == At(buf, 0) % 2
Is(buf, type) == mqtt_get_type(buf) = Type[type]

(* The loops over the remaining length: the size of the fixed header.      *)
fixed_header_len(buf) ==
    LET last == {i \in 1 .. Len(buf) - 1 : At(buf, i) < 128}
    IN  IF last = {} THEN Len(buf) ELSE (CHOOSE i \in last : \A j \in last : i <= j) + 1

(* The remaining length, seven bits to a byte, and the header's own.       *)
length_announced(header) ==
    LET sum[i \in Nat] == IF i = 0 THEN Len(header)
                          ELSE sum[i - 1] + (At(header, i) % 128) * 128^(i - 1)
    IN  sum[Len(header) - 1]
mqtt_get_total_length(buf) == length_announced(SubSeq(buf, 1, fixed_header_len(buf)))

TwoAt(buf, i) == 256 * At(buf, i) + At(buf, i + 1)
topiclen(buf) == TwoAt(buf, fixed_header_len(buf))
TopicAt(buf) == fixed_header_len(buf) + 2
AfterTopic(buf) == TopicAt(buf) + topiclen(buf)
Part(buf, i, len) == SubSeq(buf, i + 1, i + len)

mqtt_get_publish_topic(buf) ==
    IF TopicAt(buf) >= Len(buf) \/ AfterTopic(buf) > Len(buf) THEN {}
    ELSE {Part(buf, TopicAt(buf), topiclen(buf))}

(* Where the payload begins: an identifier comes before it.                *)
PayloadAt(buf) == AfterTopic(buf) + (IF mqtt_get_qos(buf) > 0 THEN 2 ELSE 0)

(* Nothing may have been read after the header: there are no data yet.     *)
mqtt_get_publish_data(buf) ==
    LET head == PayloadAt(buf)
        whole == mqtt_get_total_length(buf)
    IN  IF TopicAt(buf) >= Len(buf) \/ head >= Len(buf) \/ whole < head THEN <<>>
        ELSE Part(buf, head, (IF whole <= Len(buf) THEN whole ELSE Len(buf)) - head)

mqtt_get_suback_data(buf) == IF Len(buf) > 4 THEN SubSeq(buf, 5, Len(buf)) ELSE <<>>

WithIdentifier == {"PUBACK", "PUBREC", "PUBREL", "PUBCOMP", "SUBACK", "UNSUBACK",
                   "SUBSCRIBE", "UNSUBSCRIBE"}

mqtt_get_id(buf) ==
    CASE Is(buf, "PUBLISH") ->
             IF \/ TopicAt(buf) >= Len(buf) \/ mqtt_get_qos(buf) = 0
                \/ AfterTopic(buf) + 2 > Len(buf)
             THEN 0 ELSE TwoAt(buf, AfterTopic(buf))
      [] \E t \in WithIdentifier : Is(buf, t) ->
             IF Len(buf) >= 4 /\ At(buf, 1) < 128 THEN TwoAt(buf, 2) ELSE 0
      [] OTHER -> 0

(* The flags of the first byte.                                            *)
mqtt_has_valid_msg_hdr(byte) ==
    LET flags == byte % 16
        type == byte \div 16
    IN  CASE type = Type["PUBLISH"] -> (flags \div 2) % 4 < 3 /\ (flags \in {0, 1} \/ (flags \div 2) % 4 > 0)
          [] type \in {Type["PUBREL"], Type["SUBSCRIBE"], Type["UNSUBSCRIBE"]} -> flags = 2
          [] type \in 1..14 -> flags = 0
          [] OTHER -> FALSE
=============================================================================
