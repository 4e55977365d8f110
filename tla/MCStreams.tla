----------------------------- MODULE MCStreams -----------------------------
(* Streams for TLC.  Text is short; the in buffer is as short.             *)
EXTENDS MqttMsg

Suback(id, code) == <<144, 3>> \o Two(id) \o <<code>>
Publish(qos, topic, len) ==
    LET data == [i \in 1..len |-> IF len > 100 THEN 64 ELSE i]
        head == append_string(topic) \o If(qos > 0, Two(7))
    IN  Header("PUBLISH", qos, 0, Len(head) + len) \o head \o data

(* A PUBACK, a PUBLISH that fits, one that does not, a refused filter.     *)
Mixed == <<mqtt_msg_puback(386), Publish(1, <<65>>, 2), Publish(1, <<65>>, 12),
           Publish(0, <<65>>, 0), Suback(5, 128)>>
(* Messages that end in two bytes which could go on a remaining length.    *)
Continued == <<mqtt_msg_puback(34181), Suback(133, 128), mqtt_msg_puback(3)>>
(* Headers that end with the buffer, and one byte past it.                 *)
Headers == <<Publish(1, <<65, 66, 67>>, 4), Publish(1, <<65, 66, 67, 68>>, 4)>>
(* A message of more than 127 bytes has a longer header.                   *)
Long == <<Publish(2, <<65>>, 150), mqtt_msg_puback(3)>>

Link(packets, len) ==
    [bytes |-> FlattenSeq(packets),
     ends |-> [k \in 1..Len(packets) |-> Len(FlattenSeq(SubSeq(packets, 1, k)))],
     in_buffer_length |-> len]

(* Short messages in a short buffer, a long one in a long buffer; and a    *)
(* connection on which nothing comes.                                      *)
Idle == Link(<<>>, 9)
All == {Link(Mixed, 9), Link(Continued, 9), Link(Headers, 9), Link(Long, 160), Idle}
=============================================================================
