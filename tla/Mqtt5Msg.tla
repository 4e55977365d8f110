------------------------------ MODULE Mqtt5Msg ------------------------------
(***************************************************************************)
(* The MQTT 5 messages of esp-mqtt (lib/mqtt5_msg.c).  The properties of a *)
(* message are a function from the names of those that are set to their    *)
(* values, the user properties a sequence of pairs; a property structure   *)
(* that is NULL is the empty function.  Builders and readers are those of  *)
(* MqttMsg where the two files do the same.                                *)
(***************************************************************************)
EXTENDS MqttMsg

PropertyId == [PAYLOAD_FORMAT_INDICATOR |-> 1, MESSAGE_EXPIRY_INTERVAL |-> 2,
               CONTENT_TYPE |-> 3, RESPONSE_TOPIC |-> 8, CORRELATION_DATA |-> 9,
               SUBSCRIBE_IDENTIFIER |-> 11, SESSION_EXPIRY_INTERVAL |-> 17,
               ASSIGNED_CLIENT_IDENTIFIER |-> 18, SERVER_KEEP_ALIVE |-> 19,
               AUTHENTICATION_METHOD |-> 21, AUTHENTICATION_DATA |-> 22,
               REQUEST_PROBLEM_INFO |-> 23, WILL_DELAY_INTERVAL |-> 24,
               REQUEST_RESP_INFO |-> 25, RESP_INFO |-> 26, SERVER_REFERENCE |-> 28,
               REASON_STRING |-> 31, RECEIVE_MAXIMUM |-> 33, TOPIC_ALIAS_MAXIMIM |-> 34,
               TOPIC_ALIAS |-> 35, MAXIMUM_QOS |-> 36, RETAIN_AVAILABLE |-> 37,
               USER_PROPERTY |-> 38, MAXIMUM_PACKET_SIZE |-> 39,
               WILDCARD_SUBSCR_AVAILABLE |-> 40, SUBSCR_IDENTIFIER_AVAILABLE |-> 41,
               SHARED_SUBSCR_AVAILABLE |-> 42]

Bytes1 == {"PAYLOAD_FORMAT_INDICATOR", "REQUEST_PROBLEM_INFO", "REQUEST_RESP_INFO", "MAXIMUM_QOS",
           "RETAIN_AVAILABLE", "WILDCARD_SUBSCR_AVAILABLE", "SUBSCR_IDENTIFIER_AVAILABLE",
           "SHARED_SUBSCR_AVAILABLE"}
Bytes2 == {"SERVER_KEEP_ALIVE", "RECEIVE_MAXIMUM", "TOPIC_ALIAS_MAXIMIM", "TOPIC_ALIAS"}
Bytes4 == {"MESSAGE_EXPIRY_INTERVAL", "SESSION_EXPIRY_INTERVAL", "WILL_DELAY_INTERVAL",
           "MAXIMUM_PACKET_SIZE"}
Variable == {"SUBSCRIBE_IDENTIFIER"}

generate_variable_len(n) == encoded_length[n]
Four(n) == Two(n \div 65536) \o Two(n % 65536)

(* append_property of a name and a value.                                  *)
append_property(name, v) ==
    IF name = "USER_PROPERTY"
    THEN FlattenSeq([k \in DOMAIN v |->
                        <<PropertyId[name]>> \o append_string(v[k][1]) \o append_string(v[k][2])])
    ELSE <<PropertyId[name]>> \o (CASE name \in Bytes1 -> <<v>>
                                    [] name \in Bytes2 -> Two(v)
                                    [] name \in Bytes4 -> Four(v)
                                    [] name \in Variable -> generate_variable_len(v)
                                    [] OTHER -> append_string(v))

(* The properties follow their length, for which they make room.           *)
update_property_len_value(body) == generate_variable_len(Len(body)) \o body

(* A builder appends the properties that are set in an order of its own.   *)
Properties(p, order) ==
    update_property_len_value(
        FlattenSeq([k \in DOMAIN order |->
            If(order[k] \in DOMAIN p, append_property(order[k], p[order[k]]))]))

-----------------------------------------------------------------------------
(* Builders                                                                *)

ConnectOrder == <<"SESSION_EXPIRY_INTERVAL", "MAXIMUM_PACKET_SIZE", "RECEIVE_MAXIMUM",
                  "TOPIC_ALIAS_MAXIMIM", "REQUEST_RESP_INFO", "REQUEST_PROBLEM_INFO",
                  "USER_PROPERTY">>
WillOrder == <<"WILL_DELAY_INTERVAL", "PAYLOAD_FORMAT_INDICATOR", "MESSAGE_EXPIRY_INTERVAL",
               "CONTENT_TYPE", "RESPONSE_TOPIC", "CORRELATION_DATA", "USER_PROPERTY">>

mqtt5_msg_connect(info, p, wp) ==
    LET will == info.will_topic # <<>>
        user == info.username # <<>>
        pass == info.password # <<>>
        flags == Bit(user \/ pass, 128) + Bit(pass, 64) + Bit(info.clean_session, 2)
                 + Bit(will, 4 + 8 * info.will_qos + Bit(info.will_retain, 32))
    IN  Message("CONNECT", 0,
            append_string(<<77, 81, 84, 84>>) \o <<5, flags>> \o Two(info.keepalive)
            \o Properties(p, ConnectOrder) \o append_string(info.client_id)
            \o If(will, Properties(wp, WillOrder) \o append_string(info.will_topic)
                        \o append_string(info.will_message))
            \o If(user \/ pass, append_string(info.username))
            \o If(pass, append_string(info.password)))

PublishOrder == <<"PAYLOAD_FORMAT_INDICATOR", "MESSAGE_EXPIRY_INTERVAL", "TOPIC_ALIAS",
                  "RESPONSE_TOPIC", "CORRELATION_DATA", "USER_PROPERTY", "CONTENT_TYPE">>

(* snprintf of "%s/%s" into a buffer of the sum of the lengths and one,    *)
(* appended with that size: the last character gives way to the NUL.       *)
response_topic(topic, resp_info) ==
    IF resp_info = <<>> THEN topic
    ELSE Append(SubSeq(topic \o <<47>> \o resp_info, 1, Len(topic) + Len(resp_info)), 0)

Answering(p, resp_info) ==
    [n \in DOMAIN p |-> IF n = "RESPONSE_TOPIC" THEN response_topic(p[n], resp_info) ELSE p[n]]

mqtt5_msg_publish(topic, data, qos, retain, id, p, resp_info) ==
    LET head == append_string(topic) \o If(qos > 0, append_message_id(id))
                \o Properties(Answering(p, resp_info), PublishOrder)
        room == buffer_length - MQTT_MAX_FIXED_HEADER_SIZE - Len(head)
    IN  IF (topic = <<>> /\ "TOPIC_ALIAS" \notin DOMAIN p) \/ ~Fits(head) THEN fail_message
        ELSE fini_message("PUBLISH", qos, retain, Len(head) + Len(data),
                          head \o IF Len(data) > room THEN SubSeq(data, 1, room) ELSE data)

(* "$share/<name>/<filter>"                                                *)
shared_topic(filter, share) ==
    IF share = <<>> THEN filter
    ELSE <<36, 115, 104, 97, 114, 101, 47>> \o share \o <<47>> \o filter

(* Mutant: two flags of the subscription change places.                    *)
options_swapped(t, s) == t.qos + 16 * s.retain_handle + Bit(s.no_local_flag, 8)
                         + Bit(s.retain_as_published_flag, 4)

options(t, s) == t.qos + 16 * s.retain_handle + Bit(s.no_local_flag, 4)
                 + Bit(s.retain_as_published_flag, 8)

mqtt5_msg_subscribe(topics, id, p, s) ==
    IF \E t \in ToSet(topics) : t.filter = <<>> THEN fail_message
    ELSE Message("SUBSCRIBE", 1,
             FoldLeft(LAMBDA body, t : body \o append_string(shared_topic(t.filter, s.share))
                                       \o <<options(t, s)>>,
                      append_message_id(id)
                      \o Properties(p, <<"SUBSCRIBE_IDENTIFIER", "USER_PROPERTY">>), topics))

mqtt5_msg_unsubscribe(topic, id, p, share) ==
    IF topic = <<>> THEN fail_message
    ELSE Message("UNSUBSCRIBE", 1, append_message_id(id) \o Properties(p, <<"USER_PROPERTY">>)
                                   \o append_string(shared_topic(topic, share)))

mqtt5_msg_disconnect(reason, p) ==
    Message("DISCONNECT", 0,
            <<reason>> \o Properties(p, <<"SESSION_EXPIRY_INTERVAL", "USER_PROPERTY">>))

Acknowledge(id) == append_message_id(id) \o <<0>> \o update_property_len_value(<<>>)
mqtt5_msg_puback(id) == Message("PUBACK", 0, Acknowledge(id))
mqtt5_msg_pubrec(id) == Message("PUBREC", 0, Acknowledge(id))
mqtt5_msg_pubrel(id) == Message("PUBREL", 1, Acknowledge(id))
mqtt5_msg_pubcomp(id) == Message("PUBCOMP", 0, Acknowledge(id))

-----------------------------------------------------------------------------
(* Readers.  An index is that of C, from 0.                                *)

(* get_variable_len at an index: the bytes it takes and its value.         *)
variable_bytes(buf, at) ==
    LET ends == {i \in at .. Len(buf) - 1 : At(buf, i) < 128}
    IN  IF ends = {} THEN Len(buf) - at ELSE (CHOOSE i \in ends : \A j \in ends : i <= j) + 1 - at
get_variable_len(buf, at) ==
    FoldLeft(LAMBDA n, i : n + (At(buf, at + i) % 128) * 128^i, 0,
             [i \in 1 .. variable_bytes(buf, at) |-> i - 1])

TextAt(buf, at) == Part(buf, at + 2, TwoAt(buf, at))

(* One property: its name, its value and the bytes they take.              *)
PropertyAt(buf, at) ==
    LET name == CHOOSE n \in DOMAIN PropertyId : PropertyId[n] = At(buf, at)
        text == TextAt(buf, at + 1)
        value == TextAt(buf, at + 3 + Len(text))
    IN  CASE name \in Bytes1 -> [name |-> name, value |-> At(buf, at + 1), size |-> 2]
          [] name \in Bytes2 -> [name |-> name, value |-> TwoAt(buf, at + 1), size |-> 3]
          [] name \in Bytes4 -> [name |-> name, size |-> 5,
                                 value |-> TwoAt(buf, at + 1) * 65536 + TwoAt(buf, at + 3)]
          [] name \in Variable -> [name |-> name, size |-> 1 + variable_bytes(buf, at + 1),
                                   value |-> get_variable_len(buf, at + 1)]
          [] name = "USER_PROPERTY" -> [name |-> name, value |-> <<text, value>>,
                                        size |-> 5 + Len(text) + Len(value)]
          [] OTHER -> [name |-> name, value |-> text, size |-> 3 + Len(text)]

(* The loop over the properties in buf; a name the message does not have   *)
(* ends it with an error.  A later property replaces an earlier one of the *)
(* same name, user properties add up.                                      *)
Known(buf, at, names) == \E n \in names : PropertyId[n] = At(buf, at)
Keeps(p, name, value) ==
    IF name = "USER_PROPERTY"
    THEN [n \in DOMAIN p \cup {name} |->
             IF n # name THEN p[n] ELSE (IF name \in DOMAIN p THEN p[name] ELSE <<>>) \o <<value>>]
    ELSE [n \in DOMAIN p \cup {name} |-> IF n = name THEN value ELSE p[n]]
Nothing == [n \in {} |-> 0]

ReadProperties(buf, names) ==
    LET from[at \in Nat] ==
            CASE at >= Len(buf) -> [ok |-> TRUE, all |-> <<>>]
              [] at < Len(buf) /\ ~Known(buf, at, names) -> [ok |-> FALSE, all |-> <<>>]
              [] OTHER -> LET r == PropertyAt(buf, at)
                              next == from[at + r.size]
                          IN  [ok |-> next.ok, all |-> <<r>> \o next.all]
    IN  [ok |-> from[0].ok,
         p |-> FoldLeft(LAMBDA p, r : Keeps(p, r.name, r.value), Nothing, from[0].all)]

(* mqtt5_msg_get_user_property: the reason is printed, a failure is NULL.  *)
Without(p, names) == [n \in DOMAIN p \ names |-> p[n]]
mqtt5_msg_get_user_property(buf) ==
    LET r == ReadProperties(buf, {"REASON_STRING", "USER_PROPERTY"})
    IN  IF r.ok THEN Without(r.p, {"REASON_STRING"}) ELSE Nothing

(* After the fixed header, and after the properties that begin at an index.*)
Fixed(buf) == 1 + variable_bytes(buf, 1)
TotLen(buf) == Fixed(buf) + get_variable_len(buf, 1)
PropertiesAt(buf, at) == Part(buf, at + variable_bytes(buf, at), get_variable_len(buf, at))
AfterProperties(buf, at) == at + variable_bytes(buf, at) + get_variable_len(buf, at)

mqtt5_get_id(buf) ==
    CASE Fixed(buf) + 2 > Len(buf) -> 0
      [] Is(buf, "PUBLISH") -> LET at == Fixed(buf) + 2 + TwoAt(buf, Fixed(buf))
                               IN  IF at + 2 > Len(buf) \/ mqtt_get_qos(buf) = 0 THEN 0
                                   ELSE TwoAt(buf, at)
      [] \E t \in WithIdentifier : Is(buf, t) -> TwoAt(buf, Fixed(buf))
      [] OTHER -> 0

(* mqtt5_get_publish_property_payload; {} when it fails.                   *)
mqtt5_get_publish_property_payload(buf) ==
    LET topic == TextAt(buf, Fixed(buf))
        qos == mqtt_get_qos(buf)
        at == Fixed(buf) + 2 + Len(topic) + (IF qos > 0 THEN 2 ELSE 0)
        r == ReadProperties(PropertiesAt(buf, at), ToSet(PublishOrder) \cup {"SUBSCRIBE_IDENTIFIER", "REASON_STRING"})
        from == AfterProperties(buf, at)
        end == IF TotLen(buf) <= Len(buf) THEN TotLen(buf) ELSE Len(buf)
    IN  IF at >= Len(buf) \/ ~r.ok THEN {}
        ELSE {[topic |-> topic, p |-> Without(r.p, {"REASON_STRING"}), data |-> Part(buf, from, end - from)]}

mqtt5_get_suback_data(buf) ==
    LET at == Fixed(buf) + 2
    IN  IF TotLen(buf) > Len(buf) \/ at >= TotLen(buf) \/ AfterProperties(buf, at) >= TotLen(buf)
        THEN [data |-> <<>>, p |-> Nothing]
        ELSE [data |-> Part(buf, AfterProperties(buf, at), TotLen(buf) - AfterProperties(buf, at)),
              p |-> mqtt5_msg_get_user_property(PropertiesAt(buf, at))]

mqtt5_get_puback_data(buf) ==
    LET at == Fixed(buf) + 2
    IN  IF at >= TotLen(buf) THEN [data |-> <<>>, p |-> Nothing]
        ELSE [data |-> <<At(buf, at)>>,
              p |-> IF at + 1 >= TotLen(buf) THEN Nothing
                    ELSE mqtt5_msg_get_user_property(PropertiesAt(buf, at + 1))]

(* Mutant: an acknowledgement without a reason code is an error.           *)
mqtt5_msg_get_reason_code_required(buf) ==
    LET at == IF \E t \in {"SUBACK", "UNSUBACK"} : Is(buf, t)
              THEN AfterProperties(buf, Fixed(buf) + 2)
              ELSE Fixed(buf) + IF Is(buf, "DISCONNECT") THEN 0 ELSE 2
    IN  IF at >= Len(buf) THEN {} ELSE {At(buf, at)}

(* No reason code, -1, is the empty set here.                              *)
mqtt5_msg_get_reason_code(buf) ==
    LET code(at) == IF at >= Len(buf) THEN {} ELSE {At(buf, at)}
        fixed == Fixed(buf)
    IN  CASE \E t \in {"PUBACK", "PUBREC", "PUBREL", "PUBCOMP"} : Is(buf, t) ->
                 IF get_variable_len(buf, 1) = 2 THEN {0} ELSE code(fixed + 2)
          [] \E t \in {"SUBACK", "UNSUBACK"} : Is(buf, t) ->
                 IF fixed + 2 >= Len(buf) THEN {} ELSE code(AfterProperties(buf, fixed + 2))
          [] Is(buf, "DISCONNECT") -> code(fixed)
          [] OTHER -> {}

Printed == {"REASON_STRING", "SERVER_REFERENCE", "AUTHENTICATION_METHOD", "AUTHENTICATION_DATA"}
ConnackProperties ==
    Printed \cup {"SESSION_EXPIRY_INTERVAL", "RECEIVE_MAXIMUM", "MAXIMUM_QOS", "RETAIN_AVAILABLE",
        "MAXIMUM_PACKET_SIZE", "ASSIGNED_CLIENT_IDENTIFIER", "TOPIC_ALIAS_MAXIMIM", "USER_PROPERTY",
        "WILDCARD_SUBSCR_AVAILABLE", "SUBSCR_IDENTIFIER_AVAILABLE", "SHARED_SUBSCR_AVAILABLE",
        "SERVER_KEEP_ALIVE", "RESP_INFO"}

(* mqtt5_msg_parse_connack_property; {} when it fails.                     *)
mqtt5_msg_parse_connack_property(buf) ==
    LET at == Fixed(buf) + 2
        r == ReadProperties(PropertiesAt(buf, at), ConnackProperties)
    IN  IF TotLen(buf) > Len(buf) \/ ~r.ok THEN {}
        ELSE {[ack_flag |-> At(buf, at - 2), reason_code |-> At(buf, at - 1),
               p |-> Without(r.p, Printed)]}
=============================================================================
