----------------------------- MODULE MqttCodec -----------------------------
(***************************************************************************)
(* One message from the client to a broker or back: the builders and       *)
(* readers of MqttMsg and Mqtt5Msg against a reader and a writer made from *)
(* the wire format alone, as a broker has them (external).  A field is a   *)
(* sequence of numbers; properties are a function from identifiers.        *)
(***************************************************************************)
EXTENDS Mqtt5Msg

CONSTANT Exchanges      \* messages, with their sender and version

VARIABLES exchange, wire, got, stage
codecVars == <<exchange, wire, got, stage>>

CodecInit == exchange = <<>> /\ wire = <<>> /\ got = {} /\ stage = "idle"

(* Client or broker has a message to send.                                 *)
Mean == /\ stage = "idle" /\ stage' = "meant"
        /\ exchange' \in Exchanges
        /\ UNCHANGED <<wire, got>>

-----------------------------------------------------------------------------
(* The client writes                                                       *)

Built(e) ==
    CASE e.op = "connect" -> IF e.v5 THEN mqtt5_msg_connect(e.info, e.p, e.wp)
                             ELSE mqtt_msg_connect(e.info)
      [] e.op = "publish" ->
             LET first == IF e.v5 THEN mqtt5_msg_publish(e.topic, e.data, e.qos, e.retain, e.id, e.p, e.resp_info)
                          ELSE mqtt_msg_publish(e.topic, e.data, e.qos, e.retain, e.id)
                 \* what of the payload is in the first write
                 room == Len(first) - (IF e.v5 THEN AfterProperties(first, AfterTopic(first) + (IF e.qos > 0 THEN 2 ELSE 0))
                                       ELSE AfterTopic(first) + (IF e.qos > 0 THEN 2 ELSE 0))
             IN  IF first = <<>> THEN <<>> ELSE FlattenSeq(Fragments(first, e.data, room))
      [] e.op = "ack" ->
             IF e.v5 THEN [PUBACK |-> mqtt5_msg_puback(e.id), PUBREC |-> mqtt5_msg_pubrec(e.id),
                           PUBREL |-> mqtt5_msg_pubrel(e.id), PUBCOMP |-> mqtt5_msg_pubcomp(e.id)][e.type]
             ELSE [PUBACK |-> mqtt_msg_puback(e.id), PUBREC |-> mqtt_msg_pubrec(e.id),
                   PUBREL |-> mqtt_msg_pubrel(e.id), PUBCOMP |-> mqtt_msg_pubcomp(e.id)][e.type]
      [] e.op = "subscribe" -> IF e.v5 THEN mqtt5_msg_subscribe(e.topics, e.id, e.p, e.s)
                               ELSE mqtt_msg_subscribe(e.topics, e.id)
      [] e.op = "unsubscribe" -> IF e.v5 THEN mqtt5_msg_unsubscribe(e.topic, e.id, e.p, e.share)
                                 ELSE mqtt_msg_unsubscribe(e.topic, e.id)
      [] e.op = "pingreq" -> mqtt_msg_pingreq
      [] e.op = "disconnect" -> IF e.v5 THEN mqtt5_msg_disconnect(e.reason, e.p) ELSE mqtt_msg_disconnect

ClientWrites == /\ stage = "meant" /\ exchange.from = "client"
                /\ wire' = Built(exchange)
                /\ stage' = IF wire' = <<>> THEN "refused" ELSE "written"
                /\ UNCHANGED <<exchange, got>>

-----------------------------------------------------------------------------
(* The broker reads (external)                                             *)

Slice(s, from, len) == [i \in 1..len |-> IF from + i <= Len(s) THEN s[from + i] ELSE -1]
Number(bytes) == FoldLeft(LAMBDA n, b : 256 * n + b, 0, bytes)
VarSize(s, from) == LET ends == {k \in 1..4 : from + k > Len(s) \/ s[from + k] < 128}
                    IN  CHOOSE k \in ends : \A j \in ends : k <= j
VarValue(s, from) == FoldLeft(LAMBDA n, k : n + (Slice(s, from, 4)[k] % 128) * 128^(k - 1), 0,
                              [k \in 1..VarSize(s, from) |-> k])
TextSize(s, from) == 2 + Number(Slice(s, from, 2))

PropertySize == [i \in {1, 23, 25, 36, 37, 40, 41, 42} |-> 1] @@ [i \in {19, 33, 34, 35} |-> 2]
                @@ [i \in {2, 17, 24, 39} |-> 4]

(* A field of a kind: the bytes it takes and its value.                    *)
Field(kind, s, from) ==
    CASE kind = "byte" -> [size |-> 1, value |-> Slice(s, from, 1)]
      [] kind = "two" -> [size |-> 2, value |-> <<Number(Slice(s, from, 2))>>]
      [] kind = "text" -> [size |-> TextSize(s, from), value |-> Slice(s, from + 2, TextSize(s, from) - 2)]
      [] kind = "properties" -> [size |-> VarSize(s, from) + VarValue(s, from),
                                 value |-> Slice(s, from + VarSize(s, from), VarValue(s, from))]
      [] kind = "rest" -> [size |-> Len(s) - from, value |-> Slice(s, from, Len(s) - from)]

Fields(s, kinds) ==
    FoldLeft(LAMBDA r, kind : LET f == Field(kind, s, r.at)
                              IN  [at |-> r.at + f.size, out |-> Append(r.out, f.value)],
             [at |-> 0, out |-> <<>>], kinds)

(* The properties of a message as a function of their identifiers.         *)
OfProperties(s) ==
    LET after[at \in Nat] ==     \* those after the first at bytes
            LET id == s[at + 1]
                t1 == Field("text", s, at + 1)
                t2 == Field("text", s, at + 1 + t1.size)
                n == PropertySize[id]
                others == after[at + 1 + t1.size + t2.size]
            IN  CASE at >= Len(s) -> [i \in {} |-> 0]
                  [] at < Len(s) /\ id \in DOMAIN PropertySize ->
                         (id :> <<Number(Slice(s, at + 1, n))>>) @@ after[at + 1 + n]
                  [] at < Len(s) /\ id = 11 ->
                         (id :> <<VarValue(s, at + 1)>>) @@ after[at + 1 + VarSize(s, at + 1)]
                  [] at < Len(s) /\ id = 38 ->
                         (id :> <<<<t1.value, t2.value>>>>
                                \o (IF id \in DOMAIN others THEN others[id] ELSE <<>>)) @@ others
                  [] OTHER -> (id :> t1.value) @@ after[at + 1 + t1.size]
    IN  after[0]

Repeat(kinds, n) == FlattenSeq([k \in 1..n |-> kinds])

(* What a broker finds in the body of a message of a type.                 *)
Kinds(e, type, flags, body) ==
    LET props == If(e.v5, <<"properties">>)
        c == body[4 + body[2]]                       \* connect flags
        has(weight) == (c \div weight) % 2 = 1
    IN  CASE type = "CONNECT" -> <<"text", "byte", "byte", "two">> \o props \o <<"text">>
                                 \o If(has(4), props \o <<"text", "text">>)
                                 \o If(has(128), <<"text">>) \o If(has(64), <<"text">>)
          [] type = "PUBLISH" -> <<"text">> \o If((flags \div 2) % 4 > 0, <<"two">>) \o props \o <<"rest">>
          [] type \in {"PUBACK", "PUBREC", "PUBREL", "PUBCOMP"} -> <<"two">> \o If(e.v5, <<"byte", "properties">>)
          [] type = "SUBSCRIBE" -> <<"two">> \o props \o Repeat(<<"text", "byte">>, Len(e.topics))
          [] type = "UNSUBSCRIBE" -> <<"two">> \o props \o <<"text">>
          [] type = "DISCONNECT" -> If(e.v5, <<"byte", "properties">>)
          [] OTHER -> <<>>

(* The message is whole when the fields end where its length says.         *)
AsRead(e, w) ==
    LET type == CHOOSE t \in DOMAIN Type : Type[t] = w[1] \div 16
        body == Slice(w, 1 + VarSize(w, 1), VarValue(w, 1))
        kinds == Kinds(e, type, w[1] % 16, body)
        fields == Fields(body, kinds)
    IN  [type |-> type, flags |-> w[1] % 16,
         whole |-> fields.at = Len(body) /\ Len(w) = 1 + VarSize(w, 1) + Len(body),
         fields |-> [k \in DOMAIN kinds |-> IF kinds[k] = "properties" THEN <<>> ELSE fields.out[k]],
         props |-> [k \in {j \in DOMAIN kinds : kinds[j] = "properties"} |-> OfProperties(fields.out[k])]]

BrokerReads == /\ stage = "written" /\ exchange.from = "client"
               /\ got' = {AsRead(exchange, wire)}
               /\ stage' = "read"
               /\ UNCHANGED <<exchange, wire>>

-----------------------------------------------------------------------------
(* What the client meant, as the same fields                               *)

Wrapped(name, v) == IF name \in Bytes1 \cup Bytes2 \cup Bytes4 \cup Variable THEN <<v>> ELSE v
ById(p) == [i \in {PropertyId[n] : n \in DOMAIN p} |->
               LET n == CHOOSE m \in DOMAIN p : PropertyId[m] = i IN Wrapped(n, p[n])]

(* Fields and properties in their places.                                  *)
Meant(type, flags, fields, props) ==
    [type |-> type, flags |-> flags, whole |-> TRUE, fields |-> fields, props |-> props]
At5(e, k, p) == IF e.v5 THEN [i \in {k} |-> ById(p)] ELSE [i \in {} |-> 0]
Slot(e) == If(e.v5, <<<<>>>>)
Joined(p, resp_info) ==
    [n \in DOMAIN p |-> IF n = "RESPONSE_TOPIC" /\ resp_info # <<>>
                        THEN p[n] \o <<47>> \o resp_info ELSE p[n]]

(* Bits 0-1 QoS, 2 no local, 3 retain as published, 4-5 retain handling.   *)
Options(e, qos) == IF e.v5 THEN qos + Bit(e.s.no_local_flag, 4) + Bit(e.s.retain_as_published_flag, 8)
                                + 16 * e.s.retain_handle ELSE qos

MeantConnect(e) ==
    LET i == e.info
        v31 == ~e.v5 /\ i.protocol_ver = 3
        will == i.will_topic # <<>>
        user == i.username # <<>> \/ i.password # <<>>
        c == Bit(user, 128) + Bit(i.password # <<>>, 64) + Bit(will /\ i.will_retain, 32)
             + Bit(will, 8 * i.will_qos + 4) + Bit(i.clean_session, 2)
    IN  Meant("CONNECT", 0,
            <<IF v31 THEN <<77, 81, 73, 115, 100, 112>> ELSE <<77, 81, 84, 84>>,
              <<IF e.v5 THEN 5 ELSE IF v31 THEN 3 ELSE 4>>, <<c>>, <<i.keepalive>>>>
            \o Slot(e) \o <<i.client_id>>
            \o If(will, Slot(e) \o <<i.will_topic, i.will_message>>)
            \o If(user, <<i.username>>) \o If(i.password # <<>>, <<i.password>>),
            At5(e, 5, e.p) @@ IF will THEN At5(e, 7, e.wp) ELSE [k \in {} |-> 0])

MeantBy(e) ==
    CASE e.op = "connect" -> MeantConnect(e)
      [] e.op = "publish" -> Meant("PUBLISH", 2 * e.qos + e.retain,
             <<e.topic>> \o If(e.qos > 0, <<<<e.id>>>>) \o Slot(e) \o <<e.data>>,
             At5(e, IF e.qos > 0 THEN 3 ELSE 2, IF e.v5 THEN Joined(e.p, e.resp_info) ELSE Nothing))
      [] e.op = "ack" -> Meant(e.type, IF e.type = "PUBREL" THEN 2 ELSE 0,
             <<<<e.id>>>> \o If(e.v5, <<<<0>>, <<>>>>), At5(e, 3, Nothing))
      [] e.op = "subscribe" -> Meant("SUBSCRIBE", 2,
             <<<<e.id>>>> \o Slot(e)
             \o FlattenSeq([k \in DOMAIN e.topics |->
                   <<IF e.v5 THEN shared_topic(e.topics[k].filter, e.s.share) ELSE e.topics[k].filter,
                     <<Options(e, e.topics[k].qos)>>>>]),
             At5(e, 2, e.p))
      [] e.op = "unsubscribe" -> Meant("UNSUBSCRIBE", 2,
             <<<<e.id>>>> \o Slot(e) \o <<IF e.v5 THEN shared_topic(e.topic, e.share) ELSE e.topic>>,
             At5(e, 2, e.p))
      [] e.op = "pingreq" -> Meant("PINGREQ", 0, <<>>, [k \in {} |-> 0])
      [] e.op = "disconnect" -> Meant("DISCONNECT", 0, If(e.v5, <<<<e.reason>>, <<>>>>), At5(e, 2, e.p))

-----------------------------------------------------------------------------
(* The broker writes (external), the client reads                          *)

BigEndian(n, size) == [i \in 1..size |-> (n \div 256^(size - i)) % 256]
EncodedOne(id, v) ==
    CASE id \in DOMAIN PropertySize -> <<id>> \o BigEndian(v, PropertySize[id])
      [] id = 38 -> FlattenSeq([k \in DOMAIN v |-> <<id>> \o append_string(v[k][1]) \o append_string(v[k][2])])
      [] OTHER -> <<id>> \o append_string(v)
Encoded(p) == LET all == FoldSet(LAMBDA n, s : s \o EncodedOne(PropertyId[n], p[n]), <<>>, DOMAIN p)
              IN  encoded_length[Len(all)] \o all

Reply(e) ==
    LET props == If(e.v5, Encoded(e.p))
        body == CASE e.op = "CONNACK" -> <<e.ack_flag, e.code>> \o props
                  [] e.op \in {"PUBACK", "PUBREC", "PUBREL", "PUBCOMP"} ->
                         Two(e.id) \o If(e.v5 /\ e.long, <<e.code>> \o props)
                  [] e.op \in {"SUBACK", "UNSUBACK"} -> Two(e.id) \o props \o If(e.op = "SUBACK" \/ e.v5, <<e.code>>)
                  [] e.op = "PUBLISH" -> append_string(e.topic) \o If(e.qos > 0, Two(e.id)) \o props \o e.data
                  [] e.op = "DISCONNECT" -> <<e.code>>
        flags == IF e.op = "PUBLISH" THEN 2 * e.qos + e.retain ELSE IF e.op = "PUBREL" THEN 2 ELSE 0
    IN  <<16 * Type[e.op] + flags>> \o encoded_length[Len(body)] \o body

BrokerWrites == /\ stage = "meant" /\ exchange.from = "broker"
                /\ wire' = Reply(exchange) /\ stage' = "written"
                /\ UNCHANGED <<exchange, got>>

(* What mqtt_process_receive and the functions it calls take from it.      *)
TakenPublish(e, w) ==
    LET v5 == mqtt5_get_publish_property_payload(w)
        v3 == {[topic |-> t, p |-> Nothing, data |-> mqtt_get_publish_data(w)] : t \in mqtt_get_publish_topic(w)}
    IN  {[id |-> IF e.v5 THEN mqtt5_get_id(w) ELSE mqtt_get_id(w), topic |-> r.topic, p |-> r.p, data |-> r.data,
          qos |-> mqtt_get_qos(w), retain |-> mqtt_get_retain(w)] : r \in (IF e.v5 THEN v5 ELSE v3)}

Taken(e, w) ==
    CASE e.op = "PUBLISH" -> TakenPublish(e, w)
      [] e.op = "CONNACK" ->
             IF e.v5 THEN {[ack_flag |-> r.ack_flag, code |-> r.reason_code, p |-> r.p] :
                              r \in mqtt5_msg_parse_connack_property(w)}
             ELSE {[ack_flag |-> w[3], code |-> w[4], p |-> Nothing]}   \* mqtt_get_connect_session_present, return_code
      [] e.op = "DISCONNECT" -> {[code |-> c] : c \in mqtt5_msg_get_reason_code(w)}
      [] OTHER ->
             LET data == IF ~e.v5 THEN mqtt_get_suback_data(w)
                         ELSE IF e.op \in {"SUBACK", "UNSUBACK"} THEN mqtt5_get_suback_data(w).data
                         ELSE mqtt5_get_puback_data(w).data
                 p == IF ~e.v5 THEN Nothing ELSE IF e.op \in {"SUBACK", "UNSUBACK"} THEN mqtt5_get_suback_data(w).p
                      ELSE mqtt5_get_puback_data(w).p
             IN  {[id |-> IF e.v5 THEN mqtt5_get_id(w) ELSE mqtt_get_id(w), data |-> data, p |-> p,
                   codes |-> IF e.v5 THEN mqtt5_msg_get_reason_code(w) ELSE {}]}

ClientReads == /\ stage = "written" /\ exchange.from = "broker"
               /\ got' = IF mqtt_has_valid_msg_hdr(Head(wire)) THEN Taken(exchange, wire) ELSE {}
               /\ stage' = "read"
               /\ UNCHANGED <<exchange, wire>>

(* What the broker meant.                                                  *)
Kept(e, names) == IF e.v5 THEN [n \in DOMAIN e.p \ names |-> e.p[n]] ELSE Nothing
MeantReply(e) ==
    CASE e.op = "PUBLISH" -> [id |-> IF e.qos > 0 THEN e.id ELSE 0, topic |-> e.topic, p |-> Kept(e, {"REASON_STRING"}),
                              data |-> e.data, qos |-> e.qos, retain |-> e.retain]
      [] e.op = "CONNACK" -> [ack_flag |-> e.ack_flag, code |-> e.code, p |-> Kept(e, Printed)]
      [] e.op = "DISCONNECT" -> [code |-> e.code]
      [] OTHER -> LET long == e.op \in {"SUBACK", "UNSUBACK"} \/ e.long
                      code == IF e.v5 THEN long ELSE e.op = "SUBACK"
                  IN  [id |-> e.id, data |-> If(code, <<e.code>>),
                       p |-> IF long THEN Kept(e, {"REASON_STRING"}) ELSE Nothing,
                       codes |-> IF ~e.v5 THEN {} ELSE IF long THEN {e.code} ELSE {0}]

CodecNext == Mean \/ ClientWrites \/ BrokerReads \/ BrokerWrites \/ ClientReads
CodecSpec == CodecInit /\ [][CodecNext]_codecVars

-----------------------------------------------------------------------------
(* Properties                                                              *)

(* The broker finds in the bytes the client wrote, whole or in fragments,  *)
(* exactly the message that was asked for: its type and flags, its fields, *)
(* its properties, and nothing before or after it.                         *)
BrokerUnderstands == (stage = "read" /\ exchange.from = "client") => got = {MeantBy(exchange)}

(* The client finds in a reply what the broker put there.                  *)
ClientUnderstands == (stage = "read" /\ exchange.from = "broker") => got = {MeantReply(exchange)}
=============================================================================
