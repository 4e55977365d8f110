---------------------------- MODULE MCExchanges ----------------------------
(* Messages for TLC.  Text of length 0, 1 and more, payloads that fit the  *)
(* buffer and that do not, identifiers at the ends of their range.         *)
EXTENDS Naturals, Sequences

Bytes(n) == [i \in 1..n |-> (i * 37) % 256]
A == <<65>>
Ids == {1, 256, 65535}
Fn(names, all) == [n \in names |-> all[n]]

Infos(versions) ==
    [client_id : {<<>>, A}, username : {<<>>, Bytes(3)}, password : {<<>>, Bytes(2)},
     will_topic : {<<>>, Bytes(4)}, will_message : {<<>>, Bytes(2)}, will_qos : 0..2,
     will_retain : BOOLEAN, clean_session : BOOLEAN, keepalive : {300}, protocol_ver : versions]
Topics == {<<[filter |-> A, qos |-> 2]>>,
           <<[filter |-> Bytes(3), qos |-> 0], [filter |-> A, qos |-> 1]>>, <<[filter |-> <<>>, qos |-> 0]>>}
Ack3 == [from : {"client"}, v5 : {FALSE}, op : {"ack"}, type : {"PUBACK", "PUBREC", "PUBREL", "PUBCOMP"}, id : Ids]
Empty3 == [from : {"client"}, v5 : {FALSE}, op : {"pingreq", "disconnect"}]

Client3 == [from : {"client"}, v5 : {FALSE}, op : {"connect"}, info : Infos({3, 4})]
    \cup [from : {"client"}, v5 : {FALSE}, op : {"publish"}, topic : {<<>>, A, Bytes(9), Bytes(40)},
          data : {<<>>, A, Bytes(25), Bytes(26), Bytes(27), Bytes(130)}, qos : 0..2, retain : 0..1, id : Ids]
    \cup Ack3 \cup Empty3
    \cup [from : {"client"}, v5 : {FALSE}, op : {"subscribe"}, topics : Topics, id : Ids]
    \cup [from : {"client"}, v5 : {FALSE}, op : {"unsubscribe"}, topic : {<<>>, A, Bytes(40)}, id : Ids]
Broker3 == [from : {"broker"}, v5 : {FALSE}, op : {"CONNACK"}, ack_flag : 0..1, code : 0..5]
    \cup [from : {"broker"}, v5 : {FALSE}, op : {"PUBACK", "PUBREC", "PUBREL", "PUBCOMP", "SUBACK", "UNSUBACK"},
          id : Ids, code : {0, 1, 2, 128}, long : {FALSE}]
    \cup [from : {"broker"}, v5 : {FALSE}, op : {"PUBLISH"}, topic : {A, Bytes(9)}, qos : 0..2, retain : 0..1,
          id : Ids, data : {<<>>, A, Bytes(130)}]
V3 == Client3 \cup Broker3

User == <<<<A, <<>>>>, <<Bytes(70), Bytes(70)>>>>
ConnectAll == [SESSION_EXPIRY_INTERVAL |-> 70000, MAXIMUM_PACKET_SIZE |-> 1, RECEIVE_MAXIMUM |-> 65535,
               TOPIC_ALIAS_MAXIMIM |-> 1, REQUEST_RESP_INFO |-> 1, REQUEST_PROBLEM_INFO |-> 1, USER_PROPERTY |-> User]
WillAll == [WILL_DELAY_INTERVAL |-> 1, PAYLOAD_FORMAT_INDICATOR |-> 1, MESSAGE_EXPIRY_INTERVAL |-> 16777217,
            CONTENT_TYPE |-> A, RESPONSE_TOPIC |-> Bytes(3), CORRELATION_DATA |-> <<0, 255>>, USER_PROPERTY |-> User]
PublishAll == [PAYLOAD_FORMAT_INDICATOR |-> 1, MESSAGE_EXPIRY_INTERVAL |-> 1, TOPIC_ALIAS |-> 256,
               RESPONSE_TOPIC |-> Bytes(3), CORRELATION_DATA |-> <<0, 255>>, USER_PROPERTY |-> User, CONTENT_TYPE |-> A]
ConnackAll == [SESSION_EXPIRY_INTERVAL |-> 70000, RECEIVE_MAXIMUM |-> 10, MAXIMUM_QOS |-> 1, RETAIN_AVAILABLE |-> 0,
               MAXIMUM_PACKET_SIZE |-> 65536, ASSIGNED_CLIENT_IDENTIFIER |-> A, REASON_STRING |-> A,
               SERVER_KEEP_ALIVE |-> 60, RESP_INFO |-> Bytes(2), USER_PROPERTY |-> User]
(* Every property alone, with every other, and all together.               *)
Some(all) == {Fn({a, b}, all) : a, b \in DOMAIN all} \cup {Fn({}, all), all}
None == {Fn({}, PublishAll)}
AckAll == [REASON_STRING |-> A, USER_PROPERTY |-> User]
Plain == [client_id |-> A, username |-> <<>>, password |-> <<>>, will_topic |-> Bytes(4),
          will_message |-> Bytes(2), will_qos |-> 1, will_retain |-> FALSE, clean_session |-> TRUE,
          keepalive |-> 300, protocol_ver |-> 5]

Client5 == [from : {"client"}, v5 : {TRUE}, op : {"connect"}, info : Infos({5}), p : None, wp : None]
    \cup [from : {"client"}, v5 : {TRUE}, op : {"connect"}, info : {Plain}, p : Some(ConnectAll), wp : None]
    \cup [from : {"client"}, v5 : {TRUE}, op : {"connect"}, info : {Plain}, p : None, wp : Some(WillAll)]
    \cup [from : {"client"}, v5 : {TRUE}, op : {"publish"}, topic : {<<>>, Bytes(9)}, data : {<<>>, Bytes(300)},
          qos : 0..1, retain : {1}, id : {256}, p : Some(PublishAll), resp_info : {<<>>}]
    \cup [from : {"client"}, v5 : {TRUE}, op : {"ack"}, type : {"PUBACK", "PUBREC", "PUBREL", "PUBCOMP"}, id : Ids]
    \cup [from : {"client"}, v5 : {TRUE}, op : {"subscribe"}, topics : Topics, id : {256},
          p : Some([SUBSCRIBE_IDENTIFIER |-> 300, USER_PROPERTY |-> User]),
          s : [share : {<<>>, Bytes(2)}, retain_handle : 0..2, no_local_flag : BOOLEAN,
               retain_as_published_flag : BOOLEAN]]
    \cup [from : {"client"}, v5 : {TRUE}, op : {"unsubscribe"}, topic : {<<>>, A}, id : {256},
          p : Some([USER_PROPERTY |-> User]), share : {<<>>, A}]
    \cup [from : {"client"}, v5 : {TRUE}, op : {"disconnect"}, reason : {0, 4},
          p : Some([SESSION_EXPIRY_INTERVAL |-> 1, USER_PROPERTY |-> User])]
Broker5 == [from : {"broker"}, v5 : {TRUE}, op : {"CONNACK"}, ack_flag : 0..1, code : {0, 135}, p : Some(ConnackAll)]
    \cup [from : {"broker"}, v5 : {TRUE}, op : {"PUBACK", "PUBREC", "PUBREL", "PUBCOMP"}, id : {256},
          code : {0, 16}, long : BOOLEAN, p : Some(AckAll)]
    \cup [from : {"broker"}, v5 : {TRUE}, op : {"SUBACK", "UNSUBACK"}, id : {256}, code : {2, 128}, p : Some(AckAll)]
    \cup [from : {"broker"}, v5 : {TRUE}, op : {"PUBLISH"}, topic : {<<>>, A}, qos : 0..1, retain : {0}, id : {256},
          data : {<<>>, Bytes(9)}, p : Some(PublishAll)]
    \cup [from : {"broker"}, v5 : {TRUE}, op : {"DISCONNECT"}, code : {0, 142}, p : None]
V5 == Client5 \cup Broker5
=============================================================================
