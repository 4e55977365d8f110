-------------------------- MODULE Mqtt5Properties --------------------------
(***************************************************************************)
(* What an MQTT 5 client remembers from one call, or one connection, to    *)
(* the next (mqtt5_client.c): the one-time properties the application sets *)
(* before it publishes, subscribes, unsubscribes or disconnects; the       *)
(* limits the broker states in CONNACK; and the topics behind the broker's *)
(* topic aliases.  Every call below holds the client's lock; setting a     *)
(* property and sending the message are two calls.                         *)
(***************************************************************************)
EXTENDS Naturals, FiniteSets

CONSTANTS Callers,        \* tasks of the application that use the client
          Properties,     \* op -> the property structures a task may pass
          Announcements,  \* what a CONNACK may state: functions on some of the limits
          Messages,       \* [qos, retain, fits] of the application's messages
          Topics, AliasMaxima,
          MaxConnects     \* bound: connections made

VARIABLES info,       \* publish_property_info ...: {} for NULL
          wish,       \* history: what each task set for its next message
          unused,     \* history: what was set since the last message of the kind
          latest,     \* history: the tasks since whose last call of the kind no other
                      \* came, and no message was refused
          server,     \* server_resp_property_info
          announced,  \* the limits of the broker of this connection
          up, connects,
          alias_max,  \* connect_property_info.topic_alias_maximum
          alias_told, \* the one the broker of this connection was told
          peer_topic_alias, \* alias -> topic, as the client recorded it
          broker_alias,     \* alias -> topic, as the broker means it
          last        \* the last message made, or event delivered

p5Vars == <<info, wish, unused, latest, server, announced, up, connects, alias_max, alias_told,
            peer_topic_alias, broker_alias, last>>

Ops == DOMAIN Properties
Nothing == [what |-> "nothing"]
NoAliases == <<>>

(* esp_mqtt5_create_default_config: what holds until a CONNACK says more;  *)
(* also what the protocol says of a limit that a CONNACK does not state.   *)
Defaults == [topic_alias_maximum |-> 0, max_qos |-> 2, retain_available |-> TRUE,
             shared_subscribe_available |-> TRUE]

ASSUME P5Assumption ==
    /\ Ops \subseteq {"publish", "subscribe", "unsubscribe", "disconnect"}
    /\ \A stated \in Announcements :
          /\ "max_qos" \in DOMAIN stated => stated.max_qos \in 0 .. 2
          /\ "retain_available" \in DOMAIN stated => stated.retain_available \in BOOLEAN
    /\ \A m \in Messages : m.qos \in 0 .. 2
    /\ AliasMaxima \subseteq Nat

P5Init == /\ info = [op \in Ops |-> {}] /\ wish = [t \in Callers |-> [op \in Ops |-> {}]]
          /\ unused = [op \in Ops |-> {}] /\ latest = [op \in Ops |-> Callers]
          /\ server = Defaults /\ announced = Defaults
          /\ up = FALSE /\ connects = 0 /\ alias_max = 0 /\ alias_told = 0
          /\ peer_topic_alias = NoAliases /\ broker_alias = NoAliases /\ last = Nothing

(* esp_mqtt5_parse_connack: a limit the CONNACK states replaces the one    *)
(* held; one it does not state stays as it was.                            *)
Stating(stated, held) == [l \in DOMAIN held |-> IF l \in DOMAIN stated THEN stated[l] ELSE held[l]]

parse_connack(stated) == server' = Stating(stated, server)

(* The client connects: it tells the broker its own alias maximum, and     *)
(* broker's aliases start afresh.  The client's table is kept.             *)
Connect(stated) ==
    /\ ~up /\ connects < MaxConnects
    /\ up' = TRUE /\ connects' = connects + 1
    /\ parse_connack(stated) /\ announced' = Stating(stated, Defaults)
    /\ alias_told' = alias_max /\ broker_alias' = NoAliases /\ last' = Nothing
    /\ UNCHANGED <<info, wish, unused, latest, alias_max, peer_topic_alias>>

Break == /\ up /\ up' = FALSE /\ last' = Nothing
         /\ UNCHANGED <<info, wish, unused, latest, server, announced, connects, alias_max, alias_told,
                        peer_topic_alias, broker_alias>>

(* esp_mqtt5_client_set_connect_property, of the alias maximum.            *)
set_connect_property(max) ==
    /\ alias_max' = max /\ last' = Nothing
    /\ UNCHANGED <<info, wish, unused, latest, server, announced, up, connects, alias_told,
                   peer_topic_alias, broker_alias>>

-----------------------------------------------------------------------------
(* The checks of set_publish_property, set_subscribe_property and          *)
(* set_unsubscribe_property.                                               *)
Acceptable(op, p) ==
    CASE op = "publish" -> p.topic_alias <= server.topic_alias_maximum
      [] op = "subscribe" -> p.shared => /\ ~p.no_local /\ server.shared_subscribe_available
                                         /\ p.named
      [] op = "unsubscribe" -> p.shared => server.shared_subscribe_available /\ p.named
      [] op = "disconnect" -> TRUE

(* A pointer is replaced; the fields of a disconnect property are merged   *)
(* into those set before.                                                  *)
Replaced(op, old, p) ==
    IF op = "disconnect" THEN {q \in old : q.field # p.field} \cup {p} ELSE {p}

set_property(t, op, p) ==
    /\ p \in Properties[op] /\ Acceptable(op, p)
    /\ info' = [info EXCEPT ![op] = Replaced(op, @, p)]
    /\ wish' = [wish EXCEPT ![t][op] = Replaced(op, @, p)]
    /\ unused' = [unused EXCEPT ![op] = @ \cup {p}]
    /\ latest' = [latest EXCEPT ![op] = IF op = "disconnect" THEN @ \cap {t} ELSE {t}]
    /\ last' = Nothing
    /\ UNCHANGED <<server, announced, up, connects, alias_max, alias_told,
                   peer_topic_alias, broker_alias>>

(* Mutant: whatever is asked for is published.                             *)
checkAlways(op, m) == TRUE

(* esp_mqtt5_client_publish_check and esp_mqtt5_client_subscribe_check.    *)
check(op, m) ==
    /\ op \in {"publish", "subscribe"} => m.qos <= server.max_qos
    /\ (op = "publish" /\ m.retain) => server.retain_available

(* Mutant: the pointer is kept.                                            *)
UsedKept(op) == info' = info

(* The property has been used: the pointer is cleared once the message is  *)
(* made.                                                                   *)
Used(op) == info' = [info EXCEPT ![op] = {}]

(* esp_mqtt_client_publish, subscribe_multiple, unsubscribe and            *)
(* send_disconnect_msg, up to the message they make.                       *)
Make(t, op, m) ==
    /\ op = "disconnect" => up
    /\ check(op, m) /\ m.fits
    /\ Used(op)
    /\ last' = [what |-> op, property |-> info[op], message |-> m, wished |-> wish[t][op],
                unused |-> unused[op], undisturbed |-> t \in latest[op]]
    /\ wish' = [wish EXCEPT ![t][op] = {}]
    /\ unused' = [unused EXCEPT ![op] = {}] /\ latest' = [latest EXCEPT ![op] = {t}]
    /\ UNCHANGED <<server, announced, up, connects, alias_max, alias_told,
                   peer_topic_alias, broker_alias>>

(* The message is refused, or does not fit the buffer: the call returns -1 *)
(* and the pointer stays.                                                  *)
MakeFails(t, op, m) ==
    /\ op # "disconnect" /\ ~(check(op, m) /\ m.fits)
    /\ last' = [what |-> IF check(op, m) THEN "too long" ELSE "refused", message |-> m]
    /\ wish' = [wish EXCEPT ![t][op] = {}] /\ latest' = [latest EXCEPT ![op] = {}]
    /\ UNCHANGED <<info, unused, server, announced, up, connects, alias_max, alias_told,
                   peer_topic_alias, broker_alias>>

-----------------------------------------------------------------------------
(* A table of aliases in which alias stands for topic.                     *)
WithAlias(table, alias, topic) ==
    [a \in DOMAIN table \cup {alias} |-> IF a = alias THEN topic ELSE table[a]]

(* Mutant: an alias keeps the first topic it was given.                    *)
update_topic_aliasOnce(alias, topic) ==
    IF alias \in DOMAIN peer_topic_alias THEN peer_topic_alias
    ELSE WithAlias(peer_topic_alias, alias, topic)

(* esp_mqtt5_client_update_topic_alias: a new item, or a new topic for it. *)
update_topic_alias(alias, topic) == WithAlias(peer_topic_alias, alias, topic)

(* esp_mqtt5_get_publish_data of a message with this alias (0 for none)    *)
(* and, unless short, its topic; a failure ends the connection.            *)
get_publish_data(topic, alias, short) ==
    LET ok == /\ alias <= alias_max
              /\ (alias > 0 /\ short) => alias \in DOMAIN peer_topic_alias
        got == IF ~ok THEN "refused"
               ELSE IF short THEN peer_topic_alias[alias] ELSE topic
    IN  /\ last' = [what |-> "event", topic |-> got, meant |-> topic]
        /\ up' = ok
        /\ peer_topic_alias' = IF ok /\ alias > 0 /\ ~short
                               THEN update_topic_alias(alias, topic) ELSE peer_topic_alias

(* The broker sends a message; it omits the topic only where this          *)
(* connection has given it an alias.                                       *)
BrokerPublish(topic, alias, short) ==
    /\ up /\ alias <= alias_told
    /\ short => alias \in DOMAIN broker_alias /\ broker_alias[alias] = topic
    /\ broker_alias' = IF alias > 0 THEN WithAlias(broker_alias, alias, topic) ELSE broker_alias
    /\ get_publish_data(topic, alias, short)
    /\ UNCHANGED <<info, wish, unused, latest, server, announced, connects, alias_max, alias_told>>

P5Next ==
    \/ \E stated \in Announcements : Connect(stated)
    \/ Break
    \/ \E max \in AliasMaxima : set_connect_property(max)
    \/ \E t \in Callers, op \in Ops : \E p \in Properties[op] : set_property(t, op, p)
    \/ \E t \in Callers, op \in Ops, m \in Messages : Make(t, op, m) \/ MakeFails(t, op, m)
    \/ \E topic \in Topics, alias \in 0..alias_told, short \in BOOLEAN :
          BrokerPublish(topic, alias, short)

P5Spec == P5Init /\ [][P5Next]_p5Vars

-----------------------------------------------------------------------------
(* Properties                                                              *)

(* The application states one maximum, if any: lowering it while connected *)
(* would refuse aliases the broker was allowed.                            *)
OneMaximum == \A a, b \in AliasMaxima : a = b

(* However the tasks that use the client take turns at setting properties  *)
(* and sending, properties are "one-time configuration": a message carries  *)
(* none that an earlier message carried, and none of another kind.  And    *)
(* they are those its own task set, if no other task set any or sent a     *)
(* message of the kind since, and none was refused: otherwise the one      *)
(* field of the client holds what came last, or nothing.                   *)
PropertiesOfMessage ==
    last.what \in Ops => /\ last.property \subseteq last.unused
                         /\ last.undisturbed => last.property = last.wished

(* The event of a message names the topic the broker published it under,   *)
(* and no message of the broker is refused, whatever connections and       *)
(* aliases came before.                                                    *)
EventTopicRight == last.what = "event" => last.topic = last.meant

(* A message published on a connection keeps to the QoS and the retain     *)
(* flag the broker of that connection allows.                              *)
WithinServerLimits ==
    (last.what = "publish" /\ up) => /\ last.message.qos <= announced.max_qos
                                     /\ last.message.retain => announced.retain_available
=============================================================================
