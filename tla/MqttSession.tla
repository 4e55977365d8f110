---------------------------- MODULE MqttSession ----------------------------
(***************************************************************************)
(* The message flows of the esp-mqtt client (mqtt_client.c) at all three   *)
(* qualities of service, with subscriptions, the outbox limit and the      *)
(* MQTT 5 flow control (mqtt5_client.c), against a broker that keeps the   *)
(* session when the connection is lost.  An action is one holding of the   *)
(* API lock; what the API reads before it takes the lock is an action of   *)
(* its own.  Identifiers of messages in flight are distinct (EspMqttClient *)
(* treats collisions): message m has identifier m, a QoS 0 message has 0.  *)
(* A timeout may be over at any time.  Lengths are counted in messages.    *)
(***************************************************************************)
EXTENDS Outbox, SequencesExt

CONSTANTS N,                 \* messages the application sends
          Callers,           \* tasks of the application
          Calls,             \* the API functions they use
          QoS,               \* at these qualities of service
          In, InQoS,         \* messages the broker sends, and their QoS
          V5,                \* protocol_ver = MQTT_PROTOCOL_V_5
          LongMessages,      \* messages longer than the buffers
          receive_maximum,   \* of the broker's CONNACK
          outbox_limit,      \* 0: no limit
          MayExpire,         \* connections may be away as long as the expiry
          ReportsDeleted,    \* MQTT_REPORT_DELETED_MESSAGES; by default FALSE
          MaxBreaks,         \* bound: connections lost, deliveries that fail or stall
          MaxPackets,        \* bound: packets under way when one is sent again
          MaxCount           \* bound: the counter when one is sent again

ASSUME SessionAssumption ==
    /\ {N, MaxBreaks, MaxPackets, MaxCount} \subseteq Nat
    /\ receive_maximum \in Nat /\ outbox_limit \in Nat
    /\ Calls \subseteq {"publish", "enqueue", "store", "subscribe", "unsubscribe"}
    /\ QoS \subseteq 0..2 /\ In \subseteq DOMAIN InQoS /\ Range(InQoS) \subseteq 0..2
    /\ IsFiniteSet(In)
    /\ V5 \in BOOLEAN /\ LongMessages \in BOOLEAN
    /\ MayExpire \in BOOLEAN /\ ReportsDeleted \in BOOLEAN

VARIABLES connected,   \* state = MQTT_STATE_CONNECTED
          link,        \* the connection still carries packets
          c2b, b2c,    \* packets under way
          outbox,      \* message number -> item
          sent,        \* type and QoS of the messages so far
          count,       \* send_publish_packet_count
          call,        \* what a caller has checked and not yet done
          ret,         \* what the call for a message returned
          event,       \* the completion event of a message; "expired": it went without one
          data,        \* what the application was given of an incoming message
          broker,      \* the broker's session
          breaks

clientVars == <<outbox, sent, count, call, ret, event, data>>
linkVars == <<connected, link, c2b, b2c, breaks>>
sessionVars == <<clientVars, linkVars, broker>>

Msgs == 1..N

(* Initiator of an acknowledgement; the client keeps it until then.        *)
Initiator == [SUBACK |-> "SUBSCRIBE", UNSUBACK |-> "UNSUBSCRIBE",
              PUBACK |-> "PUBLISH", PUBCOMP |-> "PUBLISH"]

Packet(type, id, m, qos, dup) == [type |-> type, id |-> id, m |-> m, qos |-> qos, dup |-> dup]
Ack(type, id) == Packet(type, id, id, 0, FALSE)

SessionInit ==
    /\ connected = FALSE /\ link = FALSE
    /\ c2b = <<>> /\ b2c = <<>>
    /\ outbox = outbox_init /\ sent = <<>> /\ count = 0
    /\ call = [c \in Callers |-> "none"]
    /\ ret = [m \in Msgs |-> "none"]
    /\ event = [m \in Msgs |-> "none"]
    /\ data = [k \in In |-> "none"]
    /\ broker = [rec |-> {}, got |-> [m \in Msgs |-> 0],
                 out |-> <<>>]
    /\ breaks = 0

Twice(n) == IF n < 2 THEN n + 1 ELSE 2

(* A function with one more element in its domain.                         *)
Extended(f, x, v) == [y \in DOMAIN f \cup {x} |-> IF y = x THEN v ELSE f[y]]

-----------------------------------------------------------------------------
(* The connection                                                          *)

(* esp_mqtt_write: a broken connection takes the packet and loses it, or   *)
(* refuses it.                                                             *)
WriteOk(p) == c2b' = IF link THEN Append(c2b, p) ELSE c2b
WriteFails == ~link

abort_connection == /\ connected' = FALSE /\ link' = FALSE
                    /\ c2b' = <<>> /\ b2c' = <<>>

(* The network loses what is under way.                                    *)
Break == /\ link /\ breaks < MaxBreaks
         /\ breaks' = breaks + 1
         /\ link' = FALSE /\ c2b' = <<>> /\ b2c' = <<>>
         /\ UNCHANGED <<connected, clientVars, broker>>

(* mqtt_process_receive or process_keepalive notices.                      *)
Notice == /\ connected /\ ~link
          /\ abort_connection
          /\ UNCHANGED <<clientVars, broker, breaks>>

(* The broker resumes its session: unacknowledged messages again.          *)
Resumed == LET again(k) == IF broker.out[k] = "sent"
                           THEN Packet("PUBLISH", k, k, InQoS[k], TRUE)
                           ELSE Ack("PUBREL", k)
               order == SetToSeq({k \in DOMAIN broker.out : broker.out[k] \in {"sent", "rec"}})
           IN [i \in DOMAIN order |-> again(order[i])]

(* esp_mqtt_connect succeeds.                                              *)
Connect == /\ ~connected
           /\ connected' = TRUE /\ link' = TRUE
           /\ c2b' = <<>> /\ b2c' = Resumed
           /\ count' = IF V5 THEN 0 ELSE count
           /\ UNCHANGED <<outbox, sent, call, ret, event, data, broker, breaks>>

-----------------------------------------------------------------------------
(* The application                                                         *)

Size(o) == Cardinality(DOMAIN o)
Item(type, id, qos, via) ==
    [type |-> type, id |-> id, qos |-> qos, via |-> via, pending |-> "QUEUED"]
Enqueued(m, item) == Extended(outbox, m, item)

(* esp_mqtt5_client_publish_check                                          *)
publish_check == ~V5 \/ count <= receive_maximum

(* esp_mqtt5_increment_packet_counter reads the DUP bit at the start of    *)
(* what was written last: a byte of the payload when that was a fragment.  *)
increment(n, p) == IF V5 /\ ~p.dup THEN n + 1 ELSE n
IncrementAfter(p) == \/ count' = increment(count, p)
                     \/ LongMessages /\ UNCHANGED count
(* esp_mqtt5_decrement_packet_counter                                      *)
decrement(n) == IF V5 /\ n > 0 THEN n - 1 ELSE n

PacketOf(m, item) == Packet(item.type, item.id, m, item.qos,
                            item.type = "PUBLISH" /\ item.qos > 0 /\ item.pending = "TRANSMITTED")

Transmitted(o, m) == [o EXCEPT ![m].pending = "TRANSMITTED"]

(* esp_mqtt_client_publish, under the lock from its first test to its      *)
(* return.  A message of QoS 0 is not stored.                              *)
Publish(qos) ==
    LET m == Len(sent) + 1
        item == Item("PUBLISH", IF qos = 0 THEN 0 ELSE m, qos, "publish")
        o == IF qos = 0 THEN outbox ELSE Enqueued(m, item)
        p == PacketOf(m, item)
    IN  /\ "publish" \in Calls /\ m \in Msgs
        /\ publish_check
        /\ ~(outbox_limit > 0 /\ qos > 0 /\ 1 + Size(outbox) > outbox_limit)
        /\ sent' = Append(sent, <<"PUBLISH", qos>>)
        /\ \/ /\ connected /\ WriteOk(p)
              /\ outbox' = IF qos = 0 THEN o ELSE Transmitted(o, m)
              /\ IF qos = 0 THEN UNCHANGED count ELSE IncrementAfter(p)
              /\ ret' = [ret EXCEPT ![m] = "id"]
              /\ UNCHANGED <<connected, link, b2c>>
           \/ /\ connected /\ WriteFails /\ abort_connection
              /\ outbox' = o /\ ret' = [ret EXCEPT ![m] = "fail"]
              /\ UNCHANGED count
           \/ /\ ~connected
              /\ outbox' = o
              /\ ret' = [ret EXCEPT ![m] = IF qos > 0 THEN "id" ELSE "fail"]
              /\ UNCHANGED <<count, connected, link, c2b, b2c>>
        /\ UNCHANGED <<call, event, data, broker, breaks>>

(* esp_mqtt_client_enqueue tests the limit before it takes the lock.       *)
EnqueueCheck(c, store) ==
    /\ store \in Calls /\ call[c] = "none" /\ Len(sent) < N
    /\ ~(outbox_limit > 0 /\ 1 + Size(outbox) > outbox_limit)
    /\ call' = [call EXCEPT ![c] = store]
    /\ UNCHANGED <<outbox, sent, count, ret, event, data, linkVars, broker>>

Enqueue(c, qos) ==
    LET m == Len(sent) + 1
        stored == qos > 0 \/ call[c] = "store"
    IN  /\ call[c] \in {"enqueue", "store"} /\ m \in Msgs
        /\ publish_check
        /\ call' = [call EXCEPT ![c] = "none"]
        /\ sent' = Append(sent, <<"PUBLISH", qos>>)
        /\ outbox' = IF stored
                     THEN Enqueued(m, Item("PUBLISH", IF qos = 0 THEN 0 ELSE m, qos, "enqueue"))
                     ELSE outbox
        /\ ret' = [ret EXCEPT ![m] = IF stored THEN "id" ELSE "fail"]
        /\ UNCHANGED <<count, event, data, linkVars, broker>>

(* A refused call leaves everything as it was.                             *)
EnqueueRefused(c) ==
    /\ call[c] \in {"enqueue", "store"} /\ ~publish_check
    /\ call' = [call EXCEPT ![c] = "none"]
    /\ UNCHANGED <<outbox, sent, count, ret, event, data, linkVars, broker>>

(* esp_mqtt_client_subscribe_multiple and esp_mqtt_client_unsubscribe test *)
(* the limit, which the latter has not, and the state before the lock.     *)
SubscribeCheck(c, kind) ==
    /\ kind \in Calls \cap {"subscribe", "unsubscribe"}
    /\ call[c] = "none" /\ Len(sent) < N
    /\ kind = "subscribe" => ~(outbox_limit > 0 /\ Size(outbox) > outbox_limit)
    /\ connected
    /\ call' = [call EXCEPT ![c] = kind]
    /\ UNCHANGED <<outbox, sent, count, ret, event, data, linkVars, broker>>

(* Mutant: the message is not kept when the write fails.                   *)
SubscribeNotKept(c) ==
    LET m == Len(sent) + 1
        item == Item(IF call[c] = "subscribe" THEN "SUBSCRIBE" ELSE "UNSUBSCRIBE", m, 0, "publish")
    IN  /\ call[c] \in {"subscribe", "unsubscribe"} /\ m \in Msgs
        /\ call' = [call EXCEPT ![c] = "none"]
        /\ sent' = Append(sent, <<item.type, 1>>)
        /\ WriteOk(PacketOf(m, item)) /\ ret' = [ret EXCEPT ![m] = "id"]
        /\ UNCHANGED <<outbox, count, event, data, connected, link, b2c, broker, breaks>>

(* The message is marked TRANSMITTED before the write, whose failure does  *)
(* not end the connection.                                                 *)
Subscribe(c) ==
    LET m == Len(sent) + 1
        item == Item(IF call[c] = "subscribe" THEN "SUBSCRIBE" ELSE "UNSUBSCRIBE", m, 0, "publish")
    IN  /\ call[c] \in {"subscribe", "unsubscribe"} /\ m \in Msgs
        /\ call' = [call EXCEPT ![c] = "none"]
        /\ sent' = Append(sent, <<item.type, 1>>)
        /\ outbox' = Transmitted(Enqueued(m, item), m)
        /\ \/ WriteOk(PacketOf(m, item)) /\ ret' = [ret EXCEPT ![m] = "id"]
           \/ WriteFails /\ ret' = [ret EXCEPT ![m] = "fail"] /\ UNCHANGED c2b
        /\ UNCHANGED <<count, event, data, connected, link, b2c, broker, breaks>>

-----------------------------------------------------------------------------
(* mqtt_process_receive                                                    *)

Arrives(type) == connected /\ b2c # <<>> /\ Head(b2c).type = type

Replies(p) == WriteOk(p) /\ b2c' = Tail(b2c) /\ UNCHANGED <<connected, link>>

(* Mutant: the identifier is not compared.                                 *)
CompletesFirst(type, result) ==
    LET kind == {m \in DOMAIN outbox : outbox[m].type = Initiator[type]}
        found == IF kind = {} THEN {} ELSE {First(kind)}
    IN  /\ Arrives(type)
        /\ outbox' = Keep(outbox, DOMAIN outbox \ found)
        /\ event' = [m \in Msgs |-> IF m \in found THEN result ELSE event[m]]
        /\ b2c' = Tail(b2c)
        /\ UNCHANGED <<sent, call, ret, data, connected, link, c2b, broker, breaks>>

(* remove_initiator_message and the completion event it allows.            *)
Completes(type, result) ==
    LET found == {m \in DOMAIN outbox : /\ outbox[m].id = Head(b2c).id
                                        /\ outbox[m].type = Initiator[type]}
    IN  /\ Arrives(type)
        /\ outbox' = Keep(outbox, DOMAIN outbox \ found)
        /\ event' = [m \in Msgs |-> IF m \in found THEN result ELSE event[m]]
        /\ b2c' = Tail(b2c)
        /\ UNCHANGED <<sent, call, ret, data, connected, link, c2b, broker, breaks>>

(* deliver_suback: a refused filter is reported in the same event.         *)
ReceiveSuback ==
    Completes("SUBACK", IF Head(b2c).dup THEN "refused" ELSE "done") /\ UNCHANGED count
ReceiveUnsuback == Completes("UNSUBACK", "done") /\ UNCHANGED count

ReceivePuback == Completes("PUBACK", "done") /\ count' = decrement(count)
ReceivePubcomp == Completes("PUBCOMP", "done") /\ count' = decrement(count)

(* Mutant: the message stays TRANSMITTED.                                  *)
ReceivePubrecNotMarked == /\ Arrives("PUBREC")
                          /\ Replies(Ack("PUBREL", Head(b2c).id))
                          /\ UNCHANGED <<clientVars, broker, breaks>>

(* The result of the write of PUBREL is not looked at.                     *)
ReceivePubrec == /\ Arrives("PUBREC")
                 /\ outbox' = outbox_set_pending(outbox, Head(b2c).id, "ACKNOWLEDGED")
                 /\ Replies(Ack("PUBREL", Head(b2c).id))
                 /\ UNCHANGED <<sent, count, call, ret, event, data, broker, breaks>>

ReceivePubrel == /\ Arrives("PUBREL")
                 /\ Replies(Ack("PUBCOMP", Head(b2c).id))
                 /\ UNCHANGED <<clientVars, broker, breaks>>

(* At best, the application was given the message k to the extent d:       *)
(* "part" of it, with the connection lost inside; all but what came too    *)
(* "late"; the "whole".                                                    *)
Extent == [none |-> 0, part |-> 1, late |-> 2, whole |-> 3]
Given(k, d) == data' = [data EXCEPT ![k] = IF Extent[d] > Extent[@] THEN d ELSE @]

(* Mutant: a message that could not be handed over is acknowledged.        *)
ReceivePublishUnchecked ==
    LET p == Head(b2c)
    IN  /\ Arrives("PUBLISH")
        /\ Replies(Ack(IF p.qos = 1 THEN "PUBACK" ELSE "PUBREC", p.id))
        /\ Given(p.m, "whole") \/ Given(p.m, "part")
        /\ UNCHANGED <<outbox, sent, count, call, ret, event, broker, breaks>>

(* deliver_publish, then the acknowledgement; identifiers of QoS 2         *)
(* messages are not remembered.  A timeout inside a payload that is longer *)
(* than the in buffer counts as its end, and its rest is left to be read.  *)
(* With its properties not stored, or the connection lost inside it or     *)
(* before the answer, the message is not acknowledged.                     *)
ReceivePublish ==
    LET p == Head(b2c)
        Confirms == IF p.qos = 0 THEN UNCHANGED c2b
                    ELSE WriteOk(Ack(IF p.qos = 1 THEN "PUBACK" ELSE "PUBREC", p.id))
    IN  /\ Arrives("PUBLISH")
        /\ \/ /\ Given(p.m, "whole")
              /\ Confirms /\ b2c' = Tail(b2c)
              /\ UNCHANGED <<connected, link, breaks>>
           \/ /\ LongMessages /\ Given(p.m, "late")
              /\ breaks < MaxBreaks /\ breaks' = breaks + 1
              /\ Confirms /\ b2c' = <<[p EXCEPT !.type = "REST"]>> \o Tail(b2c)
              /\ UNCHANGED <<connected, link>>
           \/ /\ \E d \in {"none", "part", "whole"} : Given(p.m, d)
              /\ breaks < MaxBreaks /\ breaks' = breaks + 1
              /\ abort_connection
        /\ UNCHANGED <<outbox, sent, count, call, ret, event, broker>>

(* The rest of a payload is read as messages: of no kind, which are        *)
(* skipped, or with a length that takes what follows; or they end the      *)
(* connection.  (MqttFraming reads bytes; here none looks like an answer.) *)
ReceiveRest ==
    /\ Arrives("REST")
    /\ \/ abort_connection
       \/ /\ \E n \in 1..Len(b2c) : b2c' = SubSeq(b2c, n + 1, Len(b2c))
          /\ UNCHANGED <<connected, link, c2b>>
    /\ UNCHANGED <<clientVars, broker, breaks>>

-----------------------------------------------------------------------------
(* The rest of the task's pass over a connected client                     *)

(* Mutant: the last message is taken.                                      *)
ResendQueuedLast ==
    /\ connected
    /\ \E m \in InState(outbox, "QUEUED") :
        /\ \A n \in InState(outbox, "QUEUED") : n <= m
        /\ WriteOk(PacketOf(m, outbox[m]))
        /\ outbox' = IF outbox[m].qos = 0 THEN Keep(outbox, DOMAIN outbox \ {m})
                     ELSE Transmitted(outbox, m)
        /\ count' = IF outbox[m].qos = 0 THEN count ELSE increment(count, PacketOf(m, outbox[m]))
    /\ UNCHANGED <<sent, call, ret, event, data, broker, breaks, connected, link, b2c>>

(* The first QUEUED message is sent; of QoS 0, it is then deleted.         *)
ResendQueued ==
    /\ connected
    /\ \E m \in outbox_dequeue(outbox, "QUEUED") :
        LET p == PacketOf(m, outbox[m])
        IN  \/ /\ WriteOk(p)
               /\ outbox' = IF outbox[m].qos = 0 THEN Keep(outbox, DOMAIN outbox \ {m})
                            ELSE outbox_set_pending(outbox, outbox[m].id, "TRANSMITTED")
               /\ count' = IF outbox[m].qos = 0 THEN count ELSE increment(count, p)
               /\ UNCHANGED <<connected, link, b2c>>
            \/ WriteFails /\ abort_connection /\ UNCHANGED <<outbox, count>>
    /\ UNCHANGED <<sent, call, ret, event, data, broker, breaks>>

(* With nothing QUEUED, the first TRANSMITTED message is sent again, and   *)
(* PUBREL for the first ACKNOWLEDGED one, each when its timeout is over.   *)
Retransmit(p) ==
    /\ connected /\ InState(outbox, "QUEUED") = {}
    /\ Len(c2b) < MaxPackets /\ Len(b2c) < MaxPackets /\ count < MaxCount
    /\ \/ /\ WriteOk(p)
          /\ count' = increment(count, p)
          /\ UNCHANGED <<connected, link, b2c>>
       \/ WriteFails /\ abort_connection /\ UNCHANGED count
    /\ UNCHANGED <<outbox, sent, call, ret, event, data, broker, breaks>>

(* Mutant: a message sent before is not sent again.                        *)
RetransmitNothing == FALSE /\ UNCHANGED sessionVars

RetransmitFirst == \E m \in outbox_dequeue(outbox, "TRANSMITTED") :
                       Retransmit(PacketOf(m, outbox[m]))
resend_pubrel == \E m \in outbox_dequeue(outbox, "ACKNOWLEDGED") :
                       Retransmit(Ack("PUBREL", outbox[m].id))

(* mqtt_delete_expired_messages: the application is told if the option for *)
(* it is set.                                                              *)
Expiry == IF ReportsDeleted THEN "deleted" ELSE "expired"
Expire == /\ MayExpire
          /\ \E m \in DOMAIN outbox : /\ outbox' = Keep(outbox, DOMAIN outbox \ {m})
                                      /\ event' = [event EXCEPT ![m] = Expiry]
          /\ UNCHANGED <<sent, count, call, ret, data, linkVars, broker>>

-----------------------------------------------------------------------------
(* The broker                                                              *)

(* A QoS 2 message is passed on once; its identifier is kept until PUBREL. *)
BrokerReceive ==
    LET p == Head(c2b)
        reply(q) == b2c' = Append(b2c, q)
        passed == [broker EXCEPT !.got[p.m] = Twice(@)]
        kept == [broker EXCEPT !.got[p.m] = Twice(@), !.rec = @ \cup {p.id}]
    IN  /\ c2b # <<>>
        /\ c2b' = Tail(c2b)
        /\ \/ p.type = "PUBLISH" /\ p.qos = 0 /\ broker' = passed /\ UNCHANGED b2c
           \/ p.type = "PUBLISH" /\ p.qos = 1 /\ broker' = passed /\ reply(Ack("PUBACK", p.id))
           \/ /\ p.type = "PUBLISH" /\ p.qos = 2
              /\ broker' = IF p.id \in broker.rec THEN broker ELSE kept
              /\ reply(Ack("PUBREC", p.id))
           \/ /\ p.type = "PUBREL"
              /\ broker' = [broker EXCEPT !.rec = @ \ {p.id}]
              /\ reply(Ack("PUBCOMP", p.id))
           \/ p.type = "SUBSCRIBE" /\ broker' = passed /\ reply(Ack("SUBACK", p.id))
           \/ /\ p.type = "SUBSCRIBE" /\ UNCHANGED broker
              /\ reply([Ack("SUBACK", p.id) EXCEPT !.dup = TRUE])
           \/ p.type = "UNSUBSCRIBE" /\ broker' = passed /\ reply(Ack("UNSUBACK", p.id))
           \/ /\ p.type \in {"PUBACK", "PUBCOMP"}
              /\ broker' = [broker EXCEPT !.out[p.m] = "done"] /\ UNCHANGED b2c
           \/ /\ p.type = "PUBREC"
              /\ broker' = [broker EXCEPT !.out[p.m] = "rec"] /\ reply(Ack("PUBREL", p.id))
        /\ UNCHANGED <<connected, link, breaks, clientVars>>

BrokerPublish(k) ==
    /\ k \notin DOMAIN broker.out /\ link
    /\ broker' = [broker EXCEPT !.out = Extended(@, k, IF InQoS[k] = 0 THEN "done" ELSE "sent")]
    /\ b2c' = Append(b2c, Packet("PUBLISH", k, k, InQoS[k], FALSE))
    /\ UNCHANGED <<connected, link, c2b, breaks, clientVars>>

-----------------------------------------------------------------------------
Receive == \/ ReceiveSuback \/ ReceiveUnsuback \/ ReceivePuback \/ ReceivePubcomp
           \/ ReceivePubrec \/ ReceivePubrel \/ ReceivePublish \/ ReceiveRest

Resend == ResendQueued \/ RetransmitFirst \/ resend_pubrel

App == \/ \E q \in QoS : Publish(q)
       \/ \E c \in Callers : \/ \E s \in {"enqueue", "store"} : EnqueueCheck(c, s)
                             \/ \E q \in QoS : Enqueue(c, q)
                             \/ EnqueueRefused(c)
                             \/ \E k \in {"subscribe", "unsubscribe"} : SubscribeCheck(c, k)
                             \/ Subscribe(c)

SessionNext == \/ App \/ Receive \/ Resend \/ Expire
               \/ Connect \/ Notice \/ Break
               \/ BrokerReceive \/ \E k \in In : BrokerPublish(k)

SessionSafety == SessionInit /\ [][SessionNext]_sessionVars

(* The task is scheduled, its timeouts end, the broker answers, and only   *)
(* MaxBreaks times a connection is lost or a delivery fails or stalls.     *)
SessionFairness ==
    /\ WF_sessionVars(Connect) /\ WF_sessionVars(Notice)
    /\ WF_sessionVars(Receive) /\ WF_sessionVars(BrokerReceive)
    /\ SF_sessionVars(ResendQueued) /\ SF_sessionVars(RetransmitFirst)
    /\ SF_sessionVars(resend_pubrel)
    /\ \A k \in In : SF_sessionVars(BrokerPublish(k))

SessionSpec == SessionSafety /\ SessionFairness

-----------------------------------------------------------------------------
(* Properties                                                              *)

(* A QoS 2 message is passed on by the broker at most once, whatever is    *)
(* lost and sent again: the client never sends PUBLISH again once the      *)
(* broker may have forgotten its identifier.                               *)
DeliveredAtMostOnce == \A m \in DOMAIN sent : sent[m] = <<"PUBLISH", 2>> => broker.got[m] <= 1

(* A completion event tells the truth: the broker has the message, the     *)
(* subscription or its end.                                                *)
CompletedWasReceived == \A m \in DOMAIN sent : event[m] = "done" => broker.got[m] > 0

(* A message that got an identifier stays in the outbox until the          *)
(* application is told that it is completed or refused; or it expires, and *)
(* the application is told only if the option for that is set.             *)
NothingForgotten ==
    \A m \in DOMAIN sent : ret[m] = "id" /\ sent[m][2] > 0 /\ m \notin DOMAIN outbox
                               => event[m] \in {"done", "refused", Expiry}

(* Messages that go through esp_mqtt_client_enqueue leave the outbox in    *)
(* the order they entered it; only esp_mqtt_client_publish overtakes.      *)
EnqueuedInOrder ==
    \A m, n \in DOMAIN outbox : (m < n /\ outbox[m].pending = "QUEUED"
                                        /\ outbox[n].pending # "QUEUED")
                                    => outbox[n].via = "publish"

(* The broker is told that a message was received only when the            *)
(* application has it; or all of it but the end of a payload longer than   *)
(* the in buffer, which came too late: the one case in which the client    *)
(* confirms what it has not delivered.                                     *)
Delivered(d) == d = "whole" \/ (LongMessages /\ d = "late")
AcknowledgedWasDelivered ==
    \A k \in DOMAIN broker.out : broker.out[k] \in {"rec", "done"} /\ InQoS[k] > 0
                                     => Delivered(data[k])

(* Whatever connections are lost and deliveries fail, a message that got   *)
(* an identifier is completed, unless it expires, and the flow of a        *)
(* message of QoS 1 or 2 for the client ends, unless a payload comes too   *)
(* late: its rest may take a PUBREL with it that the broker does not send  *)
(* again while the connection stands.                                      *)
FlowsComplete ==
    /\ \A m \in Msgs : (m \in DOMAIN outbox /\ outbox[m].id > 0) ~> event[m] # "none"
    /\ \A k \in In : k \in DOMAIN broker.out ~> \/ k \in DOMAIN broker.out /\ broker.out[k] = "done"
                                               \/ \E j \in DOMAIN data : data[j] = "late"

=============================================================================
