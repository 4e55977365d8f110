------------------------------- MODULE Outbox -------------------------------
(***************************************************************************)
(* The outbox of the node's MQTT client (espressif__mqtt, lib/             *)
(* mqtt_outbox.c): the list of messages that wait to be sent or to be      *)
(* acknowledged.  The node enqueues its telemetry in the order of its      *)
(* counter, so the list is a function from message numbers to items, and   *)
(* list order is the order of the numbers.  An item's tick is kept as the  *)
(* age it measures.  All items are PUBLISH messages of QoS 1: the node     *)
(* sends nothing else through the outbox.                                  *)
(***************************************************************************)
EXTENDS Naturals

CONSTANTS ExpiryTimeout,       \* OUTBOX_EXPIRED_TIMEOUT_MS
          RetransmitTimeout    \* message_retransmit_timeout

ASSUME OutboxAssumption == ExpiryTimeout \in Nat /\ RetransmitTimeout \in Nat

Items(ids) == [id : ids, pending : {"QUEUED", "TRANSMITTED"}, age : 0 .. ExpiryTimeout + 1]

(* A STAILQ_FOREACH that stops at the first item of a kind.                *)
First(S) == CHOOSE m \in S : \A n \in S : m <= n

Keep(outbox, S) == [m \in DOMAIN outbox \cap S |-> outbox[m]]

outbox_init == [m \in {} |-> 0]

outbox_enqueue(outbox, m, id) ==
    [n \in DOMAIN outbox \cup {m} |->
        IF n = m THEN [id |-> id, pending |-> "QUEUED", age |-> 0] ELSE outbox[n]]

WithId(outbox, id) == {m \in DOMAIN outbox : outbox[m].id = id}

InState(outbox, pending) == {m \in DOMAIN outbox : outbox[m].pending = pending}

(* Mutant: the identifier is not compared.                                 *)
outbox_get_any_id(outbox, id) == IF DOMAIN outbox = {} THEN {} ELSE {First(DOMAIN outbox)}

(* The first item with the id, if there is one.                            *)
outbox_get(outbox, id) ==
    IF WithId(outbox, id) = {} THEN {} ELSE {First(WithId(outbox, id))}

(* The first item in the state.                                            *)
outbox_dequeue(outbox, pending) ==
    IF InState(outbox, pending) = {} THEN {} ELSE {First(InState(outbox, pending))}

outbox_delete(outbox, id) == Keep(outbox, DOMAIN outbox \ outbox_get(outbox, id))

outbox_set_pending(outbox, id, pending) ==
    [m \in DOMAIN outbox |->
        IF m \in outbox_get(outbox, id) THEN [outbox[m] EXCEPT !.pending = pending] ELSE outbox[m]]

outbox_set_tick(outbox, id) ==
    [m \in DOMAIN outbox |->
        IF m \in outbox_get(outbox, id) THEN [outbox[m] EXCEPT !.age = 0] ELSE outbox[m]]

(* Mutant: only messages that were never sent expire.                      *)
ExpiredQueuedOnly(outbox) ==
    {m \in DOMAIN outbox : outbox[m].age > ExpiryTimeout /\ outbox[m].pending = "QUEUED"}

Expired(outbox) == {m \in DOMAIN outbox : outbox[m].age > ExpiryTimeout}

outbox_delete_expired(outbox) == Keep(outbox, DOMAIN outbox \ Expired(outbox))

(* The passing of time; ages past the expiry are all the same.             *)
Older(outbox) ==
    [m \in DOMAIN outbox |->
        [outbox[m] EXCEPT !.age = IF @ > ExpiryTimeout THEN @ ELSE @ + 1]]
=============================================================================
