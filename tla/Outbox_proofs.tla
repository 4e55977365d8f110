---------------------------- MODULE Outbox_proofs ----------------------------
(***************************************************************************)
(* What the lookups and updates of the outbox return, for any outbox whose *)
(* messages are numbered.  The proofs about the two clients that keep      *)
(* their messages in an outbox rest on these facts.                        *)
(***************************************************************************)
EXTENDS Outbox, WellFoundedInduction, TLAPS

(* A STAILQ_FOREACH over a list that is not empty has a first item.        *)
LEMMA FirstIsLeast ==
    ASSUME NEW S, S \subseteq Nat, S # {}
    PROVE  First(S) \in S /\ \A n \in S : First(S) <= n
<1>1. \E m \in S : \A n \in S : ~(<<n, m>> \in OpToRel(<, Nat))
  BY NatLessThanWellFounded, WFMin
<1>2. PICK m \in S : \A n \in S : ~(<<n, m>> \in OpToRel(<, Nat))
  BY <1>1
<1>3. \A n \in S : m <= n
  <2> SUFFICES ASSUME NEW n \in S PROVE m <= n
    OBVIOUS
  <2>1. ~(<<n, m>> \in OpToRel(<, Nat))
    BY <1>2
  <2>2. m \in Nat /\ n \in Nat
    OBVIOUS
  <2>3. ~(n < m)
    BY <2>1, <2>2 DEF OpToRel
  <2> QED BY <2>2, <2>3
<1> QED BY <1>3 DEF First

(* outbox_get finds the one item with the identifier, when there is one.   *)
LEMMA GetFindsIt ==
    ASSUME NEW outbox, NEW id, NEW m \in Nat, WithId(outbox, id) = {m}
    PROVE  outbox_get(outbox, id) = {m}
<1>1. First({m}) \in {m}
  BY FirstIsLeast
<1> QED BY <1>1 DEF outbox_get

(* outbox_get finds an item with the identifier.                           *)
LEMMA GetFindsOne ==
    ASSUME NEW outbox, DOMAIN outbox \subseteq Nat, NEW id, NEW m \in outbox_get(outbox, id)
    PROVE  m \in DOMAIN outbox /\ outbox[m].id = id
<1>1. WithId(outbox, id) # {} /\ m = First(WithId(outbox, id))
  BY DEF outbox_get
<1>2. WithId(outbox, id) \subseteq Nat
  BY DEF WithId
<1>3. m \in WithId(outbox, id)
  BY <1>1, <1>2, FirstIsLeast
<1> QED BY <1>3 DEF WithId

(* outbox_dequeue finds the first item in the state.                       *)
LEMMA DequeueFindsFirst ==
    ASSUME NEW outbox, DOMAIN outbox \subseteq Nat, NEW s, NEW m \in outbox_dequeue(outbox, s)
    PROVE  /\ m \in DOMAIN outbox /\ outbox[m].pending = s
           /\ \A n \in DOMAIN outbox : outbox[n].pending = s => m <= n
<1>1. InState(outbox, s) # {} /\ m = First(InState(outbox, s))
  BY DEF outbox_dequeue
<1>2. InState(outbox, s) \subseteq Nat
  BY DEF InState
<1>3. m \in InState(outbox, s) /\ \A n \in InState(outbox, s) : m <= n
  BY <1>1, <1>2, FirstIsLeast
<1> QED BY <1>3 DEF InState

(* outbox_set_pending changes one item, when no other has its identifier.  *)
LEMMA SetPendingChangesOne ==
    ASSUME NEW outbox, NEW s, NEW m \in DOMAIN outbox, DOMAIN outbox \subseteq Nat,
           \A n \in DOMAIN outbox : outbox[n].id = outbox[m].id => n = m
    PROVE  outbox_set_pending(outbox, outbox[m].id, s) =
               [n \in DOMAIN outbox |->
                   IF n = m THEN [outbox[m] EXCEPT !.pending = s] ELSE outbox[n]]
<1>1. WithId(outbox, outbox[m].id) = {m}
  BY DEF WithId
<1>2. outbox_get(outbox, outbox[m].id) = {m}
  BY <1>1, GetFindsIt
<1> QED BY <1>2 DEF outbox_set_pending

(* ... and none, when there is no item with the identifier.                *)
LEMMA SetPendingChangesNone ==
    ASSUME NEW outbox, NEW s, NEW id, \A n \in DOMAIN outbox : outbox[n].id # id
    PROVE  outbox_set_pending(outbox, id, s) = [n \in DOMAIN outbox |-> outbox[n]]
<1>1. outbox_get(outbox, id) = {}
  BY DEF WithId, outbox_get
<1> QED BY <1>1 DEF outbox_set_pending

(* So does outbox_set_tick.                                                *)
LEMMA SetTickChangesOne ==
    ASSUME NEW outbox, NEW m \in DOMAIN outbox, DOMAIN outbox \subseteq Nat,
           \A n \in DOMAIN outbox : outbox[n].id = outbox[m].id => n = m
    PROVE  outbox_set_tick(outbox, outbox[m].id) =
               [n \in DOMAIN outbox |->
                   IF n = m THEN [outbox[m] EXCEPT !.age = 0] ELSE outbox[n]]
<1>1. WithId(outbox, outbox[m].id) = {m}
  BY DEF WithId
<1>2. outbox_get(outbox, outbox[m].id) = {m}
  BY <1>1, GetFindsIt
<1> QED BY <1>2 DEF outbox_set_tick
=============================================================================
