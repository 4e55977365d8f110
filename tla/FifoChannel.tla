---------------------------- MODULE FifoChannel ----------------------------
(***************************************************************************)
(* What SafeQueue (gateway-service/src/safe_queue.hpp) promises its        *)
(* callers: a closable first-in first-out channel.  A record is received   *)
(* at most once, in the order in which it was sent; a receiver is told     *)
(* "end" (std::nullopt) only when the channel is closed and drained; and   *)
(* neither a waiting record nor a waiting receiver is ever forgotten.      *)
(***************************************************************************)
EXTENDS Naturals, Sequences

CONSTANTS Records,     \* what may be sent
          Receivers    \* the threads that receive

VARIABLES sent,        \* every record sent so far, in order
          received,    \* every record handed to a receiver so far, in order
          closed,      \* has the channel been closed?
          ended        \* the receivers that were told "end"

vars == <<sent, received, closed, ended>>

Drained == Len(received) = Len(sent)

Init == /\ sent = <<>>
        /\ received = <<>>
        /\ closed = FALSE
        /\ ended = {}

Send(r) == /\ sent' = Append(sent, r)
           /\ UNCHANGED <<received, closed, ended>>

Receive == /\ ~Drained
           /\ ended # Receivers
           /\ received' = Append(received, sent[Len(received) + 1])
           /\ UNCHANGED <<sent, closed, ended>>

Close == /\ closed' = TRUE
         /\ UNCHANGED <<sent, received, ended>>

End(p) == /\ closed
          /\ Drained
          /\ p \notin ended
          /\ ended' = ended \cup {p}
          /\ UNCHANGED <<sent, received, closed>>

Next == \/ \E r \in Records : Send(r)
        \/ Receive
        \/ Close
        \/ \E p \in Receivers : End(p)

Safety == Init /\ [][Next]_vars

Spec == /\ Safety
        /\ WF_vars(Receive)
        /\ \A p \in Receivers : WF_vars(End(p))
=============================================================================
