--------------------------- MODULE MCMqttSession ---------------------------
(* Two instances of the message flows for TLC, with the same variables.    *)
(* The cfg's is about what the broker sends, over MQTT 5, beside messages  *)
(* the application stores; the other about what the application sends,     *)
(* which may expire.  setting tells of which a behaviour is.               *)
EXTENDS MqttSession, TLC

VARIABLE setting

Outgoing == INSTANCE MqttSession WITH
    Calls <- {"publish", "enqueue", "subscribe", "unsubscribe"}, QoS <- {1, 2},
    In <- {}, V5 <- FALSE, LongMessages <- FALSE, receive_maximum <- 1,
    MayExpire <- TRUE

(* Incoming messages: one of each quality that is acknowledged.            *)
QoSBoth == (1 :> 1) @@ (2 :> 2)

MCInit == \/ setting = "incoming" /\ SessionInit
          \/ setting = "outgoing" /\ Outgoing!SessionInit

Either(incoming, outgoing) == /\ \/ setting = "incoming" /\ incoming
                                 \/ setting = "outgoing" /\ outgoing
                              /\ UNCHANGED setting

MCNext == Either(SessionNext, Outgoing!SessionNext)
mcVars == <<sessionVars, setting>>

(* SessionFairness of the instance the behaviour is of.                    *)
MCSpec == /\ MCInit /\ [][MCNext]_mcVars
          /\ WF_mcVars(Either(Connect, Outgoing!Connect)) /\ WF_mcVars(Either(Notice, Outgoing!Notice))
          /\ WF_mcVars(Either(Receive, Outgoing!Receive))
          /\ WF_mcVars(Either(BrokerReceive, Outgoing!BrokerReceive))
          /\ SF_mcVars(Either(ResendQueued, Outgoing!ResendQueued))
          /\ SF_mcVars(Either(RetransmitFirst, Outgoing!RetransmitFirst))
          /\ SF_mcVars(Either(resend_pubrel, Outgoing!resend_pubrel))
          /\ \A k \in In : SF_mcVars(Either(BrokerPublish(k), FALSE))
=============================================================================
