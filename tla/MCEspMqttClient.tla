--------------------------- MODULE MCEspMqttClient ---------------------------
(* Instances of the node's MQTT client for TLC.                            *)
EXTENDS EspMqttClient

(* Identifiers that happen not to collide, and ones that may.              *)
DistinctIds == [m \in 1 .. MaxMessages |-> {m}]
AnyIds == [m \in 1 .. MaxMessages |-> 1 .. MaxMessages]
=============================================================================
