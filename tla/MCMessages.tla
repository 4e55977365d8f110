----------------------------- MODULE MCMessages -----------------------------
(* Instances of the messages on their way: how the client builds them in   *)
(* its one buffer, how the broker and the client read each other's, how    *)
(* the client cuts the stream, and the reading inside.  They share         *)
(* nothing, so a behaviour is one of one instance, which setting names,    *)
(* and the variables of the others stay as they are initially.             *)
EXTENDS OutboundMessage, MqttFraming, SensorCodec

VARIABLES setting, exchange, bytes, got, stage

-----------------------------------------------------------------------------
(* OutboundMessage has topics of two lengths, and payloads that fit the    *)
(* buffer exactly, by one byte not, by several buffers not, and with a     *)
(* longer header.                                                          *)
TwoTopics == {3, 6}
Payloads == {0, 5, 6, 150}
Controls == {0, 8}
Lowest == -6

Messages == INSTANCE MCExchanges
V3 == INSTANCE MqttCodec WITH buffer_length <- 32, Exchanges <- Messages!V3, wire <- bytes
V5 == INSTANCE MqttCodec WITH buffer_length <- 256, Exchanges <- Messages!V5, wire <- bytes

(* Short messages in a short buffer, a long one in a long buffer.          *)
Streams == INSTANCE MCStreams WITH buffer_length <- 200
AllLinks == Streams!All

(* Identifiers around the size of the field, and counters where the number *)
(* of bytes changes, up to TLC's largest integer.                          *)
Id(n) == [i \in 1..n |-> 65]
SomeIds == {Id(n) : n \in {0, 1, 13, 31, 32, 33, 40}} \cup {<<195, 169>>, <<65, 0, 66>>}
SomeFloats == {<<0, 0, 0, 0>>, <<0, 0, 0, 128>>, <<51, 51, 203, 65>>}
SomeUptimes == {0, 1, 127, 128, 16383, 16384, 2097151, 2097152, 268435455, 268435456, 2147483647}

(* The hypotheses of the theorems of Messages_proofs hold of this instance.*)
ASSUME TextIds /\ WellFormed

-----------------------------------------------------------------------------
codecVars == <<exchange, bytes, got, stage>>
mcVars == <<setting, outVars, codecVars, framingVars, sensorVars>>

MCInit == /\ setting \in {"out", "v3", "v5", "sensor", "framing"}
          /\ OutInit /\ V3!CodecInit /\ SensorInit
          /\ FramingInit /\ (setting # "framing" => link = Streams!Idle)

Outbound == UNCHANGED <<setting, codecVars, framingVars, sensorVars>>
Coded == UNCHANGED <<setting, outVars, framingVars, sensorVars>>
Framed == setting = "framing" /\ UNCHANGED <<setting, outVars, codecVars, sensorVars>>
MCNext == \/ setting = "out" /\ OutNext /\ Outbound
          \/ setting = "v3" /\ V3!CodecNext /\ Coded
          \/ setting = "v5" /\ V5!CodecNext /\ Coded
          \/ FramingNext /\ Framed
          \/ setting = "sensor" /\ SensorNext /\ UNCHANGED <<setting, outVars, codecVars, framingVars>>

(* The fairness of FramingSpec.                                            *)
MCSpec == /\ MCInit /\ [][MCNext]_mcVars
          /\ WF_mcVars(Steps /\ Framed)
          /\ WF_mcVars(DeliverMore /\ Framed)
          /\ SF_mcVars(ReadFirst /\ position' # position /\ Framed)
          /\ SF_mcVars(ReadRemaining /\ Framed)
          /\ SF_mcVars(ReadTopicLength /\ Framed)
          /\ SF_mcVars(ReadRest /\ Framed)

-----------------------------------------------------------------------------
(* The properties of MqttCodec, for both protocols; the others are those   *)
(* of OutboundMessage, MqttFraming and SensorCodec.                        *)

(* The bytes mqtt_msg.c and mqtt5_msg.c write are, to a broker, the        *)
(* message that was asked for.                                             *)
BrokerUnderstands == V3!BrokerUnderstands

(* The readers of mqtt_msg.c and mqtt5_msg.c find what the broker wrote.   *)
ClientUnderstands == V3!ClientUnderstands
=============================================================================
