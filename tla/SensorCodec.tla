---------------------------- MODULE SensorCodec ----------------------------
(***************************************************************************)
(* A reading on its way from ProtobufSerializer::serialize_sensor_data     *)
(* (protobuf_wrapper.cpp, on nanopb) to the ParseFromString of the         *)
(* gateway's worker (main.cpp), byte by byte.  A float is the sequence of  *)
(* its four bytes.  The C++ parser is external: it is the protobuf         *)
(* encoding read in any field order, and it refuses a string that is not   *)
(* UTF-8.                                                                  *)
(***************************************************************************)
EXTENDS Naturals, Sequences, FiniteSets

CONSTANTS DeviceIds, Floats, Uptimes   \* what the node may be given

(* char and uint32_t; 2^32 is beyond TLC's integers.                       *)
Bytes == 0..255
uint32 == {n \in Nat : n \div 268435456 < 16}
ASSUME SensorAssumption == /\ DeviceIds \subseteq Seq(Bytes)
                           /\ Floats \subseteq {f \in Seq(Bytes) : Len(f) = 4}
                           /\ Uptimes \subseteq uint32

VARIABLES reading, payload, message

sensorVars == <<reading, payload, message>>

DEVICE_ID_SIZE == 32   \* sensor_data.options: max_size
BUFFER_SIZE == 128

Failed == <<"failed">>

(* What "%s" sees of a string: the bytes before the first NUL.             *)
c_str(id) == SubSeq(id, 1, Cardinality({n \in 1..Len(id) : \A i \in 1..n : id[i] # 0}))

(* Mutant: the terminator is not counted.                                  *)
snprintfFull(id) ==
    LET s == c_str(id)
    IN  SubSeq(s, 1, IF Len(s) < DEVICE_ID_SIZE THEN Len(s) ELSE DEVICE_ID_SIZE)

(* std::snprintf into device_id keeps a byte for the terminator.           *)
snprintf(id) ==
    LET s == c_str(id)
    IN  SubSeq(s, 1, IF Len(s) < DEVICE_ID_SIZE THEN Len(s) ELSE DEVICE_ID_SIZE - 1)

(* The number of 7-bit groups of n, and the groups, lowest first; all but  *)
(* the last carry the continuation bit.                                    *)
Weight == <<1, 128, 16384, 2097152, 268435456>>
Groups(n) == CHOOSE k \in 1..5 : /\ k < 5 => n < Weight[k + 1]
                                 /\ k > 1 => n >= Weight[k]
pb_encode_varint(n) ==
    [i \in 1..Groups(n) |-> ((n \div Weight[i]) % 128) + (IF i < Groups(n) THEN 128 ELSE 0)]

(* pb_enc_string refuses a string that fills its array; a field with its   *)
(* default value is left out.                                              *)
StringField(tag, s) == IF Len(s) = 0 THEN <<>> ELSE <<8 * tag + 2>> \o pb_encode_varint(Len(s)) \o s
FloatField(tag, f) == IF f = <<0, 0, 0, 0>> THEN <<>> ELSE <<8 * tag + 5>> \o f
VarintField(tag, n) == IF n = 0 THEN <<>> ELSE <<8 * tag>> \o pb_encode_varint(n)

pb_encode(m) == StringField(1, m.device_id) \o FloatField(2, m.temperature)
                \o FloatField(3, m.humidity) \o VarintField(4, m.uptime_ms)

(* serialize_sensor_data: an empty vector when encoding fails.             *)
serialize_sensor_data(r) ==
    LET m == [r EXCEPT !.device_id = snprintf(@)]
    IN  IF Len(m.device_id) >= DEVICE_ID_SIZE \/ Len(pb_encode(m)) > BUFFER_SIZE
        THEN <<>> ELSE pb_encode(m)

-----------------------------------------------------------------------------
(* ParseFromString (external)                                              *)
Defaults == [device_id |-> <<>>, temperature |-> <<0, 0, 0, 0>>, humidity |-> <<0, 0, 0, 0>>,
             uptime_ms |-> 0]

(* A varint at position p: its length and its value.                       *)
VarintLength(b, p) == CHOOSE k \in 1..5 : /\ b[p + k - 1] < 128
                                          /\ \A j \in 1..(k - 1) : b[p + j - 1] >= 128
VarintValue(b, p) ==
    LET group(i) == IF i <= VarintLength(b, p) THEN (b[p + i - 1] % 128) * Weight[i] ELSE 0
    IN  group(1) + group(2) + group(3) + group(4) + group(5)

(* Whether a sequence of one- and two-byte characters is complete.         *)
Utf8(s) == \A i \in DOMAIN s : /\ s[i] >= 192 => i < Len(s) /\ s[i + 1] \in 128..191
                               /\ s[i] \in 128..191 => i > 1 /\ s[i - 1] >= 192

(* One field at position p: the message with it, and where the next is.    *)
Text(b, p, m) ==
    LET n == VarintValue(b, p + 1)
        q == p + 1 + VarintLength(b, p + 1)
    IN  <<[m EXCEPT !.device_id = SubSeq(b, q, q + n - 1)], q + n>>
Temperature(b, p, m) == <<[m EXCEPT !.temperature = SubSeq(b, p + 1, p + 4)], p + 5>>
Humidity(b, p, m) == <<[m EXCEPT !.humidity = SubSeq(b, p + 1, p + 4)], p + 5>>
Uptime(b, p, m) == <<[m EXCEPT !.uptime_ms = VarintValue(b, p + 1)],
                     p + 1 + VarintLength(b, p + 1)>>

(* The tags of the schema.                                                 *)
Field(b, p, m) == CASE b[p] = 10 -> Text(b, p, m)
                    [] b[p] = 21 -> Temperature(b, p, m)
                    [] b[p] = 29 -> Humidity(b, p, m)
                    [] b[p] = 32 -> Uptime(b, p, m)

(* The fields there are, at most one of each.                              *)
NextField(b, s) == IF s[2] > Len(b) THEN s ELSE Field(b, s[2], s[1])
Parsed(b) == NextField(b, NextField(b, NextField(b, NextField(b, <<Defaults, 1>>))))[1]

ParseFromString(b) == IF Utf8(Parsed(b).device_id) THEN Parsed(b) ELSE Failed

-----------------------------------------------------------------------------
SensorInit == reading = <<>> /\ payload = <<>> /\ message = <<>>

(* app_main takes a reading and serializes it.                             *)
Serialize(r) == /\ reading = <<>>
                /\ reading' = <<r>> /\ payload' = serialize_sensor_data(r)
                /\ UNCHANGED message

(* The worker parses it, and drops it if that fails.                       *)
Parse == /\ reading # <<>> /\ message = <<>>
         /\ message' = <<ParseFromString(payload)>>
         /\ UNCHANGED <<reading, payload>>

SensorNext == \/ \E id \in DeviceIds, t \in Floats, h \in Floats, u \in Uptimes :
                   Serialize([device_id |-> id, temperature |-> t, humidity |-> h, uptime_ms |-> u])
             \/ Parse

SensorSpec == SensorInit /\ [][SensorNext]_sensorVars

-----------------------------------------------------------------------------
(* Properties                                                              *)

(* Identifiers that are text when cut to the size of the field: the parser *)
(* refuses half a character.                                               *)
TextIds == \A id \in DeviceIds : Utf8(snprintf(id))

(* The worker reads what the node measured, zero values and multi-byte     *)
(* counters included, with at most the first 31 bytes of the identifier,   *)
(* and none from a NUL on.                                                 *)
First31(s) == SubSeq(s, 1, IF Len(s) < 31 THEN Len(s) ELSE 31)
IngestedAsMeasured ==
    message # <<>> => message[1] = [reading[1] EXCEPT !.device_id = First31(c_str(@))]
=============================================================================
