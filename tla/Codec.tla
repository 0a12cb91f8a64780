-------------------------------- MODULE Codec --------------------------------
(***************************************************************************)
(* The bytes of the packets the client writes and reads.  A packet is a    *)
(* header byte, the length of what follows in digits of seven bits, and    *)
(* that much of the rest.  A byte is a number below 2 * Radix; the header  *)
(* byte is the record of its bit fields.  The code has Radix = 128; the    *)
(* boundaries of the encoding do not depend on it.                         *)
(***************************************************************************)
EXTENDS Naturals, Sequences

CONSTANT Radix   \* values of one digit of the remaining length

ASSUME RadixAssumption == Radix \in Nat /\ Radix > 1

MaxLengthBytes == 4      \* MAX_NO_OF_REMAINING_LENGTH_BYTES
ByteValues     == 2 * Radix

\* MQTT_TX_BUFFER_TOO_SHORT_ERROR: no bytes.
TooShort == <<>>
\* MQTT_DECODE_REMAINING_LENGTH_ERROR, or FAILURE: no fields.
Malformed == [ok |-> FALSE]

-----------------------------------------------------------------------------
(* The remaining length.                                                   *)

write_lenNoBit[length \in Nat] ==
  IF length < Radix THEN <<length>> ELSE <<length % Radix>> \o write_lenNoBit[length \div Radix]

\* aws_iot_mqtt_internal_write_len_to_buffer: the top bit says that more digits follow.
write_len[length \in Nat] ==
  IF length < Radix THEN <<length>>
  ELSE <<Radix + (length % Radix)>> \o write_len[length \div Radix]

\* Mutant: the top bit of a digit is never set.
WriteLenNoBit(length) == write_lenNoBit[length]

WriteLen(length) == write_len[length]

\* The number that the first n digits of buf stand for.
DigitsValue(buf, n) ==
  LET multiplier[i \in 1..n] == IF i = 1 THEN 1 ELSE multiplier[i - 1] * Radix
      value[i \in 0..n] == IF i = 0 THEN 0 ELSE value[i - 1] + (buf[i] % Radix) * multiplier[i]
  IN value[n]

\* aws_iot_mqtt_internal_decode_remaining_length_from_buffer
DecodeRemainingLength(buf) ==
  LET last == {i \in 1..MaxLengthBytes : i <= Len(buf) /\ buf[i] < Radix}
  IN IF last = {} THEN Malformed
     ELSE LET n == CHOOSE i \in last : \A j \in last : i <= j
          IN [ok |-> TRUE, length |-> DigitsValue(buf, n), bytes |-> n]

\* Mutant: the boundaries are taken after the header byte has been left out.
FinalLengthShort(rem_len) ==
  1 + rem_len + (IF rem_len <= Radix THEN 1
                 ELSE IF rem_len <= Radix * Radix THEN 2
                 ELSE IF rem_len <= Radix * Radix * Radix THEN 3
                 ELSE 4)

\* aws_iot_mqtt_internal_get_final_packet_length_from_remaining_length: the comparisons
\* are made after the header byte has been added.
FinalLength(rem_len) ==
  LET length == rem_len + 1
  IN length + (IF length < Radix THEN 1
               ELSE IF length < Radix * Radix THEN 2
               ELSE IF length < Radix * Radix * Radix THEN 3
               ELSE 4)

-----------------------------------------------------------------------------
(* Fields.                                                                 *)

\* Mutant: the bytes are swapped.
WriteUint16Swapped(n) == <<n % ByteValues, n \div ByteValues>>

WriteUint16(n)  == <<n \div ByteValues, n % ByteValues>>
ReadUint16(buf) == buf[2] + ByteValues * buf[1]

\* aws_iot_mqtt_internal_write_utf8_string: a string is the sequence of its characters.
WriteString(s) == WriteUint16(Len(s)) \o s

\* aws_iot_mqtt_internal_init_header: any quality of service but 1 becomes 0.
Header(type, qos, dup, retain) ==
  [type |-> type, qos |-> IF qos = 1 THEN 1 ELSE 0, dup |-> dup, retain |-> retain]

-----------------------------------------------------------------------------
(* Serializing.  The length is computed from the sizes of the fields, and  *)
(* the fields are then written one after the other.                        *)

Packet(header, rem_len, body, txBufLen) ==
  IF FinalLength(rem_len) > txBufLen THEN TooShort
  ELSE <<header>> \o WriteLen(rem_len) \o body

SerializePublish(p, txBufLen) ==
  Packet(Header("PUBLISH", p.qos, p.dup, p.retain),
         Len(p.topic) + Len(p.payload) + 2 + (IF p.qos > 0 THEN 2 ELSE 0),
         WriteString(p.topic) \o (IF p.qos > 0 THEN WriteUint16(p.id) ELSE <<>>) \o p.payload,
         txBufLen)

\* The sum of the sizes of n fields, each a string with `extra' bytes around it.
SumLengths(strings, extra) ==
  LET sum[i \in 0..Len(strings)] == IF i = 0 THEN 0 ELSE sum[i - 1] + Len(strings[i]) + extra
  IN sum[Len(strings)]

\* The strings one after the other, each with `end' behind it.
Fields(strings, end) ==
  LET fields[i \in 0..Len(strings)] ==
        IF i = 0 THEN <<>> ELSE fields[i - 1] \o (WriteString(strings[i]) \o end)
  IN fields[Len(strings)]

\* Each filter is followed by the quality of service asked for.
SerializeSubscribe(p, txBufLen) ==
  Packet(Header("SUBSCRIBE", 1, 0, 0), 2 + SumLengths(p.topics, 2 + 1),
         WriteUint16(p.id) \o Fields(p.topics, <<p.qos>>), txBufLen)

SerializeUnsubscribe(p, txBufLen) ==
  Packet(Header("UNSUBSCRIBE", 1, 0, 0), 2 + SumLengths(p.topics, 2),
         WriteUint16(p.id) \o Fields(p.topics, <<>>), txBufLen)

\* Will, user name and password are sequences of the strings that are present.
ConnectLength(p) ==
  10 + Len(p.clientID) + 2 + SumLengths(p.will, 2) + SumLengths(p.username, 2) + SumLengths(p.password, 2)

\* The flags are one byte; here the record of its bit fields.
SerializeConnect(p, txBufLen) ==
  LET flags == [will |-> p.will # <<>>, username |-> p.username # <<>>, password |-> p.password # <<>>]
  IN Packet(Header("CONNECT", 0, 0, 0), ConnectLength(p),
            WriteString(<<"M", "Q", "T", "T">>) \o <<4, flags>> \o WriteUint16(p.keepAlive)
              \o WriteString(p.clientID) \o Fields(p.will, <<>>) \o Fields(p.username, <<>>)
              \o Fields(p.password, <<>>),
            txBufLen)

\* aws_iot_mqtt_internal_serialize_ack, aws_iot_mqtt_internal_serialize_zero: four bytes of
\* buffer are asked for, whatever is written.
SerializeAck(p, txBufLen) ==
  IF txBufLen < 4 THEN TooShort
  ELSE <<Header("PUBACK", 0, p.dup, 0)>> \o WriteLen(2) \o WriteUint16(p.id)

SerializeZero(p, txBufLen) ==
  IF txBufLen < 4 THEN TooShort ELSE <<Header(p.type, 0, 0, 0)>> \o WriteLen(0)

Serialize(p, txBufLen) ==
  CASE p.type = "PUBLISH"     -> SerializePublish(p, txBufLen)
    [] p.type = "SUBSCRIBE"   -> SerializeSubscribe(p, txBufLen)
    [] p.type = "UNSUBSCRIBE" -> SerializeUnsubscribe(p, txBufLen)
    [] p.type = "CONNECT"     -> SerializeConnect(p, txBufLen)
    [] p.type = "PUBACK"      -> SerializeAck(p, txBufLen)
    [] OTHER                  -> SerializeZero(p, txBufLen)

-----------------------------------------------------------------------------
(* Deserializing what read_packet left in the buffer.                      *)

From(buf, i) == SubSeq(buf, i, Len(buf))

\* aws_iot_mqtt_internal_deserialize_publish, for a buffer that starts with a PUBLISH.
DeserializePublish(buf) ==
  LET decoded == DecodeRemainingLength(Tail(buf))
      end     == 1 + decoded.bytes + decoded.length
      data    == SubSeq(buf, 2 + decoded.bytes, end)
      size    == ReadUint16(data)
      rest    == From(data, 3 + size)
  IN IF ~decoded.ok \/ Len(data) < 2 \/ 2 + size > Len(data) THEN Malformed
     ELSE [type |-> "PUBLISH", qos |-> buf[1].qos, dup |-> buf[1].dup, retain |-> buf[1].retain,
           topic |-> SubSeq(data, 3, 2 + size),
           id |-> IF buf[1].qos # 0 THEN ReadUint16(rest) ELSE 0,
           payload |-> IF buf[1].qos # 0 THEN From(rest, 3) ELSE rest]

\* aws_iot_mqtt_internal_deserialize_ack
DeserializeAck(buf) ==
  LET decoded == DecodeRemainingLength(Tail(buf))
  IN IF ~decoded.ok \/ decoded.length < 2 THEN Malformed
     ELSE [type |-> buf[1].type, dup |-> buf[1].dup, id |-> ReadUint16(From(buf, 2 + decoded.bytes))]
=============================================================================
