------------------------------- MODULE Header -------------------------------
(***************************************************************************)
(* The header of a datagram, 12 bytes: a word of flags, a word that is the *)
(* version of a handshake and means nothing otherwise, the sequence number *)
(* and the number acknowledged (detail/header.hpp, header_constants.hpp,   *)
(* encoder.hpp, decoder.hpp).  Flags are combined by "+": their bits do    *)
(* not meet.                                                               *)
(***************************************************************************)
EXTENDS Integers, Sequences

CONSTANT NoAck  \* boost::none for an acknowledgement

ASSUME HeaderAssumption == NoAck \notin Nat

\* type_data, type_handshake, type_keepalive; nobody sends a type_shutdown.
TypeBits == [data |-> 49152, handshake |-> 51200, keepalive |-> 55296]

\* ack_type_cumulative
Acknowledges == 4

Version == 0

Flags(count, d) ==
    TypeBits[d.type] + (IF count < 3 THEN count ELSE 3)
      + (IF d.ack = NoAck THEN 0 ELSE Acknowledges)

\* The bytes encoder::put shifts and masks out of a value, from the lowest.
Byte0(v) == v % 256
Byte1(v) == (v \div 256) % 256
Byte2(v) == (v \div 65536) % 256
Byte3(v) == (v \div 16777216) % 256

(* encode() of a handshake, a keepalive and data: two words of 16 bits and *)
(* two of 32, high byte first                                              *)
Encode(count, d) ==
    LET flags == Flags(count, d)
        ack   == IF d.ack = NoAck THEN 0 ELSE d.ack
    IN  << Byte1(flags), Byte0(flags), Byte1(Version), Byte0(Version),
           Byte3(d.seq), Byte2(d.seq), Byte1(d.seq), Byte0(d.seq),
           Byte3(ack), Byte2(ack), Byte1(ack), Byte0(ack) >>

(* decoder::get *)
Get16(b, i) == 256 * b[i] + b[i + 1]

Get32(b, i) == 65536 * Get16(b, i) + Get16(b, i + 2)

\* mask_type, mask_ack, mask_retransmission
TypeOf(flags) ==
    CHOOSE t \in DOMAIN TypeBits : TypeBits[t] = flags - (flags % 2048)

HasAck(flags) == (flags \div 4) % 4 # 0

Retransmissions(flags) == flags % 4

(* What the multiplexer makes of a header by its type. *)
Decode(b) ==
    LET flags == Get16(b, 1)
    IN  [ type |-> TypeOf(flags),
          seq  |-> Get32(b, 5),
          ack  |-> IF HasAck(flags) THEN Get32(b, 9) ELSE NoAck ]
=============================================================================
