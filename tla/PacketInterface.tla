-------------------------- MODULE PacketInterface ---------------------------
(***************************************************************************)
(* What src/packet_interface.h declares: the sizes and codes, the fields   *)
(* of a packet, and which datagrams pkt_decode has to accept.              *)
(*                                                                         *)
(* A datagram is a sequence of cells: the fields of the header, CRC1, one  *)
(* cell for each byte of the payload, and CRC2.  Sizes are counted in      *)
(* cells.  A CRC32 stands for what it is computed from, that is, no damage *)
(* to a datagram goes unnoticed by it.                                     *)
(***************************************************************************)
EXTENDS Integers, Sequences

CONSTANTS
  MAX_PAYLOAD_SIZE,   \* 512 bytes in the program
  MAX_WINDOW_SIZE,    \* 31 in the program
  Bytes               \* the values of a byte: a bound of the model

ASSUME PacketSizes ==
  /\ MAX_PAYLOAD_SIZE \in Nat
  /\ MAX_WINDOW_SIZE \in Nat
  /\ Bytes \subseteq Nat /\ 0 \in Bytes

HEADER_SIZE == 2
CRC2_SIZE == 1
MAX_PACKET_SIZE == HEADER_SIZE + MAX_PAYLOAD_SIZE + CRC2_SIZE

PTYPE_DATA == 1
PTYPE_ACK == 2
PTYPE_NACK == 3
ptypes_t == {PTYPE_DATA, PTYPE_ACK, PTYPE_NACK}

pkt_status_code ==
  {"PKT_OK", "E_TYPE", "E_TR", "E_LENGTH", "E_CRC", "E_WINDOW", "E_NOMEM",
   "E_NOHEADER", "E_UNCONSISTENT"}

\* A 16-bit and a 32-bit number in network byte order, as a machine that stores
\* the low byte first reads it.  The way back is the same.
htons(x) == (x % 256) * 256 + x \div 256
ntohs(x) == htons(x)
htonl(x) == htons(x % 65536) * 65536 + htons(x \div 65536)
ntohl(x) == htonl(x)

\* The checksums of a header, its TR field taken as 0, and of a payload.
crc1(header) == [header EXCEPT !.tr = 0]
crc2(payload) == Append(payload, 0)

\* A byte of the payload on the wire.
Cell(byte) == <<byte>>

\* The payload cells of a datagram with n of them.
PayloadOf(data, n) == [i \in 1 .. n |-> data[HEADER_SIZE + i][1]]

\* What pkt_encode makes of a packet with these fields: network byte order, the
\* checksum of the header and, behind a payload that is not empty, its own.
Encoding(fields) ==
  LET header == [type |-> fields.type, tr |-> fields.tr,
                 window |-> fields.window, seqnum |-> fields.seqnum,
                 length |-> htons(fields.length),
                 timestamp |-> htonl(fields.timestamp)]
      payload == fields.payload
  IN  <<header, crc1(header)>>
      \o [i \in DOMAIN payload |-> Cell(payload[i])]
      \o (IF payload = <<>> THEN <<>> ELSE <<crc2(payload)>>)

\* pkt_decode accepts a datagram if and only if both checksums are right, the
\* type is valid, and length and TR are valid and agree with its size.  The
\* length has to be valid also where TR says that there is no payload.
Valid(data) ==
  /\ Len(data) >= HEADER_SIZE
  /\ data[2] = crc1(data[1])
  /\ data[1].type \in ptypes_t
  /\ data[1].tr = 1 => data[1].type = PTYPE_DATA
  /\ LET n == ntohs(data[1].length)
     IN  /\ n <= MAX_PAYLOAD_SIZE
         /\ IF data[1].tr = 1 \/ n = 0
            THEN Len(data) = HEADER_SIZE
            ELSE /\ Len(data) = HEADER_SIZE + n + CRC2_SIZE
                 /\ data[Len(data)] = crc2(PayloadOf(data, n))
=============================================================================
