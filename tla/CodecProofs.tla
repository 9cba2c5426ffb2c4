---------------------------- MODULE CodecProofs -----------------------------
(***************************************************************************)
(* What pkt_decode lets through, for payloads of any length, any bytes and *)
(* any number of datagrams damaged, cut or truncated.                      *)
(***************************************************************************)
EXTENDS ConnectionProofs, WellFoundedInduction

\* The numbers of 16 and of 32 bits.
Short == {n \in Nat : n <= 65535}
Long == {n \in Nat : n <= 4294967295}

\* The headers that can be in a datagram.  No fault changes the window field.
Headers ==
  [type : 0 .. 3, tr : 0 .. 1, window : 0 .. MAX_WINDOW_SIZE,
   seqnum : Nat, length : Nat, timestamp : Long]

\* A cell holds a header, its checksum, a byte or the checksum of a payload.
Cells == Headers \cup Seq(Nat)

\* A datagram, damaged or not.
WellFormed(data) ==
  /\ data \in Seq(Cells)
  /\ Len(data) <= MAX_PACKET_SIZE
  /\ Len(data) > 0 => data[1] \in Headers

-----------------------------------------------------------------------------
(* Helpers of the codec.                                                   *)

\* The error codes of the checks of a header.
Codes == pkt_status_code \ {"PKT_OK"}

\* The least element of a set of indexes is one of them.
LEMMA LeastIndex ==
  ASSUME NEW I \in SUBSET Nat, I # {}
  PROVE  Min(I) \in I
<1> DEFINE R == OpToRel(<, Nat)
<1>0. R = {ss \in Nat \X Nat : ss[1] < ss[2]}
  BY Zenon DEF OpToRel
<1>3. IsWellFoundedOn(R, Nat)
  BY NatLessThanWellFounded, Zenon
<1> HIDE DEF R
<1>1. PICK x \in I : \A y \in I : <<y, x>> \notin R
  BY <1>3, WFMin, Zenon
<1>2. ASSUME NEW y \in I PROVE x <= y
  <2>1. x \in Nat /\ y \in Nat /\ <<y, x>> \in Nat \X Nat
    OBVIOUS
  <2>2. ~(y < x)
    BY <1>0, <1>1, <2>1
  <2> QED BY <2>1, <2>2
<1> QED BY <1>2 DEF Min

\* Checks in a row pass if each does; else the code is one of theirs.
LEMMA FirstErrorMeans ==
  ASSUME NEW checks \in Seq(BOOLEAN \X Codes)
  PROVE  /\ FirstError(checks) = "PKT_OK" <=> (\A i \in 1 .. Len(checks) : ~checks[i][1])
         /\ FirstError(checks) \in pkt_status_code
<1> DEFINE I == {i \in 1 .. Len(checks) : checks[i][1]}
<1>1. FirstError(checks) = LET k == IF I # {} THEN Min(I) ELSE 0
                           IN  IF k = 0 THEN "PKT_OK" ELSE checks[k][2]
  BY DEF FirstError, SelectInSeq
<1>2. CASE I = {}
  BY <1>1, <1>2 DEF pkt_status_code
<1>3. CASE I # {}
  <2>1. Min(I) \in 1 .. Len(checks) /\ checks[Min(I)][1]
    <3>1. I \in SUBSET Nat
      OBVIOUS
    <3> HIDE DEF I
    <3>2. Min(I) \in I
      BY <1>3, <3>1, LeastIndex
    <3> QED BY <3>2 DEF I
  <2>2. checks[Min(I)] \in BOOLEAN \X Codes
    BY <2>1
  <2>3. FirstError(checks) = checks[Min(I)][2]
    BY <1>1, <1>3, <2>1
  <2>4. FirstError(checks) \in Codes
    BY <2>2, <2>3
  <2> QED BY <2>1, <2>4 DEF Codes
<1> QED BY <1>2, <1>3

\* The six checks of pkt_decode pass if each does.
LEMMA FirstErrorOfSix ==
  ASSUME NEW b1 \in BOOLEAN, NEW b2 \in BOOLEAN, NEW b3 \in BOOLEAN,
         NEW b4 \in BOOLEAN, NEW b5 \in BOOLEAN, NEW b6 \in BOOLEAN
  PROVE  LET checks == << <<b1, "E_TYPE">>, <<b2, "E_TR">>, <<b3, "E_WINDOW">>,
                          <<b4, "E_LENGTH">>, <<b5, "E_UNCONSISTENT">>, <<b6, "E_CRC">> >>
         IN  /\ FirstError(checks) = "PKT_OK" <=> (~b1 /\ ~b2 /\ ~b3 /\ ~b4 /\ ~b5 /\ ~b6)
             /\ FirstError(checks) \in pkt_status_code
<1> DEFINE checks == << <<b1, "E_TYPE">>, <<b2, "E_TR">>, <<b3, "E_WINDOW">>,
                        <<b4, "E_LENGTH">>, <<b5, "E_UNCONSISTENT">>, <<b6, "E_CRC">> >>
<1>0. {"E_TYPE", "E_TR", "E_WINDOW", "E_LENGTH", "E_UNCONSISTENT", "E_CRC"} \subseteq Codes
  BY DEF Codes, pkt_status_code
<1>1. checks \in Seq(BOOLEAN \X Codes) /\ Len(checks) = 6
  BY <1>0
<1>2. /\ checks[1][1] = b1 /\ checks[2][1] = b2 /\ checks[3][1] = b3
      /\ checks[4][1] = b4 /\ checks[5][1] = b5 /\ checks[6][1] = b6
  OBVIOUS
<1>3. 1 .. 6 = {1, 2, 3, 4, 5, 6}
  OBVIOUS
<1>4. (\A i \in 1 .. 6 : ~checks[i][1]) <=> (~b1 /\ ~b2 /\ ~b3 /\ ~b4 /\ ~b5 /\ ~b6)
  BY <1>2, <1>3, Zenon
<1>5. /\ FirstError(checks) = "PKT_OK" <=> (\A i \in 1 .. 6 : ~checks[i][1])
      /\ FirstError(checks) \in pkt_status_code
  <2> HIDE DEF checks
  <2> QED BY <1>1, FirstErrorMeans
<1> QED BY <1>4, <1>5, Zenon

\* The two checks of pkt_encode pass if each does.
LEMMA FirstErrorOfTwo ==
  ASSUME NEW b1 \in BOOLEAN, NEW b2 \in BOOLEAN
  PROVE  FirstError(<< <<b1, "E_TYPE">>, <<b2, "E_NOMEM">> >>) = "PKT_OK" <=> (~b1 /\ ~b2)
<1> DEFINE checks == << <<b1, "E_TYPE">>, <<b2, "E_NOMEM">> >>
<1>0. {"E_TYPE", "E_NOMEM"} \subseteq Codes
  BY DEF Codes, pkt_status_code
<1>1. checks \in Seq(BOOLEAN \X Codes) /\ Len(checks) = 2
  BY <1>0
<1>2. checks[1][1] = b1 /\ checks[2][1] = b2
  OBVIOUS
<1>3. 1 .. 2 = {1, 2}
  OBVIOUS
<1>4. (\A i \in 1 .. 2 : ~checks[i][1]) <=> (~b1 /\ ~b2)
  BY <1>2, <1>3, Zenon
<1>5. FirstError(checks) = "PKT_OK" <=> (\A i \in 1 .. 2 : ~checks[i][1])
  <2> HIDE DEF checks
  <2> QED BY <1>1, FirstErrorMeans
<1> QED BY <1>4, <1>5, Zenon

\* What pkt_decode demands of a header.
HeaderIsGood(p, crc, len) ==
  /\ p.type # 0
  /\ p.type # PTYPE_DATA => p.tr = 0
  /\ p.window <= MAX_WINDOW_SIZE
  /\ pkt_get_length(p) <= MAX_PAYLOAD_SIZE
  /\ len = pkt_get_total_size(p)
  /\ crc = crc1(Header(p))

\* The early returns of pkt_decode together.
LEMMA HeaderErrorMeans ==
  ASSUME NEW p, NEW crc, NEW len, p.window \in Nat, pkt_get_length(p) \in Nat
  PROVE  /\ HeaderError(p, crc, len) = "PKT_OK" <=> HeaderIsGood(p, crc, len)
         /\ HeaderError(p, crc, len) \in pkt_status_code
<1> DEFINE b1 == p.type = 0
           b2 == p.type # PTYPE_DATA /\ p.tr # 0
           b3 == p.window > MAX_WINDOW_SIZE
           b4 == pkt_get_length(p) > MAX_PAYLOAD_SIZE
           b5 == len # pkt_get_total_size(p)
           b6 == crc # crc1(Header(p))
           checks == << <<b1, "E_TYPE">>, <<b2, "E_TR">>, <<b3, "E_WINDOW">>,
                        <<b4, "E_LENGTH">>, <<b5, "E_UNCONSISTENT">>, <<b6, "E_CRC">> >>
<1>1. HeaderError(p, crc, len) = FirstError(checks)
  BY DEF HeaderError
<1>3. /\ b1 \in BOOLEAN /\ b2 \in BOOLEAN /\ b3 \in BOOLEAN
      /\ b4 \in BOOLEAN /\ b5 \in BOOLEAN /\ b6 \in BOOLEAN
  OBVIOUS
<1>4. HeaderIsGood(p, crc, len) <=> (~b1 /\ ~b2 /\ ~b3 /\ ~b4 /\ ~b5 /\ ~b6)
  BY PacketSizes DEF HeaderIsGood, PTYPE_DATA
<1> HIDE DEF b1, b2, b3, b4, b5, b6
<1>5. /\ FirstError(checks) = "PKT_OK" <=> (~b1 /\ ~b2 /\ ~b3 /\ ~b4 /\ ~b5 /\ ~b6)
      /\ FirstError(checks) \in pkt_status_code
  BY <1>3, FirstErrorOfSix
<1> HIDE DEF checks
<1> QED BY <1>1, <1>4, <1>5

-----------------------------------------------------------------------------
(* pkt_decode.                                                             *)

\* Numbers stay numbers in the other byte order.
LEMMA ByteOrderNat ==
  ASSUME NEW x \in Nat
  PROVE  htons(x) \in Nat /\ ntohs(x) \in Nat /\ htonl(x) \in Nat /\ ntohl(x) \in Nat
<1>1. ASSUME NEW y \in Nat PROVE htons(y) \in Nat
  BY DEF htons
<1>2. x % 65536 \in Nat /\ x \div 65536 \in Nat
  OBVIOUS
<1>3. htonl(x) \in Nat
  BY <1>1, <1>2 DEF htonl
<1> QED BY <1>1, <1>3 DEF ntohs, ntohl

\* The payload is as long as the header says, and none if it says truncated.
Length(h) == IF h.tr = 1 THEN 0 ELSE ntohs(h.length)

\* A header goes into a packet and comes out of it again.
LEMMA HeaderOfDecoded ==
  ASSUME NEW h \in Headers
  PROVE  /\ Header(FromHeader(h)) = h
         /\ pkt_get_length(FromHeader(h)) = Length(h)
         /\ Length(h) \in Nat
         /\ pkt_get_total_size(FromHeader(h)) =
              IF Length(h) = 0 THEN HEADER_SIZE ELSE HEADER_SIZE + Length(h) + CRC2_SIZE
<1>1. Header(FromHeader(h)) = h
  BY DEF Header, FromHeader, Headers
<1>2. pkt_get_length(FromHeader(h)) = Length(h)
  BY DEF pkt_get_length, FromHeader, Length
<1>3. Length(h) \in Nat
  BY ByteOrderNat DEF Length, Headers
<1> QED BY <1>1, <1>2, <1>3 DEF pkt_get_total_size, HEADER_SIZE, CRC2_SIZE

\* recv puts all of a well-formed datagram into the buffer, whatever was there.
LEMMA BufferHolds ==
  ASSUME NEW data, WellFormed(data), NEW old
  PROVE  /\ Len(data) \in Nat /\ received(data) = Len(data)
         /\ \A i \in 1 .. Len(data) : buf(data, old)[i] = data[i]
<1>1. Len(data) \in Nat /\ MAX_PACKET_SIZE \in Nat /\ Len(data) <= MAX_PACKET_SIZE
  BY PacketSizes DEF WellFormed, MAX_PACKET_SIZE, HEADER_SIZE, CRC2_SIZE
<1> QED BY <1>1 DEF received, buf

\* The payload of a datagram is read from the buffer.
LEMMA PayloadFromBuffer ==
  ASSUME NEW data, WellFormed(data), NEW old, NEW n \in Nat, HEADER_SIZE + n <= Len(data)
  PROVE  PayloadOf(buf(data, old), n) = PayloadOf(data, n)
<1>1. \A i \in 1 .. n : HEADER_SIZE + i \in 1 .. Len(data)
  BY BufferHolds DEF HEADER_SIZE
<1>2. \A i \in 1 .. n : buf(data, old)[HEADER_SIZE + i] = data[HEADER_SIZE + i]
  BY <1>1, BufferHolds
<1> QED BY <1>2 DEF PayloadOf

\* What is decoded from a datagram that is accepted.
DecodedFrom(data) ==
  LET n == Length(data[1])
  IN  [FromHeader(data[1]) EXCEPT !.payload =
         [i \in 1 .. MAX_PAYLOAD_SIZE |-> IF i <= n THEN PayloadOf(data, n)[i] ELSE 0]]

\* A datagram that passes the checks of pkt_decode, those of the header and the
\* one of CRC2.
Passes(data) ==
  LET n == Length(data[1])
  IN  /\ HEADER_SIZE <= Len(data)
      /\ HeaderIsGood(FromHeader(data[1]), data[2], Len(data))
      /\ n > 0 => data[Len(data)] = crc2(PayloadOf(data, n))

\* A datagram is valid if it passes them and the length in its header is valid:
\* pkt_decode does not look at the length if TR is set.
LEMMA ValidMeans ==
  ASSUME NEW data, WellFormed(data), HEADER_SIZE <= Len(data)
  PROVE  Valid(data) <=> Passes(data) /\ ntohs(data[1].length) <= MAX_PAYLOAD_SIZE
<1> DEFINE h == data[1]
           n == Length(h)
           long == ntohs(h.length)
<1>1. h \in Headers /\ Len(data) \in Nat
  BY BufferHolds DEF WellFormed, HEADER_SIZE
<1>2. /\ h.type \in 0 .. 3 /\ h.tr \in 0 .. 1 /\ h.window \in 0 .. MAX_WINDOW_SIZE
      /\ n \in Nat /\ long \in Nat
  BY <1>1, HeaderOfDecoded, ByteOrderNat DEF Headers
<1>3. HeaderIsGood(FromHeader(h), data[2], Len(data)) <=>
        /\ h.type # 0
        /\ h.type # PTYPE_DATA => h.tr = 0
        /\ n <= MAX_PAYLOAD_SIZE
        /\ Len(data) = IF n = 0 THEN HEADER_SIZE ELSE HEADER_SIZE + n + CRC2_SIZE
        /\ data[2] = crc1(h)
  <2>1. /\ FromHeader(h).type = h.type /\ FromHeader(h).tr = h.tr
        /\ FromHeader(h).window = h.window
    BY DEF FromHeader
  <2>2. h.window <= MAX_WINDOW_SIZE
    BY <1>2, PacketSizes
  <2> HIDE DEF h, n
  <2> QED BY <1>1, <2>1, <2>2, HeaderOfDecoded DEF HeaderIsGood, n
<1>4. Valid(data) <=>
        /\ data[2] = crc1(h)
        /\ h.type \in ptypes_t
        /\ h.tr = 1 => h.type = PTYPE_DATA
        /\ long <= MAX_PAYLOAD_SIZE
        /\ IF n = 0
           THEN Len(data) = HEADER_SIZE
           ELSE /\ Len(data) = HEADER_SIZE + n + CRC2_SIZE
                /\ data[Len(data)] = crc2(PayloadOf(data, n))
  <2>1. h.tr = 1 => n = 0
    BY DEF Length
  <2>2. h.tr # 1 => n = long
    BY DEF Length
  <2> HIDE DEF n
  <2> QED BY <2>1, <2>2 DEF Valid
<1>5. n <= long
  BY <1>2 DEF Length
<1> HIDE DEF h, n, long
<1>6. h.type \in ptypes_t <=> h.type # 0
  BY <1>2 DEF ptypes_t, PTYPE_DATA, PTYPE_ACK, PTYPE_NACK
<1>7. (h.tr = 1 => h.type = PTYPE_DATA) <=> (h.type # PTYPE_DATA => h.tr = 0)
  BY <1>2
<1>8. Passes(data) <=>
        /\ HeaderIsGood(FromHeader(h), data[2], Len(data))
        /\ n > 0 => data[Len(data)] = crc2(PayloadOf(data, n))
  BY DEF Passes, h, n
<1>9. Valid(data) <=> Passes(data) /\ long <= MAX_PAYLOAD_SIZE
  BY <1>2, <1>3, <1>4, <1>5, <1>6, <1>7, <1>8, PacketSizes
<1> QED BY <1>9 DEF h, long

\* The outcome of pkt_decode on what recv has left in the buffer.
LEMMA DecodeMeans ==
  ASSUME NEW data, WellFormed(data), NEW old
  PROVE  LET r == pkt_decode(buf(data, old), received(data))
         IN  /\ r.code \in pkt_status_code
             /\ r.code = "PKT_OK" <=> Passes(data)
             /\ r.code = "PKT_OK" => r.pkt = DecodedFrom(data)
             /\ r.read <= received(data)
<1>0. received(data) = Len(data) /\ Len(data) \in Nat
  BY BufferHolds
<1> DEFINE r == pkt_decode(buf(data, old), received(data))
<1>1. CASE Len(data) < HEADER_SIZE
  <2>1. r = [code |-> "E_NOHEADER", pkt |-> pkt_new, read |-> 0]
    BY <1>0, <1>1 DEF pkt_decode
  <2>2. ~Passes(data)
    BY <1>0, <1>1 DEF Passes, HEADER_SIZE
  <2> QED BY <1>0, <2>1, <2>2 DEF pkt_status_code
<1>2. CASE HEADER_SIZE <= Len(data)
  <2> DEFINE h == data[1]
             p == FromHeader(h)
             n == Length(h)
             error == HeaderError(p, data[2], Len(data))
             good == HeaderIsGood(p, data[2], Len(data))
             agrees == n > 0 => data[Len(data)] = crc2(PayloadOf(data, n))
  <2>1. h \in Headers /\ 1 \in 1 .. Len(data) /\ 2 \in 1 .. Len(data)
    BY <1>0, <1>2 DEF WellFormed, HEADER_SIZE
  <2>2. buf(data, old)[1] = h /\ buf(data, old)[2] = data[2]
    BY <2>1, BufferHolds
  <2>3. /\ pkt_get_length(p) = n /\ n \in Nat
        /\ pkt_get_total_size(p) =
             IF n = 0 THEN HEADER_SIZE ELSE HEADER_SIZE + n + CRC2_SIZE
    BY <2>1, HeaderOfDecoded
  <2>4. r = IF error # "PKT_OK"
            THEN [code |-> error, pkt |-> p, read |-> HEADER_SIZE]
            ELSE [code |-> IF crc2_agrees(buf(data, old), n) THEN "PKT_OK" ELSE "E_CRC",
                  pkt |-> [p EXCEPT !.payload = [i \in DOMAIN @ |->
                             IF i <= n THEN PayloadOf(buf(data, old), n)[i] ELSE @[i]]],
                  read |-> pkt_get_total_size(p)]
    BY <1>0, <1>2, <2>2, <2>3 DEF pkt_decode, HEADER_SIZE
  <2>5. error = "PKT_OK" <=> good
    BY <2>1, <2>3, HeaderErrorMeans DEF FromHeader, Headers
  <2>6. error \in pkt_status_code
    BY <2>1, <2>3, HeaderErrorMeans DEF FromHeader, Headers
  <2>7. Passes(data) <=> good /\ agrees
    BY <1>2 DEF Passes
  <2>8. CASE error # "PKT_OK"
    <3>1. r.code = error /\ r.read = HEADER_SIZE
      BY <2>4, <2>8
    <3> QED BY <1>0, <1>2, <2>5, <2>6, <2>7, <2>8, <3>1
  <2>9. CASE error = "PKT_OK"
    <3>1. Len(data) = pkt_get_total_size(p)
      BY <2>5, <2>9 DEF HeaderIsGood
    <3>2. HEADER_SIZE + n <= Len(data)
      BY <2>3, <3>1 DEF HEADER_SIZE, CRC2_SIZE
    <3>3. PayloadOf(buf(data, old), n) = PayloadOf(data, n)
      <4> HIDE DEF n
      <4> QED BY <2>3, <3>2, PayloadFromBuffer
    <3>4. crc2_agrees(buf(data, old), n) <=> agrees
      <4>1. n > 0 => buf(data, old)[HEADER_SIZE + n + 1] = data[Len(data)]
        BY <2>3, <3>1, <1>0, BufferHolds DEF HEADER_SIZE, CRC2_SIZE
      <4> QED BY <3>3, <4>1 DEF crc2_agrees
    <3>5. /\ r.code = IF crc2_agrees(buf(data, old), n) THEN "PKT_OK" ELSE "E_CRC"
          /\ r.read = pkt_get_total_size(p)
          /\ r.pkt = [p EXCEPT !.payload = [i \in DOMAIN p.payload |->
                        IF i <= n THEN PayloadOf(buf(data, old), n)[i] ELSE p.payload[i]]]
      BY <2>4, <2>9
    <3>6. r.pkt = DecodedFrom(data)
      BY <3>3, <3>5 DEF DecodedFrom, FromHeader, NoPayload
    <3>7. r.code \in pkt_status_code
      BY <3>5 DEF pkt_status_code
    <3>8. r.code = "PKT_OK" <=> Passes(data)
      BY <2>5, <2>7, <2>9, <3>4, <3>5
    <3> QED BY <1>0, <3>1, <3>5, <3>6, <3>7, <3>8, <2>3 DEF HEADER_SIZE, CRC2_SIZE
  <2> QED BY <2>8, <2>9
<1> QED BY <1>0, <1>1, <1>2 DEF HEADER_SIZE

-----------------------------------------------------------------------------
(* The packets the two programs send.                                      *)

\* The digits of a number.
LEMMA Digits ==
  ASSUME NEW k \in {256, 65536}, NEW b \in Nat, NEW a \in Nat, a < k
  PROVE  (b * k + a) % k = a /\ (b * k + a) \div k = b
<1>1. CASE k = 256
  <2>1. (b * 256 + a) % 256 = a /\ (b * 256 + a) \div 256 = b
    BY <1>1
  <2> QED BY <1>1, <2>1
<1>2. CASE k = 65536
  <2>1. (b * 65536 + a) % 65536 = a /\ (b * 65536 + a) \div 65536 = b
    BY <1>2, SMT
  <2> QED BY <1>2, <2>1, SMT
<1> QED BY <1>1, <1>2, SMT

\* A number of 16 bits is made up of its two bytes.
LEMMA BytesOfShort ==
  ASSUME NEW x \in Nat, x <= 65535
  PROVE  \E b \in Nat, a \in Nat : b <= 255 /\ a <= 255 /\ x = b * 256 + a
<1>1. /\ x \div 256 \in Nat /\ x % 256 \in Nat /\ x % 256 <= 255
      /\ x = (x \div 256) * 256 + (x % 256)
  BY SMT
<1>2. PICK b \in Nat, a \in Nat : a <= 255 /\ x = b * 256 + a
  BY <1>1, SMT
<1>3. b <= 255
  BY <1>2, SMT
<1> QED BY <1>2, <1>3, SMT

\* A number of 32 bits is made up of its two halves.
LEMMA HalvesOfLong ==
  ASSUME NEW x \in Nat, x <= 4294967295
  PROVE  \E b \in Nat, a \in Nat : b <= 65535 /\ a <= 65535 /\ x = b * 65536 + a
<1>1. /\ x \div 65536 \in Nat /\ x % 65536 \in Nat /\ x % 65536 <= 65535
      /\ x = (x \div 65536) * 65536 + (x % 65536)
  BY SMT
<1>2. PICK b \in Nat, a \in Nat : a <= 65535 /\ x = b * 65536 + a
  BY <1>1, SMT
<1>3. b <= 65535
  BY <1>2, SMT
<1> QED BY <1>2, <1>3, SMT

\* The bytes change places.
LEMMA SwapBytes ==
  ASSUME NEW b \in Nat, NEW a \in Nat, a <= 255
  PROVE  htons(b * 256 + a) = a * 256 + b
<1>1. a < 256
  OBVIOUS
<1>2. (b * 256 + a) % 256 = a /\ (b * 256 + a) \div 256 = b
  BY <1>1, Digits
<1> QED BY <1>2, Zenon DEF htons

\* A number of 16 bits comes back when its bytes are swapped twice.
LEMMA ShortSwapsBack ==
  ASSUME NEW x \in Short
  PROVE  htons(x) \in Short /\ htons(htons(x)) = x
<1>0. x \in Nat /\ x <= 65535
  BY DEF Short
<1>1. PICK b \in Nat, a \in Nat : b <= 255 /\ a <= 255 /\ x = b * 256 + a
  BY <1>0, BytesOfShort
<1>2. htons(b * 256 + a) = a * 256 + b /\ htons(a * 256 + b) = b * 256 + a
  BY <1>1, SwapBytes
<1>3. a * 256 + b \in Nat /\ a * 256 + b <= 65535
  BY <1>1
<1> QED BY <1>1, <1>2, <1>3 DEF Short

\* The halves change places, and the bytes in them.
LEMMA SwapHalves ==
  ASSUME NEW b \in Nat, NEW a \in Nat, a <= 65535
  PROVE  htonl(b * 65536 + a) = htons(a) * 65536 + htons(b)
<1>1. a < 65536
  BY SMT
<1>2. (b * 65536 + a) % 65536 = a /\ (b * 65536 + a) \div 65536 = b
  BY <1>1, Digits, SMT
<1> QED BY <1>2, SMT DEF htonl

\* A number of 32 bits comes back when its bytes are swapped twice.
LEMMA LongSwapsBack ==
  ASSUME NEW x \in Long
  PROVE  htonl(x) \in Long /\ htonl(htonl(x)) = x
<1>0. x \in Nat /\ x <= 4294967295
  BY SMT DEF Long
<1>1. PICK b \in Nat, a \in Nat : b <= 65535 /\ a <= 65535 /\ x = b * 65536 + a
  BY <1>0, HalvesOfLong
<1>2. /\ htons(a) \in Short /\ htons(htons(a)) = a
      /\ htons(b) \in Short /\ htons(htons(b)) = b
  BY <1>1, ShortSwapsBack, SMT DEF Short
<1>3. PICK c \in Nat, d \in Nat :
        c <= 65535 /\ d <= 65535 /\ c = htons(a) /\ d = htons(b)
  BY <1>2, SMT DEF Short
<1>4. htonl(b * 65536 + a) = c * 65536 + d
  BY <1>1, <1>3, SwapHalves
<1>5. htonl(c * 65536 + d) = b * 65536 + a
  BY <1>2, <1>3, SwapHalves
<1>6. c * 65536 + d \in Nat /\ c * 65536 + d <= 4294967295
  BY <1>3, SMT
<1> QED BY <1>1, <1>4, <1>5, <1>6, SMT DEF Long

\* A packet as send_packet gets it.
SentPacket(pkt) ==
  /\ Header(pkt) \in Headers
  /\ pkt.type # 0
  /\ pkt.tr = 0
  /\ pkt.payload \in [1 .. MAX_PAYLOAD_SIZE -> Nat]
  /\ pkt_get_length(pkt) <= MAX_PAYLOAD_SIZE
  /\ MAX_PAYLOAD_SIZE \in Short => pkt.length \in Short

\* The datagram send_packet makes of it.
Original(pkt) == pkt_encode(pkt, MAX_PACKET_SIZE).data

\* The length of a packet that is sent.
LEMMA SentLength ==
  ASSUME NEW pkt, SentPacket(pkt)
  PROVE  /\ pkt_get_length(pkt) = Length(Header(pkt))
         /\ pkt_get_length(pkt) \in 0 .. MAX_PAYLOAD_SIZE
         /\ pkt.payload \in Seq(Nat) /\ Len(pkt.payload) = MAX_PAYLOAD_SIZE
<1>1. pkt_get_length(pkt) = Length(Header(pkt))
  BY DEF pkt_get_length, Length, Header
<1>2. Length(Header(pkt)) \in Nat
  BY HeaderOfDecoded DEF SentPacket
<1> QED BY <1>1, <1>2, PacketSizes DEF SentPacket

\* The first cells of a payload.
LEMMA FirstCells ==
  ASSUME NEW pkt, SentPacket(pkt), NEW n, n = pkt_get_length(pkt)
  PROVE  /\ SubSeq(pkt.payload, 1, n) \in [1 .. n -> Nat]
         /\ \A i \in 1 .. n : SubSeq(pkt.payload, 1, n)[i] = pkt.payload[i]
         /\ SubSeq(pkt.payload, 1, n) \in Seq(Nat)
         /\ Len(SubSeq(pkt.payload, 1, n)) = n
<1>1. n \in Nat /\ n <= MAX_PAYLOAD_SIZE /\ MAX_PAYLOAD_SIZE \in Nat
  BY SentLength, PacketSizes
<1>2. PICK q \in Seq(Nat) : q = pkt.payload /\ Len(q) = MAX_PAYLOAD_SIZE
  BY SentLength
<1>3. /\ SubSeq(q, 1, n) \in Seq(Nat) /\ Len(SubSeq(q, 1, n)) = n
      /\ \A i \in 1 .. n : SubSeq(q, 1, n)[i] = q[i]
  BY <1>1, <1>2
<1>4. SubSeq(q, 1, n) \in [1 .. n -> Nat]
  <2>1. PICK r \in Seq(Nat) : r = SubSeq(q, 1, n) /\ Len(r) = n
    BY <1>3
  <2>2. r \in [1 .. Len(r) -> Nat]
    BY LenProperties
  <2> QED BY <2>1, <2>2
<1> QED BY <1>2, <1>3, <1>4

\* A row of n values.
Row(q, n) == q = [i \in 1 .. n |-> q[i]]

\* The checksum of a payload has one element more than it.
LEMMA ChecksumOfPayload ==
  ASSUME NEW n \in Nat, NEW q, Row(q, n)
  PROVE  /\ Len(crc2(q)) = n + 1
         /\ \A i \in 1 .. n : crc2(q)[i] = q[i]
<1> DEFINE S == {q[i] : i \in 1 .. n} \cup {0}
<1>1. q \in Seq(S) /\ Len(q) = n /\ 0 \in S
  BY DEF Row
<1> HIDE DEF S
<1>2. /\ Len(Append(q, 0)) = n + 1
      /\ \A i \in 1 .. n : Append(q, 0)[i] = q[i]
  BY <1>1
<1> QED BY <1>2 DEF crc2

\* What pkt_encode makes of a packet, cell by cell.
LEMMA EncodeMeans ==
  ASSUME NEW pkt, SentPacket(pkt), NEW n, n = pkt_get_length(pkt)
  PROVE  /\ pkt_encode(pkt, MAX_PACKET_SIZE).code = "PKT_OK"
         /\ Original(pkt) \in Seq(Cells)
         /\ Len(Original(pkt)) =
              IF n = 0 THEN HEADER_SIZE ELSE HEADER_SIZE + n + CRC2_SIZE
         /\ Original(pkt)[1] = Header(pkt)
         /\ Original(pkt)[2] = crc1(Header(pkt))
         /\ \A i \in 1 .. n : Original(pkt)[HEADER_SIZE + i] = Cell(pkt.payload[i])
         /\ n > 0 => Original(pkt)[HEADER_SIZE + n + 1] = crc2(SubSeq(pkt.payload, 1, n))
<1> DEFINE payload == SubSeq(pkt.payload, 1, n)
           cells == [i \in DOMAIN payload |-> Cell(payload[i])]
           o == WithCrc1(pkt) \o cells \o Trailer(payload)
<1>0. n \in 0 .. MAX_PAYLOAD_SIZE /\ MAX_PAYLOAD_SIZE \in Nat
  BY SentLength, PacketSizes
<1>1. pkt_encode(pkt, MAX_PACKET_SIZE).code = "PKT_OK"
  <2> DEFINE b1 == pkt.type = 0
             b2 == pkt_get_total_size(pkt) > MAX_PACKET_SIZE
  <2>1. ~b1 /\ ~b2
    BY <1>0 DEF SentPacket, pkt_get_total_size, MAX_PACKET_SIZE, HEADER_SIZE, CRC2_SIZE
  <2>2. pkt_encode(pkt, MAX_PACKET_SIZE).code =
          FirstError(<< <<b1, "E_TYPE">>, <<b2, "E_NOMEM">> >>)
    BY DEF pkt_encode
  <2>3. b1 \in BOOLEAN /\ b2 \in BOOLEAN
    OBVIOUS
  <2> HIDE DEF b1, b2
  <2> QED BY <2>1, <2>2, <2>3, FirstErrorOfTwo
<1>2. Original(pkt) = o
  BY <1>1 DEF Original, pkt_encode
<1>3. /\ payload \in [1 .. n -> Nat] /\ Len(payload) = n /\ DOMAIN payload = 1 .. n
      /\ \A i \in 1 .. n : payload[i] = pkt.payload[i]
      /\ payload \in Seq(Nat)
  BY FirstCells
<1> HIDE DEF payload
<1>4. cells \in Seq(Cells) /\ Len(cells) = n /\ \A i \in 1 .. n : cells[i] = Cell(pkt.payload[i])
  <2>1. \A i \in 1 .. n : Cell(payload[i]) \in Cells
    BY <1>3 DEF Cell, Cells
  <2> QED BY <1>0, <1>3, <2>1
<1>5. /\ WithCrc1(pkt) \in Seq(Cells) /\ Len(WithCrc1(pkt)) = 2
      /\ WithCrc1(pkt)[1] = Header(pkt) /\ WithCrc1(pkt)[2] = crc1(Header(pkt))
  <2>1. Header(pkt) \in Cells
    BY DEF SentPacket, Cells
  <2>2. crc1(Header(pkt)) \in Cells
    BY DEF SentPacket, Cells, Headers, crc1
  <2> QED BY <2>1, <2>2 DEF WithCrc1
<1>6. /\ Trailer(payload) \in Seq(Cells)
      /\ Len(Trailer(payload)) = IF n = 0 THEN 0 ELSE 1
      /\ n > 0 => Trailer(payload)[1] = crc2(payload)
  <2>1. crc2(payload) \in Cells
    BY <1>3 DEF crc2, Cells
  <2> QED BY <1>0, <1>3, <2>1 DEF Trailer
<1> HIDE DEF cells
<1>7. /\ o \in Seq(Cells)
      /\ Len(o) = 2 + n + (IF n = 0 THEN 0 ELSE 1)
      /\ o[1] = Header(pkt) /\ o[2] = crc1(Header(pkt))
      /\ \A i \in 1 .. n : o[2 + i] = Cell(pkt.payload[i])
      /\ n > 0 => o[3 + n] = crc2(payload)
  <2>1. PICK u \in Seq(Cells), v \in Seq(Cells), w \in Seq(Cells) :
          u = WithCrc1(pkt) /\ v = cells /\ w = Trailer(payload)
    BY <1>4, <1>5, <1>6
  <2>2. /\ u \o v \in Seq(Cells) /\ Len(u \o v) = 2 + n
        /\ (u \o v)[1] = u[1] /\ (u \o v)[2] = u[2]
        /\ \A i \in 1 .. n : (u \o v)[2 + i] = v[i]
    <3>1. Len(u) = 2 /\ Len(v) = n /\ n \in Nat
      BY <1>0, <1>4, <1>5, <2>1
    <3>2. /\ u \o v \in Seq(Cells) /\ Len(u \o v) = Len(u) + Len(v)
          /\ \A i \in 1 .. Len(u) : (u \o v)[i] = u[i]
          /\ \A i \in 1 .. Len(v) : (u \o v)[Len(u) + i] = v[i]
      OBVIOUS
    <3> QED BY <3>1, <3>2
  <2>3. PICK x \in Seq(Cells) : x = u \o v
    BY <2>2
  <2>4. /\ x \o w \in Seq(Cells)
        /\ Len(x \o w) = Len(x) + Len(w)
        /\ \A i \in 1 .. Len(x) : (x \o w)[i] = x[i]
        /\ \A i \in 1 .. Len(w) : (x \o w)[Len(x) + i] = w[i]
    OBVIOUS
  <2>5. x[1] = Header(pkt) /\ x[2] = crc1(Header(pkt)) /\ Len(x) = 2 + n
    BY <1>5, <2>1, <2>2, <2>3
  <2>6. \A i \in 1 .. n : x[2 + i] = Cell(pkt.payload[i])
    BY <1>4, <2>1, <2>2, <2>3
  <2>7. o = x \o w
    BY <2>1, <2>3
  <2> HIDE DEF o
  <2>8. Len(o) = 2 + n + (IF n = 0 THEN 0 ELSE 1)
    BY <1>6, <2>1, <2>4, <2>5, <2>7
  <2>9. \A i \in 1 .. n : o[2 + i] = Cell(pkt.payload[i])
    BY <1>0, <2>4, <2>5, <2>6, <2>7
  <2>10. n > 0 => o[3 + n] = crc2(payload)
    BY <1>0, <1>6, <2>1, <2>4, <2>5, <2>7
  <2>11. o[1] = Header(pkt) /\ o[2] = crc1(Header(pkt))
    BY <1>0, <2>4, <2>5, <2>7
  <2> QED BY <2>4, <2>7, <2>8, <2>9, <2>10, <2>11
<1>8. n > 0 => o[HEADER_SIZE + n + 1] = crc2(SubSeq(pkt.payload, 1, n))
  <2>1. HEADER_SIZE + n + 1 = 3 + n
    BY <1>0 DEF HEADER_SIZE
  <2> HIDE DEF o
  <2> QED BY <1>7, <2>1 DEF payload
<1> HIDE DEF o
<1> QED BY <1>0, <1>1, <1>2, <1>7, <1>8 DEF HEADER_SIZE, CRC2_SIZE

-----------------------------------------------------------------------------
(* Datagrams on their way.                                                 *)

\* What can become of the datagram of a packet: it may be shorter, any header
\* may have come in place of its own, TR may have changed in the checksum, and
\* any cell behind that may have become another byte.
MadeFrom(data, pkt) ==
  /\ WellFormed(data)
  /\ Len(data) <= Len(Original(pkt))
  /\ Len(data) >= HEADER_SIZE => data[2] \in Headers /\ crc1(data[2]) = Header(pkt)
  /\ \A i \in (HEADER_SIZE + 1) .. Len(data) :
       data[i] = Original(pkt)[i] \/ \E b \in Bytes : data[i] = Cell(b)

\* The checksum of a header that is not truncated is its copy.
LEMMA ChecksumOfHeader ==
  ASSUME NEW h \in Headers
  PROVE  crc1(h) \in Headers /\ crc1(crc1(h)) = crc1(h) /\ (h.tr = 0 => crc1(h) = h)
<1>1. PICK k : k = crc1(h)
  OBVIOUS
<1>2. k = [type |-> h.type, tr |-> 0, window |-> h.window, seqnum |-> h.seqnum,
           length |-> h.length, timestamp |-> h.timestamp]
  BY <1>1 DEF crc1, Headers
<1>3. k \in Headers
  BY <1>2 DEF Headers
<1>4. crc1(k) = k
  <2>1. crc1(k) = [type |-> k.type, tr |-> 0, window |-> k.window, seqnum |-> k.seqnum,
                   length |-> k.length, timestamp |-> k.timestamp]
    BY <1>3 DEF crc1, Headers
  <2> QED BY <1>2, <2>1
<1>5. h.tr = 0 => k = h
  BY <1>2 DEF Headers
<1> QED BY <1>1, <1>3, <1>4, <1>5

\* No damage is one way for a datagram to arrive.
LEMMA OriginalIsMadeFrom ==
  ASSUME NEW pkt, SentPacket(pkt)
  PROVE  MadeFrom(Original(pkt), pkt)
<1>1. /\ Header(pkt) \in Headers /\ crc1(Header(pkt)) \in Headers
      /\ crc1(crc1(Header(pkt))) = Header(pkt)
  <2>1. Header(pkt) \in Headers /\ Header(pkt).tr = 0
    BY DEF SentPacket, Header
  <2> QED BY <2>1, ChecksumOfHeader
<1>2. PICK n : n = pkt_get_length(pkt)
  OBVIOUS
<1>3. n \in 0 .. MAX_PAYLOAD_SIZE
  BY <1>2, SentLength
<1>4. PICK o \in Seq(Cells) : o = Original(pkt)
  BY <1>2, EncodeMeans
<1>5. /\ Len(o) = IF n = 0 THEN HEADER_SIZE ELSE HEADER_SIZE + n + CRC2_SIZE
      /\ o[1] = Header(pkt) /\ o[2] = crc1(Header(pkt))
  BY <1>2, <1>4, EncodeMeans
<1>6. Len(o) \in Nat /\ Len(o) <= MAX_PACKET_SIZE
  BY <1>3, <1>5, PacketSizes DEF MAX_PACKET_SIZE, HEADER_SIZE, CRC2_SIZE
<1> QED BY <1>1, <1>4, <1>5, <1>6 DEF MadeFrom, WellFormed

\* The fields of what is decoded.
LEMMA FieldsOfDecoded ==
  ASSUME NEW data, WellFormed(data), Passes(data)
  PROVE  LET h == data[1]
             n == Length(h)
             payload == DecodedFrom(data).payload
         IN  /\ h \in Headers /\ n \in 0 .. MAX_PAYLOAD_SIZE
             /\ Len(data) = IF n = 0 THEN HEADER_SIZE ELSE HEADER_SIZE + n + CRC2_SIZE
             /\ h.type # 0 /\ data[2] = crc1(h)
             /\ n > 0 => data[Len(data)] = crc2(PayloadOf(data, n))
             /\ \A i \in 1 .. n : payload[i] = data[HEADER_SIZE + i][1]
             /\ Fields(DecodedFrom(data)) =
                  [type |-> h.type, tr |-> h.tr, window |-> h.window, seqnum |-> h.seqnum,
                   length |-> n, timestamp |-> ntohl(h.timestamp),
                   payload |-> SubSeq(payload, 1, n)]
<1>0. PICK h, n : h = data[1] /\ n = Length(h)
  OBVIOUS
<1>1. h \in Headers /\ Len(data) \in Nat
  BY <1>0, BufferHolds DEF WellFormed, HEADER_SIZE, Passes
<1>2. n \in Nat /\ Header(FromHeader(h)) = h /\ pkt_get_length(FromHeader(h)) = n
  BY <1>0, <1>1, HeaderOfDecoded
<1>3. /\ HeaderIsGood(FromHeader(h), data[2], Len(data))
      /\ n > 0 => data[Len(data)] = crc2(PayloadOf(data, n))
  BY <1>0 DEF Passes
<1>4. /\ n <= MAX_PAYLOAD_SIZE /\ data[2] = crc1(h) /\ h.type # 0
      /\ Len(data) = IF n = 0 THEN HEADER_SIZE ELSE HEADER_SIZE + n + CRC2_SIZE
  <2>1. FromHeader(h).type = h.type
    BY DEF FromHeader
  <2> QED BY <1>1, <1>2, <1>3, <2>1, HeaderOfDecoded DEF HeaderIsGood
<1> DEFINE d == DecodedFrom(data)
           payload == [i \in 1 .. MAX_PAYLOAD_SIZE |-> IF i <= n THEN PayloadOf(data, n)[i] ELSE 0]
<1>5. d = [type |-> h.type, tr |-> h.tr, window |-> h.window, seqnum |-> h.seqnum,
           length |-> h.length, timestamp |-> h.timestamp, payload |-> payload]
  <2>1. d = [FromHeader(h) EXCEPT !.payload = payload]
    BY <1>0 DEF DecodedFrom
  <2> HIDE DEF d, payload
  <2> QED BY <2>1 DEF FromHeader
<1>6. d.payload = payload /\ pkt_get_length(d) = n
  <2> HIDE DEF payload
  <2> QED BY <1>0, <1>5 DEF pkt_get_length, Length
<1>7. Fields(d) = [type |-> h.type, tr |-> h.tr, window |-> h.window, seqnum |-> h.seqnum,
                   length |-> n, timestamp |-> ntohl(h.timestamp),
                   payload |-> SubSeq(d.payload, 1, n)]
  <2> HIDE DEF payload
  <2>1. /\ d.type = h.type /\ d.tr = h.tr /\ d.window = h.window /\ d.seqnum = h.seqnum
        /\ d.timestamp = h.timestamp
    BY <1>5
  <2> HIDE DEF d
  <2> QED BY <1>6, <2>1 DEF Fields, pkt_get_payload
<1>8. \A i \in 1 .. n : d.payload[i] = data[HEADER_SIZE + i][1]
  BY <1>2, <1>4, <1>6, PacketSizes DEF PayloadOf
<1>10. n \in 0 .. MAX_PAYLOAD_SIZE
  BY <1>2, <1>4, PacketSizes
<1> HIDE DEF d, payload
<1>11. d = DecodedFrom(data)
  BY DEF d
<1> QED BY <1>0, <1>1, <1>3, <1>4, <1>7, <1>8, <1>10, <1>11, Zenon

\* The beginning of a row, as a sequence.
LEMMA BeginningOf ==
  ASSUME NEW n \in Nat, NEW q, NEW S, \A i \in 1 .. n : q[i] \in S
  PROVE  /\ SubSeq(q, 1, n) \in Seq(S) /\ Len(SubSeq(q, 1, n)) = n
         /\ \A i \in 1 .. n : SubSeq(q, 1, n)[i] = q[i]
<1>1. n - 1 + 1 = n /\ \A i \in 1 .. n : 1 + i - 1 = i
  OBVIOUS
<1>2. /\ SubSeq(q, 1, n) \in Seq(S)
      /\ Len(SubSeq(q, 1, n)) = IF 1 <= n THEN n - 1 + 1 ELSE 0
      /\ \A i \in 1 .. n - 1 + 1 : SubSeq(q, 1, n)[i] = q[1 + i - 1]
  BY SubSeqProperties
<1>3. Len(SubSeq(q, 1, n)) = n
  BY <1>1, <1>2
<1>4. ASSUME NEW i \in 1 .. n PROVE SubSeq(q, 1, n)[i] = q[i]
  <2>1. 1 + i - 1 = i /\ i \in 1 .. n - 1 + 1
    OBVIOUS
  <2>2. SubSeq(q, 1, n)[i] = q[1 + i - 1]
    BY <1>2, <2>1
  <2> QED BY <2>1, <2>2
<1> QED BY <1>2, <1>3, <1>4

\* Rows that agree on n elements have the same beginning.
LEMMA SameBeginning ==
  ASSUME NEW n \in Nat, NEW p, NEW q, \A i \in 1 .. n : p[i] = q[i]
  PROVE  SubSeq(p, 1, n) = SubSeq(q, 1, n)
<1> DEFINE S == {p[i] : i \in 1 .. n}
<1>1. \A i \in 1 .. n : p[i] \in S
  OBVIOUS
<1>2. \A i \in 1 .. n : q[i] \in S
  BY <1>1
<1> HIDE DEF S
<1>3. PICK u \in Seq(S) : /\ u = SubSeq(p, 1, n) /\ Len(u) = n
                          /\ \A i \in 1 .. n : u[i] = p[i]
  <2>1. /\ SubSeq(p, 1, n) \in Seq(S) /\ Len(SubSeq(p, 1, n)) = n
        /\ \A i \in 1 .. n : SubSeq(p, 1, n)[i] = p[i]
    BY <1>1, BeginningOf, Zenon
  <2> QED BY <2>1
<1>4. PICK v \in Seq(S) : /\ v = SubSeq(q, 1, n) /\ Len(v) = n
                          /\ \A i \in 1 .. n : v[i] = q[i]
  <2>1. /\ SubSeq(q, 1, n) \in Seq(S) /\ Len(SubSeq(q, 1, n)) = n
        /\ \A i \in 1 .. n : SubSeq(q, 1, n)[i] = q[i]
    BY <1>2, BeginningOf, Zenon
  <2> QED BY <2>1
<1>5. Len(u) = Len(v) /\ \A i \in 1 .. Len(u) : u[i] = v[i]
  BY <1>3, <1>4
<1>6. u = v
  BY <1>5, SeqEqual
<1> QED BY <1>3, <1>4, <1>6

\* A payload whose checksum is that of another is that other.
LEMMA SameChecksum ==
  ASSUME NEW n \in Nat, NEW p, Row(p, n), NEW q, Row(q, n), crc2(p) = crc2(q)
  PROVE  \A i \in 1 .. n : p[i] = q[i]
<1>1. \A i \in 1 .. n : crc2(p)[i] = p[i]
  BY ChecksumOfPayload
<1>2. \A i \in 1 .. n : crc2(q)[i] = q[i]
  BY ChecksumOfPayload
<1> QED BY <1>1, <1>2

\* What is decoded from a datagram that is accepted is the packet it was made
\* from, or that packet truncated.
LEMMA AcceptedMeans ==
  ASSUME NEW pkt, SentPacket(pkt), NEW data, MadeFrom(data, pkt), Passes(data)
  PROVE  Fields(DecodedFrom(data)) \in
           {Fields(pkt), [Fields(pkt) EXCEPT !.tr = 1, !.length = 0, !.payload = <<>>]}
<1>1. WellFormed(data) /\ Len(data) >= HEADER_SIZE /\ Len(data) \in Nat
  BY BufferHolds DEF MadeFrom, Passes
<1>2. PICK h : h = data[1]
  OBVIOUS
<1>3. PICK n : n = Length(h)
  OBVIOUS
<1>4. /\ h \in Headers /\ n \in 0 .. MAX_PAYLOAD_SIZE
      /\ Len(data) = IF n = 0 THEN HEADER_SIZE ELSE HEADER_SIZE + n + CRC2_SIZE
      /\ n > 0 => data[Len(data)] = crc2(PayloadOf(data, n))
      /\ data[2] = crc1(h)
  BY <1>1, <1>2, <1>3, FieldsOfDecoded
<1>5. crc1(h) = Header(pkt)
  BY <1>1, <1>4, ChecksumOfHeader DEF MadeFrom
<1>6. PICK f : /\ f = Fields(DecodedFrom(data))
               /\ f = [type |-> h.type, tr |-> h.tr, window |-> h.window, seqnum |-> h.seqnum,
                       length |-> n, timestamp |-> ntohl(h.timestamp),
                       payload |-> SubSeq(DecodedFrom(data).payload, 1, n)]
  BY <1>1, <1>2, <1>3, FieldsOfDecoded
<1>7. /\ h.type = pkt.type /\ h.window = pkt.window /\ h.seqnum = pkt.seqnum
      /\ h.timestamp = pkt.timestamp /\ h.length = pkt.length
  BY <1>4, <1>5 DEF crc1, Header, Headers
<1>8. CASE h.tr = 1
  <2>1. n = 0
    BY <1>3, <1>8 DEF Length
  <2>2. SubSeq(DecodedFrom(data).payload, 1, n) = <<>>
    BY <2>1, SubSeqEmpty
  <2>3. f = [type |-> pkt.type, tr |-> 1, window |-> pkt.window, seqnum |-> pkt.seqnum,
             length |-> 0, timestamp |-> ntohl(pkt.timestamp), payload |-> <<>>]
    BY <1>6, <1>7, <1>8, <2>1, <2>2
  <2>4. PICK g : g = Fields(pkt)
    OBVIOUS
  <2>5. g = [type |-> pkt.type, tr |-> pkt.tr, window |-> pkt.window, seqnum |-> pkt.seqnum,
             length |-> pkt_get_length(pkt), timestamp |-> ntohl(pkt.timestamp),
             payload |-> pkt_get_payload(pkt)]
    BY <2>4 DEF Fields
  <2>6. f = [g EXCEPT !.tr = 1, !.length = 0, !.payload = <<>>]
    <3>1. PICK e : e = <<>>
      OBVIOUS
    <3>2. PICK k : k = [g EXCEPT !.tr = 1, !.length = 0, !.payload = e]
      OBVIOUS
    <3>3. k = [type |-> g.type, tr |-> 1, window |-> g.window, seqnum |-> g.seqnum,
               length |-> 0, timestamp |-> g.timestamp, payload |-> e]
      BY <2>5, <3>2
    <3>4. /\ g.type = pkt.type /\ g.window = pkt.window /\ g.seqnum = pkt.seqnum
          /\ g.timestamp = ntohl(pkt.timestamp)
      BY <2>5
    <3>5. f = k
      BY <2>3, <3>1, <3>3, <3>4
    <3> QED BY <3>1, <3>2, <3>5
  <2> QED BY <1>6, <2>4, <2>6
<1>9. CASE h.tr = 0
  <2>1. h = Header(pkt)
    BY <1>4, <1>5, <1>9, ChecksumOfHeader
  <2>2. n = pkt_get_length(pkt) /\ pkt.tr = 0
    BY <1>3, <2>1, SentLength DEF SentPacket
  <2>3. \A i \in 1 .. n : DecodedFrom(data).payload[i] = pkt.payload[i]
    <3>0. SUFFICES ASSUME n > 0
                   PROVE  \A i \in 1 .. n : DecodedFrom(data).payload[i] = pkt.payload[i]
      BY <1>4, PacketSizes
    <3>1. Len(data) = HEADER_SIZE + n + 1 /\ n \in Nat
      BY <1>4, <3>0 DEF CRC2_SIZE
    <3> DEFINE p == PayloadOf(data, n)
               q == SubSeq(pkt.payload, 1, n)
    <3>2. Row(p, n) /\ \A i \in 1 .. n : p[i] = data[HEADER_SIZE + i][1]
      BY DEF PayloadOf, Row
    <3>3. Row(q, n) /\ \A i \in 1 .. n : q[i] = pkt.payload[i]
      BY <2>2, FirstCells DEF Row
    <3>4. Original(pkt)[Len(data)] = crc2(q)
      BY <2>2, <3>0, <3>1, EncodeMeans
    <3>5. data[Len(data)] = crc2(p)
      BY <1>4, <3>0
    <3>6. data[Len(data)] = Original(pkt)[Len(data)]
             \/ \E b \in Bytes : data[Len(data)] = Cell(b)
      BY <3>0, <3>1 DEF MadeFrom, HEADER_SIZE
    <3> HIDE DEF p, q
    <3>7. Len(crc2(p)) = n + 1
      BY <3>1, <3>2, ChecksumOfPayload
    <3>8. ASSUME NEW b \in Bytes, crc2(p) = Cell(b) PROVE FALSE
      <4>1. Len(Cell(b)) = 1
        BY DEF Cell
      <4>2. n + 1 = 1
        BY <3>7, <3>8, <4>1, Zenon
      <4> QED BY <3>0, <3>1, <4>2
    <3>9. crc2(p) = crc2(q)
      BY <3>4, <3>5, <3>6, <3>8
    <3>10. \A i \in 1 .. n : p[i] = q[i]
      BY <3>1, <3>2, <3>3, <3>9, SameChecksum
    <3>11. \A i \in 1 .. n : DecodedFrom(data).payload[i] = data[HEADER_SIZE + i][1]
      BY <1>1, <1>2, <1>3, FieldsOfDecoded
    <3> QED BY <3>2, <3>3, <3>10, <3>11
  <2>4. SubSeq(DecodedFrom(data).payload, 1, n) = SubSeq(pkt.payload, 1, n)
    <3>1. n \in Nat
      BY <1>4
    <3> QED BY <2>3, <3>1, SameBeginning
  <2>5. f = [type |-> pkt.type, tr |-> pkt.tr, window |-> pkt.window, seqnum |-> pkt.seqnum,
             length |-> n, timestamp |-> ntohl(pkt.timestamp),
             payload |-> SubSeq(pkt.payload, 1, n)]
    BY <1>6, <1>7, <1>9, <2>2, <2>4
  <2> QED BY <1>6, <2>2, <2>5 DEF Fields, pkt_get_payload
<1>10. h.tr \in {0, 1}
  BY <1>4 DEF Headers
<1> QED BY <1>8, <1>9, <1>10

\* A valid datagram is one that passes the checks: under CRC1 the length stays
\* that of the packet, also where TR says that there is no payload.
LEMMA PassesIsValid ==
  ASSUME NEW pkt, SentPacket(pkt), NEW data, MadeFrom(data, pkt)
  PROVE  Passes(data) <=> Valid(data)
<1>1. WellFormed(data)
  BY DEF MadeFrom
<1>2. Valid(data) => Passes(data)
  <2>1. Valid(data) => HEADER_SIZE <= Len(data)
    BY <1>1, BufferHolds DEF Valid, HEADER_SIZE
  <2> QED BY <1>1, <2>1, ValidMeans
<1>3. ASSUME Passes(data) PROVE Valid(data)
  <2>1. HEADER_SIZE <= Len(data) /\ Len(data) >= HEADER_SIZE
    BY <1>1, <1>3, BufferHolds DEF Passes, HEADER_SIZE
  <2>2. data[1] \in Headers /\ data[2] = crc1(data[1])
    BY <1>1, <1>3, FieldsOfDecoded
  <2>3. crc1(data[1]) = Header(pkt)
    BY <2>1, <2>2, ChecksumOfHeader DEF MadeFrom
  <2>4. data[1].length = pkt.length
    BY <2>2, <2>3 DEF crc1, Header, Headers
  <2>5. ntohs(pkt.length) <= MAX_PAYLOAD_SIZE
    BY DEF SentPacket, pkt_get_length
  <2> QED BY <1>1, <1>3, <2>1, <2>4, <2>5, ValidMeans
<1> QED BY <1>2, <1>3

\* The payload of an undamaged datagram is the packet's.
LEMMA PayloadOfOriginal ==
  ASSUME NEW pkt, SentPacket(pkt), NEW n, n = pkt_get_length(pkt)
  PROVE  PayloadOf(Original(pkt), n) = SubSeq(pkt.payload, 1, n)
<1> DEFINE o == Original(pkt)
           q == SubSeq(pkt.payload, 1, n)
<1>1. q \in [1 .. n -> Nat] /\ \A i \in 1 .. n : q[i] = pkt.payload[i]
  BY FirstCells
<1>2. \A i \in 1 .. n : o[HEADER_SIZE + i] = Cell(pkt.payload[i])
  BY EncodeMeans
<1> HIDE DEF o, q
<1>3. \A i \in 1 .. n : o[HEADER_SIZE + i][1] = q[i]
  BY <1>1, <1>2 DEF Cell
<1>4. PayloadOf(o, n) = q
  BY <1>1, <1>3 DEF PayloadOf
<1> QED BY <1>4 DEF o, q

\* pkt_decode must accept what pkt_encode makes.
LEMMA OriginalIsValid ==
  ASSUME NEW pkt, SentPacket(pkt)
  PROVE  Valid(Original(pkt))
<1>1. PICK n, o, h : n = pkt_get_length(pkt) /\ o = Original(pkt) /\ h = Header(pkt)
  OBVIOUS
<1>2. n \in 0 .. MAX_PAYLOAD_SIZE /\ n = Length(h)
  BY <1>1, SentLength
<1>3. /\ Len(o) = IF n = 0 THEN HEADER_SIZE ELSE HEADER_SIZE + n + CRC2_SIZE
      /\ o[1] = h /\ o[2] = crc1(h)
      /\ n > 0 => o[HEADER_SIZE + n + 1] = crc2(SubSeq(pkt.payload, 1, n))
  BY <1>1, EncodeMeans
<1>4. PayloadOf(o, n) = SubSeq(pkt.payload, 1, n)
  BY <1>1, PayloadOfOriginal
<1>5. n > 0 => o[Len(o)] = crc2(PayloadOf(o, n))
  BY <1>2, <1>3, <1>4 DEF CRC2_SIZE
<1>6. h \in Headers /\ h.type # 0 /\ h.tr = 0
  BY <1>1 DEF SentPacket, Header
<1>7. h.type \in ptypes_t
  BY <1>6 DEF Headers, ptypes_t, PTYPE_DATA, PTYPE_ACK, PTYPE_NACK
<1>8. n = ntohs(h.length)
  BY <1>2, <1>6 DEF Length
<1>9. Len(o) >= HEADER_SIZE /\ n <= MAX_PAYLOAD_SIZE /\ n \in Nat
  BY <1>2, <1>3, PacketSizes DEF HEADER_SIZE, CRC2_SIZE
<1>10. Valid(o)
  BY <1>3, <1>5, <1>6, <1>7, <1>8, <1>9 DEF Valid
<1> QED BY <1>1, <1>10

\* If a length fits into 16 bits, what is sent is what packet_interface.h
\* declares.
LEMMA OriginalIsEncoding ==
  ASSUME NEW pkt, SentPacket(pkt), MAX_PAYLOAD_SIZE \in Short
  PROVE  Original(pkt) = Encoding(Fields(pkt))
<1>1. PICK n, f : n = pkt_get_length(pkt) /\ f = Fields(pkt)
  OBVIOUS
<1> DEFINE payload == SubSeq(pkt.payload, 1, n)
           header == [type |-> f.type, tr |-> f.tr, window |-> f.window, seqnum |-> f.seqnum,
                      length |-> htons(f.length), timestamp |-> htonl(f.timestamp)]
           cells == [i \in DOMAIN payload |-> Cell(payload[i])]
<1>2. /\ f.type = pkt.type /\ f.tr = pkt.tr /\ f.window = pkt.window
      /\ f.seqnum = pkt.seqnum /\ f.length = n /\ f.timestamp = ntohl(pkt.timestamp)
      /\ f.payload = payload
  BY <1>1 DEF Fields, pkt_get_payload
<1>3. n = ntohs(pkt.length) /\ pkt.tr = 0
  BY <1>1 DEF pkt_get_length, SentPacket
<1>4. htons(n) = pkt.length
  BY <1>3, ShortSwapsBack DEF SentPacket, ntohs
<1>5. htonl(ntohl(pkt.timestamp)) = pkt.timestamp
  <2>1. pkt.timestamp \in Long
    BY DEF SentPacket, Header, Headers
  <2> QED BY <2>1, LongSwapsBack DEF ntohl
<1>6. header = Header(pkt)
  BY <1>2, <1>4, <1>5 DEF Header
<1>7. n \in Nat /\ payload \in Seq(Nat) /\ Len(payload) = n
  BY <1>1, SentLength, FirstCells
<1>8. Trailer(payload) = IF payload = <<>> THEN <<>> ELSE <<crc2(payload)>>
  <2> HIDE DEF payload
  <2>1. Len(payload) > 0 <=> payload # <<>>
    BY <1>7
  <2> QED BY <2>1 DEF Trailer
<1>9. Original(pkt) = WithCrc1(pkt) \o cells \o Trailer(payload)
  <2>1. pkt_encode(pkt, MAX_PACKET_SIZE).code = "PKT_OK"
    BY EncodeMeans
  <2> QED BY <1>1, <2>1 DEF Original, pkt_encode
<1>10. Encoding(f) = <<header, crc1(header)>> \o cells
                       \o (IF payload = <<>> THEN <<>> ELSE <<crc2(payload)>>)
  BY <1>2 DEF Encoding
<1> HIDE DEF payload, header, cells
<1> QED BY <1>1, <1>6, <1>8, <1>9, <1>10 DEF WithCrc1

-----------------------------------------------------------------------------
(* What the path does to a datagram.                                       *)

\* A datagram is cut.
LEMMA CutIsMadeFrom ==
  ASSUME NEW pkt, SentPacket(pkt), NEW data, MadeFrom(data, pkt), NEW n \in 0 .. Len(data)
  PROVE  MadeFrom(SubSeq(data, 1, n), pkt)
<1>1. PICK d \in Seq(Cells) : d = data /\ Len(d) \in Nat
  BY BufferHolds DEF MadeFrom, WellFormed
<1>2. PICK c \in Seq(Cells) : /\ c = SubSeq(d, 1, n) /\ Len(c) = n
                              /\ \A i \in 1 .. n : c[i] = d[i]
  <2>1. n \in Nat /\ \A i \in 1 .. n : d[i] \in Cells
    BY <1>1
  <2>2. /\ SubSeq(d, 1, n) \in Seq(Cells) /\ Len(SubSeq(d, 1, n)) = n
        /\ \A i \in 1 .. n : SubSeq(d, 1, n)[i] = d[i]
    BY <2>1, BeginningOf, Zenon
  <2> QED BY <2>2
<1>3. Len(Original(pkt)) \in Nat /\ MAX_PACKET_SIZE \in Nat /\ n \in Nat /\ n <= Len(d)
  BY <1>1, EncodeMeans, PacketSizes DEF MAX_PACKET_SIZE, HEADER_SIZE, CRC2_SIZE
<1>4. WellFormed(c)
  BY <1>1, <1>2, <1>3 DEF MadeFrom, WellFormed
<1>5. Len(c) >= HEADER_SIZE => c[2] \in Headers /\ crc1(c[2]) = Header(pkt)
  BY <1>1, <1>2, <1>3 DEF MadeFrom, HEADER_SIZE
<1>6. \A i \in (HEADER_SIZE + 1) .. Len(c) :
        c[i] = Original(pkt)[i] \/ \E b \in Bytes : c[i] = Cell(b)
  <2> SUFFICES ASSUME NEW i \in (HEADER_SIZE + 1) .. Len(c)
               PROVE  c[i] = Original(pkt)[i] \/ \E b \in Bytes : c[i] = Cell(b)
    OBVIOUS
  <2>1. i \in 1 .. n /\ i \in (HEADER_SIZE + 1) .. Len(d)
    BY <1>1, <1>2, <1>3 DEF HEADER_SIZE
  <2> QED BY <1>1, <1>2, <2>1 DEF MadeFrom
<1>7. Len(c) <= Len(Original(pkt))
  BY <1>1, <1>2, <1>3 DEF MadeFrom
<1>8. MadeFrom(c, pkt)
  BY <1>4, <1>5, <1>6, <1>7, Zenon DEF MadeFrom
<1> QED BY <1>1, <1>2, <1>8

\* The header is replaced by another.
LEMMA OtherHeaderIsMadeFrom ==
  ASSUME NEW pkt, SentPacket(pkt), NEW data, MadeFrom(data, pkt), Len(data) > 0,
         NEW h \in Headers
  PROVE  MadeFrom([data EXCEPT ![1] = h], pkt)
<1>1. PICK d \in Seq(Cells) : d = data /\ Len(d) \in Nat
  BY BufferHolds DEF MadeFrom, WellFormed
<1>2. PICK c : c = [d EXCEPT ![1] = h]
  OBVIOUS
<1>3. h \in Cells
  BY DEF Cells
<1>4. /\ c \in Seq(Cells) /\ Len(c) = Len(d) /\ c[1] = h
      /\ \A i \in 2 .. Len(d) : c[i] = d[i]
  BY <1>1, <1>2, <1>3
<1> QED BY <1>1, <1>2, <1>4 DEF MadeFrom, WellFormed, HEADER_SIZE

\* TR changes in the checksum of the header.
LEMMA OtherChecksumIsMadeFrom ==
  ASSUME NEW pkt, SentPacket(pkt), NEW data, MadeFrom(data, pkt), Len(data) >= HEADER_SIZE
  PROVE  MadeFrom([data EXCEPT ![2].tr = 1 - @], pkt)
<1>1. PICK d \in Seq(Cells) : d = data /\ Len(d) \in Nat
  BY BufferHolds DEF MadeFrom, WellFormed
<1>2. d[2] \in Headers /\ crc1(d[2]) = Header(pkt) /\ 2 \in 1 .. Len(d)
  BY <1>1 DEF MadeFrom, HEADER_SIZE
<1>3. PICK h : h = [d[2] EXCEPT !.tr = 1 - @]
  OBVIOUS
<1>4. h \in Headers /\ crc1(h) = crc1(d[2])
  <2>1. h = [type |-> d[2].type, tr |-> 1 - d[2].tr, window |-> d[2].window,
             seqnum |-> d[2].seqnum, length |-> d[2].length, timestamp |-> d[2].timestamp]
    BY <1>2, <1>3 DEF Headers
  <2>2. 1 - d[2].tr \in 0 .. 1
    BY <1>2 DEF Headers
  <2>3. h \in Headers
    BY <1>2, <2>1, <2>2 DEF Headers
  <2> QED BY <1>2, <2>1, <2>3 DEF crc1, Headers
<1>5. PICK c : c = [d EXCEPT ![2] = h]
  OBVIOUS
<1>6. c = [data EXCEPT ![2].tr = 1 - @]
  BY <1>1, <1>3, <1>5
<1>7. h \in Cells
  BY <1>4 DEF Cells
<1>8. /\ c \in Seq(Cells) /\ Len(c) = Len(d) /\ c[2] = h
      /\ \A i \in 1 .. Len(d) : i # 2 => c[i] = d[i]
  BY <1>1, <1>2, <1>5, <1>7
<1>9. MadeFrom(c, pkt)
  BY <1>1, <1>2, <1>4, <1>8 DEF MadeFrom, WellFormed, HEADER_SIZE
<1> QED BY <1>6, <1>9

\* A cell behind the header becomes another byte.
LEMMA OtherByteIsMadeFrom ==
  ASSUME NEW pkt, SentPacket(pkt), NEW data, MadeFrom(data, pkt),
         NEW k \in (HEADER_SIZE + 1) .. Len(data), NEW b \in Bytes
  PROVE  MadeFrom([data EXCEPT ![k] = Cell(b)], pkt)
<1>1. PICK d \in Seq(Cells) : d = data /\ Len(d) \in Nat
  BY BufferHolds DEF MadeFrom, WellFormed
<1>2. PICK c : c = [d EXCEPT ![k] = Cell(b)]
  OBVIOUS
<1>3. Cell(b) \in Cells
  BY PacketSizes DEF Cells, Cell
<1>4. /\ c \in Seq(Cells) /\ Len(c) = Len(d) /\ c[k] = Cell(b)
      /\ k \in 3 .. Len(d)
      /\ \A i \in 1 .. Len(d) : i # k => c[i] = d[i]
  BY <1>1, <1>2, <1>3 DEF HEADER_SIZE
<1> QED BY <1>1, <1>2, <1>4 DEF MadeFrom, WellFormed, HEADER_SIZE

\* A router truncates it.
LEMMA TruncatedIsMadeFrom ==
  ASSUME NEW pkt, SentPacket(pkt), NEW data, MadeFrom(data, pkt), Len(data) >= HEADER_SIZE
  PROVE  MadeFrom(Truncated(data), pkt)
<1>1. PICK d \in Seq(Cells) : d = data /\ Len(d) \in Nat
  BY BufferHolds DEF MadeFrom, WellFormed
<1>2. d[1] \in Headers /\ d[2] \in Headers /\ crc1(d[2]) = Header(pkt)
  BY <1>1 DEF MadeFrom, WellFormed, HEADER_SIZE
<1>3. PICK h : h = [d[1] EXCEPT !.tr = 1]
  OBVIOUS
<1>4. h \in Headers
  <2>1. h = [type |-> d[1].type, tr |-> 1, window |-> d[1].window,
             seqnum |-> d[1].seqnum, length |-> d[1].length, timestamp |-> d[1].timestamp]
    BY <1>2, <1>3 DEF Headers
  <2> QED BY <1>2, <2>1 DEF Headers
<1>5. PICK c : c = <<h, d[2]>>
  OBVIOUS
<1>6. c \in Seq(Cells) /\ Len(c) = 2 /\ c[1] = h /\ c[2] = d[2]
  BY <1>2, <1>4, <1>5 DEF Cells
<1>7. Len(Original(pkt)) \in Nat /\ Len(Original(pkt)) >= 2 /\ MAX_PACKET_SIZE \in Nat
      /\ MAX_PACKET_SIZE >= 2
  <2>1. PICK n : n = pkt_get_length(pkt)
    OBVIOUS
  <2>2. n \in 0 .. MAX_PAYLOAD_SIZE
    BY <2>1, SentLength
  <2>3. Len(Original(pkt)) = IF n = 0 THEN HEADER_SIZE ELSE HEADER_SIZE + n + CRC2_SIZE
    BY <2>1, EncodeMeans
  <2> QED BY <2>2, <2>3, PacketSizes DEF MAX_PACKET_SIZE, HEADER_SIZE, CRC2_SIZE
<1>8. MadeFrom(c, pkt)
  BY <1>2, <1>4, <1>6, <1>7 DEF MadeFrom, WellFormed, HEADER_SIZE
<1> QED BY <1>1, <1>3, <1>5, <1>8 DEF Truncated

\* A fault of a header leads to a header.
LEMMA OtherHeadersAreHeaders ==
  ASSUME NEW h \in Headers, NEW g \in OtherHeaders(h)
  PROVE  g \in Headers
<1>1. /\ \A x \in 0 .. 1 : htonl(x) \in Long
      /\ \A x \in 0 .. (MAX_PAYLOAD_SIZE + 1) : htons(x) \in Nat
  <2>1. \A x \in 0 .. 1 : x \in Long
    BY SMT DEF Long
  <2>2. \A x \in 0 .. (MAX_PAYLOAD_SIZE + 1) : x \in Nat
    BY PacketSizes
  <2> QED BY <2>1, <2>2, LongSwapsBack, ByteOrderNat
<1>2. \/ \E x \in 0 .. 3 : g = [h EXCEPT !.type = x]
      \/ \E x \in 0 .. 1 : g = [h EXCEPT !.tr = x]
      \/ \E x \in 0 .. 1 : g = [h EXCEPT !.seqnum = x]
      \/ \E x \in 0 .. (MAX_PAYLOAD_SIZE + 1) : g = [h EXCEPT !.length = htons(x)]
      \/ \E x \in 0 .. 1 : g = [h EXCEPT !.timestamp = htonl(x)]
  BY DEF OtherHeaders
<1>3. ASSUME NEW x \in 0 .. 3, g = [h EXCEPT !.type = x] PROVE g \in Headers
  BY <1>3 DEF Headers
<1>4. ASSUME NEW x \in 0 .. 1, g = [h EXCEPT !.tr = x] PROVE g \in Headers
  BY <1>4 DEF Headers
<1>5. ASSUME NEW x \in Nat, g = [h EXCEPT !.seqnum = x] PROVE g \in Headers
  BY <1>5 DEF Headers
<1>6. ASSUME NEW x \in Nat, g = [h EXCEPT !.length = x] PROVE g \in Headers
  BY <1>6 DEF Headers
<1>7. ASSUME NEW x \in Long, g = [h EXCEPT !.timestamp = x] PROVE g \in Headers
  BY <1>7 DEF Headers
<1>8. \A x \in 0 .. 1 : x \in Nat
  OBVIOUS
<1> QED BY <1>1, <1>2, <1>3, <1>4, <1>5, <1>6, <1>7, <1>8

\* Every damage is one MadeFrom allows for.
LEMMA DamagedIsMadeFrom ==
  ASSUME NEW pkt, SentPacket(pkt), NEW data, MadeFrom(data, pkt), NEW d \in Damaged(data)
  PROVE  MadeFrom(d, pkt)
<1>0. Len(data) \in Nat /\ DOMAIN data = 1 .. Len(data)
  BY BufferHolds DEF MadeFrom, WellFormed
<1>1. \/ 1 \in DOMAIN data /\ \E h \in OtherHeaders(data[1]) : d = [data EXCEPT ![1] = h]
      \/ 2 \in DOMAIN data /\ d = [data EXCEPT ![2].tr = 1 - @]
      \/ \E i \in (HEADER_SIZE + 1) .. Len(data), b \in Bytes : d = [data EXCEPT ![i] = Cell(b)]
      \/ \E n \in 0 .. Len(data) : d = SubSeq(data, 1, n)
  BY DEF Damaged
<1>2. CASE 1 \in DOMAIN data /\ \E h \in OtherHeaders(data[1]) : d = [data EXCEPT ![1] = h]
  <2>1. Len(data) > 0 /\ data[1] \in Headers
    BY <1>0, <1>2 DEF MadeFrom, WellFormed
  <2>2. PICK h \in OtherHeaders(data[1]) : d = [data EXCEPT ![1] = h]
    BY <1>2
  <2>3. h \in Headers
    BY <2>1, OtherHeadersAreHeaders
  <2> QED BY <2>1, <2>2, <2>3, OtherHeaderIsMadeFrom
<1>3. CASE 2 \in DOMAIN data /\ d = [data EXCEPT ![2].tr = 1 - @]
  <2>1. Len(data) >= HEADER_SIZE
    BY <1>0, <1>3 DEF HEADER_SIZE
  <2> QED BY <1>3, <2>1, OtherChecksumIsMadeFrom
<1>4. CASE \E i \in (HEADER_SIZE + 1) .. Len(data), b \in Bytes : d = [data EXCEPT ![i] = Cell(b)]
  <2>1. PICK i \in (HEADER_SIZE + 1) .. Len(data), b \in Bytes : d = [data EXCEPT ![i] = Cell(b)]
    BY <1>4
  <2>2. MadeFrom([data EXCEPT ![i] = Cell(b)], pkt)
    BY OtherByteIsMadeFrom
  <2> QED BY <2>1, <2>2
<1>5. CASE \E n \in 0 .. Len(data) : d = SubSeq(data, 1, n)
  BY <1>5, CutIsMadeFrom
<1> QED BY <1>1, <1>2, <1>3, <1>4, <1>5

-----------------------------------------------------------------------------
(* What the programs send.                                                 *)

\* The DATA packet of the sender, if it can be made and encoded.
LEMMA NewDataIsSent ==
  ASSUME NEW seqnum \in Nat, NEW timestamp \in Long, NEW payload \in Seq(Bytes),
         Encodes(NewData(seqnum, timestamp, payload))
  PROVE  SentPacket(NewData(seqnum, timestamp, payload).pkt)
<1>1. PICK n \in Nat : n = Len(payload)
  OBVIOUS
<1> DEFINE old == [type |-> 1, tr |-> 0, window |-> 0, seqnum |-> seqnum, length |-> 0,
                   timestamp |-> htonl(timestamp), payload |-> NoPayload]
           new == [type |-> 1, tr |-> 0, window |-> 0, seqnum |-> seqnum, length |-> htons(n),
                   timestamp |-> htonl(timestamp),
                   payload |-> [i \in 1 .. MAX_PAYLOAD_SIZE |->
                                  IF i <= n THEN payload[i] ELSE 0]]
<1>2. NewData(seqnum, timestamp, payload) = pkt_set_payload(old, payload)
  <2>1. pkt_set_type(pkt_new, PTYPE_DATA) =
          [code |-> "PKT_OK", pkt |-> [pkt_new EXCEPT !.type = 1]]
    BY DEF pkt_set_type, Checked, PTYPE_DATA
  <2>2. PICK p1 : p1 = [pkt_new EXCEPT !.type = 1]
    OBVIOUS
  <2>3. pkt_set_seqnum(p1, seqnum) = [code |-> "PKT_OK", pkt |-> [p1 EXCEPT !.seqnum = seqnum]]
    BY DEF pkt_set_seqnum, Checked
  <2>4. PICK p2 : p2 = [p1 EXCEPT !.seqnum = seqnum]
    OBVIOUS
  <2>5. pkt_set_window(p2, 0) = [code |-> "PKT_OK", pkt |-> [p2 EXCEPT !.window = 0]]
    BY PacketSizes DEF pkt_set_window, Checked
  <2>6. PICK p3 : p3 = [p2 EXCEPT !.window = 0]
    OBVIOUS
  <2>7. pkt_set_timestamp(p3, timestamp) =
          [code |-> "PKT_OK", pkt |-> [p3 EXCEPT !.timestamp = htonl(timestamp)]]
    BY DEF pkt_set_timestamp, Checked
  <2>8. [p3 EXCEPT !.timestamp = htonl(timestamp)] = old
    <3>1. p1 = [type |-> 1, tr |-> 0, window |-> 0, seqnum |-> 0, length |-> 0,
                timestamp |-> 0, payload |-> NoPayload]
      BY <2>2 DEF pkt_new
    <3>2. p2 = [type |-> 1, tr |-> 0, window |-> 0, seqnum |-> seqnum, length |-> 0,
                timestamp |-> 0, payload |-> NoPayload]
      BY <2>4, <3>1
    <3>3. p3 = p2
      BY <2>6, <3>2
    <3> QED BY <3>2, <3>3
  <2> HIDE DEF old
  <2> QED BY <2>1, <2>2, <2>3, <2>4, <2>5, <2>6, <2>7, <2>8 DEF NewData, Then
<1>3. pkt_set_payload(old, payload).code = "PKT_OK" =>
        n <= MAX_PAYLOAD_SIZE /\ pkt_set_payload(old, payload).pkt = new
  <2> DEFINE r == pkt_set_length(old, n)
  <2>1. r.code = "PKT_OK" => n <= MAX_PAYLOAD_SIZE
    BY DEF pkt_set_length, Checked
  <2>2. r.code # "PKT_OK" => pkt_set_payload(old, payload) = r
    BY <1>1 DEF pkt_set_payload
  <2>3. ASSUME n <= MAX_PAYLOAD_SIZE PROVE pkt_set_payload(old, payload).pkt = new
    <3> DEFINE cleared == [type |-> 1, tr |-> 0, window |-> 0, seqnum |-> seqnum,
                           length |-> htons(n), timestamp |-> htonl(timestamp),
                           payload |-> [i \in 1 .. MAX_PAYLOAD_SIZE |->
                                          IF i <= n THEN NoPayload[i] ELSE 0]]
    <3>1. r = [code |-> "PKT_OK", pkt |-> cleared]
      BY <2>3 DEF pkt_set_length, Checked, NoPayload
    <3> HIDE DEF r, old, cleared
    <3>2. pkt_set_payload(old, payload) =
            [r EXCEPT !.pkt.payload = [i \in DOMAIN @ |->
               IF i <= n THEN payload[i] ELSE @[i]]]
      BY <1>1, <3>1 DEF pkt_set_payload, r
    <3>3. pkt_set_payload(old, payload).pkt =
            [cleared EXCEPT !.payload = [i \in DOMAIN @ |->
               IF i <= n THEN payload[i] ELSE @[i]]]
      BY <3>1, <3>2
    <3>4. [i \in DOMAIN cleared.payload |-> IF i <= n THEN payload[i] ELSE cleared.payload[i]]
            = [i \in 1 .. MAX_PAYLOAD_SIZE |-> IF i <= n THEN payload[i] ELSE 0]
      BY DEF cleared
    <3>5. PICK q : q = [i \in 1 .. MAX_PAYLOAD_SIZE |-> IF i <= n THEN payload[i] ELSE 0]
      OBVIOUS
    <3>6. pkt_set_payload(old, payload).pkt = [cleared EXCEPT !.payload = q]
      BY <3>3, <3>4, <3>5
    <3> QED BY <3>5, <3>6 DEF cleared
  <2> QED BY <2>1, <2>2, <2>3
<1> HIDE DEF old
<1>4. /\ pkt_set_payload(old, payload).code = "PKT_OK"
      /\ pkt_encode(NewData(seqnum, timestamp, payload).pkt, MAX_PACKET_SIZE).code = "PKT_OK"
  BY <1>2 DEF Encodes
<1>5. NewData(seqnum, timestamp, payload).pkt = new /\ n <= MAX_PAYLOAD_SIZE
  BY <1>2, <1>3, <1>4
<1>6. htons(n) \in Nat /\ htonl(timestamp) \in Long
  BY ByteOrderNat, LongSwapsBack
<1>7. Header(new) \in Headers /\ new.type # 0 /\ new.tr = 0
  BY <1>6, PacketSizes DEF Header, Headers
<1>8. new.payload \in [1 .. MAX_PAYLOAD_SIZE -> Nat]
  <2>1. \A i \in 1 .. n : payload[i] \in Nat
    <3>1. \A i \in 1 .. Len(payload) : payload[i] \in Bytes
      OBVIOUS
    <3> QED BY <1>1, <3>1, PacketSizes
  <2>2. \A i \in 1 .. MAX_PAYLOAD_SIZE : i <= n => i \in 1 .. n
    BY PacketSizes
  <2> QED BY <2>1, <2>2
<1>9. MAX_PAYLOAD_SIZE \in Short => new.length \in Short
  <2>1. MAX_PAYLOAD_SIZE \in Short => n \in Short
    BY <1>5, PacketSizes DEF Short
  <2> QED BY <2>1, ShortSwapsBack
<1>10. pkt_get_length(new) <= MAX_PAYLOAD_SIZE
  <2>1. pkt_get_length(new) = ntohs(new.length) /\ new.length = htons(n)
    BY DEF pkt_get_length
  <2>2. PICK k : k = pkt_get_length(new)
    OBVIOUS
  <2>3. k \in Nat
    BY <1>6, <2>1, <2>2, ByteOrderNat
  <2> DEFINE b1 == new.type = 0
             b2 == pkt_get_total_size(new) > MAX_PACKET_SIZE
  <2>4. FirstError(<< <<b1, "E_TYPE">>, <<b2, "E_NOMEM">> >>) = "PKT_OK"
    BY <1>4, <1>5 DEF pkt_encode
  <2>5. b1 \in BOOLEAN /\ b2 \in BOOLEAN
    OBVIOUS
  <2> HIDE DEF b1, b2, new
  <2>6. ~b2
    BY <2>4, <2>5, FirstErrorOfTwo
  <2> QED BY <2>2, <2>3, <2>6, PacketSizes
          DEF b2, pkt_get_total_size, MAX_PACKET_SIZE, HEADER_SIZE, CRC2_SIZE
<1> QED BY <1>5, <1>7, <1>8, <1>9, <1>10 DEF SentPacket

\* The answers of the receiver.
LEMMA AnswerIsSent ==
  ASSUME NEW fields, fields.seqnum \in Nat, fields.timestamp \in Long
  PROVE  SentPacket(Reply(fields).pkt)
<1> DEFINE answer(type, timestamp) ==
      [type |-> type, tr |-> 0, window |-> MAX_WINDOW_SIZE, seqnum |-> fields.seqnum,
       length |-> 0, timestamp |-> timestamp, payload |-> NoPayload]
<1>1. \A p, w : w = MAX_WINDOW_SIZE =>
        pkt_set_window(p, w) = [code |-> "PKT_OK", pkt |-> [p EXCEPT !.window = w]]
  BY PacketSizes DEF pkt_set_window, Checked
<1>2. \A p, x : /\ pkt_set_seqnum(p, x) = [code |-> "PKT_OK", pkt |-> [p EXCEPT !.seqnum = x]]
                /\ pkt_set_timestamp(p, x) =
                     [code |-> "PKT_OK", pkt |-> [p EXCEPT !.timestamp = htonl(x)]]
  BY DEF pkt_set_seqnum, pkt_set_timestamp, Checked
<1>3. \A x \in {2, 3} :
        pkt_set_type(pkt_new, x) = [code |-> "PKT_OK", pkt |-> [pkt_new EXCEPT !.type = x]]
  BY DEF pkt_set_type, Checked
<1>4. NewAck(MAX_WINDOW_SIZE, fields.seqnum, fields.timestamp).pkt =
        answer(2, htonl(fields.timestamp))
  <2>1. PICK p1, p2, p3 : /\ p1 = [pkt_new EXCEPT !.type = 2]
                          /\ p2 = [p1 EXCEPT !.window = MAX_WINDOW_SIZE]
                          /\ p3 = [p2 EXCEPT !.seqnum = fields.seqnum]
    OBVIOUS
  <2>2. /\ pkt_set_type(pkt_new, PTYPE_ACK) = [code |-> "PKT_OK", pkt |-> p1]
        /\ pkt_set_window(p1, MAX_WINDOW_SIZE) = [code |-> "PKT_OK", pkt |-> p2]
        /\ pkt_set_seqnum(p2, fields.seqnum) = [code |-> "PKT_OK", pkt |-> p3]
        /\ pkt_set_timestamp(p3, fields.timestamp).pkt =
             [p3 EXCEPT !.timestamp = htonl(fields.timestamp)]
    BY <1>1, <1>2, <1>3, <2>1 DEF PTYPE_ACK
  <2>3. NewAck(MAX_WINDOW_SIZE, fields.seqnum, fields.timestamp).pkt =
          [p3 EXCEPT !.timestamp = htonl(fields.timestamp)]
    BY <2>2 DEF NewAck, Then
  <2>4. p3 = [type |-> 2, tr |-> 0, window |-> MAX_WINDOW_SIZE, seqnum |-> fields.seqnum,
              length |-> 0, timestamp |-> 0, payload |-> NoPayload]
    BY <2>1 DEF pkt_new
  <2> QED BY <2>3, <2>4
<1>5. NewNack(MAX_WINDOW_SIZE, fields.seqnum).pkt = answer(3, 0)
  <2>1. PICK p1, p2, p3 : /\ p1 = [pkt_new EXCEPT !.type = 3]
                          /\ p2 = [p1 EXCEPT !.window = MAX_WINDOW_SIZE]
                          /\ p3 = [p2 EXCEPT !.seqnum = fields.seqnum]
    OBVIOUS
  <2>2. /\ pkt_set_type(pkt_new, PTYPE_NACK) = [code |-> "PKT_OK", pkt |-> p1]
        /\ pkt_set_window(p1, MAX_WINDOW_SIZE) = [code |-> "PKT_OK", pkt |-> p2]
        /\ pkt_set_seqnum(p2, fields.seqnum) = [code |-> "PKT_OK", pkt |-> p3]
    BY <1>1, <1>2, <1>3, <2>1 DEF PTYPE_NACK
  <2>3. NewNack(MAX_WINDOW_SIZE, fields.seqnum).pkt = p3
    BY <2>2 DEF NewNack, Then
  <2> QED BY <2>1, <2>3 DEF pkt_new
<1>6. ASSUME NEW type \in {2, 3}, NEW timestamp \in Long
      PROVE  SentPacket(answer(type, timestamp))
  <2>1. PICK a : a = answer(type, timestamp)
    OBVIOUS
  <2>2. Header(a) \in Headers
    BY <2>1, PacketSizes DEF Header, Headers
  <2>3. pkt_get_length(a) = 0
    BY <2>1, SMT DEF pkt_get_length, ntohs, htons
  <2>4. a.payload \in [1 .. MAX_PAYLOAD_SIZE -> Nat]
    BY <2>1 DEF NoPayload
  <2>5. a.length \in Short /\ a.type # 0 /\ a.tr = 0
    BY <2>1, SMT DEF Short
  <2> HIDE DEF answer
  <2> QED BY <2>1, <2>2, <2>3, <2>4, <2>5, PacketSizes DEF SentPacket
<1>7. htonl(fields.timestamp) \in Long /\ 0 \in Long
  BY LongSwapsBack, SMT DEF Long
<1> HIDE DEF answer
<1> QED BY <1>4, <1>5, <1>6, <1>7 DEF Reply

-----------------------------------------------------------------------------
(* The inductive invariant.                                                *)

\* A datagram on its way, or taken by recv.
Travels(m) ==
  /\ m = [from |-> m.from, to |-> m.to, pkt |-> m.pkt, data |-> m.data]
  /\ m.from \in Procs /\ m.to \in Procs /\ m.from # m.to
  /\ SentPacket(m.pkt)
  /\ MadeFrom(m.data, m.pkt)

\* As long as there was no fault, datagrams are as they were sent.
Undamaged(m) == faults = 0 => m.data = Original(m.pkt)

\* Every datagram anywhere was made from a packet that was sent, and what a loop
\* works on is what pkt_decode makes of such a datagram.
CodecInv ==
  /\ faults \in Nat
  /\ \A m \in wire : Travels(m) /\ Undamaged(m)
  /\ \A p \in Procs : \A m \in ToSet(sock[p].queue) :
       Travels(m) /\ Undamaged(m) /\ m.to = p
  /\ last # Nothing =>
       /\ Travels(last.datagram) /\ Undamaged(last.datagram)
       /\ \E old \in Stale : last.result = Decoded(last.datagram, old)

\* At the start there is no datagram.
LEMMA CodecInit == Init => CodecInv
<1>1. ToSet(<<>>) = {}
  BY DEF ToSet
<1> QED BY <1>1 DEF Init, CodecInv, ConnectionInit, Closed

\* What a step leaves alone, or drops, keeps the invariant.
LEMMA CodecKept ==
  ASSUME CodecInv, faults' = faults, last' = last,
         \A p \in Procs : ToSet(sock'[p].queue) \subseteq ToSet(sock[p].queue),
         \A m \in wire' : m \in wire \/ (Travels(m) /\ Undamaged(m))
  PROVE  CodecInv'
<1>1. \A m : Undamaged(m)' <=> Undamaged(m)
  BY DEF Undamaged
<1> QED BY <1>1 DEF CodecInv

\* A process without a socket has no queue.
LEMMA NothingQueued == ToSet(Closed.queue) = {}
BY DEF ToSet, Closed

\* An exit drops what is queued.
LEMMA ExitDrops ==
  ASSUME ConnectionInv, NEW p \in Procs, Exit(p)
  PROVE  \A q \in Procs : ToSet(sock'[q].queue) \subseteq ToSet(sock[q].queue)
<1>1. sock'[p] = Closed
  BY DEF Exit, ConnectionInv, SocketsInv
<1>2. \A q \in Procs : q # p => sock'[q] = sock[q]
  BY DEF Exit, ConnectionInv, SocketsInv
<1> QED BY <1>1, <1>2, NothingQueued

\* Nothing is queued by a step of the start-up.
LEMMA StartUpDrops ==
  ASSUME ConnectionInv, StartUp
  PROVE  \A q \in Procs : ToSet(sock'[q].queue) \subseteq ToSet(sock[q].queue)
<1>1. ASSUME NEW p \in Procs, ParseArgs(p) \/ OpenFile(p) \/ real_address(p)
      PROVE  \A q \in Procs : ToSet(sock'[q].queue) \subseteq ToSet(sock[q].queue)
  <2>1. sock' = sock \/ Exit(p)
    BY <1>1 DEF ParseArgs, OpenFile, real_address
  <2> QED BY <2>1, ExitDrops
<1>2. ASSUME NEW p \in Procs, CreateSocket(p)
      PROVE  \A q \in Procs : ToSet(sock'[q].queue) \subseteq ToSet(sock[q].queue)
  <2>1. \A a, b, c : ToSet(create_socket(a, b, c).queue) = {}
    BY DEF create_socket, ToSet
  <2>2. ToSet(sock'[p].queue) = {}
    BY <1>2, <2>1 DEF CreateSocket, ConnectionInv, SocketsInv
  <2>3. \A q \in Procs : q # p => sock'[q] = sock[q]
    BY <1>2 DEF CreateSocket, ConnectionInv, SocketsInv
  <2> QED BY <2>2, <2>3
<1>3. ASSUME NEW p \in Procs, StartFails(p) \/ Refused(p)
      PROVE  \A q \in Procs : ToSet(sock'[q].queue) \subseteq ToSet(sock[q].queue)
  BY <1>3, ExitDrops DEF StartFails, Refused
<1>4. ASSUME NEW s \in Senders, Peek(s)
      PROVE  sock' = sock
  BY <1>4, NamesDiffer DEF Peek, AfterPeek, ConnectionInv, SocketsInv, IsSocket
<1>5. ASSUME NEW s \in Senders, Connect(s)
      PROVE  \A q \in Procs : sock'[q].queue = sock[q].queue
  <2>1. sock'[Receiver] = [sock[Receiver] EXCEPT !.peer = s]
    BY <1>5, NamesDiffer DEF Connect, ConnectionInv, SocketsInv
  <2>2. sock'[Receiver].queue = sock[Receiver].queue
    BY <2>1, NamesDiffer DEF ConnectionInv, SocketsInv, IsSocket
  <2>3. \A q \in Procs : q # Receiver => sock'[q] = sock[q]
    BY <1>5 DEF Connect, ConnectionInv, SocketsInv
  <2> QED BY <2>2, <2>3
<1> QED BY <1>1, <1>2, <1>3, <1>4, <1>5 DEF StartUp

\* A packet that is sent travels undamaged.
LEMMA SentTravels ==
  ASSUME NEW pkt, SentPacket(pkt), NEW from \in Procs, NEW to \in Procs, from # to
  PROVE  Travels(Sent(from, to, pkt)) /\ Undamaged(Sent(from, to, pkt))
<1>1. PICK m : m = Sent(from, to, pkt)
  OBVIOUS
<1>2. m = [from |-> from, to |-> to, pkt |-> pkt, data |-> Original(pkt)]
  BY <1>1 DEF Sent, Original
<1>3. m.from = from /\ m.to = to /\ m.pkt = pkt /\ m.data = Original(pkt)
  BY <1>2
<1>4. MadeFrom(Original(pkt), pkt)
  BY OriginalIsMadeFrom
<1> QED BY <1>1, <1>2, <1>3, <1>4 DEF Travels, Undamaged

\* The sender sends packets.
LEMMA CodecSend ==
  ASSUME ConnectionInv, CodecInv, NEW s \in Senders, Send(s),
         nsent[s] \in Nat
  PROVE  CodecInv'
<1>1. faults' = faults /\ last' = last
  BY DEF Send
<1>2. s \in Procs /\ Receiver \in Procs /\ s # Receiver
  BY NamesDiffer
<1>3. PICK payload \in Payloads :
        LET r == NewData(nsent[s], 1, payload)
        IN  \/ /\ Encodes(r)
               /\ wire' = wire \cup {Sent(s, Receiver, r.pkt)}
               /\ UNCHANGED connectionVars
            \/ Exit(s) /\ wire' = wire
  BY DEF Send
<1>4. PICK r : r = NewData(nsent[s], 1, payload)
  OBVIOUS
<1>5. CASE Encodes(r) /\ wire' = wire \cup {Sent(s, Receiver, r.pkt)} /\ UNCHANGED connectionVars
  <2>1. payload \in Seq(Bytes) /\ 1 \in Long
    BY ReceptionAssumption, SMT DEF Long
  <2>2. SentPacket(r.pkt)
    BY <1>4, <1>5, <2>1, NewDataIsSent
  <2>3. Travels(Sent(s, Receiver, r.pkt)) /\ Undamaged(Sent(s, Receiver, r.pkt))
    BY <1>2, <2>2, SentTravels
  <2>4. sock' = sock
    BY <1>5 DEF connectionVars
  <2> QED BY <1>1, <1>5, <2>3, <2>4, CodecKept
<1>6. CASE Exit(s) /\ wire' = wire
  BY <1>1, <1>2, <1>6, ExitDrops, CodecKept
<1> QED BY <1>3, <1>4, <1>5, <1>6

\* The elements of a queue that has lost its first one.
LEMMA TailElements ==
  ASSUME NEW q, q \in Seq(ToSet(q)), q # <<>>
  PROVE  ToSet(Tail(q)) \subseteq ToSet(q) /\ Head(q) \in ToSet(q)
<1> DEFINE S == ToSet(q)
<1>1. q \in Seq(S)
  OBVIOUS
<1> HIDE DEF S
<1>2. Tail(q) \in Seq(S) /\ Head(q) \in S
  BY <1>1
<1>3. ToSet(Tail(q)) \subseteq S
  <2>1. PICK t \in Seq(S) : t = Tail(q)
    BY <1>2
  <2>2. \A i \in DOMAIN t : t[i] \in S
    OBVIOUS
  <2> QED BY <2>1, <2>2 DEF ToSet
<1> QED BY <1>2, <1>3 DEF S

\* The elements of a queue that has got another one.
LEMMA AppendElements ==
  ASSUME NEW q, q \in Seq(ToSet(q)), NEW m
  PROVE  ToSet(Append(q, m)) = ToSet(q) \cup {m}
<1> DEFINE S == ToSet(q) \cup {m}
<1>1. PICK r \in Seq(S) : r = q
  OBVIOUS
<1>2. m \in S
  OBVIOUS
<1> HIDE DEF S
<1>3. PICK a \in Seq(S) : /\ a = Append(r, m) /\ Len(a) = Len(r) + 1
                          /\ \A i \in 1 .. Len(r) : a[i] = r[i]
                          /\ a[Len(r) + 1] = m
  <2>1. /\ Append(r, m) \in Seq(S) /\ Len(Append(r, m)) = Len(r) + 1
        /\ \A i \in 1 .. Len(r) : Append(r, m)[i] = r[i]
        /\ Append(r, m)[Len(r) + 1] = m
    BY <1>2, AppendProperties
  <2> QED BY <2>1
<1>4. DOMAIN r = 1 .. Len(r) /\ DOMAIN a = 1 .. (Len(r) + 1) /\ Len(r) \in Nat
  BY <1>3
<1>5. {a[i] : i \in DOMAIN a} = {r[i] : i \in DOMAIN r} \cup {m}
  <2>1. ASSUME NEW i \in DOMAIN a PROVE a[i] \in {r[j] : j \in DOMAIN r} \cup {m}
    <3>1. i \in 1 .. Len(r) \/ i = Len(r) + 1
      BY <1>4
    <3> QED BY <1>3, <1>4, <3>1
  <2>2. ASSUME NEW i \in DOMAIN r PROVE i \in DOMAIN a /\ a[i] = r[i]
    BY <1>3, <1>4
  <2>3. Len(r) + 1 \in DOMAIN a
    BY <1>4
  <2> QED BY <1>3, <2>1, <2>2, <2>3
<1> QED BY <1>1, <1>3, <1>5 DEF ToSet

\* A loop takes a datagram and decodes it.
LEMMA CodecHandle ==
  ASSUME ConnectionInv, CodecInv, NEW p \in Procs, NEW m, Handle(p, m), faults' = faults,
         \A d \in wire' : d \in wire \/ (Travels(d) /\ Undamaged(d))
  PROVE  CodecInv'
<1>1. sock[p].queue \in Seq(ToSet(sock[p].queue)) /\ sock[p].queue # <<>>
  BY DEF Handle, Recv, ConnectionInv, SocketsInv, IsSocket
<1>2. sock'[p].queue = Tail(sock[p].queue)
  <2>1. sock'[p] = [sock[p] EXCEPT !.queue = Tail(@)]
    BY DEF Handle, Recv, ConnectionInv, SocketsInv
  <2> QED BY <2>1 DEF ConnectionInv, SocketsInv, IsSocket
<1>3. \A q \in Procs : q # p => sock'[q] = sock[q]
  BY DEF Handle, Recv, ConnectionInv, SocketsInv
<1>4. \A q \in Procs : ToSet(sock'[q].queue) \subseteq ToSet(sock[q].queue)
  BY <1>1, <1>2, <1>3, TailElements
<1>5. m \in ToSet(sock[p].queue)
  BY <1>1, TailElements DEF Handle, Recv
<1>6. Travels(m) /\ Undamaged(m)
  BY <1>5 DEF CodecInv
<1>7. last'.datagram = m /\ \E old \in Stale : last'.result = Decoded(m, old)
  BY DEF Handle
<1>8. \A d : Undamaged(d)' <=> Undamaged(d)
  BY DEF Undamaged
<1>9. last' # Nothing => /\ Travels(last'.datagram) /\ Undamaged(last'.datagram)
                         /\ \E old \in Stale : last'.result = Decoded(last'.datagram, old)
  BY <1>6, <1>7
<1> QED BY <1>4, <1>8, <1>9 DEF CodecInv

\* The answer to what was decoded is a packet like any other.
LEMMA AnswerTravels ==
  ASSUME NEW m, Travels(m), NEW old, Decoded(m, old).code = "PKT_OK",
         NEW to \in Procs, to # Receiver
  PROVE  LET d == Sent(Receiver, to, Reply(Fields(Decoded(m, old).pkt)).pkt)
         IN  Travels(d) /\ Undamaged(d)
<1>1. WellFormed(m.data)
  BY DEF Travels, MadeFrom
<1>2. Passes(m.data) /\ Decoded(m, old).pkt = DecodedFrom(m.data)
  BY <1>1, DecodeMeans DEF Decoded
<1>4. PICK f : f = Fields(DecodedFrom(m.data))
  OBVIOUS
<1>5. /\ m.data[1] \in Headers
      /\ f.seqnum = m.data[1].seqnum /\ f.timestamp = ntohl(m.data[1].timestamp)
  BY <1>1, <1>2, <1>4, FieldsOfDecoded
<1>6. f.seqnum \in Nat /\ f.timestamp \in Long
  BY <1>5, LongSwapsBack DEF Headers, ntohl
<1>7. SentPacket(Reply(f).pkt)
  BY <1>6, AnswerIsSent
<1>8. Receiver \in Procs
  BY NamesDiffer
<1> QED BY <1>2, <1>4, <1>7, <1>8, SentTravels

\* The receiver takes a packet and answers it.
LEMMA CodecHandleData ==
  ASSUME ConnectionInv, CodecInv, HandleData
  PROVE  CodecInv'
<1>1. PICK m \in ToSet(sock[Receiver].queue) :
        /\ Handle(Receiver, m)
        /\ \/ wire' = wire
           \/ /\ last'.result.code = "PKT_OK"
              /\ wire' = wire \cup {Sent(Receiver, sock[Receiver].peer,
                                         Reply(Fields(last'.result.pkt)).pkt)}
  BY DEF HandleData
<1>2. faults' = faults
  BY DEF HandleData
<1>3. Travels(m)
  BY NamesDiffer DEF CodecInv
<1>4. sock[Receiver].peer \in Senders
  BY <1>1 DEF Handle, Recv, ConnectionInv, ReceiverInv
<1>5. sock[Receiver].peer \in Procs /\ sock[Receiver].peer # Receiver /\ Receiver \in Procs
  BY <1>4, NamesDiffer
<1>6. \A d \in wire' : d \in wire \/ (Travels(d) /\ Undamaged(d))
  <2>1. PICK old : last'.result = Decoded(m, old)
    BY <1>1 DEF Handle
  <2> QED BY <1>1, <1>3, <1>5, <2>1, AnswerTravels
<1> QED BY <1>1, <1>2, <1>5, <1>6, CodecHandle

\* A datagram that is damaged, cut or truncated is still made from its packet.
LEMMA CodecDamage ==
  ASSUME CodecInv, Damage
  PROVE  CodecInv'
<1>1. PICK m, data :
        /\ m \in wire
        /\ data \in Damaged(m.data) \/ (Len(m.data) >= HEADER_SIZE /\ data = Truncated(m.data))
        /\ wire' = (wire \ {m}) \cup {[m EXCEPT !.data = data]}
  BY DEF Damage
<1>2. /\ faults \in Nat /\ faults' = faults + 1 /\ last' = last /\ sock' = sock
  BY DEF Damage, connectionVars, CodecInv
<1>3. Travels(m)
  BY <1>1 DEF CodecInv
<1>4. MadeFrom(data, m.pkt)
  BY <1>1, <1>3, DamagedIsMadeFrom, TruncatedIsMadeFrom DEF Travels
<1>5. PICK d : d = [m EXCEPT !.data = data]
  OBVIOUS
<1>6. d = [from |-> m.from, to |-> m.to, pkt |-> m.pkt, data |-> data]
  BY <1>3, <1>5 DEF Travels
<1>7. Travels(d)
  BY <1>3, <1>4, <1>6 DEF Travels
<1>8. \A x \in wire' : Travels(x)
  BY <1>1, <1>5, <1>7 DEF CodecInv
<1>9. faults' \in Nat /\ faults' # 0
  BY <1>2
<1>10. \A x : Undamaged(x)'
  BY <1>9 DEF Undamaged
<1>11. \A p \in Procs : \A x \in ToSet(sock'[p].queue) : Travels(x) /\ x.to = p
  BY <1>2 DEF CodecInv
<1>12. last' # Nothing => /\ Travels(last'.datagram)
                          /\ \E old \in Stale : last'.result = Decoded(last'.datagram, old)
  BY <1>2 DEF CodecInv
<1> QED BY <1>8, <1>9, <1>10, <1>11, <1>12 DEF CodecInv

\* A datagram arrives as it is.
LEMMA CodecDeliver ==
  ASSUME ConnectionInv, CodecInv, Deliver
  PROVE  CodecInv'
<1>1. PICK m \in wire : Arrive(m) /\ wire' = wire \ {m}
  BY DEF Deliver
<1>2. faults' = faults /\ last' = last
  BY DEF Deliver
<1>3. Travels(m) /\ Undamaged(m)
  BY DEF CodecInv
<1>4. \A x : Undamaged(x)' <=> Undamaged(x)
  BY <1>2 DEF Undamaged
<1>5. CASE sock' = sock
  BY <1>1, <1>2, <1>5, CodecKept
<1>6. CASE sock' = [sock EXCEPT ![m.to].queue = Append(@, m)]
  <2>1. m.to \in Procs
    BY <1>3 DEF Travels
  <2>2. sock'[m.to].queue = Append(sock[m.to].queue, m)
    <3>1. sock'[m.to] = [sock[m.to] EXCEPT !.queue = Append(@, m)]
      BY <1>6, <2>1 DEF ConnectionInv, SocketsInv
    <3> QED BY <2>1, <3>1 DEF ConnectionInv, SocketsInv, IsSocket
  <2>3. \A p \in Procs : p # m.to => sock'[p] = sock[p]
    BY <1>6 DEF ConnectionInv, SocketsInv
  <2>4. sock[m.to].queue \in Seq(ToSet(sock[m.to].queue))
    BY <2>1 DEF ConnectionInv, SocketsInv, IsSocket
  <2>5. ToSet(sock'[m.to].queue) = ToSet(sock[m.to].queue) \cup {m}
    BY <2>2, <2>4, AppendElements
  <2>6. \A p \in Procs : \A x \in ToSet(sock'[p].queue) :
          Travels(x) /\ Undamaged(x) /\ x.to = p
    BY <1>3, <2>3, <2>5 DEF CodecInv
  <2>7. \A x \in wire' : Travels(x) /\ Undamaged(x)
    BY <1>1 DEF CodecInv
  <2> QED BY <1>2, <1>4, <2>6, <2>7 DEF CodecInv
<1> QED BY <1>1, <1>5, <1>6 DEF Arrive

-----------------------------------------------------------------------------
(* The types.                                                              *)

\* The fields of a socket have their types, and one that is not open holds
\* nothing.
SocketState(s) ==
  /\ s.peer \in Procs \cup {Nobody}
  /\ {s.local, s.remote} \subseteq 0 .. (PortSpace - 1)
  /\ ~s.open => s = Closed

\* The types of the variables, but for what the queues hold.
StateInv ==
  /\ step \in [Procs -> Steps]
  /\ port \in [Procs -> 0 .. (PortSpace - 1)]
  /\ refused \subseteq Procs
  /\ \A p \in Procs : SocketState(sock[p])
  /\ nsent \in [Senders -> 0 .. MaxSent]
  /\ faults \in 0 .. MaxFaults

\* 0 is a port number.
LEMMA PortNumbers == 0 \in 0 .. (PortSpace - 1)
BY ConnectionAssumption

\* A closed socket has the type of one.
LEMMA ClosedState == SocketState(Closed)
BY PortNumbers DEF SocketState, Closed

\* At the start every variable has its type.
LEMMA StateInit == Init => StateInv
BY PortNumbers, ClosedState, ReceptionAssumption
   DEF Init, StateInv, ConnectionInit, Steps

\* A socket with a datagram in its queue is open.
LEMMA QueuedIsOpen ==
  ASSUME NEW s, SocketState(s), s.queue # <<>>
  PROVE  s.open
BY DEF SocketState, Closed

\* A step of one process that leaves the ports and the refusals alone.
LEMMA StateOneMoves ==
  ASSUME ConnectionInv, StateInv, NEW p \in Procs, NEW x \in Steps, NEW y,
         step' = [step EXCEPT ![p] = x], sock' = [sock EXCEPT ![p] = y], SocketState(y),
         port' = port, refused' \subseteq refused, nsent' = nsent, faults' = faults
  PROVE  StateInv'
<1>1. \A q \in Procs : SocketState(sock'[q])
  BY DEF ConnectionInv, SocketsInv, StateInv
<1>2. step' \in [Procs -> Steps]
  BY DEF StateInv
<1> QED BY <1>1, <1>2 DEF StateInv

\* An exit keeps the types.
LEMMA StateExit ==
  ASSUME ConnectionInv, StateInv, NEW p \in Procs, Exit(p), nsent' = nsent, faults' = faults
  PROVE  StateInv'
BY StateOneMoves, ClosedState DEF Exit, Steps

\* Where a process goes on without touching its socket.
LEMMA StateGoOn ==
  ASSUME ConnectionInv, StateInv, NEW p \in Procs, NEW x \in Steps, GoOn(p, x), sock' = sock,
         port' \in [Procs -> 0 .. (PortSpace - 1)],
         refused' = refused, nsent' = nsent, faults' = faults
  PROVE  StateInv'
<1>1. step' \in [Procs -> Steps]
  BY DEF GoOn, StateInv
<1> QED BY <1>1 DEF StateInv

\* A port on the command line becomes a uint16_t.
LEMMA StateParseArgs ==
  ASSUME ConnectionInv, StateInv, NEW p \in Procs, ParseArgs(p), nsent' = nsent, faults' = faults
  PROVE  StateInv'
<1>1. PICK arg \in PortArgs :
        \/ /\ port' = [port EXCEPT ![p] = parse_args(arg).port]
           /\ GoOn(p, IF p = Receiver THEN "file" ELSE "address")
           /\ sock' = sock /\ refused' = refused
        \/ Exit(p)
  BY DEF ParseArgs
<1>2. parse_args(arg).port \in 0 .. (PortSpace - 1)
  <2>1. arg \in Nat /\ PortSpace \in Nat \ {0}
    BY ConnectionAssumption
  <2>2. arg % PortSpace \in 0 .. (PortSpace - 1)
    BY <2>1
  <2> QED BY <2>2 DEF parse_args
<1>3. port' = [port EXCEPT ![p] = parse_args(arg).port] =>
        port' \in [Procs -> 0 .. (PortSpace - 1)]
  BY <1>2 DEF StateInv
<1>4. (IF p = Receiver THEN "file" ELSE "address") \in Steps
  BY DEF Steps
<1> QED BY <1>1, <1>3, <1>4, StateGoOn, StateExit

\* A new socket has the port its process was given.
LEMMA StateCreateSocket ==
  ASSUME ConnectionInv, StateInv, NEW p \in Procs, CreateSocket(p), nsent' = nsent, faults' = faults
  PROVE  StateInv'
<1>1. PICK y : y = IF p = Receiver THEN create_socket(port[p], Nobody, 0)
                                   ELSE create_socket(0, Receiver, port[p])
  OBVIOUS
<1>2. port[p] \in 0 .. (PortSpace - 1)
  BY DEF StateInv
<1>3. \A a, c \in 0 .. (PortSpace - 1) : \A b \in Procs \cup {Nobody} :
        SocketState(create_socket(a, b, c))
  BY DEF SocketState, create_socket
<1>4. SocketState(y)
  BY <1>1, <1>2, <1>3, PortNumbers, NamesDiffer
<1>5. (IF p = Receiver THEN "wait" ELSE "file") \in Steps
  BY DEF Steps
<1>6. /\ step' = [step EXCEPT ![p] = IF p = Receiver THEN "wait" ELSE "file"]
      /\ sock' = [sock EXCEPT ![p] = y] /\ port' = port /\ refused' = refused
  BY <1>1 DEF CreateSocket, GoOn
<1> QED BY <1>4, <1>5, <1>6, StateOneMoves

\* wait_for_client connects the socket at which a datagram is queued.
LEMMA StateConnect ==
  ASSUME ConnectionInv, StateInv, NEW s \in Senders, Peek(s) \/ Connect(s),
         nsent' = nsent, faults' = faults
  PROVE  StateInv'
<1>1. Receiver \in Procs /\ s \in Procs /\ s \in Steps /\ "loop" \in Steps
  BY NamesDiffer DEF Steps
<1>2. CASE Peek(s)
  <2>1. sock' = sock
    BY <1>1, <1>2 DEF Peek, AfterPeek, ConnectionInv, SocketsInv, IsSocket
  <2> QED BY <1>1, <1>2, <2>1, StateGoOn DEF Peek, StateInv
<1>3. CASE Connect(s)
  <2>1. PICK y : y = [sock[Receiver] EXCEPT !.peer = s]
    OBVIOUS
  <2>2. IsSocket(sock[Receiver]) /\ SocketState(sock[Receiver]) /\ sock[Receiver].open
    BY <1>1, <1>3, QueuedIsOpen DEF Connect, ConnectionInv, SocketsInv, StateInv, PeekedIsNext
  <2>3. SocketState(y)
    BY <1>1, <2>1, <2>2 DEF IsSocket, SocketState
  <2>4. sock' = [sock EXCEPT ![Receiver] = y]
    BY <1>1, <1>3, <2>1 DEF Connect, ConnectionInv, SocketsInv
  <2> QED BY <1>1, <1>3, <2>3, <2>4, StateOneMoves DEF Connect, GoOn
<1> QED BY <1>2, <1>3

\* recv takes from an open socket.
LEMMA StateRecv ==
  ASSUME ConnectionInv, StateInv, NEW p \in Procs, NEW m, Recv(p, m),
         nsent' = nsent, faults' = faults
  PROVE  StateInv'
<1>1. PICK y : y = [sock[p] EXCEPT !.queue = Tail(@)]
  OBVIOUS
<1>2. IsSocket(sock[p]) /\ SocketState(sock[p]) /\ sock[p].open
  BY QueuedIsOpen DEF Recv, ConnectionInv, SocketsInv, StateInv
<1>3. SocketState(y)
  BY <1>1, <1>2 DEF IsSocket, SocketState
<1>4. \A q \in Procs : SocketState(sock'[q])
  BY <1>1, <1>3 DEF Recv, ConnectionInv, SocketsInv, StateInv
<1> QED BY <1>4 DEF Recv, StateInv

\* What arrives is queued at an open socket, and only a process is told that
\* what it sent was refused.
LEMMA StateDeliver ==
  ASSUME ConnectionInv, CodecInv, StateInv, Deliver
  PROVE  StateInv'
<1>1. PICK m \in wire : Arrive(m)
  BY DEF Deliver
<1>2. m.from \in Procs /\ m.to \in Procs
  BY DEF CodecInv, Travels
<1>3. refused' \subseteq Procs
  BY <1>1, <1>2 DEF Arrive, StateInv
<1>4. \A q \in Procs : SocketState(sock'[q])
  <2>1. CASE sock[m.to].open /\ sock' = [sock EXCEPT ![m.to].queue = Append(@, m)]
    <3>1. PICK y : y = [sock[m.to] EXCEPT !.queue = Append(@, m)]
      OBVIOUS
    <3>2. IsSocket(sock[m.to]) /\ SocketState(sock[m.to])
      BY <1>2 DEF ConnectionInv, SocketsInv, StateInv
    <3>3. SocketState(y)
      BY <2>1, <3>1, <3>2 DEF IsSocket, SocketState
    <3>4. sock' = [sock EXCEPT ![m.to] = y]
      BY <1>2, <2>1, <3>1 DEF ConnectionInv, SocketsInv
    <3> QED BY <1>2, <3>3, <3>4 DEF ConnectionInv, SocketsInv, StateInv
  <2>2. CASE sock' = sock
    BY <2>2 DEF StateInv
  <2> QED BY <1>1, <2>1, <2>2 DEF Arrive, Takes
<1> QED BY <1>1, <1>3, <1>4 DEF Arrive, Deliver, StateInv

-----------------------------------------------------------------------------
(* The theorems.                                                           *)

ReceptionInv == ConnectionInv /\ CodecInv /\ StateInv

\* Every step keeps the types.
LEMMA StateStep ==
  ASSUME ReceptionInv, [Next]_vars
  PROVE  StateInv'
<1> USE DEF ReceptionInv
<1>1. CASE StartUp
  <2>1. nsent' = nsent /\ faults' = faults
    BY <1>1 DEF StartUp
  <2>2. ASSUME NEW p \in Procs, OpenFile(p) \/ real_address(p)
        PROVE  StateInv'
    <3>1. PICK x \in Steps : GoOn(p, x) /\ sock' = sock /\ port' = port /\ refused' = refused
      BY <2>2 DEF OpenFile, real_address, Steps
    <3> QED BY <2>1, <3>1, StateGoOn DEF StateInv
  <2>3. ASSUME NEW p \in Procs, StartFails(p) \/ Refused(p)
        PROVE  StateInv'
    BY <2>1, <2>3, StateExit DEF StartFails, Refused
  <2> QED BY <1>1, <2>1, <2>2, <2>3, StateParseArgs, StateCreateSocket, StateConnect
          DEF StartUp
<1>2. ASSUME NEW s \in Senders, Send(s)
      PROVE  StateInv'
  <2>1. faults' = faults /\ s \in Procs
    BY <1>2, NamesDiffer DEF Send
  <2>2. CASE Exit(s) /\ nsent' = nsent
    BY <2>1, <2>2, StateExit
  <2>3. CASE nsent' = [nsent EXCEPT ![s] = @ + 1] /\ UNCHANGED connectionVars
    <3>1. nsent[s] < MaxSent /\ nsent \in [Senders -> 0 .. MaxSent]
      BY <1>2 DEF Send, StateInv
    <3>2. nsent' \in [Senders -> 0 .. MaxSent]
      BY <2>3, <3>1, ReceptionAssumption
    <3> QED BY <2>1, <2>3, <3>2 DEF connectionVars, StateInv
  <2> QED BY <1>2, <2>2, <2>3 DEF Send
<1>3. ASSUME NEW s \in Senders, HandleAnswer(s)
      PROVE  StateInv'
  BY <1>3, NamesDiffer, StateRecv DEF HandleAnswer, Handle
<1>4. CASE HandleData
  BY <1>4, NamesDiffer, StateRecv DEF HandleData, Handle
<1>5. CASE Damage
  <2>1. faults \in 0 .. MaxFaults /\ faults < MaxFaults /\ faults' = faults + 1
    BY <1>5 DEF Damage, StateInv
  <2>2. faults' \in 0 .. MaxFaults
    BY <2>1, ReceptionAssumption
  <2> QED BY <1>5, <2>2 DEF Damage, connectionVars, StateInv
<1>6. CASE Lose \/ UNCHANGED vars
  BY <1>6 DEF Lose, vars, connectionVars, StateInv
<1>7. CASE Deliver
  BY <1>7, StateDeliver
<1> QED BY <1>1, <1>2, <1>3, <1>4, <1>5, <1>6, <1>7 DEF Next

\* Every step keeps what is known of the datagrams.
LEMMA CodecStep ==
  ASSUME ReceptionInv, [Next]_vars
  PROVE  CodecInv'
<1> USE DEF ReceptionInv
<1>1. CASE StartUp
  BY <1>1, StartUpDrops, CodecKept DEF StartUp
<1>2. ASSUME NEW s \in Senders, Send(s)
      PROVE  CodecInv'
  <2>1. nsent[s] \in Nat
    BY DEF StateInv
  <2> QED BY <1>2, <2>1, CodecSend
<1>3. ASSUME NEW s \in Senders, HandleAnswer(s)
      PROVE  CodecInv'
  <2>1. PICK m : Handle(s, m)
    BY <1>3 DEF HandleAnswer
  <2>2. wire' = wire /\ faults' = faults /\ s \in Procs
    BY <1>3, NamesDiffer DEF HandleAnswer
  <2> QED BY <2>1, <2>2, CodecHandle
<1>4. CASE HandleData
  BY <1>4, CodecHandleData
<1>5. CASE Damage
  BY <1>5, CodecDamage
<1>6. CASE Lose \/ UNCHANGED vars
  <2>1. faults' = faults /\ last' = last /\ sock' = sock /\ wire' \subseteq wire
    BY <1>6 DEF Lose, vars, connectionVars
  <2> QED BY <2>1, CodecKept
<1>7. CASE Deliver
  BY <1>7, CodecDeliver
<1> QED BY <1>1, <1>2, <1>3, <1>4, <1>5, <1>6, <1>7 DEF Next

\* The invariant holds.
LEMMA ReceptionAlways == Spec => []ReceptionInv
<1>1. Init => ReceptionInv
  BY InvInit, CodecInit, StateInit DEF Init, ReceptionInv
<1>2. ReceptionInv /\ [Next]_vars => ReceptionInv'
  <2> SUFFICES ASSUME ReceptionInv, [Next]_vars PROVE ReceptionInv'
    OBVIOUS
  <2>1. ConnectionInv'
    BY InvStep DEF ReceptionInv
  <2> QED BY <2>1, CodecStep, StateStep DEF ReceptionInv
<1> QED BY <1>1, <1>2, PTL DEF Spec

\* What decoding the datagram in last comes to.
LEMMA LastMeans ==
  ASSUME CodecInv, last # Nothing
  PROVE  LET data == last.datagram.data
         IN  /\ last.result.code \in pkt_status_code
             /\ last.result.code = "PKT_OK" <=> Valid(data)
             /\ last.result.code = "PKT_OK" => last.result.pkt = DecodedFrom(data)
             /\ last.result.read <= received(data)
<1>1. /\ SentPacket(last.datagram.pkt)
      /\ MadeFrom(last.datagram.data, last.datagram.pkt)
  BY DEF CodecInv, Travels
<1>2. WellFormed(last.datagram.data)
  BY <1>1 DEF MadeFrom
<1>3. PICK old : last.result = pkt_decode(buf(last.datagram.data, old),
                                          received(last.datagram.data))
  BY DEF CodecInv, Decoded
<1>4. Passes(last.datagram.data) <=> Valid(last.datagram.data)
  BY <1>1, PassesIsValid
<1> QED BY <1>2, <1>3, <1>4, DecodeMeans

\* Every variable keeps its type: ports are 16-bit numbers, what is queued at a
\* socket was sent to its process by another, and pkt_decode returns one of its
\* codes.
THEOREM ReceptionTypeCorrect == Spec => []TypeOK
<1>1. ReceptionInv => TypeOK
  <2> SUFFICES ASSUME ReceptionInv PROVE TypeOK
    OBVIOUS
  <2>1. last # Nothing => last.result.code \in pkt_status_code
    BY LastMeans DEF ReceptionInv
  <2>2. \A p \in Procs : \A m \in ToSet(sock[p].queue) : m.to = p /\ m.from # p
    BY DEF ReceptionInv, CodecInv, Travels
  <2> QED BY <2>1, <2>2 DEF ReceptionInv, StateInv, SocketState, TypeOK
<1> QED BY <1>1, ReceptionAlways, PTL

\* pkt_decode reads no cell of the caller's buffer behind what recv has filled
\* of it, whatever the length field of a damaged or cut datagram says.
THEOREM NeverOverreads == Spec => []NoOverread
<1>1. ReceptionInv => NoOverread
  BY LastMeans DEF ReceptionInv, NoOverread
<1> QED BY <1>1, ReceptionAlways, PTL

\* The checks of pkt_decode, in their order, accept exactly the datagrams that
\* packet_interface.h declares valid, whatever the buffer held before recv.  They
\* pass over the length of a truncated packet, which CRC1 vouches for.
THEOREM DecoderIsExact == Spec => []DecodesExactlyValid
<1>1. ReceptionInv => DecodesExactlyValid
  <2> SUFFICES ASSUME ReceptionInv, last # Nothing
               PROVE  (last.result.code = "PKT_OK") = Valid(last.datagram.data)
    BY DEF DecodesExactlyValid
  <2>1. last.result.code = "PKT_OK" <=> Valid(last.datagram.data)
    BY LastMeans DEF ReceptionInv
  <2>2. Valid(last.datagram.data) \in BOOLEAN
    BY Zenon DEF Valid
  <2>3. (last.result.code = "PKT_OK") \in BOOLEAN
    BY Zenon
  <2>4. \A P, Q \in BOOLEAN : (P <=> Q) => P = Q
    OBVIOUS
  <2> QED BY <2>1, <2>2, <2>3, <2>4, Zenon
<1> QED BY <1>1, ReceptionAlways, PTL

\* What a loop works on is the packet its peer sent, or that packet cut to its
\* header by a router, for every payload and every fault.
THEOREM OnlySentIsAccepted == Spec => []AcceptedIsSent
<1>1. ReceptionInv => AcceptedIsSent
  <2> SUFFICES ASSUME ReceptionInv, last # Nothing, last.result.code = "PKT_OK"
               PROVE  LET sent == Fields(last.datagram.pkt)
                      IN  Fields(last.result.pkt) \in
                            {sent, [sent EXCEPT !.tr = 1, !.length = 0, !.payload = <<>>]}
    BY DEF AcceptedIsSent
  <2>1. Valid(last.datagram.data) /\ last.result.pkt = DecodedFrom(last.datagram.data)
    BY LastMeans DEF ReceptionInv
  <2>2. SentPacket(last.datagram.pkt) /\ MadeFrom(last.datagram.data, last.datagram.pkt)
    BY DEF ReceptionInv, CodecInv, Travels
  <2> QED BY <2>1, <2>2, PassesIsValid, AcceptedMeans
<1> QED BY <1>1, ReceptionAlways, PTL

\* Without a fault what travels is the encoding that packet_interface.h declares
\* and every datagram is accepted, provided that the length of every payload
\* fits the 16 bits of its field.
THEOREM EncodingIsDeclared ==
  ASSUME MAX_PAYLOAD_SIZE \in Short
  PROVE  Spec => []EncodesAsDeclared
<1>1. ReceptionInv => EncodesAsDeclared
  <2> SUFFICES ASSUME ReceptionInv, faults = 0
               PROVE  /\ \A m \in wire : m.data = Encoding(Fields(m.pkt))
                      /\ last # Nothing => last.result.code = "PKT_OK"
    BY DEF EncodesAsDeclared
  <2>1. ASSUME NEW m \in wire PROVE m.data = Encoding(Fields(m.pkt))
    <3>1. SentPacket(m.pkt) /\ m.data = Original(m.pkt)
      BY DEF ReceptionInv, CodecInv, Travels, Undamaged
    <3> QED BY <3>1, OriginalIsEncoding
  <2>2. ASSUME last # Nothing PROVE last.result.code = "PKT_OK"
    <3>1. SentPacket(last.datagram.pkt) /\ last.datagram.data = Original(last.datagram.pkt)
      BY <2>2 DEF ReceptionInv, CodecInv, Travels, Undamaged
    <3>2. Valid(last.datagram.data)
      BY <3>1, OriginalIsValid
    <3> QED BY <2>2, <3>2, LastMeans DEF ReceptionInv
  <2> QED BY <2>1, <2>2
<1> QED BY <1>1, ReceptionAlways, PTL
=============================================================================
