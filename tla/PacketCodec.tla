---------------------------- MODULE PacketCodec -----------------------------
(***************************************************************************)
(* src/packet_implem.c: the setters and their error codes, the encoding of *)
(* a packet into a datagram, and the decoding with the order of its        *)
(* checks.  Numbers of several bytes are kept in network byte order, but   *)
(* for the checksums, which are no numbers here.                           *)
(***************************************************************************)
EXTENDS PacketInterface, SequencesExt

\* struct pkt, without the checksums, which only exist on the wire.
NoPayload == [i \in 1 .. MAX_PAYLOAD_SIZE |-> 0]

pkt_new ==
  [type |-> 0, tr |-> 0, window |-> 0, seqnum |-> 0, length |-> 0,
   timestamp |-> 0, payload |-> NoPayload]

Header(p) ==
  [type |-> p.type, tr |-> p.tr, window |-> p.window, seqnum |-> p.seqnum,
   length |-> p.length, timestamp |-> p.timestamp]

\* pkt_decode copies the header over that of a new packet.
FromHeader(h) ==
  [type |-> h.type, tr |-> h.tr, window |-> h.window, seqnum |-> h.seqnum,
   length |-> h.length, timestamp |-> h.timestamp, payload |-> NoPayload]

-----------------------------------------------------------------------------
(* Getters.                                                                *)

\* A mistake: TR is not looked at.
BUG_pkt_get_length(p) == ntohs(p.length)

\* A truncated packet has no payload, whatever its length field says.
pkt_get_length(p) == IF p.tr = 1 THEN 0 ELSE ntohs(p.length)

pkt_get_payload(p) == SubSeq(p.payload, 1, pkt_get_length(p))

\* What all the getters return.
Fields(p) ==
  [type |-> p.type, tr |-> p.tr, window |-> p.window, seqnum |-> p.seqnum,
   length |-> pkt_get_length(p), timestamp |-> ntohl(p.timestamp),
   payload |-> pkt_get_payload(p)]

pkt_get_total_size(p) ==
  LET payload_size == pkt_get_length(p)
  IN  HEADER_SIZE + payload_size + (IF payload_size > 0 THEN CRC2_SIZE ELSE 0)

-----------------------------------------------------------------------------
(* Setters.  Each returns a code and the packet.                           *)

Checked(ok, error, p, q) ==
  IF ok THEN [code |-> "PKT_OK", pkt |-> q] ELSE [code |-> error, pkt |-> p]

pkt_set_type(p, type) ==
  Checked(type # 0 /\ type \div 4 = 0, "E_TYPE", p, [p EXCEPT !.type = type])

pkt_set_window(p, window) ==
  Checked(window <= MAX_WINDOW_SIZE, "E_WINDOW", p, [p EXCEPT !.window = window])

pkt_set_seqnum(p, seqnum) ==
  Checked(TRUE, "E_SEQNUM", p, [p EXCEPT !.seqnum = seqnum])

pkt_set_timestamp(p, timestamp) ==
  Checked(TRUE, "E_TIMESTAMP", p, [p EXCEPT !.timestamp = htonl(timestamp)])

\* The slots behind the length are zeroed.
pkt_set_length(p, length) ==
  Checked(length <= MAX_PAYLOAD_SIZE, "E_LENGTH", p,
          [p EXCEPT !.length = htons(length),
                    !.payload = [i \in DOMAIN @ |->
                                   IF i <= length THEN @[i] ELSE 0]])

pkt_set_payload(p, data) ==
  LET r == pkt_set_length(p, Len(data))
  IN  IF r.code # "PKT_OK" THEN r
      ELSE [r EXCEPT !.pkt.payload = [i \in DOMAIN @ |->
              IF i <= Len(data) THEN data[i] ELSE @[i]]]

\* err = err || set(...): no setter is called after the first error, of which
\* the callers only ask whether there was one.
Then(r, next) == IF r.code = "PKT_OK" THEN next ELSE r

\* The packets as sender and receiver fill them in.
NewData(seqnum, timestamp, payload) ==
  LET type == pkt_set_type(pkt_new, PTYPE_DATA)
      seq == Then(type, pkt_set_seqnum(type.pkt, seqnum))
      win == Then(seq, pkt_set_window(seq.pkt, 0))
      time == Then(win, pkt_set_timestamp(win.pkt, timestamp))
  IN  Then(time, pkt_set_payload(time.pkt, payload))

NewNack(window, seqnum) ==
  LET type == pkt_set_type(pkt_new, PTYPE_NACK)
      win == Then(type, pkt_set_window(type.pkt, window))
  IN  Then(win, pkt_set_seqnum(win.pkt, seqnum))

NewAck(window, seqnum, timestamp) ==
  LET type == pkt_set_type(pkt_new, PTYPE_ACK)
      win == Then(type, pkt_set_window(type.pkt, window))
      seq == Then(win, pkt_set_seqnum(win.pkt, seqnum))
  IN  Then(seq, pkt_set_timestamp(seq.pkt, timestamp))

-----------------------------------------------------------------------------
(* Encoding and decoding.                                                  *)

\* The code of the first check that fails, of a sequence of pairs <<it fails,
\* the code>>.
FirstError(checks) ==
  LET i == SelectInSeq(checks, LAMBDA c : c[1])
  IN  IF i = 0 THEN "PKT_OK" ELSE checks[i][2]

\* A mistake: the checksum of the payload is sent even if there is none.
BUG_Trailer(payload) == <<crc2(payload)>>

\* What follows the payload.
Trailer(payload) == IF Len(payload) > 0 THEN <<crc2(payload)>> ELSE <<>>

\* The header with its checksum, which pkt_set_crc1 puts behind it.
WithCrc1(p) == <<Header(p), crc1(Header(p))>>

\* The datagram for p, in a buffer of that many cells.
pkt_encode(p, space) ==
  LET code == FirstError(<< <<p.type = 0, "E_TYPE">>,
                            <<pkt_get_total_size(p) > space, "E_NOMEM">> >>)
      payload == SubSeq(p.payload, 1, pkt_get_length(p))
  IN  [code |-> code,
       data |-> IF code # "PKT_OK" THEN <<>>
                ELSE WithCrc1(p)
                     \o [i \in DOMAIN payload |-> Cell(payload[i])]
                     \o Trailer(payload)]

\* A mistake: the size of the datagram is compared with the header's only.
BUG_HeaderError(p, crc, len) ==
  FirstError(<< <<p.type = 0, "E_TYPE">>,
                <<p.type # PTYPE_DATA /\ p.tr # 0, "E_TR">>,
                <<p.window > MAX_WINDOW_SIZE, "E_WINDOW">>,
                <<pkt_get_length(p) > MAX_PAYLOAD_SIZE, "E_LENGTH">>,
                <<len < HEADER_SIZE, "E_UNCONSISTENT">>,
                <<crc # crc1(Header(p)), "E_CRC">> >>)

\* The checks that come before the payload is copied.
HeaderError(p, crc, len) ==
  FirstError(<< <<p.type = 0, "E_TYPE">>,
                <<p.type # PTYPE_DATA /\ p.tr # 0, "E_TR">>,
                <<p.window > MAX_WINDOW_SIZE, "E_WINDOW">>,
                <<pkt_get_length(p) > MAX_PAYLOAD_SIZE, "E_LENGTH">>,
                <<len # pkt_get_total_size(p), "E_UNCONSISTENT">>,
                <<crc # crc1(Header(p)), "E_CRC">> >>)

\* A mistake: the checksum of the payload is not compared.
BUG_crc2_agrees(buf, n) == TRUE

\* The checksum behind a payload of n cells, if there is one.
crc2_agrees(buf, n) ==
  n > 0 => buf[HEADER_SIZE + n + 1] = crc2(PayloadOf(buf, n))

\* buf is the buffer of the caller, of which recv has filled len cells; read is
\* how many cells are read.
pkt_decode(buf, len) ==
  IF len < HEADER_SIZE
  THEN [code |-> "E_NOHEADER", pkt |-> pkt_new, read |-> 0]
  ELSE LET p == FromHeader(buf[1])
           error == HeaderError(p, buf[2], len)
           n == pkt_get_length(p)
       IN  IF error # "PKT_OK"
           THEN [code |-> error, pkt |-> p, read |-> HEADER_SIZE]
           ELSE [code |-> IF crc2_agrees(buf, n) THEN "PKT_OK" ELSE "E_CRC",
                 pkt |-> [p EXCEPT !.payload = [i \in DOMAIN @ |->
                            IF i <= n THEN PayloadOf(buf, n)[i] ELSE @[i]]],
                 read |-> pkt_get_total_size(p)]
=============================================================================
