----------------------------- MODULE Reception ------------------------------
(***************************************************************************)
(* The way of a packet from one program into the other: it is encoded by   *)
(* send_packet, damaged or cut on the way, queued by the kernel, taken by  *)
(* recv and decoded.  What the loops then do with a packet is the subject  *)
(* of Sender and Receiver; here a receiver answers with an ACK or a NACK,  *)
(* or ignores a packet out of its window.                                  *)
(***************************************************************************)
EXTENDS Connection, PacketCodec

CONSTANTS
  Payloads,     \* what the senders read from their files
  MaxSent,      \* a bound of the model: the packets one sender sends
  Stale,        \* what the uninitialized buffer of a loop may hold
  MaxFaults     \* a bound of the model: the datagrams damaged

ASSUME ReceptionAssumption ==
  /\ \A data \in Payloads : data \in Seq(Bytes)
  /\ MaxSent \in Nat /\ MaxFaults \in Nat
  /\ \A old \in Stale : DOMAIN old = 1 .. MAX_PACKET_SIZE

VARIABLES
  wire,     \* the datagrams on their way
  nsent,    \* the number of packets each sender has sent
  faults,
  last      \* history: the datagram decoded last, and the result

vars == <<connectionVars, wire, nsent, faults, last>>

Nothing == [by |-> Nobody]

Init ==
  /\ ConnectionInit
  /\ wire = {}
  /\ nsent = [s \in Senders |-> 0]
  /\ faults = 0
  /\ last = Nothing

-----------------------------------------------------------------------------
\* send_packet: pkt is kept with its datagram for the properties to speak of.
Sent(from, to, pkt) ==
  [from |-> from, to |-> to, pkt |-> pkt,
   data |-> pkt_encode(pkt, MAX_PACKET_SIZE).data]

Encodes(r) ==
  /\ r.code = "PKT_OK"
  /\ pkt_encode(r.pkt, MAX_PACKET_SIZE).code = "PKT_OK"

\* The sender sends a DATA packet, or exits if it cannot make one.
Send(s) ==
  /\ step[s] = "loop"
  /\ s \notin refused
  /\ nsent[s] < MaxSent
  /\ \E payload \in Payloads :
       LET r == NewData(nsent[s], 1, payload)
       IN  \/ /\ Encodes(r)
              /\ wire' = wire \cup {Sent(s, Receiver, r.pkt)}
              /\ nsent' = [nsent EXCEPT ![s] = @ + 1]
              /\ UNCHANGED connectionVars
           \/ /\ ~Encodes(r)
              /\ Exit(s)
              /\ UNCHANGED <<wire, nsent>>
  /\ UNCHANGED <<faults, last>>

\* recv cuts what does not fit into buf, and leaves the cells behind it as they
\* were.
buf(data, old) ==
  [i \in 1 .. MAX_PACKET_SIZE |-> IF i <= Len(data) THEN data[i] ELSE old[i]]

received(data) ==
  IF Len(data) < MAX_PACKET_SIZE THEN Len(data) ELSE MAX_PACKET_SIZE

Decoded(m, old) == pkt_decode(buf(m.data, old), received(m.data))

Handle(p, m) ==
  /\ Recv(p, m)
  /\ \E old \in Stale :
       last' = [by |-> p, datagram |-> m, result |-> Decoded(m, old)]

\* The sender's loop takes an answer.
HandleAnswer(s) ==
  /\ \E m \in ToSet(sock[s].queue) : Handle(s, m)
  /\ UNCHANGED <<wire, nsent, faults>>

\* The answer to a packet: a NACK if it is truncated, else an ACK.
Reply(fields) ==
  IF fields.tr = 1
  THEN NewNack(MAX_WINDOW_SIZE, fields.seqnum)
  ELSE NewAck(MAX_WINDOW_SIZE, fields.seqnum, fields.timestamp)

\* The receiver's loop takes a packet, and answers it unless it cannot decode
\* it or it is out of the window.
HandleData ==
  /\ \E m \in ToSet(sock[Receiver].queue) :
       /\ Handle(Receiver, m)
       /\ \/ UNCHANGED wire
          \/ /\ last'.result.code = "PKT_OK"
             /\ wire' = wire \cup {Sent(Receiver, sock[Receiver].peer,
                                        Reply(Fields(last'.result.pkt)).pkt)}
  /\ UNCHANGED <<nsent, faults>>

-----------------------------------------------------------------------------
(* The path.                                                               *)

\* A header with another value in one field.
OtherHeaders(h) ==
  (UNION {{[h EXCEPT !.type = x] : x \in 0 .. 3},
          {[h EXCEPT !.tr = x] : x \in 0 .. 1},
          {[h EXCEPT !.seqnum = x] : x \in 0 .. 1},
          {[h EXCEPT !.length = htons(x)] : x \in 0 .. (MAX_PAYLOAD_SIZE + 1)},
          {[h EXCEPT !.timestamp = htonl(x)] : x \in 0 .. 1}}) \ {h}

\* One cell is changed, or the datagram is cut.  A changed CRC1 is no header's,
\* as a CRC1 has TR = 0.
Damaged(data) ==
  (UNION {{[data EXCEPT ![1] = h] : h \in OtherHeaders(data[1])} :
            i \in DOMAIN data \cap {1}})
  \cup {[data EXCEPT ![i].tr = 1 - @] : i \in DOMAIN data \cap {2}}
  \cup {[data EXCEPT ![i] = Cell(b)] :
          i \in (HEADER_SIZE + 1) .. Len(data), b \in Bytes}
  \cup {SubSeq(data, 1, n) : n \in 0 .. Len(data)}

\* A router that lacks the room for the payload sets TR and drops it.
Truncated(data) == <<[data[1] EXCEPT !.tr = 1], data[2]>>

Damage ==
  /\ faults < MaxFaults
  /\ faults' = faults + 1
  /\ \E m \in wire :
       \/ \E data \in Damaged(m.data) : wire' = (wire \ {m}) \cup {[m EXCEPT !.data = data]}
       \/ /\ m.pkt.type = PTYPE_DATA
          /\ Len(m.data) >= HEADER_SIZE
          /\ wire' = (wire \ {m}) \cup {[m EXCEPT !.data = Truncated(@)]}
  /\ UNCHANGED <<connectionVars, nsent, last>>

Lose ==
  /\ \E m \in wire : wire' = wire \ {m}
  /\ UNCHANGED <<connectionVars, nsent, faults, last>>

Deliver ==
  /\ \E m \in wire : Arrive(m) /\ wire' = wire \ {m}
  /\ UNCHANGED <<nsent, faults, last>>

StartUp ==
  /\ \/ \E p \in Procs :
          \/ ParseArgs(p)
          \/ OpenFile(p)
          \/ real_address(p)
          \/ CreateSocket(p)
          \/ StartFails(p)
          \/ Refused(p)
     \/ \E s \in Senders : Peek(s) \/ Connect(s)
  /\ UNCHANGED <<wire, nsent, faults, last>>

Next ==
  \/ StartUp
  \/ \E s \in Senders : Send(s) \/ HandleAnswer(s)
  \/ HandleData
  \/ Damage
  \/ Lose
  \/ Deliver

Spec == Init /\ [][Next]_vars
-----------------------------------------------------------------------------
(* Properties.                                                             *)

Steps == {"args", "file", "address", "socket", "wait", "loop", "exit"} \cup Senders

\* Every variable has its type; in particular a port is a uint16_t, what is
\* queued at a socket was sent to its process, and pkt_decode returns one of
\* its codes.
TypeOK ==
  /\ step \in [Procs -> Steps]
  /\ port \in [Procs -> 0 .. (PortSpace - 1)]
  /\ refused \subseteq Procs
  /\ \A p \in Procs :
       /\ sock[p].peer \in Procs \cup {Nobody}
       /\ {sock[p].local, sock[p].remote} \subseteq 0 .. (PortSpace - 1)
       /\ \A m \in ToSet(sock[p].queue) : m.to = p /\ m.from # p
       /\ ~sock[p].open => sock[p] = Closed
  /\ nsent \in [Senders -> 0 .. MaxSent]
  /\ faults \in 0 .. MaxFaults
  /\ last # Nothing => last.result.code \in pkt_status_code

\* pkt_encode makes of a packet the datagram that packet_interface.h declares,
\* and as long as none is damaged pkt_decode accepts every one.
EncodesAsDeclared ==
  faults = 0 =>
    /\ \A m \in wire : m.data = Encoding(Fields(m.pkt))
    /\ last # Nothing => last.result.code = "PKT_OK"

\* The checks of pkt_decode, in their order and with their early returns, let
\* through the datagrams that packet_interface.h promises to accept and no
\* others, however a datagram was damaged or cut on its way, and whatever the
\* buffer of the loop held behind it.
DecodesExactlyValid ==
  last # Nothing =>
    (last.result.code = "PKT_OK") = Valid(last.datagram.data)

\* A loop works on the very packet its peer filled in, or on that packet cut to
\* its header: a fault between pkt_encode and pkt_decode never makes another.
AcceptedIsSent ==
  last # Nothing /\ last.result.code = "PKT_OK" =>
    LET sent == Fields(last.datagram.pkt)
    IN  Fields(last.result.pkt) \in
          {sent, [sent EXCEPT !.tr = 1, !.length = 0, !.payload = <<>>]}

\* pkt_decode trusts the length field of a datagram only as far as recv has
\* filled the buffer ("Return now in order to prevent a potential buffer
\* overflow").
NoOverread == last # Nothing => last.result.read <= received(last.datagram.data)

\* The loops use send, for which the socket must be connected: whatever the port
\* on the command line and whichever start-up step fails, no process is in its
\* loop without a peer.
LoopsConnected ==
  \A p \in Procs : step[p] = "loop" => sock[p].peer # Nobody

\* Between the peek and the connect of wait_for_client the datagram that was
\* peeked at stays the first of the queue, so that the first packet the loop
\* sees is one of the sender it is connected to.
PeekedIsNext ==
  \A s \in Senders : step[Receiver] = s =>
    /\ sock[Receiver].queue # <<>>
    /\ Head(sock[Receiver].queue).from = s

\* The comment at the connect of wait_for_client: its peer is the only address
\* from which the receiver gets data.
OnlyFromPeer ==
  step[Receiver] = "loop" /\ last.by = Receiver =>
    last.datagram.from = sock[Receiver].peer
=============================================================================
