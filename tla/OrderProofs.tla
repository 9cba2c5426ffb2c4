---------------------------- MODULE OrderProofs -----------------------------
(***************************************************************************)
(* Over a network that neither copies nor reorders, with answers in time,  *)
(* nothing sent is ever beyond recovery, the sending window only advances, *)
(* and new packets stay in the receiving window, whatever is lost,         *)
(* truncated, or stops.                                                    *)
(***************************************************************************)
EXTENDS AnswerProofs

\* The network, and a file so short that no window wraps around.
Orderly ==
  /\ Faults \cap {"duplicate", "reorder", "late"} = {}
  /\ NChunks + Capacity <= SeqSpace

-----------------------------------------------------------------------------
(* Channels that keep the order.                                           *)

\* t is what is left of the channel s when its first d datagrams are gone, or
\* some of its last.
Shifted(s, t, d) ==
  \A k \in DOMAIN t : k \in Nat \ {0} /\ k + d \in DOMAIN s /\ t[k] = s[k + d]

\* The same, but for the TR flag.
Carries(s, t, d) ==
  \A k \in DOMAIN t : /\ k \in Nat \ {0} /\ k + d \in DOMAIN s
                      /\ t[k].seqnum = s[k + d].seqnum
                      /\ t[k].timestamp = s[k + d].timestamp
                      /\ t[k].chunk = s[k + d].chunk

\* t is the channel s with one more datagram at its end.
Extended(s, t, x) ==
  /\ Len(s) \in Nat
  /\ DOMAIN s = 1 .. Len(s)
  /\ DOMAIN t = 1 .. (Len(s) + 1)
  /\ t[Len(s) + 1] = x
  /\ \A k \in DOMAIN s : t[k] = s[k]

\* Only the first datagram is delivered or lost.
LEMMA FirstOut ==
  ASSUME Orderly, NEW S, NEW s \in Seq(S), NEW i \in Deliverable(s)
  PROVE  i = 1 /\ 1 \in DOMAIN s /\ Shifted(s, RemoveAt(s, i), 1)
<1>1. i = 1 /\ 1 \in DOMAIN s
  BY DEF Orderly, Deliverable
<1>2. RemoveAt(s, 1) = Tail(s)
  BY <1>1 DEF RemoveAt
<1>3. Shifted(s, Tail(s), 1)
  BY <1>1 DEF Shifted
<1> QED BY <1>1, <1>2, <1>3

\* What is sent is delivered after everything sent before.
LEMMA LastIn ==
  ASSUME NEW S, NEW s \in Seq(S), NEW x
  PROVE  Extended(s, Append(s, x), x)
BY DEF Extended

\* A channel nobody touches.
LEMMA NotShifted ==
  ASSUME NEW S, NEW s \in Seq(S)
  PROVE  Shifted(s, s, 0)
BY DEF Shifted

\* Moving up in the channel changes no datagram.
LEMMA ShiftedCarries ==
  ASSUME NEW s, NEW t, NEW d, Shifted(s, t, d)
  PROVE  Carries(s, t, d)
BY DEF Shifted, Carries

-----------------------------------------------------------------------------
(* The inductive invariant.                                                *)

IsAck(m) == m.type = "ack"

\* The i-th datagram on its way to the receiver carries the packet p.
Pending(i, p) == toReceiver[i].chunk = p.chunk

\* The answer m is about the packet p.
Concerns(m, p) ==
  IF IsAck(m) THEN m.timestamp = p.timestamp ELSE m.seqnum = p.seqnum

\* HasReceived, in the terms of the receiving window.
Held(c) ==
  \/ c < rw.pos
  \/ c = Eof /\ rw.pos = NChunks
  \/ \E p \in rw.buf : p.chunk = c

\* The packets in the buffer of the sender are those of different chunks, and
\* different transmissions.
BufferInv ==
  /\ loop_now <= clock
  /\ \A p \in sw.buf : ~p.tr /\ p.chunk < nread
  /\ \A p, q \in sw.buf : p.chunk = q.chunk => p = q
  /\ \A p, q \in Genuine : p.timestamp = q.timestamp => p = q

\* Of each of them at most the last transmission is on its way, before its
\* timer expires, and a packet that is still of use is in the buffer.
DataInv ==
  /\ \A i \in DOMAIN toReceiver : toReceiver[i].chunk < nread
  /\ \A i \in DOMAIN toReceiver, p \in sw.buf : Pending(i, p) =>
       p \in Genuine /\ toReceiver[i].timestamp = p.timestamp
  /\ \A i, j \in DOMAIN toReceiver, p \in sw.buf :
       Pending(i, p) /\ Pending(j, p) => i = j
  /\ \A i \in DOMAIN toReceiver :
       toReceiver[i].seqnum >= rw.pos => \E p \in sw.buf : Pending(i, p)

\* Or else the answer to it is: the only one, and not overtaken by an ACK that
\* pops the packet before.
AnswerInv ==
  /\ \A j \in DOMAIN toSender : ~IsAck(toSender[j]) => toSender[j].seqnum < nread
  /\ \A j \in DOMAIN toSender, p \in sw.buf : Concerns(toSender[j], p) =>
       p \in Genuine /\ \A i \in DOMAIN toReceiver : ~Pending(i, p)
  /\ \A i, j \in DOMAIN toSender, p \in sw.buf :
       i < j /\ Concerns(toSender[j], p) =>
         /\ ~Concerns(toSender[i], p)
         /\ IsAck(toSender[i]) => toSender[i].seqnum <= p.chunk
  /\ \A j \in DOMAIN toSender : IsAck(toSender[j]) =>
       \E p \in sw.buf : Concerns(toSender[j], p)

\* The sequence numbers of the ACKs lie between the windows, in order.
PositionInv ==
  /\ sw.pos <= rw.pos
  /\ rw.pos <= Len(written)
  /\ \A j \in DOMAIN toSender : IsAck(toSender[j]) =>
       sw.pos <= toSender[j].seqnum /\ toSender[j].seqnum <= rw.pos
  /\ \A i, j \in DOMAIN toSender :
       i < j /\ IsAck(toSender[i]) /\ IsAck(toSender[j]) =>
         toSender[i].seqnum <= toSender[j].seqnum

\* What was sent is in the buffer of the sender or with the receiver, and what
\* an ACK is about is with the receiver.
KeepInv ==
  /\ rw.pos <= nread /\ \A q \in rw.buf : q.chunk < nread
  /\ \A c \in Nat : c < nread => (\E p \in sw.buf : p.chunk = c) \/ Held(c)
  /\ \A j \in DOMAIN toSender, p \in sw.buf :
       IsAck(toSender[j]) /\ Concerns(toSender[j], p) => Held(p.chunk)

OrderInv ==
  BufferInv /\ DataInv /\ AnswerInv /\ PositionInv /\ KeepInv

\* The types the proofs below need.
LEMMA OrderTypes ==
  ASSUME AckInv
  PROVE  /\ sw \in Windows /\ sw.buf \subseteq Faithful /\ IsFiniteSet(sw.buf)
         /\ rw \in Windows /\ rw.buf \subseteq Faithful /\ ReceiverWindowOK(rw)
         /\ toReceiver \in Seq(Faithful) /\ toSender \in Seq(Answers)
         /\ sw.pos \in Nat /\ rw.pos \in Nat /\ sw.size \in Nat
         /\ clock \in Nat /\ loop_now \in Nat /\ nread \in Nat /\ faults \in Nat
         /\ Len(written) \in Nat /\ NChunks \in Nat
         /\ \A p \in sw.buf : p.timestamp <= clock
         /\ \A j \in DOMAIN toSender : IsAck(toSender[j]) =>
              toSender[j].timestamp <= clock
<1>1. /\ TypeOK /\ SenderWindowOK(sw, clock) /\ ReceiverWindowOK(rw)
      /\ sw.buf \subseteq Faithful /\ rw.buf \subseteq Faithful
      /\ toReceiver \in Seq(Faithful)
  BY DEF AckInv, DeliveryInv, TypeInv
<1>2. /\ sw \in Windows /\ rw \in Windows /\ toSender \in Seq(Answers)
      /\ nread \in Nat /\ Len(written) \in Nat /\ NChunks \in Nat
      /\ clock \in Nat /\ loop_now \in Nat /\ faults \in Nat
  BY <1>1, PacketAssumption, SenderAssumption, NetworkAssumption DEF TypeOK
<1>3. sw.pos \in Nat /\ rw.pos \in Nat /\ sw.size \in Nat
  BY <1>2, WindowAssumption DEF Windows, SeqNums
<1>4. \A j \in DOMAIN toSender : IsAck(toSender[j]) =>
        toSender[j].timestamp <= clock
  BY DEF AckInv, IsTrue, IsAck, InChannel
<1> QED BY <1>1, <1>2, <1>3, <1>4 DEF SenderWindowOK

\* The fields of the packets.
LEMMA PacketTypes ==
  /\ \A p \in Faithful : /\ p \in DataPackets
                         /\ p.seqnum = p.chunk /\ p.chunk \in 0 .. NChunks
                         /\ p.chunk \in Nat /\ p.timestamp \in Nat
  /\ \A m \in Answers : m.seqnum \in Nat /\ m.timestamp \in Nat /\ m.window \in Nat
BY PacketAssumption, SenderAssumption, WindowAssumption
   DEF Faithful, DataPackets, Answers, SeqNums

-----------------------------------------------------------------------------
(* Steps that only deliver or lose datagrams.                              *)

\* The last transmission of p, or the answer to it, is on its way.
HasToken(p) ==
  \/ \E i \in DOMAIN toReceiver : Pending(i, p)
  \/ \E j \in DOMAIN toSender : Concerns(toSender[j], p)

\* Only packets whose timer has not expired are on their way.
LEMMA TokensAreGenuine ==
  ASSUME OrderInv
  PROVE  \A p \in sw.buf : HasToken(p) => p \in Genuine
BY DEF OrderInv, DataInv, AnswerInv, HasToken

\* The invariant survives what leaves the windows alone: datagrams that
\* disappear from the front of the channels, and timers that expire once
\* nothing is on its way for them.
LEMMA PassingKeepsOrder ==
  ASSUME AckInv, OrderInv, NEW d \in Nat, NEW e \in Nat,
         Carries(toReceiver, toReceiver', d), Shifted(toSender, toSender', e),
         sw' = sw, rw' = rw, nread' = nread, clock' = clock,
         Len(written) <= Len(written'), Len(written') \in Nat,
         loop_now' <= clock, Genuine' \subseteq Genuine,
         \A p \in sw.buf : HasToken(p) => p \in Genuine'
  PROVE  OrderInv'
<1> USE OrderTypes
<1>1. BufferInv'
  BY DEF OrderInv, BufferInv
<1>2. \A p, i : Pending(i, p)' <=> toReceiver'[i].chunk = p.chunk
  BY DEF Pending
<1>3. \A p \in sw.buf, i \in DOMAIN toReceiver' :
        Pending(i, p)' => /\ i \in Nat /\ i + d \in DOMAIN toReceiver
                          /\ Pending(i + d, p)
  BY <1>2 DEF Carries, Pending
<1>4. DataInv'
  <2>1. \A i \in DOMAIN toReceiver' : toReceiver'[i].chunk < nread'
    BY DEF OrderInv, DataInv, Carries
  <2>2. \A i \in DOMAIN toReceiver', p \in sw'.buf : Pending(i, p)' =>
          p \in Genuine' /\ toReceiver'[i].timestamp = p.timestamp
    BY <1>3 DEF OrderInv, DataInv, Carries, HasToken
  <2>3. \A i, j \in DOMAIN toReceiver', p \in sw'.buf :
          Pending(i, p)' /\ Pending(j, p)' => i = j
    <3> SUFFICES ASSUME NEW i \in DOMAIN toReceiver', NEW j \in DOMAIN toReceiver',
                        NEW p \in sw.buf, Pending(i, p)', Pending(j, p)'
                 PROVE  i = j
      OBVIOUS
    <3>1. i + d = j + d
      BY <1>3 DEF OrderInv, DataInv
    <3> QED BY <1>3, <3>1
  <2>4. \A i \in DOMAIN toReceiver' :
          toReceiver'[i].seqnum >= rw'.pos => \E p \in sw'.buf : Pending(i, p)'
    <3> SUFFICES ASSUME NEW i \in DOMAIN toReceiver', toReceiver'[i].seqnum >= rw.pos
                 PROVE  \E p \in sw.buf : Pending(i, p)'
      OBVIOUS
    <3>1. i + d \in DOMAIN toReceiver /\ toReceiver[i + d].seqnum >= rw.pos
      BY DEF Carries
    <3>2. PICK p \in sw.buf : Pending(i + d, p)
      BY <3>1 DEF OrderInv, DataInv
    <3>3. Pending(i, p)'
      BY <1>2, <3>2 DEF Pending, Carries
    <3> QED BY <3>3
  <2> QED BY <2>1, <2>2, <2>3, <2>4 DEF DataInv
<1>5. \A j \in DOMAIN toSender' : /\ j \in Nat /\ j + e \in DOMAIN toSender
                                  /\ toSender'[j] = toSender[j + e]
  BY DEF Shifted
<1>6. AnswerInv'
  <2>1. \A j \in DOMAIN toSender' : ~IsAck(toSender'[j]) => toSender'[j].seqnum < nread'
    BY <1>5 DEF OrderInv, AnswerInv
  <2>2. \A j \in DOMAIN toSender', p \in sw'.buf : Concerns(toSender'[j], p) =>
          p \in Genuine' /\ \A i \in DOMAIN toReceiver' : ~Pending(i, p)'
    BY <1>3, <1>5 DEF OrderInv, AnswerInv, HasToken
  <2>3. \A i, j \in DOMAIN toSender', p \in sw'.buf :
          i < j /\ Concerns(toSender'[j], p) =>
            /\ ~Concerns(toSender'[i], p)
            /\ IsAck(toSender'[i]) => toSender'[i].seqnum <= p.chunk
    <3>1. \A i, j \in DOMAIN toSender' : i < j => i + e < j + e
      BY <1>5
    <3> QED BY <1>5, <3>1 DEF OrderInv, AnswerInv
  <2>4. \A j \in DOMAIN toSender' : IsAck(toSender'[j]) =>
          \E p \in sw'.buf : Concerns(toSender'[j], p)
    BY <1>5 DEF OrderInv, AnswerInv
  <2> QED BY <2>1, <2>2, <2>3, <2>4 DEF AnswerInv
<1>7. PositionInv'
  <2>1. \A i, j \in DOMAIN toSender' : i < j => i + e < j + e
    BY <1>5
  <2>2. rw.pos <= Len(written')
    BY DEF OrderInv, PositionInv
  <2> QED BY <1>5, <2>1, <2>2 DEF OrderInv, PositionInv
<1>8. KeepInv'
  <2>1. \A c : Held(c)' <=> Held(c)
    BY DEF Held
  <2> QED BY <1>5, <2>1 DEF OrderInv, KeepInv
<1> QED BY <1>1, <1>4, <1>6, <1>7, <1>8 DEF OrderInv

-----------------------------------------------------------------------------
(* Steps of the sender.                                                    *)

\* The invariant survives the transmission of a packet x that nothing on its
\* way is about, be it new or in the place of its previous transmission.
LEMMA TransmissionKeepsOrder ==
  ASSUME AckInv, OrderInv, NEW x \in Faithful, NEW rest \in SUBSET sw.buf,
         ~x.tr, x.timestamp = clock + 1, clock' = clock + 1,
         Extended(toReceiver, toReceiver', x),
         sw'.buf = rest \cup {x}, sw'.pos = sw.pos,
         rw' = rw, written' = written, toSender' = toSender,
         loop_now' <= clock', nread' \in Nat, nread <= nread', x.chunk < nread',
         \A c \in Nat : c < nread' => c < nread \/ c = x.chunk,
         \A p \in sw.buf : p \in rest \/ p.chunk = x.chunk,
         \A p \in rest : p.chunk # x.chunk,
         Genuine \subseteq rest, Genuine' = Genuine \cup {x},
         \A i \in DOMAIN toReceiver : toReceiver[i].chunk # x.chunk,
         \A j \in DOMAIN toSender : ~IsAck(toSender[j]) => toSender[j].seqnum # x.seqnum
  PROVE  OrderInv'
<1>t. /\ \A p \in sw.buf : p.timestamp <= clock /\ p.timestamp \in Nat
                            /\ p.chunk \in Nat
      /\ \A q \in rw.buf : q.chunk \in Nat
      /\ \A j \in DOMAIN toSender :
           /\ toSender[j].seqnum \in Nat
           /\ IsAck(toSender[j]) => toSender[j].timestamp # clock + 1
      /\ \A i \in DOMAIN toReceiver : toReceiver[i].chunk \in Nat
      /\ x.seqnum = x.chunk /\ x.chunk \in Nat
      /\ clock \in Nat /\ nread \in Nat /\ rw.pos \in Nat
  <2>1. /\ sw.buf \subseteq Faithful /\ rw.buf \subseteq Faithful
        /\ toReceiver \in Seq(Faithful) /\ toSender \in Seq(Answers)
        /\ \A p \in sw.buf : p.timestamp <= clock
        /\ \A j \in DOMAIN toSender : IsAck(toSender[j]) =>
             toSender[j].timestamp <= clock
        /\ clock \in Nat /\ nread \in Nat /\ rw.pos \in Nat
    BY OrderTypes
  <2>2. \A i \in DOMAIN toReceiver : toReceiver[i] \in Faithful
    BY <2>1
  <2>3. \A j \in DOMAIN toSender : toSender[j] \in Answers
    BY <2>1
  <2>4. \A p \in sw.buf : p.timestamp <= clock /\ p.timestamp \in Nat
                            /\ p.chunk \in Nat
    BY <2>1, PacketTypes
  <2>5. \A j \in DOMAIN toSender :
           /\ toSender[j].seqnum \in Nat
           /\ IsAck(toSender[j]) => toSender[j].timestamp # clock + 1
    BY <2>1, <2>3, PacketTypes
  <2>6. /\ \A i \in DOMAIN toReceiver : toReceiver[i].chunk \in Nat
        /\ \A q \in rw.buf : q.chunk \in Nat
        /\ x.seqnum = x.chunk /\ x.chunk \in Nat
    BY <2>1, <2>2, PacketTypes
  <2> QED BY <2>1, <2>4, <2>5, <2>6
<1>l. PICK new : new = Len(toReceiver) + 1
  OBVIOUS
<1>0. /\ DOMAIN toReceiver' = DOMAIN toReceiver \cup {new}
      /\ new \notin DOMAIN toReceiver
      /\ toReceiver'[new] = x
      /\ \A i \in DOMAIN toReceiver : toReceiver'[i] = toReceiver[i]
  BY <1>l DEF Extended
<1>1. \A i \in DOMAIN toReceiver : \A p : Pending(i, p)' <=> Pending(i, p)
  <2>1. \A i, p : Pending(i, p)' <=> toReceiver'[i].chunk = p.chunk
    BY DEF Pending
  <2>2. \A i, p : Pending(i, p) <=> toReceiver[i].chunk = p.chunk
    BY DEF Pending
  <2> QED BY <1>0, <2>1, <2>2
<1>n. \A p : Pending(new, p)' <=> x.chunk = p.chunk
  BY <1>0 DEF Pending
<1>2. \A i \in DOMAIN toReceiver : ~Pending(i, x)
  BY DEF Pending
<1>3. \A j \in DOMAIN toSender : ~Concerns(toSender[j], x)
  BY <1>t DEF Concerns
<1>4. \A p \in sw.buf : HasToken(p) => p \in rest /\ p \in Genuine
  BY TokensAreGenuine
<1>5. BufferInv'
  <2>1. \A p, q \in sw'.buf : p.chunk = q.chunk => p = q
    BY DEF OrderInv, BufferInv
  <2>2. \A p, q \in Genuine' : p.timestamp = q.timestamp => p = q
    <3>1. \A p \in Genuine : p.timestamp # x.timestamp
      BY <1>t DEF Genuine
    <3> QED BY <3>1 DEF OrderInv, BufferInv
  <2>3. \A p \in sw'.buf : ~p.tr /\ p.chunk < nread'
    BY <1>t DEF OrderInv, BufferInv
  <2> QED BY <2>1, <2>2, <2>3 DEF BufferInv
<1>6. DataInv'
  <2>0. DataInv
    BY DEF OrderInv
  <2>1. \A i \in DOMAIN toReceiver' : toReceiver'[i].chunk < nread'
    <3>1. \A i \in DOMAIN toReceiver : toReceiver[i].chunk < nread'
      BY <1>t, <2>0 DEF DataInv
    <3> QED BY <1>0, <3>1
  <2>2. \A i \in DOMAIN toReceiver', p \in sw'.buf : Pending(i, p)' =>
          p \in Genuine' /\ toReceiver'[i].timestamp = p.timestamp
    <3>1. \A i \in DOMAIN toReceiver, p \in sw'.buf : Pending(i, p)' =>
            p \in Genuine' /\ toReceiver'[i].timestamp = p.timestamp
      BY <1>0, <1>1, <1>2, <2>0 DEF DataInv
    <3>2. \A p \in sw'.buf : Pending(new, p)' => p = x
      BY <1>n
    <3> QED BY <1>0, <3>1, <3>2
  <2>3. \A i, j \in DOMAIN toReceiver', p \in sw'.buf :
          Pending(i, p)' /\ Pending(j, p)' => i = j
    <3> SUFFICES ASSUME NEW i \in DOMAIN toReceiver', NEW j \in DOMAIN toReceiver',
                        NEW p \in sw'.buf, Pending(i, p)', Pending(j, p)'
                 PROVE  i = j
      OBVIOUS
    <3>1. CASE p = x
      BY <1>0, <1>1, <1>2, <3>1
    <3>2. CASE p \in rest
      BY <1>0, <1>1, <1>n, <2>0, <3>2 DEF DataInv
    <3> QED BY <3>1, <3>2
  <2>4. \A i \in DOMAIN toReceiver' :
          toReceiver'[i].seqnum >= rw'.pos => \E p \in sw'.buf : Pending(i, p)'
    <3>1. \A i \in DOMAIN toReceiver :
            toReceiver[i].seqnum >= rw.pos => \E p \in rest : Pending(i, p)
      BY <1>4, <2>0 DEF DataInv, HasToken
    <3>2. Pending(new, x)'
      BY <1>n
    <3> QED BY <1>0, <1>1, <3>1, <3>2
  <2> QED BY <2>1, <2>2, <2>3, <2>4 DEF DataInv
<1>7. AnswerInv'
  <2>0. AnswerInv
    BY DEF OrderInv
  <2>1. \A j \in DOMAIN toSender : ~IsAck(toSender[j]) => toSender[j].seqnum < nread'
    BY <1>t, <2>0 DEF AnswerInv
  <2>2. \A j \in DOMAIN toSender, p \in sw'.buf : Concerns(toSender[j], p) =>
          p \in Genuine' /\ \A i \in DOMAIN toReceiver' : ~Pending(i, p)'
    <3> SUFFICES ASSUME NEW j \in DOMAIN toSender, NEW p \in rest,
                        Concerns(toSender[j], p)
                 PROVE  p \in Genuine' /\ \A i \in DOMAIN toReceiver' : ~Pending(i, p)'
      BY <1>3
    <3> QED BY <1>0, <1>1, <1>n, <2>0 DEF AnswerInv
  <2>3. \A i, j \in DOMAIN toSender, p \in sw'.buf :
          i < j /\ Concerns(toSender[j], p) =>
            /\ ~Concerns(toSender[i], p)
            /\ IsAck(toSender[i]) => toSender[i].seqnum <= p.chunk
    BY <1>3, <2>0 DEF AnswerInv
  <2>4. \A j \in DOMAIN toSender : IsAck(toSender[j]) =>
          \E p \in sw'.buf : Concerns(toSender[j], p)
    BY <1>4, <2>0 DEF AnswerInv, HasToken
  <2> QED BY <2>1, <2>2, <2>3, <2>4 DEF AnswerInv
<1>8. PositionInv'
  BY DEF OrderInv, PositionInv
<1>9. KeepInv'
  <2>0. KeepInv
    BY DEF OrderInv
  <2>1. \A c : Held(c)' <=> Held(c)
    BY DEF Held
  <2>2. rw'.pos <= nread' /\ \A q \in rw'.buf : q.chunk < nread'
    BY <1>t, <2>0 DEF KeepInv
  <2>3. \A c \in Nat : c < nread' => (\E p \in sw'.buf : p.chunk = c) \/ Held(c)'
    BY <2>0, <2>1 DEF KeepInv
  <2>4. \A j \in DOMAIN toSender, p \in sw'.buf :
          IsAck(toSender[j]) /\ Concerns(toSender[j], p) => Held(p.chunk)'
    BY <1>3, <2>0, <2>1 DEF KeepInv
  <2> QED BY <2>2, <2>3, <2>4 DEF KeepInv
<1> QED BY <1>5, <1>6, <1>7, <1>8, <1>9 DEF OrderInv

\* handle_ack pops the packets below the sequence number of the ACK and the
\* one with its timestamp, and no other: the ACK is always about a packet of
\* the buffer, so the front of the list is not popped in its place.
LEMMA AckPops ==
  ASSUME AckInv, OrderInv, Genuine = sw.buf, NEW j \in DOMAIN toSender,
         NEW m, m = toSender[j], IsAck(m)
  PROVE  LET w == ResizedTo(handle_ack(sw, m), m.window)
         IN  /\ w.buf = {p \in sw.buf : p.chunk >= m.seqnum /\ ~Concerns(m, p)}
             /\ w.pos = m.seqnum
             /\ w.size = m.window
<1>1. sw \in Windows /\ m \in Answers
  BY OrderTypes
<1>2. \A p \in sw.buf : /\ p.seqnum = p.chunk /\ p.chunk \in Nat
                        /\ Concerns(m, p) <=> m.timestamp = p.timestamp
  BY OrderTypes, PacketTypes DEF Concerns
<1>3. m.seqnum \in Nat
  BY <1>1, PacketTypes
<1>4. PICK p \in sw.buf : p.timestamp = m.timestamp
  BY <1>2 DEF OrderInv, AnswerInv
<1>5. \A q \in sw.buf : q.timestamp = m.timestamp => q = p
  BY <1>4 DEF OrderInv, BufferInv
<1> DEFINE popped == CumulativelyAcked(sw, m)
           slid == window_slide_to([sw EXCEPT !.buf = @ \ popped], m.seqnum)
           kept == {q \in sw.buf : q.chunk >= m.seqnum /\ ~Concerns(m, q)}
<1>6. slid \in Windows /\ slid.buf = sw.buf \ popped /\ slid.pos = m.seqnum
  BY <1>1 DEF window_slide_to, Windows, Answers
<1>7. popped = {q \in sw.buf : q.chunk < m.seqnum}
  BY <1>2 DEF CumulativelyAcked
<1> HIDE DEF slid
<1>8. handle_ack(sw, m).buf = kept /\ handle_ack(sw, m).pos = m.seqnum
      /\ handle_ack(sw, m) \in Windows
  <2>1. CASE p \in popped
    <3>1. handle_ack(sw, m) = slid
      BY <1>4, <2>1 DEF handle_ack, slid
    <3>2. sw.buf \ popped = kept
      BY <1>2, <1>3, <1>4, <1>5, <1>7, <2>1
    <3> QED BY <1>6, <3>1, <3>2
  <2>2. CASE p \notin popped
    <3>1. handle_ack(sw, m) =
            [slid EXCEPT !.buf = @ \ window_pop_timestamp(slid, m.timestamp)]
      BY <1>5, <1>7, <2>2 DEF handle_ack, slid
    <3>2. {q \in slid.buf : q.timestamp = m.timestamp} = {p}
      BY <1>4, <1>5, <1>6, <2>2
    <3>3. window_front({p}) = {p}
      BY <1>2 DEF window_front
    <3>4. window_pop_timestamp(slid, m.timestamp) = {p}
      BY <3>2, <3>3 DEF window_pop_timestamp
    <3>5. (sw.buf \ popped) \ {p} = kept
      BY <1>2, <1>3, <1>4, <1>5, <1>7
    <3>6. handle_ack(sw, m) = [slid EXCEPT !.buf = kept]
      BY <1>6, <3>1, <3>4, <3>5
    <3> QED BY <1>1, <1>6, <3>6 DEF Windows
  <2> QED BY <2>1, <2>2
<1>9. ASSUME NEW v \in Windows
      PROVE  LET w == ResizedTo(v, m.window)
             IN w.buf = v.buf /\ w.pos = v.pos /\ w.size = m.window
  BY <1>1, WindowAssumption DEF ResizedTo, window_resize, Windows, Answers
<1> QED BY <1>8, <1>9

\* The invariant survives an ACK: the ACKs behind it are about other packets
\* and not below it.
LEMMA AckKeepsOrder ==
  ASSUME AckInv, OrderInv, 1 \in DOMAIN toSender, NEW m, m = toSender[1], IsAck(m),
         Shifted(toSender, toSender', 1), toReceiver' = toReceiver,
         sw'.buf = {p \in sw.buf : p.chunk >= m.seqnum /\ ~Concerns(m, p)},
         sw'.pos = m.seqnum, rw' = rw, written' = written, nread' = nread,
         clock' = clock, loop_now' <= clock, Genuine' \subseteq Genuine,
         \A p \in sw'.buf : HasToken(p) => p \in Genuine'
  PROVE  OrderInv'
<1>t. /\ \A p \in sw.buf : p.chunk \in Nat
      /\ \A i \in DOMAIN toReceiver : /\ toReceiver[i].seqnum \in Nat
                                      /\ toReceiver[i].seqnum = toReceiver[i].chunk
      /\ m.seqnum \in Nat /\ rw.pos \in Nat
  <2>1. \A i \in DOMAIN toReceiver : toReceiver[i] \in Faithful
    BY OrderTypes
  <2>2. m \in Answers
    BY OrderTypes
  <2> QED BY <2>1, <2>2, OrderTypes, PacketTypes
<1>1. \A p, i : Pending(i, p)' <=> Pending(i, p)
  BY DEF Pending
<1>2. \A j \in DOMAIN toSender' : /\ j \in Nat \ {0} /\ j + 1 \in DOMAIN toSender
                                  /\ toSender'[j] = toSender[j + 1]
                                  /\ 1 < j + 1
  BY DEF Shifted
<1>3. \A i, j \in DOMAIN toSender' : i < j => i + 1 < j + 1
  BY <1>2
<1>4. m.seqnum <= rw.pos
  BY DEF OrderInv, PositionInv
<1>5. BufferInv'
  BY DEF OrderInv, BufferInv
<1>6. DataInv'
  <2>1. \A i \in DOMAIN toReceiver :
          toReceiver[i].seqnum >= rw.pos => \E p \in sw'.buf : Pending(i, p)
    <3> SUFFICES ASSUME NEW i \in DOMAIN toReceiver, toReceiver[i].seqnum >= rw.pos
                 PROVE  \E p \in sw'.buf : Pending(i, p)
      OBVIOUS
    <3>1. PICK p \in sw.buf : Pending(i, p)
      BY DEF OrderInv, DataInv
    <3>2. p.chunk >= m.seqnum
      BY <1>t, <1>4, <3>1 DEF Pending
    <3>3. ~Concerns(m, p)
      BY <3>1 DEF OrderInv, AnswerInv
    <3> QED BY <3>1, <3>2, <3>3
  <2>2. \A i \in DOMAIN toReceiver, p \in sw'.buf : Pending(i, p) =>
          p \in Genuine' /\ toReceiver[i].timestamp = p.timestamp
    BY DEF OrderInv, DataInv, HasToken
  <2> QED BY <1>1, <2>1, <2>2 DEF OrderInv, DataInv
<1>7. AnswerInv'
  <2>0. AnswerInv
    BY DEF OrderInv
  <2>1. \A j \in DOMAIN toSender' : ~IsAck(toSender'[j]) => toSender'[j].seqnum < nread'
    BY <1>2, <2>0 DEF AnswerInv
  <2>2. \A j \in DOMAIN toSender', p \in sw'.buf : Concerns(toSender'[j], p) =>
          p \in Genuine' /\ \A i \in DOMAIN toReceiver' : ~Pending(i, p)'
    BY <1>1, <1>2, <2>0 DEF AnswerInv, HasToken
  <2>3. \A i, j \in DOMAIN toSender', p \in sw'.buf :
          i < j /\ Concerns(toSender'[j], p) =>
            /\ ~Concerns(toSender'[i], p)
            /\ IsAck(toSender'[i]) => toSender'[i].seqnum <= p.chunk
    BY <1>2, <1>3, <2>0 DEF AnswerInv
  <2>4. \A j \in DOMAIN toSender' : IsAck(toSender'[j]) =>
          \E p \in sw'.buf : Concerns(toSender'[j], p)
    <3> SUFFICES ASSUME NEW j \in DOMAIN toSender', IsAck(toSender'[j])
                 PROVE  \E p \in sw'.buf : Concerns(toSender'[j], p)
      OBVIOUS
    <3>1. PICK p \in sw.buf : Concerns(toSender[j + 1], p)
      BY <1>2, <2>0 DEF AnswerInv
    <3>2. ~Concerns(m, p) /\ m.seqnum <= p.chunk
      BY <1>2, <2>0, <3>1 DEF AnswerInv
    <3>3. p \in sw'.buf
      BY <1>t, <3>2
    <3> QED BY <1>2, <3>1, <3>3
  <2> QED BY <2>1, <2>2, <2>3, <2>4 DEF AnswerInv
<1>8. PositionInv'
  <2>0. PositionInv
    BY DEF OrderInv
  <2>1. \A j \in DOMAIN toSender' : IsAck(toSender'[j]) =>
          m.seqnum <= toSender'[j].seqnum /\ toSender'[j].seqnum <= rw.pos
    BY <1>2, <2>0 DEF PositionInv
  <2>2. \A i, j \in DOMAIN toSender' :
          i < j /\ IsAck(toSender'[i]) /\ IsAck(toSender'[j]) =>
            toSender'[i].seqnum <= toSender'[j].seqnum
    BY <1>2, <1>3, <2>0 DEF PositionInv
  <2> QED BY <1>4, <2>0, <2>1, <2>2 DEF PositionInv
<1>9. KeepInv'
  <2>0. KeepInv
    BY DEF OrderInv
  <2>1. \A c : Held(c)' <=> Held(c)
    BY DEF Held
  <2>2. \A p \in sw.buf : p \in sw'.buf \/ Held(p.chunk)
    <3> SUFFICES ASSUME NEW p \in sw.buf, ~(p.chunk >= m.seqnum /\ ~Concerns(m, p))
                 PROVE  Held(p.chunk)
      OBVIOUS
    <3>1. CASE Concerns(m, p)
      BY <2>0, <3>1 DEF KeepInv
    <3>2. CASE ~(p.chunk >= m.seqnum)
      BY <1>t, <1>4, <3>2 DEF Held
    <3> QED BY <3>1, <3>2
  <2>3. \A c \in Nat : c < nread => (\E p \in sw'.buf : p.chunk = c) \/ Held(c)
    BY <2>0, <2>2 DEF KeepInv
  <2>4. \A j \in DOMAIN toSender', p \in sw'.buf :
          IsAck(toSender'[j]) /\ Concerns(toSender'[j], p) => Held(p.chunk)
    BY <1>2, <2>0 DEF KeepInv
  <2> QED BY <2>0, <2>1, <2>3, <2>4 DEF KeepInv
<1> QED BY <1>5, <1>6, <1>7, <1>8, <1>9 DEF OrderInv

\* The window v is the window w with the timers of packets that the answer m
\* is about set to the present.
Restamps(w, v, m, now) ==
  /\ v.pos = w.pos
  /\ v.size = m.window
  /\ \E f \in [w.buf -> Faithful] :
       /\ v.buf = {f[p] : p \in w.buf}
       /\ \A p \in w.buf : /\ f[p].chunk = p.chunk
                           /\ f[p].tr = p.tr
                           /\ \/ f[p] = p
                              \/ Concerns(m, p) /\ f[p].timestamp = now

\* That is all a NACK does.
LEMMA NackRestamps ==
  ASSUME NEW w \in Windows, w.buf \subseteq Faithful, NEW m \in Answers, ~IsAck(m),
         NEW now \in 0 .. MaxStamp
  PROVE  Restamps(w, ResizedTo(handle_nack(w, m, now), m.window), m, now)
<1> DEFINE restamped(p) == IF p \in window_find_seqnum(w, m.seqnum)
                           THEN [p EXCEPT !.timestamp = now] ELSE p
           g == [p \in w.buf |-> restamped(p)]
           id == [p \in w.buf |-> p]
<1>1. \A p \in w.buf : /\ restamped(p) \in Faithful
                       /\ restamped(p).chunk = p.chunk /\ restamped(p).tr = p.tr
                       /\ \/ restamped(p) = p
                          \/ p.seqnum = m.seqnum /\ restamped(p).timestamp = now
  BY SenderAssumption DEF Faithful, DataPackets, window_find_seqnum
<1>2. \A p : Concerns(m, p) <=> p.seqnum = m.seqnum
  BY DEF Concerns
<1>3. CASE ~window_has(w, m.seqnum)
  <2>1. handle_nack(w, m, now) = w
    BY <1>3 DEF handle_nack
  <2>2. id \in [w.buf -> Faithful] /\ w.buf = {id[p] : p \in w.buf}
    OBVIOUS
  <2>3. LET v == ResizedTo(w, m.window)
        IN v.buf = w.buf /\ v.pos = w.pos /\ v.size = m.window
    BY WindowAssumption DEF ResizedTo, window_resize, Windows, Answers
  <2> QED BY <2>1, <2>2, <2>3 DEF Restamps
<1>4. CASE window_has(w, m.seqnum)
  <2>1. handle_nack(w, m, now) = [w EXCEPT !.buf = {restamped(p) : p \in w.buf}]
    BY <1>4 DEF handle_nack
  <2>2. g \in [w.buf -> Faithful] /\ \A p \in w.buf : g[p] = restamped(p)
    BY <1>1
  <2> HIDE DEF restamped, g
  <2>3. {restamped(p) : p \in w.buf} = {g[p] : p \in w.buf}
    BY <2>2
  <2>4. LET v == ResizedTo([w EXCEPT !.buf = {g[p] : p \in w.buf}], m.window)
        IN v.buf = {g[p] : p \in w.buf} /\ v.pos = w.pos /\ v.size = m.window
    BY WindowAssumption DEF ResizedTo, window_resize, Windows, Answers
  <2> QED BY <1>1, <1>2, <2>1, <2>2, <2>3, <2>4 DEF Restamps
<1> QED BY <1>3, <1>4

\* The invariant survives a NACK: nothing else on its way is about the packet
\* that gets an expired timer.
LEMMA NackKeepsOrder ==
  ASSUME AckInv, OrderInv, 1 \in DOMAIN toSender, NEW m, m = toSender[1], ~IsAck(m),
         Shifted(toSender, toSender', 1), toReceiver' = toReceiver,
         NEW f, sw'.buf = {f[p] : p \in sw.buf},
         \A p \in sw.buf : /\ f[p] \in Faithful
                           /\ f[p].chunk = p.chunk /\ f[p].tr = p.tr
                           /\ \/ f[p] = p
                              \/ Concerns(m, p) /\ f[p].timestamp = loop_now',
         sw'.pos = sw.pos, rw' = rw, written' = written, nread' = nread,
         clock' = clock, loop_now' \in Nat, loop_now' <= clock,
         Genuine = sw.buf,
         \A p \in sw.buf : HasToken(p) => p.timestamp > loop_now'
  PROVE  OrderInv'
<1>1. \A p, i : Pending(i, p)' <=> Pending(i, p)
  BY DEF Pending
<1>2. \A j \in DOMAIN toSender' : /\ j \in Nat \ {0} /\ j + 1 \in DOMAIN toSender
                                  /\ toSender'[j] = toSender[j + 1]
                                  /\ 1 < j + 1
  BY DEF Shifted
<1>3. \A i, j \in DOMAIN toSender' : i < j => i + 1 < j + 1
  BY <1>2
<1>4. \A p \in sw.buf : p.seqnum = p.chunk /\ f[p].seqnum = f[p].chunk
  BY OrderTypes, PacketTypes
<1>g. \A q : q \in Genuine' <=> q \in sw'.buf /\ q.timestamp > loop_now'
  BY DEF Genuine
<1>c. \A p \in sw.buf : f[p] = p \/ (Concerns(m, p) /\ f[p] \notin Genuine')
  BY <1>g
<1>a. \A j \in DOMAIN toSender : IsAck(toSender[j]) =>
        toSender[j].timestamp # loop_now'
  <2> SUFFICES ASSUME NEW j \in DOMAIN toSender, IsAck(toSender[j])
               PROVE  toSender[j].timestamp # loop_now'
    OBVIOUS
  <2>1. PICK p \in sw.buf : Concerns(toSender[j], p)
    BY DEF OrderInv, AnswerInv
  <2>2. p.timestamp > loop_now' /\ toSender[j].timestamp = p.timestamp
    BY <2>1 DEF HasToken, Concerns
  <2> QED BY <2>2
<1>p. \A p \in sw.buf, i \in DOMAIN toReceiver : Pending(i, f[p]) <=> Pending(i, p)
  BY DEF Pending
<1>q. \A p \in sw.buf, j \in DOMAIN toSender : j # 1 /\ Concerns(toSender[j], f[p]) =>
        Concerns(toSender[j], p) /\ f[p] = p
  <2> SUFFICES ASSUME NEW p \in sw.buf, NEW j \in DOMAIN toSender, j # 1,
                      Concerns(toSender[j], f[p])
               PROVE  f[p] = p
    OBVIOUS
  <2> SUFFICES ASSUME f[p] # p PROVE FALSE
    OBVIOUS
  <2>1. f[p].timestamp = loop_now' /\ Concerns(m, p)
    OBVIOUS
  <2>2. CASE IsAck(toSender[j])
    BY <1>a, <2>1, <2>2 DEF Concerns
  <2>3. CASE ~IsAck(toSender[j])
    <3>1. Concerns(toSender[j], p)
      BY <1>4, <2>3 DEF Concerns
    <3>2. j \in Nat \ {0} /\ 1 < j
      BY OrderTypes
    <3> QED BY <2>1, <3>1, <3>2 DEF OrderInv, AnswerInv
  <2> QED BY <2>2, <2>3
<1>t. \A p \in sw.buf : HasToken(p) /\ ~Concerns(m, p) => f[p] = p /\ p \in Genuine'
  BY <1>g
<1>s. \A p \in sw.buf, j \in DOMAIN toSender : j # 1 /\ Concerns(toSender[j], p) =>
        f[p] = p /\ p \in Genuine'
  <2> SUFFICES ASSUME NEW p \in sw.buf, NEW j \in DOMAIN toSender, j # 1,
                      Concerns(toSender[j], p)
               PROVE  f[p] = p /\ p \in Genuine'
    OBVIOUS
  <2>1. j \in Nat \ {0} /\ 1 < j
    BY OrderTypes
  <2>2. ~Concerns(m, p)
    BY <2>1 DEF OrderInv, AnswerInv
  <2>3. HasToken(p)
    BY DEF HasToken
  <2> QED BY <1>t, <2>2, <2>3
<1>5. BufferInv'
  <2>0. BufferInv
    BY DEF OrderInv
  <2>1. \A p \in sw'.buf : ~p.tr /\ p.chunk < nread'
    BY <2>0 DEF BufferInv
  <2>2. \A p, q \in sw'.buf : p.chunk = q.chunk => p = q
    BY <2>0 DEF BufferInv
  <2>3. \A p, q \in Genuine' : p.timestamp = q.timestamp => p = q
    <3>1. Genuine' \subseteq Genuine
      BY <1>c, <1>g
    <3> QED BY <2>0, <3>1 DEF BufferInv
  <2> QED BY <2>1, <2>2, <2>3 DEF BufferInv
<1>6. DataInv'
  <2>0. DataInv
    BY DEF OrderInv
  <2>1. \A i \in DOMAIN toReceiver, p \in sw'.buf : Pending(i, p) =>
          p \in Genuine' /\ toReceiver[i].timestamp = p.timestamp
    <3> SUFFICES ASSUME NEW i \in DOMAIN toReceiver, NEW p \in sw.buf, Pending(i, p)
                 PROVE  f[p] \in Genuine' /\ toReceiver[i].timestamp = f[p].timestamp
      BY <1>p
    <3>1. ~Concerns(m, p) /\ HasToken(p)
      BY DEF OrderInv, AnswerInv, HasToken
    <3> QED BY <1>t, <2>0, <3>1 DEF DataInv
  <2>2. \A i, j \in DOMAIN toReceiver, p \in sw'.buf :
          Pending(i, p) /\ Pending(j, p) => i = j
    BY <1>p, <2>0 DEF DataInv
  <2>3. \A i \in DOMAIN toReceiver :
          toReceiver[i].seqnum >= rw.pos => \E p \in sw'.buf : Pending(i, p)
    BY <1>p, <2>0 DEF DataInv
  <2> QED BY <1>1, <2>0, <2>1, <2>2, <2>3 DEF DataInv
<1>7. AnswerInv'
  <2>0. AnswerInv
    BY DEF OrderInv
  <2>1. \A j \in DOMAIN toSender' : ~IsAck(toSender'[j]) => toSender'[j].seqnum < nread'
    BY <1>2, <2>0 DEF AnswerInv
  <2>q. \A j \in DOMAIN toSender', p \in sw'.buf : Concerns(toSender'[j], p) =>
          p \in sw.buf /\ p \in Genuine' /\ Concerns(toSender[j + 1], p)
    <3>1. \A j \in DOMAIN toSender' : j + 1 # 1
      BY <1>2
    <3> QED BY <1>2, <1>q, <1>s, <3>1
  <2>2. \A j \in DOMAIN toSender', p \in sw'.buf : Concerns(toSender'[j], p) =>
          p \in Genuine' /\ \A i \in DOMAIN toReceiver' : ~Pending(i, p)'
    BY <1>1, <1>2, <2>0, <2>q DEF AnswerInv
  <2>3. \A i, j \in DOMAIN toSender', p \in sw'.buf :
          i < j /\ Concerns(toSender'[j], p) =>
            /\ ~Concerns(toSender'[i], p)
            /\ IsAck(toSender'[i]) => toSender'[i].seqnum <= p.chunk
    BY <1>2, <1>3, <2>0, <2>q DEF AnswerInv
  <2>4. \A j \in DOMAIN toSender' : IsAck(toSender'[j]) =>
          \E p \in sw'.buf : Concerns(toSender'[j], p)
    <3> SUFFICES ASSUME NEW j \in DOMAIN toSender', IsAck(toSender'[j])
                 PROVE  \E p \in sw'.buf : Concerns(toSender'[j], p)
      OBVIOUS
    <3>1. PICK p \in sw.buf : Concerns(toSender[j + 1], p)
      BY <1>2, <2>0 DEF AnswerInv
    <3>2. f[p] = p
      BY <1>2, <1>s, <3>1
    <3> QED BY <1>2, <3>1, <3>2
  <2> QED BY <2>1, <2>2, <2>3, <2>4 DEF AnswerInv
<1>8. PositionInv'
  BY <1>2, <1>3 DEF OrderInv, PositionInv
<1>9. KeepInv'
  <2>0. KeepInv
    BY DEF OrderInv
  <2>1. \A c : Held(c)' <=> Held(c)
    BY DEF Held
  <2>2. \A c \in Nat : c < nread => (\E p \in sw'.buf : p.chunk = c) \/ Held(c)
    BY <2>0 DEF KeepInv
  <2>3. \A j \in DOMAIN toSender', p \in sw'.buf :
          IsAck(toSender'[j]) /\ Concerns(toSender'[j], p) => Held(p.chunk)
    <3>1. \A j \in DOMAIN toSender' : j + 1 # 1
      BY <1>2
    <3> QED BY <1>2, <1>q, <2>0, <3>1 DEF KeepInv
  <2> QED BY <2>0, <2>1, <2>2, <2>3 DEF KeepInv
<1> QED BY <1>5, <1>6, <1>7, <1>8, <1>9 DEF OrderInv

\* The answers come in time: a packet whose timer has expired when select
\* returns is not on its way, nor is an answer to it.
LEMMA AnswersInTime ==
  ASSUME Orderly, AckInv, OrderInv, NEW now \in Nat, InTime(sw, now)
  PROVE  \A p \in sw.buf : HasToken(p) => p.timestamp > now
<1> SUFFICES ASSUME NEW p \in sw.buf, HasToken(p) PROVE ~(p.timestamp <= now)
  BY OrderTypes, PacketTypes
<1>1. InFlight(p)
  BY DEF HasToken, InFlight, OrderInv, DataInv, Concerns, IsAck
<1> QED BY <1>1 DEF InTime, Due, Orderly

\* The readings of the clock.
LEMMA ReadingsTypes ==
  ASSUME AckInv, NEW now \in Readings(sw)
  PROVE  now \in 0 .. MaxStamp /\ now \in Nat /\ now <= clock
<1>1. sw.buf \subseteq DataPackets /\ \A p \in sw.buf : p.timestamp <= clock
  BY OrderTypes DEF Faithful
<1> QED BY <1>1, OrderTypes, SenderAssumption DEF Readings, DataPackets

\* What is transmitted is a packet that nothing on its way is about.
LEMMA RetransmissionKeepsOrder ==
  ASSUME AckInv, OrderInv, RetransmitOne, UNCHANGED receiverVars
  PROVE  OrderInv'
<1>1. PICK p \in sw.buf : p \in Due(sw, loop_now)
                          /\ Transmit(p, [sw EXCEPT !.buf = @ \ {p}])
  BY DEF RetransmitOne, window_peek_min_timestamp
<1>2. /\ p \in Faithful /\ p.timestamp \in Nat /\ loop_now \in Nat
      /\ sw \in Windows /\ clock \in Nat /\ nread \in Nat
      /\ p.chunk \in Nat
  BY OrderTypes, PacketTypes
<1>3. p \notin Genuine /\ ~HasToken(p)
  BY <1>1, <1>2, TokensAreGenuine DEF Due, Genuine
<1> DEFINE rest == sw.buf \ {p}
<1>x. PICK x : x = [p EXCEPT !.timestamp = clock + 1]
  OBVIOUS
<1>4. /\ clock < MaxStamp /\ clock' = clock + 1
      /\ toReceiver' = Append(toReceiver, x)
      /\ sw' = window_push([sw EXCEPT !.buf = @ \ {p}], x)
  BY <1>1, <1>x DEF Transmit
<1>5. /\ x \in Faithful /\ x.timestamp = clock + 1
      /\ x.chunk = p.chunk /\ x.tr = p.tr /\ x.seqnum = p.seqnum
  BY <1>2, <1>4, <1>x, SenderAssumption DEF Faithful, DataPackets
<1>6. sw'.buf = rest \cup {x} /\ sw'.pos = sw.pos
  BY <1>2, <1>4 DEF window_push, Windows
<1>7. Extended(toReceiver, toReceiver', x)
  BY <1>4, OrderTypes, LastIn
<1>8. /\ \A i \in DOMAIN toReceiver : toReceiver[i].chunk # x.chunk
      /\ \A j \in DOMAIN toSender : ~IsAck(toSender[j]) => toSender[j].seqnum # x.seqnum
  BY <1>3, <1>5 DEF HasToken, Pending, Concerns
<1>9. /\ toSender' = toSender /\ nread' = nread /\ loop_now' = loop_now
      /\ rw' = rw /\ written' = written
  BY DEF RetransmitOne, receiverVars
<1>10. loop_now <= clock /\ ~p.tr /\ p.chunk < nread
       /\ \A q \in rest : q.chunk # x.chunk
  BY <1>5 DEF OrderInv, BufferInv
<1>11. Genuine \subseteq rest
  BY <1>3 DEF Genuine
<1>12. Genuine' = Genuine \cup {x}
  <2>1. \A q : q \in Genuine' <=> (q \in rest \/ q = x) /\ q.timestamp > loop_now
    BY <1>6, <1>9 DEF Genuine
  <2>2. x.timestamp > loop_now
    BY <1>2, <1>5, <1>10
  <2>3. \A q : q \in Genuine <=> q \in rest /\ q.timestamp > loop_now
    BY <1>11 DEF Genuine
  <2> QED BY <2>1, <2>2, <2>3
<1>13. loop_now' <= clock' /\ nread <= nread' /\ x.chunk < nread' /\ nread' \in Nat
       /\ \A c \in Nat : c < nread' => c < nread \/ c = x.chunk
  BY <1>2, <1>4, <1>5, <1>9, <1>10
<1>14. \A q \in sw.buf : q \in rest \/ q.chunk = x.chunk
  BY <1>5
<1> HIDE DEF rest
<1>15. rest \in SUBSET sw.buf
  BY DEF rest
<1> QED BY <1>4, <1>5, <1>6, <1>7, <1>8, <1>9, <1>10, <1>11, <1>12, <1>13,
           <1>14, <1>15, TransmissionKeepsOrder

\* The chunk that is read next is neither in the buffer nor on its way.
LEMMA SendNextKeepsOrder ==
  ASSUME AckInv, OrderInv, SendNext, UNCHANGED receiverVars
  PROVE  OrderInv'
<1>1. /\ next = nread /\ nread \in 0 .. NChunks /\ Transmit(Data(next, 0, nread), sw)
      /\ sw.buf = Genuine /\ loop_now' = 0 /\ nread' = nread + 1
      /\ toSender' = toSender /\ rw' = rw /\ written' = written
  <2>1. ~sent_eof /\ Transmit(Data(next, 0, nread), sw) /\ Due(sw, loop_now) = {}
        /\ loop_now' = 0 /\ nread' = nread + 1 /\ toSender' = toSender
    BY DEF SendNext, MayFill
  <2>2. next = nread /\ nread \in 0 .. NChunks
    BY <2>1, PacketAssumption DEF AckInv, DeliveryInv, TypeInv, TypeOK
  <2>3. \A p \in sw.buf : p.timestamp > loop_now
    BY <2>1, OrderTypes, PacketTypes DEF Due
  <2> QED BY <2>1, <2>2, <2>3 DEF Genuine, receiverVars
<1>x. PICK x : x = [Data(next, 0, nread) EXCEPT !.timestamp = clock + 1]
  OBVIOUS
<1>2. /\ clock < MaxStamp /\ clock' = clock + 1
      /\ toReceiver' = Append(toReceiver, x) /\ sw' = window_push(sw, x)
  BY <1>1, <1>x DEF Transmit
<1>3. /\ x \in Faithful /\ x.timestamp = clock + 1 /\ ~x.tr
      /\ x.chunk = nread /\ x.seqnum = nread
  <2>1. clock + 1 \in 0 .. MaxStamp /\ nread \in SeqNums
    BY <1>1, <1>2, OrderTypes, SenderAssumption
       DEF AckInv, DeliveryInv, TypeInv, TypeOK
  <2> QED BY <1>1, <1>x, <2>1 DEF Data, Faithful, DataPackets
<1>4. sw'.buf = sw.buf \cup {x} /\ sw'.pos = sw.pos
  BY <1>2, OrderTypes DEF window_push, Windows
<1>5. Extended(toReceiver, toReceiver', x)
  BY <1>2, OrderTypes, LastIn
<1>6. /\ \A i \in DOMAIN toReceiver : toReceiver[i].chunk # x.chunk
      /\ \A j \in DOMAIN toSender : ~IsAck(toSender[j]) => toSender[j].seqnum # x.seqnum
      /\ \A q \in sw.buf : q.chunk # x.chunk
  <2>1. /\ \A i \in DOMAIN toReceiver : toReceiver[i].chunk < nread
        /\ \A j \in DOMAIN toSender : ~IsAck(toSender[j]) => toSender[j].seqnum < nread
        /\ \A q \in sw.buf : q.chunk < nread
    BY DEF OrderInv, DataInv, AnswerInv, BufferInv
  <2>2. nread \in Nat
    BY OrderTypes
  <2> QED BY <1>3, <2>1, <2>2
<1>7. clock \in Nat /\ nread \in Nat
      /\ \A p \in sw.buf : p.timestamp \in Nat /\ p.timestamp > loop_now
  BY <1>1, OrderTypes, PacketTypes DEF Genuine
<1>8. Genuine' = Genuine \cup {x}
  <2>1. \A q : q \in Genuine' <=> (q \in sw.buf \/ q = x) /\ q.timestamp > 0
    BY <1>1, <1>4 DEF Genuine
  <2>2. \A q \in sw.buf \cup {x} : q.timestamp > 0
    <3>1. loop_now \in Nat
      BY OrderTypes
    <3> QED BY <1>3, <1>7, <3>1
  <2> QED BY <1>1, <2>1, <2>2
<1>9. loop_now' <= clock' /\ nread <= nread' /\ x.chunk < nread' /\ nread' \in Nat
       /\ \A c \in Nat : c < nread' => c < nread \/ c = x.chunk
  BY <1>1, <1>2, <1>3, <1>7
<1>10. sw.buf \in SUBSET sw.buf /\ Genuine \subseteq sw.buf
       /\ \A q \in sw.buf : q \in sw.buf \/ q.chunk = x.chunk
  BY <1>1
<1> QED BY <1>1, <1>2, <1>3, <1>4, <1>5, <1>6, <1>8, <1>9, <1>10,
           TransmissionKeepsOrder

\* An answer that select returns is the first on its way, and in time.
LEMMA AnswerArrives ==
  ASSUME Orderly, AckInv, OrderInv, SelectAnswer
  PROVE  \E m \in Answers :
           /\ 1 \in DOMAIN toSender /\ m = toSender[1]
           /\ Shifted(toSender, toSender', 1)
           /\ sw' = ResizedTo(handle_answer(sw, m, loop_now'), m.window)
           /\ loop_now' \in 0 .. MaxStamp /\ loop_now' \in Nat /\ loop_now' <= clock
           /\ Genuine = sw.buf
           /\ \A p \in sw.buf : HasToken(p) => p.timestamp > loop_now'
           /\ toReceiver' = toReceiver /\ nread' = nread /\ clock' = clock
<1>1. PICK i \in Deliverable(toSender), now \in Readings(sw) :
        /\ toSender' = RemoveAt(toSender, i)
        /\ sw' = ResizedTo(handle_answer(sw, toSender[i], now), toSender[i].window)
        /\ InTime(sw, now)
        /\ loop_now' = now
  BY DEF SelectAnswer
<1>2. i = 1 /\ 1 \in DOMAIN toSender /\ Shifted(toSender, toSender', 1)
  BY <1>1, OrderTypes, FirstOut
<1>3. toSender[1] \in Answers
  BY <1>2, OrderTypes
<1>4. now \in 0 .. MaxStamp /\ now \in Nat /\ now <= clock
  BY ReadingsTypes
<1>5. \A p \in sw.buf : HasToken(p) => p.timestamp > now
  BY <1>1, <1>4, AnswersInTime
<1>6. Genuine = sw.buf
  BY DEF SelectAnswer, AckInv, StampInv
<1>7. toReceiver' = toReceiver /\ nread' = nread /\ clock' = clock
  BY DEF SelectAnswer
<1> QED BY <1>1, <1>2, <1>3, <1>4, <1>5, <1>6, <1>7

\* The sender handles an answer.
LEMMA AnswerKeepsOrder ==
  ASSUME Orderly, AckInv, OrderInv, SelectAnswer, UNCHANGED receiverVars
  PROVE  OrderInv'
<1>1. PICK m \in Answers :
        /\ 1 \in DOMAIN toSender /\ m = toSender[1]
        /\ Shifted(toSender, toSender', 1)
        /\ sw' = ResizedTo(handle_answer(sw, m, loop_now'), m.window)
        /\ loop_now' \in 0 .. MaxStamp /\ loop_now' \in Nat /\ loop_now' <= clock
        /\ Genuine = sw.buf
        /\ \A p \in sw.buf : HasToken(p) => p.timestamp > loop_now'
        /\ toReceiver' = toReceiver /\ nread' = nread /\ clock' = clock
  BY AnswerArrives
<1>2. rw' = rw /\ written' = written
  BY DEF receiverVars
<1>3. CASE IsAck(m)
  <2>1. sw' = ResizedTo(handle_ack(sw, m), m.window)
    BY <1>1, <1>3 DEF handle_answer, IsAck
  <2>2. /\ sw'.buf = {p \in sw.buf : p.chunk >= m.seqnum /\ ~Concerns(m, p)}
        /\ sw'.pos = m.seqnum
    BY <1>1, <1>3, <2>1, AckPops
  <2>3. \A p : p \in Genuine' <=> p \in sw'.buf /\ p.timestamp > loop_now'
    BY DEF Genuine
  <2>4. Genuine' \subseteq Genuine
    BY <1>1, <2>2, <2>3
  <2>5. \A p \in sw'.buf : HasToken(p) => p \in Genuine'
    BY <1>1, <2>2, <2>3
  <2> QED BY <1>1, <1>2, <1>3, <2>2, <2>4, <2>5, AckKeepsOrder
<1>4. CASE ~IsAck(m)
  <2>1. sw' = ResizedTo(handle_nack(sw, m, loop_now'), m.window)
    BY <1>1, <1>4 DEF handle_answer, IsAck
  <2>2. sw \in Windows /\ sw.buf \subseteq Faithful
    BY OrderTypes
  <2>3. Restamps(sw, sw', m, loop_now')
    BY <1>1, <1>4, <2>1, <2>2, NackRestamps
  <2>4. PICK f \in [sw.buf -> Faithful] :
          /\ sw'.buf = {f[p] : p \in sw.buf}
          /\ \A p \in sw.buf : /\ f[p].chunk = p.chunk
                               /\ f[p].tr = p.tr
                               /\ \/ f[p] = p
                                  \/ Concerns(m, p) /\ f[p].timestamp = loop_now'
    BY <2>3 DEF Restamps
  <2>5. \A p \in sw.buf : f[p] \in Faithful
    OBVIOUS
  <2>6. sw'.pos = sw.pos
    BY <2>3 DEF Restamps
  <2> QED BY <1>1, <1>2, <1>4, <2>4, <2>5, <2>6, NackKeepsOrder
<1> QED BY <1>3, <1>4

\* The sender keeps the invariant.
LEMMA OrderSenderStep ==
  ASSUME Orderly, AckInv, OrderInv, SenderNext, UNCHANGED receiverVars
  PROVE  OrderInv'
<1>0. /\ Shifted(toSender, toSender, 0) /\ Carries(toReceiver, toReceiver, 0)
      /\ Len(written) \in Nat
  BY OrderTypes, NotShifted, ShiftedCarries
<1>r. rw' = rw /\ written' = written
  BY DEF receiverVars
<1>1. CASE SelectTimeout
  <2>1. PICK now \in Readings(sw) : InTime(sw, now) /\ loop_now' = now
    BY <1>1 DEF SelectTimeout
  <2>2. now \in Nat /\ now <= clock
    BY ReadingsTypes
  <2>3. \A p \in sw.buf : HasToken(p) => p.timestamp > now
    BY <2>1, <2>2, AnswersInTime
  <2>4. /\ toSender' = toSender /\ toReceiver' = toReceiver /\ sw' = sw
        /\ nread' = nread /\ clock' = clock /\ Genuine = sw.buf
    BY <1>1 DEF SelectTimeout, netVars, AckInv, StampInv
  <2>5. \A p : p \in Genuine' <=> p \in sw.buf /\ p.timestamp > now
    BY <2>1, <2>4 DEF Genuine
  <2>6. Genuine' \subseteq Genuine /\ \A p \in sw.buf : HasToken(p) => p \in Genuine'
    BY <2>3, <2>4, <2>5
  <2> QED BY <1>0, <1>r, <2>1, <2>2, <2>4, <2>6, PassingKeepsOrder
<1>2. CASE SelectAnswer
  BY <1>2, AnswerKeepsOrder
<1>3. CASE RetransmitOne
  BY <1>3, RetransmissionKeepsOrder
<1>4. CASE SendNext
  BY <1>4, SendNextKeepsOrder
<1>5. CASE EndIteration
  <2>1. /\ toSender' = toSender /\ toReceiver' = toReceiver /\ sw' = sw
        /\ nread' = nread /\ clock' = clock /\ loop_now' = 0
        /\ Due(sw, loop_now) = {}
    BY <1>5 DEF EndIteration, netVars
  <2>2. \A p \in sw.buf : p.timestamp > loop_now /\ p.timestamp > 0
    BY <2>1, OrderTypes, PacketTypes DEF Due
  <2>3. Genuine = sw.buf /\ Genuine' = sw.buf
    BY <2>1, <2>2 DEF Genuine
  <2>4. 0 <= clock
    BY OrderTypes
  <2> QED BY <1>0, <1>r, <2>1, <2>3, <2>4, PassingKeepsOrder
<1>6. CASE SenderFails
  <2>1. /\ toSender' = toSender /\ toReceiver' = toReceiver /\ sw' = sw
        /\ nread' = nread /\ clock' = clock /\ loop_now' = loop_now
    BY <1>6 DEF SenderFails
  <2>2. Genuine' = Genuine
    BY <2>1 DEF Genuine
  <2>3. loop_now <= clock
    BY DEF OrderInv, BufferInv
  <2> QED BY <1>0, <1>r, <2>1, <2>2, <2>3, TokensAreGenuine, PassingKeepsOrder
<1> QED BY <1>1, <1>2, <1>3, <1>4, <1>5, <1>6 DEF SenderNext

-----------------------------------------------------------------------------
(* Steps of the receiver.                                                  *)

\* No window wraps around.
LEMMA WindowIsInterval ==
  ASSUME Orderly, AckInv, OrderInv, NEW s \in Nat
  PROVE  /\ window_has(rw, s) <=> rw.pos <= s /\ s < rw.pos + Capacity
         /\ rw.pos <= NChunks
<1>1. /\ rw \in Windows /\ rw.size = Capacity /\ rw.pos \in Nat /\ NChunks \in Nat
      /\ Len(written) \in Nat
  BY OrderTypes DEF ReceiverWindowOK
<1>2. rw.pos <= NChunks
  BY <1>1 DEF OrderInv, PositionInv, AckInv, DeliveryInv, WrittenIsPrefix
<1>3. Capacity \in Nat \ {0} /\ SeqSpace \in Nat /\ NChunks + Capacity <= SeqSpace
  BY WindowAssumption DEF Orderly
<1>4. rw.pos + (Capacity - 1) \in Nat /\ rw.pos + (Capacity - 1) < SeqSpace
  BY <1>1, <1>2, <1>3
<1>5. window_end(rw) = rw.pos + (Capacity - 1)
  BY <1>1, <1>4, ModSmall DEF window_end
<1> QED BY <1>1, <1>2, <1>3, <1>5 DEF window_has

\* The invariant survives that the receiver takes the packet d of its window
\* and answers it with a: the answer takes the place of the packet.
LEMMA AnsweringKeepsOrder ==
  ASSUME AckInv, OrderInv, 1 \in DOMAIN toReceiver, NEW d, d = toReceiver[1],
         d.seqnum >= rw.pos, Carries(toReceiver, toReceiver', 1),
         NEW a, Extended(toSender, toSender', a),
         IsAck(a) => /\ a.timestamp = d.timestamp
                     /\ a.seqnum = rw'.pos
                     /\ Held(d.chunk)',
         ~IsAck(a) => a.seqnum = d.seqnum,
         rw'.pos \in Nat, rw.pos <= rw'.pos, rw'.pos <= Len(written'),
         Len(written') \in Nat, rw'.pos <= nread,
         \A q \in rw'.buf : q.chunk < nread,
         \A c \in Nat : Held(c) => Held(c)',
         sw' = sw, nread' = nread, clock' = clock, loop_now' = loop_now
  PROVE  OrderInv'
<1>t. /\ d.seqnum = d.chunk /\ d.chunk \in Nat
      /\ rw.pos \in Nat /\ nread \in Nat /\ sw.pos \in Nat
      /\ \A p \in sw.buf : p.seqnum = p.chunk /\ p.chunk \in Nat
      /\ \A j \in DOMAIN toSender : toSender[j].seqnum \in Nat
      /\ \A i \in DOMAIN toReceiver : toReceiver[i].seqnum \in Nat
  <2>1. /\ \A i \in DOMAIN toReceiver : toReceiver[i] \in Faithful
        /\ \A j \in DOMAIN toSender : toSender[j] \in Answers
    BY OrderTypes
  <2> QED BY <2>1, OrderTypes, PacketTypes
<1>1. PICK p \in sw.buf : Pending(1, p)
  BY DEF OrderInv, DataInv
<1>2. p \in Genuine /\ d.timestamp = p.timestamp /\ d.chunk = p.chunk
  BY <1>1 DEF OrderInv, DataInv, Pending
<1>3. \A q \in sw.buf : Concerns(a, q) => q = p
  <2>1. \A q \in sw.buf : q.timestamp = p.timestamp => q \in Genuine
    BY <1>2 DEF Genuine
  <2>2. \A q \in sw.buf : q.chunk = p.chunk => q = p
    BY DEF OrderInv, BufferInv
  <2> QED BY <1>t, <1>2, <2>1, <2>2 DEF Concerns, OrderInv, BufferInv
<1>l. PICK new : new = Len(toSender) + 1
  OBVIOUS
<1>4. /\ DOMAIN toSender' = DOMAIN toSender \cup {new}
      /\ new \notin DOMAIN toSender
      /\ toSender'[new] = a
      /\ \A j \in DOMAIN toSender : toSender'[j] = toSender[j] /\ j < new /\ ~(new < j)
  BY <1>l DEF Extended
<1>5. \A q \in sw.buf, i \in DOMAIN toReceiver' :
        Pending(i, q)' => /\ i \in Nat \ {0} /\ i + 1 \in DOMAIN toReceiver
                          /\ i + 1 # 1 /\ Pending(i + 1, q)
  <2>1. \A i, q : Pending(i, q)' <=> toReceiver'[i].chunk = q.chunk
    BY DEF Pending
  <2>2. \A i, q : Pending(i, q) <=> toReceiver[i].chunk = q.chunk
    BY DEF Pending
  <2>3. \A i \in DOMAIN toReceiver' : /\ i \in Nat \ {0} /\ i + 1 \in DOMAIN toReceiver
                                      /\ i + 1 # 1
                                      /\ toReceiver'[i].chunk = toReceiver[i + 1].chunk
    BY DEF Carries
  <2> QED BY <2>1, <2>2, <2>3
<1>g. Genuine' = Genuine
  BY DEF Genuine
<1>6. \A i \in DOMAIN toReceiver' : ~Pending(i, p)'
  BY <1>1, <1>5 DEF OrderInv, DataInv
<1>7. \A j \in DOMAIN toSender : ~Concerns(toSender[j], p)
  BY <1>1 DEF OrderInv, AnswerInv
<1>8. BufferInv'
  BY <1>g DEF OrderInv, BufferInv
<1>9. DataInv'
  <2>0. DataInv
    BY DEF OrderInv
  <2>s. \A i \in DOMAIN toReceiver' :
          /\ i \in Nat \ {0} /\ i + 1 \in DOMAIN toReceiver
          /\ toReceiver'[i].seqnum = toReceiver[i + 1].seqnum
          /\ toReceiver'[i].timestamp = toReceiver[i + 1].timestamp
          /\ toReceiver'[i].chunk = toReceiver[i + 1].chunk
    BY DEF Carries
  <2>1. \A i \in DOMAIN toReceiver' : toReceiver'[i].chunk < nread'
    BY <2>0, <2>s DEF DataInv
  <2>2. \A i \in DOMAIN toReceiver', q \in sw'.buf : Pending(i, q)' =>
          q \in Genuine' /\ toReceiver'[i].timestamp = q.timestamp
    BY <1>5, <1>g, <2>0, <2>s DEF DataInv
  <2>3. \A i, j \in DOMAIN toReceiver', q \in sw'.buf :
          Pending(i, q)' /\ Pending(j, q)' => i = j
    <3> SUFFICES ASSUME NEW i \in DOMAIN toReceiver', NEW j \in DOMAIN toReceiver',
                        NEW q \in sw.buf, Pending(i, q)', Pending(j, q)'
                 PROVE  i = j
      OBVIOUS
    <3>1. i + 1 = j + 1
      BY <1>5, <2>0 DEF DataInv
    <3> QED BY <1>5, <3>1
  <2>4. \A i \in DOMAIN toReceiver' :
          toReceiver'[i].seqnum >= rw'.pos => \E q \in sw'.buf : Pending(i, q)'
    <3> SUFFICES ASSUME NEW i \in DOMAIN toReceiver', toReceiver'[i].seqnum >= rw'.pos
                 PROVE  \E q \in sw.buf : Pending(i, q)'
      OBVIOUS
    <3>1. toReceiver[i + 1].seqnum >= rw.pos
      BY <1>t, <2>s
    <3>2. PICK q \in sw.buf : Pending(i + 1, q)
      BY <2>0, <2>s, <3>1 DEF DataInv
    <3>3. Pending(i, q)'
      BY <2>s, <3>2 DEF Pending
    <3> QED BY <3>3
  <2> QED BY <2>1, <2>2, <2>3, <2>4 DEF DataInv
<1>10. AnswerInv'
  <2>0. AnswerInv
    BY DEF OrderInv
  <2>1. \A j \in DOMAIN toSender' : ~IsAck(toSender'[j]) => toSender'[j].seqnum < nread'
    <3>1. d.chunk < nread
      BY DEF OrderInv, DataInv
    <3> QED BY <1>t, <1>4, <2>0, <3>1 DEF AnswerInv
  <2>2. \A j \in DOMAIN toSender', q \in sw'.buf : Concerns(toSender'[j], q) =>
          q \in Genuine' /\ \A i \in DOMAIN toReceiver' : ~Pending(i, q)'
    <3>1. \A j \in DOMAIN toSender, q \in sw.buf : Concerns(toSender[j], q) =>
            q \in Genuine' /\ \A i \in DOMAIN toReceiver' : ~Pending(i, q)'
      BY <1>5, <1>g, <2>0 DEF AnswerInv
    <3> QED BY <1>2, <1>3, <1>4, <1>6, <1>g, <3>1
  <2>3. \A i, j \in DOMAIN toSender', q \in sw'.buf :
          i < j /\ Concerns(toSender'[j], q) =>
            /\ ~Concerns(toSender'[i], q)
            /\ IsAck(toSender'[i]) => toSender'[i].seqnum <= q.chunk
    <3> SUFFICES ASSUME NEW i \in DOMAIN toSender', NEW j \in DOMAIN toSender',
                        NEW q \in sw.buf, i < j, Concerns(toSender'[j], q)
                 PROVE  /\ ~Concerns(toSender'[i], q)
                        /\ IsAck(toSender'[i]) => toSender'[i].seqnum <= q.chunk
      OBVIOUS
    <3>1. CASE j \in DOMAIN toSender
      <4>1. i \in DOMAIN toSender
        BY <1>4, <3>1
      <4> QED BY <1>4, <2>0, <3>1, <4>1 DEF AnswerInv
    <3>2. CASE j = new
      <4>1. i \in DOMAIN toSender /\ q = p
        <5>1. ~(new < new)
          BY <1>l, OrderTypes
        <5> QED BY <1>3, <1>4, <3>2, <5>1
      <4>2. IsAck(toSender[i]) => toSender[i].seqnum <= p.chunk
        <5>1. IsAck(toSender[i]) => toSender[i].seqnum <= rw.pos
          BY <4>1 DEF OrderInv, PositionInv
        <5> QED BY <1>t, <1>2, <4>1, <5>1
      <4> QED BY <1>4, <1>7, <4>1, <4>2
    <3> QED BY <1>4, <3>1, <3>2
  <2>4. \A j \in DOMAIN toSender' : IsAck(toSender'[j]) =>
          \E q \in sw'.buf : Concerns(toSender'[j], q)
    <3>1. IsAck(a) => Concerns(a, p)
      BY <1>2 DEF Concerns
    <3> QED BY <1>4, <2>0, <3>1 DEF AnswerInv
  <2> QED BY <2>1, <2>2, <2>3, <2>4 DEF AnswerInv
<1>11. PositionInv'
  <2>0. PositionInv
    BY DEF OrderInv
  <2>1. \A j \in DOMAIN toSender' : IsAck(toSender'[j]) =>
          sw.pos <= toSender'[j].seqnum /\ toSender'[j].seqnum <= rw'.pos
    BY <1>t, <1>4, <2>0 DEF PositionInv
  <2>2. \A i, j \in DOMAIN toSender' :
          i < j /\ IsAck(toSender'[i]) /\ IsAck(toSender'[j]) =>
            toSender'[i].seqnum <= toSender'[j].seqnum
    <3> SUFFICES ASSUME NEW i \in DOMAIN toSender', NEW j \in DOMAIN toSender',
                        i < j, IsAck(toSender'[i]), IsAck(toSender'[j])
                 PROVE  toSender'[i].seqnum <= toSender'[j].seqnum
      OBVIOUS
    <3>1. CASE j \in DOMAIN toSender
      <4>1. i \in DOMAIN toSender
        BY <1>4, <3>1
      <4> QED BY <1>4, <2>0, <3>1, <4>1 DEF PositionInv
    <3>2. CASE j = new
      <4>1. i \in DOMAIN toSender
        <5>1. ~(new < new)
          BY <1>l, OrderTypes
        <5> QED BY <1>4, <3>2, <5>1
      <4>2. toSender[i].seqnum <= rw.pos
        BY <1>4, <2>0, <4>1 DEF PositionInv
      <4> QED BY <1>t, <1>4, <3>2, <4>1, <4>2
    <3> QED BY <1>4, <3>1, <3>2
  <2>3. sw.pos <= rw'.pos
    BY <1>t, <2>0 DEF PositionInv
  <2> QED BY <2>1, <2>2, <2>3 DEF PositionInv
<1>12. KeepInv'
  <2>0. KeepInv
    BY DEF OrderInv
  <2>1. \A c \in Nat : c < nread => (\E q \in sw.buf : q.chunk = c) \/ Held(c)'
    BY <2>0 DEF KeepInv
  <2>2. \A j \in DOMAIN toSender', q \in sw.buf :
          IsAck(toSender'[j]) /\ Concerns(toSender'[j], q) => Held(q.chunk)'
    <3>1. \A j \in DOMAIN toSender, q \in sw.buf :
            IsAck(toSender[j]) /\ Concerns(toSender[j], q) => Held(q.chunk)'
      BY <1>t, <2>0 DEF KeepInv
    <3>2. \A q \in sw.buf : IsAck(a) /\ Concerns(a, q) => Held(q.chunk)'
      BY <1>2, <1>3
    <3> QED BY <1>4, <3>1, <3>2
  <2> QED BY <2>1, <2>2 DEF KeepInv
<1> QED BY <1>8, <1>9, <1>10, <1>11, <1>12 DEF OrderInv

\* The receiver takes the first packet on its way.
LEMMA FirstReceived ==
  ASSUME Orderly, AckInv, NEW i \in DOMAIN toReceiver, Receive(i)
  PROVE  /\ i = 1 /\ 1 \in DOMAIN toReceiver /\ toReceiver[1] \in Faithful
         /\ Carries(toReceiver, toReceiver', 1)
         /\ rphase = "running" /\ rw.pos = Len(written)
<1>1. i \in Deliverable(toReceiver) /\ toReceiver' = RemoveAt(toReceiver, i)
      /\ rphase = "running"
  BY DEF Receive
<1>2. i = 1 /\ 1 \in DOMAIN toReceiver /\ Shifted(toReceiver, toReceiver', 1)
  BY <1>1, OrderTypes, FirstOut
<1>3. rw.pos = Len(written)
  BY <1>1 DEF AckInv, DeliveryInv
<1>4. toReceiver[1] \in Faithful
  BY <1>2, OrderTypes
<1> QED BY <1>1, <1>2, <1>3, <1>4, ShiftedCarries

\* What the receiver does with the packet d of its window, and answers with a.
Accepted(d, a) ==
  /\ 1 \in DOMAIN toReceiver /\ d = toReceiver[1] /\ ~d.tr /\ d \in Faithful
  /\ d.chunk >= rw.pos
  /\ Carries(toReceiver, toReceiver', 1)
  /\ Extended(toSender, toSender', a)
  /\ IsAck(a) /\ a.timestamp = d.timestamp /\ a.seqnum = rw'.pos
  /\ a.window = window_available(rw')
  /\ rw'.buf \subseteq rw.buf \cup {d}
  /\ rw.pos = Len(written) /\ rw'.pos = Len(written') /\ Len(written') \in Nat
  /\ rw.pos <= rw'.pos
  /\ \A c \in Nat : rw.pos <= c /\ c < rw'.pos => \E q \in rw.buf \cup {d} : q.chunk = c
  /\ \A c \in Nat : Held(c) => Held(c)'
  /\ Held(d.chunk)'

\* Every step that accepts a packet is of this form.
LEMMA Acceptance ==
  ASSUME Orderly, AckInv, OrderInv, AckInv', AcceptData
  PROVE  \E d, a : Accepted(d, a)
<1>1. PICK i \in DOMAIN toReceiver, n \in 0 .. Capacity :
        /\ Receive(i)
        /\ window_has(rw, toReceiver[i].seqnum)
        /\ ~toReceiver[i].tr
        /\ IsRun(Stored(rw, toReceiver[i]), n)
        /\ RunEnds(Stored(rw, toReceiver[i]), n)
        /\ rw' = Delivered(Stored(rw, toReceiver[i]), n)
        /\ written' = written \o RunChunks(Stored(rw, toReceiver[i]), n)
        /\ toSender' = Append(toSender, Ack(window_available(rw'), rw'.pos,
                                            toReceiver[i].timestamp))
        /\ rphase' = rphase
  BY DEF AcceptData
<1>d. PICK d : d = toReceiver[1]
  OBVIOUS
<1>a. PICK a : a = Ack(window_available(rw'), rw'.pos, d.timestamp)
  OBVIOUS
<1>2. /\ i = 1 /\ 1 \in DOMAIN toReceiver /\ d \in Faithful
      /\ Carries(toReceiver, toReceiver', 1)
      /\ rphase = "running" /\ rw.pos = Len(written)
  BY <1>1, <1>d, FirstReceived
<1>3. IsAck(a) /\ a.timestamp = d.timestamp /\ a.seqnum = rw'.pos
      /\ a.window = window_available(rw')
  BY <1>a DEF IsAck, Ack
<1>4. Extended(toSender, toSender', a)
  BY <1>1, <1>2, <1>d, <1>a, OrderTypes, LastIn
<1>5. d.chunk \in Nat /\ d.seqnum = d.chunk /\ d.chunk >= rw.pos /\ d \in DataPackets
  BY <1>1, <1>2, <1>d, PacketTypes, WindowIsInterval
<1> DEFINE stored == Stored(rw, d)
<1>6. /\ stored.buf \subseteq rw.buf \cup {d} /\ stored.pos = rw.pos
      /\ rw'.buf \subseteq stored.buf /\ n \in Nat /\ stored.buf \subseteq Faithful
  <2>1. n \in Nat /\ rw \in Windows /\ ReceiverWindowOK(rw) /\ rw.buf \subseteq Faithful
    BY OrderTypes, WindowAssumption
  <2>2. stored.buf \subseteq rw.buf \cup {d} /\ stored.pos = rw.pos
    BY <2>1 DEF Stored, window_push, Windows
  <2>3. ReceiverWindowOK(stored)
    BY <1>5, <2>1, DeliveryWindow
  <2>4. rw'.buf \subseteq stored.buf
    BY <1>1, <1>2, <1>d, <2>3 DEF Delivered, window_slide, ReceiverWindowOK, Windows
  <2> QED BY <1>2, <2>1, <2>2, <2>4
<1>7. /\ IsRun(stored, n) /\ RunEnds(stored, n) /\ rw' = Delivered(stored, n)
      /\ written' = written \o RunChunks(stored, n) /\ rphase' = "running"
  BY <1>1, <1>2, <1>d
<1>8. NChunks < SeqSpace
  BY PacketAssumption, WindowAssumption DEF Orderly
<1>9. Len(written') = rw.pos + n /\ rw.pos + n <= NChunks
  BY <1>2, <1>6, <1>7, <1>8, DeliverStep DEF AckInv
<1>10. rw'.pos = Len(written') /\ Len(written') \in Nat /\ rw.pos <= rw'.pos
  BY <1>6, <1>7, <1>9, OrderTypes DEF AckInv, DeliveryInv
<1>11. \A c \in Nat : rw.pos <= c /\ c < rw'.pos => \E q \in rw.buf \cup {d} : q.chunk = c
  <2> SUFFICES ASSUME NEW c \in Nat, rw.pos <= c, c < rw'.pos
               PROVE  \E q \in stored.buf : q.chunk = c
    BY <1>6
  <2>0. PICK k \in Nat : k = rw.pos
    BY OrderTypes
  <2>n. n \in Nat /\ k <= c /\ c < k + n
    BY <1>6, <1>9, <1>10, <2>0
  <2>1. c - k \in 0 .. (n - 1) /\ k + (c - k) = c
    BY <2>n
  <2>2. \E q \in stored.buf : q.seqnum = (stored.pos + (c - k)) % SeqSpace
    BY <1>7, <2>1 DEF IsRun
  <2>3. PICK q \in stored.buf : q.seqnum = c % SeqSpace
    BY <1>6, <2>0, <2>1, <2>2
  <2>4. c % SeqSpace = c
    BY <1>8, <1>9, <1>10, ModSmall, PacketAssumption, WindowAssumption
  <2> QED BY <1>6, <2>3, <2>4, PacketTypes
<1>12. /\ HasReceived(d.chunk)'
       /\ \A c \in 0 .. NChunks : HasReceived(c) => HasReceived(c)'
  BY <1>2, <1>7, <1>8, ReceiverLosesNothing DEF AckInv, StampInv
<1>13. /\ \A c : HasReceived(c) <=> Held(c)
       /\ \A c : HasReceived(c)' <=> Held(c)'
  BY <1>2, <1>10 DEF HasReceived, Held
<1>14. \A c \in Nat : Held(c) => Held(c)'
  <2>1. \A c \in Nat : Held(c) => c \in 0 .. NChunks
    <3>1. rw.pos <= NChunks /\ rw.buf \subseteq Faithful /\ rw.pos \in Nat /\ NChunks \in Nat
      BY OrderTypes, WindowIsInterval
    <3> QED BY <3>1, PacketTypes DEF Held, Eof
  <2> QED BY <1>12, <1>13, <2>1
<1> HIDE DEF stored
<1>15. Accepted(d, a)
  BY <1>1, <1>2, <1>3, <1>4, <1>5, <1>6, <1>10, <1>11, <1>12, <1>13, <1>14, <1>d
     DEF Accepted
<1> QED BY <1>15

\* The receiver keeps the invariant.
LEMMA OrderReceiverStep ==
  ASSUME Orderly, AckInv, OrderInv, AckInv', ReceiverNext, UNCHANGED senderVars
  PROVE  OrderInv'
<1>0. /\ Shifted(toSender, toSender, 0) /\ Carries(toReceiver, toReceiver, 0)
      /\ Len(written) \in Nat
  BY OrderTypes, NotShifted, ShiftedCarries
<1>s. /\ sw' = sw /\ nread' = nread /\ clock' = clock /\ loop_now' = loop_now
      /\ Genuine' = Genuine /\ loop_now <= clock
  BY DEF senderVars, Genuine, OrderInv, BufferInv
<1>1. ASSUME NEW i \in DOMAIN toReceiver, Receive(i),
             rw' = rw, toSender' = toSender,
             Len(written) <= Len(written'), Len(written') \in Nat
      PROVE  OrderInv'
  <2>1. Carries(toReceiver, toReceiver', 1)
    BY <1>1, FirstReceived
  <2> QED BY <1>0, <1>1, <1>s, <2>1, TokensAreGenuine, PassingKeepsOrder
<1>2. CASE IgnoreOutOfWindow
  <2>1. rw' = rw /\ written' = written /\ toSender' = toSender
    BY <1>2 DEF IgnoreOutOfWindow, receiverVars
  <2>2. PICK i \in DOMAIN toReceiver : Receive(i)
    BY <1>2 DEF IgnoreOutOfWindow
  <2> QED BY <1>0, <1>1, <2>1, <2>2
<1>3. CASE RefuseTruncated
  <2>1. PICK i \in DOMAIN toReceiver :
          /\ Receive(i)
          /\ window_has(rw, toReceiver[i].seqnum)
          /\ toSender' = Append(toSender, Nack(window_available(rw),
                                               toReceiver[i].seqnum))
    BY <1>3 DEF RefuseTruncated
  <2>d. PICK d : d = toReceiver[1]
    OBVIOUS
  <2>a. PICK a : a = Nack(window_available(rw), d.seqnum)
    OBVIOUS
  <2>2. /\ i = 1 /\ 1 \in DOMAIN toReceiver /\ d \in Faithful
        /\ Carries(toReceiver, toReceiver', 1) /\ rw.pos = Len(written)
    BY <2>1, <2>d, FirstReceived
  <2>3. ~IsAck(a) /\ a.seqnum = d.seqnum
    BY <2>a DEF IsAck, Nack
  <2>4. Extended(toSender, toSender', a)
    BY <2>1, <2>2, <2>d, <2>a, OrderTypes, LastIn
  <2>5. d.seqnum >= rw.pos
    <3>1. d.seqnum \in Nat /\ window_has(rw, d.seqnum)
      BY <2>1, <2>2, <2>d, PacketTypes
    <3> QED BY <3>1, WindowIsInterval
  <2>6. rw' = rw /\ written' = written
    BY <1>3 DEF RefuseTruncated, receiverVars
  <2>7. \A c \in Nat : Held(c) => Held(c)'
    BY <2>6 DEF Held
  <2>8. /\ rw'.pos \in Nat /\ rw.pos <= rw'.pos /\ rw'.pos <= Len(written')
        /\ Len(written') \in Nat /\ rw'.pos <= nread
        /\ \A q \in rw'.buf : q.chunk < nread
    BY <2>2, <2>6, OrderTypes DEF OrderInv, KeepInv
  <2> QED BY <1>s, <2>2, <2>3, <2>4, <2>5, <2>7, <2>8, <2>d, AnsweringKeepsOrder
<1>4. CASE AcceptData
  <2>1. PICK d, a : Accepted(d, a)
    BY <1>4, Acceptance
  <2>2. /\ 1 \in DOMAIN toReceiver /\ d = toReceiver[1] /\ d \in Faithful
        /\ d.chunk >= rw.pos
        /\ Carries(toReceiver, toReceiver', 1)
        /\ Extended(toSender, toSender', a)
        /\ IsAck(a) /\ a.timestamp = d.timestamp /\ a.seqnum = rw'.pos
        /\ rw'.buf \subseteq rw.buf \cup {d}
        /\ rw'.pos = Len(written') /\ Len(written') \in Nat /\ rw.pos <= rw'.pos
        /\ \A c \in Nat : rw.pos <= c /\ c < rw'.pos => \E q \in rw.buf \cup {d} : q.chunk = c
        /\ \A c \in Nat : Held(c) => Held(c)'
        /\ Held(d.chunk)'
    BY <2>1 DEF Accepted
  <2>3. d.seqnum = d.chunk
    BY <2>2, PacketTypes
  <2>4. \A q \in rw.buf \cup {d} : q.chunk < nread
    BY <2>2 DEF OrderInv, KeepInv, DataInv
  <2>5. rw'.pos <= nread
    <3>1. CASE rw'.pos = rw.pos
      BY <3>1 DEF OrderInv, KeepInv
    <3>2. CASE rw'.pos # rw.pos
      <4>1. PICK k \in Nat : k = rw'.pos
        BY <2>2
      <4>2. rw.pos \in Nat /\ nread \in Nat
        BY OrderTypes
      <4>3. k - 1 \in Nat /\ rw.pos <= k - 1 /\ k - 1 < rw'.pos
        BY <2>2, <3>2, <4>1, <4>2
      <4>4. k - 1 < nread
        BY <2>2, <2>4, <4>3
      <4> QED BY <4>1, <4>2, <4>4
    <3> QED BY <3>1, <3>2
  <2>6. \A q \in rw'.buf : q.chunk < nread
    BY <2>2, <2>4
  <2>7. rw'.pos \in Nat /\ rw'.pos <= Len(written')
    BY <2>2
  <2> QED BY <1>s, <2>2, <2>3, <2>5, <2>6, <2>7, AnsweringKeepsOrder
<1>5. CASE ReceiverFails
  <2>1. /\ toSender' = toSender /\ toReceiver' = toReceiver
        /\ rw' = rw /\ written' = written
    BY <1>5 DEF ReceiverFails
  <2> QED BY <1>0, <1>s, <2>1, TokensAreGenuine, PassingKeepsOrder
<1>6. CASE FailDelivering
  <2>1. PICK i \in DOMAIN toReceiver, n \in 0 .. Capacity :
          /\ Receive(i)
          /\ IsRun(Stored(rw, toReceiver[i]), n)
          /\ written' = written \o RunChunks(Stored(rw, toReceiver[i]), n)
          /\ rw' = rw /\ toSender' = toSender
    BY <1>6 DEF FailDelivering
  <2>2. toReceiver[i] \in Faithful /\ rphase = "running" /\ n \in Nat
        /\ rw.pos = Len(written)
    BY <2>1, FirstReceived, WindowAssumption
  <2>3. NChunks < SeqSpace
    BY PacketAssumption, WindowAssumption DEF Orderly
  <2>4. Len(written') = Len(written) + n
    BY <2>1, <2>2, <2>3, DeliverStep DEF AckInv
  <2>5. Len(written) <= Len(written') /\ Len(written') \in Nat
    BY <1>0, <2>2, <2>4
  <2> QED BY <1>1, <2>1, <2>5
<1> QED BY <1>2, <1>3, <1>4, <1>5, <1>6 DEF ReceiverNext

\* Losing and truncating datagrams keeps the invariant.
LEMMA OrderNetworkStep ==
  ASSUME Orderly, AckInv, OrderInv, NetworkNext,
         UNCHANGED <<senderVars, receiverVars>>
  PROVE  OrderInv'
<1>0. /\ Shifted(toSender, toSender, 0) /\ Carries(toReceiver, toReceiver, 0)
      /\ Len(written) \in Nat
  BY OrderTypes, NotShifted, ShiftedCarries
<1>s. /\ sw' = sw /\ nread' = nread /\ clock' = clock /\ loop_now' = loop_now
      /\ Genuine' = Genuine /\ loop_now <= clock /\ rw' = rw /\ written' = written
  BY DEF senderVars, receiverVars, Genuine, OrderInv, BufferInv
<1>1. CASE LoseData
  <2>1. Carries(toReceiver, toReceiver', 1)
    BY <1>1, FirstOut, ShiftedCarries, OrderTypes DEF LoseData
  <2>2. toSender' = toSender
    BY <1>1 DEF LoseData
  <2> QED BY <1>0, <1>s, <2>1, <2>2, TokensAreGenuine, PassingKeepsOrder
<1>2. CASE LoseAnswer
  <2>1. Shifted(toSender, toSender', 1)
    BY <1>2, FirstOut, OrderTypes DEF LoseAnswer
  <2>2. toReceiver' = toReceiver
    BY <1>2 DEF LoseAnswer
  <2> QED BY <1>0, <1>s, <2>1, <2>2, TokensAreGenuine, PassingKeepsOrder
<1>3. CASE Truncate
  <2>1. Carries(toReceiver, toReceiver', 0)
    <3>1. PICK i \in DOMAIN toReceiver : toReceiver' = [toReceiver EXCEPT ![i].tr = TRUE]
      BY <1>3 DEF Truncate
    <3>2. toReceiver \in Seq(DataPackets)
      BY OrderTypes DEF Faithful
    <3> QED BY <3>1, <3>2 DEF Carries, DataPackets
  <2>2. toSender' = toSender
    BY <1>3 DEF Truncate
  <2> QED BY <1>0, <1>s, <2>1, <2>2, TokensAreGenuine, PassingKeepsOrder
<1>4. ~DuplicateData /\ ~DuplicateAnswer
  BY DEF DuplicateData, DuplicateAnswer, Fault, Orderly
<1> QED BY <1>1, <1>2, <1>3, <1>4 DEF NetworkNext

-----------------------------------------------------------------------------
(* The theorems.                                                           *)

\* The invariant and those it rests on.
OrderlyInv == AckInv /\ OrderInv

\* At the start the buffers and the channels are empty.
LEMMA OrderInit == Init => OrderlyInv
<1> SUFFICES ASSUME Init PROVE OrderlyInv
  OBVIOUS
<1>1. /\ sw.buf = {} /\ rw.buf = {} /\ sw.pos = 0 /\ rw.pos = 0
      /\ toReceiver = <<>> /\ toSender = <<>> /\ written = <<>>
      /\ loop_now = 0 /\ clock = 0 /\ nread = 0
  BY DEF Init, SenderInit, ReceiverInit, NetworkInit, window_create
<1>2. DOMAIN toReceiver = {} /\ DOMAIN toSender = {} /\ Len(written) = 0
  BY <1>1
<1>3. BufferInv
  BY <1>1 DEF BufferInv, Genuine
<1>4. DataInv /\ AnswerInv /\ PositionInv
  BY <1>1, <1>2 DEF DataInv, AnswerInv, PositionInv
<1>5. KeepInv
  BY <1>1, <1>2 DEF KeepInv
<1> QED BY <1>3, <1>4, <1>5, AckInit DEF OrderlyInv, OrderInv

\* The invariant is inductive.
LEMMA OrderStep == Orderly => (OrderlyInv /\ [Next]_vars => OrderlyInv')
<1> SUFFICES ASSUME Orderly, AckInv, OrderInv, [Next]_vars PROVE OrderlyInv'
  BY DEF OrderlyInv
<1>0. NChunks < SeqSpace
  BY PacketAssumption, WindowAssumption DEF Orderly
<1>1. AckInv'
  BY <1>0, AckStep
<1>2. CASE UNCHANGED vars
  <2>1. /\ toSender' = toSender /\ toReceiver' = toReceiver /\ sw' = sw
        /\ nread' = nread /\ clock' = clock /\ loop_now' = loop_now
        /\ rw' = rw /\ written' = written /\ Genuine' = Genuine
    BY <1>2 DEF vars, senderVars, receiverVars, netVars, Genuine
  <2>2. /\ Shifted(toSender, toSender, 0) /\ Carries(toReceiver, toReceiver, 0)
        /\ Len(written) \in Nat /\ loop_now <= clock
    BY OrderTypes, NotShifted, ShiftedCarries DEF OrderInv, BufferInv
  <2>3. OrderInv'
    BY <2>1, <2>2, TokensAreGenuine, PassingKeepsOrder
  <2> QED BY <1>1, <2>3 DEF OrderlyInv
<1>3. CASE Next
  BY <1>1, <1>3, OrderSenderStep, OrderReceiverStep, OrderNetworkStep
     DEF Next, OrderlyInv
<1> QED BY <1>2, <1>3

\* handle_ack removes a packet from the buffer of the sender only if the
\* receiver has it, whatever the path loses or truncates and wherever a
\* process exits: nothing sent is ever beyond recovery.
THEOREM NothingIsLost ==
  ASSUME Orderly
  PROVE  Spec => []NoUnackedDrop
<1>1. OrderlyInv /\ [Next]_vars => OrderlyInv'
  BY OrderStep
<1>2. OrderlyInv => NoUnackedDrop
  <2> SUFFICES ASSUME AckInv, OrderInv PROVE NoUnackedDrop
    BY DEF OrderlyInv
  <2>1. \A c : Held(c) /\ c \in Nat => HasReceived(c)
    <3>1. rw.pos <= Len(written) /\ Len(written) <= NChunks /\ rw.pos \in Nat
          /\ Len(written) \in Nat /\ NChunks \in Nat
      BY OrderTypes DEF OrderInv, PositionInv, AckInv, DeliveryInv, WrittenIsPrefix
    <3> QED BY <3>1 DEF Held, HasReceived
  <2>2. PICK n \in Nat : n = nread
    BY OrderTypes
  <2>3. \A c \in 0 .. (n - 1) : c \in Nat /\ c < n
    OBVIOUS
  <2>4. \A c \in 0 .. (n - 1) : (\E p \in sw.buf : p.chunk = c) \/ HasReceived(c)
    BY <2>1, <2>2, <2>3 DEF OrderInv, KeepInv
  <2> QED BY <2>2, <2>4 DEF NoUnackedDrop
<1> QED BY <1>1, <1>2, OrderInit, PTL DEF Spec

\* A step of the sender slides its window forward, or not at all.
LEMMA WindowSlidesForward ==
  ASSUME Orderly, AckInv, OrderInv, SenderNext
  PROVE  sw'.pos >= sw.pos
<1>0. sw \in Windows /\ sw.pos \in Nat
  BY OrderTypes
<1>1. CASE SelectAnswer
  <2>1. PICK m \in Answers :
          /\ 1 \in DOMAIN toSender /\ m = toSender[1]
          /\ sw' = ResizedTo(handle_answer(sw, m, loop_now'), m.window)
          /\ loop_now' \in 0 .. MaxStamp
          /\ Genuine = sw.buf
    BY <1>1, AnswerArrives
  <2>2. CASE IsAck(m)
    <3>1. sw' = ResizedTo(handle_ack(sw, m), m.window)
      BY <2>1, <2>2 DEF handle_answer, IsAck
    <3>2. sw'.pos = m.seqnum
      BY <2>1, <2>2, <3>1, AckPops
    <3>3. m.seqnum >= sw.pos
      BY <1>0, <2>1, <2>2, PacketTypes DEF OrderInv, PositionInv
    <3> QED BY <3>2, <3>3
  <2>3. CASE ~IsAck(m)
    <3>1. sw' = ResizedTo(handle_nack(sw, m, loop_now'), m.window)
      BY <2>1, <2>3 DEF handle_answer, IsAck
    <3>2. Restamps(sw, sw', m, loop_now')
      BY <2>1, <2>3, <3>1, OrderTypes, NackRestamps
    <3> QED BY <1>0, <3>2 DEF Restamps
  <2> QED BY <2>2, <2>3
<1>2. CASE RetransmitOne
  BY <1>0, <1>2 DEF RetransmitOne, Transmit, window_push, Windows
<1>3. CASE SendNext
  BY <1>0, <1>3 DEF SendNext, Transmit, window_push, Windows
<1>4. CASE UNCHANGED sw
  BY <1>0, <1>4
<1> QED BY <1>1, <1>2, <1>3, <1>4
        DEF SenderNext, SelectTimeout, EndIteration, SenderFails

\* The sending window, which handle_ack slides to the sequence number of every
\* ACK without a comparison, never moves back, nor past what is in the file.
THEOREM WindowAdvances ==
  ASSUME Orderly
  PROVE  Spec => SendingWindowAdvances
<1>1. OrderlyInv /\ [Next]_vars => OrderlyInv'
  BY OrderStep
<1>2. OrderlyInv /\ OrderlyInv' /\ [Next]_vars =>
        [sw'.pos >= sw.pos /\ sw'.pos <= Len(written')]_vars
  <2> SUFFICES ASSUME OrderlyInv, OrderlyInv', Next
               PROVE  sw'.pos >= sw.pos /\ sw'.pos <= Len(written')
    OBVIOUS
  <2>1. sw'.pos <= Len(written')
    <3>1. sw'.pos <= rw'.pos /\ rw'.pos <= Len(written')
      BY DEF OrderlyInv, OrderInv, PositionInv
    <3>2. TypeOK'
      BY DEF OrderlyInv, AckInv, DeliveryInv, TypeInv
    <3>3. sw'.pos \in Nat /\ rw'.pos \in Nat /\ Len(written') \in Nat
      BY <3>2, WindowAssumption DEF TypeOK, Windows, SeqNums
    <3> QED BY <3>1, <3>3
  <2>2. CASE SenderNext
    BY <2>1, <2>2, WindowSlidesForward DEF OrderlyInv
  <2>3. CASE UNCHANGED senderVars
    <3>1. sw' = sw
      BY <2>3 DEF senderVars
    <3>2. sw.pos \in Nat
      BY OrderTypes DEF OrderlyInv
    <3> QED BY <2>1, <3>1, <3>2
  <2> QED BY <2>2, <2>3 DEF Next
<1> QED BY <1>1, <1>2, OrderInit, PTL DEF Spec, SendingWindowAdvances
=============================================================================
