----------------------------- MODULE CopyProofs -----------------------------
(***************************************************************************)
(* Over a network that keeps the order, with answers in time: new packets  *)
(* never overrun the receiving window, packets are sent again only to make *)
(* up for a loss, and the two programs implement FileCopy.                 *)
(***************************************************************************)
EXTENDS OrderProofs

-----------------------------------------------------------------------------
(* Flow control.                                                           *)

\* The packets in the buffer of the receiver that are not in the buffer of the
\* sender any more once the first j answers on their way have arrived.
AckedBy(j) ==
  {q \in rw.buf : \A p \in sw.buf : p.chunk = q.chunk =>
     \E i \in DOMAIN toSender :
       i <= j /\ IsAck(toSender[i]) /\ Concerns(toSender[i], p)}

\* The size of the sending window, now and after each answer on its way, leaves
\* room for them in the buffer of the receiver, so that what the sender has not
\* sent yet fits the receiving window.
FlowInv ==
  /\ nread <= rw.pos + Capacity
  /\ Cardinality(AckedBy(0)) + sw.size <= Capacity
  /\ \A j \in DOMAIN toSender :
       Cardinality(AckedBy(j)) + toSender[j].window <= Capacity

\* The types the proofs below need.
LEMMA FlowTypes ==
  ASSUME AckInv
  PROVE  /\ IsFiniteSet(rw.buf) /\ \A j : AckedBy(j) \subseteq rw.buf
         /\ Capacity \in Nat \ {0} /\ sw.size \in Nat
         /\ \A j \in DOMAIN toSender : toSender[j].window \in Nat
<1>1. \A j \in DOMAIN toSender : toSender[j] \in Answers
  BY OrderTypes
<1> QED BY <1>1, OrderTypes, PacketTypes, WindowAssumption
        DEF ReceiverWindowOK, AckedBy

\* Fewer packets leave room for a window of the same size.
LEMMA FewerLeaveRoom ==
  ASSUME AckInv, NEW S, S \subseteq rw.buf, NEW T, T \subseteq S, NEW k \in Nat,
         Cardinality(S) + k <= Capacity
  PROVE  Cardinality(T) + k <= Capacity
<1>1. IsFiniteSet(S) /\ IsFiniteSet(T) /\ Cardinality(T) <= Cardinality(S)
  BY FlowTypes, FS_Subset
<1>2. Cardinality(S) \in Nat /\ Cardinality(T) \in Nat
  BY <1>1, FS_CardinalityType
<1> QED BY <1>1, <1>2, FlowTypes

\* The packets in the buffer of the receiver are behind the next one.
LEMMA BufferIsAhead ==
  ASSUME Orderly, AckInv, OrderInv, NEW q \in rw.buf
  PROVE  q.chunk \in Nat /\ q.chunk > rw.pos
<1>1. q.chunk \in Nat /\ q.seqnum = q.chunk
  BY OrderTypes, PacketTypes
<1>2. PICK k \in 1 .. (Capacity - 1) : q.seqnum = (rw.pos + k) % SeqSpace
  BY DEF AckInv, StampInv, RoomInv, IsAhead
<1>3. PICK n \in Nat : n = rw.pos
  BY OrderTypes
<1>4. n <= NChunks
  BY <1>1, <1>3, WindowIsInterval
<1>5. n + k \in Nat /\ n + k < SeqSpace /\ n + k > n
  BY <1>4, PacketAssumption, WindowAssumption DEF Orderly
<1>6. (n + k) % SeqSpace = n + k
  BY <1>5, ModSmall
<1> QED BY <1>1, <1>2, <1>3, <1>5, <1>6

\* The invariant survives answers that disappear, if those left tell the
\* sender no more than before.
LEMMA FlowShifts ==
  ASSUME AckInv, FlowInv, NEW e \in Nat, Shifted(toSender, toSender', e),
         rw'.pos = rw.pos, nread' <= rw.pos + Capacity,
         \A j \in DOMAIN toSender' : AckedBy(j)' \subseteq AckedBy(j + e),
         Cardinality(AckedBy(0)') + sw'.size <= Capacity
  PROVE  FlowInv'
<1>1. ASSUME NEW j \in DOMAIN toSender'
      PROVE  Cardinality(AckedBy(j)') + toSender'[j].window <= Capacity
  <2>1. j + e \in DOMAIN toSender /\ toSender'[j] = toSender[j + e]
    BY DEF Shifted
  <2>2. Cardinality(AckedBy(j + e)) + toSender[j + e].window <= Capacity
    BY <2>1 DEF FlowInv
  <2>3. AckedBy(j)' \subseteq AckedBy(j + e) /\ AckedBy(j + e) \subseteq rw.buf
        /\ toSender[j + e].window \in Nat
    BY <2>1, FlowTypes
  <2> QED BY <2>1, <2>2, <2>3, FewerLeaveRoom
<1> QED BY <1>1 DEF FlowInv

\* A datagram is delivered to the receiver and dropped, or lost: flow control
\* is not concerned, or by an answer only.
LEMMA FlowPasses ==
  ASSUME AckInv, FlowInv, NEW e \in Nat, Shifted(toSender, toSender', e),
         sw'.buf = sw.buf, sw'.size = sw.size, rw' = rw, nread' = nread
  PROVE  FlowInv'
<1>0. \A i \in DOMAIN toSender' : /\ i \in Nat \ {0} /\ i + e \in DOMAIN toSender
                                  /\ toSender'[i] = toSender[i + e]
  BY DEF Shifted
<1>1. ASSUME NEW j \in DOMAIN toSender'
      PROVE  AckedBy(j)' \subseteq AckedBy(j + e)
  <2>1. \A i \in DOMAIN toSender' : i <= j => i + e <= j + e
    BY <1>0
  <2> QED BY <1>0, <2>1 DEF AckedBy
<1>2. AckedBy(0)' \subseteq AckedBy(0)
  <2>1. \A i \in DOMAIN toSender' : ~(i <= 0)
    BY <1>0
  <2> QED BY <2>1 DEF AckedBy
<1>3. Cardinality(AckedBy(0)') + sw'.size <= Capacity
  BY <1>2, FlowTypes, FewerLeaveRoom DEF FlowInv
<1>4. nread' <= rw.pos + Capacity /\ rw'.pos = rw.pos
  BY DEF FlowInv
<1> QED BY <1>1, <1>3, <1>4, FlowShifts

\* The answer that arrives is taken into account already: handle_ack removes
\* nothing else, and a NACK takes no acknowledgment back.
LEMMA FlowAnswer ==
  ASSUME Orderly, AckInv, OrderInv, FlowInv, OrderInv', SelectAnswer,
         UNCHANGED receiverVars
  PROVE  FlowInv'
<1>1. PICK m \in Answers :
        /\ 1 \in DOMAIN toSender /\ m = toSender[1]
        /\ Shifted(toSender, toSender', 1)
        /\ sw' = ResizedTo(handle_answer(sw, m, loop_now'), m.window)
        /\ loop_now' \in 0 .. MaxStamp /\ loop_now' \in Nat
        /\ Genuine = sw.buf /\ nread' = nread
  BY AnswerArrives
<1>2. rw' = rw /\ nread' <= rw.pos + Capacity
  BY <1>1 DEF receiverVars, FlowInv
<1>3. \A i \in DOMAIN toSender' : /\ i \in Nat \ {0} /\ i + 1 \in DOMAIN toSender
                                  /\ toSender'[i] = toSender[i + 1]
  BY <1>1 DEF Shifted
<1>4. ASSUME NEW j \in Nat, NEW q \in rw.buf, q \in AckedBy(j)',
             NEW p \in sw.buf, p.chunk = q.chunk
      PROVE  \E i \in DOMAIN toSender :
               i <= j + 1 /\ IsAck(toSender[i]) /\ Concerns(toSender[i], p)
  <2>1. ASSUME NEW r \in sw'.buf, r.chunk = q.chunk
        PROVE  \E i \in DOMAIN toSender' :
                 i <= j /\ IsAck(toSender'[i]) /\ Concerns(toSender'[i], r)
    BY <1>4, <2>1 DEF AckedBy
  <2>2. ASSUME NEW i \in DOMAIN toSender', i <= j,
               IsAck(toSender'[i]), Concerns(toSender'[i], p)
        PROVE  \E k \in DOMAIN toSender :
                 k <= j + 1 /\ IsAck(toSender[k]) /\ Concerns(toSender[k], p)
    <3>1. i + 1 <= j + 1
      BY <1>3, <2>2
    <3> QED BY <1>3, <2>2, <3>1
  <2>3. CASE IsAck(m)
    <3>1. sw' = ResizedTo(handle_ack(sw, m), m.window)
      BY <1>1, <2>3 DEF handle_answer, IsAck
    <3>2. sw'.buf = {r \in sw.buf : r.chunk >= m.seqnum /\ ~Concerns(m, r)}
      BY <1>1, <2>3, <3>1, AckPops
    <3>3. CASE p \in sw'.buf
      BY <1>4, <2>1, <2>2, <3>3
    <3>4. CASE Concerns(m, p)
      <4>1. 1 <= j + 1
        OBVIOUS
      <4> QED BY <1>1, <2>3, <3>4, <4>1
    <3>5. CASE ~(p.chunk >= m.seqnum)
      <4>1. m.seqnum <= rw.pos /\ q.chunk \in Nat /\ q.chunk > rw.pos
        BY <1>1, <2>3, BufferIsAhead DEF OrderInv, PositionInv
      <4>2. m.seqnum \in Nat /\ rw.pos \in Nat
        BY OrderTypes, PacketTypes
      <4> QED BY <1>4, <3>5, <4>1, <4>2
    <3> QED BY <3>2, <3>3, <3>4, <3>5
  <2>4. CASE ~IsAck(m)
    <3>1. sw' = ResizedTo(handle_nack(sw, m, loop_now'), m.window)
      BY <1>1, <2>4 DEF handle_answer, IsAck
    <3>2. Restamps(sw, sw', m, loop_now')
      BY <1>1, <2>4, <3>1, OrderTypes, NackRestamps
    <3>3. PICK f \in [sw.buf -> Faithful] :
            /\ sw'.buf = {f[r] : r \in sw.buf}
            /\ \A r \in sw.buf : /\ f[r].chunk = r.chunk
                                 /\ f[r] = r \/ f[r].timestamp = loop_now'
      BY <3>2 DEF Restamps
    <3>4. f[p] \in sw'.buf /\ f[p].chunk = q.chunk
      BY <1>4, <3>3
    <3>5. PICK i \in DOMAIN toSender' :
            i <= j /\ IsAck(toSender'[i]) /\ Concerns(toSender'[i], f[p])
      BY <2>1, <3>4
    <3>6. f[p] \in Genuine'
      BY <3>4, <3>5 DEF OrderInv, AnswerInv
    <3>7. f[p].timestamp > loop_now'
      BY <3>6 DEF Genuine
    <3>8. f[p] = p
      BY <1>1, <3>3, <3>7
    <3> QED BY <2>2, <3>5, <3>8
  <2> QED BY <2>3, <2>4
<1>5. \A j \in Nat : AckedBy(j)' \subseteq AckedBy(j + 1)
  <2> SUFFICES ASSUME NEW j \in Nat, NEW q \in AckedBy(j)' PROVE q \in AckedBy(j + 1)
    OBVIOUS
  <2>1. q \in rw.buf
    BY <1>2 DEF AckedBy
  <2> QED BY <1>4, <2>1 DEF AckedBy
<1>6. sw'.size = m.window
  <2>1. CASE IsAck(m)
    <3>1. sw' = ResizedTo(handle_ack(sw, m), m.window)
      BY <1>1, <2>1 DEF handle_answer, IsAck
    <3> QED BY <1>1, <2>1, <3>1, AckPops
  <2>2. CASE ~IsAck(m)
    <3>1. sw' = ResizedTo(handle_nack(sw, m, loop_now'), m.window)
      BY <1>1, <2>2 DEF handle_answer, IsAck
    <3>2. Restamps(sw, sw', m, loop_now')
      BY <1>1, <2>2, <3>1, OrderTypes, NackRestamps
    <3> QED BY <3>2 DEF Restamps
  <2> QED BY <2>1, <2>2
<1>7. Cardinality(AckedBy(0)') + sw'.size <= Capacity
  <2>1. Cardinality(AckedBy(1)) + m.window <= Capacity
    BY <1>1 DEF FlowInv
  <2>2. AckedBy(0)' \subseteq AckedBy(1) /\ AckedBy(1) \subseteq rw.buf
        /\ m.window \in Nat
    BY <1>1, <1>5, FlowTypes
  <2> QED BY <1>6, <2>1, <2>2, FewerLeaveRoom
<1>8. \A j \in DOMAIN toSender' : AckedBy(j)' \subseteq AckedBy(j + 1)
  BY <1>3, <1>5
<1> QED BY <1>1, <1>2, <1>7, <1>8, FlowShifts

\* The transmission of x, be it new or in the place of its previous
\* transmission, acknowledges nothing.
LEMMA FlowTransmits ==
  ASSUME AckInv, FlowInv, NEW x \in sw'.buf, x.timestamp = clock + 1,
         \A p \in sw.buf : p \in sw'.buf \/ p.chunk = x.chunk,
         sw'.size = sw.size, rw' = rw, toSender' = toSender,
         nread' <= rw.pos + Capacity
  PROVE  FlowInv'
<1>1. \A i \in DOMAIN toSender : ~(IsAck(toSender[i]) /\ Concerns(toSender[i], x))
  <2>1. \A j \in DOMAIN toSender : IsAck(toSender[j]) => toSender[j].timestamp <= clock
    BY OrderTypes
  <2>2. clock \in Nat
    BY OrderTypes
  <2> QED BY <2>1, <2>2 DEF Concerns
<1>2. ASSUME NEW j PROVE AckedBy(j)' \subseteq AckedBy(j)
  <2> SUFFICES ASSUME NEW q \in AckedBy(j)' PROVE q \in AckedBy(j)
    OBVIOUS
  <2>1. /\ q \in rw.buf
        /\ \A p \in sw'.buf : p.chunk = q.chunk =>
             \E i \in DOMAIN toSender :
               i <= j /\ IsAck(toSender[i]) /\ Concerns(toSender[i], p)
    BY DEF AckedBy
  <2>2. q.chunk # x.chunk
    BY <1>1, <2>1
  <2> QED BY <2>1, <2>2 DEF AckedBy
<1>3. Cardinality(AckedBy(0)') + sw'.size <= Capacity
  BY <1>2, FlowTypes, FewerLeaveRoom DEF FlowInv
<1>4. Shifted(toSender, toSender', 0)
  BY OrderTypes, NotShifted
<1>5. \A j \in DOMAIN toSender' : j + 0 = j
  BY <1>4 DEF Shifted
<1>6. \A j \in DOMAIN toSender' : AckedBy(j)' \subseteq AckedBy(j + 0)
  BY <1>2, <1>5
<1> QED BY <1>3, <1>4, <1>6, FlowShifts

\* A set of packets carries at most as many chunks as there are packets.
LEMMA ChunksAreFew ==
  ASSUME NEW S, IsFiniteSet(S)
  PROVE  /\ IsFiniteSet({p.chunk : p \in S})
         /\ Cardinality({p.chunk : p \in S}) <= Cardinality(S)
<1> DEFINE f == [p \in S |-> p.chunk]
<1>1. f \in Surjection(S, {p.chunk : p \in S})
  BY DEF Surjection
<1> QED BY <1>1, FS_Surjection

\* What lies between the windows and is not in the buffer of the sender is in
\* the buffer of the receiver: as the sending window is not full, the chunk
\* that is sent next fits the receiving window.
LEMMA NextFits ==
  ASSUME AckInv, OrderInv, FlowInv, nread <= NChunks, ~window_full(sw)
  PROVE  nread + 1 <= rw.pos + Capacity
<1>1. PICK n \in Nat : n = nread
  BY OrderTypes
<1>2. PICK r \in Nat : r = rw.pos
  BY OrderTypes
<1>3. r <= n /\ n <= NChunks /\ NChunks \in Nat
  BY <1>1, <1>2, OrderTypes DEF OrderInv, KeepInv
<1> DEFINE S == {p.chunk : p \in sw.buf}
           T == {q.chunk : q \in AckedBy(0)}
<1>4. ASSUME NEW c \in r .. (n - 1) PROVE c \in S \cup T
  <2>1. c \in Nat /\ c < nread /\ ~(c < rw.pos) /\ c # Eof
    BY <1>1, <1>2, <1>3 DEF Eof
  <2>2. (\E p \in sw.buf : p.chunk = c) \/ (\E q \in rw.buf : q.chunk = c)
    BY <2>1 DEF OrderInv, KeepInv, Held
  <2>3. ASSUME NEW q \in rw.buf, q.chunk = c, \A p \in sw.buf : p.chunk # c
        PROVE  q \in AckedBy(0)
    BY <2>3 DEF AckedBy
  <2> QED BY <2>2, <2>3
<1>5. /\ IsFiniteSet(sw.buf) /\ IsFiniteSet(AckedBy(0))
      /\ Cardinality(sw.buf) \in Nat /\ Cardinality(AckedBy(0)) \in Nat
  BY OrderTypes, FlowTypes, FS_Subset, FS_CardinalityType
<1>6. /\ IsFiniteSet(S) /\ Cardinality(S) <= Cardinality(sw.buf)
      /\ IsFiniteSet(T) /\ Cardinality(T) <= Cardinality(AckedBy(0))
  BY <1>5, ChunksAreFew
<1> HIDE DEF S, T
<1>7. IsFiniteSet(S \cup T)
      /\ Cardinality(S \cup T) <= Cardinality(sw.buf) + Cardinality(AckedBy(0))
  <2>1. IsFiniteSet(S \cap T)
    BY <1>6, FS_Subset
  <2>2. Cardinality(S) \in Nat /\ Cardinality(T) \in Nat /\ Cardinality(S \cap T) \in Nat
    BY <1>6, <2>1, FS_CardinalityType
  <2>3. IsFiniteSet(S \cup T)
        /\ Cardinality(S \cup T) = Cardinality(S) + Cardinality(T) - Cardinality(S \cap T)
    BY <1>6, FS_Union
  <2> QED BY <1>5, <1>6, <2>2, <2>3
<1>8. Cardinality(r .. (n - 1)) <= Cardinality(S \cup T)
  BY <1>4, <1>7, FS_Subset
<1>9. Cardinality(r .. (n - 1)) = n - r
  <2>1. r \in Int /\ n - 1 \in Int
    OBVIOUS
  <2>2. Cardinality(r .. (n - 1)) = IF r > n - 1 THEN 0 ELSE (n - 1) - r + 1
    BY <2>1, FS_Interval
  <2> QED BY <1>3, <2>2
<1>10. Cardinality(S \cup T) \in Nat /\ sw.size \in Nat /\ Capacity \in Nat
  BY <1>7, FS_CardinalityType, FlowTypes
<1>11. Cardinality(sw.buf) < sw.size /\ Cardinality(AckedBy(0)) + sw.size <= Capacity
  BY <1>5, <1>10 DEF window_full, window_buffer_size, FlowInv
<1> QED BY <1>1, <1>2, <1>5, <1>7, <1>8, <1>9, <1>10, <1>11

\* The sender keeps flow control.
LEMMA FlowSenderStep ==
  ASSUME Orderly, AckInv, OrderInv, FlowInv, OrderInv', SenderNext,
         UNCHANGED receiverVars
  PROVE  FlowInv'
<1>0. Shifted(toSender, toSender, 0) /\ rw' = rw /\ nread <= rw.pos + Capacity
  BY OrderTypes, NotShifted DEF receiverVars, FlowInv
<1>1. CASE SelectAnswer
  BY <1>1, FlowAnswer
<1>2. CASE RetransmitOne
  <2>1. PICK p \in sw.buf : Transmit(p, [sw EXCEPT !.buf = @ \ {p}])
    BY <1>2 DEF RetransmitOne, window_peek_min_timestamp
  <2>x. PICK x : x = [p EXCEPT !.timestamp = clock + 1]
    OBVIOUS
  <2>2. sw \in Windows /\ p \in DataPackets
    BY OrderTypes, PacketTypes
  <2>3. x.timestamp = clock + 1 /\ x.chunk = p.chunk
    BY <2>2, <2>x DEF DataPackets
  <2>4. sw' = window_push([sw EXCEPT !.buf = @ \ {p}], x)
    BY <2>1, <2>x DEF Transmit
  <2>5. sw'.buf = (sw.buf \ {p}) \cup {x} /\ sw'.size = sw.size
    BY <2>2, <2>4 DEF window_push, Windows
  <2>6. x \in sw'.buf /\ \A r \in sw.buf : r \in sw'.buf \/ r.chunk = x.chunk
    BY <2>3, <2>5
  <2>7. toSender' = toSender /\ nread' = nread
    BY <1>2 DEF RetransmitOne
  <2> QED BY <1>0, <2>3, <2>5, <2>6, <2>7, FlowTransmits
<1>3. CASE SendNext
  <2>1. /\ ~sent_eof /\ ~window_full(sw) /\ Transmit(Data(next, 0, nread), sw)
        /\ nread' = nread + 1 /\ toSender' = toSender
    BY <1>3 DEF SendNext, MayFill
  <2>x. PICK x : x = [Data(next, 0, nread) EXCEPT !.timestamp = clock + 1]
    OBVIOUS
  <2>2. x.timestamp = clock + 1
    BY <2>x DEF Data
  <2>3. sw' = window_push(sw, x)
    BY <2>1, <2>x DEF Transmit
  <2>4. sw'.buf = sw.buf \cup {x} /\ sw'.size = sw.size
    BY <2>3, OrderTypes DEF window_push, Windows
  <2>5. nread <= NChunks
    BY <2>1, PacketAssumption DEF AckInv, DeliveryInv, TypeInv, TypeOK
  <2>6. nread' <= rw.pos + Capacity
    BY <2>1, <2>5, NextFits
  <2>7. x \in sw'.buf /\ \A r \in sw.buf : r \in sw'.buf
    BY <2>4
  <2> QED BY <1>0, <2>1, <2>2, <2>4, <2>6, <2>7, FlowTransmits
<1>4. CASE SelectTimeout \/ EndIteration \/ SenderFails
  <2>1. sw' = sw /\ nread' = nread /\ toSender' = toSender
    BY <1>4 DEF SelectTimeout, EndIteration, SenderFails, netVars
  <2> QED BY <1>0, <2>1, FlowPasses
<1> QED BY <1>1, <1>2, <1>3, <1>4 DEF SenderNext

\* The receiver offers the room its buffer has.
LEMMA OfferLeavesRoom ==
  ASSUME NEW w, ReceiverWindowOK(w), IsDistinct(w), \A p \in w.buf : IsAhead(w, p),
         NEW S, S \subseteq w.buf
  PROVE  Cardinality(S) + window_available(w) <= Capacity
<1>1. Cardinality(w.buf) \in 0 .. (Capacity - 1)
  BY AheadAreFew
<1>2. w.size = Capacity /\ Capacity \in Nat /\ IsFiniteSet(w.buf)
  BY WindowAssumption DEF ReceiverWindowOK
<1>3. window_available(w) = Capacity - Cardinality(w.buf)
  BY <1>1, <1>2 DEF window_available, window_buffer_size
<1>4. Cardinality(S) \in Nat /\ Cardinality(S) <= Cardinality(w.buf)
  BY <1>2, FS_Subset, FS_CardinalityType
<1> QED BY <1>1, <1>2, <1>3, <1>4

\* The invariant survives that the receiver takes the packet d of its window
\* and answers it with a: the answers sent before say nothing about d.
LEMMA FlowAnswering ==
  ASSUME AckInv, OrderInv, FlowInv, AckInv',
         1 \in DOMAIN toReceiver, NEW d, d = toReceiver[1], d.seqnum >= rw.pos,
         NEW a, Extended(toSender, toSender', a), a.window = window_available(rw'),
         rw'.buf \subseteq rw.buf \cup {d}, rw'.pos \in Nat, rw.pos <= rw'.pos,
         sw' = sw, nread' = nread
  PROVE  FlowInv'
<1>1. PICK p \in sw.buf : Pending(1, p)
  BY DEF OrderInv, DataInv
<1>2. d.chunk = p.chunk /\ \A j \in DOMAIN toSender : ~Concerns(toSender[j], p)
  BY <1>1 DEF OrderInv, AnswerInv, Pending
<1>l. PICK new : new = Len(toSender) + 1
  OBVIOUS
<1>3. /\ DOMAIN toSender' = DOMAIN toSender \cup {new}
      /\ toSender'[new] = a
      /\ \A j \in DOMAIN toSender : toSender'[j] = toSender[j]
  BY <1>l DEF Extended
<1>4. \A j \in DOMAIN toSender \cup {0} : ~(new <= j)
  BY <1>l, OrderTypes
<1>5. ASSUME NEW j, ~(new <= j) PROVE AckedBy(j)' \subseteq AckedBy(j)
  <2> SUFFICES ASSUME NEW q \in AckedBy(j)' PROVE q \in AckedBy(j)
    OBVIOUS
  <2>1. /\ q \in rw.buf \cup {d}
        /\ \A r \in sw.buf : r.chunk = q.chunk =>
             \E i \in DOMAIN toSender' :
               i <= j /\ IsAck(toSender'[i]) /\ Concerns(toSender'[i], r)
    BY DEF AckedBy
  <2>2. \A r \in sw.buf : r.chunk = q.chunk =>
          \E i \in DOMAIN toSender :
            i <= j /\ IsAck(toSender[i]) /\ Concerns(toSender[i], r)
    BY <1>3, <1>5, <2>1
  <2>3. q # d
    BY <1>2, <2>2
  <2> QED BY <2>1, <2>2, <2>3 DEF AckedBy
<1>6. Cardinality(AckedBy(0)') + sw'.size <= Capacity
  BY <1>4, <1>5, FlowTypes, FewerLeaveRoom DEF FlowInv
<1>7. ASSUME NEW j \in DOMAIN toSender
      PROVE  Cardinality(AckedBy(j)') + toSender'[j].window <= Capacity
  <2>1. Cardinality(AckedBy(j)) + toSender[j].window <= Capacity
    BY DEF FlowInv
  <2>2. AckedBy(j)' \subseteq AckedBy(j) /\ AckedBy(j) \subseteq rw.buf
        /\ toSender[j].window \in Nat
    BY <1>4, <1>5, FlowTypes
  <2> QED BY <1>3, <2>1, <2>2, FewerLeaveRoom
<1>8. Cardinality(AckedBy(new)') + toSender'[new].window <= Capacity
  <2>1. AckedBy(new)' \subseteq rw'.buf
    BY DEF AckedBy
  <2>2. /\ ReceiverWindowOK(rw') /\ IsDistinct(rw')
        /\ \A q \in rw'.buf : IsAhead(rw', q)
    BY DEF AckInv, StampInv, RoomInv, TypeInv
  <2>3. Cardinality(AckedBy(new)') + window_available(rw') <= Capacity
    BY <2>1, <2>2, OfferLeavesRoom
  <2> QED BY <1>3, <2>3
<1>9. nread' <= rw'.pos + Capacity
  <2>1. nread <= rw.pos + Capacity
    BY DEF FlowInv
  <2>2. nread \in Nat /\ rw.pos \in Nat /\ Capacity \in Nat
    BY OrderTypes, FlowTypes
  <2> QED BY <2>1, <2>2
<1> QED BY <1>3, <1>6, <1>7, <1>8, <1>9 DEF FlowInv

\* Refusing the truncated packet d and answering it with a NACK a.
Refused(d, a) ==
  /\ 1 \in DOMAIN toReceiver /\ d = toReceiver[1] /\ d.tr /\ d \in Faithful
  /\ d.chunk >= rw.pos
  /\ Carries(toReceiver, toReceiver', 1)
  /\ Shifted(toReceiver, toReceiver', 1)
  /\ Extended(toSender, toSender', a)
  /\ ~IsAck(a) /\ a.seqnum = d.seqnum /\ a.window = window_available(rw)
  /\ rw' = rw /\ written' = written

\* Every step that refuses a packet is of this form.
LEMMA Refusal ==
  ASSUME Orderly, AckInv, OrderInv, RefuseTruncated
  PROVE  \E d, a : Refused(d, a)
<1>1. PICK i \in DOMAIN toReceiver :
        /\ Receive(i)
        /\ window_has(rw, toReceiver[i].seqnum)
        /\ toReceiver[i].tr
        /\ toSender' = Append(toSender, Nack(window_available(rw),
                                             toReceiver[i].seqnum))
        /\ rw' = rw /\ written' = written
  BY DEF RefuseTruncated, receiverVars
<1>d. PICK d : d = toReceiver[1]
  OBVIOUS
<1>a. PICK a : a = Nack(window_available(rw), d.seqnum)
  OBVIOUS
<1>2. /\ i = 1 /\ 1 \in DOMAIN toReceiver /\ d \in Faithful
      /\ Carries(toReceiver, toReceiver', 1)
  BY <1>1, <1>d, FirstReceived
<1>3. Shifted(toReceiver, toReceiver', 1)
  BY <1>1, OrderTypes, FirstOut DEF Receive
<1>4. ~IsAck(a) /\ a.seqnum = d.seqnum /\ a.window = window_available(rw)
  BY <1>a DEF IsAck, Nack
<1>5. Extended(toSender, toSender', a)
  BY <1>1, <1>2, <1>d, <1>a, OrderTypes, LastIn
<1>6. d.chunk >= rw.pos
  BY <1>1, <1>2, <1>d, PacketTypes, WindowIsInterval
<1>7. Refused(d, a)
  BY <1>1, <1>2, <1>3, <1>4, <1>5, <1>6, <1>d DEF Refused
<1> QED BY <1>7

\* The receiver keeps flow control.
LEMMA FlowReceiverStep ==
  ASSUME Orderly, AckInv, OrderInv, FlowInv, AckInv', ReceiverNext,
         UNCHANGED senderVars
  PROVE  FlowInv'
<1>0. Shifted(toSender, toSender, 0) /\ sw' = sw /\ nread' = nread
  BY OrderTypes, NotShifted DEF senderVars
<1>1. CASE IgnoreOutOfWindow \/ ReceiverFails \/ FailDelivering
  <2>1. rw' = rw /\ toSender' = toSender
    BY <1>1 DEF IgnoreOutOfWindow, ReceiverFails, FailDelivering, receiverVars
  <2> QED BY <1>0, <2>1, FlowPasses
<1>2. CASE RefuseTruncated
  <2>1. PICK d, a : Refused(d, a)
    BY <1>2, Refusal
  <2>2. /\ 1 \in DOMAIN toReceiver /\ d = toReceiver[1] /\ d.seqnum >= rw.pos
        /\ Extended(toSender, toSender', a) /\ a.window = window_available(rw')
        /\ rw'.buf \subseteq rw.buf \cup {d} /\ rw'.pos \in Nat /\ rw.pos <= rw'.pos
    BY <2>1, OrderTypes, PacketTypes DEF Refused
  <2> QED BY <1>0, <2>2, FlowAnswering
<1>3. CASE AcceptData
  <2>1. PICK d, a : Accepted(d, a)
    BY <1>3, Acceptance
  <2>2. /\ 1 \in DOMAIN toReceiver /\ d = toReceiver[1] /\ d.seqnum >= rw.pos
        /\ Extended(toSender, toSender', a) /\ a.window = window_available(rw')
        /\ rw'.buf \subseteq rw.buf \cup {d} /\ rw'.pos \in Nat /\ rw.pos <= rw'.pos
    BY <2>1, PacketTypes DEF Accepted
  <2> QED BY <1>0, <2>2, FlowAnswering
<1> QED BY <1>1, <1>2, <1>3 DEF ReceiverNext

\* Losing and truncating datagrams keeps flow control.
LEMMA FlowNetworkStep ==
  ASSUME Orderly, AckInv, FlowInv, NetworkNext,
         UNCHANGED <<senderVars, receiverVars>>
  PROVE  FlowInv'
<1>0. Shifted(toSender, toSender, 0) /\ sw' = sw /\ nread' = nread /\ rw' = rw
  BY OrderTypes, NotShifted DEF senderVars, receiverVars
<1>1. CASE LoseData \/ Truncate
  <2>1. toSender' = toSender
    BY <1>1 DEF LoseData, Truncate
  <2> QED BY <1>0, <2>1, FlowPasses
<1>2. CASE LoseAnswer
  <2>1. Shifted(toSender, toSender', 1)
    BY <1>2, FirstOut, OrderTypes DEF LoseAnswer
  <2> QED BY <1>0, <2>1, FlowPasses
<1>3. ~DuplicateData /\ ~DuplicateAnswer
  BY DEF DuplicateData, DuplicateAnswer, Fault, Orderly
<1> QED BY <1>1, <1>2, <1>3 DEF NetworkNext

\* The invariant and those it rests on.
FlowingInv == OrderlyInv /\ FlowInv

\* At the start nothing is on its way, and the sending window holds one packet.
LEMMA FlowInit == Init => FlowingInv
<1> SUFFICES ASSUME Init PROVE FlowingInv
  OBVIOUS
<1>1. /\ sw.size = 1 /\ rw.buf = {} /\ rw.pos = 0 /\ nread = 0
      /\ DOMAIN toSender = {}
  BY DEF Init, SenderInit, ReceiverInit, NetworkInit, window_create
<1>2. Cardinality(AckedBy(0)) = 0
  BY <1>1, FS_EmptySet DEF AckedBy
<1>3. FlowInv
  BY <1>1, <1>2, WindowAssumption DEF FlowInv
<1> QED BY <1>3, OrderInit DEF FlowingInv

\* The invariant is inductive.
LEMMA FlowStep == Orderly => (FlowingInv /\ [Next]_vars => FlowingInv')
<1> SUFFICES ASSUME Orderly, OrderlyInv, FlowInv, [Next]_vars PROVE FlowingInv'
  BY DEF FlowingInv
<1>0. OrderlyInv'
  BY OrderStep
<1>1. AckInv /\ OrderInv /\ AckInv' /\ OrderInv'
  BY <1>0 DEF OrderlyInv
<1>2. CASE UNCHANGED vars
  <2>1. toSender' = toSender /\ sw' = sw /\ nread' = nread /\ rw' = rw
    BY <1>2 DEF vars, senderVars, receiverVars, netVars
  <2>2. Shifted(toSender, toSender, 0)
    BY <1>1, OrderTypes, NotShifted
  <2>3. FlowInv'
    BY <1>1, <2>1, <2>2, FlowPasses
  <2> QED BY <1>0, <2>3 DEF FlowingInv
<1>3. CASE Next
  BY <1>0, <1>1, <1>3, FlowSenderStep, FlowReceiverStep, FlowNetworkStep
     DEF Next, FlowingInv
<1> QED BY <1>2, <1>3

\* The resizing of the sending window keeps new packets, and those sent again,
\* from overrunning the receiving window, whatever is lost or truncated.
THEOREM NothingOverruns ==
  ASSUME Orderly
  PROVE  Spec => []WithinReceiverWindow
<1>1. FlowingInv /\ [Next]_vars => FlowingInv'
  BY FlowStep
<1>2. FlowingInv => WithinReceiverWindow
  <2> SUFFICES ASSUME AckInv, OrderInv, FlowInv, NEW i \in DOMAIN toReceiver
               PROVE  toReceiver[i].chunk < Len(written) + Capacity
    BY DEF FlowingInv, OrderlyInv, WithinReceiverWindow, InChannel
  <2>1. toReceiver[i] \in Faithful
    BY OrderTypes
  <2>2. toReceiver[i].chunk \in Nat
    BY <2>1, PacketTypes
  <2>3. toReceiver[i].chunk < nread /\ nread <= rw.pos + Capacity
        /\ rw.pos <= Len(written)
    BY DEF OrderInv, DataInv, PositionInv, FlowInv
  <2>4. nread \in Nat /\ rw.pos \in Nat /\ Len(written) \in Nat /\ Capacity \in Nat
    BY OrderTypes, FlowTypes
  <2> QED BY <2>2, <2>3, <2>4
<1> QED BY <1>1, <1>2, FlowInit, PTL DEF Spec

-----------------------------------------------------------------------------
(* Every retransmission answers a fault.                                   *)

\* An ACK on its way is about the packet.
Acknowledged(p) ==
  \E j \in DOMAIN toSender : IsAck(toSender[j]) /\ Concerns(toSender[j], p)

\* Something went wrong with the last transmission of the packet: it arrives
\* truncated, or not at all.
Owed(p) ==
  /\ \A i \in DOMAIN toReceiver : Pending(i, p) => toReceiver[i].tr
  /\ ~Acknowledged(p)

Debts == {p \in sw.buf : Owed(p)}

\* Each such transmission accounts for a fault, and so did each packet that was
\* sent again; what the receiver took and the sender keeps is acknowledged.
DebtInv ==
  /\ clock + Cardinality(Debts) <= nread + faults
  /\ \A p \in sw.buf : p.chunk < rw.pos \/ (\E q \in rw.buf : q.chunk = p.chunk) =>
       Acknowledged(p)

\* No other datagram disappears with the first.
LEMMA OthersStay ==
  ASSUME Orderly, NEW S, NEW s \in Seq(S), NEW i \in Deliverable(s)
  PROVE  \A k \in DOMAIN s :
           \/ k = 1
           \/ k - 1 \in DOMAIN RemoveAt(s, i) /\ RemoveAt(s, i)[k - 1] = s[k]
<1>1. i = 1 /\ 1 \in DOMAIN s
  BY DEF Orderly, Deliverable
<1>2. RemoveAt(s, 1) = Tail(s)
  BY <1>1 DEF RemoveAt
<1>3. \A k \in DOMAIN s :
        \/ k = 1
        \/ k - 1 \in DOMAIN Tail(s) /\ Tail(s)[k - 1] = s[k]
  BY <1>1
<1> QED BY <1>1, <1>2, <1>3

\* How many elements a set loses or wins.
LEMMA FewMore ==
  ASSUME NEW S, IsFiniteSet(S), NEW T
  PROVE  /\ Cardinality(S) \in Nat
         /\ T \subseteq S => Cardinality(T) \in Nat /\ Cardinality(T) <= Cardinality(S)
         /\ \A x : T \subseteq S \cup {x} =>
              Cardinality(T) \in Nat /\ Cardinality(T) <= Cardinality(S) + 1
         /\ \A x \in S : T \subseteq S \ {x} =>
              Cardinality(T) \in Nat /\ Cardinality(T) + 1 <= Cardinality(S)
         /\ \A f : (\A t \in T : \E s \in S : t = f[s]) =>
              Cardinality(T) \in Nat /\ Cardinality(T) <= Cardinality(S)
<1>1. Cardinality(S) \in Nat
  BY FS_CardinalityType
<1>2. ASSUME NEW R, IsFiniteSet(R), T \subseteq R
      PROVE  Cardinality(T) \in Nat /\ Cardinality(R) \in Nat
             /\ Cardinality(T) <= Cardinality(R)
  BY <1>2, FS_Subset, FS_CardinalityType
<1>3. ASSUME NEW x, T \subseteq S \cup {x}
      PROVE  Cardinality(T) \in Nat /\ Cardinality(T) <= Cardinality(S) + 1
  <2>1. IsFiniteSet(S \cup {x}) /\ Cardinality(S \cup {x}) <= Cardinality(S) + 1
    BY <1>1, FS_AddElement
  <2> QED BY <1>1, <1>2, <1>3, <2>1
<1>4. ASSUME NEW x \in S, T \subseteq S \ {x}
      PROVE  Cardinality(T) \in Nat /\ Cardinality(T) + 1 <= Cardinality(S)
  <2>1. IsFiniteSet(S \ {x}) /\ Cardinality(S \ {x}) = Cardinality(S) - 1
    BY <1>1, FS_RemoveElement
  <2> QED BY <1>1, <1>2, <1>4, <2>1
<1>5. ASSUME NEW f, \A t \in T : \E s \in S : t = f[s]
      PROVE  Cardinality(T) \in Nat /\ Cardinality(T) <= Cardinality(S)
  <2> DEFINE g == [s \in S |-> f[s]]
             R == {f[s] : s \in S}
  <2>1. g \in Surjection(S, R)
    BY DEF Surjection
  <2>2. IsFiniteSet(R) /\ Cardinality(R) <= Cardinality(S)
    BY <2>1, FS_Surjection
  <2>3. T \subseteq R
    BY <1>5
  <2> HIDE DEF R
  <2> QED BY <1>1, <1>2, <2>2, <2>3
<1> QED BY <1>1, <1>2, <1>3, <1>4, <1>5

\* The types the proofs below need.
LEMMA DebtTypes ==
  ASSUME AckInv
  PROVE  IsFiniteSet(Debts) /\ clock \in Nat /\ nread \in Nat /\ faults \in Nat
BY OrderTypes, FS_Subset DEF Debts

\* The invariant survives what changes no buffer, if no acknowledgment gets
\* lost and a fault concerns one transmission.
LEMMA DebtPasses ==
  ASSUME AckInv, OrderInv, DebtInv, NEW k,
         sw'.buf = sw.buf, rw'.pos = rw.pos, rw'.buf = rw.buf, clock' = clock,
         nread' = nread, faults' \in Nat,
         \A p \in sw.buf : Acknowledged(p) => Acknowledged(p)',
         \/ faults' = faults + 1
            /\ \A p \in sw.buf : Owed(p)' => Owed(p) \/ Pending(k, p)
         \/ faults' = faults /\ \A p \in sw.buf : Owed(p)' => Owed(p)
  PROVE  DebtInv'
<1>1. clock' + Cardinality(Debts') <= nread' + faults'
  <2>1. CASE faults' = faults + 1 /\ \A p \in sw.buf : Owed(p)' => Owed(p) \/ Pending(k, p)
    <3>1. PICK x : \A p \in sw.buf : Pending(k, p) => p = x
      <4>1. \A p, q \in sw.buf : Pending(k, p) /\ Pending(k, q) => p = q
        BY DEF OrderInv, BufferInv, Pending
      <4> QED BY <4>1
    <3>2. Debts' \subseteq Debts \cup {x}
      BY <2>1, <3>1 DEF Debts
    <3>3. Cardinality(Debts') \in Nat /\ Cardinality(Debts') <= Cardinality(Debts) + 1
      BY <3>2, DebtTypes, FewMore
    <3> QED BY <2>1, <3>3, DebtTypes, FewMore DEF DebtInv
  <2>2. CASE faults' = faults /\ \A p \in sw.buf : Owed(p)' => Owed(p)
    <3>1. Debts' \subseteq Debts
      BY <2>2 DEF Debts
    <3>2. Cardinality(Debts') \in Nat /\ Cardinality(Debts') <= Cardinality(Debts)
      BY <3>1, DebtTypes, FewMore
    <3> QED BY <2>2, <3>2, DebtTypes, FewMore DEF DebtInv
  <2> QED BY <2>1, <2>2
<1> QED BY <1>1 DEF DebtInv

\* handle_ack removes the packet whose acknowledgment it uses up, and nothing
\* else on its way is about a packet that handle_nack touches.
LEMMA DebtAnswer ==
  ASSUME Orderly, AckInv, OrderInv, DebtInv, SelectAnswer, UNCHANGED receiverVars
  PROVE  DebtInv'
<1>1. PICK m \in Answers :
        /\ 1 \in DOMAIN toSender /\ m = toSender[1]
        /\ sw' = ResizedTo(handle_answer(sw, m, loop_now'), m.window)
        /\ loop_now' \in 0 .. MaxStamp
        /\ Genuine = sw.buf
        /\ toReceiver' = toReceiver /\ nread' = nread /\ clock' = clock
  BY AnswerArrives
<1>2. rw' = rw /\ faults' = faults
  BY DEF receiverVars, SelectAnswer
<1>3. \A j \in DOMAIN toSender :
        \/ j = 1
        \/ j - 1 \in DOMAIN toSender' /\ toSender'[j - 1] = toSender[j]
  <2>1. PICK i \in Deliverable(toSender) : toSender' = RemoveAt(toSender, i)
    BY DEF SelectAnswer
  <2> QED BY <2>1, OrderTypes, OthersStay
<1>4. \A p, i : Pending(i, p)' <=> toReceiver[i].chunk = p.chunk
  BY <1>1 DEF Pending
<1>5. CASE IsAck(m)
  <2>1. sw' = ResizedTo(handle_ack(sw, m), m.window)
    BY <1>1, <1>5 DEF handle_answer, IsAck
  <2>2. sw'.buf \subseteq sw.buf /\ \A p \in sw'.buf : ~Concerns(m, p)
    BY <1>1, <1>5, <2>1, AckPops
  <2>3. \A p \in sw'.buf : Acknowledged(p) => Acknowledged(p)'
    BY <1>1, <1>3, <2>2 DEF Acknowledged
  <2>4. \A p \in sw'.buf : Owed(p)' => Owed(p)
    BY <1>1, <1>4, <2>3 DEF Owed, Pending
  <2>5. Debts' \subseteq Debts
    BY <2>2, <2>4 DEF Debts
  <2>6. Cardinality(Debts') \in Nat /\ Cardinality(Debts') <= Cardinality(Debts)
    BY <2>5, DebtTypes, FewMore
  <2>7. clock' + Cardinality(Debts') <= nread' + faults'
    BY <1>1, <1>2, <2>6, DebtTypes, FewMore DEF DebtInv
  <2> QED BY <1>2, <2>2, <2>3, <2>7 DEF DebtInv
<1>6. CASE ~IsAck(m)
  <2>1. sw' = ResizedTo(handle_nack(sw, m, loop_now'), m.window)
    BY <1>1, <1>6 DEF handle_answer, IsAck
  <2>2. Restamps(sw, sw', m, loop_now')
    BY <1>1, <1>6, <2>1, OrderTypes, NackRestamps
  <2>3. PICK f \in [sw.buf -> Faithful] :
          /\ sw'.buf = {f[p] : p \in sw.buf}
          /\ \A p \in sw.buf : /\ f[p].chunk = p.chunk
                               /\ f[p] = p \/ Concerns(m, p)
    BY <2>2 DEF Restamps
  <2>4. ASSUME NEW p \in sw.buf, Acknowledged(p)
        PROVE  Acknowledged(f[p])'
    <3>1. PICK j \in DOMAIN toSender : IsAck(toSender[j]) /\ Concerns(toSender[j], p)
      BY <2>4 DEF Acknowledged
    <3>2. j # 1 /\ 1 < j
      BY <1>1, <1>6, <3>1, OrderTypes
    <3>3. ~Concerns(m, p)
      BY <1>1, <3>1, <3>2 DEF OrderInv, AnswerInv
    <3>4. f[p] = p
      BY <2>3, <3>3
    <3> QED BY <1>3, <3>1, <3>2, <3>4 DEF Acknowledged
  <2>5. \A p \in sw.buf : Owed(f[p])' => Owed(p)
    BY <1>1, <1>4, <2>3, <2>4 DEF Owed, Pending
  <2>6. \A t \in Debts' : \E s \in Debts : t = f[s]
    BY <2>3, <2>5 DEF Debts
  <2>7. Cardinality(Debts') \in Nat /\ Cardinality(Debts') <= Cardinality(Debts)
    BY <2>6, DebtTypes, FewMore
  <2>8. clock' + Cardinality(Debts') <= nread' + faults'
    BY <1>1, <1>2, <2>7, DebtTypes, FewMore DEF DebtInv
  <2>9. \A p \in sw.buf : f[p].chunk < rw.pos \/ (\E q \in rw.buf : q.chunk = f[p].chunk) =>
          Acknowledged(f[p])'
    BY <2>3, <2>4 DEF DebtInv
  <2> QED BY <1>2, <2>3, <2>8, <2>9 DEF DebtInv
<1> QED BY <1>5, <1>6

\* The transmission of x is on its way untruncated, whatever became of the
\* transmission it takes the place of.
LEMMA DebtTransmits ==
  ASSUME AckInv, DebtInv, NEW rest \in SUBSET sw.buf, NEW x, ~x.tr,
         Extended(toReceiver, toReceiver', x), sw'.buf = rest \cup {x},
         rw' = rw, toSender' = toSender
  PROVE  /\ Debts' \subseteq Debts \cap rest
         /\ \A p \in rest : p.chunk < rw'.pos \/ (\E q \in rw'.buf : q.chunk = p.chunk) =>
              Acknowledged(p)'
<1>1. \A p : Acknowledged(p)' <=> Acknowledged(p)
  BY DEF Acknowledged
<1>2. ~Owed(x)'
  BY DEF Owed, Extended, Pending
<1>3. \A p \in rest : Owed(p)' => Owed(p)
  <2> SUFFICES ASSUME NEW p \in rest, Owed(p)',
                      NEW i \in DOMAIN toReceiver, Pending(i, p)
               PROVE  toReceiver[i].tr
    BY <1>1 DEF Owed
  <2>1. i \in DOMAIN toReceiver' /\ toReceiver'[i] = toReceiver[i]
    BY DEF Extended
  <2>2. Pending(i, p)'
    BY <2>1 DEF Pending
  <2> QED BY <2>1, <2>2 DEF Owed
<1>4. Debts' \subseteq Debts \cap rest
  BY <1>2, <1>3 DEF Debts
<1> QED BY <1>1, <1>4 DEF DebtInv

\* A packet that retransmit_packets sends again was owed.
LEMMA DebtRetransmits ==
  ASSUME AckInv, OrderInv, DebtInv, RetransmitOne, UNCHANGED receiverVars
  PROVE  DebtInv'
<1>1. PICK p \in sw.buf : p \in Due(sw, loop_now)
                          /\ Transmit(p, [sw EXCEPT !.buf = @ \ {p}])
  BY DEF RetransmitOne, window_peek_min_timestamp
<1>x. PICK x : x = [p EXCEPT !.timestamp = clock + 1]
  OBVIOUS
<1>2. /\ p \in DataPackets /\ p.timestamp \in Nat /\ loop_now \in Nat /\ sw \in Windows
  BY OrderTypes, PacketTypes
<1>3. ~HasToken(p)
  <2>1. p \notin Genuine
    BY <1>1, <1>2 DEF Due, Genuine
  <2> QED BY <2>1, TokensAreGenuine
<1>4. Owed(p) /\ ~Acknowledged(p)
  BY <1>3 DEF HasToken, Owed, Acknowledged
<1>5. x.tr = p.tr /\ x.chunk = p.chunk
  BY <1>2, <1>x DEF DataPackets
<1>6. /\ clock' = clock + 1 /\ toReceiver' = Append(toReceiver, x)
      /\ sw' = window_push([sw EXCEPT !.buf = @ \ {p}], x)
  BY <1>1, <1>x DEF Transmit
<1>7. sw'.buf = (sw.buf \ {p}) \cup {x}
  BY <1>2, <1>6 DEF window_push, Windows
<1>8. Extended(toReceiver, toReceiver', x)
  BY <1>6, OrderTypes, LastIn
<1>9. rw' = rw /\ toSender' = toSender /\ nread' = nread /\ faults' = faults
  BY DEF RetransmitOne, receiverVars
<1>10. ~x.tr
  BY <1>5 DEF OrderInv, BufferInv
<1>11. /\ Debts' \subseteq Debts \cap (sw.buf \ {p})
       /\ \A q \in sw.buf \ {p} :
            q.chunk < rw'.pos \/ (\E r \in rw'.buf : r.chunk = q.chunk) => Acknowledged(q)'
  BY <1>7, <1>8, <1>9, <1>10, DebtTransmits
<1>12. p \in Debts /\ Debts' \subseteq Debts \ {p}
  BY <1>4, <1>11 DEF Debts
<1>13. Cardinality(Debts') \in Nat /\ Cardinality(Debts') + 1 <= Cardinality(Debts)
  BY <1>12, DebtTypes, FewMore
<1>14. clock' + Cardinality(Debts') <= nread' + faults'
  BY <1>6, <1>9, <1>13, DebtTypes, FewMore DEF DebtInv
<1>15. ~(x.chunk < rw.pos \/ \E r \in rw.buf : r.chunk = x.chunk)
  BY <1>4, <1>5 DEF DebtInv
<1> QED BY <1>7, <1>9, <1>11, <1>14, <1>15 DEF DebtInv

\* A chunk that is sent for the first time is read for the first time.
LEMMA DebtSendsNext ==
  ASSUME AckInv, OrderInv, DebtInv, SendNext, UNCHANGED receiverVars
  PROVE  DebtInv'
<1>1. /\ Transmit(Data(next, 0, nread), sw) /\ nread' = nread + 1
      /\ toSender' = toSender /\ faults' = faults /\ rw' = rw
  BY DEF SendNext, receiverVars
<1>x. PICK x : x = [Data(next, 0, nread) EXCEPT !.timestamp = clock + 1]
  OBVIOUS
<1>2. ~x.tr /\ x.chunk = nread
  BY <1>x DEF Data
<1>3. /\ clock' = clock + 1 /\ toReceiver' = Append(toReceiver, x)
      /\ sw' = window_push(sw, x)
  BY <1>1, <1>x DEF Transmit
<1>4. sw'.buf = sw.buf \cup {x}
  BY <1>3, OrderTypes DEF window_push, Windows
<1>5. Extended(toReceiver, toReceiver', x)
  BY <1>3, OrderTypes, LastIn
<1>6. /\ Debts' \subseteq Debts \cap sw.buf
      /\ \A q \in sw.buf :
           q.chunk < rw'.pos \/ (\E r \in rw'.buf : r.chunk = q.chunk) => Acknowledged(q)'
  BY <1>1, <1>2, <1>4, <1>5, DebtTransmits
<1>7. Cardinality(Debts') \in Nat /\ Cardinality(Debts') <= Cardinality(Debts)
  BY <1>6, DebtTypes, FewMore
<1>8. clock' + Cardinality(Debts') <= nread' + faults'
  BY <1>1, <1>3, <1>7, DebtTypes, FewMore DEF DebtInv
<1>9. ~(x.chunk < rw.pos \/ \E r \in rw.buf : r.chunk = x.chunk)
  <2>1. rw.pos <= nread /\ \A r \in rw.buf : r.chunk < nread
    BY DEF OrderInv, KeepInv
  <2>2. rw.pos \in Nat /\ nread \in Nat
    BY OrderTypes
  <2> QED BY <1>2, <2>1, <2>2
<1> QED BY <1>1, <1>4, <1>6, <1>8, <1>9 DEF DebtInv

\* The sender keeps the invariant.
LEMMA DebtSenderStep ==
  ASSUME Orderly, AckInv, OrderInv, DebtInv, SenderNext, UNCHANGED receiverVars
  PROVE  DebtInv'
<1>1. CASE SelectAnswer
  BY <1>1, DebtAnswer
<1>2. CASE RetransmitOne
  BY <1>2, DebtRetransmits
<1>3. CASE SendNext
  BY <1>3, DebtSendsNext
<1>4. CASE SelectTimeout \/ EndIteration \/ SenderFails
  <2>1. /\ sw' = sw /\ nread' = nread /\ clock' = clock /\ rw' = rw
        /\ toSender' = toSender /\ toReceiver' = toReceiver
    BY <1>4 DEF SelectTimeout, EndIteration, SenderFails, netVars, receiverVars
  <2>2. \A p : (Acknowledged(p)' <=> Acknowledged(p)) /\ (Owed(p)' <=> Owed(p))
    BY <2>1 DEF Acknowledged, Owed, Pending
  <2>3. faults' = faults \/ faults' = faults + 1
    BY <1>4 DEF SelectTimeout, EndIteration, SenderFails, netVars, Fault
  <2>4. faults' \in Nat
    BY <2>3, OrderTypes
  <2>5. sw'.buf = sw.buf /\ rw'.pos = rw.pos /\ rw'.buf = rw.buf
    BY <2>1
  <2> QED BY <2>1, <2>2, <2>3, <2>4, <2>5, DebtPasses
<1> QED BY <1>1, <1>2, <1>3, <1>4 DEF SenderNext

\* Only the packet whose transmission leaves the channel can become owed.
LEMMA OwedOnce ==
  ASSUME Orderly, AckInv, NEW i \in Deliverable(toReceiver),
         toReceiver' = RemoveAt(toReceiver, i), NEW p,
         Acknowledged(p) => Acknowledged(p)', Owed(p)'
  PROVE  Owed(p) \/ (Pending(1, p) /\ ~toReceiver[1].tr)
<1>1. \A k \in DOMAIN toReceiver :
        \/ k = 1
        \/ k - 1 \in DOMAIN toReceiver' /\ toReceiver'[k - 1] = toReceiver[k]
  BY OrderTypes, OthersStay
<1>2. \A k \in DOMAIN toReceiver' : toReceiver'[k].chunk = p.chunk => toReceiver'[k].tr
  BY DEF Owed, Pending
<1>3. \A k \in DOMAIN toReceiver : k # 1 /\ Pending(k, p) => toReceiver[k].tr
  BY <1>1, <1>2 DEF Pending
<1>4. ~Acknowledged(p)
  BY DEF Owed
<1> QED BY <1>3, <1>4 DEF Owed

\* A packet in the buffer of the sender whose transmission is out of window has
\* been acknowledged, so that the transmission is not on its way.
LEMMA NoneIgnored ==
  ASSUME Orderly, AckInv, OrderInv, FlowInv, DebtInv, NEW p \in sw.buf,
         1 \in DOMAIN toReceiver, Pending(1, p)
  PROVE  window_has(rw, toReceiver[1].seqnum)
<1>d. PICK d : d = toReceiver[1]
  OBVIOUS
<1>1. d \in Faithful
  BY <1>d, OrderTypes
<1>2. d.seqnum = d.chunk /\ d.chunk \in Nat /\ d.chunk = p.chunk
  BY <1>1, <1>d, PacketTypes DEF Pending
<1>3. d.chunk < nread /\ nread <= rw.pos + Capacity
  BY <1>d DEF OrderInv, DataInv, FlowInv
<1>4. nread \in Nat /\ rw.pos \in Nat /\ Capacity \in Nat
  BY OrderTypes, FlowTypes
<1>5. ~Acknowledged(p)
  BY DEF OrderInv, AnswerInv, Acknowledged
<1>6. ~(p.chunk < rw.pos)
  BY <1>5 DEF DebtInv
<1> QED BY <1>2, <1>3, <1>4, <1>6, <1>d, WindowIsInterval

\* The receiver acknowledges the packet it accepts, and everything it takes
\* into its buffer or the file it has accepted before.
LEMMA DebtAccepts ==
  ASSUME Orderly, AckInv, OrderInv, DebtInv, AckInv', AcceptData,
         UNCHANGED senderVars
  PROVE  DebtInv'
<1>1. PICK d, a : Accepted(d, a)
  BY Acceptance
<1>2. PICK i \in Deliverable(toReceiver) : toReceiver' = RemoveAt(toReceiver, i)
  BY DEF AcceptData, Receive
<1>3. /\ 1 \in DOMAIN toReceiver /\ d = toReceiver[1] /\ d \in Faithful
      /\ d.chunk >= rw.pos
      /\ Extended(toSender, toSender', a)
      /\ IsAck(a) /\ a.timestamp = d.timestamp
      /\ rw'.buf \subseteq rw.buf \cup {d}
      /\ \A c \in Nat : rw.pos <= c /\ c < rw'.pos => \E q \in rw.buf \cup {d} : q.chunk = c
  BY <1>1 DEF Accepted
<1>4. sw' = sw /\ nread' = nread /\ clock' = clock /\ faults' = faults
  BY DEF senderVars, AcceptData
<1>5. PICK p \in sw.buf : Pending(1, p)
  BY <1>3, PacketTypes DEF OrderInv, DataInv
<1>6. d.timestamp = p.timestamp /\ d.chunk = p.chunk
      /\ \A q \in sw.buf : q.chunk = d.chunk => q = p
  BY <1>3, <1>5 DEF OrderInv, DataInv, BufferInv, Pending
<1>7. Acknowledged(p)'
  <2>1. Concerns(a, p)
    BY <1>3, <1>6 DEF Concerns
  <2> QED BY <1>3, <2>1 DEF Acknowledged, Extended
<1>8. \A q : Acknowledged(q) => Acknowledged(q)'
  BY <1>3 DEF Acknowledged, Extended
<1>9. Debts' \subseteq Debts
  <2> SUFFICES ASSUME NEW q \in sw.buf, Owed(q)' PROVE Owed(q)
    BY <1>4 DEF Debts
  <2>1. q # p
    BY <1>7 DEF Owed
  <2>2. ~Pending(1, q)
    BY <1>3, <1>6, <2>1 DEF Pending
  <2> QED BY <1>2, <1>8, <2>2, OwedOnce
<1>10. Cardinality(Debts') \in Nat /\ Cardinality(Debts') <= Cardinality(Debts)
  BY <1>9, DebtTypes, FewMore
<1>11. clock' + Cardinality(Debts') <= nread' + faults'
  BY <1>4, <1>10, DebtTypes, FewMore DEF DebtInv
<1>12. ASSUME NEW q \in sw.buf,
              q.chunk < rw'.pos \/ \E r \in rw'.buf : r.chunk = q.chunk
       PROVE  Acknowledged(q)'
  <2>1. q.chunk \in Nat /\ rw.pos \in Nat
    BY OrderTypes, PacketTypes
  <2>2. q.chunk < rw.pos \/ \E r \in rw.buf \cup {d} : r.chunk = q.chunk
    BY <1>3, <1>12, <2>1
  <2>3. CASE q.chunk = d.chunk
    BY <1>6, <1>7, <2>3
  <2>4. CASE q.chunk < rw.pos \/ \E r \in rw.buf : r.chunk = q.chunk
    BY <1>8, <2>4 DEF DebtInv
  <2> QED BY <2>2, <2>3, <2>4
<1> QED BY <1>4, <1>11, <1>12 DEF DebtInv

\* The receiver keeps the invariant.
LEMMA DebtReceiverStep ==
  ASSUME Orderly, AckInv, OrderInv, FlowInv, DebtInv, AckInv', ReceiverNext,
         UNCHANGED senderVars
  PROVE  DebtInv'
<1>0. /\ sw'.buf = sw.buf /\ nread' = nread /\ clock' = clock /\ faults \in Nat
  BY OrderTypes DEF senderVars
<1>1. CASE IgnoreOutOfWindow
  <2>1. PICK i \in DOMAIN toReceiver :
          Receive(i) /\ ~window_has(rw, toReceiver[i].seqnum)
    BY <1>1 DEF IgnoreOutOfWindow
  <2>2. i = 1 /\ i \in Deliverable(toReceiver) /\ toReceiver' = RemoveAt(toReceiver, i)
    BY <2>1, FirstReceived DEF Receive
  <2>3. rw' = rw /\ toSender' = toSender /\ faults' = faults
    BY <1>1 DEF IgnoreOutOfWindow, receiverVars
  <2>4. \A p : Acknowledged(p) => Acknowledged(p)'
    BY <2>3 DEF Acknowledged
  <2>5. \A p \in sw.buf : Owed(p)' => Owed(p)
    BY <2>1, <2>2, <2>4, NoneIgnored, OwedOnce
  <2>6. rw'.pos = rw.pos /\ rw'.buf = rw.buf /\ faults' \in Nat
    BY <1>0, <2>3
  <2> QED BY <1>0, <2>3, <2>4, <2>5, <2>6, DebtPasses
<1>2. CASE RefuseTruncated
  <2>1. PICK d, a : Refused(d, a)
    BY <1>2, Refusal
  <2>2. /\ d = toReceiver[1] /\ d.tr /\ Extended(toSender, toSender', a) /\ rw' = rw
    BY <2>1 DEF Refused
  <2>3. PICK i \in Deliverable(toReceiver) : toReceiver' = RemoveAt(toReceiver, i)
    BY <1>2 DEF RefuseTruncated, Receive
  <2>4. faults' = faults
    BY <1>2 DEF RefuseTruncated
  <2>5. \A p : Acknowledged(p) => Acknowledged(p)'
    BY <2>2 DEF Acknowledged, Extended
  <2>6. \A p \in sw.buf : Owed(p)' => Owed(p)
    BY <2>2, <2>3, <2>5, OwedOnce
  <2>7. rw'.pos = rw.pos /\ rw'.buf = rw.buf /\ faults' \in Nat
    BY <1>0, <2>2, <2>4
  <2> QED BY <1>0, <2>4, <2>5, <2>6, <2>7, DebtPasses
<1>3. CASE AcceptData
  BY <1>3, DebtAccepts
<1>4. CASE ReceiverFails
  <2>1. /\ toSender' = toSender /\ toReceiver' = toReceiver /\ rw' = rw
        /\ faults' = faults + 1
    BY <1>4 DEF ReceiverFails, Fault
  <2>2. \A p : (Acknowledged(p)' <=> Acknowledged(p)) /\ (Owed(p)' <=> Owed(p))
    BY <2>1 DEF Acknowledged, Owed, Pending
  <2>3. rw'.pos = rw.pos /\ rw'.buf = rw.buf /\ faults' \in Nat
    BY <1>0, <2>1
  <2> QED BY <1>0, <2>1, <2>2, <2>3, DebtPasses
<1>5. CASE FailDelivering
  <2>1. PICK i \in Deliverable(toReceiver) : toReceiver' = RemoveAt(toReceiver, i)
    BY <1>5 DEF FailDelivering, Receive
  <2>2. rw' = rw /\ toSender' = toSender /\ faults' = faults + 1
    BY <1>5 DEF FailDelivering, Fault
  <2>3. \A p : Acknowledged(p) => Acknowledged(p)'
    BY <2>2 DEF Acknowledged
  <2>4. \A p \in sw.buf : Owed(p)' => Owed(p) \/ Pending(1, p)
    BY <2>1, <2>3, OwedOnce
  <2>5. rw'.pos = rw.pos /\ rw'.buf = rw.buf /\ faults' \in Nat
    BY <1>0, <2>2
  <2> QED BY <1>0, <2>2, <2>3, <2>4, <2>5, DebtPasses
<1> QED BY <1>1, <1>2, <1>3, <1>4, <1>5 DEF ReceiverNext

\* The network keeps the invariant: each fault concerns one transmission.
LEMMA DebtNetworkStep ==
  ASSUME Orderly, "lose_ack" \notin Faults, AckInv, OrderInv, DebtInv, NetworkNext,
         UNCHANGED <<senderVars, receiverVars>>
  PROVE  DebtInv'
<1>0. /\ sw'.buf = sw.buf /\ nread' = nread /\ clock' = clock /\ rw' = rw
      /\ rw'.pos = rw.pos /\ rw'.buf = rw.buf /\ faults \in Nat
  BY OrderTypes DEF senderVars, receiverVars
<1>1. ~LoseAnswer /\ ~DuplicateData /\ ~DuplicateAnswer
  BY DEF LoseAnswer, DuplicateData, DuplicateAnswer, Fault, Orderly
<1>2. toSender' = toSender /\ faults' = faults + 1
  BY <1>1 DEF NetworkNext, LoseData, Truncate, Fault
<1>3. \A p : Acknowledged(p) <=> Acknowledged(p)'
  BY <1>2 DEF Acknowledged
<1>4. PICK k : \A p \in sw.buf : Owed(p)' => Owed(p) \/ Pending(k, p)
  <2>1. CASE LoseData
    <3>1. PICK i \in Deliverable(toReceiver) : toReceiver' = RemoveAt(toReceiver, i)
      BY <2>1 DEF LoseData
    <3>2. \A p \in sw.buf : Owed(p)' => Owed(p) \/ Pending(1, p)
      BY <1>3, <3>1, OwedOnce
    <3> QED BY <3>2
  <2>2. CASE Truncate
    <3>1. PICK i \in DOMAIN toReceiver : toReceiver' = [toReceiver EXCEPT ![i].tr = TRUE]
      BY <2>2 DEF Truncate
    <3>2. toReceiver \in Seq(DataPackets)
      BY OrderTypes DEF Faithful
    <3>3. DOMAIN toReceiver' = DOMAIN toReceiver
          /\ \A j \in DOMAIN toReceiver : j # i => toReceiver'[j] = toReceiver[j]
      BY <3>1, <3>2
    <3>4. toReceiver'[i].chunk = toReceiver[i].chunk
      <4>1. toReceiver'[i] = [toReceiver[i] EXCEPT !.tr = TRUE]
        BY <3>1, <3>2
      <4>2. toReceiver[i] \in DataPackets
        BY <3>2
      <4> QED BY <4>1, <4>2 DEF DataPackets
    <3>5. \A p \in sw.buf : Owed(p)' => Owed(p) \/ Pending(i, p)
      <4> SUFFICES ASSUME NEW p \in sw.buf, Owed(p)', ~Pending(i, p)
                   PROVE  Owed(p)
        OBVIOUS
      <4>1. \A j \in DOMAIN toReceiver' : toReceiver'[j].chunk = p.chunk => toReceiver'[j].tr
        BY DEF Owed, Pending
      <4>2. \A j \in DOMAIN toReceiver : Pending(j, p) => toReceiver[j].tr
        BY <3>3, <4>1 DEF Pending
      <4>3. ~Acknowledged(p)
        BY <1>3 DEF Owed
      <4> QED BY <4>2, <4>3 DEF Owed
    <3> QED BY <3>5
  <2> QED BY <1>1, <2>1, <2>2 DEF NetworkNext
<1>5. faults' \in Nat
  BY <1>0, <1>2
<1> QED BY <1>0, <1>2, <1>3, <1>4, <1>5, DebtPasses

\* The invariant and those it rests on.
OwingInv == FlowingInv /\ DebtInv

\* At the start nothing has been transmitted.
LEMMA DebtInit == Init => OwingInv
<1> SUFFICES ASSUME Init PROVE OwingInv
  OBVIOUS
<1>1. sw.buf = {} /\ clock = 0 /\ nread = 0 /\ faults = 0
  BY DEF Init, SenderInit, NetworkInit, window_create
<1>2. Cardinality(Debts) = 0
  BY <1>1, FS_EmptySet DEF Debts
<1>3. DebtInv
  BY <1>1, <1>2 DEF DebtInv
<1> QED BY <1>3, FlowInit DEF OwingInv

\* The invariant is inductive.
LEMMA DebtStep ==
  Orderly /\ "lose_ack" \notin Faults => (OwingInv /\ [Next]_vars => OwingInv')
<1> SUFFICES ASSUME Orderly, "lose_ack" \notin Faults, FlowingInv, DebtInv, [Next]_vars
             PROVE  OwingInv'
  BY DEF OwingInv
<1>0. FlowingInv'
  BY FlowStep
<1>1. AckInv /\ OrderInv /\ FlowInv /\ AckInv'
  BY <1>0 DEF FlowingInv, OrderlyInv
<1>2. CASE UNCHANGED vars
  <2>1. /\ sw' = sw /\ nread' = nread /\ clock' = clock /\ rw' = rw
        /\ toSender' = toSender /\ toReceiver' = toReceiver /\ faults' = faults
    BY <1>2 DEF vars, senderVars, receiverVars, netVars
  <2>2. \A p : (Acknowledged(p)' <=> Acknowledged(p)) /\ (Owed(p)' <=> Owed(p))
    BY <2>1 DEF Acknowledged, Owed, Pending
  <2>3. sw'.buf = sw.buf /\ rw'.pos = rw.pos /\ rw'.buf = rw.buf /\ faults' \in Nat
    BY <1>1, <2>1, OrderTypes
  <2>4. DebtInv'
    BY <1>1, <2>1, <2>2, <2>3, DebtPasses
  <2> QED BY <1>0, <2>4 DEF OwingInv
<1>3. CASE Next
  BY <1>0, <1>1, <1>3, DebtSenderStep, DebtReceiverStep, DebtNetworkStep
     DEF Next, OwingInv
<1> QED BY <1>2, <1>3

\* As long as no ACK is lost, a packet is sent again only to make up for a
\* fault: the timers and the NACKs cause no more retransmissions than packets
\* were lost or truncated, or stranded at a receiver that stopped.
THEOREM RetransmissionsAreNeeded ==
  ASSUME Orderly, "lose_ack" \notin Faults
  PROVE  Spec => []RetransmissionsAnswerFaults
<1>1. OwingInv /\ [Next]_vars => OwingInv'
  BY DebtStep
<1>2. OwingInv => RetransmissionsAnswerFaults
  <2> SUFFICES ASSUME AckInv, DebtInv PROVE RetransmissionsAnswerFaults
    BY DEF OwingInv, FlowingInv, OrderlyInv
  <2>1. Cardinality(Debts) \in Nat
    BY DebtTypes, FewMore
  <2> QED BY <2>1, DebtTypes DEF DebtInv, RetransmissionsAnswerFaults
<1> QED BY <1>1, <1>2, DebtInit, PTL DEF Spec

-----------------------------------------------------------------------------
(* The two programs implement FileCopy.                                    *)

\* The sender quits when the receiving window has reached the end of the file.
QuitInv == phase = "done" => rw.pos = NChunks

\* If the sender has sent everything and its buffer is empty, the receiver has
\* everything, and nothing of it waits in its buffer.
LEMMA FinishedIsDelivered ==
  ASSUME Orderly, AckInv, OrderInv, Finished
  PROVE  rw.pos = NChunks
<1>1. nread = NChunks + 1 /\ sw.buf = {}
  BY DEF Finished, window_empty, AckInv, DeliveryInv, TypeInv
<1>2. PICK r \in Nat : r = rw.pos
  BY OrderTypes
<1>3. r <= NChunks /\ NChunks \in Nat
  BY <1>2, OrderTypes, WindowIsInterval
<1>4. r < nread
  BY <1>1, <1>3
<1>5. Held(r)
  BY <1>1, <1>4 DEF OrderInv, KeepInv
<1>6. \A q \in rw.buf : q.chunk # r
  BY <1>2, BufferIsAhead
<1> QED BY <1>2, <1>5, <1>6 DEF Held

\* The sender quits in EndIteration only, and starts no iteration afterwards.
LEMMA QuittingStep ==
  ASSUME SenderNext
  PROVE  \/ EndIteration /\ Finished /\ phase # "done" /\ phase' = "done"
         \/ phase # "done" /\ phase' # "done"
<1>1. CASE SelectTimeout
  BY <1>1 DEF SelectTimeout
<1>2. CASE SelectAnswer
  BY <1>2 DEF SelectAnswer
<1>3. CASE RetransmitOne
  BY <1>3 DEF RetransmitOne
<1>4. CASE SendNext
  BY <1>4 DEF SendNext
<1>5. CASE EndIteration
  BY <1>5 DEF EndIteration
<1>6. CASE SenderFails
  BY <1>6 DEF SenderFails
<1> QED BY <1>1, <1>2, <1>3, <1>4, <1>5, <1>6 DEF SenderNext

\* The receiver moves its window forward, up to the end of the file.
LEMMA ReachingTheEnd ==
  ASSUME Orderly, AckInv, OrderInv, AckInv', OrderInv', ReceiverNext, rw.pos = NChunks
  PROVE  rw'.pos = NChunks
<1>1. CASE AcceptData
  <2>1. PICK d, a : Accepted(d, a)
    BY <1>1, Acceptance
  <2>2. rw'.pos = Len(written') /\ Len(written') \in Nat /\ rw.pos <= rw'.pos
    BY <2>1 DEF Accepted
  <2>3. Len(written') <= NChunks /\ NChunks \in Nat
    BY OrderTypes DEF AckInv, DeliveryInv, WrittenIsPrefix
  <2> QED BY <2>2, <2>3
<1>2. CASE ~AcceptData
  BY <1>2 DEF ReceiverNext, IgnoreOutOfWindow, RefuseTruncated, ReceiverFails,
              FailDelivering, receiverVars
<1> QED BY <1>1, <1>2

\* The invariant and those it rests on.
QuittingInv == OrderlyInv /\ QuitInv

\* The sender starts in select.
LEMMA QuitInit == Init => QuittingInv
<1>1. Init => QuitInv
  BY DEF Init, SenderInit, QuitInv
<1> QED BY <1>1, OrderInit DEF QuittingInv

\* The invariant is inductive.
LEMMA QuitStep == Orderly => (QuittingInv /\ [Next]_vars => QuittingInv')
<1> SUFFICES ASSUME Orderly, OrderlyInv, QuitInv, [Next]_vars PROVE QuittingInv'
  BY DEF QuittingInv
<1>0. OrderlyInv'
  BY OrderStep
<1>1. AckInv /\ OrderInv /\ AckInv' /\ OrderInv'
  BY <1>0 DEF OrderlyInv
<1>2. CASE SenderNext /\ UNCHANGED receiverVars
  <2>1. rw' = rw
    BY <1>2 DEF receiverVars
  <2>2. phase' = "done" => Finished
    BY <1>2, QuittingStep
  <2>3. QuitInv'
    BY <1>1, <2>1, <2>2, FinishedIsDelivered DEF QuitInv
  <2> QED BY <1>0, <2>3 DEF QuittingInv
<1>3. CASE ReceiverNext /\ UNCHANGED senderVars
  <2>1. phase' = phase
    BY <1>3 DEF senderVars
  <2>2. QuitInv'
    BY <1>1, <1>3, <2>1, ReachingTheEnd DEF QuitInv
  <2> QED BY <1>0, <2>2 DEF QuittingInv
<1>4. CASE UNCHANGED <<senderVars, receiverVars>>
  <2>1. QuitInv'
    BY <1>4 DEF QuitInv, senderVars, receiverVars
  <2> QED BY <1>0, <2>1 DEF QuittingInv
<1> QED BY <1>2, <1>3, <1>4 DEF Next, vars

\* What a run writes is what FileCopy writes next, or nothing.
LEMMA RunIsWrite ==
  ASSUME NChunks < SeqSpace, DeliveryInv, rphase = "running",
         NEW p \in Faithful, NEW n \in Nat, IsRun(Stored(rw, p), n),
         written' = written \o RunChunks(Stored(rw, p), n), phase' = phase
  PROVE  FC!Write \/ UNCHANGED FC!vars
<1>1. p \in DataPackets /\ ReceiverWindowOK(rw) /\ rw \in Windows
  BY DEF Faithful, DeliveryInv, TypeInv, TypeOK
<1>2. Stored(rw, p) \in Windows /\ Stored(rw, p).pos = rw.pos
  BY <1>1, DeliveryWindow DEF ReceiverWindowOK, Stored, window_push, Windows
<1>3. Stored(rw, p).buf \subseteq Faithful
  BY <1>1, DeliveryFaithful DEF DeliveryInv
<1>4. rw.pos = Len(written) /\ Len(written) <= NChunks /\ NChunks \in Nat
      /\ written \in Seq(0 .. NChunks)
  BY PacketAssumption DEF DeliveryInv, WrittenIsPrefix, TypeInv, TypeOK
<1>5. /\ rw.pos + n <= NChunks
      /\ RunChunks(Stored(rw, p), n) = [j \in 1 .. n |-> rw.pos + (j - 1)]
  BY <1>2, <1>3, <1>4, RunIsNext
<1>6. PICK l \in Nat : l = Len(written)
  BY <1>4
<1>7. written' = written \o [j \in 1 .. n |-> l + (j - 1)] /\ l + n <= NChunks
  BY <1>4, <1>5, <1>6
<1>8. CASE n = 0
  <2>1. [j \in 1 .. n |-> l + (j - 1)] = <<>>
    BY <1>8
  <2>2. written' = written \o <<>>
    BY <1>7, <2>1
  <2>3. written \o <<>> = written
    BY <1>4
  <2> QED BY <2>2, <2>3 DEF FC!vars
<1>9. CASE n # 0
  <2>1. n \in 1 .. (NChunks - l)
    BY <1>4, <1>7, <1>9
  <2>2. \E k \in 1 .. (NChunks - l) : written' = written \o [j \in 1 .. k |-> l + (j - 1)]
    BY <1>7, <2>1
  <2> QED BY <1>6, <2>2 DEF FC!Write
<1> QED BY <1>8, <1>9

\* Every step of the two programs is a step of FileCopy, or none.
LEMMA StepsImplement ==
  ASSUME Orderly, QuittingInv, [Next]_vars
  PROVE  FC!Write \/ FC!Quit \/ UNCHANGED FC!vars
<1>1. AckInv /\ OrderInv /\ QuitInv
  BY DEF QuittingInv, OrderlyInv
<1>2. CASE SenderNext /\ UNCHANGED receiverVars
  <2>1. written' = written
    BY <1>2 DEF receiverVars
  <2>2. CASE phase # "done" /\ phase' # "done"
    BY <2>1, <2>2 DEF FC!vars
  <2>3. CASE Finished /\ phase # "done" /\ phase' = "done"
    <3>1. rw.pos = NChunks
      BY <1>1, <2>3, FinishedIsDelivered
    <3>2. rw.pos <= Len(written) /\ Len(written) <= NChunks
          /\ Len(written) \in Nat /\ NChunks \in Nat
      BY <1>1, OrderTypes
         DEF OrderInv, PositionInv, AckInv, DeliveryInv, WrittenIsPrefix
    <3>3. Len(written) = NChunks
      BY <3>1, <3>2
    <3> QED BY <2>1, <2>3, <3>3 DEF FC!Quit
  <2> QED BY <1>2, <2>2, <2>3, QuittingStep
<1>3. CASE ReceiverNext /\ UNCHANGED senderVars
  <2>1. phase' = phase
    BY <1>3 DEF senderVars
  <2>2. CASE written' = written
    BY <2>1, <2>2 DEF FC!vars
  <2>3. CASE AcceptData \/ FailDelivering
    <3>1. PICK i \in DOMAIN toReceiver, n \in 0 .. Capacity :
            /\ Receive(i)
            /\ IsRun(Stored(rw, toReceiver[i]), n)
            /\ written' = written \o RunChunks(Stored(rw, toReceiver[i]), n)
      BY <2>3 DEF AcceptData, FailDelivering
    <3>2. toReceiver[i] \in Faithful /\ rphase = "running" /\ n \in Nat
      BY <1>1, <3>1, FirstReceived, WindowAssumption
    <3>3. NChunks < SeqSpace /\ DeliveryInv
      BY <1>1, PacketAssumption, WindowAssumption DEF Orderly, AckInv
    <3> QED BY <2>1, <3>1, <3>2, <3>3, RunIsWrite
  <2>4. CASE IgnoreOutOfWindow \/ RefuseTruncated \/ ReceiverFails
    BY <2>2, <2>4 DEF IgnoreOutOfWindow, RefuseTruncated, ReceiverFails, receiverVars
  <2> QED BY <1>3, <2>3, <2>4 DEF ReceiverNext
<1>4. CASE UNCHANGED <<senderVars, receiverVars>>
  BY <1>4 DEF FC!vars, senderVars, receiverVars
<1> QED BY <1>2, <1>3, <1>4 DEF Next, vars

\* "EOF acknowledged, quitting" is true of every file that the sequence numbers
\* can tell from its end, over a path that keeps the order.
THEOREM QuitMeansDelivered ==
  ASSUME Orderly
  PROVE  Spec => []QuitsOnlyWhenDelivered
<1>1. QuittingInv /\ [Next]_vars => QuittingInv'
  BY QuitStep
<1>2. QuittingInv => QuitsOnlyWhenDelivered
  <2> SUFFICES ASSUME AckInv, OrderInv, QuitInv PROVE QuitsOnlyWhenDelivered
    BY DEF QuittingInv, OrderlyInv
  <2>1. rw.pos <= Len(written) /\ Len(written) <= NChunks
        /\ Len(written) \in Nat /\ NChunks \in Nat
    BY OrderTypes DEF OrderInv, PositionInv, AckInv, DeliveryInv, WrittenIsPrefix
  <2> QED BY <2>1 DEF QuitInv, QuitsOnlyWhenDelivered
<1> QED BY <1>1, <1>2, QuitInit, PTL DEF Spec

\* The two programs copy a file as FileCopy says: the output grows chunk by
\* chunk in order, and the sender quits only when it is whole.
THEOREM TransportImplementsCopy ==
  ASSUME Orderly
  PROVE  Spec => Implements
<1>1. Init => FC!Init
  BY DEF Init, SenderInit, ReceiverInit, FC!Init
<1>2. QuittingInv /\ [Next]_vars => QuittingInv'
  BY QuitStep
<1>3. QuittingInv /\ [Next]_vars => [FC!Write \/ FC!Quit]_(FC!vars)
  BY StepsImplement
<1> QED BY <1>1, <1>2, <1>3, QuitInit, PTL DEF Spec, Implements, FC!Spec
=============================================================================
