---------------------------- MODULE AnswerProofs ----------------------------
(***************************************************************************)
(* What an answer says is true: a timestamp identifies one transmission,   *)
(* and an ACK acknowledges only what the receiver has.                     *)
(***************************************************************************)
EXTENDS DeliveryProofs

\* The DATA packets outside of the sender.
Known == InChannel(toReceiver) \cup rw.buf

\* What the receiver may confuse by their timestamps is the same packet.
SamePacket(p, q) == p.chunk = q.chunk /\ p.seqnum = q.seqnum

\* The packets of the sender whose timestamp is that of their last transmission.
\* A NACK sets a timer to the present; retransmit_packets, which the sender
\* enters next, then gives that packet and all that are due a new timestamp.
Genuine == {p \in sw.buf : p.timestamp > loop_now}

\* The inductive invariant: the stamps of what was sent are in the past and
\* identify it, also in the sender, outside of retransmit_packets for all
\* packets of its buffer.
StampInv ==
  /\ RoomInv
  /\ \A p \in Known : p.timestamp <= clock
  /\ \A p, q \in Known : p.timestamp = q.timestamp => SamePacket(p, q)
  /\ \A p \in Genuine, q \in Known : p.timestamp = q.timestamp => p.chunk = q.chunk
  /\ phase = "select" => loop_now = 0 /\ Genuine = sw.buf

-----------------------------------------------------------------------------
(* What the steps do to the packets on their way.                          *)

\* A datagram taken from a channel adds none to it.
LEMMA RemoveAtIn ==
  ASSUME NEW S, NEW s \in Seq(S), NEW i \in DOMAIN s
  PROVE  InChannel(RemoveAt(s, i)) \subseteq InChannel(s)
<1>1. s \in Seq(InChannel(s))
  BY InChannelSeq
<1>2. RemoveAt(s, i) \in Seq(InChannel(s))
  BY <1>1, RemoveAtSeq
<1> QED BY <1>2, InChannelSeq

\* A datagram that is sent joins the channel.
LEMMA AppendIn ==
  ASSUME NEW S, NEW s \in Seq(S), NEW x
  PROVE  InChannel(Append(s, x)) = InChannel(s) \cup {x}
BY DEF InChannel

\* A packet that is sent has the next timestamp.
LEMMA TransmitMoves ==
  ASSUME TypeInv, NEW p \in DataPackets, NEW w \in Windows, Transmit(p, w)
  PROVE  \E x \in DataPackets :
           /\ x.timestamp = clock + 1 /\ clock' = clock + 1
           /\ InChannel(toReceiver') = InChannel(toReceiver) \cup {x}
           /\ sw'.buf = w.buf \cup {x}
<1> DEFINE x == [p EXCEPT !.timestamp = clock + 1]
<1>1. clock \in 0 .. MaxStamp /\ clock < MaxStamp /\ clock' = clock + 1
  BY DEF Transmit, TypeInv, TypeOK
<1>2. x \in DataPackets /\ x.timestamp = clock + 1
  BY <1>1, SenderAssumption DEF DataPackets
<1>3. toReceiver' = Append(toReceiver, x) /\ sw' = window_push(w, x)
  BY DEF Transmit
<1> HIDE DEF x
<1>4. sw'.buf = w.buf \cup {x}
  BY <1>3 DEF window_push, Windows
<1>5. InChannel(toReceiver') = InChannel(toReceiver) \cup {x}
  BY <1>3, AppendIn DEF TypeInv, TypeOK
<1> QED BY <1>1, <1>2, <1>4, <1>5

\* An answer makes packets disappear from the sender's buffer, and a NACK sets
\* a timer.
LEMMA AnswerMoves ==
  ASSUME NEW w \in Windows, NEW m \in Answers, NEW now \in 0 .. MaxStamp
  PROVE  \A p \in ResizedTo(handle_answer(w, m, now), m.window).buf :
           p \in w.buf \/ p.timestamp = now
<1>1. handle_ack(w, m).buf \subseteq w.buf /\ handle_ack(w, m) \in Windows
  BY DEF handle_ack, window_slide_to, Windows, Answers
<1>2. /\ handle_nack(w, m, now) \in Windows
      /\ \A p \in handle_nack(w, m, now).buf : p \in w.buf \/ p.timestamp = now
  <2> DEFINE restamped(p) == IF p \in window_find_seqnum(w, m.seqnum)
                             THEN [p EXCEPT !.timestamp = now] ELSE p
  <2>1. \A p \in w.buf : /\ restamped(p) \in DataPackets
                         /\ restamped(p) = p \/ restamped(p).timestamp = now
    BY SenderAssumption DEF Windows, DataPackets
  <2>2. CASE ~window_has(w, m.seqnum)
    BY <2>2 DEF handle_nack
  <2>3. CASE window_has(w, m.seqnum)
    <3>1. handle_nack(w, m, now) = [w EXCEPT !.buf = {restamped(p) : p \in w.buf}]
      BY <2>3 DEF handle_nack
    <3> HIDE DEF restamped
    <3> QED BY <2>1, <3>1 DEF Windows
  <2> QED BY <2>2, <2>3
<1>3. ASSUME NEW v \in Windows
      PROVE  ResizedTo(v, m.window).buf = v.buf
  BY DEF ResizedTo, window_resize, Windows
<1> QED BY <1>1, <1>2, <1>3 DEF handle_answer

\* The sender either sends nothing, or one packet with the next timestamp; no
\* timestamp of its buffer becomes genuine in another way, and when it is back
\* in select all are.
LEMMA SenderMoves ==
  ASSUME StampInv, SenderNext
  PROVE  /\ InChannel(toSender') \subseteq InChannel(toSender)
         /\ \/ /\ clock' = clock
               /\ toReceiver' = toReceiver
               /\ Genuine' \subseteq Genuine
            \/ \E x \in DataPackets :
                 /\ x.timestamp = clock + 1 /\ clock' = clock + 1
                 /\ InChannel(toReceiver') = InChannel(toReceiver) \cup {x}
                 /\ Genuine' \subseteq Genuine \cup {x}
         /\ phase' = "select" => loop_now' = 0 /\ Genuine' = sw'.buf
<1>0. /\ TypeInv /\ sw \in Windows
      /\ sw.buf \subseteq DataPackets
      /\ clock \in 0 .. MaxStamp /\ loop_now \in 0 .. MaxStamp
      /\ \A p \in DataPackets : p.timestamp \in 0 .. MaxStamp
      /\ Readings(sw) \subseteq 0 .. MaxStamp
  <2>1. TypeInv /\ TypeOK
    BY DEF StampInv, RoomInv, TypeInv
  <2>2. \A p \in DataPackets : p.timestamp \in 0 .. MaxStamp
    BY DEF DataPackets
  <2>3. sw.buf \subseteq DataPackets
    BY <2>1 DEF TypeOK, Windows
  <2> QED BY <2>1, <2>2, <2>3, SenderAssumption DEF TypeOK, Readings
<1>1. CASE SelectTimeout
  <2>1. phase = "select" /\ loop_now = 0 /\ Genuine = sw.buf
    BY <1>1 DEF SelectTimeout, StampInv
  <2>2. Genuine' \subseteq Genuine
    BY <1>1, <2>1 DEF SelectTimeout, Genuine
  <2> QED BY <1>1, <2>2 DEF SelectTimeout, netVars
<1>2. CASE SelectAnswer
  <2>1. phase = "select" /\ loop_now = 0 /\ Genuine = sw.buf
    BY <1>2 DEF SelectAnswer, StampInv
  <2>2. PICK i \in DOMAIN toSender, now \in Readings(sw) :
          /\ toSender' = RemoveAt(toSender, i)
          /\ sw' = ResizedTo(handle_answer(sw, toSender[i], now),
                             toSender[i].window)
          /\ loop_now' = now
    BY <1>2 DEF SelectAnswer, Deliverable
  <2>3. toSender[i] \in Answers /\ toSender \in Seq(Answers)
    BY <1>0 DEF TypeInv, TypeOK
  <2>4. \A p \in sw'.buf : p \in sw.buf \/ p.timestamp = now
    BY <1>0, <2>2, <2>3, AnswerMoves
  <2>5. Genuine' \subseteq Genuine
    BY <1>0, <2>1, <2>2, <2>4 DEF Genuine
  <2>6. InChannel(toSender') \subseteq InChannel(toSender)
    BY <2>2, <2>3, RemoveAtIn
  <2> QED BY <1>2, <2>5, <2>6 DEF SelectAnswer
<1>3. CASE RetransmitOne
  <2>1. PICK p \in sw.buf : Transmit(p, [sw EXCEPT !.buf = @ \ {p}])
    BY <1>3 DEF RetransmitOne, window_peek_min_timestamp
  <2> DEFINE w == [sw EXCEPT !.buf = @ \ {p}]
  <2>2. p \in DataPackets /\ w \in Windows /\ w.buf \subseteq sw.buf
    BY <1>0 DEF Windows
  <2>3. PICK x \in DataPackets :
          /\ x.timestamp = clock + 1 /\ clock' = clock + 1
          /\ InChannel(toReceiver') = InChannel(toReceiver) \cup {x}
          /\ sw'.buf = w.buf \cup {x}
    BY <1>0, <2>1, <2>2, TransmitMoves
  <2>4. Genuine' \subseteq Genuine \cup {x}
    BY <1>3, <2>2, <2>3 DEF RetransmitOne, Genuine
  <2>5. phase' # "select" /\ toSender' = toSender
    BY <1>3 DEF RetransmitOne
  <2> HIDE DEF w
  <2> QED BY <2>3, <2>4, <2>5
<1>4. CASE SendNext
  <2>1. sw.buf = Genuine /\ loop_now' = 0 /\ toSender' = toSender
    BY <1>0, <1>4 DEF SendNext, Due, Genuine
  <2>2. Data(next, 0, nread) \in DataPackets
    BY <1>0, <1>4, PacketAssumption, SenderAssumption
       DEF SendNext, MayFill, Data, DataPackets, TypeInv, TypeOK
  <2>3. PICK x \in DataPackets :
          /\ x.timestamp = clock + 1 /\ clock' = clock + 1
          /\ InChannel(toReceiver') = InChannel(toReceiver) \cup {x}
          /\ sw'.buf = sw.buf \cup {x}
    BY <1>0, <1>4, <2>2, TransmitMoves DEF SendNext
  <2>4. \A p \in sw'.buf : p.timestamp > 0
    BY <1>0, <2>1, <2>3 DEF Genuine
  <2>5. Genuine' = sw'.buf
    BY <2>1, <2>4 DEF Genuine
  <2> QED BY <2>1, <2>3, <2>5
<1>5. CASE EndIteration
  <2>1. sw.buf = Genuine /\ loop_now' = 0 /\ UNCHANGED <<sw, clock, netVars>>
    BY <1>0, <1>5 DEF EndIteration, Due, Genuine
  <2>2. \A p \in sw.buf : p.timestamp > 0
    BY <1>0, <2>1 DEF Genuine
  <2> QED BY <2>1, <2>2 DEF Genuine, netVars
<1>6. CASE SenderFails
  BY <1>6 DEF SenderFails, Genuine
<1> QED BY <1>1, <1>2, <1>3, <1>4, <1>5, <1>6 DEF SenderNext

\* The receiver keeps packets or forgets them.
LEMMA ReceiverMoves ==
  ASSUME TypeInv, ReceiverNext
  PROVE  Known' \subseteq Known
<1>1. ASSUME NEW i \in DOMAIN toReceiver, Receive(i)
      PROVE  /\ toReceiver[i] \in InChannel(toReceiver)
             /\ InChannel(toReceiver') \subseteq InChannel(toReceiver)
  <2>1. toReceiver \in Seq(DataPackets) /\ toReceiver' = RemoveAt(toReceiver, i)
    BY <1>1 DEF Receive, TypeInv, TypeOK
  <2>2. toReceiver[i] \in InChannel(toReceiver)
    BY DEF InChannel
  <2> QED BY <2>1, <2>2, RemoveAtIn
<1>2. CASE rw' = rw /\ \E i \in DOMAIN toReceiver : Receive(i)
  BY <1>1, <1>2 DEF Known
<1>3. CASE AcceptData
  <2>1. PICK i \in DOMAIN toReceiver, n \in 0 .. Capacity :
          /\ Receive(i)
          /\ rw' = Delivered(Stored(rw, toReceiver[i]), n)
    BY <1>3 DEF AcceptData
  <2> DEFINE stored == Stored(rw, toReceiver[i])
  <2>2. toReceiver[i] \in DataPackets /\ rw \in Windows /\ ReceiverWindowOK(rw)
    BY DEF TypeInv, TypeOK
  <2>3. stored.buf \subseteq rw.buf \cup {toReceiver[i]}
    BY <2>2 DEF Stored, window_push, Windows
  <2>4. stored \in Windows
    BY <2>2, DeliveryWindow DEF ReceiverWindowOK
  <2>5. rw'.buf \subseteq stored.buf
    BY <2>1, <2>4 DEF Delivered, window_slide, Windows
  <2> QED BY <1>1, <2>1, <2>3, <2>5 DEF Known
<1>4. CASE ReceiverFails
  BY <1>4 DEF ReceiverFails, Known
<1> QED BY <1>2, <1>3, <1>4
        DEF ReceiverNext, IgnoreOutOfWindow, RefuseTruncated, FailDelivering,
            receiverVars

\* The network makes up neither packets nor answers; it only sets TR.
LEMMA NetworkMoves ==
  ASSUME TypeInv, NetworkNext, UNCHANGED receiverVars
  PROVE  /\ \A p \in Known' : \E q \in Known :
              p.timestamp = q.timestamp /\ SamePacket(p, q)
         /\ InChannel(toSender') \subseteq InChannel(toSender)
<1> DEFINE D == {p \in DataPackets : \E q \in InChannel(toReceiver) :
                   p.timestamp = q.timestamp /\ SamePacket(p, q)}
<1>1. toReceiver \in Seq(DataPackets) /\ toSender \in Seq(Answers)
  BY DEF TypeInv, TypeOK
<1>2. InChannel(toReceiver) \subseteq D
  <2>1. InChannel(toReceiver) \subseteq DataPackets
    BY <1>1, InChannelSeq
  <2> QED BY <2>1 DEF SamePacket
<1>3. toReceiver \in Seq(D) /\ toSender \in Seq(InChannel(toSender))
  BY <1>1, <1>2, InChannelSeq
<1>4. \A p \in D : [p EXCEPT !.tr = TRUE] \in D
  BY DEF DataPackets, SamePacket
<1> HIDE DEF D
<1>5. toReceiver' \in Seq(D) /\ toSender' \in Seq(InChannel(toSender))
  BY <1>3, <1>4, NetworkStep
<1>6. /\ InChannel(toReceiver') \subseteq D
      /\ InChannel(toSender') \subseteq InChannel(toSender)
  BY <1>5, InChannelSeq
<1> QED BY <1>6 DEF D, Known, SamePacket, receiverVars

-----------------------------------------------------------------------------
(* Timestamps.                                                             *)

\* At the start nothing has a timestamp.
LEMMA StampInit == Init => StampInv
BY RoomInit
   DEF Init, SenderInit, ReceiverInit, NetworkInit, window_create, StampInv,
       Known, Genuine, InChannel

\* A new transmission has a later timestamp than everything that was sent.
LEMMA StampStep == StampInv /\ [Next]_vars => StampInv'
<1> SUFFICES ASSUME StampInv, [Next]_vars PROVE StampInv'
  OBVIOUS
<1>1. TypeInv /\ RoomInv'
  BY RoomStep DEF StampInv, RoomInv
<1>2. CASE SenderNext /\ UNCHANGED receiverVars
  <2>1. rw' = rw
    BY <1>2 DEF receiverVars
  <2>2. phase' = "select" => loop_now' = 0 /\ Genuine' = sw'.buf
    BY <1>2, SenderMoves
  <2>3. CASE clock' = clock /\ toReceiver' = toReceiver /\ Genuine' \subseteq Genuine
    BY <1>1, <2>1, <2>2, <2>3 DEF StampInv, Known
  <2>4. ASSUME NEW x \in DataPackets,
               x.timestamp = clock + 1, clock' = clock + 1,
               InChannel(toReceiver') = InChannel(toReceiver) \cup {x},
               Genuine' \subseteq Genuine \cup {x}
        PROVE  StampInv'
    <3>1. Known' = Known \cup {x}
      BY <2>1, <2>4 DEF Known
    <3>2. clock \in Nat
      BY <1>1, SenderAssumption DEF TypeInv, TypeOK
    <3>3. \A p \in Known : p.timestamp # clock + 1 /\ p.timestamp <= clock + 1
      <4>1. \A p \in Known : p.timestamp \in Nat
        <5>1. toReceiver \in Seq(DataPackets) /\ rw.buf \subseteq DataPackets
          BY <1>1 DEF TypeInv, TypeOK, Windows
        <5>2. Known \subseteq DataPackets
          BY <5>1, InChannelSeq DEF Known
        <5> QED BY <5>2, SenderAssumption DEF DataPackets
      <4> QED BY <3>2, <4>1 DEF StampInv
    <3>4. \A p \in Genuine : p.timestamp # clock + 1
      BY <1>1, <3>2, SenderAssumption
         DEF Genuine, TypeInv, TypeOK, SenderWindowOK, Windows, DataPackets
    <3>5. SamePacket(x, x)
      BY DEF SamePacket
    <3>6. \A p \in Known' : p.timestamp <= clock'
      BY <2>4, <3>1, <3>2, <3>3
    <3>7. \A p, q \in Known' : p.timestamp = q.timestamp => SamePacket(p, q)
      BY <2>4, <3>1, <3>3, <3>5 DEF StampInv
    <3>8. \A p \in Genuine', q \in Known' :
            p.timestamp = q.timestamp => p.chunk = q.chunk
      BY <2>4, <3>1, <3>3, <3>4 DEF StampInv
    <3> QED BY <1>1, <2>2, <3>6, <3>7, <3>8 DEF StampInv
  <2> QED BY <1>2, <2>3, <2>4, SenderMoves
<1>3. CASE ReceiverNext /\ UNCHANGED senderVars
  <2>1. Known' \subseteq Known
    BY <1>1, <1>3, ReceiverMoves
  <2> QED BY <1>1, <1>3, <2>1 DEF StampInv, Genuine, senderVars
<1>4. CASE NetworkNext /\ UNCHANGED <<senderVars, receiverVars>>
  <2>1. \A p \in Known' : \E q \in Known :
          p.timestamp = q.timestamp /\ SamePacket(p, q)
    BY <1>1, <1>4, NetworkMoves
  <2> QED BY <1>1, <1>4, <2>1 DEF StampInv, SamePacket, Genuine, senderVars
<1>5. CASE UNCHANGED vars
  BY <1>1, <1>5
     DEF StampInv, Known, Genuine, vars, senderVars, receiverVars, netVars
<1> QED BY <1>2, <1>3, <1>4, <1>5 DEF Next

\* The inductive invariant holds.
LEMMA StampInvariant == Spec => []StampInv
BY StampInit, StampStep, PTL DEF Spec

\* A timestamp identifies one transmission among all packets on their way and
\* in the receiver, for every file, wherever sequence numbers wrap around, and
\* over every network: the assertion of the delivery loop never fails.
THEOREM StampsIdentify == Spec => []TimestampsIdentify
<1>1. StampInv => TimestampsIdentify
  BY DEF StampInv, RoomInv, IsDistinct, Known, SamePacket, TimestampsIdentify
<1> QED BY <1>1, StampInvariant, PTL

-----------------------------------------------------------------------------
(* Acknowledgements.                                                       *)

\* What an ACK says that is on its way: the packets below its sequence number
\* are in the file, and the receiver has the packet with its timestamp.
IsTrue(m) ==
  /\ m.seqnum <= Len(written)
  /\ m.timestamp <= clock
  /\ \A p \in Genuine : p.timestamp = m.timestamp => HasReceived(p.chunk)

AckInv ==
  /\ DeliveryInv
  /\ StampInv
  /\ \A m \in InChannel(toSender) : m.type = "ack" => IsTrue(m)

\* What is in the buffer before the delivery loop is in the file or still in
\* the buffer after it.
LEMMA DeliveryLosesNothing ==
  ASSUME NChunks < SeqSpace,
         NEW w \in Windows, w.buf \subseteq Faithful, NEW n \in Nat,
         w.pos + n <= NChunks, RunEnds(w, n),
         NEW p \in w.buf
  PROVE  \/ p \in Delivered(w, n).buf
         \/ p.chunk < w.pos + n
         \/ p.chunk = Eof /\ w.pos + n = NChunks
<1>1. w.pos \in Nat /\ \A k \in Nat : k <= NChunks => k % SeqSpace = k
  BY ModSmall, PacketAssumption, WindowAssumption DEF Windows, SeqNums
<1>2. Delivered(w, n).buf = w.buf \ (InRun(w, n) \cup AfterRun(w, n))
  BY DEF Delivered, window_slide, Windows
<1>3. CASE p \in InRun(w, n)
  <2>1. PICK j \in 0 .. (n - 1) : p.seqnum = (w.pos + j) % SeqSpace
    BY <1>3 DEF InRun
  <2>2. w.pos + j \in Nat /\ w.pos + j <= NChunks /\ w.pos + j < w.pos + n
    BY <1>1, PacketAssumption
  <2>3. p.chunk = w.pos + j
    BY <1>1, <2>1, <2>2 DEF Faithful
  <2> QED BY <2>2, <2>3
<1>4. CASE p \in AfterRun(w, n)
  <2>1. p.chunk = Eof
    BY <1>4 DEF RunEnds
  <2>2. p.seqnum = (w.pos + n) % SeqSpace
    BY <1>4 DEF AfterRun, window_find_seqnum
  <2>3. p.chunk = w.pos + n
    BY <1>1, <2>2 DEF Faithful
  <2> QED BY <2>1, <2>3 DEF Eof
<1> QED BY <1>2, <1>3, <1>4

\* The receiver has the packet it answers with an ACK, and everything it had.
LEMMA ReceiverLosesNothing ==
  ASSUME NChunks < SeqSpace, DeliveryInv, RoomInv, DeliveryInv',
         NEW p \in Faithful, NEW n \in 0 .. Capacity, rphase = "running",
         IsRun(Stored(rw, p), n), RunEnds(Stored(rw, p), n),
         rw' = Delivered(Stored(rw, p), n),
         written' = written \o RunChunks(Stored(rw, p), n)
  PROVE  /\ HasReceived(p.chunk)'
         /\ \A c \in 0 .. NChunks : HasReceived(c) => HasReceived(c)'
         /\ Len(written) <= Len(written')
<1> DEFINE w == Stored(rw, p)
<1>1. n \in Nat /\ p \in DataPackets /\ rw \in Windows /\ ReceiverWindowOK(rw)
      /\ rw.buf \subseteq Faithful /\ rw.pos = Len(written)
  <2>1. n \in Nat /\ p \in DataPackets
    BY WindowAssumption DEF Faithful
  <2>2. TypeOK /\ ReceiverWindowOK(rw) /\ rw.buf \subseteq Faithful /\ rw.pos = Len(written)
    BY DEF DeliveryInv, TypeInv
  <2> QED BY <2>1, <2>2 DEF TypeOK
<1>2. w \in Windows /\ w.pos = rw.pos /\ w.buf \subseteq Faithful
  BY <1>1, DeliveryWindow, DeliveryFaithful
     DEF ReceiverWindowOK, Stored, window_push, Windows
<1>3. Len(written') = w.pos + n /\ w.pos + n <= NChunks
  BY <1>1, <1>2, DeliverStep
<1>4. rw.buf \subseteq w.buf
  BY <1>1 DEF Stored, window_push, Windows
<1>5. \E q \in w.buf : q.chunk = p.chunk
  <2>1. ~window_full(rw)
    BY AheadLeavesRoom DEF RoomInv, TypeInv
  <2>2. CASE window_find_seqnum(rw, p.seqnum) # {}
    <3>1. PICK q \in rw.buf : q.seqnum = p.seqnum
      BY <2>2 DEF window_find_seqnum
    <3> QED BY <1>1, <1>4, <3>1 DEF Faithful
  <2>3. CASE window_find_seqnum(rw, p.seqnum) = {}
    <3>1. w = window_push(rw, p)
      BY <2>1, <2>3 DEF Stored
    <3>2. p \in w.buf
      BY <1>1, <3>1 DEF window_push, Windows
    <3> QED BY <3>2
  <2> QED BY <2>2, <2>3
<1> HIDE DEF w
<1>6. \A q \in w.buf : HasReceived(q.chunk)'
  <2> TAKE q \in w.buf
  <2>1. \/ q \in Delivered(w, n).buf
        \/ q.chunk < w.pos + n
        \/ q.chunk = Eof /\ w.pos + n = NChunks
    BY <1>1, <1>2, <1>3, DeliveryLosesNothing DEF w
  <2>2. rw' = Delivered(w, n)
    BY DEF w
  <2> QED BY <1>3, <2>1, <2>2 DEF HasReceived
<1>7. Len(written) \in Nat /\ Len(written) <= Len(written')
  <2>1. rw.pos \in Nat
    BY <1>1 DEF Windows, SeqNums
  <2>2. Len(written) = rw.pos /\ Len(written') = rw.pos + n
    BY <1>1, <1>2, <1>3
  <2> QED BY <1>1, <2>1, <2>2
<1>8. \A c \in 0 .. NChunks : HasReceived(c) => HasReceived(c)'
  <2> TAKE c \in 0 .. NChunks
  <2> HAVE HasReceived(c)
  <2>1. CASE c < Len(written)
    BY <1>7, <1>3, <2>1, PacketAssumption, <1>1, <1>2 DEF HasReceived
  <2>2. CASE c = Eof /\ Len(written) = NChunks
    BY <1>7, <1>3, <2>2, PacketAssumption, <1>1, <1>2 DEF HasReceived
  <2>3. CASE \E q \in rw.buf : q.chunk = c
    BY <1>4, <1>6, <2>3
  <2> QED BY <2>1, <2>2, <2>3 DEF HasReceived
<1> QED BY <1>5, <1>6, <1>7, <1>8

\* At the start no ACK is on its way.
LEMMA AckInit == Init => AckInv
BY DeliveryInit, StampInit DEF Init, NetworkInit, AckInv, InChannel

\* An ACK on its way stays true, and a new one is.
LEMMA AckStep == NChunks < SeqSpace => (AckInv /\ [Next]_vars => AckInv')
<1> SUFFICES ASSUME NChunks < SeqSpace, AckInv, [Next]_vars PROVE AckInv'
  OBVIOUS
<1>1. TypeInv /\ DeliveryInv' /\ StampInv'
  BY DeliveryStep, StampStep DEF AckInv, DeliveryInv
<1>2. /\ \A p \in Genuine : p.chunk \in 0 .. NChunks /\ p.timestamp \in Nat
      /\ \A m \in InChannel(toSender) : m.timestamp \in Nat /\ m.seqnum \in Nat
      /\ clock \in Nat /\ Len(written) \in Nat
  <2>1. sw.buf \subseteq DataPackets /\ InChannel(toSender) \subseteq Answers
    BY <1>1, InChannelSeq DEF TypeInv, TypeOK, Windows
  <2> QED BY <1>1, <2>1, SenderAssumption
          DEF Genuine, DataPackets, Answers, SeqNums, TypeInv, TypeOK
<1>3. ASSUME InChannel(toSender') \subseteq InChannel(toSender),
             UNCHANGED receiverVars,
             \/ clock' = clock /\ Genuine' \subseteq Genuine
             \/ \E x : /\ x.timestamp = clock + 1 /\ clock' = clock + 1
                       /\ Genuine' \subseteq Genuine \cup {x}
      PROVE  AckInv'
  <2> SUFFICES ASSUME NEW m \in InChannel(toSender), m.type = "ack"
               PROVE  IsTrue(m)'
    BY <1>1, <1>3 DEF AckInv
  <2>1. IsTrue(m)
    BY DEF AckInv
  <2>2. m.timestamp <= clock' /\ \A p \in Genuine' : p.timestamp = m.timestamp => p \in Genuine
    BY <1>2, <1>3, <2>1 DEF IsTrue
  <2>3. \A c : HasReceived(c) => HasReceived(c)'
    BY <1>3 DEF HasReceived, receiverVars
  <2> QED BY <1>3, <2>1, <2>2, <2>3 DEF IsTrue, receiverVars
<1>4. ASSUME UNCHANGED senderVars,
             Len(written) <= Len(written'),
             \A c \in 0 .. NChunks : HasReceived(c) => HasReceived(c)',
             NEW m \in InChannel(toSender), m.type = "ack"
      PROVE  IsTrue(m)'
  <2>1. IsTrue(m)
    BY <1>4 DEF AckInv
  <2>2. Genuine' = Genuine /\ clock' = clock
    BY <1>4 DEF Genuine, senderVars
  <2>3. Len(written') \in Nat
    BY <1>1 DEF DeliveryInv, TypeInv, TypeOK
  <2> QED BY <1>2, <1>4, <2>1, <2>2, <2>3 DEF IsTrue
<1>5. CASE SenderNext /\ UNCHANGED receiverVars
  BY <1>3, <1>5, SenderMoves DEF AckInv
<1>6. CASE ReceiverNext /\ UNCHANGED senderVars
  <2>1. CASE AcceptData
    <3>1. PICK i \in DOMAIN toReceiver :
            /\ Receive(i)
            /\ \E n \in 0 .. Capacity :
                 /\ IsRun(Stored(rw, toReceiver[i]), n)
                 /\ RunEnds(Stored(rw, toReceiver[i]), n)
                 /\ rw' = Delivered(Stored(rw, toReceiver[i]), n)
                 /\ written' = written \o RunChunks(Stored(rw, toReceiver[i]), n)
            /\ toSender' = Append(toSender, Ack(window_available(rw'), rw'.pos,
                                                toReceiver[i].timestamp))
            /\ rphase' = rphase
      BY <2>1 DEF AcceptData
    <3>p. PICK p : p = toReceiver[i]
      OBVIOUS
    <3>a. PICK ack : ack = Ack(window_available(rw'), rw'.pos, p.timestamp)
      OBVIOUS
    <3>2. p \in Faithful /\ p \in Known /\ rphase = "running"
      BY <3>1, <3>p DEF AckInv, DeliveryInv, Known, InChannel, Receive
    <3>3. /\ HasReceived(p.chunk)'
          /\ \A c \in 0 .. NChunks : HasReceived(c) => HasReceived(c)'
          /\ Len(written) <= Len(written')
      <4>1. PICK n \in 0 .. Capacity :
              /\ IsRun(Stored(rw, p), n)
              /\ RunEnds(Stored(rw, p), n)
              /\ rw' = Delivered(Stored(rw, p), n)
              /\ written' = written \o RunChunks(Stored(rw, p), n)
        BY <3>1, <3>p
      <4>2. DeliveryInv /\ RoomInv
        BY DEF AckInv, StampInv
      <4> QED BY <1>1, <3>2, <4>1, <4>2, ReceiverLosesNothing
    <3>4. IsTrue(ack)'
      <4>1. /\ ack.seqnum = Len(written') /\ Len(written') \in Nat
            /\ ack.timestamp = p.timestamp
        BY <1>1, <3>1, <3>2, <3>a DEF Ack, DeliveryInv, TypeInv, TypeOK
      <4>2. Genuine' = Genuine /\ clock' = clock
        BY <1>6 DEF Genuine, senderVars
      <4>3. p.timestamp <= clock
        BY <3>2 DEF AckInv, StampInv
      <4>4. \A q \in Genuine : q.timestamp = p.timestamp => q.chunk = p.chunk
        BY <3>2 DEF AckInv, StampInv
      <4> QED BY <3>3, <4>1, <4>2, <4>3, <4>4 DEF IsTrue
    <3>5. InChannel(toSender') = InChannel(toSender) \cup {ack}
      BY <1>1, <3>1, <3>p, <3>a, AppendIn DEF TypeInv, TypeOK
    <3>6. \A m \in InChannel(toSender) : m.type = "ack" => IsTrue(m)'
      BY <1>4, <1>6, <3>3
    <3> QED BY <1>1, <3>4, <3>5, <3>6 DEF AckInv
  <2>2. CASE RefuseTruncated
    <3>1. PICK i \in DOMAIN toReceiver :
            toSender' = Append(toSender, Nack(window_available(rw),
                                              toReceiver[i].seqnum))
      BY <2>2 DEF RefuseTruncated
    <3>2. InChannel(toSender') = InChannel(toSender) \cup
            {Nack(window_available(rw), toReceiver[i].seqnum)}
      BY <1>1, <3>1, AppendIn DEF TypeInv, TypeOK
    <3>3. Nack(window_available(rw), toReceiver[i].seqnum).type # "ack"
      BY DEF Nack
    <3>4. /\ Len(written) <= Len(written')
          /\ \A c \in 0 .. NChunks : HasReceived(c) => HasReceived(c)'
      BY <1>2, <2>2 DEF RefuseTruncated, receiverVars, HasReceived
    <3> QED BY <1>1, <1>4, <1>6, <3>2, <3>3, <3>4 DEF AckInv
  <2>3. CASE FailDelivering
    <3>1. PICK i \in DOMAIN toReceiver, n \in 0 .. Capacity :
            /\ Receive(i)
            /\ IsRun(Stored(rw, toReceiver[i]), n)
            /\ written' = written \o RunChunks(Stored(rw, toReceiver[i]), n)
            /\ UNCHANGED <<rw, toSender>>
      BY <2>3 DEF FailDelivering
    <3>2. toReceiver[i] \in Faithful /\ rphase = "running" /\ n \in Nat
      BY <3>1, WindowAssumption DEF AckInv, DeliveryInv, Receive
    <3>3. Len(written') = rw.pos + n /\ rw.pos = Len(written)
      BY <3>1, <3>2, DeliverStep DEF AckInv, DeliveryInv
    <3>4. Len(written') <= NChunks /\ Len(written) <= Len(written')
      BY <1>1, <1>2, <3>2, <3>3 DEF DeliveryInv, WrittenIsPrefix
    <3>5. \A c \in 0 .. NChunks : HasReceived(c) => HasReceived(c)'
      BY <1>2, <3>1, <3>2, <3>3, <3>4, PacketAssumption DEF HasReceived
    <3> QED BY <1>1, <1>4, <1>6, <3>1, <3>4, <3>5 DEF AckInv
  <2>4. CASE UNCHANGED <<rw, written, toSender>>
    <3>1. /\ Len(written) <= Len(written')
          /\ \A c \in 0 .. NChunks : HasReceived(c) => HasReceived(c)'
      BY <1>2, <2>4 DEF HasReceived
    <3> QED BY <1>1, <1>4, <1>6, <2>4, <3>1 DEF AckInv
  <2> QED BY <1>6, <2>1, <2>2, <2>3, <2>4
          DEF ReceiverNext, IgnoreOutOfWindow, ReceiverFails, receiverVars
<1>7. CASE NetworkNext /\ UNCHANGED <<senderVars, receiverVars>>
  <2>1. Genuine' = Genuine /\ clock' = clock
    BY <1>7 DEF Genuine, senderVars
  <2> QED BY <1>1, <1>3, <1>7, <2>1, NetworkMoves
<1>8. CASE UNCHANGED vars
  BY <1>3, <1>8 DEF Genuine, vars, senderVars, netVars
<1> QED BY <1>5, <1>6, <1>7, <1>8 DEF Next

\* An ACK, however old and however often it was copied or overtaken, is true
\* when it reaches handle_ack, over every network, if the file has fewer chunks
\* than there are sequence numbers.
THEOREM AcksStayTrue ==
  ASSUME NChunks < SeqSpace
  PROVE  Spec => []AcksAreTrue
<1>1. AckInv /\ [Next]_vars => AckInv'
  BY AckStep
<1>2. AckInv => AcksAreTrue
  BY DEF AckInv, IsTrue, StampInv, AcksAreTrue
<1> QED BY <1>1, <1>2, AckInit, PTL DEF Spec
=============================================================================
