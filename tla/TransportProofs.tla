-------------------------- MODULE TransportProofs ---------------------------
(***************************************************************************)
(* Theorems about Transport for every file, every window capacity, every   *)
(* sequence space, every kind of network and every bound of the model.     *)
(***************************************************************************)
EXTENDS Transport, FiniteSetTheorems, TLAPS

-----------------------------------------------------------------------------
(* Channels and sequence numbers.                                          *)

\* The network takes a datagram from a channel: the others stay what they are.
LEMMA RemoveAtSeq ==
  ASSUME NEW S, NEW s \in Seq(S), NEW i \in DOMAIN s
  PROVE  RemoveAt(s, i) \in Seq(S)
BY DEF RemoveAt

\* Copying a datagram adds nothing new to a channel.
LEMMA InsertAtSeq ==
  ASSUME NEW S, NEW s \in Seq(S), NEW i \in DOMAIN s
  PROVE  InsertAt(s, i, s[i]) \in Seq(S)
BY DEF InsertAt

\* A channel holds members of T exactly if it is a sequence over T.
LEMMA InChannelSeq ==
  ASSUME NEW S, NEW s \in Seq(S), NEW T
  PROVE  s \in Seq(T) <=> InChannel(s) \subseteq T
BY DEF InChannel

\* Window positions are sequence numbers.
LEMMA ModRange ==
  ASSUME NEW n \in Nat
  PROVE  n % SeqSpace \in SeqNums
BY WindowAssumption DEF SeqNums

\* Below the sequence space, arithmetic does not wrap around.
LEMMA ModSmall ==
  ASSUME NEW n \in Nat, n < SeqSpace
  PROVE  n % SeqSpace = n
BY WindowAssumption

-----------------------------------------------------------------------------
(* Type correctness.                                                       *)

\* What a step of the sender must keep of its window: it is a window, its
\* buffer is finite, and no stamp is from the future.
SenderWindowOK(w, now) ==
  /\ w \in Windows
  /\ IsFiniteSet(w.buf)
  /\ \A p \in w.buf : p.timestamp <= now

ReceiverWindowOK(w) ==
  /\ w \in Windows /\ w.size = Capacity
  /\ IsFiniteSet(w.buf)

\* The inductive invariant: the types, and what they rest on.
TypeInv ==
  /\ TypeOK
  /\ SenderWindowOK(sw, clock)
  /\ ReceiverWindowOK(rw)
  /\ sent_eof <=> nread = NChunks + 1

\* An answer leaves the sending window a window.
LEMMA AnswerWindow ==
  ASSUME NEW w, NEW c \in 0 .. MaxStamp, SenderWindowOK(w, c),
         NEW m \in Answers, NEW now \in 0 .. c
  PROVE  /\ SenderWindowOK(handle_answer(w, m, now), c)
         /\ SenderWindowOK(ResizedTo(handle_answer(w, m, now), m.window), c)
<1>1. SenderWindowOK(handle_ack(w, m), c)
  <2> DEFINE slid == window_slide_to([w EXCEPT !.buf = @ \ CumulativelyAcked(w, m)],
                                     m.seqnum)
  <2>1. SenderWindowOK(slid, c)
    BY FS_Subset DEF SenderWindowOK, Windows, window_slide_to, Answers,
                     CumulativelyAcked
  <2>2. SenderWindowOK([slid EXCEPT !.buf = @ \ window_pop_timestamp(slid, m.timestamp)], c)
    <3> HIDE DEF slid
    <3> QED BY <2>1, FS_Subset DEF SenderWindowOK, Windows
  <2> QED BY <2>1, <2>2 DEF handle_ack
<1>2. SenderWindowOK(handle_nack(w, m, now), c)
  <2> DEFINE restamped(p) == IF p \in window_find_seqnum(w, m.seqnum)
                             THEN [p EXCEPT !.timestamp = now] ELSE p
             T == {restamped(p) : p \in w.buf}
             f == [p \in w.buf |-> restamped(p)]
  <2>1. IsFiniteSet(T)
    <3>1. f \in Surjection(w.buf, T)
      BY DEF Surjection
    <3> QED BY <3>1, FS_Surjection DEF SenderWindowOK
  <2>2. T \subseteq DataPackets /\ \A q \in T : q.timestamp <= c
    BY SenderAssumption DEF SenderWindowOK, Windows, DataPackets
  <2> QED BY <2>1, <2>2 DEF handle_nack, SenderWindowOK, Windows
<1>3. ASSUME NEW v, SenderWindowOK(v, c)
      PROVE  SenderWindowOK(ResizedTo(v, m.window), c)
  BY <1>3, WindowAssumption
     DEF SenderWindowOK, Windows, ResizedTo, window_resize, Answers
<1> QED BY <1>1, <1>2, <1>3 DEF handle_answer

\* A transmission puts one packet with the newest stamp into the window.
LEMMA TransmitWindow ==
  ASSUME NEW w, NEW c \in 0 .. MaxStamp, SenderWindowOK(w, c), c < MaxStamp,
         NEW p \in DataPackets
  PROVE  LET stamped == [p EXCEPT !.timestamp = c + 1]
         IN  /\ stamped \in DataPackets
             /\ SenderWindowOK(window_push(w, stamped), c + 1)
<1> DEFINE stamped == [p EXCEPT !.timestamp = c + 1]
<1>1. stamped \in DataPackets /\ stamped.timestamp = c + 1
  BY SenderAssumption DEF DataPackets
<1>2. \A q \in w.buf : q.timestamp <= c + 1
  BY SenderAssumption DEF SenderWindowOK, Windows, DataPackets
<1>3. SenderWindowOK(window_push(w, stamped), c + 1)
  <2> HIDE DEF stamped
  <2>1. IsFiniteSet(w.buf \cup {stamped})
    BY FS_AddElement DEF SenderWindowOK
  <2> QED BY <1>1, <1>2, <2>1 DEF SenderWindowOK, window_push, Windows
<1> QED BY <1>1, <1>3

\* Storing a packet and delivering a run leaves the receiving window a window.
LEMMA DeliveryWindow ==
  ASSUME NEW w, ReceiverWindowOK(w), NEW p \in DataPackets, NEW n \in Nat
  PROVE  /\ ReceiverWindowOK(Stored(w, p))
         /\ ReceiverWindowOK(Delivered(Stored(w, p), n))
         /\ Delivered(Stored(w, p), n).pos = (w.pos + n) % SeqSpace
<1>1. ReceiverWindowOK(Stored(w, p)) /\ Stored(w, p).pos = w.pos
  BY FS_AddElement DEF ReceiverWindowOK, Stored, window_push, Windows
<1>2. ASSUME NEW v, ReceiverWindowOK(v)
      PROVE  /\ ReceiverWindowOK(Delivered(v, n))
             /\ Delivered(v, n).pos = (v.pos + n) % SeqSpace
  <2> DEFINE gone == InRun(v, n) \cup AfterRun(v, n)
             rest == [v EXCEPT !.buf = @ \ gone]
  <2>1. ReceiverWindowOK(rest) /\ rest.pos = v.pos
    BY <1>2, FS_Subset DEF ReceiverWindowOK, Windows
  <2>2. (v.pos + n) % SeqSpace \in SeqNums
    BY <1>2, ModRange DEF ReceiverWindowOK, Windows, SeqNums
  <2>3. Delivered(v, n) = [rest EXCEPT !.pos = (@ + n) % SeqSpace]
    BY DEF Delivered, window_slide
  <2> HIDE DEF rest
  <2> QED BY <2>1, <2>2, <2>3 DEF ReceiverWindowOK, Windows
<1> QED BY <1>1, <1>2

\* The window the receiver advertises fits its capacity.
LEMMA AvailableRange ==
  ASSUME NEW w, ReceiverWindowOK(w)
  PROVE  window_available(w) \in 0 .. Capacity
BY FS_CardinalityType, WindowAssumption
   DEF ReceiverWindowOK, window_available, window_buffer_size

\* What a run adds to the file are chunks.
LEMMA RunChunksType ==
  ASSUME NEW w \in Windows, NEW n \in Nat, IsRun(w, n)
  PROVE  /\ RunChunks(w, n) \in Seq(0 .. NChunks)
         /\ Len(RunChunks(w, n)) = n
<1>1. \A j \in 1 .. n : NextChunk(w, j) \in 0 .. NChunks
  <2> TAKE j \in 1 .. n
  <2>1. \E p \in w.buf : p.seqnum = (w.pos + (j - 1)) % SeqSpace
    BY DEF IsRun
  <2>2. (CHOOSE p \in w.buf : p.seqnum = (w.pos + (j - 1)) % SeqSpace) \in w.buf
    BY <2>1
  <2> QED BY <2>2 DEF NextChunk, Windows, DataPackets
<1> QED BY <1>1 DEF RunChunks

\* The initial values of both programs have their types.
LEMMA TypeInit == Init => TypeInv
<1> SUFFICES ASSUME Init PROVE TypeInv
  OBVIOUS
<1> USE DEF Init, SenderInit, ReceiverInit, NetworkInit, window_create
<1>1. sw \in Windows /\ rw \in Windows /\ sw.buf = {} /\ rw.buf = {}
      /\ rw.size = Capacity
  BY WindowAssumption DEF Windows, SeqNums
<1>2. IsFiniteSet({})
  BY FS_EmptySet
<1>3. SenderWindowOK(sw, clock) /\ ReceiverWindowOK(rw)
  BY <1>1, <1>2 DEF SenderWindowOK, ReceiverWindowOK
<1>4. TypeOK
  <2>1. /\ written \in Seq(0 .. NChunks)
        /\ toReceiver \in Seq(DataPackets)
        /\ toSender \in Seq(Answers)
    OBVIOUS
  <2>2. /\ next \in SeqNums
        /\ nread \in 0 .. (NChunks + 1)
        /\ clock \in 0 .. MaxStamp /\ loop_now \in 0 .. MaxStamp
        /\ faults \in 0 .. MaxFaults
    BY WindowAssumption, PacketAssumption, NetworkAssumption, SenderAssumption
       DEF SeqNums
  <2>3. sent_eof \in BOOLEAN /\ phase = "select" /\ rphase = "running"
    OBVIOUS
  <2> QED BY <1>1, <2>1, <2>2, <2>3, Zenon DEF TypeOK
<1> QED BY <1>3, <1>4, PacketAssumption DEF TypeInv

\* Every step of the sender keeps the types, its buffer finite and the stamps
\* in it not later than the clock.
LEMMA TypeSenderStep ==
  TypeInv /\ SenderNext /\ UNCHANGED receiverVars => TypeInv'
<1> SUFFICES ASSUME TypeInv, SenderNext, UNCHANGED receiverVars
             PROVE  TypeInv'
  OBVIOUS
<1> USE PacketAssumption, SenderAssumption
<1>r. ReceiverWindowOK(rw)'
  BY DEF TypeInv, ReceiverWindowOK, receiverVars
<1>1. CASE SelectTimeout
  <2>1. loop_now' \in 0 .. MaxStamp
    BY <1>1 DEF SelectTimeout, Readings, TypeInv, TypeOK, Windows, DataPackets
  <2> QED BY <1>1, <1>r, <2>1
          DEF SelectTimeout, TypeInv, TypeOK, SenderWindowOK, netVars, receiverVars
<1>2. CASE SelectAnswer
  <2>1. PICK i \in DOMAIN toSender, now \in Readings(sw) :
          /\ toSender' = RemoveAt(toSender, i)
          /\ sw' = ResizedTo(handle_answer(sw, toSender[i], now),
                             toSender[i].window)
          /\ loop_now' = now
    BY <1>2 DEF SelectAnswer, Deliverable
  <2>2. now \in 0 .. clock /\ clock \in 0 .. MaxStamp
    BY DEF Readings, TypeInv, TypeOK, SenderWindowOK, Windows, DataPackets
  <2>3. toSender[i] \in Answers /\ toSender' \in Seq(Answers)
    BY <2>1, RemoveAtSeq DEF TypeInv, TypeOK
  <2>4. SenderWindowOK(sw', clock)
    BY <2>1, <2>2, <2>3, AnswerWindow DEF TypeInv
  <2>5. clock' = clock /\ SenderWindowOK(sw, clock)'
    BY <1>2, <2>4 DEF SelectAnswer, SenderWindowOK
  <2> QED BY <1>2, <1>r, <2>1, <2>2, <2>3, <2>5
          DEF SelectAnswer, TypeInv, TypeOK, SenderWindowOK, receiverVars
<1>3. CASE RetransmitOne
  <2>1. PICK p \in sw.buf : Transmit(p, [sw EXCEPT !.buf = @ \ {p}])
    BY <1>3 DEF RetransmitOne, window_peek_min_timestamp
  <2> DEFINE w == [sw EXCEPT !.buf = @ \ {p}]
  <2>2. p \in DataPackets /\ clock \in 0 .. MaxStamp /\ clock < MaxStamp
    BY <2>1 DEF TypeInv, TypeOK, Windows, Transmit
  <2>3. SenderWindowOK(w, clock)
    BY FS_Subset DEF TypeInv, SenderWindowOK, Windows
  <2>4. /\ SenderWindowOK(sw, clock)'
        /\ toReceiver' \in Seq(DataPackets)
        /\ clock' \in 0 .. MaxStamp
    <3> DEFINE stamped == [p EXCEPT !.timestamp = clock + 1]
    <3>1. stamped \in DataPackets /\ SenderWindowOK(window_push(w, stamped), clock + 1)
      BY <2>2, <2>3, TransmitWindow
    <3>2. /\ sw' = window_push(w, stamped)
          /\ toReceiver' = Append(toReceiver, stamped)
          /\ clock' = clock + 1
      BY <2>1 DEF Transmit
    <3> HIDE DEF stamped, w
    <3>3. SenderWindowOK(sw, clock)'
      BY <3>1, <3>2 DEF SenderWindowOK
    <3> QED BY <2>2, <3>1, <3>2, <3>3 DEF TypeInv, TypeOK
  <2> QED BY <1>3, <1>r, <2>4
          DEF RetransmitOne, TypeInv, TypeOK, SenderWindowOK, receiverVars
<1>4. CASE SendNext
  <2> DEFINE p == Data(next, 0, nread)
  <2>1. Transmit(p, sw)
    BY <1>4 DEF SendNext
  <2>2. sent_eof = FALSE /\ nread \in 0 .. NChunks
    BY <1>4 DEF SendNext, MayFill, TypeInv, TypeOK
  <2>3. p \in DataPackets /\ clock \in 0 .. MaxStamp /\ clock < MaxStamp
    BY <2>1, <2>2 DEF Data, TypeInv, TypeOK, Transmit, DataPackets
  <2>4. /\ SenderWindowOK(sw, clock)'
        /\ toReceiver' \in Seq(DataPackets)
        /\ clock' \in 0 .. MaxStamp
    <3> DEFINE stamped == [p EXCEPT !.timestamp = clock + 1]
    <3>1. stamped \in DataPackets /\ SenderWindowOK(window_push(sw, stamped), clock + 1)
      BY <2>3, TransmitWindow DEF TypeInv
    <3>2. /\ sw' = window_push(sw, stamped)
          /\ toReceiver' = Append(toReceiver, stamped)
          /\ clock' = clock + 1
      BY <2>1 DEF Transmit
    <3> HIDE DEF stamped
    <3>3. SenderWindowOK(sw, clock)'
      BY <3>1, <3>2 DEF SenderWindowOK
    <3> QED BY <2>3, <3>1, <3>2, <3>3 DEF TypeInv, TypeOK
  <2>5. next' \in SeqNums
    BY <1>4, ModRange DEF SendNext, TypeInv, TypeOK, SeqNums
  <2>6. nread' \in 0 .. (NChunks + 1) /\ (sent_eof' <=> nread' = NChunks + 1)
        /\ sent_eof' \in BOOLEAN
    <3>1. sent_eof' = (nread = Eof) /\ nread' = nread + 1
      BY <1>4 DEF SendNext
    <3>2. sent_eof' \in BOOLEAN /\ (sent_eof' <=> nread = Eof)
      BY <3>1, Zenon
    <3> QED BY <2>2, <3>1, <3>2 DEF Eof
  <2> QED BY <1>4, <1>r, <2>4, <2>5, <2>6
          DEF SendNext, TypeInv, TypeOK, SenderWindowOK, receiverVars
<1>5. CASE EndIteration
  BY <1>5, <1>r
     DEF EndIteration, TypeInv, TypeOK, SenderWindowOK, netVars, receiverVars
<1>6. CASE SenderFails
  BY <1>6, <1>r, NetworkAssumption
     DEF SenderFails, Fault, TypeInv, TypeOK, SenderWindowOK, receiverVars
<1> QED BY <1>1, <1>2, <1>3, <1>4, <1>5, <1>6 DEF SenderNext

\* Every path through the receiver's loop keeps the types.
LEMMA TypeReceiverStep ==
  TypeInv /\ ReceiverNext /\ UNCHANGED senderVars => TypeInv'
<1> SUFFICES ASSUME TypeInv, ReceiverNext, UNCHANGED senderVars
             PROVE  TypeInv'
  OBVIOUS
<1> USE PacketAssumption, SenderAssumption
<1>s. SenderWindowOK(sw, clock)'
  BY DEF TypeInv, SenderWindowOK, senderVars
<1>m. ASSUME NEW i \in DOMAIN toReceiver, Receive(i)
      PROVE  toReceiver[i] \in DataPackets /\ toReceiver' \in Seq(DataPackets)
  BY <1>m, RemoveAtSeq DEF TypeInv, TypeOK, Receive
<1>1. CASE IgnoreOutOfWindow
  BY <1>1, <1>s, <1>m
     DEF IgnoreOutOfWindow, TypeInv, TypeOK, ReceiverWindowOK, receiverVars,
         senderVars
<1>2. CASE RefuseTruncated
  <2>1. PICK i \in DOMAIN toReceiver :
          /\ Receive(i)
          /\ toSender' = Append(toSender, Nack(window_available(rw),
                                               toReceiver[i].seqnum))
    BY <1>2 DEF RefuseTruncated
  <2>2. Nack(window_available(rw), toReceiver[i].seqnum) \in Answers
    BY <1>m, <2>1, AvailableRange DEF TypeInv, Nack, Answers, DataPackets
  <2> QED BY <1>2, <1>s, <1>m, <2>1, <2>2
          DEF RefuseTruncated, TypeInv, TypeOK, ReceiverWindowOK,
              receiverVars, senderVars
<1>3. CASE AcceptData
  <2>1. PICK i \in DOMAIN toReceiver, n \in 0 .. Capacity :
          /\ Receive(i)
          /\ IsRun(Stored(rw, toReceiver[i]), n)
          /\ rw' = Delivered(Stored(rw, toReceiver[i]), n)
          /\ written' = written \o RunChunks(Stored(rw, toReceiver[i]), n)
          /\ toSender' = Append(toSender, Ack(window_available(rw'), rw'.pos,
                                              toReceiver[i].timestamp))
    BY <1>3 DEF AcceptData
  <2>2. toReceiver[i] \in DataPackets /\ n \in Nat
    BY <1>m, <2>1, WindowAssumption
  <2>3. ReceiverWindowOK(Stored(rw, toReceiver[i])) /\ ReceiverWindowOK(rw')
    BY <2>1, <2>2, DeliveryWindow DEF TypeInv
  <2>4. ReceiverWindowOK(rw)'
    BY <2>3 DEF ReceiverWindowOK
  <2>5. written' \in Seq(0 .. NChunks)
    BY <2>1, <2>2, <2>3, RunChunksType DEF ReceiverWindowOK, TypeInv, TypeOK
  <2>6. Ack(window_available(rw'), rw'.pos, toReceiver[i].timestamp) \in Answers
    BY <2>2, <2>3, AvailableRange
       DEF Ack, Answers, DataPackets, ReceiverWindowOK, Windows
  <2> QED BY <1>3, <1>s, <1>m, <2>1, <2>4, <2>5, <2>6
          DEF AcceptData, TypeInv, TypeOK, ReceiverWindowOK, senderVars
<1>4. CASE ReceiverFails
  BY <1>4, <1>s, NetworkAssumption
     DEF ReceiverFails, Fault, TypeInv, TypeOK, ReceiverWindowOK, senderVars
<1>5. CASE FailDelivering
  <2>1. PICK i \in DOMAIN toReceiver, n \in 0 .. Capacity :
          /\ Receive(i)
          /\ IsRun(Stored(rw, toReceiver[i]), n)
          /\ written' = written \o RunChunks(Stored(rw, toReceiver[i]), n)
    BY <1>5 DEF FailDelivering
  <2>2. toReceiver[i] \in DataPackets /\ n \in Nat
    BY <1>m, <2>1, WindowAssumption
  <2>3. ReceiverWindowOK(Stored(rw, toReceiver[i]))
    BY <2>2, DeliveryWindow DEF TypeInv
  <2>4. written' \in Seq(0 .. NChunks)
    BY <2>1, <2>2, <2>3, RunChunksType DEF ReceiverWindowOK, TypeInv, TypeOK
  <2> QED BY <1>5, <1>s, <1>m, <2>1, <2>4, NetworkAssumption
          DEF FailDelivering, Fault, TypeInv, TypeOK, ReceiverWindowOK,
              senderVars
<1> QED BY <1>1, <1>2, <1>3, <1>4, <1>5 DEF ReceiverNext

\* The network only ever removes, copies or marks datagrams: what a channel
\* holds stays in every set of packets that marking does not leave.
LEMMA NetworkStep ==
  ASSUME NEW D, NEW A, NetworkNext,
         toReceiver \in Seq(D), toSender \in Seq(A),
         \A p \in D : [p EXCEPT !.tr = TRUE] \in D
  PROVE  /\ toReceiver' \in Seq(D)
         /\ toSender' \in Seq(A)
         /\ Len(toSender) = 0 => Len(toSender') = 0
         /\ faults \in 0 .. MaxFaults => faults' \in 0 .. MaxFaults
<1>1. CASE LoseData
  BY <1>1, RemoveAtSeq, NetworkAssumption DEF LoseData, Fault, Deliverable
<1>2. CASE LoseAnswer
  BY <1>2, RemoveAtSeq, NetworkAssumption DEF LoseAnswer, Fault, Deliverable
<1>3. CASE DuplicateData
  BY <1>3, InsertAtSeq, NetworkAssumption DEF DuplicateData, Fault, Deliverable
<1>4. CASE DuplicateAnswer
  BY <1>4, InsertAtSeq, NetworkAssumption DEF DuplicateAnswer, Fault, Deliverable
<1>5. CASE Truncate
  BY <1>5, NetworkAssumption DEF Truncate, Fault
<1> QED BY <1>1, <1>2, <1>3, <1>4, <1>5 DEF NetworkNext

\* Every fault of the network keeps the types.
LEMMA TypeNetworkStep ==
  TypeInv /\ NetworkNext /\ UNCHANGED <<senderVars, receiverVars>> => TypeInv'
<1> SUFFICES ASSUME TypeInv, NetworkNext, UNCHANGED <<senderVars, receiverVars>>
             PROVE  TypeInv'
  OBVIOUS
<1>1. \A p \in DataPackets : [p EXCEPT !.tr = TRUE] \in DataPackets
  BY DEF DataPackets
<1>2. /\ toReceiver' \in Seq(DataPackets)
      /\ toSender' \in Seq(Answers)
      /\ faults' \in 0 .. MaxFaults
  BY <1>1, NetworkStep DEF TypeInv, TypeOK
<1> QED BY <1>2 DEF TypeInv, TypeOK, SenderWindowOK, ReceiverWindowOK,
                    senderVars, receiverVars

\* The invariant is inductive.
LEMMA TypeStep == TypeInv /\ [Next]_vars => TypeInv'
<1>1. TypeInv /\ UNCHANGED vars => TypeInv'
  BY DEF TypeInv, TypeOK, SenderWindowOK, ReceiverWindowOK, vars, senderVars,
         receiverVars, netVars
<1> QED BY <1>1, TypeSenderStep, TypeReceiverStep, TypeNetworkStep DEF Next

\* The inductive invariant holds, for the theorems that build on it.
LEMMA TypeInvariant == Spec => []TypeInv
BY TypeInit, TypeStep, PTL DEF Spec

\* Every variable keeps its type in every behaviour, whatever the file, the
\* capacity, the sequence space, the faults and the bounds are.
THEOREM TypeCorrect == Spec => []TypeOK
<1>1. TypeInv => TypeOK
  BY DEF TypeInv
<1> QED BY <1>1, TypeInvariant, PTL
=============================================================================
