--------------------------- MODULE DeliveryProofs ---------------------------
(***************************************************************************)
(* What the receiver can rely on over every network: the output file is a  *)
(* prefix of the input file if that is shorter than the sequence space,    *)
(* and its buffer never fills up.  And nothing unblocks a wedged transfer. *)
(***************************************************************************)
EXTENDS TransportProofs

\* The packets whose sequence number tells the chunk.
Faithful == {p \in DataPackets : p.seqnum = p.chunk}

\* The inductive invariant: as long as sequence numbers do not wrap around,
\* every packet anywhere carries the chunk of its sequence number, and the
\* position of the receiving window is the length of the file.
DeliveryInv ==
  /\ TypeInv
  /\ sw.buf \subseteq Faithful
  /\ rw.buf \subseteq Faithful
  /\ toReceiver \in Seq(Faithful)
  /\ ~sent_eof => next = nread
  /\ rphase = "running" => rw.pos = Len(written)
  /\ WrittenIsPrefix

-----------------------------------------------------------------------------
\* A run in a buffer of faithful packets ends before the end of the file, and
\* its chunks are those that come next.
LEMMA RunIsNext ==
  ASSUME NChunks < SeqSpace,
         NEW w \in Windows, w.buf \subseteq Faithful, w.pos <= NChunks,
         NEW n \in Nat, IsRun(w, n)
  PROVE  /\ w.pos + n <= NChunks
         /\ RunChunks(w, n) = [j \in 1 .. n |-> w.pos + (j - 1)]
<1> USE PacketAssumption
<1>0. w.pos \in Nat
  BY DEF Windows, SeqNums
<1>1. w.pos + n <= NChunks
  <2> SUFFICES ASSUME w.pos + n > NChunks PROVE FALSE
    BY <1>0
  <2> DEFINE j == NChunks - w.pos
  <2>1. j \in 0 .. (n - 1) /\ w.pos + j = NChunks
    BY <1>0
  <2>2. PICK p \in w.buf : p.seqnum = (w.pos + j) % SeqSpace /\ p.chunk # Eof
    BY <2>1 DEF IsRun
  <2>3. (w.pos + j) % SeqSpace = NChunks
    BY <2>1, ModSmall
  <2> QED BY <2>2, <2>3 DEF Faithful, Eof
<1>2. ASSUME NEW j \in 1 .. n
      PROVE  NextChunk(w, j) = w.pos + (j - 1)
  <2>1. w.pos + (j - 1) \in Nat /\ w.pos + (j - 1) < SeqSpace
    BY <1>0, <1>1, WindowAssumption
  <2>2. (w.pos + (j - 1)) % SeqSpace = w.pos + (j - 1)
    BY <2>1, ModSmall
  <2>3. \E p \in w.buf : p.seqnum = (w.pos + (j - 1)) % SeqSpace
    BY DEF IsRun
  <2>4. PICK p \in w.buf : /\ p.seqnum = (w.pos + (j - 1)) % SeqSpace
                           /\ NextChunk(w, j) = p.chunk
    BY <2>3 DEF NextChunk
  <2> QED BY <2>2, <2>4 DEF Faithful
<1> QED BY <1>1, <1>2 DEF RunChunks

\* Appending the next chunks to a prefix of the file gives a prefix.
LEMMA PrefixGrows ==
  ASSUME NEW f \in Seq(Nat), \A i \in DOMAIN f : f[i] = i - 1,
         NEW n \in Nat
  PROVE  LET g == f \o [j \in 1 .. n |-> Len(f) + (j - 1)]
         IN  /\ Len(g) = Len(f) + n
             /\ \A i \in DOMAIN g : g[i] = i - 1
OBVIOUS

\* Storing a packet and popping others keeps the buffer faithful.
LEMMA DeliveryFaithful ==
  ASSUME NEW w \in Windows, w.buf \subseteq Faithful, NEW p \in Faithful,
         NEW n \in Nat
  PROVE  /\ Stored(w, p).buf \subseteq Faithful
         /\ Delivered(Stored(w, p), n).buf \subseteq Faithful
<1>1. Stored(w, p) \in Windows /\ Stored(w, p).buf \subseteq Faithful
  BY DEF Stored, window_push, Windows, Faithful
<1>2. ASSUME NEW v \in Windows, v.buf \subseteq Faithful
      PROVE  Delivered(v, n).buf \subseteq Faithful
  BY <1>2 DEF Delivered, window_slide, Windows
<1> QED BY <1>1, <1>2

\* What the receiver does with an in-window packet, to the file.
LEMMA DeliverStep ==
  ASSUME NChunks < SeqSpace, DeliveryInv, rphase = "running",
         NEW p \in Faithful, NEW n \in Nat, IsRun(Stored(rw, p), n),
         written' = written \o RunChunks(Stored(rw, p), n)
  PROVE  /\ WrittenIsPrefix'
         /\ Len(written') = rw.pos + n
         /\ rw.pos + n <= NChunks
<1>1. p \in DataPackets /\ ReceiverWindowOK(rw) /\ rw \in Windows
  BY DEF Faithful, DeliveryInv, TypeInv, TypeOK
<1>2. /\ Stored(rw, p) \in Windows
      /\ Stored(rw, p).pos = rw.pos
  BY <1>1, DeliveryWindow DEF ReceiverWindowOK, Stored, window_push, Windows
<1>3. Stored(rw, p).buf \subseteq Faithful
  BY <1>1, DeliveryFaithful DEF DeliveryInv
<1>4. rw.pos = Len(written) /\ Len(written) <= NChunks
  BY DEF DeliveryInv, WrittenIsPrefix
<1>5. /\ rw.pos + n <= NChunks
      /\ RunChunks(Stored(rw, p), n) = [j \in 1 .. n |-> rw.pos + (j - 1)]
  BY <1>2, <1>3, <1>4, RunIsNext
<1>6. written \in Seq(Nat) /\ \A i \in DOMAIN written : written[i] = i - 1
  BY PacketAssumption DEF DeliveryInv, TypeInv, TypeOK, WrittenIsPrefix
<1>7. /\ Len(written') = Len(written) + n
      /\ \A i \in DOMAIN written' : written'[i] = i - 1
  BY <1>4, <1>5, <1>6, PrefixGrows
<1> QED BY <1>4, <1>5, <1>7 DEF WrittenIsPrefix

-----------------------------------------------------------------------------
\* At the start nothing is on its way and nothing is written.
LEMMA DeliveryInit == Init => DeliveryInv
<1> SUFFICES ASSUME Init PROVE DeliveryInv
  OBVIOUS
<1>1. TypeInv
  BY TypeInit
<1> QED BY <1>1, PacketAssumption
        DEF Init, SenderInit, ReceiverInit, NetworkInit, window_create,
            DeliveryInv, WrittenIsPrefix

\* An answer pops packets and may restamp one: the others are untouched.
LEMMA AnswerFaithful ==
  ASSUME NEW w \in Windows, w.buf \subseteq Faithful, NEW m \in Answers,
         NEW now \in 0 .. MaxStamp
  PROVE  ResizedTo(handle_answer(w, m, now), m.window).buf \subseteq Faithful
<1>1. handle_ack(w, m).buf \subseteq Faithful /\ handle_ack(w, m) \in Windows
  BY DEF handle_ack, window_slide_to, Windows, Answers
<1>2. handle_nack(w, m, now).buf \subseteq Faithful
      /\ handle_nack(w, m, now) \in Windows
  <2> DEFINE restamped(p) == IF p \in window_find_seqnum(w, m.seqnum)
                             THEN [p EXCEPT !.timestamp = now] ELSE p
  <2>1. {restamped(p) : p \in w.buf} \subseteq Faithful
    BY SenderAssumption DEF Faithful, DataPackets
  <2>2. Faithful \subseteq DataPackets
    BY DEF Faithful
  <2> QED BY <2>1, <2>2 DEF handle_nack, Windows
<1>3. ASSUME NEW v \in Windows
      PROVE  ResizedTo(v, m.window).buf = v.buf
  BY DEF ResizedTo, window_resize, Windows
<1> QED BY <1>1, <1>2, <1>3 DEF handle_answer

\* The sender numbers the chunks of the file in order and sends packets again
\* with the chunk they had.
LEMMA DeliverySenderStep ==
  NChunks < SeqSpace =>
    (DeliveryInv /\ SenderNext /\ UNCHANGED receiverVars => DeliveryInv')
<1> SUFFICES ASSUME NChunks < SeqSpace, DeliveryInv, SenderNext,
                    UNCHANGED receiverVars
             PROVE  DeliveryInv'
  OBVIOUS
<1> USE PacketAssumption, SenderAssumption
<1>t. TypeInv'
  BY TypeSenderStep DEF DeliveryInv
<1>r. /\ rw'.buf \subseteq Faithful
      /\ rphase' = "running" => rw'.pos = Len(written')
      /\ WrittenIsPrefix'
  BY DEF DeliveryInv, WrittenIsPrefix, receiverVars
<1>c. ASSUME NEW p \in Faithful, NEW w \in Windows, w.buf \subseteq Faithful,
             Transmit(p, w)
      PROVE  toReceiver' \in Seq(Faithful) /\ sw'.buf \subseteq Faithful
  <2> DEFINE stamped == [p EXCEPT !.timestamp = clock + 1]
  <2>1. stamped \in Faithful
    <3>1. clock \in 0 .. MaxStamp /\ clock < MaxStamp
      BY <1>c DEF Transmit, DeliveryInv, TypeInv, TypeOK
    <3>2. clock + 1 \in 0 .. MaxStamp
      BY <3>1
    <3> QED BY <3>2 DEF Faithful, DataPackets
  <2>2. toReceiver' = Append(toReceiver, stamped) /\ sw' = window_push(w, stamped)
    BY <1>c DEF Transmit
  <2> HIDE DEF stamped
  <2> QED BY <1>c, <2>1, <2>2 DEF DeliveryInv, window_push, Windows
<1>1. CASE SelectTimeout
  BY <1>1, <1>t, <1>r DEF SelectTimeout, DeliveryInv, netVars
<1>2. CASE SelectAnswer
  <2>1. PICK i \in DOMAIN toSender, now \in Readings(sw) :
          sw' = ResizedTo(handle_answer(sw, toSender[i], now),
                          toSender[i].window)
    BY <1>2 DEF SelectAnswer, Deliverable
  <2>2. now \in 0 .. MaxStamp /\ toSender[i] \in Answers /\ sw \in Windows
    BY DEF Readings, DeliveryInv, TypeInv, TypeOK, Windows, DataPackets
  <2>3. sw'.buf \subseteq Faithful
    BY <2>1, <2>2, AnswerFaithful DEF DeliveryInv
  <2> QED BY <1>2, <1>t, <1>r, <2>3 DEF SelectAnswer, DeliveryInv
<1>3. CASE RetransmitOne
  <2>1. PICK p \in sw.buf : Transmit(p, [sw EXCEPT !.buf = @ \ {p}])
    BY <1>3 DEF RetransmitOne, window_peek_min_timestamp
  <2> DEFINE w == [sw EXCEPT !.buf = @ \ {p}]
  <2>2. p \in Faithful /\ w \in Windows /\ w.buf \subseteq Faithful
    BY DEF DeliveryInv, TypeInv, TypeOK, Windows
  <2>3. toReceiver' \in Seq(Faithful) /\ sw'.buf \subseteq Faithful
    BY <1>c, <2>1, <2>2
  <2> QED BY <1>3, <1>t, <1>r, <2>3 DEF RetransmitOne, DeliveryInv
<1>4. CASE SendNext
  <2>1. sent_eof = FALSE /\ nread \in 0 .. NChunks /\ next = nread
    BY <1>4 DEF SendNext, MayFill, DeliveryInv, TypeInv, TypeOK
  <2>2. Data(next, 0, nread) \in Faithful
    BY <2>1 DEF Data, Faithful, DataPackets, DeliveryInv, TypeInv, TypeOK
  <2>3. toReceiver' \in Seq(Faithful) /\ sw'.buf \subseteq Faithful
    BY <1>4, <1>c, <2>2 DEF SendNext, DeliveryInv, TypeInv, TypeOK
  <2>4. nread = NChunks \/ (next + 1) % SeqSpace = next + 1
    <3>1. CASE nread # NChunks
      <4>1. next + 1 \in Nat /\ next + 1 < SeqSpace
        BY <2>1, <3>1, WindowAssumption
      <4> QED BY <4>1, ModSmall
    <3> QED BY <3>1
  <2>5. ~sent_eof' => next' = nread'
    BY <1>4, <2>1, <2>4 DEF SendNext, Eof
  <2> QED BY <1>t, <1>r, <2>3, <2>5 DEF DeliveryInv
<1>5. CASE EndIteration
  BY <1>5, <1>t, <1>r DEF EndIteration, DeliveryInv, netVars
<1>6. CASE SenderFails
  BY <1>6, <1>t, <1>r DEF SenderFails, DeliveryInv
<1> QED BY <1>1, <1>2, <1>3, <1>4, <1>5, <1>6 DEF SenderNext

\* The receiver buffers only what is in its window and writes only what is
\* next, also if it fails in the middle of a run.
LEMMA DeliveryReceiverStep ==
  NChunks < SeqSpace =>
    (DeliveryInv /\ ReceiverNext /\ UNCHANGED senderVars => DeliveryInv')
<1> SUFFICES ASSUME NChunks < SeqSpace, DeliveryInv, ReceiverNext,
                    UNCHANGED senderVars
             PROVE  DeliveryInv'
  OBVIOUS
<1> USE PacketAssumption
<1>t. TypeInv'
  BY TypeReceiverStep DEF DeliveryInv
<1>s. sw'.buf \subseteq Faithful /\ (~sent_eof' => next' = nread')
  BY DEF DeliveryInv, senderVars
<1>m. ASSUME NEW i \in DOMAIN toReceiver, Receive(i)
      PROVE  /\ toReceiver[i] \in Faithful /\ toReceiver' \in Seq(Faithful)
             /\ rphase = "running"
  BY <1>m, RemoveAtSeq DEF DeliveryInv, Receive
<1>1. CASE IgnoreOutOfWindow
  BY <1>1, <1>t, <1>s, <1>m
     DEF IgnoreOutOfWindow, DeliveryInv, WrittenIsPrefix, receiverVars
<1>2. CASE RefuseTruncated
  BY <1>2, <1>t, <1>s, <1>m
     DEF RefuseTruncated, DeliveryInv, WrittenIsPrefix, receiverVars
<1>3. CASE AcceptData
  <2>1. PICK i \in DOMAIN toReceiver, n \in 0 .. Capacity :
          /\ Receive(i)
          /\ IsRun(Stored(rw, toReceiver[i]), n)
          /\ rw' = Delivered(Stored(rw, toReceiver[i]), n)
          /\ written' = written \o RunChunks(Stored(rw, toReceiver[i]), n)
    BY <1>3 DEF AcceptData
  <2>2. toReceiver[i] \in Faithful /\ toReceiver[i] \in DataPackets /\ n \in Nat
        /\ rw \in Windows /\ ReceiverWindowOK(rw)
    BY <1>m, <2>1, WindowAssumption
       DEF Faithful, DeliveryInv, TypeInv, TypeOK
  <2>3. /\ WrittenIsPrefix'
        /\ Len(written') = rw.pos + n
        /\ rw.pos + n <= NChunks
    BY <1>m, <2>1, <2>2, DeliverStep
  <2>4. rw'.pos = (rw.pos + n) % SeqSpace
    BY <2>1, <2>2, DeliveryWindow
  <2>5. (rw.pos + n) % SeqSpace = rw.pos + n
    BY <2>2, <2>3, ModSmall, WindowAssumption DEF Windows, SeqNums
  <2>6. rw'.buf \subseteq Faithful
    BY <2>1, <2>2, DeliveryFaithful DEF DeliveryInv
  <2> QED BY <1>t, <1>s, <1>m, <2>1, <2>3, <2>4, <2>5, <2>6 DEF DeliveryInv
<1>4. CASE ReceiverFails
  BY <1>4, <1>t, <1>s DEF ReceiverFails, DeliveryInv, WrittenIsPrefix
<1>5. CASE FailDelivering
  <2>1. PICK i \in DOMAIN toReceiver, n \in 0 .. Capacity :
          /\ Receive(i)
          /\ IsRun(Stored(rw, toReceiver[i]), n)
          /\ written' = written \o RunChunks(Stored(rw, toReceiver[i]), n)
    BY <1>5 DEF FailDelivering
  <2>2. toReceiver[i] \in Faithful /\ n \in Nat
    BY <1>m, <2>1, WindowAssumption
  <2>3. WrittenIsPrefix'
    BY <1>m, <2>1, <2>2, DeliverStep
  <2> QED BY <1>5, <1>t, <1>s, <1>m, <2>1, <2>3 DEF FailDelivering, DeliveryInv
<1> QED BY <1>1, <1>2, <1>3, <1>4, <1>5 DEF ReceiverNext

\* Lost, copied, truncated and overtaken packets keep the chunk of their number.
LEMMA DeliveryNetworkStep ==
  DeliveryInv /\ NetworkNext /\ UNCHANGED <<senderVars, receiverVars>>
    => DeliveryInv'
<1> SUFFICES ASSUME DeliveryInv, NetworkNext,
                    UNCHANGED <<senderVars, receiverVars>>
             PROVE  DeliveryInv'
  OBVIOUS
<1>1. \A p \in Faithful : [p EXCEPT !.tr = TRUE] \in Faithful
  BY DEF Faithful, DataPackets
<1>2. toReceiver' \in Seq(Faithful)
  BY <1>1, NetworkStep DEF DeliveryInv, TypeInv, TypeOK
<1>3. TypeInv'
  BY TypeNetworkStep DEF DeliveryInv
<1> QED BY <1>2, <1>3 DEF DeliveryInv, WrittenIsPrefix, senderVars, receiverVars

\* The invariant is inductive if the sequence numbers do not wrap around.
LEMMA DeliveryStep ==
  NChunks < SeqSpace => (DeliveryInv /\ [Next]_vars => DeliveryInv')
<1>1. DeliveryInv /\ UNCHANGED vars => DeliveryInv'
  <2> SUFFICES ASSUME DeliveryInv, UNCHANGED vars PROVE DeliveryInv'
    OBVIOUS
  <2>1. TypeInv'
    BY TypeStep DEF DeliveryInv
  <2> QED BY <2>1 DEF DeliveryInv, WrittenIsPrefix, vars, senderVars,
                      receiverVars, netVars
<1> QED BY <1>1, DeliverySenderStep, DeliveryReceiverStep, DeliveryNetworkStep
        DEF Next

\* The delivery loop of the receiver writes the chunks of the file in order,
\* each once, whatever the network does to the packets and wherever a process
\* exits, provided that the file has fewer chunks than there are sequence
\* numbers.
THEOREM OutputIsPrefix ==
  ASSUME NChunks < SeqSpace
  PROVE  Spec => []WrittenIsPrefix
<1>1. DeliveryInv /\ [Next]_vars => DeliveryInv'
  BY DeliveryStep
<1>2. DeliveryInv => WrittenIsPrefix
  BY DEF DeliveryInv
<1> QED BY <1>1, <1>2, DeliveryInit, PTL DEF Spec

-----------------------------------------------------------------------------
(* Arithmetic modulo the sequence space.                                   *)

\* Arithmetic of one turn around the sequence space.
LEMMA ModOnce ==
  ASSUME NEW n \in Nat, n < 2 * SeqSpace
  PROVE  n % SeqSpace = IF n < SeqSpace THEN n ELSE n - SeqSpace
<1>1. SeqSpace \in Nat \ {0}
  BY WindowAssumption
<1> QED BY <1>1

\* The sequence numbers in the window are those from its position on.
LEMMA WindowHas ==
  ASSUME NEW w \in Windows, w.size = Capacity, NEW s \in SeqNums,
         window_has(w, s)
  PROVE  \E k \in 0 .. (Capacity - 1) : s = (w.pos + k) % SeqSpace
<1>1. w.pos \in SeqNums /\ Capacity \in Nat \ {0} /\ SeqSpace \in Nat
      /\ Capacity <= SeqSpace
  BY WindowAssumption DEF Windows
<1>2. window_end(w) = IF w.pos + (Capacity - 1) < SeqSpace
                      THEN w.pos + (Capacity - 1)
                      ELSE w.pos + (Capacity - 1) - SeqSpace
  BY <1>1, ModOnce DEF window_end, SeqNums
<1>3. CASE w.pos <= s
  <2>1. s - w.pos \in 0 .. (Capacity - 1)
    BY <1>1, <1>2, <1>3 DEF window_has, SeqNums
  <2>2. (w.pos + (s - w.pos)) % SeqSpace = s
    BY <1>1, <1>3, ModSmall DEF SeqNums
  <2> QED BY <2>1, <2>2
<1>4. CASE s < w.pos
  <2> DEFINE k == s + SeqSpace - w.pos
  <2>1. k \in 0 .. (Capacity - 1)
    BY <1>1, <1>2, <1>4 DEF window_has, SeqNums
  <2>2. w.pos + k = s + SeqSpace
    BY <1>1 DEF SeqNums
  <2>3. (w.pos + k) % SeqSpace = s
    BY <1>1, <2>2, ModOnce DEF SeqNums
  <2> QED BY <2>1, <2>3
<1> QED BY <1>1, <1>3, <1>4 DEF SeqNums

-----------------------------------------------------------------------------
\* A packet is ahead of the window if it is in the window but not the next.
IsAhead(w, p) ==
  \E k \in 1 .. (Capacity - 1) : p.seqnum = (w.pos + k) % SeqSpace

\* Each sequence number is in the buffer at most once.
IsDistinct(w) == \A p, q \in w.buf : p.seqnum = q.seqnum => p = q

\* The inductive invariant: delivery leaves only packets ahead of the window,
\* and there is always one sequence number more in the window than those.
RoomInv ==
  /\ TypeInv
  /\ \A p \in rw.buf : IsAhead(rw, p)
  /\ IsDistinct(rw)
  /\ toSender \in Seq({m \in Answers : m.window # 0})

\* The packets ahead of the window are fewer than the window is large.
LEMMA AheadAreFew ==
  ASSUME NEW w, ReceiverWindowOK(w), IsDistinct(w),
         \A p \in w.buf : IsAhead(w, p)
  PROVE  Cardinality(w.buf) \in 0 .. (Capacity - 1)
<1> DEFINE T == 1 .. (Capacity - 1)
           f == [p \in w.buf |-> CHOOSE k \in T :
                                   p.seqnum = (w.pos + k) % SeqSpace]
<1>1. /\ f \in [w.buf -> T]
      /\ \A p \in w.buf : p.seqnum = (w.pos + f[p]) % SeqSpace
  BY DEF IsAhead
<1> HIDE DEF f
<1>2. f \in Injection(w.buf, T)
  <2>1. \A p, q \in w.buf : f[p] = f[q] => p.seqnum = q.seqnum
    BY <1>1
  <2>2. \A p, q \in w.buf : f[p] = f[q] => p = q
    BY <2>1 DEF IsDistinct
  <2> HIDE DEF T
  <2> QED BY <1>1, <2>2 DEF Injection, IsInjective
<1>3. IsFiniteSet(T) /\ Cardinality(T) = Capacity - 1
  BY FS_Interval, WindowAssumption
<1>4. Cardinality(w.buf) <= Capacity - 1
  BY <1>2, <1>3, FS_Injection
<1> QED BY <1>4, FS_CardinalityType, WindowAssumption DEF ReceiverWindowOK

\* Storing a packet of the window keeps the sequence numbers distinct.
LEMMA StoredDistinct ==
  ASSUME NEW w, ReceiverWindowOK(w), IsDistinct(w), NEW p
  PROVE  IsDistinct(Stored(w, p))
BY DEF IsDistinct, Stored, window_push, window_find_seqnum, ReceiverWindowOK,
       Windows

\* After the delivery loop the packets left are ahead of the window again.
LEMMA DeliveredAhead ==
  ASSUME NEW w, ReceiverWindowOK(w), NEW n \in 0 .. Capacity,
         \A p \in w.buf : \E k \in 0 .. (Capacity - 1) :
           p.seqnum = (w.pos + k) % SeqSpace
  PROVE  \A p \in Delivered(w, n).buf : IsAhead(Delivered(w, n), p)
<1>1. w.pos \in 0 .. (SeqSpace - 1) /\ Capacity \in Nat \ {0}
      /\ SeqSpace \in Nat /\ Capacity <= SeqSpace
  BY WindowAssumption DEF ReceiverWindowOK, Windows, SeqNums
<1>2. Delivered(w, n).pos = (w.pos + n) % SeqSpace
      /\ Delivered(w, n).buf = w.buf \ (InRun(w, n) \cup AfterRun(w, n))
  BY DEF Delivered, window_slide, ReceiverWindowOK, Windows
<1> SUFFICES ASSUME NEW p \in w.buf, p \notin InRun(w, n), p \notin AfterRun(w, n)
             PROVE  \E k \in 1 .. (Capacity - 1) :
                      p.seqnum = (((w.pos + n) % SeqSpace) + k) % SeqSpace
  BY <1>2 DEF IsAhead
<1>3. PICK k \in 0 .. (Capacity - 1) : p.seqnum = (w.pos + k) % SeqSpace
  OBVIOUS
<1>4. k > n
  <2>1. k \notin 0 .. (n - 1)
    BY <1>3 DEF InRun
  <2>2. k # n
    BY <1>3 DEF AfterRun, window_find_seqnum
  <2> QED BY <1>1, <2>1, <2>2
<1>5. k - n \in 1 .. (Capacity - 1)
  BY <1>1, <1>4
<1>6. (((w.pos + n) % SeqSpace) + (k - n)) % SeqSpace = (w.pos + k) % SeqSpace
  <2>1. (w.pos + n) % SeqSpace = IF w.pos + n < SeqSpace THEN w.pos + n
                                 ELSE w.pos + n - SeqSpace
    BY <1>1, ModOnce
  <2>2. (w.pos + k) % SeqSpace = IF w.pos + k < SeqSpace THEN w.pos + k
                                 ELSE w.pos + k - SeqSpace
    BY <1>1, ModOnce
  <2>3. CASE w.pos + n < SeqSpace
    <3>1. ((w.pos + n) % SeqSpace) + (k - n) = w.pos + k
      BY <1>1, <2>1, <2>3
    <3> QED BY <3>1
  <2>4. CASE ~(w.pos + n < SeqSpace)
    <3>1. ((w.pos + n) % SeqSpace) + (k - n) = w.pos + k - SeqSpace
      BY <1>1, <2>1, <2>4
    <3>2. w.pos + k - SeqSpace \in Nat /\ w.pos + k - SeqSpace < SeqSpace
      BY <1>1, <1>4, <2>4
    <3>3. (w.pos + k - SeqSpace) % SeqSpace = w.pos + k - SeqSpace
      BY <3>2, ModSmall
    <3> QED BY <1>1, <1>4, <2>2, <2>4, <3>1, <3>3
  <2> QED BY <2>3, <2>4
<1> QED BY <1>3, <1>5, <1>6

\* So there is room in the receiver, and it says so.
LEMMA AheadLeavesRoom ==
  ASSUME NEW w, ReceiverWindowOK(w), IsDistinct(w),
         \A p \in w.buf : IsAhead(w, p)
  PROVE  ~window_full(w) /\ window_available(w) \in 1 .. Capacity
BY AheadAreFew, WindowAssumption
   DEF window_full, window_available, window_buffer_size, ReceiverWindowOK

-----------------------------------------------------------------------------
\* The receiver starts with an empty buffer.
LEMMA RoomInit == Init => RoomInv
<1> SUFFICES ASSUME Init PROVE RoomInv
  OBVIOUS
<1>1. TypeInv
  BY TypeInit
<1> QED BY <1>1
        DEF Init, ReceiverInit, NetworkInit, window_create, RoomInv, IsDistinct

\* The sender does not touch the receiver, and only takes answers.
LEMMA RoomSenderStep ==
  RoomInv /\ SenderNext /\ UNCHANGED receiverVars => RoomInv'
<1> SUFFICES ASSUME RoomInv, SenderNext, UNCHANGED receiverVars
             PROVE  RoomInv'
  OBVIOUS
<1>1. TypeInv'
  BY TypeSenderStep DEF RoomInv
<1>2. toSender' \in Seq({m \in Answers : m.window # 0})
  <2>1. CASE SelectAnswer
    BY <2>1, RemoveAtSeq DEF SelectAnswer, Deliverable, RoomInv
  <2>2. CASE UNCHANGED toSender
    BY <2>2 DEF RoomInv
  <2> QED BY <2>1, <2>2
          DEF SenderNext, SelectTimeout, RetransmitOne, SendNext, EndIteration,
              SenderFails, netVars
<1> QED BY <1>1, <1>2 DEF RoomInv, IsAhead, IsDistinct, receiverVars

\* What the receiver stores and does not write at once is ahead of its window.
LEMMA RoomReceiverStep ==
  RoomInv /\ ReceiverNext /\ UNCHANGED senderVars => RoomInv'
<1> SUFFICES ASSUME RoomInv, ReceiverNext, UNCHANGED senderVars
             PROVE  RoomInv'
  OBVIOUS
<1>t. TypeInv'
  BY TypeReceiverStep DEF RoomInv
<1>1. CASE UNCHANGED <<rw, toSender>>
  BY <1>1, <1>t DEF RoomInv, IsAhead, IsDistinct
<1>2. CASE RefuseTruncated
  <2>1. PICK i \in DOMAIN toReceiver :
          toSender' = Append(toSender, Nack(window_available(rw),
                                            toReceiver[i].seqnum))
    BY <1>2 DEF RefuseTruncated
  <2>2. window_available(rw) \in 1 .. Capacity
    BY AheadLeavesRoom DEF RoomInv, TypeInv
  <2>3. toReceiver[i].seqnum \in SeqNums
    <3>1. toReceiver[i] \in DataPackets
      BY DEF RoomInv, TypeInv, TypeOK
    <3> QED BY <3>1 DEF DataPackets
  <2>4. Nack(window_available(rw), toReceiver[i].seqnum)
          \in {m \in Answers : m.window # 0}
    BY <2>2, <2>3, SenderAssumption, WindowAssumption DEF Nack, Answers
  <2> QED BY <1>2, <1>t, <2>1, <2>4
          DEF RefuseTruncated, receiverVars, RoomInv, IsAhead, IsDistinct
<1>3. CASE AcceptData
  <2>1. PICK i \in DOMAIN toReceiver, n \in 0 .. Capacity :
          /\ window_has(rw, toReceiver[i].seqnum)
          /\ rw' = Delivered(Stored(rw, toReceiver[i]), n)
          /\ toSender' = Append(toSender, Ack(window_available(rw'), rw'.pos,
                                              toReceiver[i].timestamp))
    BY <1>3 DEF AcceptData
  <2> DEFINE p == toReceiver[i]
             stored == Stored(rw, p)
  <2>2. p \in DataPackets /\ n \in Nat /\ rw \in Windows /\ ReceiverWindowOK(rw)
        /\ rw.size = Capacity /\ p.seqnum \in SeqNums
    <3>1. p \in DataPackets
      BY DEF RoomInv, TypeInv, TypeOK
    <3>2. n \in Nat
      BY WindowAssumption
    <3>3. rw \in Windows /\ ReceiverWindowOK(rw) /\ rw.size = Capacity
      BY DEF RoomInv, TypeInv, TypeOK
    <3> QED BY <3>1, <3>2, <3>3 DEF DataPackets
  <2>3. ReceiverWindowOK(stored) /\ ReceiverWindowOK(rw')
    BY <2>1, <2>2, DeliveryWindow
  <2>4. IsDistinct(stored)
    BY <2>2, StoredDistinct DEF RoomInv
  <2>5. \A q \in stored.buf : \E k \in 0 .. (Capacity - 1) :
          q.seqnum = (stored.pos + k) % SeqSpace
    <3>1. \E k \in 0 .. (Capacity - 1) : p.seqnum = (rw.pos + k) % SeqSpace
      BY <2>1, <2>2, WindowHas
    <3>2. \A q \in rw.buf : \E k \in 0 .. (Capacity - 1) :
            q.seqnum = (rw.pos + k) % SeqSpace
      BY WindowAssumption DEF RoomInv, IsAhead
    <3>3. stored.pos = rw.pos /\ stored.buf \subseteq rw.buf \cup {p}
      BY <2>2 DEF Stored, window_push, Windows
    <3> HIDE DEF stored, p
    <3> QED BY <3>1, <3>2, <3>3
  <2>6. \A q \in rw'.buf : IsAhead(rw', q)
    BY <2>1, <2>3, <2>5, DeliveredAhead
  <2>7. IsDistinct(rw')
    <3>1. rw'.buf \subseteq stored.buf
      BY <2>1, <2>3 DEF Delivered, window_slide, ReceiverWindowOK, Windows
    <3> QED BY <2>4, <3>1 DEF IsDistinct
  <2>8. window_available(rw') \in 1 .. Capacity
    BY <2>3, <2>6, <2>7, AheadLeavesRoom
  <2>9. Ack(window_available(rw'), rw'.pos, p.timestamp)
          \in {m \in Answers : m.window # 0}
    BY <2>2, <2>3, <2>8 DEF Ack, Answers, ReceiverWindowOK, Windows, DataPackets
  <2>10. toSender' \in Seq({m \in Answers : m.window # 0})
    BY <2>1, <2>9 DEF RoomInv
  <2> QED BY <1>t, <2>6, <2>7, <2>10 DEF RoomInv, IsAhead, IsDistinct
<1> QED BY <1>1, <1>2, <1>3
        DEF ReceiverNext, IgnoreOutOfWindow, ReceiverFails, FailDelivering,
            receiverVars

\* The network makes up no answer.
LEMMA RoomNetworkStep ==
  RoomInv /\ NetworkNext /\ UNCHANGED <<senderVars, receiverVars>> => RoomInv'
<1> SUFFICES ASSUME RoomInv, NetworkNext,
                    UNCHANGED <<senderVars, receiverVars>>
             PROVE  RoomInv'
  OBVIOUS
<1>1. TypeInv'
  BY TypeNetworkStep DEF RoomInv
<1>2. \A p \in DataPackets : [p EXCEPT !.tr = TRUE] \in DataPackets
  BY DEF DataPackets
<1>3. toSender' \in Seq({m \in Answers : m.window # 0})
  BY <1>2, NetworkStep DEF RoomInv, TypeInv, TypeOK
<1> QED BY <1>1, <1>3 DEF RoomInv, IsAhead, IsDistinct, receiverVars

\* The invariant is inductive.
LEMMA RoomStep == RoomInv /\ [Next]_vars => RoomInv'
<1>1. RoomInv /\ UNCHANGED vars => RoomInv'
  BY TypeStep
     DEF RoomInv, IsAhead, IsDistinct, vars, senderVars, receiverVars, netVars
<1> QED BY <1>1, RoomSenderStep, RoomReceiverStep, RoomNetworkStep DEF Next

\* The buffer of the receiver never fills up, and no answer closes the window
\* of the sender, whatever the file, the capacity, the sequence space and the
\* network: sequence numbers may wrap around.
THEOREM ReceiverHasRoom == Spec => []RoomInReceiver
<1>1. RoomInv => RoomInReceiver
  <2> SUFFICES ASSUME RoomInv PROVE RoomInReceiver
    OBVIOUS
  <2>1. ~window_full(rw)
    BY AheadLeavesRoom DEF RoomInv, TypeInv
  <2>2. \A m \in InChannel(toSender) : m.window \in 1 .. Capacity
    BY WindowAssumption DEF InChannel, RoomInv, Answers
  <2> QED BY <2>1, <2>2 DEF RoomInReceiver
<1> QED BY <1>1, RoomInit, RoomStep, PTL DEF Spec

-----------------------------------------------------------------------------
(* A wedged transfer.                                                      *)

\* What the wedge is about, of the receiver's window: packets out of it.
Outside == {p \in DataPackets : ~window_has(rw, p.seqnum)}

\* The wedge in the terms of the type invariant: all packets of the sender and
\* on their way to the receiver are out of the receiver's window.
LEMMA WedgedMeans ==
  ASSUME TypeInv
  PROVE  Wedged <=> /\ sw.buf # {}
                    /\ ~MayFill
                    /\ sw.buf \subseteq Outside
                    /\ toReceiver \in Seq(Outside)
                    /\ toSender = <<>>
<1>1. toReceiver \in Seq(Outside) <=> InChannel(toReceiver) \subseteq Outside
  BY InChannelSeq DEF TypeInv, TypeOK
<1>2. InChannel(toReceiver) \subseteq DataPackets /\ sw.buf \subseteq DataPackets
  BY DEF InChannel, TypeInv, TypeOK, Windows
<1> QED BY <1>1, <1>2 DEF Wedged, Outside

\* Sending a packet of the buffer again keeps the number of packets in it.
LEMMA RetransmissionKeepsSize ==
  ASSUME NEW S, IsFiniteSet(S), NEW p \in S, NEW q, q \notin S
  PROVE  Cardinality((S \ {p}) \cup {q}) = Cardinality(S)
<1>1. /\ IsFiniteSet(S \ {p})
      /\ Cardinality(S \ {p}) = Cardinality(S) - 1
      /\ Cardinality(S) \in Nat
  BY FS_RemoveElement, FS_CardinalityType
<1>2. Cardinality((S \ {p}) \cup {q}) = Cardinality(S \ {p}) + 1
  BY <1>1, FS_AddElement
<1> QED BY <1>1, <1>2

\* Without an answer the sender's window stays full, or the end of the file
\* sent: it can only send packets again that the receiver ignores.
LEMMA WedgeSenderStep ==
  TypeInv /\ Wedged /\ SenderNext /\ UNCHANGED receiverVars => Wedged'
<1> SUFFICES ASSUME TypeInv, Wedged, SenderNext, UNCHANGED receiverVars
             PROVE  Wedged'
  OBVIOUS
<1> USE WedgedMeans
<1>t. TypeInv' /\ Outside' = Outside
  BY TypeSenderStep DEF Outside, receiverVars, window_has, window_end
<1>1. CASE SelectTimeout
  BY <1>1 DEF SelectTimeout, Wedged, MayFill, netVars, InChannel, receiverVars,
              window_full, window_buffer_size
<1>2. CASE SelectAnswer
  BY <1>2 DEF SelectAnswer, Deliverable, Wedged
<1>3. CASE RetransmitOne
  <2>1. PICK p \in sw.buf : Transmit(p, [sw EXCEPT !.buf = @ \ {p}])
    BY <1>3 DEF RetransmitOne, window_peek_min_timestamp
  <2> DEFINE stamped == [p EXCEPT !.timestamp = clock + 1]
  <2>2. p \in DataPackets /\ clock \in 0 .. MaxStamp /\ clock < MaxStamp
    BY <2>1 DEF TypeInv, TypeOK, Windows, Transmit
  <2>3. /\ stamped.timestamp = clock + 1
        /\ stamped.seqnum = p.seqnum
        /\ stamped \in DataPackets
    BY <2>2, SenderAssumption DEF DataPackets
  <2>4. /\ toReceiver' = Append(toReceiver, stamped)
        /\ sw' = [sw EXCEPT !.buf = (@ \ {p}) \cup {stamped}]
    BY <2>1 DEF Transmit, window_push, TypeInv, TypeOK, Windows
  <2> HIDE DEF stamped
  <2>5. stamped \notin sw.buf
    BY <2>2, <2>3 DEF TypeInv, SenderWindowOK
  <2>6. /\ sw'.buf = (sw.buf \ {p}) \cup {stamped}
        /\ sw'.size = sw.size
    BY <2>4 DEF TypeInv, TypeOK, Windows
  <2>7. Cardinality(sw'.buf) = Cardinality(sw.buf)
    BY <2>5, <2>6, RetransmissionKeepsSize DEF TypeInv, SenderWindowOK
  <2>8. ~MayFill'
    BY <1>3, <2>6, <2>7
       DEF RetransmitOne, Wedged, MayFill, window_full, window_buffer_size
  <2>9. stamped \in Outside
    BY <2>3 DEF Wedged, Outside
  <2>10. sw'.buf \subseteq Outside /\ toReceiver' \in Seq(Outside)
    BY <2>4, <2>6, <2>9
  <2>11. toSender' = <<>> /\ sw'.buf # {}
    BY <1>3, <2>6 DEF RetransmitOne, Wedged
  <2> QED
    <3>1. sw'.buf \subseteq Outside' /\ toReceiver' \in Seq(Outside')
      BY <1>t, <2>10
    <3>2. \A q \in Outside' : ~window_has(rw', q.seqnum)
      BY <1>t DEF Outside
    <3>3. InChannel(toReceiver)' \subseteq Outside'
      BY <3>1 DEF InChannel
    <3> QED BY <2>8, <2>11, <3>1, <3>2, <3>3 DEF Wedged
<1>4. CASE SendNext
  BY <1>4 DEF SendNext, Wedged
<1>5. CASE EndIteration
  BY <1>5 DEF EndIteration, Wedged, MayFill, netVars, InChannel, receiverVars,
              window_full, window_buffer_size
<1>6. CASE SenderFails
  BY <1>6 DEF SenderFails, Wedged, MayFill, InChannel, receiverVars,
              window_full, window_buffer_size
<1> QED BY <1>1, <1>2, <1>3, <1>4, <1>5, <1>6 DEF SenderNext

\* The receiver can only ignore what it gets, or fail.
LEMMA WedgeReceiverStep ==
  TypeInv /\ Wedged /\ ReceiverNext /\ UNCHANGED senderVars => Wedged'
<1> SUFFICES ASSUME TypeInv, Wedged, ReceiverNext, UNCHANGED senderVars
             PROVE  Wedged'
  OBVIOUS
<1>i. \A i \in DOMAIN toReceiver : ~window_has(rw, toReceiver[i].seqnum)
  BY DEF Wedged, InChannel
<1>1. CASE IgnoreOutOfWindow
  <2>1. PICK i \in DOMAIN toReceiver : toReceiver' = RemoveAt(toReceiver, i)
    BY <1>1 DEF IgnoreOutOfWindow, Receive
  <2>2. toReceiver \in Seq(Outside)
    BY WedgedMeans
  <2>3. InChannel(toReceiver)' \subseteq Outside
    BY <2>1, <2>2, RemoveAtSeq DEF InChannel
  <2> QED BY <1>1, <2>3
          DEF IgnoreOutOfWindow, Wedged, Outside, MayFill, senderVars,
              receiverVars, window_full, window_buffer_size
<1>2. ~RefuseTruncated /\ ~AcceptData /\ ~FailDelivering
  BY <1>i DEF RefuseTruncated, AcceptData, FailDelivering
<1>3. CASE ReceiverFails
  BY <1>3 DEF ReceiverFails, Wedged, MayFill, InChannel, senderVars,
              window_full, window_buffer_size
<1> QED BY <1>1, <1>2, <1>3 DEF ReceiverNext

\* Faults of the network only remove, copy or mark packets that are ignored.
LEMMA WedgeNetworkStep ==
  TypeInv /\ Wedged /\ NetworkNext /\ UNCHANGED <<senderVars, receiverVars>>
    => Wedged'
<1> SUFFICES ASSUME TypeInv, Wedged, NetworkNext,
                    UNCHANGED <<senderVars, receiverVars>>
             PROVE  Wedged'
  OBVIOUS
<1>1. toReceiver \in Seq(Outside) /\ toSender \in Seq(Answers)
  BY WedgedMeans DEF TypeInv, TypeOK
<1>2. \A p \in Outside : [p EXCEPT !.tr = TRUE] \in Outside
  BY DEF Outside, DataPackets
<1>3. /\ toReceiver' \in Seq(Outside)
      /\ toSender' \in Seq(Answers)
      /\ Len(toSender) = 0 => Len(toSender') = 0
  BY <1>1, <1>2, NetworkStep
<1>4. toSender' = <<>>
  BY <1>3 DEF Wedged
<1>5. InChannel(toReceiver)' \subseteq Outside
  BY <1>3 DEF InChannel
<1> QED BY <1>4, <1>5
        DEF Wedged, Outside, MayFill, senderVars, receiverVars, window_full,
            window_buffer_size

\* Out of window packets are ignored without an answer: a transfer in which
\* the sender can only retransmit packets the receiver has passed never gets
\* out of that state, whatever the network does.
THEOREM WedgeStays == Spec => WedgeIsPermanent
<1>1. TypeInv /\ [Next]_vars => (Wedged => Wedged')
  <2>1. Wedged /\ UNCHANGED vars => Wedged'
    BY DEF Wedged, MayFill, InChannel, vars, senderVars, receiverVars, netVars,
           window_full, window_buffer_size
  <2> QED BY <2>1, WedgeSenderStep, WedgeReceiverStep, WedgeNetworkStep DEF Next
<1> QED BY <1>1, TypeInvariant, PTL DEF Spec, WedgeIsPermanent
=============================================================================
