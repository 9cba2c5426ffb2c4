----------------------------- MODULE Transport ------------------------------
(***************************************************************************)
(* The sender and the receiver of one file, connected by the network.      *)
(***************************************************************************)
EXTENDS Sender, Receiver

vars == <<senderVars, receiverVars, netVars>>

Init == SenderInit /\ ReceiverInit /\ NetworkInit

Next ==
  \/ SenderNext /\ UNCHANGED receiverVars
  \/ ReceiverNext /\ UNCHANGED senderVars
  \/ NetworkNext /\ UNCHANGED <<senderVars, receiverVars>>

Spec == Init /\ [][Next]_vars

-----------------------------------------------------------------------------
SeqNums == 0 .. (SeqSpace - 1)

DataPackets == [tr : BOOLEAN, seqnum : SeqNums, timestamp : 0 .. MaxStamp,
                chunk : 0 .. NChunks]

Answers == [type : {"ack", "nack"}, window : 0 .. Capacity,
            seqnum : SeqNums, timestamp : 0 .. MaxStamp]

Windows == [size : 0 .. Capacity, pos : SeqNums, buf : SUBSET DataPackets]

\* Every variable has its type; in particular the sender never numbers a
\* chunk behind the end of the file, and no window exceeds its capacity.
TypeOK ==
  /\ sw \in Windows
  /\ next \in SeqNums
  /\ nread \in 0 .. (NChunks + 1)
  /\ sent_eof \in BOOLEAN
  /\ clock \in 0 .. MaxStamp
  /\ loop_now \in 0 .. MaxStamp
  /\ phase \in {"select", "retransmit", "done", "failed"}
  /\ rw \in Windows /\ rw.size = Capacity
  /\ written \in Seq(0 .. NChunks)
  /\ rphase \in {"running", "failed"}
  /\ toReceiver \in Seq(DataPackets)
  /\ toSender \in Seq(Answers)
  /\ faults \in 0 .. MaxFaults
-----------------------------------------------------------------------------
(* What the properties speak of.                                           *)

InChannel(channel) == {channel[i] : i \in DOMAIN channel}

\* The receiver has the chunk: in the file or in its buffer.  It forgets the
\* packet of the end of the file once all chunks before it are in the file.
HasReceived(c) ==
  \/ c < Len(written)
  \/ c = Eof /\ Len(written) = NChunks
  \/ \E p \in rw.buf : p.chunk = c

\* The sender can only retransmit, and the receiver only ignore.
Wedged ==
  /\ sw.buf # {}
  /\ ~MayFill
  /\ \A p \in sw.buf \cup InChannel(toReceiver) : ~window_has(rw, p.seqnum)
  /\ toSender = <<>>

-----------------------------------------------------------------------------
(* Safety over every network, for files shorter than the sequence space.   *)

\* The delivery loop of the receiver writes the chunks of the file in order,
\* each once, whatever the network does to the packets and wherever a process
\* exits: the output file is a prefix of the input file.
WrittenIsPrefix ==
  /\ Len(written) <= NChunks
  /\ \A i \in DOMAIN written : written[i] = i - 1

\* The buffer of the receiver never fills up: "Buffer full, not adding",
\* where the code acknowledges a packet it drops, is not reached, and no
\* answer closes the window of the sender.
RoomInReceiver ==
  /\ ~window_full(rw)
  /\ \A m \in InChannel(toSender) : m.window \in 1 .. Capacity

\* A timestamp identifies one transmission: packets that the receiver may
\* confuse by their timestamp carry the same chunk, and no two packets of its
\* buffer share one, so the assertion of the delivery loop, that popping by
\* timestamp yields the packet just written, holds.
TimestampsIdentify ==
  /\ \A p, q \in InChannel(toReceiver) \cup rw.buf :
       p.timestamp = q.timestamp => p.chunk = q.chunk
  /\ \A p, q \in rw.buf : p.timestamp = q.timestamp => p = q

\* An ACK, however old, speaks the truth when it reaches handle_ack: what is
\* below its sequence number is in the file, and the receiver has the packet
\* with its timestamp.
AcksAreTrue ==
  \A m \in InChannel(toSender) : m.type = "ack" =>
    /\ m.seqnum <= Len(written)
    /\ phase = "select" =>
         \A p \in sw.buf : p.timestamp = m.timestamp => HasReceived(p.chunk)

\* Out of window packets are ignored without an answer, so there is no way
\* out once the sender can only retransmit packets the receiver has passed.
WedgeIsPermanent == [][Wedged => Wedged']_vars

-----------------------------------------------------------------------------
(* Safety over a network that neither reorders nor copies, with answers in *)
(* time.                                                                   *)

\* handle_ack removes a packet from the buffer of the sender only if the
\* receiver has it: nothing sent is ever beyond recovery.
NoUnackedDrop ==
  \A c \in 0 .. (nread - 1) :
    (\E p \in sw.buf : p.chunk = c) \/ HasReceived(c)

\* The sending window, which handle_ack slides to the sequence number of every
\* ACK without comparing it with the position it has, never moves back, nor past
\* what the receiver has written.
SendingWindowAdvances ==
  [][sw'.pos >= sw.pos /\ sw'.pos <= Len(written')]_vars

\* The resizing of the sending window keeps new packets from overrunning the
\* receiving window, even if ACKs are lost or the last one is out of date.
WithinReceiverWindow ==
  \A p \in InChannel(toReceiver) : p.chunk < Len(written) + Capacity

\* A packet is sent again only to make up for a loss: the timers and the
\* NACKs cause no more retransmissions than there were faults.
RetransmissionsAnswerFaults == clock <= nread + faults

\* The program as a whole copies the file.
FC == INSTANCE FileCopy WITH output <- written, quit <- (phase = "done")

\* The file is written in order, and the sender quits only when it is whole.
Implements == FC!Spec

-----------------------------------------------------------------------------
(* What the documentation says and the code does not do.                   *)

\* "EOF acknowledged, quitting" is logged only when the file has arrived.
QuitsOnlyWhenDelivered == phase = "done" => Len(written) = NChunks

\* A lost ACK is made up for by a retransmission.
NeverWedged == ~Wedged

-----------------------------------------------------------------------------
(* Liveness.                                                               *)

SenderStep ==
  SelectTimeout \/ SelectAnswer \/ RetransmitOne \/ SendNext \/ EndIteration

ReceiverStep == IgnoreOutOfWindow \/ RefuseTruncated \/ AcceptData

\* Both processes keep being scheduled, timers expire, and what the network
\* does not lose reaches the socket it is sent to.
Fairness ==
  /\ WF_vars(SenderStep /\ UNCHANGED receiverVars)
  /\ WF_vars(ReceiverStep /\ UNCHANGED senderVars)

FairSpec == Spec /\ Fairness

\* The transfer comes to its end: the main of the sender returns after its
\* loop, and the output file is the input file.
Completes == <>(phase = "done" /\ written = [i \in 1 .. NChunks |-> i - 1])
=============================================================================
