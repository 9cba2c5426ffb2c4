------------------------------- MODULE Sender -------------------------------
(***************************************************************************)
(* The sender, src/sender.c.  One iteration of main_loop is a step that    *)
(* waits in select and, if the socket is readable, handles one answer;     *)
(* then one step per packet that retransmit_packets sends again; then the  *)
(* step that reads and sends the next chunk, or ends the iteration         *)
(* without.  The receiver and the network may act between any two of them. *)
(*                                                                         *)
(* Time.  The code stamps a packet with the time its timer expires, and    *)
(* that time is also the identity of the transmission which the receiver   *)
(* echoes.  Only the order of the stamps matters to either use, so they    *)
(* are numbered 1, 2, 3... in the order of the transmissions.  A reading   *)
(* loop_now of the clock stands for the last stamp whose timer has expired *)
(* by then, or 0: the packets with a stamp of at most loop_now are due.    *)
(* get_monotime wraps around after 2^32 microseconds; this does not.       *)
(***************************************************************************)
EXTENDS Window, Network

CONSTANT MaxStamp   \* a bound of the model: the number of transmissions

ASSUME SenderAssumption == MaxStamp \in Nat

VARIABLES
  sw,         \* the sending window and its buffer of unacknowledged packets
  next,       \* the sequence number of the next packet
  nread,      \* the chunks read from the file, the end of file included
  sent_eof,
  clock,      \* the stamp of the last transmission
  loop_now,   \* the clock reading of retransmit_packets, 0 outside of it
  phase       \* "select", "retransmit", "done" or "failed"

senderVars == <<sw, next, nread, sent_eof, clock, loop_now, phase>>

SenderInit ==
  /\ sw = window_create(1)
  /\ next = 0
  /\ nread = 0
  /\ sent_eof = FALSE
  /\ clock = 0
  /\ loop_now = 0
  /\ phase = "select"

\* The packets whose timer has expired.
Due(w, now) == {p \in w.buf : p.timestamp <= now}

-----------------------------------------------------------------------------
(* Plausible mistakes in the code, each the form of a definition below     *)
(* without one of its details.  No definition uses them: they show that    *)
(* the checks would notice (see README.md).                                *)

\* `<=` for `<`.
BUG_CumulativelyAcked(w, ack) == {p \in w.buf : p.seqnum <= ack.seqnum}

\* The timestamp of the ACK is not looked up.
BUG_handle_ack(w, ack) ==
  window_slide_to([w EXCEPT !.buf = {p \in @ : p.seqnum >= ack.seqnum}],
                  ack.seqnum)

\* The NACKed packet and all behind it are sent again.
BUG_handle_nack(w, nack, now) ==
  [w EXCEPT !.buf = {IF p.seqnum >= nack.seqnum
                     THEN [p EXCEPT !.timestamp = now] ELSE p : p \in @}]

\* The window the receiver offers is not honoured.
BUG_ResizedTo(w, offered) == window_resize(w, Capacity)

\* The clock is read once, outside of the retransmission loop.
BUG_Transmit(p, w) ==
  /\ clock < MaxStamp
  /\ clock' = IF p \in Due(sw, loop_now) THEN clock ELSE clock + 1
  /\ LET stamped == [p EXCEPT !.timestamp = clock + 1]
     IN  /\ toReceiver' = Append(toReceiver, stamped)
         /\ sw' = window_push(w, stamped)

\* Reading goes on behind the end of the file.
BUG_MayFill == ~window_full(sw)

\* The loop of main ends before everything is acknowledged.
BUG_Finished == sent_eof

-----------------------------------------------------------------------------
(* The answers.                                                            *)

\* The packets that window_pop_min_seqnum removes one after the other.
CumulativelyAcked(w, ack) == {p \in w.buf : p.seqnum < ack.seqnum}

\* An ACK acknowledges the packets below its sequence number and the one with
\* its timestamp, which is looked up only if it is not among the former.
handle_ack(w, ack) ==
  LET popped == CumulativelyAcked(w, ack)
      slid == window_slide_to([w EXCEPT !.buf = @ \ popped], ack.seqnum)
  IN  IF \E p \in popped : p.timestamp = ack.timestamp
      THEN slid
      ELSE [slid EXCEPT !.buf = @ \ window_pop_timestamp(slid, ack.timestamp)]

\* A NACK makes the timer of its packet expire now.
handle_nack(w, nack, now) ==
  IF ~window_has(w, nack.seqnum)
  THEN w
  ELSE [w EXCEPT !.buf =
         {IF p \in window_find_seqnum(w, nack.seqnum)
          THEN [p EXCEPT !.timestamp = now] ELSE p : p \in @}]

handle_answer(w, m, now) ==
  IF m.type = "ack" THEN handle_ack(w, m) ELSE handle_nack(w, m, now)

\* The sending window never exceeds its capacity, nor what the receiver offers.
ResizedTo(w, offered) ==
  window_resize(w, IF offered < Capacity THEN offered ELSE Capacity)

-----------------------------------------------------------------------------
(* The clock.                                                              *)

\* What a reading of the clock may be, relative to the timers of the window.
Readings(w) == {0} \cup {p.timestamp : p \in w.buf}

\* The last transmission of a packet, or the answer to it, is on its way.
InFlight(p) ==
  \/ \E i \in DOMAIN toReceiver : toReceiver[i].timestamp = p.timestamp
  \/ \E i \in DOMAIN toSender :
       IF toSender[i].type = "ack" THEN toSender[i].timestamp = p.timestamp
                                   ELSE toSender[i].seqnum = p.seqnum

\* Unless answers may be late, the round trip is shorter than TIMER.
InTime(w, now) ==
  "late" \in Faults \/ \A p \in Due(w, now) : ~InFlight(p)

-----------------------------------------------------------------------------
\* "Waiting indefinitely", for the receiver to open the window.
WaitsIndefinitely == ~sent_eof /\ window_empty(sw) /\ sw.size = 0

\* get_timeout waits for the first timer instead of polling the socket.
WaitsForTimer == (window_full(sw) /\ ~window_empty(sw)) \/ sent_eof

\* select returns without anything to read.
SelectTimeout ==
  /\ phase = "select"
  /\ ~WaitsIndefinitely
  /\ \E now \in Readings(sw) :
       /\ InTime(sw, now)
       /\ WaitsForTimer => Due(sw, now) # {}
       /\ loop_now' = now
  /\ phase' = "retransmit"
  /\ UNCHANGED <<sw, next, nread, sent_eof, clock, netVars>>

\* select returns with an answer to read.
SelectAnswer ==
  /\ phase = "select"
  /\ \E i \in Deliverable(toSender) :
       /\ toSender' = RemoveAt(toSender, i)
       /\ \E now \in Readings(sw) :
            /\ sw' = ResizedTo(handle_answer(sw, toSender[i], now),
                               toSender[i].window)
            /\ InTime(sw, now)
            /\ loop_now' = now
  /\ phase' = "retransmit"
  /\ UNCHANGED <<next, nread, sent_eof, clock, toReceiver, faults>>

\* The packet gets a new timer, is sent, and is (again) in the window w.
Transmit(p, w) ==
  /\ clock < MaxStamp
  /\ clock' = clock + 1
  /\ LET stamped == [p EXCEPT !.timestamp = clock + 1]
     IN  /\ toReceiver' = Append(toReceiver, stamped)
         /\ sw' = window_push(w, stamped)

\* One iteration of the loop of retransmit_packets.
RetransmitOne ==
  /\ phase = "retransmit"
  /\ \E p \in window_peek_min_timestamp(sw) :
       /\ p \in Due(sw, loop_now)
       /\ Transmit(p, [sw EXCEPT !.buf = @ \ {p}])
  /\ UNCHANGED <<next, nread, sent_eof, loop_now, phase, toSender, faults>>

MayFill == ~window_full(sw) /\ ~sent_eof

\* Nothing left to retransmit, and the window has room: the next chunk.
SendNext ==
  /\ phase = "retransmit"
  /\ Due(sw, loop_now) = {}
  /\ MayFill
  /\ Transmit(Data(next, 0, nread), sw)
  /\ next' = (next + 1) % SeqSpace
  /\ nread' = nread + 1
  /\ sent_eof' = (nread = Eof)
  /\ loop_now' = 0
  /\ phase' = "select"
  /\ UNCHANGED <<toSender, faults>>

\* The loop of main ends when the end of the file has been sent and everything
\* is acknowledged.
Finished == sent_eof /\ window_empty(sw)

\* Nothing left to retransmit and nothing to send.
EndIteration ==
  /\ phase = "retransmit"
  /\ Due(sw, loop_now) = {}
  /\ ~MayFill
  /\ phase' = IF Finished THEN "done" ELSE "select"
  /\ loop_now' = 0
  /\ UNCHANGED <<sw, next, nread, sent_eof, clock, netVars>>

\* select, recv, send or fread fails and the process exits.
SenderFails ==
  /\ phase \in {"select", "retransmit"}
  /\ Fault("fail")
  /\ phase' = "failed"
  /\ UNCHANGED <<sw, next, nread, sent_eof, clock, loop_now, toReceiver,
                 toSender>>

SenderNext ==
  \/ SelectTimeout
  \/ SelectAnswer
  \/ RetransmitOne
  \/ SendNext
  \/ EndIteration
  \/ SenderFails
=============================================================================
