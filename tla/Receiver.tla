------------------------------ MODULE Receiver ------------------------------
(***************************************************************************)
(* The receiver, src/receiver.c: one action per path through main_loop.    *)
(***************************************************************************)
EXTENDS Window, Network

VARIABLES
  rw,        \* the receiving window and its buffer
  written,   \* the chunks in the output file
  rphase     \* "running", or "failed" after exit_msg or exit_perror

receiverVars == <<rw, written, rphase>>

ReceiverInit ==
  /\ rw = window_create(Capacity)
  /\ written = <<>>
  /\ rphase = "running"

-----------------------------------------------------------------------------
\* The next n sequence numbers all are in the buffer.
IsRun(w, n) ==
  \A j \in 0 .. (n - 1) :
    \E p \in w.buf : p.seqnum = (w.pos + j) % SeqSpace /\ p.chunk # Eof

\* The packets of that run.
InRun(w, n) ==
  {p \in w.buf : \E j \in 0 .. (n - 1) : p.seqnum = (w.pos + j) % SeqSpace}

\* The chunk the j-th iteration of the delivery loop writes.
NextChunk(w, j) ==
  (CHOOSE p \in w.buf : p.seqnum = (w.pos + (j - 1)) % SeqSpace).chunk

\* What the run adds to the output file.
RunChunks(w, n) == [j \in 1 .. n |-> NextChunk(w, j)]

\* The packet right behind the run, as a set.
AfterRun(w, n) == window_find_seqnum(w, (w.pos + n) % SeqSpace)

\* Mistakes that Delivered could have, used by no definition (see README.md):
\* the window slides over the end of the file;
BUG_SlidesOverEof(w, n) ==
  window_slide([w EXCEPT !.buf = @ \ (InRun(w, n) \cup AfterRun(w, n))],
               n + Cardinality(AfterRun(w, n)))

\* and it slides once per datagram instead of once per packet written.
BUG_SlidesOnce(w, n) ==
  window_slide([w EXCEPT !.buf = @ \ (InRun(w, n) \cup AfterRun(w, n))],
               IF n = 0 THEN 0 ELSE 1)

\* The loop stops after n iterations if no packet is next, or if the end of
\* the file is: that packet is popped like the others, but the window does
\* not slide over it, so that no packet is next afterwards.
RunEnds(w, n) == \A p \in AfterRun(w, n) : p.chunk = Eof

\* The window after n iterations.  The code pops each packet by its timestamp
\* and asserts that this yields the packet just written.
Delivered(w, n) ==
  window_slide([w EXCEPT !.buf = @ \ (InRun(w, n) \cup AfterRun(w, n))], n)

\* The buffer with the packet, unless its sequence number is in there already
\* or the buffer is full.
Stored(w, pkt) ==
  IF window_find_seqnum(w, pkt.seqnum) # {} \/ window_full(w)
  THEN w
  ELSE window_push(w, pkt)

-----------------------------------------------------------------------------
Receive(i) ==
  /\ rphase = "running"
  /\ i \in Deliverable(toReceiver)
  /\ toReceiver' = RemoveAt(toReceiver, i)

\* "Out of window, ignoring": not even an answer.
IgnoreOutOfWindow ==
  \E i \in DOMAIN toReceiver :
    /\ Receive(i)
    /\ ~window_has(rw, toReceiver[i].seqnum)
    /\ UNCHANGED <<receiverVars, toSender, faults>>

\* A mistake: TR is looked at before the window, so that a truncated packet gets
\* its NACK, with a new offer, wherever it lies.
BUG_RefuseTruncated ==
  \E i \in DOMAIN toReceiver :
    /\ Receive(i)
    /\ toReceiver[i].tr
    /\ toSender' = Append(toSender, Nack(window_available(rw),
                                         toReceiver[i].seqnum))
    /\ UNCHANGED <<receiverVars, faults>>

RefuseTruncated ==
  \E i \in DOMAIN toReceiver :
    /\ Receive(i)
    /\ window_has(rw, toReceiver[i].seqnum)
    /\ toReceiver[i].tr
    /\ toSender' = Append(toSender, Nack(window_available(rw),
                                         toReceiver[i].seqnum))
    /\ UNCHANGED <<receiverVars, faults>>

\* Store the packet, write all that is in sequence, answer.
AcceptData ==
  \E i \in DOMAIN toReceiver :
    /\ Receive(i)
    /\ window_has(rw, toReceiver[i].seqnum)
    /\ ~toReceiver[i].tr
    /\ LET stored == Stored(rw, toReceiver[i])
       IN  \E n \in 0 .. Capacity :
             /\ IsRun(stored, n)
             /\ RunEnds(stored, n)
             /\ rw' = Delivered(stored, n)
             /\ written' = written \o RunChunks(stored, n)
             /\ toSender' =
                  Append(toSender, Ack(window_available(rw'), rw'.pos,
                                       toReceiver[i].timestamp))
    /\ UNCHANGED <<rphase, faults>>

\* recv or the sending of a NACK fails and the process exits.
ReceiverFails ==
  /\ rphase = "running"
  /\ Fault("fail")
  /\ rphase' = "failed"
  /\ UNCHANGED <<rw, written, toReceiver, toSender>>

\* fwrite fails in some iteration of the delivery loop, or the sending of the
\* ACK after it: the chunks written before stay in the file.
FailDelivering ==
  \E i \in DOMAIN toReceiver :
    /\ Receive(i)
    /\ window_has(rw, toReceiver[i].seqnum)
    /\ ~toReceiver[i].tr
    /\ Fault("fail")
    /\ rphase' = "failed"
    /\ LET stored == Stored(rw, toReceiver[i])
       IN  \E n \in 0 .. Capacity :
             /\ IsRun(stored, n)
             /\ written' = written \o RunChunks(stored, n)
    /\ UNCHANGED <<rw, toSender>>

ReceiverNext ==
  \/ IgnoreOutOfWindow
  \/ RefuseTruncated
  \/ AcceptData
  \/ ReceiverFails
  \/ FailDelivering
=============================================================================
