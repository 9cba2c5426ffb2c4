------------------------------- MODULE Window -------------------------------
(***************************************************************************)
(* The sliding window with a built-in packet buffer of src/window.c, as    *)
(* operators on a record [size, pos, buf].  Each process owns one window.  *)
(*                                                                         *)
(* The code keeps the buffer as a singly linked list, newest node first.   *)
(* Here buf is the set of the buffered packets.  The order of the list is  *)
(* only visible through the operations that return the first of several    *)
(* candidates; the sender pushes the chunks of its file in order, so the   *)
(* first candidate of the list is the one with the largest chunk.          *)
(***************************************************************************)
EXTENDS Packet, FiniteSets

CONSTANTS
  Capacity,   \* w->capacity: MAX_WINDOW_SIZE, 31 in the program
  SeqSpace    \* w->max_seqnum + 1: 256 in the program

ASSUME WindowAssumption ==
  /\ Capacity \in Nat \ {0}
  /\ SeqSpace \in Nat
  /\ Capacity <= SeqSpace

-----------------------------------------------------------------------------
window_create(size) == [size |-> size, pos |-> 0, buf |-> {}]

\* Mistakes window_end and window_has could have, used by no definition (see
\* README.md): one too far,
BUG_window_end(w) == (w.pos + w.size) % SeqSpace

\* The last sequence number of the window; only meaningful if size > 0.
window_end(w) == (w.pos + (w.size - 1)) % SeqSpace

\* and the case of a window that wraps around is forgotten.
BUG_window_has(w, seqnum) == w.pos <= seqnum /\ seqnum <= window_end(w)

\* Whether a sequence number lies in the window, which may wrap around.
window_has(w, seqnum) ==
  /\ w.size # 0
  /\ IF w.pos > window_end(w)
     THEN w.pos <= seqnum \/ seqnum <= window_end(w)
     ELSE w.pos <= seqnum /\ seqnum <= window_end(w)

\* n slides by one unit each.
window_slide(w, n) == [w EXCEPT !.pos = (@ + n) % SeqSpace]

\* A mistake: the position is taken for the end of the window.
BUG_window_slide_to(w, pos) == [w EXCEPT !.pos = (pos - (w.size - 1)) % SeqSpace]

window_slide_to(w, pos) == [w EXCEPT !.pos = pos]

window_resize(w, new_size) == [w EXCEPT !.size = new_size]

window_buffer_size(w) == Cardinality(w.buf)

window_empty(w) == w.buf = {}

\* The window may have shrunk below the number of buffered packets.
window_full(w) == \/ window_buffer_size(w) = Capacity
                  \/ window_buffer_size(w) >= w.size

window_available(w) ==
  IF w.size < window_buffer_size(w) THEN 0 ELSE w.size - window_buffer_size(w)

window_push(w, pkt) == [w EXCEPT !.buf = @ \cup {pkt}]

\* The packets among which window_find_seqnum picks the first.
window_find_seqnum(w, seqnum) == {p \in w.buf : p.seqnum = seqnum}

\* The first node of the list that holds a packet of S, as a set: empty if
\* S is.
window_front(S) == {p \in S : \A q \in S : q.chunk <= p.chunk}

\* The packet that window_pop_timestamp removes.  The search starts with the
\* front of the list as its result: if no packet has the timestamp, the
\* front is removed.
window_pop_timestamp(w, timestamp) ==
  LET match == {p \in w.buf : p.timestamp = timestamp}
  IN  window_front(IF match = {} THEN w.buf ELSE match)

\* The packets among which window_peek_min_timestamp picks the first.
window_peek_min_timestamp(w) ==
  {p \in w.buf : \A q \in w.buf : p.timestamp <= q.timestamp}

\* The packets among which window_peek_min_seqnum picks the first.
window_peek_min_seqnum(w) ==
  {p \in w.buf : \A q \in w.buf : p.seqnum <= q.seqnum}
=============================================================================
