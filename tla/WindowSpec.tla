----------------------------- MODULE WindowSpec -----------------------------
(***************************************************************************)
(* What src/window.h declares of the buffer of a window: one action per    *)
(* operation that changes it, in terms of the operators of Window.         *)
(*                                                                         *)
(* Packets are numbered in the order in which they are pushed, which makes *)
(* window_front the front of the buffer whatever their sequence numbers.   *)
(* Where the header leaves open which of several packets an operation is   *)
(* about, it is the one pushed last.  An operation that finds nothing, or  *)
(* refuses, changes nothing.                                               *)
(***************************************************************************)
EXTENDS Window

VARIABLES
  win,      \* the window
  pushed,   \* the number of packets pushed so far
  freed     \* window_free has been called

Init ==
  /\ win \in {window_create(size) : size \in 0 .. Capacity}
  /\ pushed = 0
  /\ freed = FALSE

-----------------------------------------------------------------------------
\* The sequence numbers of a window, from its first to its last.
SeqNumsOf(w) == {(w.pos + i) % SeqSpace : i \in 0 .. (w.size - 1)}

\* "within the window".
Has(w, seqnum) == seqnum \in SeqNumsOf(w)

\* An operation that leaves the window w.
Becomes(w) == ~freed /\ UNCHANGED <<pushed, freed>> /\ win' = w

\* Larger than the maximum size is refused.
Resize(new_size) ==
  Becomes(IF new_size > Capacity THEN win ELSE window_resize(win, new_size))

\* By one unit, without touching the buffer.
Slide == Becomes(window_slide(win, 1))

SlideTo(pos) == Becomes(window_slide_to(win, pos))

Push(seqnum, timestamp) ==
  /\ ~freed
  /\ ~window_full(win)
  /\ pushed' = pushed + 1
  /\ win' = window_push(win, Data(seqnum, timestamp, pushed))
  /\ UNCHANGED freed

Without(S) == [win EXCEPT !.buf = @ \ S]

\* "NULL if there is no such packet".
PopTimestamp(timestamp) ==
  Becomes(Without(window_front({p \in win.buf : p.timestamp = timestamp})))

PopMinTimestamp ==
  Becomes(Without(window_front(window_peek_min_timestamp(win))))

PopMinSeqnum == Becomes(Without(window_front(window_peek_min_seqnum(win))))

\* A new timestamp for the packets of S.
Restamped(S, timestamp) ==
  [win EXCEPT !.buf = (@ \ S) \cup {[p EXCEPT !.timestamp = timestamp] : p \in S}]

UpdateTimestamp(old_time, new_time) ==
  Becomes(Restamped(window_front({p \in win.buf : p.timestamp = old_time}),
                    new_time))

\* The caller changes the packet that window_find_seqnum returns: packets are
\* passed by reference, and it remains in the buffer.
FindAndRestamp(seqnum, timestamp) ==
  Becomes(Restamped(window_front(window_find_seqnum(win, seqnum)), timestamp))

\* The window goes; the packets of its buffer do not belong to it.
Free ==
  /\ ~freed
  /\ freed' = TRUE
  /\ win' = [win EXCEPT !.buf = {}]
  /\ UNCHANGED pushed
=============================================================================
