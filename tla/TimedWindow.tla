---------------------------- MODULE TimedWindow -----------------------------
(***************************************************************************)
(* The list and the clock together, as the sender's timers use them: a     *)
(* packet is pushed with the time its timer expires, a NACK sets the timer *)
(* to the present, retransmit_packets resends what has expired, and select *)
(* sleeps until the next timer.  In between, the buffer is used in any way *)
(* src/window.h allows: the answers that arrive decide about that.         *)
(***************************************************************************)
EXTENDS WindowList, Monotime

CONSTANTS
  Sizes,    \* a bound of the model: the sizes the window is resized to
  TIMER,    \* 4500000 microseconds in the program
  Second    \* 1000000 microseconds

ASSUME TimerAssumption ==
  Sizes \subseteq Nat /\ TIMER \in Nat /\ Second \in Nat \ {0}

VARIABLES
  loop_now,     \* of retransmit_packets, NoTime outside of it
  timeout_us    \* what get_timeout returned, NoTime but before select

VARIABLES     \* History, which nothing depends on.
  deadline,     \* for each chunk of the buffer, when its timer really expires
  stamp,        \* the timestamp of the last transmission
  delay         \* the time since get_timeout read the clock, if select will wait

timeoutVars == <<timeout_us, delay>>

vars == <<windowVars, clockVars, loop_now, timeoutVars, deadline, stamp>>

NoTime == -1

SeqNums == 0 .. (SeqSpace - 1)

Stamps == 0 .. (ClockSpace - 1)

Init ==
  /\ WindowInit
  /\ ClockInit
  /\ loop_now = NoTime
  /\ timeout_us = NoTime
  /\ deadline = <<>>
  /\ stamp = NoTime
  /\ delay = 0

-----------------------------------------------------------------------------
\* In a uint32_t.
Plus(t, d) == (t + d) % ClockSpace

\* The sender is neither in retransmit_packets nor between get_timeout and
\* select.
Idle == loop_now = NoTime /\ timeout_us = NoTime /\ ~freed

\* The deadlines of what is in the buffer after the step, c having a new one.
SetTimer(c, time) ==
  deadline' = [d \in {heap'[n].pkt.chunk : n \in DOMAIN heap'} |->
                 IF d = c THEN time ELSE deadline[d]]

Transmitted(p) == stamp' = p.timestamp /\ SetTimer(p.chunk, Elapsed + TIMER)

\* A mistake: the packet is pushed with the time it is sent.
BUG_SendNew(seqnum) ==
  /\ Idle
  /\ pushed < NChunks
  /\ Push(seqnum, get_monotime)
  /\ Transmitted(Data(seqnum, get_monotime, pushed))
  /\ ReadClock
  /\ UNCHANGED <<loop_now, timeoutVars>>

\* A new packet is sent and pushed.
SendNew(seqnum) ==
  /\ Idle
  /\ pushed < NChunks
  /\ LET t == Plus(get_monotime, TIMER)
     IN  Push(seqnum, t) /\ Transmitted(Data(seqnum, t, pushed))
  /\ ReadClock
  /\ UNCHANGED <<loop_now, timeoutVars>>

\* handle_nack finds the packet and makes its timer expire now.
HandleNack(seqnum) ==
  /\ Idle
  /\ \E p \in list_find_seqnum(seqnum) :
       /\ FindAndRestamp(seqnum, get_monotime)
       /\ SetTimer(p.chunk, Elapsed)
  /\ ReadClock
  /\ UNCHANGED <<loop_now, timeoutVars, stamp>>

StartRetransmitting ==
  /\ Idle
  /\ loop_now' = get_monotime
  /\ ReadClock
  /\ UNCHANGED <<windowVars, timeoutVars, deadline, stamp>>

\* The packet the loop of retransmit_packets goes on with, as a set.
Expired == {p \in list_peek_min_timestamp : p.timestamp <= loop_now}

\* One iteration of that loop: window_update_timestamp looks the packet up by
\* its timestamp, and the packet that was peeked at is sent.
RetransmitOne ==
  /\ loop_now # NoTime
  /\ \E p \in Expired : UpdateTimestamp(p.timestamp, Plus(get_monotime, TIMER))
  /\ Transmitted(heap'[Deref(window_find_min_timestamp)].pkt)
  /\ ReadClock
  /\ UNCHANGED <<loop_now, timeoutVars>>

StopRetransmitting ==
  /\ loop_now # NoTime
  /\ Expired = {}
  /\ loop_now' = NoTime
  /\ UNCHANGED <<windowVars, clockVars, timeoutVars, deadline, stamp>>

micro_to_timeval(us) == [tv_sec |-> us \div Second, tv_usec |-> us % Second]

\* A mistake: the timer of the packet pushed last.
BUG_first_timer == peek(FrontRef)

first_timer == list_peek_min_timestamp

\* get_timeout: with a full window or after the end of the file the time until
\* the first timer, zero if it has expired; else zero.
GetTimeout ==
  /\ Idle
  /\ \/ /\ ~list_full \/ list_empty
        /\ timeout_us' = 0
        /\ UNCHANGED clockVars
     \/ /\ \E p \in first_timer :
             timeout_us' = IF p.timestamp > get_monotime
                           THEN p.timestamp - get_monotime ELSE 0
        /\ ReadClock
  /\ UNCHANGED <<windowVars, loop_now, deadline, stamp, delay>>

\* When the time limit of select is over if select is called now.
wake ==
  LET tv == micro_to_timeval(timeout_us)
  IN  os + tv.tv_sec * Second + tv.tv_usec

\* select is called; it returns when its time limit is over or an answer arrives.
Select ==
  /\ timeout_us # NoTime
  /\ timeout_us' = NoTime
  /\ delay' = 0
  /\ UNCHANGED <<windowVars, clockVars, loop_now, deadline, stamp>>

\* Time passes whatever the sender is doing.
TimePasses ==
  /\ Tick
  /\ delay' = IF timeout_us > 0 THEN delay + (os' - os) ELSE 0
  /\ UNCHANGED <<windowVars, loop_now, timeout_us, deadline, stamp>>

\* Any other use of the buffer.
OtherCall ==
  /\ Idle
  /\ \/ \E new_size \in Sizes : Resize(new_size)
     \/ Slide
     \/ \E s \in SeqNums : SlideTo(s)
     \/ \E t \in Stamps : PopTimestamp(t)
     \/ PopMinTimestamp
     \/ PopMinSeqnum
     \/ Free
  /\ SetTimer(NChunks, NoTime)
  /\ UNCHANGED <<clockVars, loop_now, timeoutVars, stamp>>

Next ==
  \/ \E s \in SeqNums : SendNew(s) \/ HandleNack(s)
  \/ StartRetransmitting
  \/ RetransmitOne
  \/ StopRetransmitting
  \/ GetTimeout
  \/ Select
  \/ OtherCall
  \/ TimePasses

Spec == Init /\ [][Next]_vars

-----------------------------------------------------------------------------
(* The list.                                                               *)

\* The list reaches every allocated node once and ends in NULL, and bufsize
\* is its length, whatever order nodes are added, removed and reused in;
\* window_free leaks none.
ListIntact ==
  /\ ToSet(Walk) = DOMAIN heap
  /\ IF freed THEN heap = <<>> ELSE Len(Walk) = bufsize /\ cur[bufsize] = NULL

\* The set of packets that Window has for the list.
Win == [size |-> size, pos |-> pos, buf |-> {heap[n].pkt : n \in DOMAIN heap}]

\* The list, with its nodes and pointers, is a window with a set of packets.
WS == INSTANCE WindowSpec WITH win <- Win

\* The operations that only look return what those of Window do; where there
\* are several candidates, as with equal timestamps, the one pushed last.
\* A sequence number is in the window if it is one from its first to its last,
\* wherever the window wraps around.  And window_pop_timestamp is about to remove
\* the packet that the model of the sender has it remove, also with a timestamp
\* that no packet has, where src/window.h declares NULL.
QueriesAgree ==
  ~freed =>
  /\ list_full = window_full(Win)
  /\ list_empty = window_empty(Win)
  /\ list_available = window_available(Win)
  /\ \A s \in SeqNums :
       /\ list_find_seqnum(s) = window_front(window_find_seqnum(Win, s))
       /\ window_has(Win, s) = WS!Has(Win, s)
  /\ \A t \in Stamps : peek(timestamp_match(t)) = window_pop_timestamp(Win, t)
  /\ list_peek_min_timestamp = window_front(window_peek_min_timestamp(Win))
  /\ list_peek_min_seqnum = window_front(window_peek_min_seqnum(Win))

\* Every operation of src/window.c that changes the window, with the same
\* arguments, is the one that src/window.h declares; window_pop_timestamp if a
\* packet of the buffer has the timestamp.  A packet q that an operation pushes
\* or restamps is in the buffer afterwards.
ImplementsWindow ==
  /\ WS!Init
  /\ [][\A n \in Sizes : Resize(n) => WS!Resize(n)]_vars
  /\ [][pos' # pos =>
          /\ Slide => WS!Slide
          /\ \A s \in SeqNums : SlideTo(s) => WS!SlideTo(s)]_vars
  /\ [][heap' # heap =>
          /\ \A q \in Win'.buf :
               /\ Push(q.seqnum, q.timestamp) => WS!Push(q.seqnum, q.timestamp)
               /\ FindAndRestamp(q.seqnum, q.timestamp) =>
                    WS!FindAndRestamp(q.seqnum, q.timestamp)
               /\ \A p \in Win.buf :
                    UpdateTimestamp(p.timestamp, q.timestamp) =>
                      WS!UpdateTimestamp(p.timestamp, q.timestamp)
          /\ \A p \in Win.buf :
               PopTimestamp(p.timestamp) => WS!PopTimestamp(p.timestamp)
          /\ PopMinTimestamp => WS!PopMinTimestamp
          /\ PopMinSeqnum => WS!PopMinSeqnum
          /\ Free => WS!Free]_vars

-----------------------------------------------------------------------------
(* The timers.                                                             *)

\* The clock of the program, seen through the last value it returned.
SC == INSTANCE StrictClock WITH
        reading <- IF first_call THEN -1 ELSE LastRead % ClockSpace

\* get_monotime is strictly monotonic and starts at 0, even if the clock of the
\* system stands still.
ClockIsStrict == SC!Spec

\* No two transmissions share a timestamp, by which the receiver tells them
\* apart: each one is stamped later than the one before.
StampsIncrease ==
  [][RetransmitOne \/ pushed' # pushed => stamp' > stamp]_vars

\* The packet that retransmit_packets resends next is one whose timer, that of
\* its last transmission, has expired, or was made to expire by a NACK.
ResendsOnlyExpired ==
  loop_now # NoTime => \A p \in Expired : deadline[p.chunk] <= LastRead

\* select sleeps past the timer of a packet of the buffer, if at all, by no more
\* than the time that went by between get_timeout and select: the limit, relative
\* as it is, is right for the moment at which the clock was read.
LateByDelayOnly ==
  timeout_us > 0 =>
    \A c \in DOMAIN deadline : wake <= first + deadline[c] + delay
=============================================================================
