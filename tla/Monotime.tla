------------------------------ MODULE Monotime ------------------------------
(***************************************************************************)
(* get_monotime of src/util.c, over an operating system clock that may     *)
(* stand still between two calls and may jump ahead.  Times are whole      *)
(* microseconds; seconds and microseconds, which the code keeps apart, are *)
(* one number.                                                             *)
(***************************************************************************)
EXTENDS Integers

CONSTANTS
  ClockSpace,   \* 2^32: the result is a uint32_t
  MaxTime       \* a bound of the model

ASSUME ClockAssumption == ClockSpace \in Nat \ {0} /\ MaxTime \in Nat

VARIABLES
  os,           \* CLOCK_MONOTONIC
  first_call,
  first,        \* the time of the first call
  last,         \* the time of the last call, before normalization
  calls         \* history: the number of calls

clockVars == <<os, first_call, first, last, calls>>

ClockInit ==
  /\ os = 0
  /\ first_call = TRUE
  /\ first = 0
  /\ last = 0
  /\ calls = 0

\* Time passes.
Tick ==
  /\ os' \in (os + 1) .. MaxTime
  /\ UNCHANGED <<first_call, first, last, calls>>

\* A mistake Now could have: the time is incremented only if the clock ran
\* backwards.
BUG_Now == IF ~first_call /\ os < last THEN last + 1 ELSE os

\* The time of a call made now: strictly later than that of the last call.
Now == IF ~first_call /\ os <= last THEN last + 1 ELSE os

\* Normalized to start at 0, and unbounded.
Elapsed == Now - (IF first_call THEN Now ELSE first)

\* The time of the last call, since the first.
LastRead == last - first

\* What get_monotime returns.
get_monotime == Elapsed % ClockSpace

\* What a call changes.
ReadClock ==
  /\ Now <= MaxTime
  /\ first' = Now - Elapsed
  /\ last' = Now
  /\ first_call' = FALSE
  /\ calls' = calls + 1
  /\ UNCHANGED os
=============================================================================
