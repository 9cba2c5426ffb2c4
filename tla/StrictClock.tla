---------------------------- MODULE StrictClock -----------------------------
(***************************************************************************)
(* What src/util.h promises of get_monotime: the first call returns 0, and *)
(* every later one more than the one before.                               *)
(***************************************************************************)
EXTENDS Integers

VARIABLES
  reading,   \* the last value returned, NoReading before the first
  calls      \* the number of calls

vars == <<reading, calls>>

NoReading == -1

Init == reading = NoReading /\ calls = 0

FirstCall == calls = 0 /\ calls' = 1 /\ reading' = 0

LaterCall == calls > 0 /\ calls' = calls + 1 /\ reading' > reading

Spec == Init /\ [][FirstCall \/ LaterCall]_vars
=============================================================================
