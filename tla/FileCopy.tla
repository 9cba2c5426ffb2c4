------------------------------ MODULE FileCopy ------------------------------
(***************************************************************************)
(* What the two programs promise together: the receiver's output file is   *)
(* at any time a prefix of the sender's input file, and the sender says    *)
(* that all has been acknowledged only when the output file is complete.   *)
(***************************************************************************)
EXTENDS Integers, Sequences

CONSTANT NChunks   \* the input file is the sequence of chunks 0 .. NChunks-1

VARIABLES
  output,   \* the chunks in the output file
  quit      \* the sender has quit successfully

vars == <<output, quit>>

Init == output = <<>> /\ quit = FALSE

\* Some of the chunks that come next are written, in order.
Write ==
  /\ \E n \in 1 .. (NChunks - Len(output)) :
       output' = output \o [j \in 1 .. n |-> Len(output) + (j - 1)]
  /\ UNCHANGED quit

Quit ==
  /\ Len(output) = NChunks
  /\ quit' = TRUE
  /\ UNCHANGED output

Spec == Init /\ [][Write \/ Quit]_vars
=============================================================================
