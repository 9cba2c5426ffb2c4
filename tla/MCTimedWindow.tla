--------------------------- MODULE MCTimedWindow ----------------------------
(***************************************************************************)
(* The symmetry with which TimedWindow is model-checked.                   *)
(***************************************************************************)
EXTENDS TimedWindow

\* No address is preferred to another.
NodeSymmetry == Permutations(Nodes)
=============================================================================
