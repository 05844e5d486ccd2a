------------------------- MODULE MCOutputRedraw -------------------------
(* Instances of OutputRedraw for TLC. *)
EXTENDS OutputRedraw, TLC

OutputSymmetry == Permutations(Outputs)
===========================================================================
