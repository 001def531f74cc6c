--------------------------- MODULE MCHelperBackoff ---------------------------
(* HelperBackoff with a few workers and short times. *)
EXTENDS HelperBackoff, TLC

CONSTANTS w1, w2, w3
MCWorkers == {w1, w2, w3}
Symmetry == Permutations(MCWorkers)
=============================================================================
