----------------------------- MODULE MCLimiter -----------------------------
(* Instances of Limiter for TLC. *)
EXTENDS Limiter, TLC

(* the processes are interchangeable *)
Symmetry == Permutations(Procs)
=============================================================================
