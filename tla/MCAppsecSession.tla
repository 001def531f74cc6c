-------------------------- MODULE MCAppsecSession --------------------------
(* Checks of AppsecSession: the paths other than the empty one are interchangeable. *)
EXTENDS AppsecSession, TLC

PathSymmetry == Permutations(Paths \ {None})
=============================================================================
