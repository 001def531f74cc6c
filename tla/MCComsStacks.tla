---------------------------- MODULE MCComsStacks ----------------------------
(* Instances of ComsStacks for TLC. *)
EXTENDS ComsStacks, TLC

(* interchangeable addresses and PHP threads *)
Symmetry == Permutations(Stacks) \cup Permutations(Producers)

(* nothing is claimed after a window has been hit: do not look further *)
UntilRaced == ~raced
=============================================================================
