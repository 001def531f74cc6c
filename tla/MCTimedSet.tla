---- MODULE MCTimedSet ----
EXTENDS TimedSet, SequencesExt
Symmetry == Permutations(Readers)

(* The table after hit was called with these numbers. *)
Seen(n) == [key |-> n, data |-> [accessed |-> Threshold, reported |-> Threshold]]
After(ns) == FoldLeft(LAMBDA tab, n : Put(tab, Seen(n)), EmptyTable, ns)

(* Either the threads have their accessors and hit(1) was called before,   *)
(* or one of them filled the table to the last free slot, its last call    *)
(* started a rebuild, and time has passed.                                 *)
StartInit ==
    /\ data_ptr = 1 /\ current_gen = 1
    /\ garbage = <<>> /\ last_collected_gen = 0 /\ freed = {}
    /\ generation = [r \in Readers |-> 0] /\ guard = [r \in Readers |-> NoGuard]
    /\ update = NoUpdate
    /\ call = [t \in Readers |-> NoCall]
    /\ destroyed = FALSE
    /\ \/ /\ thread_states = Readers
          /\ table = <<After(<<1>>)>>
          /\ rebuild = [t \in Readers |-> NoRebuild] /\ rebuild_in_progress = FALSE
          /\ clock = Threshold + 1 /\ ncalls = 0
       \/ /\ table = <<After(<<1, 9, 10>>)>>
          /\ \E t \in Readers :
               /\ thread_states = {t}
               /\ rebuild = [[r \in Readers |-> NoRebuild] EXCEPT ![t] =
                    [at |-> "copy", table |-> 1, threshold |-> 0, slot |-> 0, heap |-> {}]]
          /\ rebuild_in_progress = TRUE
          /\ clock = MaxClock /\ ncalls = 1
StartSpec == StartInit /\ [][Next]_vars
====
