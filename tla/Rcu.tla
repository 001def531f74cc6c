-------------------------------- MODULE Rcu --------------------------------
(***************************************************************************)
(* The read-copy-update pointer of appsec/src/helper/rcu.h.  Readers load  *)
(* the generation, publish it and load the data, in three steps without a  *)
(* lock; the only writer exchanges the data, increments the generation,    *)
(* looks at what every reader has published and frees older data.          *)
(*                                                                         *)
(* Data is numbered in the order it is installed, from 1; what it is does  *)
(* not matter here.  The fences of the code order the steps as written.    *)
(***************************************************************************)
EXTENDS Integers, Sequences

CONSTANTS Readers

VARIABLES
    data_ptr, current_gen, thread_states,       \* rcu_manager
    garbage, last_collected_gen,                \* rcu_garbage_collector
    generation,                                 \* each rcu_reader_state
    guard,      \* each rcu_read_guard: its step, generation and data
    update,     \* the writer: its step, readers to look at, oldest generation
    freed       \* data that was deleted

rcu_vars == <<data_ptr, current_gen, thread_states, garbage, last_collected_gen,
              generation, guard, update, freed>>

(* numeric_limits<uint64_t>::max(): no reader is active *)
NoneActive == -1

NoGuard == [at |-> "none", gen |-> 0, data |-> 0]
NoUpdate == [at |-> "none", left |-> {}, oldest |-> NoneActive]

RcuInit ==
    /\ data_ptr = 1 /\ current_gen = 1
    /\ thread_states = {}
    /\ garbage = <<>> /\ last_collected_gen = 0
    /\ generation = [r \in Readers |-> 0]
    /\ guard = [r \in Readers |-> NoGuard]
    /\ update = NoUpdate
    /\ freed = {}

manager == <<data_ptr, current_gen, garbage, last_collected_gen, update, freed>>

(* register_thread_state and unregister_thread_state take the mutex the    *)
(* scan holds                                                              *)
Register(r) ==
    /\ r \notin thread_states /\ update.at # "scan"
    /\ thread_states' = thread_states \cup {r}
    /\ UNCHANGED <<manager, generation, guard>>

Unregister(r) ==
    /\ r \in thread_states /\ update.at # "scan" /\ guard[r].at = "none"
    /\ thread_states' = thread_states \ {r}
    /\ UNCHANGED <<manager, generation, guard>>

(* rcu_read_guard *)
LoadGeneration(r) ==
    /\ r \in thread_states /\ guard[r].at = "none"
    /\ guard' = [guard EXCEPT ![r] = [at |-> "loaded", gen |-> current_gen, data |-> 0]]
    /\ UNCHANGED <<manager, thread_states, generation>>

(* mutant: the generation is not published *)
DoNotPublish(r) ==
    /\ guard[r].at = "loaded"
    /\ guard' = [guard EXCEPT ![r].at = "published"]
    /\ UNCHANGED <<manager, thread_states, generation>>

PublishGeneration(r) ==
    /\ guard[r].at = "loaded"
    /\ generation' = [generation EXCEPT ![r] = guard[r].gen]
    /\ guard' = [guard EXCEPT ![r].at = "published"]
    /\ UNCHANGED <<manager, thread_states>>

LoadData(r) ==
    /\ guard[r].at = "published"
    /\ guard' = [guard EXCEPT ![r].at = "held", ![r].data = data_ptr]
    /\ UNCHANGED <<manager, thread_states, generation>>

(* ~rcu_read_guard *)
Release(r) ==
    /\ guard[r].at = "held"
    /\ generation' = [generation EXCEPT ![r] = 0]
    /\ guard' = [guard EXCEPT ![r] = NoGuard]
    /\ UNCHANGED <<manager, thread_states>>

-----------------------------------------------------------------------------
(* update *)
Exchange ==
    /\ update.at = "none"
    /\ data_ptr' = data_ptr + 1
    /\ update' = [update EXCEPT !.at = "increment"]
    /\ UNCHANGED <<current_gen, thread_states, garbage, last_collected_gen, generation, guard, freed>>

(* fetch_add, then add_garbage, whose mutex only writers take, and the lock *)
(* of find_oldest_active_generation: what a reader does in between can as  *)
(* well come after it, or before it if it is a registration                *)
Increment ==
    /\ update.at = "increment"
    /\ current_gen' = current_gen + 1
    /\ garbage' = Append(garbage, data_ptr - 1)
    /\ update' = [at |-> "scan", left |-> thread_states, oldest |-> NoneActive]
    /\ UNCHANGED <<data_ptr, thread_states, last_collected_gen, generation, guard, freed>>

(* find_oldest_active_generation looks at one reader after the other *)
LookAt(r) ==
    /\ update.at = "scan" /\ r \in update.left
    /\ update' = [update EXCEPT
         !.left = @ \ {r},
         !.oldest = IF generation[r] # 0 /\ (@ = NoneActive \/ generation[r] < @)
                    THEN generation[r] ELSE @]
    /\ UNCHANGED <<data_ptr, current_gen, thread_states, garbage, last_collected_gen,
                   generation, guard, freed>>

DelAmount(oldest) == oldest - last_collected_gen - 1

(* collect.  del_amount is unsigned: a negative one is larger than the     *)
(* vector and nothing is erased.                                           *)
Erase(n, last) ==
    /\ freed' = freed \cup {garbage[i] : i \in 1..n}
    /\ garbage' = SubSeq(garbage, n + 1, Len(garbage))
    /\ last_collected_gen' = last

Collect ==
    /\ update.at = "scan" /\ update.left = {}
    /\ LET n == DelAmount(update.oldest) IN
       \/ /\ update.oldest = NoneActive
          /\ Erase(Len(garbage), current_gen - 1)
       \/ /\ update.oldest # NoneActive
          /\ n > 0 /\ n <= Len(garbage)
          /\ Erase(n, update.oldest - 1)
       \/ /\ update.oldest # NoneActive
          /\ ~(n > 0 /\ n <= Len(garbage))
          /\ UNCHANGED <<freed, garbage, last_collected_gen>>
    /\ update' = NoUpdate
    /\ UNCHANGED <<data_ptr, current_gen, thread_states, generation, guard>>

RcuNext ==
    \/ \E r \in Readers :
         \/ Register(r) \/ Unregister(r)
         \/ LoadGeneration(r) \/ PublishGeneration(r) \/ LoadData(r) \/ Release(r)
         \/ LookAt(r)
    \/ Exchange \/ Increment \/ Collect

RcuSpec == RcuInit /\ [][RcuNext]_rcu_vars

-----------------------------------------------------------------------------
(* Data that a reader holds is not deleted, however its three steps and an *)
(* update's interleave.                                                    *)
HeldIsAlive == \A r \in Readers : guard[r].at = "held" => guard[r].data \notin freed

(* An update leaves no garbage behind that is older than every generation  *)
(* its scan found in use: the unsigned arithmetic of collect never skips   *)
(* data that could go.                                                     *)
CollectsAll ==
    [][Collect /\ garbage' # <<>> =>
         update.oldest # NoneActive /\ garbage'[1] >= update.oldest]_rcu_vars
=============================================================================
