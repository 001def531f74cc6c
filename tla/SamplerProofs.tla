--------------------------- MODULE SamplerProofs ---------------------------
(***************************************************************************)
(* For any number of readers and updates, data that a reader holds is not  *)
(* deleted and an update leaves no garbage it could have deleted.  The     *)
(* table of the sampler uses the pointer as Rcu lets it be used, so both   *)
(* hold of its tables.                                                     *)
(*                                                                         *)
(* SetInv, the invariant of the tables, is what TimedSetProofs rests on.   *)
(* Here: what a search and a new table are, and what a step of a call has  *)
(* to satisfy to keep the invariant (CallKeeps).                           *)
(***************************************************************************)
EXTENDS TimedSet, FiniteSetTheorems, WellFoundedInduction, TLAPS

(* The prover of a leaf that names no other. *)
USE ZenonT(60)

Guards == [at : {"none", "loaded", "published", "held"}, gen : Nat, data : Nat]
Updates == [at : {"none", "increment", "scan"}, left : SUBSET Readers, oldest : Nat \cup {NoneActive}]

RcuTypes ==
    /\ data_ptr \in Nat /\ current_gen \in Nat
    /\ thread_states \subseteq Readers
    /\ garbage \in Seq(Nat) /\ last_collected_gen \in Nat
    /\ generation \in [Readers -> Nat]
    /\ guard \in [Readers -> Guards]
    /\ update \in Updates
    /\ freed \subseteq Nat

(* The data runs ahead of the generation between an update's two stores,   *)
(* and garbage is the data of the generations from the last collected one  *)
(* to the current one.                                                     *)
Generations ==
    /\ data_ptr = IF update.at = "increment" THEN current_gen + 1 ELSE current_gen
    /\ last_collected_gen < current_gen
    /\ Len(garbage) = current_gen - 1 - last_collected_gen
    /\ \A i \in 1..Len(garbage) : garbage[i] = last_collected_gen + i
    /\ \A d \in freed : d <= last_collected_gen

(* What a reader has published by the step it is at.                       *)
Published ==
    \A r \in Readers :
      /\ guard[r].at # "none" =>
           r \in thread_states /\ 1 <= guard[r].gen /\ guard[r].gen <= current_gen
      /\ generation[r] = IF guard[r].at \in {"published", "held"} THEN guard[r].gen ELSE 0

(* Held data is at least as new as the published generation.               *)
HeldIsRecent ==
    \A r \in Readers : guard[r].at = "held" =>
      /\ guard[r].gen <= guard[r].data /\ guard[r].data <= data_ptr
      /\ last_collected_gen < guard[r].data

(* A scan has seen every reader that holds replaced data, or will.         *)
ScanCovers ==
    update.at = "scan" =>
      /\ update.oldest # NoneActive => 1 <= update.oldest /\ update.oldest <= current_gen
      /\ \A r \in Readers :
           guard[r].at = "held" /\ guard[r].data < data_ptr /\ r \notin update.left =>
             update.oldest # NoneActive /\ update.oldest <= guard[r].data

RcuInv == RcuTypes /\ Generations /\ Published /\ HeldIsRecent /\ ScanCovers

-----------------------------------------------------------------------------
LEMMA RcuInitInv == RcuInit => RcuInv
  BY SMTT(60) DEF RcuInit, RcuInv, RcuTypes, Generations, Published, HeldIsRecent, ScanCovers,
             Guards, Updates, NoGuard, NoUpdate, NoneActive

(* The steps of a reader. *)
LEMMA ReaderKeeps ==
  ASSUME RcuInv, NEW r \in Readers,
         \/ Register(r) \/ Unregister(r) \/ LoadGeneration(r)
         \/ PublishGeneration(r) \/ LoadData(r) \/ Release(r)
  PROVE  RcuInv'
<1> USE DEF RcuInv, manager, NoneActive
<1>1. CASE Register(r) \/ Unregister(r)
  <2>1. RcuTypes' /\ Published'
    BY <1>1 DEF Register, Unregister, RcuTypes, Published
  <2>2. Generations' /\ HeldIsRecent' /\ ScanCovers'
    BY <1>1 DEF Register, Unregister, Generations, HeldIsRecent, ScanCovers
  <2> QED BY <2>1, <2>2
<1>2. CASE LoadGeneration(r)
  <2>1. RcuTypes'
    BY <1>2 DEF LoadGeneration, RcuTypes, Guards
  <2>2. Generations'
    BY <1>2 DEF LoadGeneration, Generations
  <2>3. Published'
    BY SMTT(60), <1>2 DEF LoadGeneration, RcuTypes, Guards, Published, Generations
  <2>4. HeldIsRecent' /\ ScanCovers'
    BY <1>2 DEF LoadGeneration, RcuTypes, Guards, HeldIsRecent, ScanCovers
  <2> QED BY <2>1, <2>2, <2>3, <2>4
<1>3. CASE PublishGeneration(r)
  <2>1. RcuTypes'
    BY <1>3 DEF PublishGeneration, RcuTypes, Guards
  <2>2. Generations'
    BY <1>3 DEF PublishGeneration, Generations
  <2>3. Published'
    BY <1>3 DEF PublishGeneration, RcuTypes, Guards, Published
  <2>4. HeldIsRecent' /\ ScanCovers'
    BY <1>3 DEF PublishGeneration, RcuTypes, Guards, HeldIsRecent, ScanCovers
  <2> QED BY SMTT(60), <2>1, <2>2, <2>3, <2>4
<1>4. CASE LoadData(r)
  <2>1. RcuTypes'
    BY <1>4 DEF LoadData, RcuTypes, Guards
  <2>2. Generations'
    BY <1>4 DEF LoadData, Generations
  <2>3. Published'
    BY SMTT(60), <1>4 DEF LoadData, RcuTypes, Guards, Published
  <2>4. HeldIsRecent'
    BY SMTT(60), <1>4 DEF LoadData, RcuTypes, Guards, Published, Generations, HeldIsRecent
  <2>5. ScanCovers'
    BY SMTT(60), <1>4 DEF LoadData, RcuTypes, Guards, ScanCovers
  <2> QED BY <2>1, <2>2, <2>3, <2>4, <2>5
<1>5. CASE Release(r)
  <2>1. RcuTypes'
    BY <1>5 DEF Release, RcuTypes, Guards, NoGuard
  <2>2. Generations'
    BY <1>5 DEF Release, Generations
  <2>3. Published'
    BY <1>5 DEF Release, RcuTypes, Guards, Published, NoGuard
  <2>4. HeldIsRecent' /\ ScanCovers'
    BY <1>5 DEF Release, RcuTypes, Guards, HeldIsRecent, ScanCovers, NoGuard
  <2> QED BY SMTT(60), <2>1, <2>2, <2>3, <2>4
<1> QED BY <1>1, <1>2, <1>3, <1>4, <1>5

(* The steps of an update up to its scan. *)
LEMMA UpdateKeeps ==
  ASSUME RcuInv, Exchange \/ Increment \/ \E r \in Readers : LookAt(r)
  PROVE  RcuInv'
<1> USE DEF RcuInv, NoneActive
<1>1. CASE Exchange
  <2>1. RcuTypes'
    <3>1. data_ptr' \in Nat
      BY SMTT(60), <1>1 DEF Exchange, RcuTypes
    <3>2. update' \in Updates
      BY <1>1 DEF Exchange, RcuTypes, Updates
    <3> QED BY <1>1, <3>1, <3>2 DEF Exchange, RcuTypes
  <2>4. Generations'
    <3>1. update'.at = "increment"
      BY <1>1 DEF Exchange, RcuTypes, Updates
    <3> QED BY <1>1, <3>1 DEF Exchange, RcuTypes, Generations
  <2>2. Published' /\ ScanCovers'
    BY <1>1 DEF Exchange, RcuTypes, Updates, Published, ScanCovers
  <2>3. HeldIsRecent'
    BY SMTT(60), <1>1 DEF Exchange, RcuTypes, Guards, HeldIsRecent
  <2> QED BY <2>1, <2>2, <2>3, <2>4
<1>2. CASE Increment
  <2>1. RcuTypes'
    BY SMTT(60), <1>2 DEF Increment, RcuTypes, Updates, Generations
  <2>2. Generations'
    <3>1. /\ data_ptr - 1 \in Nat /\ data_ptr - 1 = current_gen /\ garbage' = Append(garbage, current_gen)
      BY SMTT(60), <1>2 DEF Increment, RcuTypes, Generations
    <3>2. /\ Len(garbage') = Len(garbage) + 1
          /\ \A i \in 1..Len(garbage') :
               garbage'[i] = IF i = Len(garbage) + 1 THEN current_gen ELSE garbage[i]
      BY SMTT(60), <3>1 DEF RcuTypes
    <3>3. \A i \in 1..Len(garbage') : garbage'[i] = last_collected_gen + i
      <4> TAKE i \in 1..Len(garbage')
      <4>1. CASE i = Len(garbage) + 1
        BY SMTT(60), <4>1, <3>2 DEF RcuTypes, Generations
      <4>2. CASE i # Len(garbage) + 1
        <5>1. i \in 1..Len(garbage)
          BY SMTT(60), <4>2, <3>2 DEF RcuTypes
        <5> QED BY <4>2, <5>1, <3>2 DEF Generations
      <4> QED BY <4>1, <4>2
    <3> QED BY SMTT(60), <1>2, <3>2, <3>3 DEF Increment, RcuTypes, Generations
  <2>3. Published' /\ HeldIsRecent'
    BY SMTT(60), <1>2 DEF Increment, RcuTypes, Guards, Published, HeldIsRecent
  <2>4. ScanCovers'
    BY <1>2 DEF Increment, RcuTypes, Guards, Published, ScanCovers
  <2> QED BY <2>1, <2>2, <2>3, <2>4
<1>3. ASSUME NEW r \in Readers, LookAt(r)
      PROVE  RcuInv'
  <2>1. RcuTypes'
    BY <1>3 DEF LookAt, RcuTypes, Updates
  <2>2. Generations' /\ Published' /\ HeldIsRecent'
    BY <1>3 DEF LookAt, RcuTypes, Updates, Generations, Published, HeldIsRecent
  <2>3. ScanCovers'
    <3> DEFINE g == generation[r]  o == update.oldest
    <3>1. /\ update.at = "scan" /\ update'.left = update.left \ {r}
          /\ update'.oldest = IF g # 0 /\ (o = NoneActive \/ g < o) THEN g ELSE o
          /\ g \in Nat /\ o \in Nat \cup {NoneActive}
      BY <1>3 DEF LookAt, RcuTypes, Updates
    <3>2. g <= current_gen /\ current_gen \in Nat
      <4>1. CASE guard[r].at \in {"published", "held"}
        BY <4>1 DEF RcuTypes, Published
      <4>2. CASE guard[r].at \notin {"published", "held"}
        BY SMTT(60), <4>2 DEF RcuTypes, Published
      <4> QED BY <4>1, <4>2
    <3>3. update'.oldest # NoneActive => 1 <= update'.oldest /\ update'.oldest <= current_gen
      BY SMTT(60), <3>1, <3>2 DEF ScanCovers
    <3>4. ASSUME NEW q \in Readers, guard[q].at = "held", guard[q].data < data_ptr, q \notin update'.left
          PROVE  update'.oldest # NoneActive /\ update'.oldest <= guard[q].data
      <4>1. CASE q = r
        <5>1. g = guard[q].gen /\ 1 <= g /\ g <= guard[q].data /\ guard[q].data \in Nat
          BY <4>1, <3>4 DEF RcuTypes, Guards, Published, HeldIsRecent
        <5> QED BY SMTT(60), <5>1, <3>1
      <4>2. CASE q # r
        <5>1. o # NoneActive /\ o <= guard[q].data /\ guard[q].data \in Nat
          BY <4>2, <3>4, <3>1 DEF RcuTypes, Guards, ScanCovers
        <5> QED BY SMTT(60), <5>1, <3>1
      <4> QED BY <4>1, <4>2
    <3> QED BY <1>3, <3>3, <3>4 DEF LookAt, ScanCovers
  <2> QED BY <2>1, <2>2, <2>3
<1> QED BY <1>1, <1>2, <1>3

(* What is left of a sequence without its first n elements. *)
LEMMA Rest ==
  ASSUME NEW s \in Seq(Nat), NEW n \in 0..Len(s)
  PROVE  /\ SubSeq(s, n + 1, Len(s)) \in Seq(Nat)
         /\ Len(SubSeq(s, n + 1, Len(s))) = Len(s) - n
         /\ \A i \in 1 .. Len(s) - n : SubSeq(s, n + 1, Len(s))[i] = s[n + i]
<1>1. Len(SubSeq(s, n + 1, Len(s))) = Len(s) - n
  BY SMTT(60)
<1>2. \A i \in 1 .. Len(s) - n : SubSeq(s, n + 1, Len(s))[i] = s[n + i]
  BY SMTT(60)
<1>3. SubSeq(s, n + 1, Len(s)) \in Seq(Nat)
  BY SMTT(60)
<1> QED BY <1>1, <1>2, <1>3

(* What an erasure of the n oldest leaves. *)
LEMMA EraseKeeps ==
  ASSUME RcuInv, NEW n \in 0..Len(garbage), update.at = "scan",
         Erase(n, last_collected_gen + n),
         UNCHANGED <<data_ptr, current_gen, thread_states, generation, guard>>,
         update' = NoUpdate,
         \A r \in Readers : guard[r].at = "held" => last_collected_gen + n < guard[r].data
  PROVE  RcuInv'
<1> USE DEF RcuInv, Erase, NoUpdate, NoneActive
<1>1. /\ garbage' \in Seq(Nat) /\ Len(garbage') = Len(garbage) - n
      /\ \A i \in 1..Len(garbage') : garbage'[i] = garbage[n + i]
  BY Rest DEF RcuTypes
<1>2. RcuTypes'
  <2>3. \A i \in 1..n : garbage[i] \in Nat
    BY SMTT(60) DEF RcuTypes
  <2>1. last_collected_gen' \in Nat
    BY SMTT(60) DEF RcuTypes
  <2>4. freed' \subseteq Nat
    BY <2>3 DEF RcuTypes
  <2>2. update' \in Updates
    BY DEF Updates
  <2> QED BY <1>1, <2>1, <2>2, <2>4 DEF RcuTypes
<1>3. Generations'
  <2>1. /\ Len(garbage) \in Nat /\ last_collected_gen \in Nat /\ current_gen \in Nat /\ n \in Nat
        /\ Len(garbage) = current_gen - 1 - last_collected_gen
        /\ data_ptr = current_gen /\ update'.at = "none"
    BY SMTT(60) DEF RcuTypes, Generations
  <2>2. \A i \in 1..Len(garbage') : garbage'[i] = last_collected_gen' + i
    <3> TAKE i \in 1..Len(garbage')
    <3>1. n + i \in 1..Len(garbage) /\ garbage'[i] = garbage[n + i]
      BY SMTT(60), <1>1, <2>1
    <3> QED BY SMTT(60), <2>1, <3>1 DEF Generations
  <2>3. \A d \in freed' : d <= last_collected_gen'
    <3> TAKE d \in freed'
    <3>1. CASE d \in freed
      BY SMTT(60), <2>1, <3>1 DEF RcuTypes, Generations
    <3>2. CASE \E i \in 1..n : d = garbage[i]
      <4>1. PICK i \in 1..n : d = garbage[i]
        BY <3>2
      <4>2. i \in 1..Len(garbage)
        BY SMTT(60), <2>1
      <4> QED BY SMTT(60), <2>1, <4>1, <4>2 DEF Generations
    <3> QED BY <3>1, <3>2
  <2> QED BY SMTT(60), <1>1, <2>1, <2>2, <2>3 DEF Generations
<1>4. Published' /\ HeldIsRecent' /\ ScanCovers'
  BY SMTT(60) DEF RcuTypes, Guards, Published, HeldIsRecent, ScanCovers
<1> QED BY <1>2, <1>3, <1>4

LEMMA CollectKeeps ==
  ASSUME RcuInv, Collect
  PROVE  RcuInv'
<1> USE DEF NoneActive
<1>1. CASE update.oldest = NoneActive
  <2>1. /\ Erase(Len(garbage), last_collected_gen + Len(garbage))
        /\ Len(garbage) \in 0..Len(garbage)
    BY <1>1, SMTT(60) DEF Collect, RcuInv, RcuTypes, Generations
  <2>2. \A r \in Readers : guard[r].at = "held" => last_collected_gen + Len(garbage) < guard[r].data
    BY <1>1, SMTT(60) DEF Collect, RcuInv, RcuTypes, Guards, Generations, HeldIsRecent, ScanCovers
  <2> QED BY <2>1, <2>2, EraseKeeps DEF Collect
<1>2. CASE update.oldest # NoneActive /\ DelAmount(update.oldest) \in 1..Len(garbage)
  <2> DEFINE n == DelAmount(update.oldest)
  <2>1. Erase(n, last_collected_gen + n) /\ n \in 0..Len(garbage)
    BY <1>2, SMTT(60) DEF Collect, RcuInv, RcuTypes, Updates, DelAmount
  <2>2. \A r \in Readers : guard[r].at = "held" => last_collected_gen + n < guard[r].data
    <3>1. /\ last_collected_gen + n = update.oldest - 1 /\ update.oldest \in Nat
          /\ update.oldest <= current_gen /\ current_gen \in Nat /\ data_ptr = current_gen
      BY SMTT(60), <1>2 DEF Collect, RcuInv, RcuTypes, Updates, Generations, ScanCovers, DelAmount
    <3>2. ASSUME NEW r \in Readers, guard[r].at = "held"
          PROVE  update.oldest <= guard[r].data /\ guard[r].data \in Nat
      <4>1. guard[r].data \in Nat /\ guard[r].data <= data_ptr
        BY <3>2 DEF RcuInv, RcuTypes, Guards, HeldIsRecent
      <4>2. guard[r].data < data_ptr => update.oldest <= guard[r].data
        BY <3>2 DEF Collect, RcuInv, ScanCovers
      <4> QED BY SMTT(60), <3>1, <4>1, <4>2
    <3> HIDE DEF n
    <3> QED BY SMTT(60), <3>1, <3>2
  <2> HIDE DEF n
  <2> QED BY <2>1, <2>2, EraseKeeps DEF Collect
<1>3. CASE update.oldest # NoneActive /\ DelAmount(update.oldest) \notin 1..Len(garbage)
  <2>1. UNCHANGED <<freed, garbage, last_collected_gen>>
    BY <1>3, SMTT(60) DEF Collect, RcuInv, RcuTypes, Updates, DelAmount
  <2> QED BY <2>1, SMTT(60) DEF Collect, RcuInv, RcuTypes, Updates, Generations, Published, HeldIsRecent, ScanCovers, NoUpdate
<1> QED BY <1>1, <1>2, <1>3

LEMMA RcuStep == RcuInv /\ [RcuNext]_rcu_vars => RcuInv'
<1> SUFFICES ASSUME RcuInv, [RcuNext]_rcu_vars PROVE RcuInv'
  OBVIOUS
<1>1. CASE RcuNext
  BY <1>1, ReaderKeeps, UpdateKeeps, CollectKeeps DEF RcuNext
<1>2. CASE UNCHANGED rcu_vars
  BY <1>2 DEF rcu_vars, RcuInv, RcuTypes, Generations, Published, HeldIsRecent, ScanCovers
<1> QED BY <1>1, <1>2

LEMMA RcuSafe == RcuInv => HeldIsAlive
  BY SMTT(60) DEF RcuInv, RcuTypes, Guards, Generations, HeldIsRecent, HeldIsAlive

(* rcu.h: no interleaving of the three steps of rcu_read_guard, of its     *)
(* destructor and of update deletes data that is held.                     *)
THEOREM HeldData == RcuSpec => []HeldIsAlive
<1>1. RcuSpec => []RcuInv
  BY RcuInitInv, RcuStep, PTL DEF RcuSpec
<1> QED BY <1>1, RcuSafe, PTL

(* rcu.h, collect: the unsigned count is never too large for the vector    *)
(* unless there is nothing to delete, so what is left is still in use.     *)
THEOREM GarbageGoes == RcuSpec => CollectsAll
<1>1. RcuSpec => []RcuInv
  BY RcuInitInv, RcuStep, PTL DEF RcuSpec
<1>2. RcuInv /\ Collect /\ garbage' # <<>> =>
        update.oldest # NoneActive /\ garbage'[1] >= update.oldest
  <2> SUFFICES ASSUME RcuInv, Collect, garbage' # <<>>
               PROVE  update.oldest # NoneActive /\ garbage'[1] >= update.oldest
    OBVIOUS
  <2> DEFINE n == DelAmount(update.oldest)
  <2>1. /\ update.at = "scan" /\ garbage \in Seq(Nat)
        /\ last_collected_gen \in Nat /\ current_gen \in Nat
        /\ Len(garbage) = current_gen - 1 - last_collected_gen
        /\ \A i \in 1..Len(garbage) : garbage[i] = last_collected_gen + i
    BY DEF Collect, RcuInv, RcuTypes, Generations
  <2>2. update.oldest # NoneActive
    <3> SUFFICES ASSUME update.oldest = NoneActive PROVE FALSE
      OBVIOUS
    <3>1. garbage' = SubSeq(garbage, Len(garbage) + 1, Len(garbage))
      BY DEF Collect, Erase
    <3> QED BY SMTT(60), <2>1, <3>1
  <2>3. /\ update.oldest \in Nat /\ update.oldest <= current_gen
        /\ n = update.oldest - last_collected_gen - 1 /\ n \in Int
    BY SMTT(60), <2>1, <2>2 DEF RcuInv, RcuTypes, Updates, ScanCovers, DelAmount
  <2>4. \/ garbage' = SubSeq(garbage, n + 1, Len(garbage)) /\ n > 0 /\ n <= Len(garbage)
        \/ garbage' = garbage /\ ~(n > 0 /\ n <= Len(garbage))
    BY <2>2 DEF Collect, Erase
  <2> HIDE DEF n
  <2>5. CASE garbage' = SubSeq(garbage, n + 1, Len(garbage)) /\ n > 0 /\ n <= Len(garbage)
    <3>1. n \in 0..Len(garbage)
      BY SMTT(60), <2>3, <2>5
    <3>2. n < Len(garbage)
      BY SMTT(60), <2>1, <2>5, <3>1, Rest
    <3>3. garbage'[1] = garbage[n + 1]
      BY SMTT(60), <2>1, <2>5, <3>1, <3>2, Rest
    <3>4. garbage[n + 1] = last_collected_gen + (n + 1)
      BY SMTT(60), <2>1, <3>1, <3>2
    <3>5. last_collected_gen + (n + 1) = update.oldest
      BY SMTT(60), <2>1, <2>3
    <3> QED BY SMTT(60), <2>2, <2>3, <3>3, <3>4, <3>5
  <2>6. CASE garbage' = garbage /\ ~(n > 0 /\ n <= Len(garbage))
    <3>1. n <= 0
      <4>1. /\ Len(garbage) = current_gen - 1 - last_collected_gen
            /\ n = update.oldest - last_collected_gen - 1
            /\ update.oldest \in Nat /\ current_gen \in Nat /\ last_collected_gen \in Nat
            /\ update.oldest <= current_gen
        BY <2>1, <2>3
      <4>2. n \in Int /\ n <= Len(garbage)
        BY SMTT(60), <4>1
      <4> QED BY SMTT(60), <2>6, <4>2
    <3>2. garbage[1] = last_collected_gen + 1
      <4>1. Len(garbage) # 0
        BY SMTT(60), <2>1, <2>6
      <4> QED BY SMTT(60), <2>1, <4>1
    <3> QED BY SMTT(60), <2>1, <2>2, <2>3, <2>6, <3>1, <3>2
  <2> QED BY <2>4, <2>5, <2>6
<1> QED BY <1>1, <1>2, PTL DEF CollectsAll

-----------------------------------------------------------------------------
(* sampler.hpp: what a call of hit and a rebuild do with the pointer are   *)
(* steps of Rcu, by one writer at a time.                                  *)
THEOREM SetUsesRcu == Spec => RcuSpec
<1>1. Init => RcuInit
  BY DEF Init
<1>2. [Next]_vars => [RcuNext]_rcu_vars
  <2> SUFFICES ASSUME [Next]_vars PROVE [RcuNext]_rcu_vars
    OBVIOUS
  <2>1. CASE Tick \/ UNCHANGED vars
    BY <2>1 DEF Tick, vars
  <2>2. ASSUME NEW t \in Readers, Accessor(t)
        PROVE  RcuNext
    BY <2>2 DEF Accessor, RcuNext
  <2>3. ASSUME NEW t \in Readers, Hit(t)
        PROVE  [RcuNext]_rcu_vars
    BY <2>3 DEF Hit, HitBegin, HitPublish, HitGuarded, HitNow, HitFind, HitAdd, HitTrigger,
                HitInsert, HitGiveBack, HitStamp, HitLoad, HitReport, HitTouch, HitReturn, RcuNext
  <2>4. ASSUME NEW t \in Readers, Rebuild(t)
        PROVE  [RcuNext]_rcu_vars
    BY <2>4 DEF Rebuild, RebuildCopy, RebuildSwap, RebuildUpdate, RebuildCollect, RcuNext
  <2> QED BY <2>1, <2>2, <2>3, <2>4 DEF Next
<1> QED BY <1>1, <1>2, PTL DEF Spec, RcuSpec

(* sampler.hpp: the table that a call of hit works on is not deleted under *)
(* it.                                                                     *)
THEOREM TablesStay == Spec => []HeldIsAlive
  BY SetUsesRcu, HeldData, PTL

-----------------------------------------------------------------------------
(* The tables of the set.                                                  *)
Stamps == [accessed : Nat, reported : Nat]
SetTables == [key : [Slots -> Nat], data : [0..Capacity -> Stamps], size : Int]
Items == [key : Nat \ {0}, data : Stamps]

(* A search for n passes only other keys on its way to s. *)
Reached(tab, n, s) ==
    \E i \in Slots : s = Probe(n, i) /\ \A j \in Slots : j < i => tab.key[Probe(n, j)] \notin {0, n}

Used(tab) == {i \in Slots : tab.key[i] # 0}
AllReached(tab) == \A s \in Used(tab) : Reached(tab, tab.key[s], s)

(* Induction, from the least number that is not in a set.                  *)
LEMMA LeastNat ==
  ASSUME NEW S \in SUBSET Nat, S # {}
  PROVE  \E m \in S : \A k \in S : m <= k
<1>1. PICK m \in S : \A k \in S : ~(<<k, m>> \in OpToRel(<, Nat))
  BY NatLessThanWellFounded, WFMin
<1>2. \A k \in S : ~(k < m)
  BY <1>1 DEF OpToRel
<1> QED BY SMTT(60), <1>2

LEMMA UpToEvery ==
  ASSUME NEW S, 0 \in S, \A n \in Nat : n \in S => n + 1 \in S
  PROVE  Nat \subseteq S
<1> SUFFICES ASSUME Nat \ S # {} PROVE FALSE
  OBVIOUS
<1>1. PICK m \in Nat \ S : \A k \in Nat \ S : m <= k
  BY LeastNat
<1>2. m # 0 /\ m - 1 \in Nat /\ m - 1 \in S
  BY SMTT(60), <1>1
<1> QED BY SMTT(60), <1>1, <1>2

LEMMA ProbeType ==
  ASSUME NEW n \in Nat, NEW i \in Nat
  PROVE  Probe(n, i) \in Slots
  BY SMTT(60), SetAssumption DEF Probe, Slots

(* The slots that a search passes are all the slots. *)
LEMMA Remainder ==
  ASSUME NEW C \in Nat \ {0}, NEW q \in Nat, NEW s \in 0 .. C - 1
  PROVE  (C * q + s) % C = s
  BY SMTT(60)

LEMMA ProbeAll ==
  ASSUME NEW n \in Nat, NEW s \in Slots
  PROVE  \E i \in Slots : Probe(n, i) = s
<1> DEFINE C == Capacity  q == n \div C  r == n % C
<1>1. C \in Nat \ {0} /\ s \in 0 .. C - 1
  BY SetAssumption DEF Slots
<1>2. q \in Nat /\ r \in 0 .. C - 1 /\ n = C * q + r
  BY SMTT(60), <1>1
<1> HIDE DEF q, r, C
<1>3. CASE r <= s
  <2>1. s - r \in 0 .. C - 1 /\ n + (s - r) = C * q + s
    BY SMTT(60), <1>1, <1>2, <1>3
  <2>2. (n + (s - r)) % C = s
    BY <1>1, <1>2, <2>1, Remainder
  <2> QED BY <2>1, <2>2 DEF Probe, Slots, C
<1>4. CASE s < r
  <2>1. s - r + C \in 0 .. C - 1 /\ n + (s - r + C) = C * (q + 1) + s
    BY SMTT(60), <1>1, <1>2, <1>4
  <2>2. (n + (s - r + C)) % C = s
    BY SMTT(60), <1>1, <1>2, <2>1, Remainder
  <2> QED BY <2>1, <2>2 DEF Probe, Slots, C
<1> QED BY SMTT(60), <1>1, <1>2, <1>3, <1>4

(* What find_slot gives: the slot of the number, the slot it belongs into, *)
(* or the one behind the others when the table is full.                    *)
LEMMA FindSlotFinds ==
  ASSUME NEW tab \in SetTables, NEW n \in Nat
  PROVE  LET s == FindSlot(tab, n)
         IN  \/ s = Capacity /\ \A i \in Slots : tab.key[i] \notin {0, n}
             \/ s \in Slots /\ tab.key[s] \in {0, n} /\ Reached(tab, n, s)
<1> DEFINE stops == {i \in Slots : tab.key[Probe(n, i)] \in {n, 0}}
<1>1. CASE stops = {}
  BY <1>1, ProbeAll DEF FindSlot
<1>2. CASE stops # {}
  <2> DEFINE m == Min(stops)
  <2>1. stops \in SUBSET Nat
    BY SMTT(60), SetAssumption DEF Slots
  <2>2. m \in stops /\ \A k \in stops : m <= k
    BY <1>2, <2>1, LeastNat DEF Min
  <2>3. FindSlot(tab, n) = Probe(n, m)
    BY <1>2 DEF FindSlot
  <2> HIDE DEF m
  <2>4. \A j \in Slots : j < m => tab.key[Probe(n, j)] \notin {0, n}
    <3> SUFFICES ASSUME NEW j \in Slots, j < m, tab.key[Probe(n, j)] \in {0, n} PROVE FALSE
      OBVIOUS
    <3>1. j \in stops
      OBVIOUS
    <3>2. j \in Nat /\ m \in Nat
      BY <2>1, <2>2, <3>1
    <3> QED BY SMTT(60), <2>2, <3>1, <3>2
  <2>5. m \in Slots /\ m \in Nat /\ tab.key[Probe(n, m)] \in {0, n}
    BY <2>1, <2>2
  <2> QED BY <2>3, <2>4, <2>5, ProbeType DEF Reached
<1> QED BY <1>1, <1>2

(* so a number is in a table once *)
LEMMA KeysOnce ==
  ASSUME NEW tab \in SetTables, AllReached(tab), NEW n \in Nat \ {0}, NEW s \in Slots, Reached(tab, n, s),
         NEW j \in Slots, tab.key[j] = n, tab.key[s] \in {0, n}
  PROVE  j = s
<1>1. PICK a \in Slots : s = Probe(n, a) /\ \A i \in Slots : i < a => tab.key[Probe(n, i)] \notin {0, n}
  BY DEF Reached
<1>2. PICK b \in Slots : j = Probe(n, b) /\ \A i \in Slots : i < b => tab.key[Probe(n, i)] \notin {0, n}
  BY DEF Reached, AllReached, Used
<1>3. a \in Int /\ b \in Int
  BY SMTT(60), SetAssumption DEF Slots
<1>4. ~(a < b) /\ ~(b < a)
  BY <1>1, <1>2
<1> QED BY SMTT(60), <1>1, <1>2, <1>3, <1>4

(* A key that is set where a search for it ended keeps the searches right. *)
LEMMA SetKey ==
  ASSUME NEW tab \in SetTables, NEW s \in Slots, NEW n \in Nat \ {0}, tab.key[s] = 0,
         NEW new \in SetTables, new.key = [tab.key EXCEPT ![s] = n]
  PROVE  /\ \A k \in Nat, i \in Slots : Reached(tab, k, i) => Reached(new, k, i)
         /\ Used(new) = Used(tab) \cup {s}
         /\ AllReached(tab) /\ Reached(tab, n, s) => AllReached(new)
<1>1. \A i \in Slots : new.key[i] = IF i = s THEN n ELSE tab.key[i]
  BY DEF SetTables
<1>2. ASSUME NEW k \in Nat, NEW i \in Slots, Reached(tab, k, i)
      PROVE  Reached(new, k, i)
  <2>1. PICK a \in Slots : i = Probe(k, a) /\ \A j \in Slots : j < a => tab.key[Probe(k, j)] \notin {0, k}
    BY <1>2 DEF Reached
  <2>2. \A j \in Slots : j < a => new.key[Probe(k, j)] \notin {0, k}
    <3> TAKE j \in Slots
    <3> HAVE j < a
    <3>2. j \in Nat
      BY SMTT(60), SetAssumption DEF Slots
    <3>1. Probe(k, j) \in Slots
      BY <3>2, ProbeType
    <3> QED BY <1>1, <2>1, <3>1
  <2> QED BY <2>1, <2>2 DEF Reached
<1>3. Used(new) = Used(tab) \cup {s}
  BY <1>1 DEF Used
<1>4. AllReached(tab) /\ Reached(tab, n, s) => AllReached(new)
  BY <1>1, <1>2, <1>3 DEF AllReached, Used, SetTables
<1> QED BY <1>2, <1>3, <1>4

Filled(tab) ==
    /\ tab \in SetTables
    /\ AllReached(tab)
    /\ IsFiniteSet(Used(tab)) /\ tab.size = Cardinality(Used(tab))

KeysIn(tab) == {tab.key[i] : i \in Used(tab)}

LEMMA PutFills ==
  ASSUME NEW tab, Filled(tab), NEW x \in Items, x.key \notin KeysIn(tab), tab.size < Capacity
  PROVE  LET new == Put(tab, x)
         IN  /\ Filled(new) /\ new.size = tab.size + 1
             /\ KeysIn(new) = KeysIn(tab) \cup {x.key}
             /\ \A i \in 0..Capacity : new.data[i] \in {tab.data[i], x.data}
<1> DEFINE s == FindSlot(tab, x.key)  n == x.key  new == Put(tab, x)
<1>0. tab \in SetTables /\ n \in Nat \ {0} /\ Capacity \in Nat
  BY SetAssumption DEF Filled, Items
<1>1. s \in Slots /\ tab.key[s] = 0 /\ Reached(tab, n, s)
  <2>1. \A i \in Slots : tab.key[i] # n
    BY <1>0 DEF KeysIn, Used
  <2>2. \E i \in Slots : tab.key[i] = 0
    <3> SUFFICES ASSUME \A i \in Slots : tab.key[i] # 0 PROVE FALSE
      OBVIOUS
    <3>1. Used(tab) = Slots
      BY DEF Used
    <3>2. Cardinality(Slots) = Capacity
      BY SMTT(60), <1>0, FS_Interval DEF Slots
    <3> QED BY SMTT(60), <1>0, <3>1, <3>2 DEF Filled
  <2> QED BY <1>0, <2>1, <2>2, FindSlotFinds
<1> HIDE DEF s
<1>2. new = [tab EXCEPT !.key[s] = x.key, !.data[s] = x.data, !.size = @ + 1]
  BY DEF Put, s
<1>3. s \in 0..Capacity /\ x.data \in Stamps
  BY SMTT(60), <1>0, <1>1 DEF Slots, Items
<1>4. /\ new \in SetTables /\ new.key = [tab.key EXCEPT ![s] = n]
      /\ new.size = tab.size + 1
      /\ \A i \in 0..Capacity : new.data[i] \in {tab.data[i], x.data}
  <2>1. tab.key \in [Slots -> Nat] /\ tab.data \in [0..Capacity -> Stamps] /\ tab.size \in Int
    BY <1>0 DEF SetTables
  <2>2. new = [key |-> [tab.key EXCEPT ![s] = n], data |-> [tab.data EXCEPT ![s] = x.data],
               size |-> tab.size + 1]
    BY <1>0, <1>2 DEF SetTables
  <2>5. [tab.key EXCEPT ![s] = n] \in [Slots -> Nat]
    BY <1>0, <1>1, <2>1
  <2>6. [tab.data EXCEPT ![s] = x.data] \in [0..Capacity -> Stamps]
    BY <1>3, <2>1
  <2>7. tab.size + 1 \in Int
    BY SMTT(60), <2>1
  <2>4. new \in SetTables
    BY SMTT(60), <2>2, <2>5, <2>6, <2>7 DEF SetTables
  <2> QED BY SMTT(60), <2>1, <2>2, <2>4
<1> HIDE DEF new
<1>5. Used(new) = Used(tab) \cup {s} /\ AllReached(new)
  BY SMTT(60), <1>0, <1>1, <1>4, SetKey DEF Filled
<1>6. IsFiniteSet(Used(new)) /\ Cardinality(Used(new)) = Cardinality(Used(tab)) + 1
  BY <1>1, <1>5, FS_AddElement DEF Filled, Used
<1>7. KeysIn(new) = KeysIn(tab) \cup {n}
  <2>1. \A i \in Slots : new.key[i] = IF i = s THEN n ELSE tab.key[i]
    BY <1>0, <1>4 DEF SetTables
  <2>2. \A i \in Used(tab) : i \in Slots /\ i # s
    BY <1>1 DEF Used
  <2> QED BY SMTT(60), <1>1, <1>5, <2>1, <2>2 DEF KeysIn
<1>8. Filled(new)
  BY <1>4, <1>5, <1>6 DEF Filled
<1> QED BY <1>4, <1>7, <1>8 DEF new

LEMMA EmptyIsFilled == Filled(EmptyTable) /\ KeysIn(EmptyTable) = {} /\ EmptyTable.size = 0
<1>1. EmptyTable \in SetTables
  BY SMTT(60), SetAssumption DEF EmptyTable, SetTables, Stamps, Never
<1>2. Used(EmptyTable) = {} /\ EmptyTable.size = 0
  BY DEF EmptyTable, Used
<1> QED BY <1>1, <1>2, FS_EmptySet DEF Filled, AllReached, KeysIn

(* The function that NewTable defines exists. *)
LEMMA NewTableUnfolds ==
  ASSUME NEW order \in Seq(Items)
  PROVE  \E put : /\ put = [i \in 0..Len(order) |-> IF i = 0 THEN EmptyTable ELSE Put(put[i - 1], order[i])]
                  /\ NewTable(order) = put[Len(order)]
<1> DEFINE Puts(g, m) == g = [i \in 0..m |-> IF i = 0 THEN EmptyTable ELSE Put(g[i - 1], order[i])]
           S == {m \in Nat : \E g : Puts(g, m)}
<1>1. 0 \in S
  <2> DEFINE g == [i \in 0..0 |-> EmptyTable]
  <2>1. Puts(g, 0)
    BY SMTT(60)
  <2> QED BY <2>1
<1>2. ASSUME NEW m \in Nat, m \in S
      PROVE  m + 1 \in S
  <2>1. PICK g : Puts(g, m)
    BY <1>2
  <2> DEFINE h == [i \in 0 .. m + 1 |-> IF i = m + 1 THEN Put(g[m], order[m + 1]) ELSE g[i]]
  <2>2. \A i \in 0 .. m + 1 : h[i] = IF i = 0 THEN EmptyTable ELSE Put(h[i - 1], order[i])
    <3> TAKE i \in 0 .. m + 1
    <3>1. CASE i = m + 1
      <4>1. i # 0 /\ i - 1 = m /\ m \in 0 .. m + 1 /\ m # m + 1
        BY SMTT(60), <3>1
      <4>2. h[i - 1] = g[m]
        BY <4>1
      <4> QED BY <3>1, <4>1, <4>2
    <3>2. CASE i # m + 1
      <4>1. i \in 0..m /\ h[i] = g[i]
        BY SMTT(60), <3>2
      <4>2. g[i] = IF i = 0 THEN EmptyTable ELSE Put(g[i - 1], order[i])
        BY <2>1, <4>1
      <4>3. i # 0 => h[i - 1] = g[i - 1]
        BY SMTT(60), <4>1
      <4> QED BY <4>1, <4>2, <4>3
    <3> QED BY <3>1, <3>2
  <2>3. Puts(h, m + 1)
    BY <2>2
  <2>4. \E f : Puts(f, m + 1)
    BY <2>3
  <2> HIDE DEF Puts
  <2> QED BY SMTT(60), <2>4
<1>3. Len(order) \in S
  <2> HIDE DEF S
  <2> QED BY SMTT(60), <1>1, <1>2, UpToEvery
<1>4. PICK g : Puts(g, Len(order))
  BY <1>3
<1> DEFINE put == CHOOSE p : Puts(p, Len(order))
<1>5. Puts(put, Len(order))
  BY <1>4
<1>6. NewTable(order) = put[Len(order)]
  BY DEF NewTable
<1> QED BY <1>5, <1>6

(* What rebuild_table fills is such a table, with what was kept.           *)
LEMMA NewTableFilled ==
  ASSUME NEW order \in Seq(Items), Len(order) <= Capacity,
         \A i, j \in 1..Len(order) : order[i].key = order[j].key => i = j
  PROVE  /\ Filled(NewTable(order))
         /\ \A i \in 0..Capacity : \/ NewTable(order).data[i] = Never
                                   \/ \E j \in 1..Len(order) : NewTable(order).data[i] = order[j].data
<1> DEFINE L == Len(order)
<1>1. PICK put : /\ put = [i \in 0..L |-> IF i = 0 THEN EmptyTable ELSE Put(put[i - 1], order[i])]
                 /\ NewTable(order) = put[L]
  BY NewTableUnfolds
<1> DEFINE Good(m) ==
             /\ Filled(put[m]) /\ put[m].size = m
             /\ KeysIn(put[m]) = {order[j].key : j \in 1..m}
             /\ \A i \in 0..Capacity : \/ put[m].data[i] = Never
                                       \/ \E j \in 1..m : put[m].data[i] = order[j].data
           S == {m \in Nat : m <= L => Good(m)}
<1>2. L \in Nat /\ Capacity \in Nat
  BY SMTT(60), SetAssumption
<1>3. 0 \in S
  <2>1. put[0] = EmptyTable
    BY SMTT(60), <1>1, <1>2
  <2>2. \A i \in 0..Capacity : EmptyTable.data[i] = Never
    BY DEF EmptyTable
  <2>3. {order[j].key : j \in 1..0} = {}
    BY SMTT(60)
  <2> QED BY <1>2, <2>1, <2>2, <2>3, EmptyIsFilled
<1>4. ASSUME NEW m \in Nat, m \in S
      PROVE  m + 1 \in S
  <2> SUFFICES ASSUME m + 1 <= L PROVE Good(m + 1)
    BY SMTT(60)
  <2> DEFINE x == order[m + 1]
  <2>1. m <= L /\ m < Capacity /\ m + 1 \in 1..L /\ m + 1 \in 0..L /\ m + 1 # 0 /\ (m + 1) - 1 = m
    BY SMTT(60), <1>2
  <2>2. Good(m)
    BY <1>4, <2>1
  <2>3. x \in Items
    BY SMTT(60), <2>1
  <2>4. x.key \notin KeysIn(put[m])
    <3> SUFFICES ASSUME NEW j \in 1..m, order[j].key = x.key PROVE FALSE
      BY <2>2
    <3>1. j \in 1..L /\ j # m + 1
      BY SMTT(60), <1>2, <2>1
    <3> QED BY <2>1, <3>1
  <2>5. put[m + 1] = Put(put[m], x)
    BY <1>1, <2>1
  <2> DEFINE new == put[m + 1]
  <2>6. /\ Filled(new) /\ new.size = m + 1 /\ KeysIn(new) = KeysIn(put[m]) \cup {x.key}
        /\ \A i \in 0..Capacity : new.data[i] \in {put[m].data[i], x.data}
    <3> DEFINE tab == put[m]
    <3>1. Filled(tab) /\ tab.size < Capacity /\ tab.size + 1 = m + 1
      BY SMTT(60), <2>1, <2>2
    <3>2. x.key \notin KeysIn(tab)
      BY <2>4
    <3>3. new = Put(tab, x)
      BY <2>5
    <3> HIDE DEF tab, x, new
    <3>4. /\ Filled(Put(tab, x)) /\ Put(tab, x).size = tab.size + 1
          /\ KeysIn(Put(tab, x)) = KeysIn(tab) \cup {x.key}
          /\ \A i \in 0..Capacity : Put(tab, x).data[i] \in {tab.data[i], x.data}
      BY <2>3, <3>1, <3>2, PutFills
    <3>5. /\ Filled(new) /\ new.size = m + 1 /\ KeysIn(new) = KeysIn(tab) \cup {x.key}
          /\ \A i \in 0..Capacity : new.data[i] \in {tab.data[i], x.data}
      BY <3>1, <3>3, <3>4
    <3> QED BY <3>5 DEF tab
  <2>7. 1 .. m + 1 = 1..m \cup {m + 1}
    BY SMTT(60)
  <2>8. KeysIn(new) = {order[j].key : j \in 1 .. m + 1}
    BY SMTT(60), <2>2, <2>6, <2>7
  <2>9. ASSUME NEW i \in 0..Capacity
        PROVE  new.data[i] = Never \/ \E j \in 1 .. m + 1 : new.data[i] = order[j].data
    BY SMTT(60), <2>2, <2>6, <2>7, <2>9
  <2> HIDE DEF new
  <2> QED BY <2>6, <2>8, <2>9 DEF new
<1>5. L \in S
  <2> HIDE DEF S
  <2> QED BY <1>2, <1>3, <1>4, UpToEvery
<1>6. Good(L)
  BY SMTT(60), <1>2, <1>5
<1> HIDE DEF L
<1>7. /\ Filled(put[L])
      /\ \A i \in 0..Capacity : put[L].data[i] = Never \/ \E j \in 1..L : put[L].data[i] = order[j].data
  BY <1>6
<1> QED BY <1>1, <1>7 DEF L
CallAt == {"none", "now", "find", "add", "trigger", "insert", "full", "other", "stamp",
           "load", "report", "touch", "return"}
Calls == [at : CallAt, number : Nat, now : Nat, slot : 0..Capacity, cur : Stamps, keep : Int, hit : BOOLEAN]
Rebuilds == [at : {"none", "copy", "swap", "update"}, table : Nat, threshold : Int, slot : Slots,
             heap : SUBSET Items]

SetTypes ==
    /\ table \in Seq(SetTables) /\ Len(table) = data_ptr
    /\ call \in [Readers -> Calls] /\ rebuild \in [Readers -> Rebuilds]
    /\ rebuild_in_progress \in BOOLEAN /\ destroyed \in BOOLEAN
    /\ clock \in Threshold..MaxClock

(* A call holds the table it works on, and has its number and a past time. *)
Guarded ==
    \A t \in Readers :
      /\ call[t].at # "none" <=> guard[t].at = "held"
      /\ call[t].at \notin {"none", "now", "return"} =>
           call[t].number # 0 /\ Threshold <= call[t].now /\ call[t].now <= clock

(* There is one rebuild, the update of the pointer is its last part, and   *)
(* what it copies is not garbage yet.                                      *)
OneRebuild ==
    /\ \A t \in Readers : rebuild[t].at # "none" => rebuild_in_progress
    /\ \A t, u \in Readers : rebuild[t].at # "none" /\ rebuild[u].at # "none" => t = u
    /\ update.at # "none" => \E t \in Readers : rebuild[t].at = "update"
    /\ \A t \in Readers : rebuild[t].at = "copy" => rebuild[t].table \in 1..data_ptr \ freed

(* An entry was reported less than the threshold before it was accessed,   *)
(* and a call that is about to write an entry has a later time than what   *)
(* it compares the entry with.                                             *)
Recent(d, now) == d.reported <= d.accessed /\ d.accessed < d.reported + Threshold /\ d.accessed <= now
Stamped ==
    /\ \A k \in DOMAIN table : \A i \in 0..Capacity : Recent(table[k].data[i], clock)
    /\ \A t \in Readers : \A x \in rebuild[t].heap : Recent(x.data, clock)
    /\ \A t \in Readers :
         /\ call[t].at \in {"report", "touch"} => call[t].cur.accessed < call[t].now
         /\ call[t].at = "touch" =>
              0 <= call[t].keep /\ call[t].keep <= call[t].now /\ call[t].now < call[t].keep + Threshold

(* Every key is where a search for it stops, and a key that is about to be *)
(* inserted was not passed by the search for it.                           *)
Probed ==
    /\ \A k \in DOMAIN table : AllReached(table[k])
    /\ \A t \in Readers :
         /\ call[t].at \in {"add", "trigger", "insert"} =>
              call[t].slot \in Slots /\ Reached(table[Held(t)], call[t].number, call[t].slot)
         /\ call[t].at = "stamp" => call[t].slot \in Slots

Sized ==
    \A k \in DOMAIN table : table[k].size = Cardinality(Used(table[k])) + Cardinality(Inserting(k))

(* What is copied has different keys, and fits into a table. *)
Copied ==
    \A t \in Readers :
      LET b == rebuild[t] IN
      /\ IsFiniteSet(b.heap) /\ Cardinality(b.heap) <= Capacity
      /\ \A x, y \in b.heap : x.key = y.key => x = y
      /\ b.at = "copy" =>
           /\ Cardinality(b.heap) <= b.slot
           /\ \A x \in b.heap : \E i \in Slots : i < b.slot /\ table[b.table].key[i] = x.key

SetInv == SetTypes /\ Guarded /\ OneRebuild /\ Stamped /\ Probed /\ Sized /\ Copied

-----------------------------------------------------------------------------
(* A step of a call: its thread goes on to c, its table becomes T.         *)
InsertingAt == {"trigger", "insert", "full", "other"}
One(at) == IF at \in InsertingAt THEN 1 ELSE 0

KeyStep(old, T) ==
    \/ T.key = old.key
    \/ \E s \in Slots, n \in Nat \ {0} :
         old.key[s] = 0 /\ Reached(old, n, s) /\ T.key = [old.key EXCEPT ![s] = n]

LEMMA KeyStepKeeps ==
  ASSUME NEW old \in SetTables, NEW T \in SetTables, KeyStep(old, T), AllReached(old)
  PROVE  /\ AllReached(T)
         /\ \A n \in Nat, i \in Slots : Reached(old, n, i) => Reached(T, n, i)
         /\ \A i \in Slots : old.key[i] # 0 => T.key[i] = old.key[i]
<1>1. CASE T.key = old.key
  BY <1>1 DEF AllReached, Used, Reached
<1>2. ASSUME NEW s \in Slots, NEW n \in Nat \ {0},
             old.key[s] = 0, Reached(old, n, s), T.key = [old.key EXCEPT ![s] = n]
      PROVE  /\ AllReached(T)
             /\ \A k \in Nat, i \in Slots : Reached(old, k, i) => Reached(T, k, i)
             /\ \A i \in Slots : old.key[i] # 0 => T.key[i] = old.key[i]
  <2>1. AllReached(T) /\ \A k \in Nat, i \in Slots : Reached(old, k, i) => Reached(T, k, i)
    BY <1>2, SetKey
  <2>2. \A i \in Slots : old.key[i] # 0 => T.key[i] = old.key[i]
    BY <1>2 DEF SetTables
  <2> QED BY <2>1, <2>2
<1> QED BY <1>1, <1>2 DEF KeyStep

TableIs(h, T) ==
    /\ table' \in Seq(SetTables) /\ Len(table') = Len(table)
    /\ \A k \in 1..Len(table) : table'[k] = IF k = h THEN T ELSE table[k]
CallIs(t, c) ==
    /\ call' \in [Readers -> Calls]
    /\ \A u \in Readers : call'[u] = IF u = t THEN c ELSE call[u]

(* what c must satisfy *)
CallTimes(c) ==
    c.at \notin {"none", "now", "return"} => c.number # 0 /\ Threshold <= c.now /\ c.now <= clock
CallStamped(c) ==
    /\ c.at \in {"report", "touch"} => c.cur.accessed < c.now
    /\ c.at = "touch" => 0 <= c.keep /\ c.keep <= c.now /\ c.now < c.keep + Threshold
CallProbed(c, T) ==
    /\ c.at \in {"add", "trigger", "insert"} => c.slot \in Slots /\ Reached(T, c.number, c.slot)
    /\ c.at = "stamp" => c.slot \in Slots

LEMMA InsertingFinite == \A k : IsFiniteSet(Inserting(k)) /\ Cardinality(Inserting(k)) \in Nat
  BY FS_Subset, FS_CardinalityType, SetAssumption DEF Inserting

LEMMA UsedFinite == \A tab : IsFiniteSet(Used(tab)) /\ Cardinality(Used(tab)) \in 0..Capacity
<1> TAKE tab
<1>1. IsFiniteSet(Slots) /\ Cardinality(Slots) = Capacity /\ Capacity \in Nat
  BY SMTT(60), FS_Interval, SetAssumption DEF Slots
<1>2. Used(tab) \subseteq Slots
  BY DEF Used
<1>3. IsFiniteSet(Used(tab)) /\ Cardinality(Used(tab)) <= Capacity
  BY <1>1, <1>2, FS_Subset
<1> QED BY SMTT(60), <1>1, <1>3, FS_CardinalityType

(* The table a call works on exists, and is not freed.                     *)
LEMMA Holds ==
  ASSUME SetInv, RcuInv, NEW t \in Readers, call[t].at # "none"
  PROVE  /\ Held(t) \in 1..Len(table) /\ Held(t) \in DOMAIN table /\ table[Held(t)] \in SetTables
         /\ Held(t) \notin freed /\ Held(t) \in 1..data_ptr
         /\ call[t] \in Calls
<1>1. guard[t].at = "held"
  BY DEF SetInv, Guarded
<1>2. guard[t].data \in Nat /\ last_collected_gen < guard[t].data /\ guard[t].data <= data_ptr
      /\ last_collected_gen \in Nat /\ data_ptr \in Nat
  BY <1>1 DEF RcuInv, RcuTypes, Guards, HeldIsRecent
<1>3. guard[t].data \notin freed
  BY SMTT(60), <1>2 DEF RcuInv, RcuTypes, Generations
<1>4. table \in Seq(SetTables) /\ Len(table) = data_ptr /\ call \in [Readers -> Calls]
  BY DEF SetInv, SetTypes
<1> QED BY SMTT(60), <1>2, <1>3, <1>4 DEF Held

(* The step of a lookup or an insertion: thread t goes on with c, and the   *)
(* table h it holds, old so far, becomes T.                                 *)
StartsRebuild(t) ==
    /\ ~rebuild_in_progress /\ rebuild_in_progress' = TRUE
    /\ rebuild' = [rebuild EXCEPT ![t] = NewRebuild(t)]

CallStep(t, c, h, T, old) ==
    /\ h = Held(t) /\ old = table[h]
    /\ call[t].at # "none" /\ c.at # "none"
    /\ CallIs(t, c) /\ TableIs(h, T)
    /\ UNCHANGED <<rcu_vars, clock, destroyed>>
    /\ UNCHANGED <<rebuild, rebuild_in_progress>> \/ StartsRebuild(t)
    /\ CallTimes(c) /\ CallStamped(c) /\ CallProbed(c, T)
    /\ \A i \in 0..Capacity : Recent(T.data[i], clock)
    /\ KeyStep(old, T)
    /\ T.size - Cardinality(Used(T)) + One(call[t].at)
         = old.size - Cardinality(Used(old)) + One(c.at)

(* The invariant over a step of hit, from what the step writes.            *)
LEMMA CallKeeps ==
  ASSUME SetInv, RcuInv, NEW t \in Readers, NEW c \in Calls, NEW h,
         NEW T \in SetTables, NEW old, CallStep(t, c, h, T, old)
  PROVE  SetInv'
<1>h. h = Held(t) /\ old = table[h] /\ call[t].at # "none" /\ c.at # "none"
  BY DEF CallStep
<1>i. CallIs(t, c) /\ TableIs(h, T) /\ KeyStep(old, T)
  BY DEF CallStep
<1>c. CallTimes(c) /\ CallStamped(c) /\ CallProbed(c, T)
  BY DEF CallStep
<1>r. UNCHANGED <<rebuild, rebuild_in_progress>> \/ StartsRebuild(t)
  BY DEF CallStep
<1>0. /\ h \in 1..Len(table) /\ old \in SetTables /\ h \notin freed /\ h \in 1..data_ptr
      /\ call[t] \in Calls /\ table \in Seq(SetTables) /\ Len(table) = data_ptr
  BY <1>h, Holds DEF SetInv, SetTypes
<1>a. /\ UNCHANGED guard /\ UNCHANGED update /\ UNCHANGED freed /\ UNCHANGED data_ptr
      /\ UNCHANGED clock /\ UNCHANGED destroyed
  BY DEF CallStep, rcu_vars
<1>1. SetTypes'
  <2>1. rebuild' \in [Readers -> Rebuilds]
    <3>1. NewRebuild(t) \in Rebuilds
      <4>1. call[t].now \in Nat
        BY <1>0 DEF Calls
      <4>2. h \in Nat
        BY SMTT(60), <1>0
      <4>3. call[t].now - Threshold \in Int /\ 0 \in Slots
        BY SMTT(60), <4>1, SetAssumption DEF Slots
      <4> QED BY <1>h, <4>2, <4>3 DEF NewRebuild, Rebuilds
    <3> QED BY <1>r, <3>1 DEF SetInv, SetTypes, StartsRebuild
  <2>2. rebuild_in_progress' \in BOOLEAN
    BY <1>r DEF SetInv, SetTypes, StartsRebuild
  <2>3. table' \in Seq(SetTables) /\ Len(table') = data_ptr
    BY <1>0, <1>i DEF TableIs
  <2>4. call' \in [Readers -> Calls]
    BY <1>i DEF SetInv, SetTypes, CallIs
  <2> QED BY <2>1, <2>2, <2>3, <2>4, <1>a DEF SetInv, SetTypes
<1>2. Guarded'
  BY <1>a, <1>c, <1>h, <1>i DEF SetInv, Guarded, CallIs, CallTimes
<1>3. OneRebuild'
  <2>1. CASE UNCHANGED <<rebuild, rebuild_in_progress>>
    BY <1>a, <2>1 DEF SetInv, OneRebuild
  <2>2. CASE StartsRebuild(t)
    <3>1. \A u \in Readers : rebuild[u].at = "none"
      BY <2>2 DEF SetInv, OneRebuild, StartsRebuild
    <3>2. \A u \in Readers : rebuild'[u] = IF u = t THEN NewRebuild(t) ELSE rebuild[u]
      BY <2>2 DEF SetInv, SetTypes, StartsRebuild
    <3>3. update.at = "none"
      BY <3>1 DEF SetInv, OneRebuild
    <3>4. NewRebuild(t).at = "copy" /\ NewRebuild(t).table = h
      BY <1>h DEF NewRebuild
    <3>5. rebuild_in_progress'
      BY <2>2 DEF StartsRebuild
    <3> QED BY SMTT(60), <1>0, <1>a, <3>1, <3>2, <3>3, <3>4, <3>5 DEF OneRebuild
  <2> QED BY <1>r, <2>1, <2>2
<1>4. Stamped'
  <2>1. \A k \in DOMAIN table' : \A i \in 0..Capacity : Recent(table'[k].data[i], clock')
    <3>1. \A i \in 0..Capacity : Recent(T.data[i], clock)
      BY DEF CallStep
    <3> QED BY SMTT(60), <1>0, <1>a, <1>i, <3>1 DEF SetInv, Stamped, TableIs
  <2>2. \A u \in Readers : \A x \in rebuild'[u].heap : Recent(x.data, clock')
    <3> SUFFICES ASSUME NEW u \in Readers PROVE \A x \in rebuild'[u].heap : Recent(x.data, clock')
      OBVIOUS
    <3>1. rebuild'[u].heap \in {rebuild[u].heap, {}}
      BY SMTT(60), <1>r DEF SetInv, SetTypes, NewRebuild, StartsRebuild
    <3> QED BY <1>a, <3>1 DEF SetInv, Stamped
  <2>3. \A u \in Readers : CallStamped(call'[u])
    BY <1>c, <1>i DEF SetInv, Stamped, CallIs, CallStamped
  <2> QED BY <1>a, <2>1, <2>2, <2>3 DEF Stamped, CallStamped
<1>k. AllReached(old)
  BY SMTT(60), <1>0, <1>h DEF SetInv, Probed
<1>b. /\ AllReached(T)
      /\ \A n \in Nat, i \in Slots : Reached(old, n, i) => Reached(T, n, i)
      /\ \A i \in Slots : old.key[i] # 0 => T.key[i] = old.key[i]
  BY <1>0, <1>i, <1>k, KeyStepKeeps
<1>5. Probed'
  <2>1. \A k \in DOMAIN table' : AllReached(table'[k])
    <3>1. \A k \in DOMAIN table : AllReached(table[k])
      BY DEF SetInv, Probed
    <3>2. DOMAIN table' = DOMAIN table /\ \A k \in DOMAIN table : table'[k] = T \/ table'[k] = table[k]
      BY SMTT(60), <1>i DEF TableIs, SetInv, SetTypes
    <3> QED BY <1>b, <3>1, <3>2
  <2>2. ASSUME NEW u \in Readers
        PROVE  CallProbed(call'[u], table'[Held(u)])
    <3>1. CASE u = t
      BY <3>1, <1>0, <1>c, <1>h, <1>i DEF CallIs, TableIs
    <3>2. CASE u # t /\ call[u].at # "none"
      <4>1. /\ call'[u] = call[u] /\ Held(u) \in 1..Len(table) /\ call[u] \in Calls
            /\ CallProbed(call[u], table[Held(u)])
        BY <1>i, <3>2, Holds DEF CallIs, SetInv, Probed, CallProbed
      <4>2. table'[Held(u)] = IF Held(u) = h THEN T ELSE table[Held(u)]
        BY <1>0, <1>i, <4>1 DEF TableIs
      <4> QED BY <4>1, <4>2, <1>b, <1>h DEF CallProbed, Calls
    <3>3. CASE u # t /\ call[u].at = "none"
      BY <1>i, <3>3 DEF CallIs, CallProbed
    <3> QED BY <3>1, <3>2, <3>3
  <2>3. \A u \in Readers : Held(u)' = Held(u)
    BY <1>a DEF Held
  <2> QED BY <2>1, <2>2, <2>3 DEF Probed, CallProbed
<1>6. Sized'
  <2>1. ASSUME NEW k \in 1..Len(table)
        PROVE  table'[k].size = Cardinality(Used(table'[k])) + Cardinality(Inserting(k)')
    <3>1. CASE k # h
      <4>1. Inserting(k)' = Inserting(k)
        BY <3>1, <1>a, <1>h, <1>i DEF Inserting, Held, CallIs
      <4>2. table'[k] = table[k]
        BY <1>0, <1>i, <3>1 DEF TableIs
      <4> QED BY SMTT(60), <1>0, <4>1, <4>2 DEF SetInv, Sized
    <3>2. CASE k = h
      <4>1. Cardinality(Inserting(h)') = Cardinality(Inserting(h)) + One(c.at) - One(call[t].at)
        <5>1. \A u \in Readers \ {t} : u \in Inserting(h)' <=> u \in Inserting(h)
          BY <1>a, <1>i DEF Inserting, Held, CallIs
        <5>2. /\ t \in Inserting(h)' <=> c.at \in InsertingAt
              /\ t \in Inserting(h) <=> call[t].at \in InsertingAt
          BY <1>a, <1>h, <1>i DEF Inserting, InsertingAt, Held, CallIs
        <5>3. Inserting(h) \subseteq Readers /\ Inserting(h)' \subseteq Readers
          BY DEF Inserting
        <5>4. IsFiniteSet(Inserting(h)) /\ Cardinality(Inserting(h)) \in Nat
          BY InsertingFinite
        <5>5. CASE c.at \in InsertingAt /\ call[t].at \in InsertingAt
          <6>2. \A u \in Readers : u \in Inserting(h)' <=> u \in Inserting(h)
            BY <5>1, <5>2, <5>5
          <6>1. Inserting(h)' = Inserting(h)
            BY <5>3, <6>2
          <6> QED BY SMTT(60), <5>4, <5>5, <6>1 DEF One
        <5>6. CASE c.at \in InsertingAt /\ call[t].at \notin InsertingAt
          <6>1. Inserting(h)' = Inserting(h) \cup {t} /\ t \notin Inserting(h)
            BY <5>1, <5>2, <5>3, <5>6
          <6>2. Cardinality(Inserting(h)') = Cardinality(Inserting(h)) + 1
            BY <5>4, <6>1, FS_AddElement
          <6> QED BY SMTT(60), <5>4, <5>6, <6>2 DEF One
        <5>7. CASE c.at \notin InsertingAt /\ call[t].at \in InsertingAt
          <6>1. Inserting(h)' = Inserting(h) \ {t} /\ t \in Inserting(h)
            BY <5>1, <5>2, <5>3, <5>7
          <6>2. Cardinality(Inserting(h)') = Cardinality(Inserting(h)) - 1
            BY <5>4, <6>1, FS_RemoveElement
          <6> QED BY SMTT(60), <5>4, <5>7, <6>2 DEF One
        <5>8. CASE c.at \notin InsertingAt /\ call[t].at \notin InsertingAt
          <6>2. \A u \in Readers : u \in Inserting(h)' <=> u \in Inserting(h)
            BY <5>1, <5>2, <5>8
          <6>1. Inserting(h)' = Inserting(h)
            BY <5>3, <6>2
          <6> QED BY SMTT(60), <5>4, <5>8, <6>1 DEF One
        <5> QED BY <5>5, <5>6, <5>7, <5>8
      <4>2. old.size = Cardinality(Used(old)) + Cardinality(Inserting(h))
        BY SMTT(60), <1>0, <1>h DEF SetInv, Sized
      <4>3. table'[k] = T
        BY <1>0, <1>i, <3>2 DEF TableIs
      <4>4. /\ T.size \in Int /\ old.size \in Int /\ One(c.at) \in Int /\ One(call[t].at) \in Int
            /\ Cardinality(Used(T)) \in Int /\ Cardinality(Used(old)) \in Int
            /\ Cardinality(Inserting(h)) \in Int
        BY SMTT(60), <1>0, UsedFinite, InsertingFinite DEF SetTables, One
      <4>5. T.size = Cardinality(Used(T)) + (Cardinality(Inserting(h)) + One(c.at) - One(call[t].at))
        <5> DEFINE a == T.size  b == Cardinality(Used(T))  i == One(call[t].at)  j == One(c.at)
                   x == old.size  y == Cardinality(Used(old))  d == Cardinality(Inserting(h))
        <5>1. /\ a \in Int /\ b \in Int /\ i \in Int /\ j \in Int /\ x \in Int /\ y \in Int /\ d \in Int
              /\ a - b + i = x - y + j /\ x = y + d
          BY <4>2, <4>4 DEF CallStep
        <5> HIDE DEF a, b, i, j, x, y, d
        <5>2. a = b + (d + j - i)
          BY SMTT(60), <5>1
        <5> QED BY <5>2 DEF a, b, i, j, x, y, d
      <4> QED BY <3>2, <4>1, <4>3, <4>5
    <3> QED BY <3>1, <3>2
  <2>2. DOMAIN table' = 1..Len(table)
    BY SMTT(60), <1>0, <1>i DEF TableIs
  <2> QED BY <2>1, <2>2 DEF Sized
<1>7. Copied'
  <2> SUFFICES ASSUME NEW u \in Readers
               PROVE  LET b == rebuild'[u] IN
                      /\ IsFiniteSet(b.heap) /\ Cardinality(b.heap) <= Capacity
                      /\ \A x, y \in b.heap : x.key = y.key => x = y
                      /\ b.at = "copy" =>
                           /\ Cardinality(b.heap) <= b.slot
                           /\ \A x \in b.heap : \E i \in Slots : i < b.slot /\ table'[b.table].key[i] = x.key
    BY DEF Copied
  <2>1. CASE rebuild'[u] = NewRebuild(t)
    <3>1. rebuild'[u].heap = {} /\ rebuild'[u].slot = 0
      BY SMTT(60), <2>1 DEF NewRebuild
    <3>2. IsFiniteSet({}) /\ Cardinality({}) = 0
      BY FS_EmptySet
    <3> QED BY SMTT(60), <3>1, <3>2, SetAssumption
  <2>2. CASE rebuild'[u] = rebuild[u]
    <3> DEFINE b == rebuild[u]
    <3>1. /\ IsFiniteSet(b.heap) /\ Cardinality(b.heap) <= Capacity
          /\ \A x, y \in b.heap : x.key = y.key => x = y
          /\ b.at = "copy" =>
               /\ Cardinality(b.heap) <= b.slot
               /\ \A x \in b.heap : \E i \in Slots : i < b.slot /\ table[b.table].key[i] = x.key
      BY DEF SetInv, Copied
    <3>2. b.heap \subseteq Items
      BY DEF SetInv, SetTypes, Rebuilds
    <3>3. b.at = "copy" => b.table \in 1..Len(table)
      BY <1>0 DEF SetInv, OneRebuild
    <3>4. ASSUME b.at = "copy", NEW x \in b.heap
          PROVE  \E i \in Slots : i < b.slot /\ table'[b.table].key[i] = x.key
      <4>1. PICK i \in Slots : i < b.slot /\ table[b.table].key[i] = x.key
        BY <3>1, <3>4
      <4>2. x.key # 0
        BY <3>2 DEF Items
      <4>3. table'[b.table].key[i] = x.key
        BY <1>0, <1>b, <1>h, <1>i, <3>3, <3>4, <4>1, <4>2 DEF TableIs
      <4> QED BY <4>1, <4>3
    <3> QED BY <2>2, <3>1, <3>4
  <2>3. rebuild'[u] = NewRebuild(t) \/ rebuild'[u] = rebuild[u]
    BY <1>r DEF SetInv, SetTypes, StartsRebuild
  <2> QED BY <2>1, <2>2, <2>3
<1> QED BY <1>1, <1>2, <1>3, <1>4, <1>5, <1>6, <1>7 DEF SetInv

-----------------------------------------------------------------------------
(* How the steps of hit write their call and their table. *)
LEMMA CallSet ==
  ASSUME SetInv, NEW t \in Readers, NEW c \in Calls, call' = [call EXCEPT ![t] = c]
  PROVE  CallIs(t, c)
  BY DEF SetInv, SetTypes, CallIs

LEMMA TableSet ==
  ASSUME SetInv, NEW h \in 1..Len(table), NEW T \in SetTables, table' = [table EXCEPT ![h] = T]
  PROVE  TableIs(h, T)
  BY SMTT(60) DEF SetInv, SetTypes, TableIs

LEMMA EntrySet ==
  ASSUME SetInv, RcuInv, NEW t \in Readers, call[t].at # "none", NEW d \in Stamps, SetEntry(t, d)
  PROVE  \E T \in SetTables :
           /\ TableIs(Held(t), T) /\ T.key = table[Held(t)].key /\ T.size = table[Held(t)].size
           /\ \A i \in 0..Capacity : T.data[i] = IF i = call[t].slot THEN d ELSE table[Held(t)].data[i]
<1> DEFINE h == Held(t)  old == table[h]  s == call[t].slot  T == [old EXCEPT !.data[s] = d]
<1>1. h \in 1..Len(table) /\ old \in SetTables /\ s \in 0..Capacity /\ table \in Seq(SetTables)
  BY Holds DEF Calls, SetInv, SetTypes
<1>2. table' = [table EXCEPT ![h] = T]
  BY <1>1 DEF SetEntry
<1>3. T \in SetTables /\ T.key = old.key /\ T.size = old.size
      /\ \A i \in 0..Capacity : T.data[i] = IF i = s THEN d ELSE old.data[i]
  BY <1>1 DEF SetTables
<1> HIDE DEF T, h, old, s
<1>4. TableIs(h, T)
  BY <1>1, <1>2, <1>3, TableSet
<1> QED BY <1>3, <1>4 DEF h, old, s

LEMMA SizeAdded ==
  ASSUME SetInv, RcuInv, NEW t \in Readers, call[t].at # "none", NEW n \in Int, AddSize(t, n)
  PROVE  \E T \in SetTables :
           /\ TableIs(Held(t), T) /\ T.key = table[Held(t)].key /\ T.data = table[Held(t)].data
           /\ T.size = table[Held(t)].size + n
<1> DEFINE h == Held(t)  old == table[h]  T == [old EXCEPT !.size = @ + n]
<1>1. h \in 1..Len(table) /\ old \in SetTables /\ table \in Seq(SetTables)
  BY Holds DEF SetInv, SetTypes
<1>2. table' = [table EXCEPT ![h] = T]
  BY <1>1 DEF AddSize
<1>5. T.key = old.key /\ T.data = old.data /\ T.size = old.size + n
  BY <1>1 DEF SetTables
<1>6. old.size + n \in Int
  BY SMTT(60), <1>1 DEF SetTables
<1>7. T = [key |-> old.key, data |-> old.data, size |-> old.size + n]
  BY SMTT(60), <1>1 DEF SetTables
<1>8. T \in SetTables
  BY <1>1, <1>6, <1>7 DEF SetTables
<1>3. T \in SetTables /\ T.key = old.key /\ T.data = old.data /\ T.size = old.size + n
  BY <1>5, <1>8
<1> HIDE DEF T, h, old
<1>4. TableIs(h, T)
  BY <1>1, <1>2, <1>3, TableSet
<1> QED BY <1>3, <1>4 DEF h, old

LEMMA SameTable ==
  ASSUME SetInv, RcuInv, NEW t \in Readers, call[t].at # "none", UNCHANGED table
  PROVE  TableIs(Held(t), table[Held(t)])
  BY Holds DEF TableIs, SetInv, SetTypes

(* A call that writes an entry or nothing. *)
LEMMA EntryKeeps ==
  ASSUME SetInv, RcuInv, NEW t \in Readers, NEW c \in Calls,
         call[t].at # "none", c.at # "none", call' = [call EXCEPT ![t] = c],
         \/ UNCHANGED table
         \/ \E d \in Stamps : SetEntry(t, d) /\ Recent(d, clock),
         UNCHANGED <<rcu_vars, rebuild, rebuild_in_progress, clock, ncalls, destroyed>>,
         CallTimes(c), CallStamped(c), CallProbed(c, table[Held(t)]), One(call[t].at) = One(c.at)
  PROVE  SetInv'
<1> DEFINE h == Held(t)  old == table[h]
<1>1. \E T \in SetTables : /\ TableIs(h, T) /\ T.key = old.key /\ T.size = old.size
                           /\ \A i \in 0..Capacity : Recent(T.data[i], clock)
  <2>0. /\ h \in DOMAIN table /\ old \in SetTables
        /\ \A i \in 0..Capacity : Recent(old.data[i], clock)
    BY Holds DEF SetInv, Stamped
  <2>1. CASE UNCHANGED table
    BY <2>0, <2>1, SameTable
  <2>2. ASSUME NEW d \in Stamps, SetEntry(t, d), Recent(d, clock)
        PROVE  \E T \in SetTables : /\ TableIs(h, T) /\ T.key = old.key /\ T.size = old.size
                                    /\ \A i \in 0..Capacity : Recent(T.data[i], clock)
    <3>1. PICK T \in SetTables :
            /\ TableIs(h, T) /\ T.key = old.key /\ T.size = old.size
            /\ \A i \in 0..Capacity : T.data[i] = IF i = call[t].slot THEN d ELSE old.data[i]
      BY <2>2, EntrySet
    <3>2. \A i \in 0..Capacity : Recent(T.data[i], clock)
      BY <2>0, <2>2, <3>1
    <3> QED BY <3>1, <3>2
  <2> QED BY <2>1, <2>2
<1>2. PICK T \in SetTables : /\ TableIs(h, T) /\ T.key = old.key /\ T.size = old.size
                             /\ \A i \in 0..Capacity : Recent(T.data[i], clock)
  BY <1>1
<1>3. CallIs(t, c)
  BY CallSet
<1>4. KeyStep(old, T) /\ Used(T) = Used(old)
  BY <1>2 DEF KeyStep, Used
<1>5. CallProbed(c, T)
  BY <1>2 DEF CallProbed, Reached
<1> QED BY <1>2, <1>3, <1>4, <1>5, CallKeeps DEF CallStep

LEMMA NowKeeps ==
  ASSUME SetInv, RcuInv, NEW t \in Readers, HitNow(t)
  PROVE  SetInv'
<1>1. PICK n \in Numbers :
        call' = [call EXCEPT ![t] = [@ EXCEPT !.at = "find", !.number = n, !.now = clock]]
  BY DEF HitNow
<1> DEFINE c == [call[t] EXCEPT !.at = "find", !.number = n, !.now = clock]
<1>2. call[t].at = "now" /\ call[t] \in Calls
  BY Holds DEF HitNow
<1>3. n \in Nat \ {0} /\ clock \in Nat /\ Threshold <= clock
  BY SMTT(60), SetAssumption DEF SetInv, SetTypes
<1>4. c \in Calls /\ c.at = "find" /\ c.number = n /\ c.now = clock
  BY <1>2, <1>3 DEF Calls, CallAt
<1>5. call' = [call EXCEPT ![t] = c]
  BY <1>1
<1> HIDE DEF c
<1>6. /\ CallTimes(c) /\ CallStamped(c) /\ CallProbed(c, table[Held(t)])
      /\ One(call[t].at) = One(c.at)
  BY SMTT(60), <1>2, <1>3, <1>4 DEF CallTimes, CallStamped, CallProbed, One, InsertingAt
<1> QED BY <1>2, <1>4, <1>5, <1>6, EntryKeeps DEF HitNow

LEMMA FindKeeps ==
  ASSUME SetInv, RcuInv, NEW t \in Readers, HitFind(t)
  PROVE  SetInv'
<1> DEFINE tab == table[Held(t)]  n == call[t].number  s == FindSlot(tab, n)
           l == IF Exists(tab, n) THEN "load" ELSE "add"
           c == [call[t] EXCEPT !.slot = s, !.at = l]
<1>1. /\ call[t].at = "find" /\ call[t] \in Calls /\ tab \in SetTables /\ n \in Nat
  BY Holds DEF HitFind, Calls
<1>2. CallTimes(call[t])
  BY DEF SetInv, Guarded, CallTimes
<1>3. \/ s = Capacity
      \/ s \in Slots /\ Reached(tab, n, s)
  BY <1>1, FindSlotFinds
<1>4. s \in 0..Capacity /\ (l = "add" => s \in Slots /\ Reached(tab, n, s))
  BY SMTT(60), <1>3, SetAssumption DEF Slots, Exists
<1>5. l \in {"load", "add"}
  OBVIOUS
<1>6. call' = [call EXCEPT ![t] = c]
  BY <1>1 DEF HitFind, SetInv, SetTypes
<1> HIDE DEF s, l
<1>7. /\ c \in Calls /\ c.at = l /\ c.number = n /\ c.now = call[t].now /\ c.slot = s
  BY <1>1, <1>4, <1>5 DEF Calls, CallAt
<1> HIDE DEF c
<1>8. CallTimes(c) /\ CallStamped(c) /\ One(call[t].at) = One(c.at)
  BY <1>1, <1>2, <1>5, <1>7 DEF CallTimes, CallStamped, One, InsertingAt
<1>9. CallProbed(c, tab)
  BY <1>4, <1>5, <1>7 DEF CallProbed
<1> QED BY <1>1, <1>5, <1>6, <1>7, <1>8, <1>9, EntryKeeps DEF HitFind
=============================================================================
