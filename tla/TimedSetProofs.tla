--------------------------- MODULE TimedSetProofs ---------------------------
(***************************************************************************)
(* Proofs about TimedSet, for any threads, table sizes and numbers of      *)
(* calls: a table has a number once and its size is right whatever         *)
(* compare-exchanges fail, the unguarded rebuild thread reads no freed     *)
(* table, and the time of an entry only moves on.                          *)
(*                                                                         *)
(* The inductive invariant is SetInv (SamplerProofs).  Its heart is        *)
(* Probed: a key is where a search for it stops.  Two threads that insert  *)
(* the same number therefore meet in the same slot, where one of the two   *)
(* compare-exchanges fails.  Here are the steps of hit that write, the     *)
(* guards, the rebuild and the theorems.                                   *)
(***************************************************************************)
EXTENDS SamplerProofs

(* The prover of a leaf that names no other. *)
USE ZenonT(60)

(* The size is added to before the insertion, and given back. *)
LEMMA SizeKeeps ==
  ASSUME SetInv, RcuInv, NEW t \in Readers, NEW c \in Calls, NEW n \in Int,
         call[t].at # "none", c.at # "none", call' = [call EXCEPT ![t] = c], AddSize(t, n),
         UNCHANGED <<rcu_vars, rebuild, rebuild_in_progress, clock, ncalls, destroyed>>,
         CallTimes(c), CallStamped(c), CallProbed(c, table[Held(t)]), n + One(call[t].at) = One(c.at)
  PROVE  SetInv'
<1> DEFINE h == Held(t)  old == table[h]
<1>0. h \in DOMAIN table /\ old \in SetTables /\ \A i \in 0..Capacity : Recent(old.data[i], clock)
  BY Holds DEF SetInv, Stamped
<1>2. PICK T \in SetTables : /\ TableIs(h, T) /\ T.key = old.key /\ T.data = old.data
                             /\ T.size = old.size + n
  BY SizeAdded
<1>3. CallIs(t, c)
  BY CallSet
<1>4. KeyStep(old, T) /\ Used(T) = Used(old)
  BY <1>2 DEF KeyStep, Used
<1>5. CallProbed(c, T)
  BY <1>2 DEF CallProbed, Reached
<1>6. T.size - Cardinality(Used(T)) + One(call[t].at) = old.size - Cardinality(Used(old)) + One(c.at)
  <2> DEFINE u == Cardinality(Used(old))  a == old.size  i == One(call[t].at)  j == One(c.at)
  <2>0. a \in Int /\ i \in {0, 1} /\ j \in {0, 1} /\ n + i = j
    BY <1>0 DEF SetTables, One
  <2>3. u \in Int /\ T.size = a + n /\ Cardinality(Used(T)) = u
    BY SMTT(60), <1>2, <1>4, UsedFinite
  <2>1. u \in Int /\ a \in Int /\ i \in Int /\ j \in Int /\ n + i = j
    BY SMTT(60), <2>0, <2>3
  <2> HIDE DEF u, a, i, j
  <2>2. (a + n) - u + i = a - u + j
    BY SMTT(60), <2>1
  <2> QED BY <2>2, <2>3 DEF u, a, i, j
<1>7. \A i \in 0..Capacity : Recent(T.data[i], clock)
  BY <1>0, <1>2
<1> QED BY <1>2, <1>3, <1>4, <1>5, <1>6, <1>7, CallKeeps DEF CallStep

(* What the call that goes on has. *)
LEMMA CallFacts ==
  ASSUME SetInv, RcuInv, NEW t \in Readers, call[t].at # "none"
  PROVE  /\ call[t] \in Calls /\ CallTimes(call[t]) /\ CallStamped(call[t])
         /\ CallProbed(call[t], table[Held(t)])
  BY Holds DEF SetInv, Guarded, Stamped, Probed, CallTimes, CallStamped, CallProbed

(* The call that has its result. *)
LEMMA NoCallIs == NoCall \in Calls
<1>1. Never \in Stamps /\ 0 \in 0..Capacity /\ "none" \in CallAt /\ 0 \in Nat /\ 0 \in Int
  BY SMTT(60), SetAssumption DEF Never, Stamps, CallAt
<1> QED BY <1>1 DEF NoCall, Calls

LEMMA Returning ==
  ASSUME NEW r \in BOOLEAN
  PROVE  LET c == [NoCall EXCEPT !.at = "return", !.hit = r]
         IN  /\ c \in Calls /\ c.at = "return" /\ c.hit = r
             /\ CallTimes(c) /\ CallStamped(c) /\ One(c.at) = 0 /\ \A T : CallProbed(c, T)
<1> DEFINE c == [NoCall EXCEPT !.at = "return", !.hit = r]
<1>1. "return" \in CallAt
  BY DEF CallAt
<1>2. c \in Calls /\ c.at = "return" /\ c.hit = r
  BY <1>1, NoCallIs DEF Calls
<1> HIDE DEF c
<1>3. /\ CallTimes(c) /\ CallStamped(c) /\ One(c.at) = 0 /\ \A T : CallProbed(c, T)
  BY <1>2 DEF CallTimes, CallStamped, CallProbed, One, InsertingAt
<1> QED BY <1>2, <1>3 DEF c

LEMMA AddKeeps ==
  ASSUME SetInv, RcuInv, NEW t \in Readers, HitAdd(t)
  PROVE  SetInv'
<1> DEFINE old == table[Held(t)].size
           l == IF old >= MaxItems THEN "trigger" ELSE "insert"
           k == IF old >= MaxItems THEN old ELSE 0
           c == [call[t] EXCEPT !.at = l, !.keep = k]
<1>1. call[t].at = "add"
  BY DEF HitAdd
<1>2. /\ call[t] \in Calls /\ CallTimes(call[t]) /\ CallProbed(call[t], table[Held(t)])
  BY <1>1, CallFacts
<1>3. l \in {"trigger", "insert"} /\ k \in Int
  BY SMTT(60), <1>1, Holds DEF SetTables
<1>4. call' = [call EXCEPT ![t] = c]
  BY DEF HitAdd, SetInv, SetTypes
<1> HIDE DEF l, k
<1>5. c \in Calls /\ c.at = l /\ c.number = call[t].number /\ c.now = call[t].now /\ c.slot = call[t].slot
  BY <1>2, <1>3 DEF Calls, CallAt
<1> HIDE DEF c
<1>6. CallTimes(c) /\ CallStamped(c) /\ 1 + One(call[t].at) = One(c.at)
  BY SMTT(60), <1>1, <1>2, <1>3, <1>5 DEF CallTimes, CallStamped, One, InsertingAt
<1>7. CallProbed(c, table[Held(t)])
  BY <1>1, <1>2, <1>3, <1>5 DEF CallProbed
<1>8. AddSize(t, 1) /\ UNCHANGED <<rcu_vars, rebuild, rebuild_in_progress, clock, ncalls, destroyed>>
  BY DEF HitAdd
<1>9. call[t].at # "none" /\ c.at # "none" /\ 1 \in Int
  BY SMTT(60), <1>1, <1>3, <1>5
<1> QED BY <1>4, <1>5, <1>6, <1>7, <1>8, <1>9, SizeKeeps

LEMMA TriggerKeeps ==
  ASSUME SetInv, RcuInv, NEW t \in Readers, HitTrigger(t)
  PROVE  SetInv'
<1> DEFINE l == IF call[t].keep >= Capacity THEN "full" ELSE "insert"
           c == [call[t] EXCEPT !.at = l, !.keep = 0]
           old == table[Held(t)]
<1>1. call[t].at = "trigger"
  BY DEF HitTrigger
<1>2. /\ call[t] \in Calls /\ CallTimes(call[t]) /\ CallProbed(call[t], old)
  BY <1>1, CallFacts
<1>3. l \in {"full", "insert"}
  OBVIOUS
<1>4. call' = [call EXCEPT ![t] = c]
  BY DEF HitTrigger, SetInv, SetTypes
<1> HIDE DEF l
<1>12. l \in CallAt /\ 0 \in Int
  BY SMTT(60), <1>3 DEF CallAt
<1>5. c \in Calls /\ c.at = l /\ c.number = call[t].number /\ c.now = call[t].now /\ c.slot = call[t].slot
  BY <1>2, <1>12 DEF Calls
<1> HIDE DEF c
<1>6. CallTimes(c) /\ CallStamped(c) /\ One(call[t].at) = One(c.at)
  BY <1>1, <1>2, <1>3, <1>5 DEF CallTimes, CallStamped, One, InsertingAt
<1>7. CallProbed(c, old)
  BY <1>1, <1>2, <1>3, <1>5 DEF CallProbed
<1>8. /\ Held(t) \in DOMAIN table /\ old \in SetTables
      /\ \A i \in 0..Capacity : Recent(old.data[i], clock)
  BY <1>1, Holds DEF SetInv, Stamped
<1>9. /\ \/ UNCHANGED <<rebuild, rebuild_in_progress>>
         \/ /\ ~rebuild_in_progress /\ rebuild_in_progress' = TRUE
            /\ rebuild' = [rebuild EXCEPT ![t] = NewRebuild(t)]
      /\ UNCHANGED <<rcu_vars, clock, destroyed>> /\ UNCHANGED table
  BY DEF HitTrigger
<1>10. CallIs(t, c) /\ TableIs(Held(t), old) /\ KeyStep(old, old)
  BY <1>1, <1>4, <1>5, <1>9, CallSet, SameTable DEF KeyStep
<1>11. old.size - Cardinality(Used(old)) + One(call[t].at) = old.size - Cardinality(Used(old)) + One(c.at)
  BY <1>6
<1> QED BY <1>1, <1>3, <1>5, <1>6, <1>7, <1>8, <1>9, <1>10, <1>11, CallKeeps DEF CallStep, StartsRebuild

LEMMA GiveBackKeeps ==
  ASSUME SetInv, RcuInv, NEW t \in Readers, HitGiveBack(t)
  PROVE  SetInv'
<1>1. call[t].at \in {"full", "other"} /\ call[t].at # "none"
  BY DEF HitGiveBack
<1>2. call[t] \in Calls /\ CallTimes(call[t])
  BY <1>1, CallFacts
<1>3. PICK c \in Calls : /\ call' = [call EXCEPT ![t] = c]
                         /\ c.at \in {"return", "find"} /\ (c.at = "find" => CallTimes(c))
  <2>1. CASE call[t].at = "full"
    <3> DEFINE c == [NoCall EXCEPT !.at = "return", !.hit = FALSE]
    <3>1. c \in Calls /\ c.at = "return"
      BY Returning
    <3>2. call' = [call EXCEPT ![t] = c]
      BY <2>1 DEF HitGiveBack, Return
    <3> HIDE DEF c
    <3> QED BY <3>1, <3>2
  <2>2. CASE call[t].at = "other"
    <3> DEFINE c == [call[t] EXCEPT !.at = "find"]
    <3>1. c \in Calls /\ c.at = "find" /\ c.number = call[t].number /\ c.now = call[t].now
      BY <1>2 DEF Calls, CallAt
    <3>2. call' = [call EXCEPT ![t] = c]
      BY <2>2 DEF HitGiveBack, Goto, SetInv, SetTypes
    <3> HIDE DEF c
    <3> QED BY <1>2, <2>2, <3>1, <3>2 DEF CallTimes
  <2> QED BY <1>1, <2>1, <2>2
<1>4. /\ CallTimes(c) /\ CallStamped(c) /\ CallProbed(c, table[Held(t)])
      /\ -1 + One(call[t].at) = One(c.at)
  BY SMTT(60), <1>1, <1>3 DEF CallTimes, CallStamped, CallProbed, One, InsertingAt
<1>5. AddSize(t, -1) /\ UNCHANGED <<rcu_vars, rebuild, rebuild_in_progress, clock, ncalls, destroyed>>
  BY DEF HitGiveBack
<1>6. c.at # "none" /\ -1 \in Int
  BY SMTT(60), <1>3
<1> QED BY <1>1, <1>3, <1>4, <1>5, <1>6, SizeKeeps

LEMMA InsertKeeps ==
  ASSUME SetInv, RcuInv, NEW t \in Readers, HitInsert(t)
  PROVE  SetInv'
<1> DEFINE h == Held(t)  old == table[h]  s == call[t].slot  n == call[t].number
<1>1. call[t].at = "insert"
  BY DEF HitInsert
<1>2. /\ call[t] \in Calls /\ CallTimes(call[t]) /\ s \in Slots /\ Reached(old, n, s) /\ n \in Nat \ {0}
  BY <1>1, CallFacts DEF CallProbed, CallTimes, Calls
<1>3. /\ h \in 1..Len(table) /\ h \in DOMAIN table /\ old \in SetTables /\ table \in Seq(SetTables)
      /\ \A i \in 0..Capacity : Recent(old.data[i], clock)
  BY <1>1, Holds DEF SetInv, Stamped, SetTypes
<1>4. CASE old.key[s] = 0
  <2> DEFINE c == [call[t] EXCEPT !.at = "stamp"]  T == [old EXCEPT !.key[s] = n]
  <2>1. c \in Calls /\ c.at = "stamp" /\ c.number = n /\ c.now = call[t].now /\ c.slot = s
    BY <1>2 DEF Calls, CallAt
  <2>2. call' = [call EXCEPT ![t] = c]
    BY <1>4 DEF HitInsert, Goto, SetInv, SetTypes
  <2>3. table' = [table EXCEPT ![h] = T]
    BY <1>3, <1>4 DEF HitInsert
  <2>4. T \in SetTables /\ T.key = [old.key EXCEPT ![s] = n] /\ T.data = old.data /\ T.size = old.size
    BY <1>2, <1>3 DEF SetTables
  <2> HIDE DEF c, T
  <2>5. CallIs(t, c) /\ TableIs(h, T)
    BY <1>3, <2>1, <2>2, <2>3, <2>4, CallSet, TableSet
  <2>6. CallTimes(c) /\ CallStamped(c) /\ CallProbed(c, T) /\ One(call[t].at) = 1 /\ One(c.at) = 0
    BY <1>1, <1>2, <2>1 DEF CallTimes, CallStamped, CallProbed, One, InsertingAt
  <2>7. KeyStep(old, T)
    BY <1>2, <1>4, <2>4 DEF KeyStep
  <2>8. Cardinality(Used(T)) = Cardinality(Used(old)) + 1
    <3>1. Used(T) = Used(old) \cup {s} /\ s \notin Used(old)
      <4>1. Used(T) = Used(old) \cup {s}
        BY SMTT(60), <1>2, <1>3, <1>4, <2>4, SetKey
      <4> QED BY <1>4, <4>1 DEF Used
    <3> QED BY <3>1, UsedFinite, FS_AddElement
  <2>9. T.size - Cardinality(Used(T)) + One(call[t].at) = old.size - Cardinality(Used(old)) + One(c.at)
    <3> DEFINE u == Cardinality(Used(old))  a == old.size
    <3>1. u \in Int /\ a \in Int /\ T.size = a /\ Cardinality(Used(T)) = u + 1
      BY SMTT(60), <1>3, <2>4, <2>8, UsedFinite DEF SetTables
    <3> HIDE DEF u, a
    <3>2. a - (u + 1) + 1 = a - u + 0
      BY SMTT(60), <3>1
    <3> QED BY <2>6, <3>1, <3>2 DEF u, a
  <2>10. \A i \in 0..Capacity : Recent(T.data[i], clock)
    BY <1>3, <2>4
  <2>11. UNCHANGED <<rcu_vars, clock, destroyed>> /\ UNCHANGED <<rebuild, rebuild_in_progress>>
    BY DEF HitInsert
  <2> QED BY <1>1, <2>1, <2>4, <2>5, <2>6, <2>7, <2>9, <2>10, <2>11, CallKeeps DEF CallStep
<1>5. CASE old.key[s] # 0
  <2> DEFINE l == IF old.key[s] = n THEN "full" ELSE "other"
             c == [call[t] EXCEPT !.at = l]
  <2>1. l \in {"full", "other"}
    OBVIOUS
  <2>2. call' = [call EXCEPT ![t] = c] /\ UNCHANGED table
    BY <1>5 DEF HitInsert, Goto, SetInv, SetTypes
  <2> HIDE DEF l
  <2>3. c \in Calls /\ c.at = l /\ c.number = n /\ c.now = call[t].now
    BY <1>2, <2>1 DEF Calls, CallAt
  <2> HIDE DEF c
  <2>4. CallTimes(c) /\ CallStamped(c) /\ CallProbed(c, old) /\ One(call[t].at) = One(c.at)
    BY <1>1, <1>2, <2>1, <2>3 DEF CallTimes, CallStamped, CallProbed, One, InsertingAt
  <2> QED BY <1>1, <2>1, <2>2, <2>3, <2>4, EntryKeeps DEF HitInsert
<1> QED BY <1>4, <1>5

-----------------------------------------------------------------------------
(* The entry that a call with a number looks at. *)
LEMMA EntryFacts ==
  ASSUME SetInv, RcuInv, NEW t \in Readers, call[t].at \notin {"none", "now", "return"}
  PROVE  /\ Entry(t) \in Stamps /\ Recent(Entry(t), clock)
         /\ Report(t) \in Stamps /\ Recent(Report(t), clock)
         /\ call[t].now \in Nat /\ Threshold \in Nat \ {0} /\ Threshold <= call[t].now /\ call[t].now <= clock
         /\ clock \in Nat /\ call[t].cur \in Stamps /\ call[t] \in Calls
<1>1. /\ Held(t) \in DOMAIN table /\ table[Held(t)] \in SetTables /\ call[t] \in Calls
  BY Holds
<1>2. call[t].slot \in 0..Capacity /\ call[t].now \in Nat /\ call[t].cur \in Stamps
  BY <1>1 DEF Calls
<1>3. Entry(t) \in Stamps /\ Recent(Entry(t), clock)
  BY <1>1, <1>2 DEF SetInv, Stamped, Entry, SetTables
<1>4. Threshold \in Nat \ {0} /\ Threshold <= call[t].now /\ call[t].now <= clock /\ clock \in Nat
  BY SMTT(60), SetAssumption DEF SetInv, SetTypes, Guarded
<1>5. Report(t) \in Stamps /\ Recent(Report(t), clock)
  BY SMTT(60), <1>2, <1>4 DEF Report, Stamps, Recent
<1> QED BY <1>1, <1>2, <1>3, <1>4, <1>5

(* A call that has decided. *)
LEMMA ReturnKeeps ==
  ASSUME SetInv, RcuInv, NEW t \in Readers, NEW r \in BOOLEAN, Return(t, r),
         call[t].at \in {"stamp", "load", "report", "touch"},
         \/ UNCHANGED table
         \/ \E d \in Stamps : SetEntry(t, d) /\ Recent(d, clock),
         UNCHANGED <<rcu_vars, rebuild, rebuild_in_progress, clock, ncalls, destroyed>>
  PROVE  SetInv'
<1> DEFINE c == [NoCall EXCEPT !.at = "return", !.hit = r]
<1>1. /\ c \in Calls /\ c.at = "return" /\ CallTimes(c) /\ CallStamped(c) /\ One(c.at) = 0
      /\ CallProbed(c, table[Held(t)])
  BY Returning
<1>2. call' = [call EXCEPT ![t] = c]
  BY DEF Return
<1>3. One(call[t].at) = 0 /\ call[t].at # "none"
  BY DEF One, InsertingAt
<1> HIDE DEF c
<1> QED BY <1>1, <1>2, <1>3, EntryKeeps

(* A call that tries again with what it has read. *)
LEMMA RetryKeeps ==
  ASSUME SetInv, RcuInv, NEW t \in Readers, NEW c \in Calls, call' = [call EXCEPT ![t] = c],
         call[t].at \in {"load", "report", "touch"}, c.at \in {"report", "touch"},
         c.number = call[t].number, c.now = call[t].now, CallStamped(c),
         UNCHANGED <<rcu_vars, table, rebuild, rebuild_in_progress, clock, ncalls, destroyed>>
  PROVE  SetInv'
<1>1. CallTimes(c)
  BY CallFacts DEF CallTimes
<1>2. One(call[t].at) = One(c.at) /\ CallProbed(c, table[Held(t)])
  BY DEF One, InsertingAt, CallProbed
<1> QED BY <1>1, <1>2, EntryKeeps

LEMMA StampKeeps ==
  ASSUME SetInv, RcuInv, NEW t \in Readers, HitStamp(t)
  PROVE  SetInv'
<1>1. call[t].at = "stamp" /\ Return(t, Entry(t) = Never) /\ (Entry(t) = Never) \in BOOLEAN
  BY DEF HitStamp
<1>2. Report(t) \in Stamps /\ Recent(Report(t), clock)
  BY <1>1, EntryFacts
<1>3. UNCHANGED table \/ SetEntry(t, Report(t))
  BY DEF HitStamp
<1>4. UNCHANGED <<rcu_vars, rebuild, rebuild_in_progress, clock, ncalls, destroyed>>
  BY DEF HitStamp
<1> QED BY <1>1, <1>2, <1>3, <1>4, ReturnKeeps

LEMMA LoadKeeps ==
  ASSUME SetInv, RcuInv, NEW t \in Readers, HitLoad(t)
  PROVE  SetInv'
<1> DEFINE d == Entry(t)  now == call[t].now
<1>1. call[t].at = "load"
  BY DEF HitLoad
<1>2. /\ d \in Stamps /\ Recent(d, clock) /\ now \in Nat /\ Threshold \in Nat \ {0} /\ Threshold <= now
      /\ call[t] \in Calls
  BY <1>1, EntryFacts
<1>3. UNCHANGED <<rcu_vars, table, rebuild, rebuild_in_progress, clock, ncalls, destroyed>>
  BY DEF HitLoad
<1>4. CASE d.reported <= now - Threshold /\ call' = [call EXCEPT ![t].at = "report", ![t].cur = d]
  <2> DEFINE c == [call[t] EXCEPT !.at = "report", !.cur = d]
  <2>1. call' = [call EXCEPT ![t] = c]
    BY <1>4 DEF SetInv, SetTypes
  <2>2. c \in Calls /\ c.at = "report" /\ c.number = call[t].number /\ c.now = now /\ c.cur = d
    BY <1>2 DEF Calls, CallAt
  <2>3. d.accessed < now
    BY SMTT(60), <1>2, <1>4 DEF Stamps, Recent
  <2> HIDE DEF c, d
  <2>4. CallStamped(c)
    BY <2>2, <2>3 DEF CallStamped
  <2> QED BY <1>1, <1>3, <2>1, <2>2, <2>4, RetryKeeps
<1>5. CASE /\ d.reported > now - Threshold /\ d.accessed < now
           /\ call' = [call EXCEPT ![t].at = "touch", ![t].cur = d, ![t].keep = d.reported]
  <2> DEFINE c == [call[t] EXCEPT !.at = "touch", !.cur = d, !.keep = d.reported]
  <2>1. call' = [call EXCEPT ![t] = c]
    BY <1>5 DEF SetInv, SetTypes
  <2>3. /\ d.reported \in Int /\ "touch" \in CallAt
        /\ 0 <= d.reported /\ d.reported <= now /\ now < d.reported + Threshold
    BY SMTT(60), <1>2, <1>5 DEF Stamps, Recent, CallAt
  <2>2. /\ c \in Calls /\ c.at = "touch" /\ c.number = call[t].number /\ c.now = now /\ c.cur = d
        /\ c.keep = d.reported
    BY <1>2, <2>3 DEF Calls
  <2> HIDE DEF c, d
  <2>4. CallStamped(c)
    BY <1>5, <2>2, <2>3 DEF CallStamped
  <2> QED BY <1>1, <1>3, <2>1, <2>2, <2>4, RetryKeeps
<1>6. CASE Return(t, FALSE)
  BY <1>1, <1>3, <1>6, ReturnKeeps
<1> QED BY <1>4, <1>5, <1>6 DEF HitLoad

LEMMA ReportKeeps ==
  ASSUME SetInv, RcuInv, NEW t \in Readers, HitReport(t)
  PROVE  SetInv'
<1> DEFINE d == Entry(t)  now == call[t].now
<1>1. call[t].at = "report"
  BY DEF HitReport
<1>2. /\ d \in Stamps /\ now \in Nat /\ Report(t) \in Stamps /\ Recent(Report(t), clock)
      /\ call[t] \in Calls
  BY <1>1, EntryFacts
<1>3. UNCHANGED <<rcu_vars, rebuild, rebuild_in_progress, clock, ncalls, destroyed>>
  BY DEF HitReport
<1>4. CASE SetEntry(t, Report(t)) /\ Return(t, TRUE)
  BY <1>1, <1>2, <1>3, <1>4, ReturnKeeps
<1>5. CASE Return(t, FALSE) /\ UNCHANGED table
  BY <1>1, <1>3, <1>5, ReturnKeeps
<1>6. CASE ~(d.accessed >= now) /\ call' = [call EXCEPT ![t].cur = d] /\ UNCHANGED table
  <2> DEFINE c == [call[t] EXCEPT !.cur = d]
  <2>1. call' = [call EXCEPT ![t] = c]
    BY <1>6 DEF SetInv, SetTypes
  <2>2. c \in Calls /\ c.at = "report" /\ c.number = call[t].number /\ c.now = now /\ c.cur = d
    BY <1>1, <1>2 DEF Calls, CallAt
  <2>3. d.accessed < now
    BY SMTT(60), <1>2, <1>6 DEF Stamps
  <2> HIDE DEF c, d
  <2>4. CallStamped(c)
    BY SMTT(60), <2>2, <2>3 DEF CallStamped
  <2> QED BY <1>1, <1>3, <1>6, <2>1, <2>2, <2>4, RetryKeeps
<1> QED BY <1>4, <1>5, <1>6 DEF HitReport

LEMMA TouchKeeps ==
  ASSUME SetInv, RcuInv, NEW t \in Readers, HitTouch(t)
  PROVE  SetInv'
<1> DEFINE d == Entry(t)  now == call[t].now
<1>1. call[t].at = "touch"
  BY DEF HitTouch
<1>2. d \in Stamps /\ now \in Nat /\ now <= clock /\ call[t] \in Calls /\ clock \in Nat
  BY <1>1, EntryFacts
<1>7. CallStamped(call[t]) /\ call[t].keep \in Int
  BY <1>1, CallFacts DEF Calls
<1>3. UNCHANGED <<rcu_vars, rebuild, rebuild_in_progress, clock, ncalls, destroyed>>
  BY DEF HitTouch
<1>4. CASE SetEntry(t, Touched(t)) /\ Return(t, FALSE)
  <2>1. Touched(t) \in Stamps /\ Recent(Touched(t), clock)
    BY SMTT(60), <1>1, <1>2, <1>7 DEF Touched, Stamps, Recent, CallStamped
  <2> QED BY <1>1, <1>3, <1>4, <2>1, ReturnKeeps
<1>5. CASE Return(t, FALSE) /\ UNCHANGED table
  BY <1>1, <1>3, <1>5, ReturnKeeps
<1>6. CASE ~(d.accessed >= now) /\ call' = [call EXCEPT ![t].cur = d] /\ UNCHANGED table
  <2> DEFINE c == [call[t] EXCEPT !.cur = d]
  <2>1. call' = [call EXCEPT ![t] = c]
    BY SMTT(60), <1>6 DEF SetInv, SetTypes
  <2>2. /\ c \in Calls /\ c.at = "touch" /\ c.number = call[t].number /\ c.now = now /\ c.cur = d
        /\ c.keep = call[t].keep
    BY <1>1, <1>2 DEF Calls, CallAt
  <2>3. d.accessed < now
    BY SMTT(60), <1>2, <1>6 DEF Stamps
  <2> HIDE DEF c, d
  <2>4. CallStamped(c)
    BY <1>1, <1>7, <2>2, <2>3 DEF CallStamped
  <2> QED BY <1>1, <1>3, <1>6, <2>1, <2>2, <2>4, RetryKeeps
<1> QED BY <1>4, <1>5, <1>6 DEF HitTouch

-----------------------------------------------------------------------------
(* A step that leaves the tables and the rebuilds alone: of a guard, of    *)
(* the clock, of an accessor or of the update of the pointer.              *)
LEMMA GuardKeeps ==
  ASSUME SetInv, RcuInv,
         UNCHANGED <<table, rebuild, rebuild_in_progress, destroyed, data_ptr, freed>>,
         clock' \in Threshold..MaxClock, clock <= clock',
         call' \in [Readers -> Calls],
         \A u \in Readers : call'[u].at # "none" <=> guard'[u].at = "held",
         \A u \in Readers :
           \/ call'[u] = call[u] /\ (call[u].at # "none" => guard'[u].data = guard[u].data)
           \/ call[u].at \in {"none", "return"} /\ call'[u].at \in {"none", "now"},
         update'.at # "none" => \E t \in Readers : rebuild[t].at = "update"
  PROVE  SetInv'
<1>0. clock \in Nat /\ clock' \in Nat /\ Threshold \in Nat
  BY SMTT(60), SetAssumption DEF SetInv, SetTypes
<1>1. SetTypes'
  BY DEF SetInv, SetTypes
<1>2. Guarded'
  <2> SUFFICES ASSUME NEW u \in Readers, call'[u].at \notin {"none", "now", "return"}
               PROVE  call'[u].number # 0 /\ Threshold <= call'[u].now /\ call'[u].now <= clock'
    BY DEF Guarded
  <2>1. call'[u] = call[u] /\ call[u] \in Calls
    BY DEF SetInv, SetTypes
  <2>2. call[u].number # 0 /\ Threshold <= call[u].now /\ call[u].now <= clock /\ call[u].now \in Nat
    BY <2>1 DEF SetInv, Guarded, Calls
  <2> QED BY SMTT(60), <1>0, <2>1, <2>2
<1>3. OneRebuild'
  BY SMTT(60) DEF SetInv, OneRebuild
<1>4. Stamped'
  <2>1. \A d \in Stamps : Recent(d, clock) => Recent(d, clock')
    BY SMTT(60), <1>0 DEF Recent, Stamps
  <2>2. \A k \in DOMAIN table : \A i \in 0..Capacity : table[k].data[i] \in Stamps
    <3>1. \A k \in DOMAIN table : table[k] \in SetTables
      BY SMTT(60) DEF SetInv, SetTypes
    <3> QED BY <3>1 DEF SetTables
  <2>3. \A t \in Readers : \A x \in rebuild[t].heap : x.data \in Stamps
    BY SMTT(60) DEF SetInv, SetTypes, Rebuilds, Items
  <2>4. \A u \in Readers : CallStamped(call'[u])
    BY DEF SetInv, Stamped, CallStamped
  <2>5. \A k \in DOMAIN table' : \A i \in 0..Capacity : Recent(table'[k].data[i], clock')
    BY <2>1, <2>2 DEF SetInv, Stamped
  <2>6. \A t \in Readers : \A x \in rebuild'[t].heap : Recent(x.data, clock')
    BY <2>1, <2>3 DEF SetInv, Stamped
  <2> QED BY <2>4, <2>5, <2>6 DEF Stamped, CallStamped
<1>5. Probed'
  <2>1. \A u \in Readers : CallProbed(call'[u], table'[Held(u)'])
    BY DEF SetInv, Probed, CallProbed, Held
  <2> QED BY <2>1 DEF SetInv, Probed, CallProbed
<1>6. Sized'
  <2>1. \A k : Inserting(k)' = Inserting(k)
    BY SMTT(60) DEF Inserting, Held
  <2> QED BY <2>1 DEF SetInv, Sized
<1>7. Copied'
  BY SMTT(60) DEF SetInv, Copied
<1> QED BY <1>1, <1>2, <1>3, <1>4, <1>5, <1>6, <1>7 DEF SetInv

LEMMA TickKeeps ==
  ASSUME SetInv, RcuInv, Tick
  PROVE  SetInv'
<1>1. clock \in Nat /\ clock' \in Threshold..MaxClock /\ clock <= clock'
  BY SMTT(60), SetAssumption DEF Tick, SetInv, SetTypes
<1>2. UNCHANGED <<rcu_vars, table, call, rebuild, rebuild_in_progress, destroyed>>
  BY DEF Tick
<1>3. UNCHANGED <<data_ptr, freed, guard, update>>
  BY <1>2 DEF rcu_vars
<1> QED BY <1>1, <1>2, <1>3, GuardKeeps DEF SetInv, SetTypes, Guarded, OneRebuild

LEMMA AccessorKeeps ==
  ASSUME SetInv, RcuInv, NEW t \in Readers,
         Accessor(t) \/ HitBegin(t) \/ HitPublish(t) \/ RebuildUpdate(t)
  PROVE  SetInv'
<1>1. UNCHANGED <<table, call, rebuild, rebuild_in_progress, clock, destroyed>>
  BY DEF Accessor, HitBegin, HitPublish, RebuildUpdate, set_vars
<1>2. UNCHANGED <<data_ptr, freed>>
  BY DEF Accessor, HitBegin, HitPublish, RebuildUpdate, Register, Unregister,
         LoadGeneration, PublishGeneration, Increment, LookAt, manager
<1>3. update'.at # "none" => \E u \in Readers : rebuild[u].at = "update"
  <2>1. CASE RebuildUpdate(t)
    BY <2>1 DEF RebuildUpdate
  <2>2. CASE ~RebuildUpdate(t)
    <3>1. UNCHANGED update
      BY <2>2 DEF Accessor, HitBegin, HitPublish, Register, Unregister, LoadGeneration,
                  PublishGeneration, manager
    <3> QED BY <3>1 DEF SetInv, OneRebuild
  <2> QED BY <2>1, <2>2
<1>4. \A u \in Readers : /\ guard'[u].at = "held" <=> guard[u].at = "held"
                         /\ guard[u].at = "held" => guard'[u].data = guard[u].data
  <2>1. guard \in [Readers -> Guards]
    BY DEF RcuInv, RcuTypes
  <2>2. CASE UNCHANGED guard
    BY <2>2
  <2>3. CASE HitBegin(t)
    BY <2>1, <2>3 DEF HitBegin, LoadGeneration
  <2>4. CASE HitPublish(t)
    BY <2>1, <2>4 DEF HitPublish, PublishGeneration, Guards
  <2> QED BY <2>2, <2>3, <2>4 DEF Accessor, RebuildUpdate, Register, Unregister, Increment, LookAt
<1>5. \A u \in Readers : call[u].at # "none" <=> guard[u].at = "held"
  BY DEF SetInv, Guarded
<1>6. call \in [Readers -> Calls] /\ clock \in Threshold..MaxClock /\ clock <= clock
  BY SMTT(60), SetAssumption DEF SetInv, SetTypes
<1> QED BY <1>1, <1>2, <1>3, <1>4, <1>5, <1>6, GuardKeeps

LEMMA BracketKeeps ==
  ASSUME SetInv, RcuInv, NEW t \in Readers, HitGuarded(t) \/ HitReturn(t)
  PROVE  SetInv'
<1>1. UNCHANGED <<table, rebuild, rebuild_in_progress, clock, destroyed, data_ptr, freed, update>>
  BY DEF HitGuarded, HitReturn, LoadData, Release, manager
<1>2. guard \in [Readers -> Guards] /\ call \in [Readers -> Calls]
      /\ \A u \in Readers : call[u].at # "none" <=> guard[u].at = "held"
  BY DEF SetInv, SetTypes, Guarded, RcuInv, RcuTypes
<1>3. /\ call' \in [Readers -> Calls]
      /\ \A u \in Readers \ {t} : call'[u] = call[u] /\ guard'[u] = guard[u]
      /\ \/ call[t].at = "none" /\ call'[t].at = "now" /\ guard'[t].at = "held"
         \/ call[t].at = "return" /\ call'[t].at = "none" /\ guard'[t].at = "none"
  <2>1. CASE HitGuarded(t)
    <3>1. "now" \in CallAt
      BY DEF CallAt
    <3> QED BY SMTT(60), <1>2, <2>1, <3>1 DEF HitGuarded, LoadData, Goto, Calls, Guards
  <2>2. CASE HitReturn(t)
    <3>1. NoCall.at = "none" /\ NoGuard.at = "none"
      BY DEF NoCall, NoGuard
    <3> QED BY <1>2, <2>2, <3>1, NoCallIs DEF HitReturn, Release
  <2> QED BY <2>1, <2>2
<1>4. clock \in Threshold..MaxClock /\ clock <= clock /\ (update.at # "none" => \E u \in Readers : rebuild[u].at = "update")
  BY SMTT(60), SetAssumption DEF SetInv, SetTypes, OneRebuild
<1>5. \A u \in Readers : call'[u].at # "none" <=> guard'[u].at = "held"
  BY <1>2, <1>3
<1>6. \A u \in Readers :
        \/ call'[u] = call[u] /\ (call[u].at # "none" => guard'[u].data = guard[u].data)
        \/ call[u].at \in {"none", "return"} /\ call'[u].at \in {"none", "now"}
  BY <1>3
<1> QED BY <1>1, <1>3, <1>4, <1>5, <1>6, GuardKeeps

-----------------------------------------------------------------------------
(* The rebuild. *)
LEMMA CopyKeeps ==
  ASSUME SetInv, RcuInv, NEW t \in Readers, RebuildCopy(t)
  PROVE  SetInv'
<1> DEFINE b == rebuild[t]  tab == table[b.table]  s == b.slot
           key == tab.key[s]  d == tab.data[s]  x == [key |-> key, data |-> d]
           heap == IF key # 0 /\ d.reported >= b.threshold THEN b.heap \cup {x} ELSE b.heap
           slot == IF s < Capacity - 1 THEN s + 1 ELSE 0
           at == IF s < Capacity - 1 THEN "copy" ELSE "swap"
           c == [b EXCEPT !.heap = heap, !.slot = slot, !.at = at]
<1>0. /\ b \in Rebuilds /\ b.at = "copy" /\ b.heap \subseteq Items /\ s \in Slots
      /\ table \in Seq(SetTables) /\ Len(table) = data_ptr /\ rebuild \in [Readers -> Rebuilds]
      /\ Capacity \in Nat \ {0}
  BY SetAssumption DEF RebuildCopy, SetInv, SetTypes, Rebuilds
<1>1. b.table \in 1..data_ptr /\ b.table \notin freed /\ b.table \in DOMAIN table /\ tab \in SetTables
  BY SMTT(60), <1>0 DEF SetInv, OneRebuild
<1>2. s \in 0..Capacity /\ s \in Nat /\ key \in Nat /\ d \in Stamps /\ Recent(d, clock)
  <2>1. s \in 0..Capacity /\ s \in Nat
    BY SMTT(60), <1>0 DEF Slots
  <2> QED BY <1>0, <1>1, <2>1 DEF SetTables, SetInv, Stamped
<1>3. rebuild' = [rebuild EXCEPT ![t] = c]
  BY <1>0 DEF RebuildCopy
<1>18. x.key = key /\ x.data = d /\ (key # 0 => x \in Items)
  BY <1>2 DEF Items
<1>19. \A y \in heap : y \in b.heap \/ (y = x /\ key # 0)
  OBVIOUS
<1>4. heap \subseteq Items /\ \A y \in heap : Recent(y.data, clock)
  <2>1. \A y \in b.heap : Recent(y.data, clock)
    BY DEF SetInv, Stamped
  <2> HIDE DEF heap, x, d, key
  <2> QED BY SMTT(60), <1>0, <1>2, <1>18, <1>19, <2>1
<1>5. slot \in Slots /\ at \in {"copy", "swap"} /\ (at = "copy" => slot = s + 1)
  BY SMTT(60), <1>0 DEF Slots
<1>6. /\ IsFiniteSet(b.heap) /\ Cardinality(b.heap) <= s /\ Cardinality(b.heap) \in Nat
      /\ \A y, z \in b.heap : y.key = z.key => y = z
      /\ \A y \in b.heap : \E i \in Slots : i < s /\ tab.key[i] = y.key
  BY <1>0, FS_CardinalityType DEF SetInv, Copied
<1>7. /\ IsFiniteSet(heap) /\ Cardinality(heap) <= s + 1 /\ Cardinality(heap) \in Nat
  <2>1. CASE x \in b.heap \/ heap = b.heap
    <3>1. heap = b.heap
      BY <2>1
    <3> HIDE DEF heap
    <3> QED BY SMTT(60), <1>2, <1>6, <3>1
  <2>2. CASE x \notin b.heap /\ heap = b.heap \cup {x}
    <3> HIDE DEF heap, x
    <3>1. IsFiniteSet(heap) /\ Cardinality(heap) = Cardinality(b.heap) + 1
      BY <1>6, <2>2, FS_AddElement
    <3> QED BY SMTT(60), <1>2, <1>6, <3>1
  <2> QED BY <2>1, <2>2
<1>8. ASSUME NEW y \in heap PROVE y.key # 0 /\ \E i \in Slots : i < s + 1 /\ tab.key[i] = y.key
  <2>0. y.key # 0
    BY <1>4 DEF Items
  <2>1. CASE y \in b.heap
    <3>1. PICK i \in Slots : i < s /\ tab.key[i] = y.key
      BY <1>6, <2>1
    <3>2. i < s + 1
      <4> HIDE DEF s, heap
      <4>1. i \in Nat
        BY SMTT(60), SetAssumption DEF Slots
      <4>2. s \in Nat /\ i < s
        BY <1>2, <3>1
      <4> QED BY SMTT(60), <4>1, <4>2
    <3> QED BY <2>0, <3>1, <3>2
  <2>2. CASE y \notin b.heap
    <3>1. y = x
      BY <1>19, <2>2
    <3> HIDE DEF x, heap
    <3>2. s < s + 1
      BY SMTT(60), <1>2
    <3>3. tab.key[s] = y.key
      BY <1>18, <3>1
    <3> QED BY <1>0, <2>0, <3>2, <3>3
  <2> QED BY <2>1, <2>2
<1>9. \A y, z \in heap : y.key = z.key => y = z
  <2>1. ASSUME NEW y \in b.heap, key # 0, y.key = key PROVE FALSE
    <3>1. PICK i \in Slots : i < s /\ tab.key[i] = key
      BY <1>6, <2>1
    <3>2. AllReached(tab) /\ Reached(tab, key, s)
      BY <1>0, <1>1, <2>1 DEF SetInv, Probed, AllReached, Used
    <3>3. i = s
      BY <1>0, <1>1, <1>2, <2>1, <3>1, <3>2, KeysOnce
    <3> QED BY SMTT(60), <1>2, <3>1, <3>3
  <2> HIDE DEF heap, x, key
  <2> QED BY <1>6, <1>18, <1>19, <2>1
<1> HIDE DEF heap, slot, at
<1>10. c \in Rebuilds /\ c.heap = heap /\ c.slot = slot /\ c.at = at /\ c.table = b.table
  BY <1>0, <1>4, <1>5 DEF Rebuilds
<1> HIDE DEF c
<1>11. rebuild' \in [Readers -> Rebuilds] /\ \A u \in Readers : rebuild'[u] = IF u = t THEN c ELSE rebuild[u]
  BY <1>0, <1>3, <1>10
<1>12. UNCHANGED <<rcu_vars, table, call, rebuild_in_progress, clock, ncalls, destroyed>>
       /\ UNCHANGED <<guard, update, freed, data_ptr>>
  BY DEF RebuildCopy, rcu_vars
<1>13. SetTypes' /\ Guarded' /\ Probed'
  BY <1>11, <1>12 DEF SetInv, SetTypes, Guarded, Probed, Held
<1>14. OneRebuild'
  BY SMTT(60), <1>0, <1>1, <1>5, <1>10, <1>11, <1>12 DEF SetInv, OneRebuild
<1>15. Stamped'
  <2>1. \A u \in Readers : \A y \in rebuild'[u].heap : Recent(y.data, clock)
    BY <1>4, <1>10, <1>11 DEF SetInv, Stamped
  <2> QED BY <1>12, <2>1 DEF SetInv, Stamped
<1>16. Sized'
  <2>1. \A k : Inserting(k)' = Inserting(k)
    BY <1>12 DEF Inserting, Held
  <2> QED BY <1>12, <2>1 DEF SetInv, Sized
<1>17. Copied'
  <2>1. Cardinality(heap) <= Capacity
    BY SMTT(60), <1>0, <1>2, <1>7 DEF Slots
  <2>2. at = "copy" => Cardinality(heap) <= slot /\ \A y \in heap : \E i \in Slots : i < slot /\ tab.key[i] = y.key
    BY <1>5, <1>7, <1>8
  <2>3. ASSUME NEW u \in Readers
        PROVE  LET e == rebuild'[u] IN
               /\ IsFiniteSet(e.heap) /\ Cardinality(e.heap) <= Capacity
               /\ \A y, z \in e.heap : y.key = z.key => y = z
               /\ e.at = "copy" =>
                    /\ Cardinality(e.heap) <= e.slot
                    /\ \A y \in e.heap : \E i \in Slots : i < e.slot /\ table[e.table].key[i] = y.key
    <3>1. CASE u = t
      BY SMTT(60), <1>7, <1>9, <1>10, <1>11, <2>1, <2>2, <3>1
    <3>2. CASE u # t
      BY SMTT(60), <1>11, <3>2 DEF SetInv, Copied
    <3> QED BY <3>1, <3>2
  <2> QED BY <1>12, <2>3 DEF Copied
<1> QED BY SMTT(60), <1>13, <1>14, <1>15, <1>16, <1>17 DEF SetInv

-----------------------------------------------------------------------------
(* What a rebuild keeps of the heap becomes a table. *)
LEMMA OrderFits ==
  ASSUME SetInv, NEW t \in Readers, NEW kept \in Kept(rebuild[t].heap), NEW order \in Orders(kept)
  PROVE  /\ Filled(NewTable(order))
         /\ \A i \in 0..Capacity : Recent(NewTable(order).data[i], clock)
<1> DEFINE heap == rebuild[t].heap  n == Cardinality(kept)
<1>1. /\ IsFiniteSet(heap) /\ Cardinality(heap) <= Capacity /\ heap \subseteq Items
      /\ \A x, y \in heap : x.key = y.key => x = y
      /\ \A x \in heap : Recent(x.data, clock)
  BY DEF SetInv, SetTypes, Rebuilds, Copied, Stamped
<1>2. kept \subseteq heap
  BY DEF Kept
<1>3. n \in Nat /\ n <= Capacity /\ Capacity \in Nat
  <2>1. IsFiniteSet(kept) /\ n <= Cardinality(heap)
    BY <1>1, <1>2, FS_Subset
  <2>2. n \in Nat /\ Cardinality(heap) \in Nat
    BY <1>1, <2>1, FS_CardinalityType
  <2> QED BY SMTT(60), <1>1, <2>1, <2>2, SetAssumption
<1>4. order \in [1..n -> kept] /\ \A i, j \in 1..n : i # j => order[i] # order[j]
  <2>1. order \in [1..n -> kept] /\ \A i, j \in 1..n : i < j => order[i] # order[j]
    BY DEF Orders
  <2>2. \A i, j \in 1..n : i # j => i < j \/ j < i
    BY SMTT(60), <1>3
  <2> QED BY <2>1, <2>2
<1> HIDE DEF n
<1>5. order \in Seq(Items) /\ Len(order) = n
  <2>1. order \in [1..n -> Items]
    BY <1>1, <1>2, <1>4
  <2> QED BY SMTT(60), <1>3, <2>1
<1>6. \A i, j \in 1..Len(order) : order[i].key = order[j].key => i = j
  <2> SUFFICES ASSUME NEW i \in 1..n, NEW j \in 1..n, order[i].key = order[j].key PROVE i = j
    BY <1>5
  <2>1. order[i] \in heap /\ order[j] \in heap
    BY <1>2, <1>4
  <2> QED BY <1>1, <1>4, <2>1
<1>7. /\ Filled(NewTable(order))
      /\ \A i \in 0..Capacity : \/ NewTable(order).data[i] = Never
                                \/ \E j \in 1..Len(order) : NewTable(order).data[i] = order[j].data
  BY <1>3, <1>5, <1>6, NewTableFilled
<1>8. Recent(Never, clock)
  BY SMTT(60), SetAssumption DEF SetInv, SetTypes, Recent, Never
<1>9. \A j \in 1..Len(order) : Recent(order[j].data, clock)
  BY <1>1, <1>2, <1>4, <1>5
<1> QED BY <1>7, <1>8, <1>9

LEMMA NoRebuildIs == NoRebuild \in Rebuilds /\ NoRebuild.at = "none" /\ NoRebuild.heap = {}
<1>1. 0 \in Slots
  BY SMTT(60), SetAssumption DEF Slots
<1> QED BY SMTT(60), <1>1 DEF NoRebuild, Rebuilds

(* The new table is right, and no thread holds it yet.                     *)
LEMMA SwapKeeps ==
  ASSUME SetInv, RcuInv, NEW t \in Readers, RebuildSwap(t)
  PROVE  SetInv'
<1> DEFINE c == [NoRebuild EXCEPT !.at = "update"]  L == Len(table)
<1>0. /\ table \in Seq(SetTables) /\ L = data_ptr /\ L \in Nat /\ rebuild \in [Readers -> Rebuilds]
      /\ call \in [Readers -> Calls] /\ rebuild[t].at = "swap"
  BY SMTT(60) DEF RebuildSwap, SetInv, SetTypes
<1>1. PICK T : /\ Filled(T) /\ table' = Append(table, T)
               /\ \A i \in 0..Capacity : Recent(T.data[i], clock)
  <2>1. PICK kept \in Kept(rebuild[t].heap) : \E order \in Orders(kept) : table' = Append(table, NewTable(order))
    BY DEF RebuildSwap
  <2>2. PICK order \in Orders(kept) : table' = Append(table, NewTable(order))
    BY <2>1
  <2> QED BY <2>2, OrderFits
<1>2. /\ table' \in Seq(SetTables) /\ Len(table') = L + 1 /\ T \in SetTables
      /\ \A k \in 1 .. L + 1 : table'[k] = IF k = L + 1 THEN T ELSE table[k]
  BY SMTT(60), <1>0, <1>1 DEF Filled
<1>3. c \in Rebuilds /\ c.at = "update" /\ c.heap = {}
  BY NoRebuildIs DEF Rebuilds
<1>4. /\ rebuild' \in [Readers -> Rebuilds]
      /\ \A u \in Readers : rebuild'[u] = IF u = t THEN c ELSE rebuild[u]
  BY <1>0, <1>3 DEF RebuildSwap
<1> HIDE DEF c
<1>5. /\ UNCHANGED <<call, rebuild_in_progress, clock, ncalls, destroyed>>
      /\ UNCHANGED <<guard, freed>> /\ data_ptr' = data_ptr + 1
  BY DEF RebuildSwap, Exchange
<1>6. \A u \in Readers : u # t => rebuild[u].at = "none"
  BY <1>0 DEF SetInv, OneRebuild
<1>7. SetTypes'
  BY <1>0, <1>2, <1>4, <1>5 DEF SetInv, SetTypes
<1>8. Guarded'
  BY <1>5 DEF SetInv, Guarded
<1>9. OneRebuild'
  BY <1>0, <1>3, <1>4, <1>5, <1>6 DEF SetInv, OneRebuild
<1>10. \A u \in Readers : call[u].at # "none" => Held(u) \in 1..L
  BY <1>0, Holds
<1>11. DOMAIN table' = 1 .. L + 1 /\ DOMAIN table = 1..L
  BY SMTT(60), <1>0, <1>2
<1>12. Stamped'
  <2>1. \A k \in DOMAIN table' : \A i \in 0..Capacity : Recent(table'[k].data[i], clock)
    BY SMTT(60), <1>0, <1>1, <1>2, <1>11 DEF SetInv, Stamped
  <2>2. \A u \in Readers : \A x \in rebuild'[u].heap : Recent(x.data, clock)
    BY <1>3, <1>4 DEF SetInv, Stamped
  <2> QED BY <1>5, <2>1, <2>2 DEF SetInv, Stamped
<1>13. Probed'
  <2>1. \A k \in DOMAIN table' : AllReached(table'[k])
    BY SMTT(60), <1>0, <1>1, <1>2, <1>11 DEF SetInv, Probed, Filled
  <2>2. \A u \in Readers : Held(u)' = Held(u)
    BY <1>5 DEF Held
  <2>3. \A u \in Readers : call[u].at # "none" => table'[Held(u)] = table[Held(u)]
    BY SMTT(60), <1>0, <1>2, <1>10
  <2> QED BY <1>5, <2>1, <2>2, <2>3 DEF SetInv, Probed
<1>14. Sized'
  <2>1. \A k : Inserting(k)' = Inserting(k)
    BY <1>5 DEF Inserting, Held
  <2>2. Inserting(L + 1) = {}
    BY SMTT(60), <1>0, <1>10 DEF Inserting
  <2>3. T.size = Cardinality(Used(T)) + Cardinality({})
    <3>1. Cardinality(Used(T)) \in Int /\ Cardinality({}) = 0 /\ T.size = Cardinality(Used(T))
      BY SMTT(60), <1>1, UsedFinite, FS_EmptySet DEF Filled
    <3> QED BY SMTT(60), <3>1
  <2>4. ASSUME NEW k \in 1 .. L + 1
        PROVE  table'[k].size = Cardinality(Used(table'[k])) + Cardinality(Inserting(k))
    <3>1. CASE k = L + 1
      BY <1>2, <2>2, <2>3, <3>1
    <3>2. CASE k # L + 1
      <4>1. k \in DOMAIN table /\ table'[k] = table[k]
        BY SMTT(60), <1>0, <1>2, <1>11, <3>2
      <4> QED BY <4>1 DEF SetInv, Sized
    <3> QED BY <3>1, <3>2
  <2> QED BY <1>11, <2>1, <2>4 DEF Sized
<1>15. Copied'
  <2>1. IsFiniteSet({}) /\ Cardinality({}) = 0 /\ Capacity \in Nat
    BY FS_EmptySet, SetAssumption
  <2>2. ASSUME NEW u \in Readers
        PROVE  LET e == rebuild'[u] IN
               /\ IsFiniteSet(e.heap) /\ Cardinality(e.heap) <= Capacity
               /\ \A y, z \in e.heap : y.key = z.key => y = z
               /\ e.at # "copy"
    <3>1. CASE u = t
      BY SMTT(60), <1>3, <1>4, <2>1, <3>1
    <3>2. CASE u # t
      BY <1>4, <1>6, <3>2 DEF SetInv, Copied
    <3> QED BY <3>1, <3>2
  <2> QED BY <2>2 DEF Copied
<1> QED BY <1>7, <1>8, <1>9, <1>12, <1>13, <1>14, <1>15 DEF SetInv

(* What is freed is held by no thread.                                     *)
LEMMA CollectSets ==
  ASSUME SetInv, RcuInv, RcuInv', NEW t \in Readers, RebuildCollect(t)
  PROVE  SetInv'
<1> DEFINE L == Len(table)  f == [k \in 1..L |-> IF k \in freed' THEN EmptyTable ELSE table[k]]
<1>0. /\ table \in Seq(SetTables) /\ L = data_ptr /\ L \in Nat /\ rebuild \in [Readers -> Rebuilds]
      /\ call \in [Readers -> Calls] /\ rebuild[t].at = "update" /\ DOMAIN table = 1..L
  BY SMTT(60) DEF RebuildCollect, SetInv, SetTypes
<1>1. /\ EmptyTable \in SetTables /\ AllReached(EmptyTable) /\ EmptyTable.size = 0
      /\ Used(EmptyTable) = {} /\ \A i \in 0..Capacity : EmptyTable.data[i] = Never
  <2>1. Filled(EmptyTable) /\ EmptyTable.size = 0
    BY EmptyIsFilled
  <2>2. Used(EmptyTable) = {} /\ \A i \in 0..Capacity : EmptyTable.data[i] = Never
    BY DEF EmptyTable, Used
  <2> QED BY <2>1, <2>2 DEF Filled
<1>2. /\ table' \in Seq(SetTables) /\ Len(table') = L
      /\ \A k \in 1..L : table'[k] = IF k \in freed' THEN EmptyTable ELSE table[k]
  <2>1. f \in Seq(SetTables) /\ Len(f) = L
    <3>1. f \in [1..L -> SetTables]
      BY SMTT(60), <1>0, <1>1
    <3> QED BY SMTT(60), <1>0, <3>1
  <2>2. \A k \in 1..L : f[k] = IF k \in freed' THEN EmptyTable ELSE table[k]
    OBVIOUS
  <2>3. table' = SubSeq(f, 1, L)
    BY <1>0 DEF RebuildCollect
  <2> HIDE DEF f
  <2>4. SubSeq(f, 1, L) \in Seq(SetTables) /\ Len(SubSeq(f, 1, L)) = L /\ \A k \in 1..L : SubSeq(f, 1, L)[k] = f[k]
    BY SMTT(60), <1>0, <2>1
  <2> QED BY <2>2, <2>3, <2>4
<1>3. /\ rebuild' \in [Readers -> Rebuilds]
      /\ \A u \in Readers : rebuild'[u] = IF u = t THEN NoRebuild ELSE rebuild[u]
  BY <1>0, NoRebuildIs DEF RebuildCollect
<1>5. /\ UNCHANGED <<call, clock, ncalls, destroyed>> /\ rebuild_in_progress' = FALSE
      /\ UNCHANGED <<guard, data_ptr>> /\ update' = NoUpdate
  BY DEF RebuildCollect, Collect
<1>6. \A u \in Readers : rebuild'[u].at = "none"
  BY <1>0, <1>3, NoRebuildIs DEF SetInv, OneRebuild
<1>7. SetTypes'
  BY <1>0, <1>2, <1>3, <1>5 DEF SetInv, SetTypes
<1>8. Guarded'
  BY <1>5 DEF SetInv, Guarded
<1>9. OneRebuild'
  BY <1>5, <1>6 DEF OneRebuild, NoUpdate
<1>10. ASSUME NEW u \in Readers, call[u].at # "none"
       PROVE  Held(u) \in 1..L /\ table'[Held(u)] = table[Held(u)] /\ Held(u) \notin freed'
  <2>1. HeldIsAlive'
    BY RcuSafe, PTL
  <2>2. guard[u].at = "held"
    BY <1>10 DEF SetInv, Guarded
  <2>3. Held(u) \notin freed'
    BY <1>5, <2>1, <2>2 DEF HeldIsAlive, Held
  <2> QED BY SMTT(60), <1>0, <1>2, <1>10, <2>3, Holds
<1>11. DOMAIN table' = 1..L
  BY SMTT(60), <1>2
<1>12. Stamped'
  <2>1. Recent(Never, clock)
    BY SMTT(60), SetAssumption DEF SetInv, SetTypes, Recent, Never
  <2>2. \A k \in DOMAIN table' : \A i \in 0..Capacity : Recent(table'[k].data[i], clock)
    BY <1>0, <1>1, <1>2, <1>11, <2>1 DEF SetInv, Stamped
  <2>3. \A u \in Readers : \A x \in rebuild'[u].heap : Recent(x.data, clock)
    BY <1>3, NoRebuildIs DEF SetInv, Stamped
  <2> QED BY <1>5, <2>2, <2>3 DEF SetInv, Stamped
<1>13. Probed'
  <2>1. \A k \in DOMAIN table' : AllReached(table'[k])
    BY <1>0, <1>1, <1>2, <1>11 DEF SetInv, Probed
  <2>2. \A u \in Readers : Held(u)' = Held(u)
    BY <1>5 DEF Held
  <2> QED BY <1>5, <1>10, <2>1, <2>2 DEF SetInv, Probed
<1>14. Sized'
  <2>1. \A k : Inserting(k)' = Inserting(k)
    BY <1>5 DEF Inserting, Held
  <2>2. ASSUME NEW k \in 1..L
        PROVE  table'[k].size = Cardinality(Used(table'[k])) + Cardinality(Inserting(k))
    <3>1. CASE k \in freed'
      <4>1. Inserting(k) = {}
        BY <1>10, <3>1 DEF Inserting
      <4>2. Cardinality({}) = 0
        BY FS_EmptySet
      <4>3. table'[k] = EmptyTable
        BY <1>2, <3>1
      <4> HIDE DEF L
      <4> QED BY SMTT(60), <1>1, <4>1, <4>2, <4>3
    <3>2. CASE k \notin freed'
      BY <1>0, <1>2, <3>2 DEF SetInv, Sized
    <3> QED BY <3>1, <3>2
  <2> QED BY SMTT(60), <1>11, <2>1, <2>2 DEF Sized
<1>15. Copied'
  <2>1. IsFiniteSet({}) /\ Cardinality({}) = 0 /\ Capacity \in Nat
    BY FS_EmptySet, SetAssumption
  <2>2. \A u \in Readers : rebuild'[u].heap \in {{}, rebuild[u].heap}
    BY <1>3, NoRebuildIs
  <2>3. ASSUME NEW u \in Readers
        PROVE  LET h == rebuild'[u].heap IN
               /\ IsFiniteSet(h) /\ Cardinality(h) <= Capacity
               /\ \A y, z \in h : y.key = z.key => y = z
    <3>1. /\ IsFiniteSet(rebuild[u].heap) /\ Cardinality(rebuild[u].heap) <= Capacity
          /\ \A y, z \in rebuild[u].heap : y.key = z.key => y = z
      BY DEF SetInv, Copied
    <3>2. CASE rebuild'[u].heap = {}
      BY SMTT(60), <2>1, <3>2
    <3>3. CASE rebuild'[u].heap = rebuild[u].heap
      BY <3>1, <3>3
    <3> QED BY <2>2, <3>2, <3>3
  <2> QED BY <1>6, <2>3 DEF Copied
<1> QED BY SMTT(60), <1>7, <1>8, <1>9, <1>12, <1>13, <1>14, <1>15 DEF SetInv

-----------------------------------------------------------------------------
LEMMA SetInitInv == Init => SetInv
<1> SUFFICES ASSUME Init PROVE SetInv
  OBVIOUS
<1>1. /\ EmptyTable \in SetTables /\ AllReached(EmptyTable) /\ EmptyTable.size = 0
      /\ Used(EmptyTable) = {} /\ \A i \in 0..Capacity : EmptyTable.data[i] = Never
  <2>1. Filled(EmptyTable) /\ EmptyTable.size = 0
    BY EmptyIsFilled
  <2>2. Used(EmptyTable) = {} /\ \A i \in 0..Capacity : EmptyTable.data[i] = Never
    BY DEF EmptyTable, Used
  <2> QED BY <2>1, <2>2 DEF Filled
<1>2. /\ table = <<EmptyTable>> /\ clock = Threshold /\ ~rebuild_in_progress /\ ~destroyed
      /\ rebuild_in_progress = FALSE /\ destroyed = FALSE
      /\ \A t \in Readers : call[t] = NoCall /\ rebuild[t] = NoRebuild
      /\ call = [t \in Readers |-> NoCall] /\ rebuild = [t \in Readers |-> NoRebuild]
  BY DEF Init
<1>3. data_ptr = 1 /\ update = NoUpdate /\ \A t \in Readers : guard[t] = NoGuard
  BY DEF Init, RcuInit
<1>4. NoCall.at = "none" /\ NoGuard.at # "held" /\ NoUpdate.at = "none"
  BY DEF NoCall, NoGuard, NoUpdate
<1>5. table \in Seq(SetTables) /\ Len(table) = 1 /\ DOMAIN table = 1..1 /\ table[1] = EmptyTable
  BY SMTT(60), <1>1, <1>2
<1>6. SetTypes
  <2>1. call \in [Readers -> Calls] /\ rebuild \in [Readers -> Rebuilds]
    BY <1>2, NoCallIs, NoRebuildIs
  <2>2. clock \in Threshold..MaxClock
    BY SMTT(60), <1>2, SetAssumption
  <2>3. rebuild_in_progress \in BOOLEAN /\ destroyed \in BOOLEAN
    BY <1>2
  <2> QED BY <1>3, <1>5, <2>1, <2>2, <2>3 DEF SetTypes
<1>7. Guarded
  BY <1>2, <1>3, <1>4 DEF Guarded
<1>8. OneRebuild
  BY <1>2, <1>3, <1>4, NoRebuildIs DEF OneRebuild
<1>9. Stamped
  <2>1. Recent(Never, clock)
    BY SMTT(60), <1>2, SetAssumption DEF Recent, Never
  <2> QED BY SMTT(60), <1>1, <1>2, <1>4, <1>5, <2>1, NoRebuildIs DEF Stamped
<1>10. Probed
  BY SMTT(60), <1>1, <1>2, <1>4, <1>5 DEF Probed
<1>11. Sized
  <2>1. Cardinality({}) = 0
    BY FS_EmptySet
  <2>2. Inserting(1) = {}
    BY <1>2, <1>4 DEF Inserting
  <2>3. EmptyTable.size = Cardinality(Used(EmptyTable)) + Cardinality(Inserting(1))
    BY SMTT(60), <1>1, <2>1, <2>2
  <2>4. \A k \in DOMAIN table : k = 1
    BY SMTT(60), <1>5
  <2> QED BY <1>5, <2>3, <2>4 DEF Sized
<1>12. Copied
  <2>1. IsFiniteSet({}) /\ Cardinality({}) = 0 /\ Capacity \in Nat
    BY FS_EmptySet, SetAssumption
  <2>2. \A t \in Readers : rebuild[t].heap = {} /\ rebuild[t].at # "copy"
    BY <1>2, NoRebuildIs
  <2>3. ASSUME NEW t \in Readers
        PROVE  LET h == rebuild[t].heap IN
               /\ IsFiniteSet(h) /\ Cardinality(h) <= Capacity
               /\ \A y, z \in h : y.key = z.key => y = z
    <3>1. rebuild[t].heap = {}
      BY <2>2
    <3> QED BY SMTT(60), <2>1, <3>1
  <2> QED BY <2>2, <2>3 DEF Copied
<1> QED BY SMTT(60), <1>6, <1>7, <1>8, <1>9, <1>10, <1>11, <1>12 DEF SetInv

LEMMA SetStep == SetInv /\ RcuInv /\ RcuInv' /\ [Next]_vars => SetInv'
<1> SUFFICES ASSUME SetInv, RcuInv, RcuInv', [Next]_vars PROVE SetInv'
  OBVIOUS
<1>1. CASE UNCHANGED vars
  <2>1. /\ UNCHANGED <<table, call, rebuild, rebuild_in_progress, clock, destroyed>>
        /\ UNCHANGED <<data_ptr, freed, guard, update>>
    BY <1>1 DEF vars, rcu_vars, set_vars
  <2> QED BY <2>1 DEF SetInv, SetTypes, Guarded, OneRebuild, Stamped, Probed, Sized, Copied, Inserting, Held
<1>2. CASE Tick
  BY <1>2, TickKeeps
<1>3. ASSUME NEW t \in Readers, Accessor(t)
      PROVE  SetInv'
  BY <1>3, AccessorKeeps
<1>4. ASSUME NEW t \in Readers, Hit(t)
      PROVE  SetInv'
  BY <1>4, AccessorKeeps, BracketKeeps, NowKeeps, FindKeeps, AddKeeps, TriggerKeeps, InsertKeeps,
     GiveBackKeeps, StampKeeps, LoadKeeps, ReportKeeps, TouchKeeps DEF Hit
<1>5. ASSUME NEW t \in Readers, Rebuild(t)
      PROVE  SetInv'
  BY <1>5, AccessorKeeps, CopyKeeps, SwapKeeps, CollectSets DEF Rebuild
<1> QED BY <1>1, <1>2, <1>3, <1>4, <1>5 DEF Next

(* What the invariant says of the types. *)
LEMMA SetTyped == SetInv /\ RcuInv => TypeOK
<1> SUFFICES ASSUME SetInv, RcuInv PROVE TypeOK
  OBVIOUS
<1>1. table \in Seq(SetTables) /\ Len(table) = data_ptr /\ clock \in Nat /\ clock <= MaxClock /\ MaxClock \in Nat
  BY SMTT(60), SetAssumption DEF SetInv, SetTypes
<1>2. DOMAIN table = 1..data_ptr
  BY SMTT(60), <1>1
<1>3. ASSUME NEW k \in DOMAIN table
      PROVE  table[k] \in Tables
  <2> DEFINE T == table[k]
  <2>1. T \in SetTables
    BY SMTT(60), <1>1
  <2>2. \A i \in 0..Capacity : T.data[i] \in Entries
    <3> TAKE i \in 0..Capacity
    <3>1. T.data[i] \in Stamps /\ Recent(T.data[i], clock)
      BY <2>1 DEF SetTables, SetInv, Stamped
    <3> DEFINE d == T.data[i]
    <3>2. d \in Stamps /\ d.accessed \in 0..MaxClock /\ d.reported \in 0..MaxClock
      BY SMTT(60), <1>1, <3>1 DEF Stamps, Recent
    <3> HIDE DEF d
    <3>3. d \in Entries
      BY <3>2 DEF Entries, Stamps
    <3> QED BY <3>3 DEF d
  <2>3. T.size \in 0 .. Capacity + Cardinality(Readers)
    <3>1. T.size = Cardinality(Used(T)) + Cardinality(Inserting(k))
      BY DEF SetInv, Sized
    <3>2. Cardinality(Used(T)) \in 0..Capacity /\ Cardinality(Inserting(k)) \in Nat /\ Capacity \in Nat
      BY UsedFinite, InsertingFinite, SetAssumption
    <3>3. Cardinality(Inserting(k)) <= Cardinality(Readers) /\ Cardinality(Readers) \in Nat
      <4>1. Inserting(k) \subseteq Readers
        BY DEF Inserting
      <4> QED BY <4>1, FS_Subset, FS_CardinalityType, SetAssumption
    <3> QED BY SMTT(60), <3>1, <3>2, <3>3
  <2>4. T.data \in [0..Capacity -> Entries]
    BY <2>1, <2>2 DEF SetTables
  <2> QED BY <2>1, <2>3, <2>4 DEF SetTables, Tables
<1>4. \A t \in Readers : call[t].at \in {"add", "trigger", "insert", "stamp"} => call[t].slot \in Slots
  BY DEF SetInv, Probed
<1>5. /\ \A t \in Readers : call[t].at # "none" <=> guard[t].at = "held"
      /\ rebuild_in_progress \in BOOLEAN /\ destroyed \in BOOLEAN /\ clock \in Threshold..MaxClock
  BY DEF SetInv, SetTypes, Guarded
<1> QED BY <1>2, <1>3, <1>4, <1>5 DEF TypeOK

LEMMA SetConsistent == SetInv /\ RcuInv => TableConsistent
<1> SUFFICES ASSUME SetInv, RcuInv, NEW k \in DOMAIN table
             PROVE  /\ \A i, j \in Used(table[k]) : table[k].key[i] = table[k].key[j] => i = j
                    /\ table[k].size = Cardinality(Used(table[k])) + Cardinality(Inserting(k))
  BY SetTyped DEF TableConsistent, Used
<1>1. table[k] \in SetTables /\ AllReached(table[k])
  BY SMTT(60) DEF SetInv, SetTypes, Probed
<1>2. ASSUME NEW i \in Used(table[k]), NEW j \in Used(table[k]), table[k].key[i] = table[k].key[j]
      PROVE  i = j
  <2> DEFINE n == table[k].key[i]
  <2>1. i \in Slots /\ j \in Slots /\ n \in Nat \ {0} /\ Reached(table[k], n, i)
    BY <1>1 DEF AllReached, Used, SetTables
  <2> QED BY <1>1, <1>2, <2>1, KeysOnce
<1> QED BY <1>2 DEF SetInv, Sized

LEMMA SetHolds == Spec => [](SetInv /\ RcuInv)
<1>1. Spec => []RcuInv
  BY SetUsesRcu, RcuInitInv, RcuStep, PTL DEF RcuSpec
<1> QED BY <1>1, SetInitInv, SetStep, PTL DEF Spec

(* a comment *)
THEOREM SetIsConsistent == Spec => []TableConsistent
  BY SetHolds, SetConsistent, PTL

(* sampler.hpp, rebuild_table: the thread has no read guard, yet the table it *)
(* copies from is not freed before it is through.                          *)
THEOREM RebuildIsSafe == Spec => []RebuildReadsAlive
<1>1. SetInv => RebuildReadsAlive
  BY DEF SetInv, OneRebuild, RebuildReadsAlive
<1> QED BY <1>1, SetHolds, PTL

-----------------------------------------------------------------------------
(* A step that leaves the entries alone and answers nobody. *)
LEMMA QuietStep ==
  ASSUME \A k \in DOMAIN table \ freed' : \A i \in 0..Capacity : table'[k].data[i] = table[k].data[i],
         \A u \in Readers : ~Answers(u)
  PROVE  AccessStep
  BY DEF AccessStep

LEMMA NoAnswer ==
  ASSUME SetInv, NEW t \in Readers, NEW c, call' = [call EXCEPT ![t] = c],
         c.at # "return" \/ ~c.hit
  PROVE  \A u \in Readers : ~Answers(u)
<1>1. call \in [Readers -> Calls]
  BY DEF SetInv, SetTypes
<1>2. \A u \in Readers : call'[u] = IF u = t THEN c ELSE call[u]
  BY <1>1
<1> QED BY <1>2 DEF Answers

LEMMA WriteStep ==
  ASSUME SetInv, RcuInv, NEW t \in Readers, call[t].at \in {"stamp", "report", "touch"},
         NEW d \in Stamps, SetEntry(t, d), NEW r \in BOOLEAN, Return(t, r),
         Entry(t).accessed < d.accessed, r => d = Report(t)
  PROVE  AccessStep
<1> DEFINE h == Held(t)  s == call[t].slot
<1>1. PICK T \in SetTables :
        /\ TableIs(h, T)
        /\ \A i \in 0..Capacity : T.data[i] = IF i = s THEN d ELSE table[h].data[i]
  BY EntrySet
<1>2. /\ h \in 1..Len(table) /\ s \in 0..Capacity /\ DOMAIN table = 1..Len(table)
      /\ call \in [Readers -> Calls]
  BY SMTT(60), Holds DEF SetInv, SetTypes, Calls
<1>3. Entry(t) = table[h].data[s] /\ d # Entry(t)
  BY SMTT(60) DEF Entry, Stamps
<1>4. \A u \in Readers : Answers(u) => u = t /\ r
  <2> DEFINE c == [NoCall EXCEPT !.at = "return", !.hit = r]
  <2>1. c.hit = r
    BY Returning
  <2>2. call' = [call EXCEPT ![t] = c]
    BY DEF Return
  <2> HIDE DEF c
  <2>3. \A u \in Readers : call'[u] = IF u = t THEN c ELSE call[u]
    BY <1>2, <2>2
  <2> QED BY <2>1, <2>3 DEF Answers
<1>5. ASSUME NEW k \in DOMAIN table, NEW i \in 0..Capacity
      PROVE  table'[k].data[i] = IF k = h /\ i = s THEN d ELSE table[k].data[i]
  BY <1>1, <1>2 DEF TableIs
<1> HIDE DEF h, s
<1>6. ASSUME NEW k \in DOMAIN table, NEW i \in 0..Capacity
      PROVE  LET old == table[k].data[i]
                 new == table'[k].data[i]
             IN  /\ new # old => old.accessed < new.accessed
                 /\ \A u \in Readers : Answers(u) /\ Held(u) = k /\ call[u].slot = i =>
                      new # old /\ new = Report(u)
  <2>1. CASE k = h /\ i = s
    <3>1. table'[k].data[i] = d /\ table[k].data[i] = Entry(t)
      BY <1>3, <1>5, <2>1
    <3> QED BY <1>3, <1>4, <3>1
  <2>2. CASE ~(k = h /\ i = s)
    <3>1. table'[k].data[i] = table[k].data[i]
      BY <1>5, <2>2
    <3> QED BY <1>4, <2>2, <3>1 DEF h, s
  <2> QED BY <2>1, <2>2
<1> QED BY <1>6 DEF AccessStep

LEMMA EntriesMove == SetInv /\ RcuInv /\ RcuInv' /\ [Next]_vars => [AccessStep]_vars
<1> SUFFICES ASSUME SetInv, RcuInv, RcuInv', Next PROVE AccessStep
  OBVIOUS
<1>0. /\ table \in Seq(SetTables) /\ DOMAIN table = 1..Len(table) /\ call \in [Readers -> Calls]
  BY SMTT(60) DEF SetInv, SetTypes
<1>1. CASE UNCHANGED <<table, call>>
  BY <1>1, QuietStep DEF Answers
<1>2. ASSUME NEW t \in Readers, HitStamp(t)
      PROVE  AccessStep
  <2>1. call[t].at = "stamp" /\ Return(t, Entry(t) = Never)
    BY <1>2 DEF HitStamp
  <2>2. CASE Entry(t) = Never
    <3>1. SetEntry(t, Report(t)) /\ Return(t, TRUE)
      <4>1. (Entry(t) = Never) = TRUE
        BY <2>2
      <4> QED BY <1>2, <2>1, <2>2, <4>1 DEF HitStamp
    <3>2. Report(t) \in Stamps /\ Never.accessed < Report(t).accessed
      BY SMTT(60), <2>1, EntryFacts DEF Never, Report
    <3> QED BY <2>1, <2>2, <3>1, <3>2, WriteStep
  <2>3. CASE Entry(t) # Never
    <3>1. UNCHANGED table
      BY <1>2, <2>3 DEF HitStamp
    <3>2. Return(t, FALSE)
      <4>1. (Entry(t) = Never) = FALSE
        BY <2>3
      <4> QED BY <2>1, <4>1
    <3> QED BY <3>1, <3>2, NoAnswer, Returning, QuietStep DEF Return
  <2> QED BY <2>2, <2>3
<1>3. ASSUME NEW t \in Readers, HitReport(t)
      PROVE  AccessStep
  <2>1. call[t].at = "report" /\ call[t].cur.accessed < call[t].now
    BY <1>3 DEF HitReport, SetInv, Stamped
  <2>2. CASE Entry(t) = call[t].cur /\ SetEntry(t, Report(t)) /\ Return(t, TRUE)
    <3>1. Report(t) \in Stamps /\ Entry(t).accessed < Report(t).accessed
      BY <2>1, <2>2, EntryFacts DEF Report
    <3> QED BY <2>1, <2>2, <3>1, WriteStep
  <2>3. CASE UNCHANGED table /\ Return(t, FALSE)
    BY <2>3, NoAnswer, Returning, QuietStep DEF Return
  <2>4. CASE UNCHANGED table /\ call' = [call EXCEPT ![t].cur = Entry(t)]
    <3>1. \A u \in Readers : call'[u].at = call[u].at
      BY <1>0, <2>4 DEF Calls
    <3> QED BY <2>4, <3>1, QuietStep DEF Answers
  <2> QED BY <1>3, <2>2, <2>3, <2>4 DEF HitReport
<1>4. ASSUME NEW t \in Readers, HitTouch(t)
      PROVE  AccessStep
  <2>1. call[t].at = "touch" /\ call[t].cur.accessed < call[t].now
    BY <1>4 DEF HitTouch, SetInv, Stamped
  <2>2. CASE Entry(t) = call[t].cur /\ SetEntry(t, Touched(t)) /\ Return(t, FALSE)
    <3>1. Touched(t) \in Stamps /\ Entry(t).accessed < Touched(t).accessed
      <4>1. call[t].now \in Nat /\ call[t].keep \in Int /\ 0 <= call[t].keep
        BY <2>1, EntryFacts DEF Calls, SetInv, Stamped
      <4> QED BY SMTT(60), <2>1, <2>2, <4>1 DEF Touched, Stamps
    <3> QED BY <2>1, <2>2, <3>1, WriteStep
  <2>3. CASE UNCHANGED table /\ Return(t, FALSE)
    BY <2>3, NoAnswer, Returning, QuietStep DEF Return
  <2>4. CASE UNCHANGED table /\ call' = [call EXCEPT ![t].cur = Entry(t)]
    <3>1. \A u \in Readers : call'[u].at = call[u].at
      BY SMTT(60), <1>0, <2>4 DEF Calls
    <3> QED BY SMTT(60), <2>4, <3>1, QuietStep DEF Answers
  <2> QED BY <1>4, <2>2, <2>3, <2>4 DEF HitTouch
<1>5. ASSUME NEW t \in Readers, HitLoad(t)
      PROVE  AccessStep
  <2>1. UNCHANGED table
    BY <1>5 DEF HitLoad
  <2>2. CASE Return(t, FALSE)
    BY <2>1, <2>2, NoAnswer, Returning, QuietStep DEF Return
  <2>3. CASE call' = [call EXCEPT ![t].at = "report", ![t].cur = Entry(t)]
    <3>1. \A u \in Readers : call'[u].at \in {call[u].at, "report"}
      BY <1>0, <2>3 DEF Calls
    <3> QED BY <2>1, <3>1, QuietStep DEF Answers
  <2>4. CASE call' = [call EXCEPT ![t].at = "touch", ![t].cur = Entry(t), ![t].keep = Entry(t).reported]
    <3>1. \A u \in Readers : call'[u].at \in {call[u].at, "touch"}
      BY SMTT(60), <1>0, <2>4 DEF Calls
    <3> QED BY <2>1, <3>1, QuietStep DEF Answers
  <2> QED BY <1>5, <2>2, <2>3, <2>4 DEF HitLoad
<1>6. ASSUME NEW t \in Readers, HitGiveBack(t)
      PROVE  AccessStep
  <2>1. call[t].at \in {"full", "other"} /\ AddSize(t, -1) /\ -1 \in Int
    BY SMTT(60), <1>6 DEF HitGiveBack
  <2>2. PICK T \in SetTables : TableIs(Held(t), T) /\ T.data = table[Held(t)].data
    BY <2>1, SizeAdded
  <2>3. \A k \in DOMAIN table : table'[k].data = table[k].data
    BY <1>0, <2>2 DEF TableIs
  <2>4. CASE Return(t, FALSE)
    BY <2>3, <2>4, NoAnswer, Returning, QuietStep DEF Return
  <2>5. CASE Goto(t, "find")
    <3>1. \A u \in Readers : call'[u].at \in {call[u].at, "find"}
      BY <1>0, <2>5 DEF Calls, Goto
    <3> QED BY <2>3, <3>1, QuietStep DEF Answers
  <2> QED BY <1>6, <2>4, <2>5 DEF HitGiveBack
<1>7. ASSUME NEW t \in Readers, HitAdd(t)
      PROVE  AccessStep
  <2>1. call[t].at = "add" /\ AddSize(t, 1) /\ 1 \in Int
    BY SMTT(60), <1>7 DEF HitAdd
  <2>2. PICK T \in SetTables : TableIs(Held(t), T) /\ T.data = table[Held(t)].data
    BY <2>1, SizeAdded
  <2>3. \A k \in DOMAIN table : table'[k].data = table[k].data
    BY SMTT(60), <1>0, <2>2 DEF TableIs
  <2>4. \A u \in Readers : call'[u].at \in {call[u].at, "trigger", "insert"}
    BY SMTT(60), <1>0, <1>7 DEF Calls, HitAdd
  <2> QED BY <2>3, <2>4, QuietStep DEF Answers
<1>8. ASSUME NEW t \in Readers, HitInsert(t)
      PROVE  AccessStep
  <2>1. \A u \in Readers : call'[u].at \in {call[u].at, "stamp", "full", "other"}
    BY SMTT(60), <1>0, <1>8 DEF Calls, HitInsert, Goto
  <2>2. \A k \in DOMAIN table : table'[k].data = table[k].data
    <3>1. CASE UNCHANGED table
      BY <3>1
    <3>2. CASE table' = [table EXCEPT ![Held(t)].key[call[t].slot] = call[t].number]
      BY SMTT(60), <1>0, <3>2 DEF SetTables
    <3> QED BY <1>8, <3>1, <3>2 DEF HitInsert
  <2> QED BY <2>1, <2>2, QuietStep DEF Answers
<1>9. ASSUME NEW t \in Readers, HitGuarded(t) \/ HitNow(t) \/ HitFind(t) \/ HitTrigger(t) \/ HitReturn(t)
      PROVE  AccessStep
  <2>1. UNCHANGED table
    BY <1>9 DEF HitGuarded, HitNow, HitFind, HitTrigger, HitReturn
  <2>2. CASE HitGuarded(t) \/ HitFind(t) \/ HitTrigger(t)
    <3>1. \A u \in Readers : call'[u].at = call[u].at \/ call'[u].at # "return"
      BY <1>0, <2>2 DEF Calls, HitGuarded, HitFind, HitTrigger, Goto
    <3> QED BY <2>1, <3>1, QuietStep DEF Answers
  <2>3. CASE HitNow(t)
    <3>1. \A u \in Readers : call'[u].at = call[u].at \/ call'[u].at # "return"
      BY <1>0, <2>3 DEF Calls, HitNow
    <3> QED BY SMTT(60), <2>1, <3>1, QuietStep DEF Answers
  <2>4. CASE HitReturn(t)
    <3>1. NoCall.at # "return" /\ call' = [call EXCEPT ![t] = NoCall]
      BY <2>4 DEF HitReturn, NoCall
    <3> QED BY <2>1, <3>1, NoAnswer, QuietStep
  <2> QED BY <1>9, <2>2, <2>3, <2>4
<1>10. ASSUME NEW t \in Readers, RebuildSwap(t) \/ RebuildCollect(t)
       PROVE  AccessStep
  <2>1. \A u \in Readers : ~Answers(u)
    BY <1>10 DEF RebuildSwap, RebuildCollect, Answers
  <2>2. CASE RebuildSwap(t)
    <3>1. PICK T : table' = Append(table, T)
      BY <2>2 DEF RebuildSwap
    <3>2. \A k \in DOMAIN table : table'[k] = table[k]
      BY SMTT(60), <1>0, <3>1
    <3> QED BY <2>1, <3>2, QuietStep
  <2>3. CASE RebuildCollect(t)
    <3> DEFINE L == Len(table)  f == [k \in 1..L |-> IF k \in freed' THEN EmptyTable ELSE table[k]]
    <3>1. table' = SubSeq(f, 1, L) /\ L \in Nat
      BY SMTT(60), <1>0, <2>3 DEF RebuildCollect
    <3>2. EmptyTable \in SetTables
      BY EmptyIsFilled DEF Filled
    <3>3. f \in Seq(SetTables) /\ Len(f) = L /\ \A k \in 1..L : k \notin freed' => f[k] = table[k]
      <4>1. f \in [1..L -> SetTables]
        BY SMTT(60), <1>0, <3>2
      <4> QED BY SMTT(60), <3>1, <4>1
    <3> HIDE DEF f
    <3>4. \A k \in 1..L : SubSeq(f, 1, L)[k] = f[k]
      BY SMTT(60), <3>1, <3>3
    <3>5. \A k \in DOMAIN table \ freed' : table'[k] = table[k]
      BY <1>0, <3>1, <3>3, <3>4
    <3> QED BY <2>1, <3>5, QuietStep
  <2> QED BY <1>10, <2>2, <2>3
<1>11. ASSUME Tick \/ \E t \in Readers : Accessor(t) \/ HitBegin(t) \/ HitPublish(t) \/ RebuildCopy(t) \/ RebuildUpdate(t)
       PROVE  UNCHANGED <<table, call>>
  BY <1>11 DEF Tick, Accessor, HitBegin, HitPublish, RebuildCopy, RebuildUpdate, set_vars
<1> QED BY SMTT(60), <1>1, <1>2, <1>3, <1>4, <1>5, <1>6, <1>7, <1>8, <1>9, <1>10, <1>11 DEF Next, Hit, Rebuild

(* sampler.hpp, table_accessor::hit: whatever compare-exchanges race and are *)
(* retried, an entry's last access only moves on, and a call that answers yes *)
(* has written its own time, later than what was there.                    *)
THEOREM EntriesMoveOn == Spec => AccessMovesOn
<1>1. SetInv /\ RcuInv /\ (SetInv /\ RcuInv)' /\ [Next]_vars => [AccessStep]_vars
  BY EntriesMove
<1> QED BY <1>1, SetHolds, PTL DEF Spec, AccessMovesOn
=============================================================================
