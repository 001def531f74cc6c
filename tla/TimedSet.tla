------------------------------ MODULE TimedSet ------------------------------
(***************************************************************************)
(* timed_set of appsec/src/helper/sampler.hpp: has this number not been    *)
(* reported for a while?  A hash table without locks: worker threads       *)
(* insert keys and stamp entries with compare-exchange, and when the table *)
(* fills up one of them starts a thread that copies the recent entries     *)
(* into a new table and publishes it through the pointer of Rcu.           *)
(*                                                                         *)
(* Every atomic access of a call is a step.  find_slot is one: the keys it *)
(* passes never change again, so it takes effect at its last load; so is   *)
(* the copy of a slot.  The clock counts from Threshold, as time_bias      *)
(* makes it.                                                               *)
(***************************************************************************)
EXTENDS Rcu, FiniteSets, FiniteSetsExt

CONSTANTS
    Numbers,    \* what hit is called with
    Capacity,   \* slots of a table, and one more behind them
    MaxItems,   \* entries above which a table is rebuilt
    Threshold,  \* seconds
    MaxCalls, MaxClock   \* bounds: calls of hit, time

ASSUME SetAssumption ==
    /\ IsFiniteSet(Readers)
    /\ Numbers \subseteq Nat \ {0}
    /\ Capacity \in Nat \ {0} /\ MaxItems \in Nat \ {0} /\ Threshold \in Nat \ {0}
    /\ MaxCalls \in Nat /\ MaxClock \in Nat /\ Threshold <= MaxClock

VARIABLES
    table,      \* the tables, in the order they were published
    call,       \* each thread's call of hit: its step and locals
    rebuild,    \* each thread's rebuild thread: its step and locals
    rebuild_in_progress,
    clock, ncalls,
    destroyed   \* the destructor is through

set_vars == <<table, call, rebuild, rebuild_in_progress, clock, ncalls, destroyed>>
vars == <<rcu_vars, set_vars>>

Slots == 0 .. Capacity - 1
Never == [accessed |-> 0, reported |-> 0]
EmptyTable == [key |-> [i \in Slots |-> 0], data |-> [i \in 0..Capacity |-> Never], size |-> 0]
NoCall == [at |-> "none", number |-> 0, now |-> 0, slot |-> 0, cur |-> Never, keep |-> 0, hit |-> FALSE]
NoRebuild == [at |-> "none", table |-> 0, threshold |-> 0, slot |-> 0, heap |-> {}]

Init ==
    /\ RcuInit
    /\ table = <<EmptyTable>>
    /\ call = [t \in Readers |-> NoCall]
    /\ rebuild = [t \in Readers |-> NoRebuild]
    /\ rebuild_in_progress = FALSE
    /\ clock = Threshold /\ ncalls = 0
    /\ destroyed = FALSE

(* find_slot: linear probing; a full table gives the slot behind the others *)
Probe(n, i) == (n + i) % Capacity
FindSlot(tab, n) ==
    LET stops == {i \in Slots : tab.key[Probe(n, i)] \in {n, 0}}
    IN  IF stops = {} THEN Capacity ELSE Probe(n, Min(stops))

Exists(tab, n) == LET s == FindSlot(tab, n) IN s = Capacity \/ tab.key[s] = n

-----------------------------------------------------------------------------
(* table_accessor::hit and timed_set::hit *)
Held(t) == guard[t].data
Entry(t) == table[Held(t)].data[call[t].slot]
Report(t) == [accessed |-> call[t].now, reported |-> call[t].now]

Goto(t, l) == call' = [call EXCEPT ![t].at = l]
Return(t, result) == call' = [call EXCEPT ![t] = [NoCall EXCEPT !.at = "return", !.hit = result]]
SetEntry(t, d) == table' = [table EXCEPT ![Held(t)].data[call[t].slot] = d]
AddSize(t, n) == table' = [table EXCEPT ![Held(t)].size = @ + n]

HitBegin(t) ==
    /\ ncalls < MaxCalls /\ ncalls' = ncalls + 1
    /\ LoadGeneration(t)
    /\ UNCHANGED <<table, call, rebuild, rebuild_in_progress, clock, destroyed>>

HitPublish(t) == PublishGeneration(t) /\ UNCHANGED set_vars

HitGuarded(t) ==
    /\ LoadData(t)
    /\ Goto(t, "now")
    /\ UNCHANGED <<table, rebuild, rebuild_in_progress, clock, ncalls, destroyed>>

HitNow(t) ==
    /\ call[t].at = "now"
    /\ \E n \in Numbers : call' = [call EXCEPT ![t] = [@ EXCEPT !.at = "find", !.number = n, !.now = clock]]
    /\ UNCHANGED <<rcu_vars, table, rebuild, rebuild_in_progress, clock, ncalls, destroyed>>

HitFind(t) ==
    /\ call[t].at = "find"
    /\ LET tab == table[Held(t)]
       IN  call' = [call EXCEPT ![t].slot = FindSlot(tab, call[t].number),
                                ![t].at = IF Exists(tab, call[t].number) THEN "load" ELSE "add"]
    /\ UNCHANGED <<rcu_vars, table, rebuild, rebuild_in_progress, clock, ncalls, destroyed>>

(* keep: old_size *)
HitAdd(t) ==
    /\ call[t].at = "add"
    /\ AddSize(t, 1)
    /\ LET old == table[Held(t)].size
       IN  call' = [call EXCEPT ![t].at = IF old >= MaxItems THEN "trigger" ELSE "insert",
                                ![t].keep = IF old >= MaxItems THEN old ELSE 0]
    /\ UNCHANGED <<rcu_vars, rebuild, rebuild_in_progress, clock, ncalls, destroyed>>

NewRebuild(t) ==
    [at |-> "copy", table |-> Held(t), threshold |-> call[t].now - Threshold, slot |-> 0, heap |-> {}]

(* mutant: the flag is set without looking at it *)
TriggerAlways(t) ==
    /\ call[t].at = "trigger"
    /\ rebuild_in_progress' = TRUE
    /\ rebuild[t].at = "none" /\ rebuild' = [rebuild EXCEPT ![t] = NewRebuild(t)]
    /\ call' = [call EXCEPT ![t].at = IF call[t].keep >= Capacity THEN "full" ELSE "insert",
                            ![t].keep = 0]
    /\ UNCHANGED <<rcu_vars, table, clock, ncalls, destroyed>>

HitTrigger(t) ==
    /\ call[t].at = "trigger"
    /\ IF rebuild_in_progress
       THEN UNCHANGED <<rebuild, rebuild_in_progress>>
       ELSE /\ rebuild_in_progress' = TRUE
            /\ rebuild' = [rebuild EXCEPT ![t] = NewRebuild(t)]
    /\ call' = [call EXCEPT ![t].at = IF call[t].keep >= Capacity THEN "full" ELSE "insert",
                            ![t].keep = 0]
    /\ UNCHANGED <<rcu_vars, table, clock, ncalls, destroyed>>

HitInsert(t) ==
    /\ call[t].at = "insert"
    /\ LET key == table[Held(t)].key[call[t].slot] IN
       \/ /\ key = 0
          /\ table' = [table EXCEPT ![Held(t)].key[call[t].slot] = call[t].number]
          /\ Goto(t, "stamp")
       \/ /\ key # 0
          /\ Goto(t, IF key = call[t].number THEN "full" ELSE "other")
          /\ UNCHANGED table
    /\ UNCHANGED <<rcu_vars, rebuild, rebuild_in_progress, clock, ncalls, destroyed>>

(* mutant: the size keeps counting an insertion that failed *)
ForgetSize(t) ==
    /\ call[t].at \in {"full", "other"}
    /\ IF call[t].at = "full" THEN Return(t, FALSE) ELSE Goto(t, "find")
    /\ UNCHANGED <<rcu_vars, table, rebuild, rebuild_in_progress, clock, ncalls, destroyed>>

HitGiveBack(t) ==
    /\ call[t].at \in {"full", "other"}
    /\ AddSize(t, -1)
    /\ IF call[t].at = "full" THEN Return(t, FALSE) ELSE Goto(t, "find")
    /\ UNCHANGED <<rcu_vars, rebuild, rebuild_in_progress, clock, ncalls, destroyed>>

(* the entry is new: another thread may have stamped it already *)
HitStamp(t) ==
    /\ call[t].at = "stamp"
    /\ IF Entry(t) = Never THEN SetEntry(t, Report(t)) ELSE UNCHANGED table
    /\ Return(t, Entry(t) = Never)
    /\ UNCHANGED <<rcu_vars, rebuild, rebuild_in_progress, clock, ncalls, destroyed>>

(* the number is there.  keep: the last_reported of desired_data *)
HitLoad(t) ==
    /\ call[t].at = "load"
    /\ LET d == Entry(t) IN
       \/ /\ d.reported <= call[t].now - Threshold
          /\ call' = [call EXCEPT ![t].at = "report", ![t].cur = d]
       \/ /\ d.reported > call[t].now - Threshold /\ d.accessed < call[t].now
          /\ call' = [call EXCEPT ![t].at = "touch", ![t].cur = d, ![t].keep = d.reported]
       \/ /\ d.reported > call[t].now - Threshold /\ d.accessed >= call[t].now
          /\ Return(t, FALSE)
    /\ UNCHANGED <<rcu_vars, table, rebuild, rebuild_in_progress, clock, ncalls, destroyed>>

HitReport(t) ==
    /\ call[t].at = "report"
    /\ LET d == Entry(t) IN
       \/ /\ d = call[t].cur
          /\ SetEntry(t, Report(t))
          /\ Return(t, TRUE)
       \/ /\ d # call[t].cur
          /\ IF d.accessed = d.reported \/ d.accessed >= call[t].now
             THEN Return(t, FALSE)
             ELSE call' = [call EXCEPT ![t].cur = d]
          /\ UNCHANGED table
    /\ UNCHANGED <<rcu_vars, rebuild, rebuild_in_progress, clock, ncalls, destroyed>>

Touched(t) == [accessed |-> call[t].now, reported |-> call[t].keep]

(* mutant: the plain store the code's comment calls slightly inaccurate *)
TouchStore(t) ==
    /\ call[t].at = "touch"
    /\ SetEntry(t, Touched(t))
    /\ Return(t, FALSE)
    /\ UNCHANGED <<rcu_vars, rebuild, rebuild_in_progress, clock, ncalls, destroyed>>

HitTouch(t) ==
    /\ call[t].at = "touch"
    /\ LET d == Entry(t) IN
       \/ /\ d = call[t].cur
          /\ SetEntry(t, Touched(t))
          /\ Return(t, FALSE)
       \/ /\ d # call[t].cur
          /\ IF d.accessed >= call[t].now
             THEN Return(t, FALSE)
             ELSE call' = [call EXCEPT ![t].cur = d]
          /\ UNCHANGED table
    /\ UNCHANGED <<rcu_vars, rebuild, rebuild_in_progress, clock, ncalls, destroyed>>

HitReturn(t) ==
    /\ call[t].at = "return"
    /\ Release(t)
    /\ call' = [call EXCEPT ![t] = NoCall]
    /\ UNCHANGED <<table, rebuild, rebuild_in_progress, clock, ncalls, destroyed>>

-----------------------------------------------------------------------------
(* rebuild_table, run by a thread of its own, without a guard *)
RebuildCopy(t) ==
    /\ rebuild[t].at = "copy"
    /\ LET b == rebuild[t]
           key == table[b.table].key[b.slot]
           d == table[b.table].data[b.slot]
       IN  rebuild' = [rebuild EXCEPT ![t] =
             [b EXCEPT !.heap = IF key # 0 /\ d.reported >= b.threshold
                                THEN @ \cup {[key |-> key, data |-> d]} ELSE @,
                       !.slot = IF @ < Capacity - 1 THEN @ + 1 ELSE 0,
                       !.at = IF b.slot < Capacity - 1 THEN @ ELSE "swap"]]
    /\ UNCHANGED <<rcu_vars, table, call, rebuild_in_progress, clock, ncalls, destroyed>>

(* the most recently accessed entries, up to two thirds of MaxItems *)
Kept(heap) ==
    {kept \in SUBSET heap :
        /\ Cardinality(kept) = Min({Cardinality(heap), (MaxItems * 2) \div 3})
        /\ \A x \in kept, y \in heap \ kept : x.data.accessed >= y.data.accessed}

(* what the heap gives out, the most recently accessed first *)
Orders(kept) ==
    {order \in [1..Cardinality(kept) -> kept] :
        \A i, j \in DOMAIN order :
            i < j => order[i] # order[j] /\ order[i].data.accessed >= order[j].data.accessed}

Put(tab, x) ==
    LET s == FindSlot(tab, x.key)
    IN  [tab EXCEPT !.key[s] = x.key, !.data[s] = x.data, !.size = @ + 1]

(* the new table, filled in this order *)
NewTable(order) ==
    LET put[i \in 0..Len(order)] == IF i = 0 THEN EmptyTable ELSE Put(put[i - 1], order[i])
    IN  put[Len(order)]

RebuildSwap(t) ==
    /\ rebuild[t].at = "swap"
    /\ Exchange
    /\ \E kept \in Kept(rebuild[t].heap) : \E order \in Orders(kept) :
         table' = Append(table, NewTable(order))
    /\ rebuild' = [rebuild EXCEPT ![t] = [NoRebuild EXCEPT !.at = "update"]]
    /\ UNCHANGED <<call, rebuild_in_progress, clock, ncalls, destroyed>>

RebuildUpdate(t) ==
    /\ rebuild[t].at = "update"
    /\ Increment \/ \E r \in Readers : LookAt(r)
    /\ UNCHANGED set_vars

(* what was freed is blank from here on, and the next rebuild can start *)
RebuildCollect(t) ==
    /\ rebuild[t].at = "update"
    /\ Collect
    /\ table' = SubSeq([k \in DOMAIN table |-> IF k \in freed' THEN EmptyTable ELSE table[k]], 1, Len(table))
    /\ rebuild' = [rebuild EXCEPT ![t] = NoRebuild]
    /\ rebuild_in_progress' = FALSE
    /\ UNCHANGED <<call, clock, ncalls, destroyed>>

-----------------------------------------------------------------------------
(* client::set_service creates and destroys the accessors; a bound: they   *)
(* stay until the calls are over                                           *)
Accessor(t) ==
    /\ (Register(t) /\ ncalls < MaxCalls) \/ (Unregister(t) /\ ncalls = MaxCalls)
    /\ UNCHANGED set_vars

Tick ==
    /\ clock < MaxClock
    /\ clock' = clock + 1
    /\ UNCHANGED <<rcu_vars, table, call, rebuild, rebuild_in_progress, ncalls, destroyed>>

(* ~timed_set, once no accessor is left *)
Destroy ==
    /\ thread_states = {} /\ ~destroyed
    /\ IF rebuild_in_progress
       THEN destroyed' = TRUE /\ UNCHANGED rebuild_in_progress
       ELSE rebuild_in_progress' = TRUE /\ UNCHANGED destroyed
    /\ UNCHANGED <<rcu_vars, table, call, rebuild, clock, ncalls>>

Hit(t) ==
    \/ HitBegin(t) \/ HitPublish(t) \/ HitGuarded(t) \/ HitNow(t) \/ HitFind(t)
    \/ HitAdd(t) \/ HitTrigger(t) \/ HitInsert(t) \/ HitGiveBack(t) \/ HitStamp(t)
    \/ HitLoad(t) \/ HitReport(t) \/ HitTouch(t) \/ HitReturn(t)

Rebuild(t) ==
    \/ RebuildCopy(t) \/ RebuildSwap(t) \/ RebuildUpdate(t) \/ RebuildCollect(t)

Next == Tick \/ \E t \in Readers : Accessor(t) \/ Hit(t) \/ Rebuild(t)

Spec == Init /\ [][Next]_vars
DestroySpec == Init /\ [][Next \/ Destroy]_vars

-----------------------------------------------------------------------------
Entries == [accessed : 0..MaxClock, reported : 0..MaxClock]
Tables == [key : [Slots -> Nat], data : [0..Capacity -> Entries],
           size : 0 .. Capacity + Cardinality(Readers)]

(* Every variable has its type; the size of a table never leaves its range *)
(* though it is added to before there is room, and the slot behind the     *)
(* others never gets a key.                                                *)
TypeOK ==
    /\ \A k \in DOMAIN table : table[k] \in Tables
    /\ DOMAIN table = 1..data_ptr
    /\ \A t \in Readers :
         /\ call[t].at # "none" <=> guard[t].at = "held"
         /\ call[t].at \in {"add", "trigger", "insert", "stamp"} => call[t].slot \in Slots
    /\ rebuild_in_progress \in BOOLEAN /\ destroyed \in BOOLEAN
    /\ clock \in Threshold..MaxClock

(* A number is in a table once, and size counts the numbers that are in it *)
(* and the threads that are about to insert one or to give up.             *)
Inserting(k) ==
    {t \in Readers : Held(t) = k /\ call[t].at \in {"trigger", "insert", "full", "other"}}
TableConsistent ==
    /\ TypeOK
    /\ \A k \in DOMAIN table \ freed :
         LET used == {i \in Slots : table[k].key[i] # 0}
         IN  /\ \A i, j \in used : table[k].key[i] = table[k].key[j] => i = j
             /\ table[k].size = Cardinality(used) + Cardinality(Inserting(k))

(* The rebuild thread has no guard, yet the table it copies is not freed   *)
(* under it, not even one that a thread held while it was replaced.        *)
RebuildReadsAlive ==
    \A t \in Readers : rebuild[t].at = "copy" => rebuild[t].table \notin freed

(* Whatever compare-exchanges race and are retried, a change of an entry   *)
(* moves the time of its last access on, and a call that answers yes has   *)
(* written its own time: a table says yes to a number at most once in any  *)
(* second.  (The time of the last report can go back: an access that is    *)
(* retried writes the report it read first over a newer one.)              *)
Answers(t) == call[t].at # "return" /\ call'[t].at = "return" /\ call'[t].hit
AccessStep ==
    \A k \in DOMAIN table \ freed' : \A i \in 0..Capacity :
      LET old == table[k].data[i]
          new == table'[k].data[i]
      IN  /\ new # old => old.accessed < new.accessed
          /\ \A t \in Readers : Answers(t) /\ Held(t) = k /\ call[t].slot = i =>
               new # old /\ new = Report(t)
AccessMovesOn == [][AccessStep]_vars

(* sampler.hpp:227, "we must wait for the update thread": when the         *)
(* destructor is through no rebuild is running.                            *)
DestructorWaits == destroyed => \A t \in Readers : rebuild[t].at = "none"
=============================================================================
