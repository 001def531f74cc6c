-------------------------- MODULE ComsStacksProofs --------------------------
(***************************************************************************)
(* The safety proof of ComsStacks, for any number of PHP threads, stacks   *)
(* and slots and any payload sizes: the types; who rotates, what a         *)
(* rotation carries, and where every stack is; and, as long as no thread   *)
(* hits one of the two windows of the code, that IInv is inductive, from   *)
(* which the properties of the runs follow.                                *)
(*                                                                         *)
(* Ownership says where every stack is.  Counted ties refcount to the      *)
(* threads in a stack, so that a count of zero means nobody is in it; that *)
(* is what makes taking and freeing a stack safe.  Written, Kept and       *)
(* SentBeforeFree follow a payload from the stack to the upload.           *)
(***************************************************************************)
EXTENDS ComsStacks, FiniteSetTheorems, TLAPS

(* The prover of a leaf that names no other. *)
USE ZenonT(60)
USE DEF Actors, Slots

LEMMA NewPayload ==
    ASSUME NEW n \in PayloadSizes, NEW k \in 0..MaxCalls
    PROVE  [tok |-> k, len |-> n] \in Payloads
BY BoundsAssumption DEF Payloads

LEMMA TypeInit == Init => TypeOK
<1> SUFFICES ASSUME Init PROVE TypeOK
    OBVIOUS
<1> USE ActorsAssumption, BoundsAssumption DEF Init
<1>1. TypeGlobals /\ TypeRotation
    BY SMTT(60) DEF TypeGlobals, TypeRotation
<1>2. TypeHeap
    BY SMTT(60) DEF TypeHeap
<1>3. TypeControl
    BY DEF TypeControl, ProducerPCs, WriterPCs, RotatePCs
<1>4. TypeProducers
    BY SMTT(60) DEF TypeProducers, Payloads, NoJob
<1>5. TypeWriter
    BY SMTT(60) DEF TypeWriter
<1>6. TypeHistory
    BY SMTT(60) DEF TypeHistory
<1>7. TypeFlags
    BY DEF TypeFlags
<1>8. PointersLoaded
    BY DEF PointersLoaded, PinnedPCs
<1> QED
    BY <1>1, <1>2, <1>3, <1>4, <1>5, <1>6, <1>7, <1>8 DEF TypeOK

(* a thread counted into a stack, or about to be, names a stack *)
LEMMA Pointed ==
    ASSUME TypeOK, NEW p \in Producers, pc[p] \in PinnedPCs \cup {"pin"}
    PROVE  st[p] \in Stacks
BY DEF TypeOK, TypeProducers, PointersLoaded

(* a stack that is set up or recycled keeps the heap well-typed *)
LEMMA BlankType ==
    ASSUME TypeHeap, NEW s \in Stacks, NEW n \in Nat, Blank(s, n), live' \in SUBSET Stacks
    PROVE  TypeHeap'
<1>1. size' \in [Stacks -> Nat] /\ position' \in [Stacks -> Nat]
    BY DEF TypeHeap, Blank
<1>2. bytes_written' \in [Stacks -> Nat] /\ refcount' \in [Stacks -> Int]
    BY SMTT(60) DEF TypeHeap, Blank
<1>3. entries' \in [Stacks -> SUBSET Entries]
    BY DEF TypeHeap, Blank
<1> QED
    BY <1>1, <1>2, <1>3 DEF TypeHeap

LEMMA TypeNext == TypeOK /\ [Next]_vars => TypeOK'
<1> SUFFICES ASSUME TypeOK, [Next]_vars PROVE TypeOK'
    OBVIOUS
<1> USE ActorsAssumption, BoundsAssumption DEF TypeOK
<1>1. ASSUME NEW p \in Producers, BufferData(p) PROVE TypeOK'
  <2>1. TypeControl'
      BY SMTT(60), <1>1 DEF BufferData, TypeControl, ProducerPCs, WriterPCs, RotatePCs, Goto
  <2>2. TypeProducers'
      BY SMTT(60), <1>1, NewPayload DEF BufferData, TypeProducers, prod, TypeHistory
  <2>3. TypeHistory'
    <3>1. ncalls' \in 0..MaxCalls
        BY SMTT(60), <1>1 DEF BufferData, TypeHistory
    <3>2. rejected' \in {rejected, rejected \cup {ncalls'}}
        BY <1>1 DEF BufferData
    <3> QED
        BY <1>1, <3>1, <3>2 DEF BufferData, TypeHistory
  <2>4. PointersLoaded'
      BY SMTT(60), <1>1 DEF BufferData, PointersLoaded, PinnedPCs, Goto, TypeControl, ProducerPCs,
         WriterPCs, RotatePCs, prod, wrt
  <2> QED
      BY <1>1, <2>1, <2>2, <2>3, <2>4 DEF BufferData, TypeGlobals, TypeHeap,
         TypeRotation, TypeWriter, TypeFlags, globals, heap, rot, prod, wrt, hist
<1>2. ASSUME NEW p \in Producers, StoreLoad(p) PROVE TypeOK'
  <2>1. TypeControl'
      BY SMTT(60), <1>2 DEF StoreLoad, TypeControl, StoreFailed, Return, ProducerPCs, WriterPCs, RotatePCs,
         Goto
  <2>2. TypeProducers'
    <3>1. NoJob \in Payloads
        BY SMTT(60) DEF NoJob, Payloads
    <3>2. CASE current_stack = NULL
        BY SMTT(60), <1>2, <3>1, <3>2 DEF StoreLoad, TypeProducers, StoreFailed, Return
    <3>3. CASE current_stack # NULL
        BY SMTT(60), <1>2, <3>3 DEF StoreLoad, TypeProducers, TypeGlobals
    <3> QED
        BY <3>2, <3>3
  <2>3. TypeHistory'
    <3>1. job[p].tok \in 0..MaxCalls
        BY DEF TypeProducers, Payloads
    <3> QED
        BY <1>2, <3>1 DEF StoreLoad, TypeHistory, StoreFailed
  <2>4. PointersLoaded'
    <3>1. \/ pc' = [pc EXCEPT ![p] = "pin"] /\ st' = [st EXCEPT ![p] = current_stack] /\ current_stack # NULL
          \/ pc' = [pc EXCEPT ![p] = "lock"] /\ st' = [st EXCEPT ![p] = NULL]
          \/ pc' = [pc EXCEPT ![p] = "idle"] /\ st' = [st EXCEPT ![p] = NULL]
        BY <1>2 DEF StoreLoad, StoreFailed, Return, Goto
    <3>2. UNCHANGED <<wread, wstack>>
        BY <1>2 DEF StoreLoad, wrt
    <3> QED
        BY SMTT(60), <3>1, <3>2 DEF PointersLoaded, PinnedPCs, TypeControl, TypeProducers
  <2> QED
      BY <1>2, <2>1, <2>2, <2>3, <2>4 DEF StoreLoad, TypeGlobals, TypeHeap,
         TypeRotation, TypeWriter, TypeFlags, globals, heap, rot, prod, wrt, hist
<1>3. ASSUME NEW p \in Producers, StorePin(p) PROVE TypeOK'
  <2>1. TypeHeap'
      BY SMTT(60), <1>3, Pointed DEF StorePin, TypeHeap
  <2>2. TypeControl'
      BY <1>3 DEF StorePin, TypeControl, ProducerPCs, WriterPCs, RotatePCs, Goto
  <2>3. TypeFlags'
      BY <1>3 DEF StorePin, TypeFlags, wrt
  <2>4. PointersLoaded'
      BY <1>3 DEF StorePin, PointersLoaded, PinnedPCs, Goto, TypeControl, ProducerPCs,
         WriterPCs, RotatePCs, prod, wrt
  <2> QED
      BY <1>3, <2>1, <2>2, <2>3, <2>4 DEF StorePin, TypeGlobals, TypeRotation, TypeProducers,
         TypeWriter, TypeHistory, globals, heap, rot, prod, wrt, hist
<1>4. ASSUME NEW p \in Producers, StoreReserve(p) PROVE TypeOK'
  <2>1. TypeHeap'
      BY SMTT(60), <1>4 DEF StoreReserve, TypeHeap, TypeProducers, Alloc, Payloads, Header, PointersLoaded,
         PinnedPCs
  <2>2. TypeControl'
      BY SMTT(60), <1>4 DEF StoreReserve, TypeControl, ProducerPCs, WriterPCs, RotatePCs, Goto
  <2>3. TypeProducers'
      BY SMTT(60), <1>4 DEF StoreReserve, TypeProducers, prod, TypeHeap, PointersLoaded, PinnedPCs
  <2>4. PointersLoaded'
      BY SMTT(60), <1>4 DEF StoreReserve, PointersLoaded, PinnedPCs, Goto, TypeControl,
         ProducerPCs, WriterPCs, RotatePCs, prod, wrt
  <2> QED
      BY <1>4, <2>1, <2>2, <2>3, <2>4 DEF StoreReserve, TypeGlobals, TypeRotation, TypeWriter,
         TypeHistory, TypeFlags, globals, heap, rot, prod, wrt, hist
<1>5. ASSUME NEW p \in Producers, StoreWrite(p) PROVE TypeOK'
  <2>1. TypeHeap'
    <3>1. [tok |-> job[p].tok, pos |-> at[p], len |-> Alloc(p)] \in Entries
        BY SMTT(60) DEF TypeProducers, Alloc, Payloads, Entries, Header
    <3>2. Alloc(p) \in Nat
        BY SMTT(60) DEF TypeProducers, Alloc, Payloads, Header
    <3>3. st[p] \in Stacks
        BY <1>5, Pointed DEF StoreWrite, PinnedPCs
    <3>4. entries' = [entries EXCEPT ![st[p]] =
                        @ \cup {[tok |-> job[p].tok, pos |-> at[p], len |-> Alloc(p)]}]
        BY <1>5 DEF StoreWrite
    <3>5. bytes_written' = [bytes_written EXCEPT ![st[p]] = @ + Alloc(p)]
        BY <1>5 DEF StoreWrite
    <3>6. UNCHANGED <<live, size, position, refcount>>
        BY <1>5 DEF StoreWrite
    <3>7. entries' \in [Stacks -> SUBSET Entries]
        BY <3>1, <3>3, <3>4 DEF TypeHeap
    <3>8. bytes_written' \in [Stacks -> Nat]
        BY SMTT(60), <3>2, <3>3, <3>5 DEF TypeHeap
    <3> QED
        BY <3>6, <3>7, <3>8 DEF TypeHeap
  <2>2. TypeControl'
      BY <1>5 DEF StoreWrite, TypeControl, ProducerPCs, WriterPCs, RotatePCs, Goto
  <2>3. PointersLoaded'
      BY <1>5 DEF StoreWrite, PointersLoaded, PinnedPCs, Goto, TypeControl,
         ProducerPCs, WriterPCs, RotatePCs, prod, wrt
  <2> QED
      BY <1>5, <2>1, <2>2, <2>3 DEF StoreWrite, TypeGlobals, TypeRotation,
         TypeProducers, TypeWriter, TypeHistory, TypeFlags, globals, heap, rot, prod, wrt, hist
<1>6. ASSUME NEW p \in Producers, StoreUnpin(p) PROVE TypeOK'
  <2>1. TypeHeap'
    <3>1. pc[p] \in PinnedPCs
        BY <1>6 DEF StoreUnpin, PinnedPCs
    <3>2. refcount' = [refcount EXCEPT ![st[p]] = @ - 1]
        BY <1>6 DEF StoreUnpin
    <3>3. UNCHANGED <<live, size, position, bytes_written, entries>>
        BY <1>6 DEF StoreUnpin
    <3>4. refcount' \in [Stacks -> Int]
        BY SMTT(60), <3>1, <3>2, Pointed DEF TypeHeap
    <3> QED
        BY <3>3, <3>4 DEF TypeHeap
  <2>2. TypeControl'
      BY SMTT(60), <1>6 DEF StoreUnpin, TypeControl, StoreFailed, Return, ProducerPCs, WriterPCs, RotatePCs,
         Goto
  <2>3. TypeProducers'
    <3>1. NoJob \in Payloads
        BY SMTT(60) DEF NoJob, Payloads
    <3>2. \/ Return(p)
          \/ st' = [st EXCEPT ![p] = NULL] /\ UNCHANGED <<job, attempt, at>>
        BY <1>6 DEF StoreUnpin, StoreFailed
    <3> QED
        BY SMTT(60), <3>1, <3>2 DEF Return, TypeProducers
  <2>4. TypeHistory'
    <3>1. job[p].tok \in 0..MaxCalls
        BY SMTT(60) DEF TypeProducers, Payloads
    <3> QED
        BY <1>6, <3>1 DEF StoreUnpin, TypeHistory, StoreFailed
  <2>5. PointersLoaded'
    <3>1. \/ pc' = [pc EXCEPT ![p] = "lock"] /\ st' = [st EXCEPT ![p] = NULL]
          \/ pc' = [pc EXCEPT ![p] = "idle"] /\ st' = [st EXCEPT ![p] = NULL]
        BY <1>6 DEF StoreUnpin, StoreFailed, Return, Goto
    <3>2. UNCHANGED <<wread, wstack>>
        BY <1>6 DEF StoreUnpin, wrt
    <3> QED
        BY SMTT(60), <3>1, <3>2 DEF PointersLoaded, PinnedPCs, TypeControl, TypeProducers
  <2> QED
      BY <1>6, <2>1, <2>2, <2>3, <2>4, <2>5 DEF StoreUnpin, TypeGlobals, TypeRotation,
         TypeWriter, TypeFlags, globals, heap, rot, prod, wrt, hist
<1>7. ASSUME NEW a \in Actors, RotateLock(a) PROVE TypeOK'
  <2>1. TypeRotation'
      BY <1>7 DEF RotateLock, TypeRotation
  <2>2. TypeControl'
      BY <1>7 DEF RotateLock, TypeControl, ProducerPCs, WriterPCs, RotatePCs, Goto
  <2>3. PointersLoaded'
      BY <1>7 DEF RotateLock, PointersLoaded, PinnedPCs, Goto, TypeControl, ProducerPCs,
         WriterPCs, RotatePCs, prod, wrt
  <2> QED
      BY <1>7, <2>1, <2>2, <2>3 DEF RotateLock, TypeGlobals, TypeHeap, TypeProducers,
         TypeWriter, TypeHistory, TypeFlags, globals, heap, rot, prod, wrt, hist
<1>8. ASSUME NEW a \in Actors, RotateKeep(a) PROVE TypeOK'
  <2>1. TypeGlobals'
      BY <1>8 DEF RotateKeep, TypeGlobals
  <2>2. TypeControl'
      BY SMTT(60), <1>8 DEF RotateKeep, TypeControl, ProducerPCs, WriterPCs, RotatePCs, Goto
  <2>3. PointersLoaded'
      BY SMTT(60), <1>8 DEF RotateKeep, PointersLoaded, PinnedPCs, Goto, TypeControl, ProducerPCs,
         WriterPCs, RotatePCs, prod, wrt
  <2> QED
      BY <1>8, <2>1, <2>2, <2>3 DEF RotateKeep, TypeHeap, TypeRotation, TypeProducers,
         TypeWriter, TypeHistory, TypeFlags, globals, heap, rot, prod, wrt, hist
<1>9. ASSUME NEW a \in Actors, RotateSwap(a) PROVE TypeOK'
  <2>1. TypeGlobals'
      BY <1>9 DEF RotateSwap, TypeGlobals, Blank, ScanOn, Reusable, TypeRotation
  <2>2. TypeHeap'
    <3>1. slots[scan] # NULL => slots[scan] \in Stacks
        BY DEF TypeGlobals, TypeRotation
    <3>2. CASE Reusable(a, slots[scan])
      <4>1. slots[scan] \in Stacks
          BY <3>1, <3>2 DEF Reusable
      <4>2. Blank(slots[scan], size[slots[scan]]) /\ UNCHANGED live
          BY <1>9, <3>2 DEF RotateSwap
      <4> QED
          BY <4>1, <4>2, BlankType DEF TypeHeap
    <3>3. CASE ~Reusable(a, slots[scan])
        BY <1>9, <3>3 DEF RotateSwap, TypeHeap
    <3> QED
        BY <3>2, <3>3
  <2>3. TypeRotation'
    <3>1. UNCHANGED <<mutex, nsize>>
        BY <1>9 DEF RotateSwap
    <3>2. scan' \in {scan, 1} \/ (scan < MaxBacklog /\ scan' = scan + 1)
        BY <1>9 DEF RotateSwap, ScanOn
    <3> QED
        BY SMTT(60), <3>1, <3>2 DEF TypeRotation
  <2>4. TypeControl'
      BY <1>9 DEF RotateSwap, TypeControl, Blank, ScanOn, Reusable, ProducerPCs,
         WriterPCs, RotatePCs, Goto
  <2>5. PointersLoaded'
      BY <1>9 DEF RotateSwap, PointersLoaded, Blank, ScanOn, Reusable, PinnedPCs,
         Goto, TypeControl, ProducerPCs, WriterPCs, RotatePCs, prod, wrt
  <2> QED
      BY <1>9, <2>1, <2>2, <2>3, <2>4, <2>5 DEF RotateSwap, TypeProducers, TypeWriter,
         TypeHistory, TypeFlags, globals, heap, rot, prod, wrt, hist
<1>10. ASSUME NEW a \in Actors, RotateSwapPut(a) PROVE TypeOK'
  <2>1. TypeGlobals'
      BY <1>10 DEF RotateSwapPut, TypeGlobals
  <2>2. TypeRotation'
    <3>1. scan' = 1 /\ UNCHANGED <<mutex, nsize>>
        BY <1>10 DEF RotateSwapPut
    <3> QED
        BY SMTT(60), <3>1 DEF TypeRotation
  <2>3. TypeControl'
      BY <1>10 DEF RotateSwapPut, TypeControl, ProducerPCs, WriterPCs, RotatePCs, Goto
  <2>4. PointersLoaded'
      BY <1>10 DEF RotateSwapPut, PointersLoaded, PinnedPCs, Goto, TypeControl,
         ProducerPCs, WriterPCs, RotatePCs, prod, wrt
  <2> QED
      BY <1>10, <2>1, <2>2, <2>3, <2>4 DEF RotateSwapPut, TypeHeap, TypeProducers,
         TypeWriter, TypeHistory, TypeFlags, globals, heap, rot, prod, wrt, hist
<1>11. ASSUME NEW a \in Actors, RotateStore(a) PROVE TypeOK'
  <2>1. TypeGlobals'
      BY <1>11 DEF RotateStore, TypeGlobals, ScanOn
  <2>2. TypeRotation'
    <3>1. UNCHANGED <<mutex, nsize>>
        BY <1>11 DEF RotateStore
    <3>2. scan' \in {scan, 1} \/ (scan < MaxBacklog /\ scan' = scan + 1)
        BY <1>11 DEF RotateStore, ScanOn
    <3> QED
        BY SMTT(60), <3>1, <3>2 DEF TypeRotation
  <2>3. TypeControl'
      BY <1>11 DEF RotateStore, TypeControl, ScanOn, ProducerPCs, WriterPCs,
         RotatePCs, Goto
  <2>4. PointersLoaded'
      BY <1>11 DEF RotateStore, PointersLoaded, ScanOn, PinnedPCs, Goto, TypeControl,
         ProducerPCs, WriterPCs, RotatePCs, prod, wrt
  <2> QED
      BY <1>11, <2>1, <2>2, <2>3, <2>4 DEF RotateStore, TypeHeap, TypeProducers,
         TypeWriter, TypeHistory, TypeFlags, globals, heap, rot, prod, wrt, hist
<1>12. ASSUME NEW a \in Actors, RotateStorePut(a) PROVE TypeOK'
  <2>1. TypeGlobals'
      BY <1>12 DEF RotateStorePut, TypeGlobals
  <2>2. TypeRotation'
    <3>1. scan' = 1 /\ UNCHANGED <<mutex, nsize>>
        BY <1>12 DEF RotateStorePut
    <3> QED
        BY SMTT(60), <3>1 DEF TypeRotation
  <2>3. TypeControl'
      BY <1>12 DEF RotateStorePut, TypeControl, ProducerPCs, WriterPCs, RotatePCs, Goto
  <2>4. PointersLoaded'
      BY <1>12 DEF RotateStorePut, PointersLoaded, PinnedPCs, Goto, TypeControl,
         ProducerPCs, WriterPCs, RotatePCs, prod, wrt
  <2> QED
      BY <1>12, <2>1, <2>2, <2>3, <2>4 DEF RotateStorePut, TypeHeap, TypeProducers,
         TypeWriter, TypeHistory, TypeFlags, globals, heap, rot, prod, wrt, hist
<1>13. ASSUME NEW a \in Actors, RotateCheck(a) PROVE TypeOK'
  <2>1. TypeRotation'
      BY <1>13 DEF RotateCheck, TypeRotation, RotateReturn, TypeGlobals
  <2>2. TypeControl'
      BY <1>13 DEF RotateCheck, TypeControl, RotateReturn, ProducerPCs, WriterPCs,
         RotatePCs, Goto
  <2>3. TypeProducers'
      BY <1>13 DEF RotateCheck, TypeProducers, RotateReturn, prod
  <2>4. TypeWriter'
    <3>1. wscan' \in {wscan, 1} /\ UNCHANGED <<wread, wstack>>
        BY <1>13 DEF RotateCheck, RotateReturn
    <3> QED
        BY SMTT(60), <3>1 DEF TypeWriter
  <2>5. PointersLoaded'
      BY <1>13 DEF RotateCheck, PointersLoaded, RotateReturn, PinnedPCs, Goto,
         TypeControl, ProducerPCs, WriterPCs, RotatePCs, prod, wrt
  <2> QED
      BY <1>13, <2>1, <2>2, <2>3, <2>4, <2>5 DEF RotateCheck, TypeGlobals, TypeHeap,
         TypeHistory, TypeFlags, globals, heap, rot, prod, wrt, hist
<1>14. ASSUME NEW a \in Actors, NewStackGrow(a) PROVE TypeOK'
  <2>1. TypeRotation'
      BY SMTT(60), <1>14 DEF NewStackGrow, TypeRotation
  <2>2. TypeControl'
      BY SMTT(60), <1>14 DEF NewStackGrow, TypeControl, ProducerPCs, WriterPCs, RotatePCs, Goto
  <2>3. PointersLoaded'
      BY <1>14 DEF NewStackGrow, PointersLoaded, PinnedPCs, Goto, TypeControl,
         ProducerPCs, WriterPCs, RotatePCs, prod, wrt
  <2> QED
      BY <1>14, <2>1, <2>2, <2>3 DEF NewStackGrow, TypeGlobals, TypeHeap,
         TypeProducers, TypeWriter, TypeHistory, TypeFlags, globals, heap, rot, prod, wrt, hist
<1>15. ASSUME NEW a \in Actors, NewStackAlloc(a) PROVE TypeOK'
  <2>1. TypeGlobals'
      BY <1>15 DEF NewStackAlloc, TypeGlobals, RotateReturn, Blank, TypeRotation
  <2>2. TypeHeap'
    <3>1. PICK s \in Stacks \ live : live' = live \cup {s} /\ Blank(s, nsize)
        BY <1>15 DEF NewStackAlloc
    <3>2. nsize \in Nat /\ live' \in SUBSET Stacks
        BY <3>1 DEF TypeRotation, TypeHeap
    <3> QED
        BY <3>1, <3>2, BlankType
  <2>3. TypeRotation'
      BY <1>15 DEF NewStackAlloc, TypeRotation, RotateReturn, Blank
  <2>4. TypeControl'
    <3>1. \/ a = Writer /\ pc' = [pc EXCEPT ![a] = "acq_read"]
          \/ a # Writer /\ pc' = [pc EXCEPT ![a] = "load"]
        BY <1>15 DEF NewStackAlloc, RotateReturn, Goto
    <3> QED
        BY SMTT(60), <3>1 DEF TypeControl, ProducerPCs, WriterPCs, RotatePCs
  <2>5. TypeProducers'
      BY <1>15 DEF NewStackAlloc, TypeProducers, RotateReturn, Blank, prod
  <2>6. TypeWriter'
    <3>1. wscan' \in {wscan, 1} /\ UNCHANGED <<wread, wstack>>
        BY <1>15 DEF NewStackAlloc, RotateReturn
    <3> QED
        BY SMTT(60), <3>1 DEF TypeWriter
  <2>7. PointersLoaded'
    <3>1. \E l \in {"acq_read", "load"} : pc' = [pc EXCEPT ![a] = l] /\ (l = "acq_read" <=> a = Writer)
        BY <1>15 DEF NewStackAlloc, RotateReturn, Goto
    <3>2. pc[a] = "alloc" /\ UNCHANGED <<st, wread, wstack>>
        BY <1>15 DEF NewStackAlloc
    <3> QED
        BY <3>1, <3>2 DEF PointersLoaded, PinnedPCs, TypeControl
  <2> QED
      BY <1>15, <2>1, <2>2, <2>3, <2>4, <2>5, <2>6, <2>7 DEF NewStackAlloc,
         TypeHistory, TypeFlags, globals, heap, rot, prod, wrt, hist
<1>16. CASE WriterCycle
  <2>1. TypeControl'
      BY <1>16 DEF WriterCycle, TypeControl, ProducerPCs, WriterPCs, RotatePCs, Goto
  <2>2. TypeFlags'
      BY <1>16 DEF WriterCycle, TypeFlags, hist
  <2>3. PointersLoaded'
      BY <1>16 DEF WriterCycle, PointersLoaded, PinnedPCs, Goto, TypeControl,
         ProducerPCs, WriterPCs, RotatePCs, prod, wrt
  <2> QED
      BY <1>16, <2>1, <2>2, <2>3 DEF WriterCycle, TypeGlobals, TypeHeap, TypeRotation,
         TypeProducers, TypeWriter, TypeHistory, globals, heap, rot, prod, wrt, hist
<1>17. CASE AcquireRead
  <2>1. TypeControl'
      BY <1>17 DEF AcquireRead, TypeControl, AcquireOn, ProducerPCs, WriterPCs,
         RotatePCs, Goto
  <2>2. TypeWriter'
    <3>1. \/ wscan' = wscan
          \/ wscan < MaxBacklog /\ wscan' = wscan + 1
          \/ wscan' = 1
        BY <1>17 DEF AcquireRead, AcquireOn
    <3>2. wread' = NULL \/ wread' = slots[wscan]
        BY <1>17 DEF AcquireRead, AcquireOn
    <3>3. wstack' = wstack
        BY <1>17 DEF AcquireRead
    <3> QED
        BY SMTT(60), <3>1, <3>2, <3>3 DEF TypeWriter, TypeGlobals
  <2>3. PointersLoaded'
      BY <1>17 DEF AcquireRead, PointersLoaded, AcquireOn, PinnedPCs, Goto,
         TypeControl, ProducerPCs, WriterPCs, RotatePCs, prod, wrt
  <2> QED
      BY <1>17, <2>1, <2>2, <2>3 DEF AcquireRead, TypeGlobals, TypeHeap, TypeRotation,
         TypeProducers, TypeHistory, TypeFlags, globals, heap, rot, prod, wrt, hist
<1>18. CASE AcquireRefcount
  <2>1. TypeControl'
      BY <1>18 DEF AcquireRefcount, TypeControl, AcquireOn, ProducerPCs, WriterPCs,
         RotatePCs, Goto
  <2>2. TypeWriter'
    <3>1. \/ wscan' = wscan
          \/ wscan < MaxBacklog /\ wscan' = wscan + 1
          \/ wscan' = 1
        BY <1>18 DEF AcquireRefcount, AcquireOn
    <3>2. wread' = NULL \/ wread' = wread
        BY <1>18 DEF AcquireRefcount, AcquireOn
    <3>3. wstack' = wstack
        BY <1>18 DEF AcquireRefcount
    <3> QED
        BY SMTT(60), <3>1, <3>2, <3>3 DEF TypeWriter
  <2>3. PointersLoaded'
      BY <1>18 DEF AcquireRefcount, PointersLoaded, AcquireOn, PinnedPCs, Goto,
         TypeControl, ProducerPCs, WriterPCs, RotatePCs, prod, wrt
  <2> QED
      BY <1>18, <2>1, <2>2, <2>3 DEF AcquireRefcount, TypeGlobals, TypeHeap,
         TypeRotation, TypeProducers, TypeHistory, TypeFlags, globals, heap, rot, prod, wrt, hist
<1>19. CASE AcquireTake
  <2>1. TypeGlobals'
      BY <1>19 DEF AcquireTake, TypeGlobals, AcquireOn, ClearSlot
  <2>2. TypeControl'
      BY <1>19 DEF AcquireTake, TypeControl, AcquireOn, ClearSlot, ProducerPCs,
         WriterPCs, RotatePCs, Goto
  <2>3. TypeWriter'
    <3>1. \/ wscan' = wscan
          \/ wscan < MaxBacklog /\ wscan' = wscan + 1
          \/ wscan' = 1
        BY <1>19 DEF AcquireTake, AcquireOn
    <3>2. wread' = NULL /\ wstack' \in {wread, wstack}
        BY <1>19 DEF AcquireTake, AcquireOn
    <3> QED
        BY SMTT(60), <3>1, <3>2 DEF TypeWriter
  <2>4. TypeFlags'
      BY <1>19 DEF AcquireTake, TypeFlags, AcquireOn, ClearSlot
  <2>5. PointersLoaded'
      BY <1>19 DEF AcquireTake, PointersLoaded, AcquireOn, ClearSlot, PinnedPCs, Goto,
         TypeControl, ProducerPCs, WriterPCs, RotatePCs, prod, wrt
  <2> QED
      BY <1>19, <2>1, <2>2, <2>3, <2>4, <2>5 DEF AcquireTake, TypeHeap, TypeRotation,
         TypeProducers, TypeHistory, globals, heap, rot, prod, wrt, hist
<1>20. CASE SendStack
  <2>1. TypeControl'
      BY <1>20 DEF SendStack, TypeControl, ProducerPCs, WriterPCs, RotatePCs, Goto
  <2>2. TypeHistory'
    <3>1. wstack \in Stacks
        BY <1>20 DEF SendStack, TypeWriter, PointersLoaded
    <3>2. {e.tok : e \in entries[wstack]} \subseteq 0..MaxCalls
        BY SMTT(60), <3>1 DEF TypeHeap, Entries
    <3> QED
        BY <1>20, <3>2 DEF SendStack, TypeHistory
  <2>3. PointersLoaded'
      BY <1>20 DEF SendStack, PointersLoaded, PinnedPCs, Goto, TypeControl,
         ProducerPCs, WriterPCs, RotatePCs, prod, wrt
  <2> QED
      BY <1>20, <2>1, <2>2, <2>3 DEF SendStack, TypeGlobals, TypeHeap, TypeRotation,
         TypeProducers, TypeWriter, TypeFlags, globals, heap, rot, prod, wrt, hist
<1>21. CASE FreeStack
  <2>1. TypeHeap'
    <3>1. wstack \in Stacks
        BY <1>21 DEF FreeStack, TypeWriter, PointersLoaded
    <3>2. live' \subseteq live /\ Blank(wstack, InitialSize)
        BY <1>21 DEF FreeStack, Freed
    <3> QED
        BY <3>1, <3>2, BlankType DEF TypeHeap
  <2>2. TypeControl'
      BY <1>21 DEF FreeStack, TypeControl, Blank, Freed, ProducerPCs, WriterPCs,
         RotatePCs, Goto
  <2>3. TypeWriter'
    <3>1. wscan' = 1 /\ wstack' = NULL /\ wread' = wread
        BY <1>21 DEF FreeStack
    <3> QED
        BY SMTT(60), <3>1 DEF TypeWriter
  <2>4. PointersLoaded'
      BY <1>21 DEF FreeStack, PointersLoaded, Blank, Freed, PinnedPCs, Goto,
         TypeControl, ProducerPCs, WriterPCs, RotatePCs, prod, wrt
  <2> QED
      BY <1>21, <2>1, <2>2, <2>3, <2>4 DEF FreeStack, TypeGlobals, TypeRotation,
         TypeProducers, TypeHistory, TypeFlags, globals, heap, rot, prod, wrt, hist
<1>22. CASE UNCHANGED vars
    BY <1>22 DEF vars, globals, heap, rot, prod, wrt, hist, TypeGlobals, TypeHeap,
       TypeRotation,
       TypeControl, TypeProducers, TypeWriter, TypeHistory, TypeFlags, PointersLoaded
<1> QED
    BY <1>1, <1>2, <1>3, <1>4, <1>5, <1>6, <1>7, <1>8, <1>9, <1>10, <1>11, <1>12,
       <1>13, <1>14, <1>15, <1>16, <1>17, <1>18, <1>19, <1>20, <1>21, <1>22 DEF Next, Store,
       Rotate, WriterStep

(* Every reachable state is well typed: no thread uses a stack pointer of  *)
(* coms.c before it has loaded one.                                        *)
THEOREM TypeCorrect == Spec => []TypeOK
BY TypeInit, TypeNext, PTL DEF Spec

-----------------------------------------------------------------------------
(* a step of a thread that does not rotate, before it and after it *)
OutsideStep ==
    /\ UNCHANGED <<mutex, scan, current_stack, tmp_stack>>
    /\ \A i \in Slots : slots'[i] \in {slots[i], NULL}
    /\ \E b \in Actors, l \in (ProducerPCs \cup WriterPCs) \ RotatePCs :
         pc[b] \notin RotatePCs /\ pc' \in {pc, [pc EXCEPT ![b] = l]}

LEMMA Outside ==
    ASSUME TypeOK, \/ \E p \in Producers : BufferData(p) \/ Store(p)
                   \/ WriterStep
    PROVE  OutsideStep
<1> USE DEF globals, rot, RotatePCs, ProducerPCs, WriterPCs
<1>1. ASSUME NEW p \in Producers, BufferData(p) \/ Store(p) PROVE OutsideStep
  <2>1. UNCHANGED <<mutex, scan, current_stack, tmp_stack, slots>>
      BY <1>1 DEF BufferData, Store, StoreLoad, StorePin, StoreReserve, StoreWrite,
         StoreUnpin
  <2>2. pc[p] \notin RotatePCs
      BY <1>1 DEF BufferData, Store, StoreLoad, StorePin, StoreReserve, StoreWrite,
         StoreUnpin
  <2>3. \E l \in {"load", "pin", "reserve", "write", "unpin", "unpin_failed", "lock", "idle"} :
          pc' \in {pc, [pc EXCEPT ![p] = l]}
      BY <1>1 DEF BufferData, Store, StoreLoad, StorePin, StoreReserve, StoreWrite,
         StoreUnpin,
         StoreFailed, Return, Goto
  <2> QED
      BY SMTT(60), <2>1, <2>2, <2>3 DEF OutsideStep
<1>2. CASE WriterStep
  <2>1. UNCHANGED <<mutex, scan, current_stack, tmp_stack>>
      BY <1>2 DEF WriterStep, WriterCycle, AcquireRead, AcquireRefcount, AcquireTake,
         SendStack,
         FreeStack
  <2>2. slots' \in {slots, [slots EXCEPT ![wscan] = NULL]}
      BY <1>2 DEF WriterStep, WriterCycle, AcquireRead, AcquireRefcount, AcquireTake,
         SendStack,
         FreeStack, ClearSlot
  <2>3. \A i \in Slots : slots'[i] \in {slots[i], NULL}
      BY <2>2 DEF TypeOK, TypeGlobals
  <2>4. pc[Writer] \notin RotatePCs
      BY <1>2 DEF WriterStep, WriterCycle, AcquireRead, AcquireRefcount, AcquireTake,
         SendStack,
         FreeStack
  <2>5. \E l \in {"idle", "lock", "acq_read", "acq_refcount", "acq_take", "send", "free"} :
          pc' = [pc EXCEPT ![Writer] = l]
      BY <1>2 DEF WriterStep, WriterCycle, AcquireRead, AcquireRefcount, AcquireOn,
         AcquireTake,
         SendStack, FreeStack, Goto
  <2> QED
      BY <2>1, <2>3, <2>4, <2>5 DEF OutsideStep
<1> QED
    BY <1>1, <1>2

(* only the holder of the mutex rotates *)
LEMMA OneRotation ==
    ASSUME MutexHeld, NEW a \in Actors, pc[a] \in RotatePCs
    PROVE  mutex = a /\ \A b \in Actors : b # a => pc[b] \notin RotatePCs
BY DEF MutexHeld

(* the mutex is taken at the first step of a rotation and left at its last *)
LEMMA MutexNext ==
    ASSUME TypeOK, MutexHeld, [Next]_vars
    PROVE  MutexHeld'
<1> USE ActorsAssumption, BoundsAssumption
<1>1. CASE OutsideStep
    BY <1>1 DEF OutsideStep, MutexHeld, TypeOK, TypeControl
<1>2. CASE UNCHANGED vars
    BY <1>2 DEF vars, rot, MutexHeld
<1>3. ASSUME NEW a \in Actors, RotateLock(a) PROVE MutexHeld'
  <2>1. mutex = NULL /\ mutex' = a /\ pc' = [pc EXCEPT ![a] = "keep"]
      BY <1>3 DEF RotateLock, Goto
  <2>2. \A b \in Actors : pc[b] \notin RotatePCs
      BY <2>1 DEF MutexHeld
  <2>3. "keep" \in RotatePCs
      BY DEF RotatePCs
  <2> QED
      BY <2>1, <2>2, <2>3 DEF MutexHeld, TypeOK, TypeControl
<1>4. ASSUME NEW a \in Actors, RotateKeep(a) PROVE MutexHeld'
  <2>1. pc[a] \in RotatePCs /\ mutex' = mutex
      BY <1>4 DEF RotateKeep, rot, RotatePCs
  <2>2. \E l \in {"check", "swap"} : pc' \in {pc, [pc EXCEPT ![a] = l]}
      BY <1>4 DEF RotateKeep, Goto
  <2> QED
      BY <2>1, <2>2 DEF MutexHeld, RotatePCs, TypeOK, TypeControl
<1>5. ASSUME NEW a \in Actors, RotateSwap(a) PROVE MutexHeld'
  <2>1. pc[a] \in RotatePCs /\ mutex' = mutex
      BY <1>5 DEF RotateSwap, rot, RotatePCs
  <2>2. \E l \in {"swap_put", "store"} : pc' \in {pc, [pc EXCEPT ![a] = l]}
      BY <1>5 DEF RotateSwap, ScanOn, Goto
  <2> QED
      BY <2>1, <2>2 DEF MutexHeld, RotatePCs, TypeOK, TypeControl
<1>6. ASSUME NEW a \in Actors, RotateSwapPut(a) PROVE MutexHeld'
  <2>1. pc[a] \in RotatePCs /\ mutex' = mutex
      BY <1>6 DEF RotateSwapPut, rot, RotatePCs
  <2>2. \E l \in {"check"} : pc' \in {pc, [pc EXCEPT ![a] = l]}
      BY <1>6 DEF RotateSwapPut, Goto
  <2> QED
      BY <2>1, <2>2 DEF MutexHeld, RotatePCs, TypeOK, TypeControl
<1>7. ASSUME NEW a \in Actors, RotateStore(a) PROVE MutexHeld'
  <2>1. pc[a] \in RotatePCs /\ mutex' = mutex
      BY <1>7 DEF RotateStore, rot, RotatePCs
  <2>2. \E l \in {"store_put", "check"} : pc' \in {pc, [pc EXCEPT ![a] = l]}
      BY <1>7 DEF RotateStore, ScanOn, Goto
  <2> QED
      BY <2>1, <2>2 DEF MutexHeld, RotatePCs, TypeOK, TypeControl
<1>8. ASSUME NEW a \in Actors, RotateStorePut(a) PROVE MutexHeld'
  <2>1. pc[a] \in RotatePCs /\ mutex' = mutex
      BY <1>8 DEF RotateStorePut, rot, RotatePCs
  <2>2. \E l \in {"check"} : pc' \in {pc, [pc EXCEPT ![a] = l]}
      BY <1>8 DEF RotateStorePut, Goto
  <2> QED
      BY SMTT(60), <2>1, <2>2 DEF MutexHeld, RotatePCs, TypeOK, TypeControl
<1>9. ASSUME NEW a \in Actors, RotateCheck(a) PROVE MutexHeld'
  <2>1. mutex = a
      BY <1>9 DEF RotateCheck, MutexHeld, RotatePCs
  <2>2. \/ mutex' = mutex /\ pc' = [pc EXCEPT ![a] = "grow"]
        \/ mutex' = NULL /\ pc' = [pc EXCEPT ![a] = "acq_read"]
        \/ mutex' = NULL /\ pc' = [pc EXCEPT ![a] = "load"]
      BY <1>9 DEF RotateCheck, RotateReturn, Goto
  <2>3. "grow" \in RotatePCs /\ "acq_read" \notin RotatePCs /\ "load" \notin RotatePCs
      BY DEF RotatePCs
  <2> QED
      BY SMTT(60), <2>1, <2>2, <2>3 DEF MutexHeld, TypeOK, TypeControl
<1>10. ASSUME NEW a \in Actors, NewStackGrow(a) PROVE MutexHeld'
  <2>1. pc[a] \in RotatePCs /\ mutex' = mutex
      BY <1>10 DEF NewStackGrow, rot, RotatePCs
  <2>2. \E l \in {"alloc"} : pc' \in {pc, [pc EXCEPT ![a] = l]}
      BY <1>10 DEF NewStackGrow, Goto
  <2> QED
      BY <2>1, <2>2 DEF MutexHeld, RotatePCs, TypeOK, TypeControl
<1>11. ASSUME NEW a \in Actors, NewStackAlloc(a) PROVE MutexHeld'
  <2>1. mutex = a
      BY <1>11 DEF NewStackAlloc, MutexHeld, RotatePCs
  <2>2. \/ mutex' = NULL /\ pc' = [pc EXCEPT ![a] = "acq_read"]
        \/ mutex' = NULL /\ pc' = [pc EXCEPT ![a] = "load"]
      BY <1>11 DEF NewStackAlloc, RotateReturn, Goto
  <2>3. "acq_read" \notin RotatePCs /\ "load" \notin RotatePCs
      BY DEF RotatePCs
  <2> QED
      BY <2>1, <2>2, <2>3 DEF MutexHeld, TypeOK, TypeControl
<1> QED
    BY <1>1, <1>2, <1>3, <1>4, <1>5, <1>6, <1>7, <1>8, <1>9, <1>10, <1>11, Outside DEF Next, Rotate

(* only the holder of the mutex moves the current stack *)
LEMMA TransitNext ==
    ASSUME TypeOK, MutexHeld, Transit, [Next]_vars
    PROVE  Transit'
<1> USE ActorsAssumption, BoundsAssumption
<1>1. CASE OutsideStep
    BY SMTT(60), <1>1 DEF OutsideStep, Transit, TransitPCs, RotatePCs, TypeOK, TypeControl, TypeRotation
<1>2. CASE UNCHANGED vars
    BY <1>2 DEF vars, globals, rot, Transit
<1>3. ASSUME NEW a \in Actors, RotateLock(a) PROVE Transit'
    BY <1>3 DEF RotateLock, Goto, MutexHeld, Transit, TransitPCs, RotatePCs, globals,
       TypeOK,
       TypeControl
<1>4. ASSUME NEW a \in Actors, RotateKeep(a) PROVE Transit'
  <2>1. pc[a] \in RotatePCs /\ (\A b \in Actors : b # a => pc[b] \notin RotatePCs)
      BY <1>4, OneRotation DEF RotateKeep, RotatePCs
  <2> QED
      BY SMTT(60), <1>4, <2>1 DEF RotateKeep, Goto, Transit, TransitPCs, RotatePCs, globals, TypeOK,
         TypeControl, TypeGlobals, TypeRotation
<1>5. ASSUME NEW a \in Actors, RotateSwap(a) PROVE Transit'
  <2>1. pc[a] \in RotatePCs /\ (\A b \in Actors : b # a => pc[b] \notin RotatePCs)
      BY <1>5, OneRotation DEF RotateSwap, RotatePCs
  <2> QED
      BY <1>5, <2>1 DEF RotateSwap, ScanOn, Reusable, Goto, Transit, TransitPCs,
         RotatePCs,
         globals, TypeOK, TypeControl, TypeGlobals, TypeRotation
<1>6. ASSUME NEW a \in Actors, RotateSwapPut(a) PROVE Transit'
  <2>1. pc[a] \in RotatePCs /\ (\A b \in Actors : b # a => pc[b] \notin RotatePCs)
      BY <1>6, OneRotation DEF RotateSwapPut, RotatePCs
  <2> QED
      BY <1>6, <2>1 DEF RotateSwapPut, Goto, Transit, TransitPCs, RotatePCs, globals,
         TypeOK,
         TypeControl, TypeGlobals, TypeRotation
<1>7. ASSUME NEW a \in Actors, RotateStore(a) PROVE Transit'
  <2>1. \A b \in Actors : pc[b] \in RotatePCs <=> b = a
      BY <1>7 DEF RotateStore, MutexHeld, RotatePCs
  <2>2. slots' = slots /\ tmp_stack = current_stack /\ tmp_stack # NULL
      BY <1>7 DEF RotateStore, Transit, TransitPCs
  <2>3. CASE slots[scan] = NULL
      BY <1>7, <2>1, <2>2, <2>3 DEF RotateStore, Goto, Transit, TransitPCs, RotatePCs,
         TypeOK,
         TypeControl
  <2>4. CASE slots[scan] # NULL /\ scan < MaxBacklog
    <3>1. UNCHANGED <<pc, slots, tmp_stack, current_stack>>
        BY SMTT(60), <1>7, <2>4 DEF RotateStore, ScanOn
    <3>2. \A b \in Actors : pc[b] # "store_put"
        BY <1>7, <2>1 DEF RotateStore, RotatePCs
    <3> QED
        BY <3>1, <3>2 DEF Transit
  <2>5. CASE slots[scan] # NULL /\ scan = MaxBacklog
    <3>1. pc' = [pc EXCEPT ![a] = "check"] /\ tmp_stack' = NULL
        BY SMTT(60), <1>7, <2>5 DEF RotateStore, ScanOn, Goto
    <3>2. \A b \in Actors : pc'[b] \notin TransitPCs \cup {"grow", "alloc"}
        BY <2>1, <3>1 DEF TransitPCs, RotatePCs, TypeOK, TypeControl
    <3> QED
        BY <3>1, <3>2 DEF Transit, TransitPCs
  <2> QED
      BY SMTT(60), <2>3, <2>4, <2>5 DEF TypeOK, TypeRotation
<1>8. ASSUME NEW a \in Actors, RotateStorePut(a) PROVE Transit'
  <2>1. pc[a] \in RotatePCs /\ (\A b \in Actors : b # a => pc[b] \notin RotatePCs)
      BY <1>8, OneRotation DEF RotateStorePut, RotatePCs
  <2> QED
      BY <1>8, <2>1 DEF RotateStorePut, Goto, Transit, TransitPCs, RotatePCs, globals,
         TypeOK,
         TypeControl, TypeGlobals, TypeRotation
<1>9. ASSUME NEW a \in Actors, RotateCheck(a) PROVE Transit'
  <2>1. pc[a] \in RotatePCs /\ (\A b \in Actors : b # a => pc[b] \notin RotatePCs)
      BY <1>9, OneRotation DEF RotateCheck, RotatePCs
  <2> QED
      BY <1>9, <2>1 DEF RotateCheck, RotateReturn, Goto, Transit, TransitPCs,
         RotatePCs, globals,
         TypeOK, TypeControl, TypeGlobals, TypeRotation
<1>10. ASSUME NEW a \in Actors, NewStackGrow(a) PROVE Transit'
  <2>1. pc[a] \in RotatePCs /\ (\A b \in Actors : b # a => pc[b] \notin RotatePCs)
      BY <1>10, OneRotation DEF NewStackGrow, RotatePCs
  <2> QED
      BY <1>10, <2>1 DEF NewStackGrow, Goto, Transit, TransitPCs, RotatePCs, globals,
         TypeOK,
         TypeControl, TypeGlobals, TypeRotation
<1>11. ASSUME NEW a \in Actors, NewStackAlloc(a) PROVE Transit'
  <2>1. pc[a] \in RotatePCs /\ (\A b \in Actors : b # a => pc[b] \notin RotatePCs)
      BY <1>11, OneRotation DEF NewStackAlloc, RotatePCs
  <2> QED
      BY <1>11, <2>1 DEF NewStackAlloc, RotateReturn, Goto, Transit, TransitPCs,
         RotatePCs,
         globals, TypeOK, TypeControl, TypeGlobals, TypeRotation
<1> QED
    BY <1>1, <1>2, <1>3, <1>4, <1>5, <1>6, <1>7, <1>8, <1>9, <1>10, <1>11,
       Outside DEF Next, Rotate

(* what a take outside the second window does *)
LEMMA TakeCases ==
    ASSUME TypeOK, AcquireTake, ~raced'
    PROVE  \/ /\ wread \in Stacks /\ slots[wscan] = wread
              /\ wread # current_stack /\ refcount[wread] = 0
              /\ wstack = NULL /\ wstack' = wread
              /\ slots' = [slots EXCEPT ![wscan] = NULL]
              /\ pc' = [pc EXCEPT ![Writer] = "send"]
           \/ /\ UNCHANGED <<slots, wstack>>
              /\ \E l \in {"acq_read", "idle"} : pc' = [pc EXCEPT ![Writer] = l]
<1>1. wread \in Stacks /\ wstack = NULL
    BY DEF AcquireTake, TypeOK, TypeWriter, PointersLoaded
<1>2. CASE bytes_written[wread] > 0
    BY <1>1, <1>2 DEF AcquireTake, ClearSlot, Goto
<1>3. CASE ~(bytes_written[wread] > 0)
    BY <1>3 DEF AcquireTake, AcquireOn, Goto
<1> QED
    BY <1>2, <1>3

(* a step outside the shared pointers *)
PointersKept ==
    /\ UNCHANGED <<current_stack, slots, tmp_stack, live, wstack>>
    /\ (\E a \in Actors : pc'[a] = "swap_put") => UNCHANGED scan
    /\ \A b \in Actors : pc'[b] = "swap_put" <=> pc[b] = "swap_put"

LEMMA KeptOrMoved ==
    ASSUME TypeOK, [Next]_vars
    PROVE  \/ PointersKept
           \/ \E a \in Actors : \/ RotateKeep(a) \/ RotateSwap(a) \/ RotateSwapPut(a)
                                \/ RotateStore(a) \/ RotateStorePut(a) \/ NewStackAlloc(a)
           \/ AcquireTake \/ FreeStack
<1> USE ActorsAssumption DEF PointersKept, Goto, globals, heap, rot, wrt, TypeOK, TypeControl
<1>1. ASSUME OutsideStep, UNCHANGED <<slots, live, wstack>> PROVE PointersKept
    BY <1>1 DEF OutsideStep, RotatePCs
<1>2. ASSUME NEW a \in Actors, RotateLock(a) \/ RotateCheck(a) \/ NewStackGrow(a) PROVE PointersKept
    BY <1>2 DEF RotateLock, RotateCheck, RotateReturn, NewStackGrow
<1>3. ASSUME NEW p \in Producers, BufferData(p) \/ Store(p) PROVE UNCHANGED <<slots, live, wstack>>
    BY <1>3 DEF BufferData, Store, StoreLoad, StorePin, StoreReserve, StoreWrite,
       StoreUnpin
<1>5. ASSUME WriterCycle \/ AcquireRead \/ AcquireRefcount \/ SendStack PROVE UNCHANGED <<slots, live, wstack>>
    BY <1>5 DEF WriterCycle, AcquireRead, AcquireRefcount, SendStack
<1>4. CASE UNCHANGED vars
    BY <1>4 DEF vars
<1> QED
    BY <1>1, <1>2, <1>3, <1>4, <1>5, Outside DEF Next, Rotate, WriterStep

(* a step outside the shared pointers leaves every stack where it is *)
LEMMA OwnershipFrame ==
    ASSUME Ownership, PointersKept
    PROVE  Ownership'
BY DEF PointersKept, Ownership, OneSlot, SlotOrCurrent, SlotOrSending, ReachableIsLive,
   NoLeak,
   Reachable, InArray, MidSwap

(* a stack is in one place, and none is forgotten *)
LEMMA OwnershipNext ==
    ASSUME TypeOK, MutexHeld, Transit, ~raced', Ownership, [Next]_vars
    PROVE  Ownership'
<1> USE ActorsAssumption, BoundsAssumption
<1>1. CASE PointersKept
    BY <1>1, OwnershipFrame
<1>2. ASSUME NEW a \in Actors, RotateKeep(a) PROVE Ownership'
  <2>1. pc[a] \in RotatePCs /\ (\A b \in Actors : b # a => pc[b] \notin RotatePCs)
      BY <1>2, OneRotation DEF RotateKeep, RotatePCs
  <2>2. \A b \in Actors : pc'[b] # "swap_put"
      BY <1>2, <2>1 DEF RotateKeep, Goto, RotatePCs, TypeOK, TypeControl
  <2>3. UNCHANGED <<current_stack, slots, live, wstack>>
      BY <1>2 DEF RotateKeep, heap, wrt
  <2>4. tmp_stack = NULL /\ tmp_stack' \in {tmp_stack, current_stack}
      BY <1>2, <2>1 DEF RotateKeep, Transit, TransitPCs, RotatePCs
  <2>5. \A b \in Actors : pc[b] # "swap_put"
      BY <1>2, <2>1 DEF RotateKeep, RotatePCs
  <2>6. \A i \in Slots : slots[i] # NULL => slots[i] # current_stack
      BY <2>5 DEF Ownership, SlotOrCurrent, MidSwap
  <2>7. OneSlot' /\ SlotOrCurrent' /\ SlotOrSending' /\ ReachableIsLive'
      BY <2>3, <2>4, <2>6 DEF Ownership, OneSlot, SlotOrCurrent, SlotOrSending,
         ReachableIsLive
  <2>8. NoLeak'
      BY <2>3, <2>4 DEF Ownership, NoLeak, Reachable, InArray
  <2> QED
      BY <2>2, <2>3, <2>4, <2>6, <2>7, <2>8 DEF Ownership, SlotOrSending
<1>3. ASSUME NEW a \in Actors, RotateSwap(a) PROVE Ownership'
  <2>1. pc[a] \in RotatePCs /\ (\A b \in Actors : b # a => pc[b] \notin RotatePCs)
      BY <1>3, OneRotation DEF RotateSwap, RotatePCs
  <2>2. tmp_stack = current_stack /\ current_stack # NULL
      BY <1>3 DEF RotateSwap, Transit, TransitPCs
  <2>3. UNCHANGED <<slots, tmp_stack, live, wstack>>
      BY <1>3 DEF RotateSwap, wrt
  <2>4. \A b \in Actors : pc[b] # "swap_put"
      BY <1>3, <2>1 DEF RotateSwap, RotatePCs
  <2>5. \A i \in Slots : slots[i] # NULL => slots[i] # current_stack
      BY SMTT(60), <2>4 DEF Ownership, SlotOrCurrent, MidSwap
  <2>6. CASE Reusable(a, slots[scan])
    <3>1. current_stack' = slots[scan] /\ slots[scan] # NULL /\ scan' = scan
        BY <1>3, <2>6 DEF RotateSwap, Reusable
    <3>2. pc' = [pc EXCEPT ![a] = "swap_put"]
        BY <1>3, <2>6 DEF RotateSwap, Goto
    <3>3. scan \in Slots /\ pc'[a] = "swap_put"
        BY <3>2 DEF TypeOK, TypeRotation, TypeControl
    <3>4. OneSlot' /\ SlotOrCurrent'
        BY <2>3, <3>1, <3>3 DEF Ownership, OneSlot, SlotOrCurrent, MidSwap
    <3>5. SlotOrSending' /\ ReachableIsLive' /\ NoLeak'
        BY SMTT(60), <2>2, <2>3, <3>1, <3>3 DEF Ownership, SlotOrSending, ReachableIsLive, NoLeak,
           Reachable, InArray
    <3> QED
        BY <2>2, <2>3, <2>5, <3>1, <3>3, <3>4, <3>5 DEF Ownership
  <2>7. CASE ~Reusable(a, slots[scan])
    <3>1. current_stack' = current_stack /\ pc' \in {pc, [pc EXCEPT ![a] = "store"]}
        BY <1>3, <2>7 DEF RotateSwap, ScanOn, Goto
    <3>2. \A b \in Actors : pc'[b] # "swap_put"
        BY <2>4, <3>1 DEF TypeOK, TypeControl
    <3> QED
        BY <2>3, <2>5, <3>1, <3>2 DEF Ownership, OneSlot, SlotOrCurrent, SlotOrSending,
           ReachableIsLive, NoLeak, Reachable, InArray, MidSwap
  <2> QED
      BY <2>6, <2>7
<1>4. ASSUME NEW a \in Actors, RotateSwapPut(a) PROVE Ownership'
  <2>1. pc[a] \in RotatePCs /\ (\A b \in Actors : b # a => pc[b] \notin RotatePCs)
      BY <1>4, OneRotation DEF RotateSwapPut, RotatePCs
  <2>2. \A b \in Actors : pc'[b] # "swap_put"
      BY <1>4, <2>1 DEF RotateSwapPut, Goto, RotatePCs, TypeOK, TypeControl
  <2>3. slots[scan] = current_stack /\ tmp_stack # current_stack /\ tmp_stack # NULL
      BY <1>4 DEF RotateSwapPut, Transit, TransitPCs, Ownership
  <2>4. UNCHANGED <<current_stack, live, wstack>> /\ tmp_stack' = NULL
      BY <1>4 DEF RotateSwapPut, heap, wrt
  <2>5. slots' = [slots EXCEPT ![scan] = tmp_stack] /\ scan \in Slots
        /\ slots \in [Slots -> Stacks \cup {NULL}]
      BY <1>4 DEF RotateSwapPut, TypeOK, TypeRotation, TypeGlobals
  <2>6. OneSlot' /\ SlotOrCurrent' /\ SlotOrSending'
      BY <2>3, <2>4, <2>5 DEF Ownership, OneSlot, SlotOrCurrent, SlotOrSending, MidSwap
  <2>7. ReachableIsLive'
      BY <2>4, <2>5 DEF Ownership, ReachableIsLive
  <2>8. NoLeak'
      BY <2>3, <2>4, <2>5 DEF Ownership, NoLeak, Reachable, InArray
  <2> QED
      BY <2>2, <2>4, <2>6, <2>7, <2>8 DEF Ownership, SlotOrSending
<1>5. ASSUME NEW a \in Actors, RotateStore(a) PROVE Ownership'
  <2>1. pc[a] \in RotatePCs /\ (\A b \in Actors : b # a => pc[b] \notin RotatePCs)
      BY <1>5, OneRotation DEF RotateStore, RotatePCs
  <2>2. \A b \in Actors : pc[b] # "swap_put" /\ pc'[b] # "swap_put"
      BY <1>5, <2>1 DEF RotateStore, ScanOn, Goto, RotatePCs, TypeOK, TypeControl
  <2>3. tmp_stack = current_stack /\ UNCHANGED <<slots, live, wstack>>
      BY <1>5 DEF RotateStore, Transit, heap, wrt
  <2>4. \/ current_stack' = NULL /\ tmp_stack' = tmp_stack
        \/ current_stack' = current_stack /\ tmp_stack' \in {NULL, tmp_stack}
      BY <1>5 DEF RotateStore
  <2>5. \A i \in Slots : slots[i] # NULL => slots[i] # current_stack
      BY <2>2 DEF Ownership, SlotOrCurrent, MidSwap
  <2>6. OneSlot' /\ SlotOrCurrent' /\ SlotOrSending' /\ ReachableIsLive'
    <3>1. OneSlot'
        BY <2>3 DEF Ownership, OneSlot
    <3>2. SlotOrCurrent'
        BY <2>3, <2>4, <2>5 DEF SlotOrCurrent
    <3>3. SlotOrSending'
        BY <2>3, <2>4 DEF Ownership, SlotOrSending
    <3>4. ReachableIsLive'
        BY <2>3, <2>4 DEF Ownership, ReachableIsLive
    <3> QED
        BY <3>1, <3>2, <3>3, <3>4
  <2>7. NoLeak'
      BY <2>3, <2>4 DEF Ownership, NoLeak, Reachable, InArray
  <2> QED
      BY <2>2, <2>3, <2>4, <2>5, <2>6, <2>7 DEF Ownership, SlotOrSending
<1>6. ASSUME NEW a \in Actors, RotateStorePut(a) PROVE Ownership'
  <2>1. pc[a] \in RotatePCs /\ (\A b \in Actors : b # a => pc[b] \notin RotatePCs)
      BY <1>6, OneRotation DEF RotateStorePut, RotatePCs
  <2>2. \A b \in Actors : pc[b] # "swap_put" /\ pc'[b] # "swap_put"
      BY <1>6, <2>1 DEF RotateStorePut, Goto, RotatePCs, TypeOK, TypeControl
  <2>3. current_stack = NULL /\ tmp_stack # NULL /\ slots[scan] = NULL
      BY <1>6 DEF RotateStorePut, Transit, TransitPCs
  <2>4. UNCHANGED <<current_stack, live, wstack>> /\ tmp_stack' = NULL
      BY <1>6 DEF RotateStorePut, heap, wrt
  <2>5. slots' = [slots EXCEPT ![scan] = tmp_stack] /\ scan \in Slots
        /\ slots \in [Slots -> Stacks \cup {NULL}]
      BY <1>6 DEF RotateStorePut, TypeOK, TypeRotation, TypeGlobals
  <2>6. OneSlot' /\ SlotOrCurrent' /\ SlotOrSending'
      BY <2>3, <2>4, <2>5 DEF Ownership, OneSlot, SlotOrCurrent, SlotOrSending
  <2>7. ReachableIsLive'
      BY <2>4, <2>5 DEF Ownership, ReachableIsLive
  <2>8. NoLeak'
      BY <2>3, <2>4, <2>5 DEF Ownership, NoLeak, Reachable, InArray
  <2> QED
      BY <2>2, <2>4, <2>6, <2>7, <2>8 DEF Ownership, SlotOrSending
<1>7. ASSUME NEW a \in Actors, NewStackAlloc(a) PROVE Ownership'
  <2>1. pc[a] = "alloc" /\ (\A b \in Actors : b # a => pc[b] \notin RotatePCs)
      BY <1>7, OneRotation DEF NewStackAlloc, RotatePCs
  <2>2. \A b \in Actors : pc'[b] # "swap_put"
      BY <1>7, <2>1 DEF NewStackAlloc, RotateReturn, Goto, RotatePCs, TypeOK,
         TypeControl
  <2>3. current_stack = NULL /\ tmp_stack = NULL
      BY <2>1 DEF Transit, TransitPCs, RotatePCs
  <2>4. PICK x \in Stacks \ live : live' = live \cup {x} /\ current_stack' = x
      BY <1>7 DEF NewStackAlloc
  <2>5. UNCHANGED <<slots, tmp_stack, wstack>>
      BY <1>7 DEF NewStackAlloc
  <2>6. \A i \in Slots : slots[i] # x
      BY <2>4 DEF Ownership, ReachableIsLive
  <2>7. wstack # x
      BY <2>4 DEF Ownership, ReachableIsLive
  <2>8. OneSlot' /\ SlotOrCurrent' /\ SlotOrSending'
      BY <2>4, <2>5, <2>6, <2>7 DEF Ownership, OneSlot, SlotOrCurrent, SlotOrSending
  <2>9. ReachableIsLive' /\ NoLeak'
      BY <2>3, <2>4, <2>5 DEF Ownership, ReachableIsLive, NoLeak, Reachable, InArray
  <2> QED
      BY <2>2, <2>5, <2>8, <2>9 DEF Ownership
<1>8. CASE AcquireTake
  <2>1. UNCHANGED <<current_stack, tmp_stack, live, scan>>
      BY <1>8 DEF AcquireTake, heap, rot
  <2>2. \A b \in Actors : pc'[b] = "swap_put" <=> pc[b] = "swap_put"
      BY <1>8, TakeCases DEF AcquireTake, TypeOK, TypeControl
  <2>3. CASE UNCHANGED <<slots, wstack>>
      BY <2>1, <2>2, <2>3, OwnershipFrame DEF PointersKept
  <2>4. CASE /\ wread \in Stacks /\ slots[wscan] = wread /\ wread # current_stack
             /\ wstack = NULL /\ wstack' = wread /\ slots' = [slots EXCEPT ![wscan] = NULL]
    <3>1. wscan \in Slots /\ wread # NULL /\ slots \in [Slots -> Stacks \cup {NULL}]
        BY <2>4 DEF TypeOK, TypeWriter, TypeGlobals
    <3>2. OneSlot' /\ SlotOrCurrent'
        BY <2>1, <2>2, <2>4, <3>1 DEF Ownership, OneSlot, SlotOrCurrent, MidSwap
    <3>3. SlotOrSending' /\ wread # tmp_stack
        BY <2>1, <2>4, <3>1 DEF Ownership, OneSlot, SlotOrSending
    <3>4. ReachableIsLive'
        BY <2>1, <2>4, <3>1 DEF Ownership, ReachableIsLive
    <3>5. NoLeak'
        BY <2>1, <2>4, <3>1 DEF Ownership, NoLeak, Reachable, InArray
    <3>6. (\E a \in Actors : pc'[a] = "swap_put") =>
             slots'[scan] = current_stack /\ tmp_stack # current_stack
        BY <2>1, <2>2, <2>4, <3>1 DEF Ownership, TypeOK, TypeRotation
    <3> QED
        BY <2>1, <2>4, <3>1, <3>2, <3>3, <3>4, <3>5, <3>6 DEF Ownership
  <2> QED
      BY <1>8, <2>3, <2>4, TakeCases
<1>9. CASE FreeStack
  <2>1. UNCHANGED <<current_stack, slots, tmp_stack, scan>>
      BY <1>9 DEF FreeStack, globals, rot
  <2>2. \A b \in Actors : pc'[b] = "swap_put" <=> pc[b] = "swap_put"
      BY <1>9 DEF FreeStack, Goto, TypeOK, TypeControl
  <2>3. wstack # NULL /\ wstack' = NULL /\ live' = live \ {wstack}
      BY <1>9 DEF FreeStack, Freed, TypeOK, PointersLoaded
  <2>4. OneSlot' /\ SlotOrCurrent' /\ SlotOrSending'
      BY <2>1, <2>2, <2>3 DEF Ownership, OneSlot, SlotOrCurrent, SlotOrSending, MidSwap
  <2>5. ReachableIsLive'
    <3>1. wstack \notin {current_stack, tmp_stack} /\ \A i \in Slots : slots[i] # wstack
        BY <2>3 DEF Ownership, SlotOrSending
    <3> QED
        BY <2>1, <2>3, <3>1 DEF Ownership, ReachableIsLive
  <2>6. NoLeak'
      BY <2>1, <2>3 DEF Ownership, NoLeak, Reachable, InArray
  <2> QED
      BY <2>1, <2>2, <2>3, <2>4, <2>5, <2>6 DEF Ownership
<1> QED
    BY <1>1, <1>2, <1>3, <1>4, <1>5, <1>6, <1>7, <1>8, <1>9, KeptOrMoved

-----------------------------------------------------------------------------
(* nobody works on a stack whose count is zero *)
LEMMA Unpinned ==
    ASSUME Counted, NEW s \in live, refcount[s] = 0
    PROVE  \A p \in Producers : pc[p] \in PinnedPCs => st[p] # s
<1>1. IsFiniteSet(Pinners(s))
    BY ActorsAssumption, FS_Subset DEF Pinners
<1>2. Pinners(s) = {}
    BY <1>1, FS_EmptySet DEF Counted
<1> QED
    BY <1>2 DEF Pinners

(* a step that changes no stack and pins, unpins and sends nothing *)
QuietStep ==
    /\ UNCHANGED <<live, refcount, bytes_written, entries, accepted, done, wstack>>
    /\ \A p \in Producers :
         /\ pc'[p] \in PinnedPCs <=> pc[p] \in PinnedPCs
         /\ pc'[p] = "unpin" => pc[p] = "unpin"
         /\ pc'[p] \in PinnedPCs => st'[p] = st[p] /\ job'[p] = job[p]
    /\ pc'[Writer] = "free" => pc[Writer] = "free"

LEMMA QuietOrNot ==
    ASSUME TypeOK, [Next]_vars
    PROVE  \/ QuietStep
           \/ \E p \in Producers : StorePin(p) \/ StoreWrite(p) \/ StoreUnpin(p)
           \/ \E a \in Actors : RotateSwap(a) \/ NewStackAlloc(a)
           \/ AcquireTake \/ SendStack \/ FreeStack
<1> USE ActorsAssumption DEF QuietStep, PinnedPCs, Goto, heap, prod, wrt, hist, TypeOK, TypeControl, TypeProducers
<1>1. ASSUME NEW p \in Producers, BufferData(p) \/ StoreReserve(p) PROVE QuietStep
    BY SMTT(60), <1>1 DEF BufferData, StoreReserve
<1>2. ASSUME NEW p \in Producers, StoreLoad(p) PROVE QuietStep
    BY SMTT(60), <1>2 DEF StoreLoad, StoreFailed, Return
<1>3. ASSUME NEW a \in Actors, RotateLock(a) \/ RotateKeep(a) \/ RotateSwapPut(a) PROVE QuietStep
    BY <1>3 DEF RotateLock, RotateKeep, RotateSwapPut
<1>4. ASSUME NEW a \in Actors, RotateStore(a) \/ RotateStorePut(a) PROVE QuietStep
    BY SMTT(60), <1>4 DEF RotateStore, ScanOn, RotateStorePut
<1>5. ASSUME NEW a \in Actors, RotateCheck(a) \/ NewStackGrow(a) PROVE QuietStep
    BY SMTT(60), <1>5 DEF RotateCheck, RotateReturn, NewStackGrow
<1>6. CASE WriterCycle \/ AcquireRead \/ AcquireRefcount
    BY <1>6 DEF WriterCycle, AcquireRead, AcquireRefcount, AcquireOn
<1>7. CASE UNCHANGED vars
    BY <1>7 DEF vars
<1> QED
    BY <1>1, <1>2, <1>3, <1>4, <1>5, <1>6, <1>7 DEF Next, Store, Rotate, WriterStep

(* a stack with a thread in it is neither taken nor freed *)
LEMMA PinNext ==
    ASSUME TypeOK, MutexHeld, Transit, DataIsCounted, ~raced, ~raced',
           Ownership, StackOutlivesPin, Counted, Written, Kept, SentBeforeFree, [Next]_vars
    PROVE  StackOutlivesPin'
<1> USE ActorsAssumption, BoundsAssumption
<1>1. CASE QuietStep
    BY <1>1 DEF QuietStep, StackOutlivesPin
<1>2. ASSUME NEW p \in Producers, StorePin(p) PROVE StackOutlivesPin'
    BY <1>2, Pointed DEF StorePin, Goto, StackOutlivesPin, PinnedPCs, prod, wrt,
       Ownership,
       ReachableIsLive,
         SlotOrSending, TypeOK, TypeControl, TypeProducers, PointersLoaded
<1>3. ASSUME NEW p \in Producers, StoreWrite(p) PROVE StackOutlivesPin'
    BY <1>3 DEF StoreWrite, Goto, StackOutlivesPin, PinnedPCs, heap, prod, wrt,
       TypeOK, TypeControl
<1>4. ASSUME NEW p \in Producers, StoreUnpin(p) PROVE StackOutlivesPin'
  <2>1. \E l \in {"lock", "idle"} :
          pc' = [pc EXCEPT ![p] = l] /\ st' = [st EXCEPT ![p] = NULL]
      BY <1>4 DEF StoreUnpin, StoreFailed, Return, Goto
  <2>2. UNCHANGED <<live, wstack>>
      BY <1>4 DEF StoreUnpin, wrt
  <2> QED
      BY <2>1, <2>2 DEF StackOutlivesPin, PinnedPCs, TypeOK, TypeControl, TypeProducers
<1>5. ASSUME NEW a \in Actors, RotateSwap(a) PROVE StackOutlivesPin'
    BY <1>5 DEF RotateSwap, ScanOn, Goto, StackOutlivesPin, PinnedPCs, heap, prod,
       wrt, TypeOK,
       TypeControl
<1>6. ASSUME NEW a \in Actors, NewStackAlloc(a) PROVE StackOutlivesPin'
  <2>1. \E l \in {"acq_read", "load"} : pc' = [pc EXCEPT ![a] = l]
      BY <1>6 DEF NewStackAlloc, RotateReturn, Goto
  <2>2. live \subseteq live' /\ UNCHANGED <<st, wstack>>
      BY <1>6 DEF NewStackAlloc
  <2> QED
      BY <2>1, <2>2 DEF StackOutlivesPin, PinnedPCs, TypeOK, TypeControl
<1>7. CASE AcquireTake
  <2>1. UNCHANGED <<live, st>>
      BY <1>7 DEF AcquireTake, heap, prod
  <2>2. \E l \in {"send", "acq_read", "idle"} : pc' = [pc EXCEPT ![Writer] = l]
      BY <1>7, TakeCases
  <2>3. \/ wstack' = wstack
        \/ wread \in live /\ refcount[wread] = 0 /\ wstack' = wread
      BY <1>7, TakeCases DEF Ownership, ReachableIsLive, TypeOK, TypeWriter
  <2>4. \A p \in Producers : pc[p] \in PinnedPCs => st[p] # wstack'
      BY <2>3, Unpinned DEF StackOutlivesPin
  <2> QED
      BY <2>1, <2>2, <2>4 DEF StackOutlivesPin, PinnedPCs, TypeOK, TypeControl
<1>8. CASE SendStack
    BY <1>8 DEF SendStack, Goto, StackOutlivesPin, PinnedPCs, heap, prod, wrt, TypeOK,
       TypeControl
<1>9. CASE FreeStack
    BY <1>9 DEF FreeStack, Freed, Goto, StackOutlivesPin, PinnedPCs, prod, TypeOK, TypeControl,
       TypeHeap
<1> QED
    BY <1>1, <1>2, <1>3, <1>4, <1>5, <1>6, <1>7, <1>8, <1>9, QuietOrNot

(* a step that pins and unpins nobody keeps the counts *)
LEMMA CountFrame ==
    ASSUME Counted, live' \subseteq live, \A s \in live' : refcount'[s] = refcount[s],
           \A p \in Producers :
             /\ pc'[p] \in PinnedPCs <=> pc[p] \in PinnedPCs
             /\ pc'[p] \in PinnedPCs => st'[p] = st[p]
    PROVE  Counted'
<1>1. \A s \in live' : Pinners(s)' = Pinners(s)
    BY DEF Pinners
<1> QED
    BY <1>1 DEF Counted

(* refcount goes up and down with the threads in the stack *)
LEMMA CountNext ==
    ASSUME TypeOK, MutexHeld, Transit, DataIsCounted, ~raced, ~raced',
           Ownership, StackOutlivesPin, Counted, Written, Kept, SentBeforeFree, [Next]_vars
    PROVE  Counted'
<1> USE ActorsAssumption, BoundsAssumption
<1>1. CASE QuietStep
    BY <1>1, CountFrame DEF QuietStep
<1>2. ASSUME NEW p \in Producers, StorePin(p) PROVE Counted'
  <2>1. st[p] \in Stacks /\ pc[p] = "pin" /\ pc' = [pc EXCEPT ![p] = "reserve"]
      BY <1>2, Pointed DEF StorePin, Goto
  <2>2. live' = live /\ st' = st /\ refcount' = [refcount EXCEPT ![st[p]] = @ + 1]
      BY <1>2 DEF StorePin, prod
  <2>3. SUFFICES ASSUME NEW s \in live' PROVE refcount'[s] = Cardinality(Pinners(s)')
      BY DEF Counted
  <2>4. refcount \in [Stacks -> Int] /\ s \in Stacks /\ s \in live
      BY <2>2 DEF TypeOK, TypeHeap
  <2>5. refcount[s] = Cardinality(Pinners(s)) /\ IsFiniteSet(Pinners(s))
      BY <2>4, FS_Subset DEF Counted, Pinners
  <2>6. CASE s = st[p]
    <3>1. p \notin Pinners(s) /\ Pinners(s)' = Pinners(s) \cup {p}
        BY <2>1, <2>2, <2>6 DEF Pinners, PinnedPCs, TypeOK, TypeControl
    <3>2. Cardinality(Pinners(s)') = Cardinality(Pinners(s)) + 1
        BY <2>5, <3>1, FS_AddElement
    <3> QED
        BY <2>2, <2>4, <2>5, <2>6, <3>2
  <2>7. CASE s # st[p]
    <3>1. Pinners(s)' = Pinners(s)
        BY <2>1, <2>2, <2>7 DEF Pinners, PinnedPCs, TypeOK, TypeControl
    <3> QED
        BY <2>2, <2>4, <2>5, <2>7, <3>1
  <2> QED
      BY <2>6, <2>7
<1>3. ASSUME NEW p \in Producers, StoreWrite(p) PROVE Counted'
  <2>1. UNCHANGED <<live, refcount>>
      BY <1>3 DEF StoreWrite, heap
  <2>2. \A q \in Producers :
          /\ pc'[q] \in PinnedPCs <=> pc[q] \in PinnedPCs
          /\ pc'[q] \in PinnedPCs => st'[q] = st[q]
      BY <1>3 DEF StoreWrite, Goto, PinnedPCs, prod, TypeOK, TypeControl, TypeProducers
  <2> QED
      BY <2>1, <2>2, CountFrame
<1>4. ASSUME NEW p \in Producers, StoreUnpin(p) PROVE Counted'
  <2>1. st[p] \in Stacks /\ pc[p] \in PinnedPCs
      BY <1>4, Pointed DEF StoreUnpin, PinnedPCs
  <2>2. /\ \E l \in {"lock", "idle"} : pc' = [pc EXCEPT ![p] = l]
        /\ st' = [st EXCEPT ![p] = NULL]
      BY <1>4 DEF StoreUnpin, StoreFailed, Return, Goto
  <2>3. live' = live /\ refcount' = [refcount EXCEPT ![st[p]] = @ - 1]
      BY <1>4 DEF StoreUnpin
  <2>4. SUFFICES ASSUME NEW s \in live' PROVE refcount'[s] = Cardinality(Pinners(s)')
      BY SMTT(60) DEF Counted
  <2>5. refcount \in [Stacks -> Int] /\ s \in Stacks /\ s \in live
      BY <2>3 DEF TypeOK, TypeHeap
  <2>6. refcount[s] = Cardinality(Pinners(s)) /\ IsFiniteSet(Pinners(s))
      BY SMTT(60), <2>5, FS_Subset DEF Counted, Pinners
  <2>7. Pinners(s)' = Pinners(s) \ {p}
      BY SMTT(60), <2>1, <2>2 DEF Pinners, PinnedPCs, TypeOK, TypeControl, TypeProducers
  <2>8. CASE s = st[p]
    <3>1. p \in Pinners(s)
        BY <2>1, <2>8 DEF Pinners
    <3>2. Cardinality(Pinners(s)') = Cardinality(Pinners(s)) - 1
        BY <2>6, <2>7, <3>1, FS_RemoveElement
    <3> QED
        BY <2>3, <2>5, <2>6, <2>8, <3>2
  <2>9. CASE s # st[p]
    <3>1. Pinners(s)' = Pinners(s)
        BY <2>7, <2>9 DEF Pinners
    <3> QED
        BY <2>3, <2>5, <2>6, <2>9, <3>1
  <2> QED
      BY SMTT(60), <2>8, <2>9
<1>5. ASSUME NEW a \in Actors, RotateSwap(a) PROVE Counted'
  <2>1. live' = live /\ (\A s \in Stacks : refcount'[s] = refcount[s])
      BY <1>5 DEF RotateSwap, Reusable, IsStackFree, Blank, TypeOK, TypeHeap
  <2>2. \A q \in Producers :
          /\ pc'[q] \in PinnedPCs <=> pc[q] \in PinnedPCs
          /\ pc'[q] \in PinnedPCs => st'[q] = st[q]
      BY <1>5 DEF RotateSwap, ScanOn, Goto, PinnedPCs, prod, TypeOK, TypeControl
  <2> QED
      BY <2>1, <2>2, CountFrame DEF TypeOK, TypeHeap
<1>6. ASSUME NEW a \in Actors, NewStackAlloc(a) PROVE Counted'
  <2>1. PICK x \in Stacks \ live : live' = live \cup {x} /\ refcount' = [refcount EXCEPT ![x] = 0]
      BY <1>6 DEF NewStackAlloc, Blank
  <2>2. \A q \in Producers :
          /\ pc'[q] \in PinnedPCs <=> pc[q] \in PinnedPCs
          /\ pc'[q] \in PinnedPCs => st'[q] = st[q]
      BY <1>6 DEF NewStackAlloc, RotateReturn, Goto, PinnedPCs, TypeOK, TypeControl
  <2>3. \A s \in Stacks : Pinners(s)' = Pinners(s)
      BY <2>2 DEF Pinners
  <2>4. Pinners(x) = {}
      BY DEF Pinners, StackOutlivesPin
  <2>5. Cardinality(Pinners(x)) = 0
      BY <2>4, FS_EmptySet
  <2> QED
      BY SMTT(60), <2>1, <2>3, <2>5 DEF Counted, TypeOK, TypeHeap
<1>7. CASE AcquireTake
  <2>1. UNCHANGED <<live, refcount>>
      BY <1>7 DEF AcquireTake, heap
  <2>2. \A q \in Producers :
          /\ pc'[q] \in PinnedPCs <=> pc[q] \in PinnedPCs
          /\ pc'[q] \in PinnedPCs => st'[q] = st[q]
      BY <1>7 DEF AcquireTake, AcquireOn, ClearSlot, Goto, PinnedPCs, prod, TypeOK,
         TypeControl,
         TypeProducers
  <2> QED
      BY <2>1, <2>2, CountFrame
<1>8. CASE SendStack
  <2>1. UNCHANGED <<live, refcount>>
      BY <1>8 DEF SendStack, heap
  <2>2. \A q \in Producers :
          /\ pc'[q] \in PinnedPCs <=> pc[q] \in PinnedPCs
          /\ pc'[q] \in PinnedPCs => st'[q] = st[q]
      BY <1>8 DEF SendStack, Goto, PinnedPCs, prod, TypeOK, TypeControl, TypeProducers
  <2> QED
      BY SMTT(60), <2>1, <2>2, CountFrame
<1>9. CASE FreeStack
  <2>1. wstack \in Stacks /\ live' = live \ {wstack} /\ refcount' = [refcount EXCEPT ![wstack] = 0]
      BY <1>9 DEF FreeStack, Freed, Blank, TypeOK, TypeWriter, PointersLoaded
  <2>2. \A s \in live' : refcount'[s] = refcount[s]
      BY <2>1 DEF TypeOK, TypeHeap
  <2>3. \A q \in Producers :
          /\ pc'[q] \in PinnedPCs <=> pc[q] \in PinnedPCs
          /\ pc'[q] \in PinnedPCs => st'[q] = st[q]
      BY <1>9 DEF FreeStack, Goto, PinnedPCs, prod, TypeOK, TypeControl
  <2> QED
      BY <2>1, <2>2, <2>3, CountFrame
<1> QED
    BY <1>1, <1>2, <1>3, <1>4, <1>5, <1>6, <1>7, <1>8, <1>9, QuietOrNot

(* entries and bytes_written grow and are zeroed together *)
LEMMA DataNext ==
    ASSUME TypeOK, DataIsCounted, [Next]_vars
    PROVE  DataIsCounted'
<1> USE ActorsAssumption, BoundsAssumption
<1>1. CASE QuietStep
    BY <1>1 DEF QuietStep, DataIsCounted
<1>2. ASSUME NEW p \in Producers, StorePin(p) PROVE DataIsCounted'
    BY <1>2 DEF StorePin, DataIsCounted, heap
<1>3. ASSUME NEW p \in Producers, StoreWrite(p) PROVE DataIsCounted'
  <2>0. st[p] \in Stacks
      BY <1>3, Pointed DEF StoreWrite, PinnedPCs
  <2>1. Alloc(p) \in Nat \ {0}
      BY SMTT(60) DEF Alloc, Header, TypeOK, TypeProducers, Payloads
  <2>2. \A s \in Stacks : s # st[p] => entries'[s] = entries[s] /\ bytes_written'[s] = bytes_written[s]
      BY <1>3 DEF StoreWrite, TypeOK, TypeHeap
  <2>3. bytes_written'[st[p]] = bytes_written[st[p]] + Alloc(p) /\ bytes_written[st[p]] \in Nat
      BY <1>3, <2>0, <2>1 DEF StoreWrite, TypeOK, TypeHeap
  <2>4. bytes_written'[st[p]] # 0
      BY SMTT(60), <2>1, <2>3
  <2> QED
      BY <2>2, <2>4 DEF DataIsCounted
<1>4. ASSUME NEW p \in Producers, StoreUnpin(p) PROVE DataIsCounted'
    BY <1>4 DEF StoreUnpin, DataIsCounted, heap
<1>5. ASSUME NEW a \in Actors, RotateSwap(a) PROVE DataIsCounted'
  <2>1. slots[scan] \in Stacks \cup {NULL}
      BY DEF TypeOK, TypeGlobals, TypeRotation
  <2>2. CASE Reusable(a, slots[scan])
      BY <1>5, <2>1, <2>2 DEF RotateSwap, Reusable, Blank, DataIsCounted, TypeOK,
         TypeHeap
  <2>3. CASE ~Reusable(a, slots[scan])
      BY <1>5, <2>3 DEF RotateSwap, DataIsCounted
  <2> QED
      BY <2>2, <2>3
<1>6. ASSUME NEW a \in Actors, NewStackAlloc(a) PROVE DataIsCounted'
    BY <1>6 DEF NewStackAlloc, Blank, DataIsCounted, TypeOK, TypeHeap
<1>7. CASE AcquireTake
    BY <1>7 DEF AcquireTake, DataIsCounted, heap
<1>8. CASE SendStack
    BY <1>8 DEF SendStack, DataIsCounted, heap
<1>9. CASE FreeStack
    BY <1>9 DEF FreeStack, Blank, DataIsCounted, TypeOK, TypeHeap, TypeWriter,
       PointersLoaded
<1> QED
    BY <1>1, <1>2, <1>3, <1>4, <1>5, <1>6, <1>7, <1>8, <1>9, QuietOrNot

(* a step that changes no entry of an allocated stack keeps the ledger *)
LEMMA LedgerFrame ==
    ASSUME TypeOK, Ownership, StackOutlivesPin, Written, Kept, SentBeforeFree,
           live \subseteq live', \A s \in live : entries'[s] = entries[s],
           UNCHANGED <<accepted, done>>,
           \A p \in Producers : pc'[p] = "unpin" =>
              pc[p] = "unpin" /\ st'[p] = st[p] /\ job'[p] = job[p],
           pc'[Writer] = "free" => pc[Writer] = "free" /\ wstack' = wstack
    PROVE  Written' /\ Kept' /\ SentBeforeFree'
<1>1. Written'
    BY SMTT(60) DEF Written, Holds, StackOutlivesPin, PinnedPCs
<1>2. Kept'
    BY SMTT(60) DEF Kept, Holds
<1>3. pc[Writer] = "free" => wstack \in live
    BY DEF TypeOK, PointersLoaded, Ownership, ReachableIsLive
<1>4. SentBeforeFree'
    BY <1>3 DEF SentBeforeFree
<1> QED
    BY <1>1, <1>2, <1>4

(* what buffer_data accepted stays in memory until it is sent *)
LEMMA LedgerNext ==
    ASSUME TypeOK, MutexHeld, Transit, DataIsCounted, ~raced, ~raced',
           Ownership, StackOutlivesPin, Counted, Written, Kept, SentBeforeFree, [Next]_vars
    PROVE  Written' /\ Kept' /\ SentBeforeFree'
<1> USE ActorsAssumption, BoundsAssumption
<1>1. CASE QuietStep
    BY <1>1, LedgerFrame DEF QuietStep, PinnedPCs
<1>2. ASSUME NEW p \in Producers, StorePin(p) PROVE Written' /\ Kept' /\ SentBeforeFree'
  <2>1. UNCHANGED <<live, entries, accepted, done>>
      BY <1>2 DEF StorePin, heap, hist
  <2>2. \A q \in Producers : pc'[q] = "unpin" =>
          pc[q] = "unpin" /\ st'[q] = st[q] /\ job'[q] = job[q]
      BY <1>2 DEF StorePin, Goto, prod, TypeOK, TypeControl, TypeProducers
  <2>3. pc'[Writer] = "free" => pc[Writer] = "free" /\ wstack' = wstack
      BY <1>2 DEF StorePin, Goto, wrt, TypeOK, TypeControl
  <2> QED
      BY <2>1, <2>2, <2>3, LedgerFrame
<1>3. ASSUME NEW p \in Producers, StoreWrite(p) PROVE Written' /\ Kept' /\ SentBeforeFree'
  <2>1. st[p] \in live /\ st[p] \in Stacks /\ st[p] # wstack
      BY <1>3 DEF StoreWrite, StackOutlivesPin, PinnedPCs, TypeOK, TypeHeap
  <2>2. UNCHANGED <<live, accepted, done, st, job, wstack>>
      BY <1>3 DEF StoreWrite, prod, wrt, hist
  <2>3. pc' = [pc EXCEPT ![p] = "unpin"]
      BY <1>3 DEF StoreWrite, Goto
  <2>4. entries' = [entries EXCEPT ![st[p]] =
                      @ \cup {[tok |-> job[p].tok, pos |-> at[p], len |-> Alloc(p)]}]
      BY <1>3 DEF StoreWrite
  <2>5. \A s \in Stacks : entries[s] \subseteq entries'[s]
      BY <2>4 DEF TypeOK, TypeHeap
  <2>6. wstack # NULL => entries'[wstack] = entries[wstack]
      BY <2>1, <2>4 DEF TypeOK, TypeHeap, TypeWriter
  <2>7. [tok |-> job[p].tok, pos |-> at[p], len |-> Alloc(p)] \in entries'[st[p]]
      BY <2>1, <2>4 DEF TypeOK, TypeHeap
  <2>8. Holds(st[p], job[p].tok)'
      BY <2>2, <2>7 DEF Holds
  <2>9. Written'
      BY <2>2, <2>3, <2>5, <2>8 DEF Written, Holds, StackOutlivesPin, PinnedPCs, TypeOK,
         TypeControl, TypeHeap
  <2>10. Kept'
      BY <2>2, <2>5 DEF Kept, Holds, TypeOK, TypeHeap
  <2>11. SentBeforeFree'
      BY <2>2, <2>3, <2>6 DEF SentBeforeFree, TypeOK, TypeControl, PointersLoaded
  <2> QED
      BY <2>9, <2>10, <2>11
<1>4. ASSUME NEW p \in Producers, StoreUnpin(p) PROVE Written' /\ Kept' /\ SentBeforeFree'
  <2>1. UNCHANGED <<live, entries, done, wstack>>
      BY <1>4 DEF StoreUnpin, wrt
  <2>2. /\ \E l \in {"lock", "idle"} : pc' = [pc EXCEPT ![p] = l]
        /\ st' = [st EXCEPT ![p] = NULL]
        /\ job' \in {job, [job EXCEPT ![p] = NoJob]}
      BY <1>4 DEF StoreUnpin, StoreFailed, Return, Goto
  <2>3. Written'
      BY <2>1, <2>2 DEF Written, Holds, TypeOK, TypeControl, TypeProducers
  <2>4. SentBeforeFree'
      BY <2>1, <2>2 DEF SentBeforeFree, TypeOK, TypeControl
  <2>5. CASE pc[p] = "unpin"
    <3>1. st[p] \in live /\ Holds(st[p], job[p].tok)
        BY <2>5 DEF Written, StackOutlivesPin, PinnedPCs
    <3>2. accepted' = accepted \cup {job[p].tok}
        BY <1>4, <2>5 DEF StoreUnpin
    <3>3. Kept'
        BY <2>1, <3>1, <3>2 DEF Kept, Holds
    <3> QED
        BY <2>3, <2>4, <3>3
  <2>6. CASE pc[p] # "unpin"
    <3>1. accepted' = accepted
        BY <1>4, <2>6 DEF StoreUnpin
    <3> QED
        BY <2>1, <2>3, <2>4, <3>1 DEF Kept, Holds
  <2> QED
      BY <2>5, <2>6
<1>5. ASSUME NEW a \in Actors, RotateSwap(a) PROVE Written' /\ Kept' /\ SentBeforeFree'
  <2>1. slots[scan] \in Stacks \cup {NULL}
      BY DEF TypeOK, TypeGlobals, TypeRotation
  <2>2. \A s \in Stacks : entries'[s] = entries[s]
    <3>1. CASE Reusable(a, slots[scan])
      <4>1. slots[scan] \in Stacks /\ entries[slots[scan]] = {}
          BY <2>1, <3>1 DEF Reusable, IsStackFree, DataIsCounted
      <4>2. entries' = [entries EXCEPT ![slots[scan]] = {}]
          BY <1>5, <3>1 DEF RotateSwap, Blank
      <4> QED
          BY <4>1, <4>2 DEF TypeOK, TypeHeap
    <3>2. CASE ~Reusable(a, slots[scan])
        BY <1>5, <3>2 DEF RotateSwap
    <3> QED
        BY <3>1, <3>2
  <2>3. UNCHANGED <<live, accepted, done>>
      BY <1>5 DEF RotateSwap, hist
  <2>4. \A q \in Producers : pc'[q] = "unpin" =>
          pc[q] = "unpin" /\ st'[q] = st[q] /\ job'[q] = job[q]
      BY <1>5 DEF RotateSwap, ScanOn, Goto, prod, TypeOK, TypeControl
  <2>5. pc'[Writer] = "free" => pc[Writer] = "free" /\ wstack' = wstack
      BY <1>5 DEF RotateSwap, ScanOn, Goto, wrt, TypeOK, TypeControl
  <2> QED
      BY <2>2, <2>3, <2>4, <2>5, LedgerFrame DEF TypeOK, TypeHeap
<1>6. ASSUME NEW a \in Actors, NewStackAlloc(a) PROVE Written' /\ Kept' /\ SentBeforeFree'
  <2>1. live \subseteq live' /\ (\A s \in live : entries'[s] = entries[s])
      BY <1>6 DEF NewStackAlloc, Blank, TypeOK, TypeHeap
  <2>2. UNCHANGED <<accepted, done, st, job, wstack>>
      BY <1>6 DEF NewStackAlloc, hist
  <2>3. \E l \in {"acq_read", "load"} : pc' = [pc EXCEPT ![a] = l]
      BY SMTT(60), <1>6 DEF NewStackAlloc, RotateReturn, Goto
  <2>4. \A b \in Actors : pc'[b] \in {"unpin", "free"} => pc'[b] = pc[b]
      BY <2>3 DEF TypeOK, TypeControl
  <2> QED
      BY <2>1, <2>2, <2>4, LedgerFrame
<1>7. CASE AcquireTake
  <2>1. UNCHANGED <<live, entries, accepted, done>>
      BY <1>7 DEF AcquireTake, AcquireOn, ClearSlot, heap, hist
  <2>2. \A q \in Producers : pc'[q] = "unpin" =>
          pc[q] = "unpin" /\ st'[q] = st[q] /\ job'[q] = job[q]
      BY <1>7 DEF AcquireTake, AcquireOn, ClearSlot, Goto, prod, TypeOK, TypeControl,
         TypeProducers
  <2>3. pc'[Writer] = "free" => pc[Writer] = "free" /\ wstack' = wstack
      BY <1>7 DEF AcquireTake, AcquireOn, ClearSlot, Goto, wrt, TypeOK, TypeControl
  <2> QED
      BY <2>1, <2>2, <2>3, LedgerFrame
<1>8. CASE SendStack
  <2>1. UNCHANGED <<live, entries, accepted, st, job, wstack>>
      BY <1>8 DEF SendStack, heap, prod, wrt
  <2>2. pc' = [pc EXCEPT ![Writer] = "free"]
      BY <1>8 DEF SendStack, Goto
  <2>3. done' = done \cup {e.tok : e \in entries[wstack]}
      BY <1>8 DEF SendStack
  <2>4. Written'
      BY <2>1, <2>2 DEF Written, Holds, TypeOK, TypeControl
  <2>5. Kept'
      BY <2>1, <2>3 DEF Kept, Holds
  <2>6. SentBeforeFree'
      BY <2>1, <2>3 DEF SentBeforeFree
  <2> QED
      BY <2>4, <2>5, <2>6
<1>9. CASE FreeStack
  <2>1. UNCHANGED <<accepted, done, st, job>>
      BY <1>9 DEF FreeStack, prod, hist
  <2>2. pc[Writer] = "free" /\ pc' = [pc EXCEPT ![Writer] = "acq_read"]
      BY <1>9 DEF FreeStack, Goto
  <2>3. live' = live \ {wstack} /\ (\A s \in live' : entries'[s] = entries[s])
      BY <1>9 DEF FreeStack, Freed, Blank, TypeOK, TypeHeap
  <2>4. Written'
      BY <2>1, <2>2, <2>3 DEF Written, Holds, StackOutlivesPin, PinnedPCs, TypeOK,
         TypeControl
  <2>5. ASSUME NEW t \in accepted, t \notin done PROVE \E s \in live' : Holds(s, t)'
    <3>1. PICK s \in live : Holds(s, t)
        BY <2>5 DEF Kept
    <3>2. s # wstack
        BY <2>2, <2>5, <3>1 DEF SentBeforeFree, Holds
    <3> QED
        BY <2>3, <3>1, <3>2 DEF Holds
  <2>6. Kept'
      BY <2>1, <2>5 DEF Kept
  <2>7. SentBeforeFree'
      BY <2>2 DEF SentBeforeFree, TypeOK, TypeControl
  <2> QED
      BY SMTT(60), <2>4, <2>6, <2>7
<1> QED
    BY <1>1, <1>2, <1>3, <1>4, <1>5, <1>6, <1>7, <1>8, <1>9, QuietOrNot

(* a window once hit stays recorded *)
LEMMA RacedStays ==
    ASSUME raced, [Next]_vars
    PROVE  raced'
<1>1. ASSUME NEW p \in Producers, BufferData(p) \/ Store(p) PROVE raced'
    BY <1>1 DEF BufferData, Store, StoreLoad, StorePin, StoreReserve, StoreWrite,
       StoreUnpin, hist
<1>2. ASSUME NEW a \in Actors, Rotate(a) PROVE raced'
    BY <1>2 DEF Rotate, RotateLock, RotateKeep, RotateSwap, RotateSwapPut, RotateStore,
         RotateStorePut, RotateCheck, NewStackGrow, NewStackAlloc, hist
<1>3. CASE WriterStep
    BY <1>3 DEF WriterStep, WriterCycle, AcquireRead, AcquireRefcount, AcquireTake,
         SendStack, FreeStack, hist
<1>4. CASE UNCHANGED vars
    BY <1>4 DEF vars, hist
<1> QED
    BY <1>1, <1>2, <1>3, <1>4 DEF Next

LEMMA InvInit == Init => IInv
<1> SUFFICES ASSUME Init PROVE IInv
    BY SMTT(60)
<1> USE ActorsAssumption, BoundsAssumption
<1>1. TypeOK
    BY TypeInit
<1>2. MutexHeld /\ Transit /\ DataIsCounted
    BY DEF Init, MutexHeld, Transit, TransitPCs, DataIsCounted, RotatePCs
<1>3. Ownership
    BY DEF Init, Ownership, OneSlot, SlotOrCurrent, SlotOrSending, ReachableIsLive,
       NoLeak,
         Reachable, InArray
<1>4. StackOutlivesPin /\ Written /\ Kept /\ SentBeforeFree
    BY DEF Init, StackOutlivesPin, PinnedPCs, Written, Kept, SentBeforeFree
<1>5. Counted
  <2>1. \A s \in Stacks : Pinners(s) = {}
      BY DEF Init, Pinners, PinnedPCs
  <2> QED
      BY <2>1, FS_EmptySet DEF Init, Counted
<1> QED
    BY <1>1, <1>2, <1>3, <1>4, <1>5 DEF IInv

LEMMA InvNext == IInv /\ [Next]_vars => IInv'
<1> SUFFICES ASSUME IInv, [Next]_vars PROVE IInv'
    BY SMTT(60)
<1>1. TypeOK' /\ MutexHeld' /\ Transit' /\ DataIsCounted'
    BY TypeNext, MutexNext, TransitNext, DataNext DEF IInv
<1>2. ASSUME ~raced'
      PROVE  Ownership' /\ StackOutlivesPin' /\ Counted' /\ Written' /\ Kept' /\ SentBeforeFree'
  <2>1. ~raced
      BY <1>2, RacedStays
  <2> QED
      BY <1>2, <2>1, OwnershipNext, PinNext, CountNext, LedgerNext DEF IInv
<1> QED
    BY <1>1, <1>2 DEF IInv

(* the array, the current stack and the one being sent name every stack *)
LEMMA AtMostBacklogAndTwo ==
    ASSUME TypeOK, MutexHeld, Transit, Ownership
    PROVE  Cardinality(live) <= MaxBacklog + 2
<1> USE BoundsAssumption
<1> DEFINE Places == 1 .. MaxBacklog + 2
           InTransit(i) == i = scan /\ \E a \in Actors : pc[a] \in {"swap_put", "store_put"}
           f == [i \in Places |-> IF i = MaxBacklog + 1 THEN current_stack
                                  ELSE IF i = MaxBacklog + 2 THEN wstack
                                  ELSE IF InTransit(i) THEN tmp_stack ELSE slots[i]]
           Img == {f[i] : i \in Places}
<1>1. ASSUME NEW s \in live PROVE s \in Img
  <2>1. Reachable(s) /\ s # NULL
      BY DEF Ownership, NoLeak, Reachable
  <2>2. current_stack \in Img /\ wstack \in Img
    <3>1. f[MaxBacklog + 1] = current_stack /\ f[MaxBacklog + 2] = wstack
        BY SMTT(60)
    <3>2. MaxBacklog + 1 \in Places /\ MaxBacklog + 2 \in Places
        BY SMTT(60)
    <3> HIDE DEF f, Places
    <3> QED
        BY <3>1, <3>2
  <2>3. CASE s \in {current_stack, wstack}
      BY <2>2, <2>3
  <2>4. CASE s = tmp_stack
    <3>1. PICK a \in Actors : pc[a] \in TransitPCs
        BY <2>1, <2>4 DEF Transit
    <3>2. CASE pc[a] \in {"swap", "store"}
        BY <2>2, <2>4, <3>2 DEF Transit
    <3>3. CASE pc[a] \in {"swap_put", "store_put"}
      <4>1. InTransit(scan) /\ scan \in Places /\ scan \in Slots
          BY SMTT(60), <3>3 DEF TypeOK, TypeRotation
      <4>2. f[scan] = tmp_stack
          BY SMTT(60), <4>1
      <4> QED
          BY <2>4, <4>1, <4>2
    <3> QED
        BY <3>1, <3>2, <3>3 DEF TransitPCs
  <2>5. CASE InArray(s)
    <3>1. PICK i \in Slots : slots[i] = s
        BY <2>5 DEF InArray
    <3>2. CASE ~InTransit(i)
      <4>1. f[i] = slots[i] /\ i \in Places
          BY SMTT(60), <3>2
      <4> QED
          BY <3>1, <4>1
    <3>3. CASE InTransit(i)
      <4>1. s = current_stack
          BY <2>1, <3>1, <3>3 DEF Transit, Ownership
      <4> QED
          BY <2>2, <4>1
    <3> QED
        BY <3>2, <3>3
  <2> QED
      BY <2>1, <2>3, <2>4, <2>5 DEF Reachable
<1>2. IsFiniteSet(Places) /\ Cardinality(Places) = MaxBacklog + 2
    BY SMTT(60), FS_Interval
<1>3. IsFiniteSet(Img) /\ Cardinality(Img) <= Cardinality(Places)
  <2>1. f \in Surjection(Places, Img)
      BY DEF Surjection
  <2> HIDE DEF f, Img
  <2> QED
      BY <1>2, <2>1, FS_Surjection
<1>4. live \subseteq Img
    BY <1>1
<1>5. IsFiniteSet(live) /\ Cardinality(live) <= Cardinality(Img)
  <2> HIDE DEF Img
  <2> QED
      BY <1>3, <1>4, FS_Subset
<1>6. Cardinality(live) \in Nat /\ Cardinality(Img) \in Nat
  <2> HIDE DEF Img
  <2> QED
      BY <1>3, <1>5, FS_CardinalityType
<1> QED
  <2> HIDE DEF Img, Places
  <2> QED
      BY SMTT(60), <1>2, <1>3, <1>5, <1>6

(* While neither window was hit, a thread in dd_store_data works on a stack *)
(* that is allocated and not the writer's.                                  *)
THEOREM PinSafety == Spec => []PinnedStackAlive
<1>1. IInv => PinnedStackAlive
    BY DEF IInv, PinnedStackAlive
<1> QED
    BY <1>1, InvInit, InvNext, PTL DEF Spec

(* While neither window was hit, rotation and the writer keep every stack   *)
(* in exactly one place.                                                    *)
THEOREM Owned == Spec => []SingleOwner
<1>1. IInv => SingleOwner
    BY DEF IInv, SingleOwner, Ownership
<1> QED
    BY <1>1, InvInit, InvNext, PTL DEF Spec

(* While neither window was hit, the buffer leaks no stack and never holds  *)
(* more than the backlog and two.                                           *)
THEOREM Bounded == Spec => []MemoryBounded
<1>1. IInv => MemoryBounded
    BY AtMostBacklogAndTwo DEF IInv, MemoryBounded, Ownership
<1> QED
    BY <1>1, InvInit, InvNext, PTL DEF Spec

(* While neither window was hit, a payload that buffer_data accepted is in  *)
(* a stack the code can still reach until dd_curl_send_stack handled it.    *)
THEOREM AcceptedIsKept == Spec => []NothingLost
<1>1. IInv => NothingLost
    BY DEF IInv, NothingLost, Kept, Ownership, NoLeak
<1> QED
    BY <1>1, InvInit, InvNext, PTL DEF Spec

(* While neither window was hit, nothing is written to the stack that is    *)
(* being sent.                                                              *)
THEOREM Frozen == Spec => SendingIsFrozen
<1> DEFINE Same == wstack # NULL /\ wstack' = wstack /\ ~raced' =>
                     /\ entries'[wstack] = entries[wstack]
                     /\ bytes_written'[wstack] = bytes_written[wstack]
<1>1. IInv /\ [Next]_vars => [Same]_vars
  <2> SUFFICES ASSUME IInv, Next, wstack # NULL, wstack' = wstack, ~raced'
               PROVE  /\ entries'[wstack] = entries[wstack]
                      /\ bytes_written'[wstack] = bytes_written[wstack]
      OBVIOUS
  <2>1. ~raced
      BY RacedStays
  <2>2. TypeHeap /\ wstack \in live /\ Ownership /\ StackOutlivesPin
      BY <2>1 DEF IInv, TypeOK, Ownership, ReachableIsLive
  <2>3. UNCHANGED <<entries, bytes_written>> \/ \E s \in Stacks : s # wstack /\
           /\ \E v : entries' = [entries EXCEPT ![s] = v]
           /\ \E v : bytes_written' = [bytes_written EXCEPT ![s] = v]
    <3>1. ASSUME NEW p \in Producers, StoreWrite(p)
          PROVE  \E s \in Stacks : s # wstack /\
                   /\ \E v : entries' = [entries EXCEPT ![s] = v]
                   /\ \E v : bytes_written' = [bytes_written EXCEPT ![s] = v]
      <4>1. st[p] \in Stacks /\ st[p] # wstack
          BY <2>2, <3>1, Pointed DEF StoreWrite, StackOutlivesPin, PinnedPCs, IInv
      <4> QED
          BY <3>1, <4>1 DEF StoreWrite
    <3>2. ASSUME NEW a \in Actors, RotateSwap(a), Reusable(a, slots[scan])
          PROVE  \E s \in Stacks : s # wstack /\
                   /\ \E v : entries' = [entries EXCEPT ![s] = v]
                   /\ \E v : bytes_written' = [bytes_written EXCEPT ![s] = v]
      <4>1. slots[scan] \in Stacks /\ slots[scan] # wstack
          BY <2>2, <3>2 DEF Reusable, Ownership, SlotOrSending, IInv, TypeOK,
             TypeGlobals,
             TypeRotation
      <4> QED
          BY <3>2, <4>1 DEF RotateSwap, Blank
    <3>3. ASSUME NEW a \in Actors, NewStackAlloc(a)
          PROVE  \E s \in Stacks : s # wstack /\
                   /\ \E v : entries' = [entries EXCEPT ![s] = v]
                   /\ \E v : bytes_written' = [bytes_written EXCEPT ![s] = v]
        BY <2>2, <3>3 DEF NewStackAlloc, Blank
    <3>4. ~FreeStack
        BY DEF FreeStack
    <3>5. ASSUME NEW p \in Producers, BufferData(p) \/ Store(p), ~StoreWrite(p)
          PROVE  UNCHANGED <<entries, bytes_written>>
        BY <3>5 DEF BufferData, Store, StoreLoad, StorePin, StoreReserve, StoreUnpin,
           heap
    <3>6. ASSUME NEW a \in Actors, Rotate(a), ~NewStackAlloc(a), ~Reusable(a, slots[scan]) \/ ~RotateSwap(a)
          PROVE  UNCHANGED <<entries, bytes_written>>
        BY <3>6 DEF Rotate, RotateLock, RotateKeep, RotateSwap, RotateSwapPut,
           RotateStore,
             RotateStorePut, RotateCheck, NewStackGrow, heap
    <3>7. ASSUME WriterStep PROVE UNCHANGED <<entries, bytes_written>>
        BY <3>4, <3>7 DEF WriterStep, WriterCycle, AcquireRead, AcquireRefcount,
           AcquireTake,
           SendStack, heap
    <3> QED
        BY <3>1, <3>2, <3>3, <3>5, <3>6, <3>7 DEF Next
  <2> QED
      BY <2>2, <2>3 DEF TypeHeap
<1> QED
    BY <1>1, InvInit, InvNext, PTL DEF Spec, SendingIsFrozen
=============================================================================
