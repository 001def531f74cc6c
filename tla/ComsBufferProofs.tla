-------------------------- MODULE ComsBufferProofs --------------------------
(***************************************************************************)
(* ComsStacks keeps its payloads back to back, and implements TraceBuffer, *)
(* for any number of PHP threads, stacks and slots.                        *)
(*                                                                         *)
(* Tiling says that what is reserved in a stack fills it from its start,   *)
(* each byte once.  CallEffects says what a step does to the calls and     *)
(* their payloads; from it CallsApart and StoredOnce follow in every       *)
(* state.  With IInv (ComsStacksProofs) and Claimed, every step of the     *)
(* stacks is then a step of the buffer or leaves it alone.                 *)
(***************************************************************************)
EXTENDS ComsStacksProofs

(* The prover of a leaf that names no other. *)
USE ZenonT(60)
USE DEF Actors, Slots

(* The bytes of a stack: a payload reserved and not yet written has its    *)
(* place already, next to the entries.                                     *)
Payload(p) == [tok |-> job[p].tok, pos |-> at[p], len |-> Alloc(p)]
WritersTo(s) == {p \in Producers : pc[p] = "write" /\ st[p] = s}
Reserved(s) == entries[s] \cup {Payload(p) : p \in WritersTo(s)}

Covers(e, k) == e.pos <= k /\ k < e.pos + e.len
Cells(E) == {k \in Nat : \E e \in E : Covers(e, k)}

(* the entries E fill the offsets below top, none of them twice *)
Laid(E, top) ==
    /\ \A e \in E : e.pos + e.len <= top
    /\ \A e, f \in E : \A k \in Nat : Covers(e, k) /\ Covers(f, k) => e = f
    /\ \A k \in Nat : k < top => \E e \in E : Covers(e, k)

(* A reservation that does not fit leaves position behind the end of the   *)
(* stack, so that none succeeds after it.                                  *)
Placed(s) ==
    /\ \E top \in Nat : Laid(Reserved(s), top) /\ (position[s] <= size[s] => top = position[s])
    /\ \A p \in WritersTo(s) : Payload(p) \notin entries[s]
    /\ \A p, q \in WritersTo(s) : Payload(p) = Payload(q) => p = q
    /\ IsFiniteSet(Cells(entries[s])) /\ bytes_written[s] = Cardinality(Cells(entries[s]))
Tiling == \A s \in live : Placed(s)

(* an entry is not empty: it covers its first and its last byte *)
LEMMA CoverFirst ==
    ASSUME NEW e \in Entries
    PROVE  /\ e.pos \in Nat /\ e.len \in Nat /\ e.len > 0
           /\ Covers(e, e.pos) /\ Covers(e, e.pos + e.len - 1) /\ e.pos + e.len - 1 \in Nat
  BY SMTT(60) DEF Entries, Covers

(* an entry put on top of laid entries *)
LEMMA LaidMore ==
    ASSUME NEW E \in SUBSET Entries, NEW top \in Nat, Laid(E, top),
           NEW e \in Entries, e.pos = top
    PROVE  Laid(E \cup {e}, top + e.len) /\ e \notin E
<1>1. /\ e.len \in Nat /\ e.len > 0
      /\ \A k \in Nat : Covers(e, k) <=> top <= k /\ k < top + e.len
    BY CoverFirst DEF Covers
<1>2. \A f \in E : f.pos \in Nat /\ f.len \in Nat /\ f.pos + f.len <= top
    BY CoverFirst DEF Laid
<1>3. \A f \in E : \A k \in Nat : Covers(f, k) => k < top
    BY SMTT(60), <1>2 DEF Covers
<1>4. e \notin E
    BY SMTT(60), <1>1, <1>2
<1>5. \A f \in E \cup {e} : f.pos + f.len <= top + e.len
    BY SMTT(60), <1>1, <1>2
<1>6. \A f, g \in E \cup {e} : \A k \in Nat : Covers(f, k) /\ Covers(g, k) => f = g
    BY SMTT(60), <1>1, <1>3 DEF Laid
<1>7. ASSUME NEW k \in Nat, k < top + e.len PROVE \E f \in E \cup {e} : Covers(f, k)
  <2>1. CASE k < top
      BY <2>1 DEF Laid
  <2>2. CASE top <= k
      BY <1>1, <1>7, <2>2
  <2> QED
      BY SMTT(60), <2>1, <2>2
<1> QED
    BY <1>4, <1>5, <1>6, <1>7 DEF Laid

(* entries that are laid are as many as their starts, and as their ends,   *)
(* and each starts where another ends                                      *)
LEMMA LaidTiles ==
    ASSUME NEW E \in SUBSET Entries, NEW top \in Nat, Laid(E, top)
    PROVE  /\ {e.pos : e \in E} \cup {top} = {e.pos + e.len : e \in E} \cup {0}
           /\ \A e, f \in E : e.pos = f.pos => e = f
           /\ \A e, f \in E : e.pos + e.len = f.pos + f.len => e = f
<1>1. \A e \in E : /\ e.pos \in Nat /\ e.len \in Nat /\ e.len > 0 /\ e.pos + e.len <= top
                   /\ Covers(e, e.pos) /\ Covers(e, e.pos + e.len - 1) /\ e.pos + e.len - 1 \in Nat
    BY CoverFirst DEF Laid
<1>2. \A e, f \in E : \A k \in Nat : Covers(e, k) /\ Covers(f, k) => e = f
    BY DEF Laid
<1>3. \A k \in Nat : k < top => \E e \in E : Covers(e, k)
    BY DEF Laid
<1>4. ASSUME NEW e \in E, e.pos # 0 PROVE \E f \in E : f.pos + f.len = e.pos
  <2>1. e.pos - 1 \in Nat /\ e.pos - 1 < top
      BY SMTT(60), <1>1, <1>4
  <2>2. PICK f \in E : Covers(f, e.pos - 1)
      BY <1>3, <2>1
  <2>3. ~Covers(f, e.pos)
    <3> SUFFICES ASSUME Covers(f, e.pos) PROVE FALSE
        OBVIOUS
    <3>1. f = e
        BY <1>1, <1>2
    <3> QED
        BY SMTT(60), <1>1, <2>2, <3>1 DEF Covers
  <2>4. f.pos \in Nat /\ f.len \in Nat /\ e.pos \in Nat
      BY <1>1
  <2>5. f.pos + f.len = e.pos
      BY SMTT(60), <2>2, <2>3, <2>4 DEF Covers
  <2> QED
      BY <2>5
<1>5. ASSUME NEW e \in E, e.pos + e.len # top PROVE \E f \in E : f.pos = e.pos + e.len
  <2>1. e.pos + e.len \in Nat /\ e.pos + e.len < top
      BY SMTT(60), <1>1, <1>5
  <2>2. PICK f \in E : Covers(f, e.pos + e.len)
      BY <1>3, <2>1
  <2>3. ~Covers(f, e.pos + e.len - 1)
    <3> SUFFICES ASSUME Covers(f, e.pos + e.len - 1) PROVE FALSE
        OBVIOUS
    <3>1. f = e
        BY <1>1, <1>2
    <3> QED
        BY SMTT(60), <1>1, <2>2, <3>1 DEF Covers
  <2>4. f.pos \in Nat /\ f.len \in Nat /\ e.pos \in Nat /\ e.len \in Nat
      BY <1>1
  <2>5. f.pos = e.pos + e.len
      BY SMTT(60), <2>2, <2>3, <2>4 DEF Covers
  <2> QED
      BY <2>5
<1>6. ASSUME top # 0 PROVE (\E e \in E : e.pos = 0) /\ (\E e \in E : e.pos + e.len = top)
  <2>1. PICK e \in E : Covers(e, 0)
      BY SMTT(60), <1>3, <1>6
  <2>2. e.pos = 0
      BY SMTT(60), <1>1, <2>1 DEF Covers
  <2>3. PICK f \in E : Covers(f, top - 1)
      BY SMTT(60), <1>3, <1>6
  <2>4. f.pos + f.len = top
    <3>1. f.pos \in Nat /\ f.len \in Nat /\ f.pos + f.len <= top
        BY <1>1
    <3> QED
        BY SMTT(60), <2>3, <3>1 DEF Covers
  <2> QED
      BY <2>2, <2>4
<1>7. {e.pos : e \in E} \cup {top} \subseteq {e.pos + e.len : e \in E} \cup {0}
    BY <1>4, <1>6
<1>8. {e.pos + e.len : e \in E} \cup {0} \subseteq {e.pos : e \in E} \cup {top}
    BY <1>5, <1>6
<1>9. \A e, f \in E : e.pos = f.pos => e = f
    BY <1>1, <1>2
<1>10. ASSUME NEW e \in E, NEW f \in E, e.pos + e.len = f.pos + f.len PROVE e = f
    BY SMTT(60), <1>1, <1>2, <1>10
<1> QED
    BY <1>7, <1>8, <1>9, <1>10

(* laid entries cover exactly the bytes below top *)
LEMMA CellsOfLaid ==
    ASSUME NEW E \in SUBSET Entries, NEW top \in Nat, Laid(E, top)
    PROVE  Cells(E) = 0..(top - 1) /\ Cardinality(Cells(E)) = top
<1>1. ASSUME NEW e \in E, NEW k \in Nat, Covers(e, k) PROVE k < top
    BY SMTT(60), <1>1, CoverFirst DEF Laid, Covers
<1>2. \A k \in Nat : k \in Cells(E) <=> k < top
    BY <1>1 DEF Cells, Laid
<1>3. Cells(E) \subseteq Nat
    BY DEF Cells
<1>4. Cells(E) = 0..(top - 1)
  <2>1. \A k : k \in 0..(top - 1) <=> k \in Nat /\ k < top
      BY SMTT(60)
  <2> QED
      BY <1>2, <1>3, <2>1
<1>5. Cardinality(0..(top - 1)) = top
    BY SMTT(60), FS_Interval
<1> QED
    BY <1>4, <1>5

(* an entry beside the others adds its length to the bytes covered *)
LEMMA CellsMore ==
    ASSUME NEW E \in SUBSET Entries, NEW e \in Entries, IsFiniteSet(Cells(E)),
           \A f \in E : \A k \in Nat : ~(Covers(e, k) /\ Covers(f, k))
    PROVE  /\ IsFiniteSet(Cells(E \cup {e}))
           /\ Cardinality(Cells(E \cup {e})) = Cardinality(Cells(E)) + e.len
<1> DEFINE I == e.pos .. (e.pos + e.len - 1)
<1>1. e.pos \in Nat /\ e.len \in Nat /\ e.len > 0
    BY CoverFirst
<1>2. IsFiniteSet(I) /\ Cardinality(I) = e.len
  <2> DEFINE a == e.pos  b == e.pos + e.len - 1
  <2>1. a \in Int /\ b \in Int /\ ~(a > b) /\ b - a + 1 = e.len
      BY SMTT(60), <1>1
  <2>2. IsFiniteSet(a..b) /\ Cardinality(a..b) = IF a > b THEN 0 ELSE b - a + 1
    <3> HIDE DEF a, b
    <3> QED
        BY <2>1, FS_Interval
  <2> QED
      BY <2>1, <2>2
<1>3. \A k : k \in I <=> k \in Nat /\ Covers(e, k)
    BY SMTT(60), <1>1 DEF Covers
<1> HIDE DEF I
<1>4. Cells(E \cup {e}) = Cells(E) \cup I
    BY <1>3 DEF Cells
<1>5. Cells(E) \cap I = {}
    BY <1>3 DEF Cells
<1>6. /\ IsFiniteSet(Cells(E) \cup I)
      /\ Cardinality(Cells(E) \cup I) = Cardinality(Cells(E)) + Cardinality(I) - Cardinality(Cells(E) \cap I)
    BY <1>2, FS_Union
<1>7. Cardinality({}) = 0 /\ Cardinality(Cells(E)) \in Nat
    BY FS_EmptySet, FS_CardinalityType
<1>8. Cardinality(Cells(E) \cap I) = 0
    BY <1>5, <1>7
<1>9. Cardinality(Cells(E) \cup I) = Cardinality(Cells(E)) + e.len
  <2> DEFINE c == Cardinality(Cells(E))
  <2>1. c \in Nat /\ Cardinality(Cells(E) \cup I) = c + e.len - 0
      BY <1>2, <1>6, <1>7, <1>8
  <2> HIDE DEF c
  <2>2. c + e.len - 0 = c + e.len
      BY SMTT(60), <1>1, <2>1
  <2> QED
      BY <2>1, <2>2 DEF c
<1> QED
    BY <1>4, <1>6, <1>9

(* as many starts, or ends, as entries *)
LEMMA ImageCount ==
    ASSUME NEW E, NEW f, f \in [E -> Nat], \A e, d \in E : f[e] = f[d] => e = d,
           NEW S, IsFiniteSet(S), \A e \in E : f[e] \in S
    PROVE  Cardinality({f[e] : e \in E}) = Cardinality(E)
<1> DEFINE Img == {f[e] : e \in E}
<1>1. Img \subseteq S
    OBVIOUS
<1>2. IsFiniteSet(Img)
    BY <1>1, FS_Subset
<1>3. f \in [E -> Img]
    OBVIOUS
<1>4. \A y \in Img : \E e \in E : f[e] = y
    OBVIOUS
<1> HIDE DEF Img
<1>5. f \in Injection(E, Img) /\ f \in Surjection(E, Img)
    BY <1>3, <1>4 DEF Injection, Surjection, IsInjective
<1>6. Cardinality(E) = Cardinality(Img)
    BY <1>2, <1>5, FS_Injection
<1> QED
    BY <1>6 DEF Img

(* nobody in the stack: its entries are tiled up to bytes_written *)
LEMMA PlacedIsTiled ==
    ASSUME NEW s \in Stacks, TypeOK, Placed(s), WritersTo(s) = {}
    PROVE  Tiled(s)
<1> DEFINE E == entries[s]
<1>1. E \in SUBSET Entries
    BY DEF TypeOK, TypeHeap
<1>2. Reserved(s) = E
    BY DEF Reserved
<1>3. PICK top \in Nat : Laid(E, top)
    BY <1>2 DEF Placed
<1>4. bytes_written[s] = top
    BY <1>1, <1>3, CellsOfLaid DEF Placed
<1>5. /\ {e.pos : e \in E} \cup {top} = {e.pos + e.len : e \in E} \cup {0}
      /\ \A e, f \in E : e.pos = f.pos => e = f
      /\ \A e, f \in E : e.pos + e.len = f.pos + f.len => e = f
    BY <1>1, <1>3, LaidTiles
<1>6. \A e \in E : e.pos \in 0..top /\ e.pos + e.len \in 0..top
    BY SMTT(60), <1>1, <1>3, CoverFirst DEF Laid
<1>7. IsFiniteSet(0..top) /\ 0..top \subseteq Nat
    BY SMTT(60), FS_Interval
<1> HIDE DEF E
<1>8. Cardinality({e.pos : e \in E}) = Cardinality(E)
  <2> DEFINE f == [e \in E |-> e.pos]
  <2>1. f \in [E -> Nat] /\ \A e \in E : f[e] = e.pos
      BY <1>6, <1>7
  <2> HIDE DEF f
  <2>2. Cardinality({f[e] : e \in E}) = Cardinality(E)
      BY SMTT(60), <1>5, <1>6, <1>7, <2>1, ImageCount
  <2>3. {f[e] : e \in E} = {e.pos : e \in E}
      BY <2>1
  <2> QED
      BY <2>2, <2>3
<1>9. Cardinality({e.pos + e.len : e \in E}) = Cardinality(E)
  <2> DEFINE f == [e \in E |-> e.pos + e.len]
  <2>1. f \in [E -> Nat] /\ \A e \in E : f[e] = e.pos + e.len
      BY <1>6, <1>7
  <2> HIDE DEF f
  <2>2. Cardinality({f[e] : e \in E}) = Cardinality(E)
      BY SMTT(60), <1>5, <1>6, <1>7, <2>1, ImageCount
  <2>3. {f[e] : e \in E} = {e.pos + e.len : e \in E}
      BY <2>1
  <2> QED
      BY <2>2, <2>3
<1> QED
    BY <1>4, <1>5, <1>8, <1>9 DEF Tiled, E

(* threads neither start nor finish a write, nor change what they write *)
SameWriters ==
    \A p \in Producers :
      /\ pc'[p] = "write" <=> pc[p] = "write"
      /\ pc[p] = "write" => st'[p] = st[p] /\ job'[p] = job[p] /\ at'[p] = at[p]

StillStep ==
    /\ UNCHANGED <<live, size, position, bytes_written, entries>>
    /\ SameWriters

(* no writer moves: what is reserved of a stack is the same *)
LEMMA SameReserved ==
    ASSUME SameWriters, NEW s
    PROVE  /\ WritersTo(s)' = WritersTo(s)
           /\ \A p \in WritersTo(s) : Payload(p)' = Payload(p)
<1>1. WritersTo(s)' = WritersTo(s)
    BY DEF SameWriters, WritersTo
<1>2. \A p \in WritersTo(s) : Payload(p)' = Payload(p)
    BY DEF SameWriters, WritersTo, Payload, Alloc
<1> QED
    BY <1>1, <1>2

(* a step that touches neither the stack nor its writers *)
LEMMA PlacedFrame ==
    ASSUME NEW s, Placed(s), WritersTo(s)' = WritersTo(s),
           \A p \in WritersTo(s) : Payload(p)' = Payload(p),
           size'[s] = size[s], position'[s] = position[s], entries'[s] = entries[s],
           bytes_written'[s] = bytes_written[s]
    PROVE  Placed(s)'
<1>1. Reserved(s)' = Reserved(s)
    BY DEF Reserved
<1> QED
    BY SMTT(60), <1>1 DEF Placed

(* steps of other parts of the module *)
LEMMA StillKeeps ==
    ASSUME Tiling, StillStep
    PROVE  Tiling'
  BY PlacedFrame, SameReserved DEF Tiling, StillStep

(* a stack that is blanked while nobody writes to it *)
LEMMA BlankKeeps ==
    ASSUME TypeOK, Tiling, SameWriters, NEW s \in Stacks, NEW n, Blank(s, n),
           WritersTo(s) = {}, live' \subseteq live \cup {s}
    PROVE  Tiling'
<1> SUFFICES ASSUME NEW r \in live' PROVE Placed(r)'
    BY DEF Tiling
<1>0. TypeHeap /\ r \in live \cup {s} /\ r \in Stacks
    BY DEF TypeOK, TypeHeap
<1>1. CASE r # s
  <2>1. /\ size'[r] = size[r] /\ position'[r] = position[r] /\ entries'[r] = entries[r]
        /\ bytes_written'[r] = bytes_written[r]
      BY <1>0, <1>1 DEF TypeHeap, Blank
  <2>2. Placed(r)
      BY <1>0, <1>1 DEF Tiling
  <2> QED
      BY <2>1, <2>2, PlacedFrame, SameReserved
<1>2. CASE r = s
  <2>1. /\ position'[s] = 0 /\ entries'[s] = {} /\ bytes_written'[s] = 0
      BY <1>0 DEF TypeHeap, Blank
  <2>2. WritersTo(s)' = {}
      BY SameReserved
  <2>3. Reserved(s)' = {}
      BY <2>1, <2>2 DEF Reserved
  <2>4. Laid({}, 0) /\ Cells({}) = {}
      BY SMTT(60) DEF Laid, Cells
  <2>5. IsFiniteSet({}) /\ Cardinality({}) = 0
      BY FS_EmptySet
  <2>6. Laid(Reserved(s)', 0)
      BY <2>3, <2>4
  <2>7. IsFiniteSet(Cells(entries'[s])) /\ bytes_written'[s] = Cardinality(Cells(entries'[s]))
      BY <2>1, <2>4, <2>5
  <2> QED
      BY <1>2, <2>1, <2>2, <2>6, <2>7 DEF Placed
<1> QED
    BY <1>1, <1>2

(* the only steps that touch the bytes of a stack, or who writes to it *)
LEMMA StillOrNot ==
    ASSUME TypeOK, [Next]_vars
    PROVE  \/ StillStep
           \/ \E p \in Producers : StoreReserve(p) \/ StoreWrite(p)
           \/ \E a \in Actors : RotateSwap(a) \/ NewStackAlloc(a)
           \/ FreeStack
<1> USE ActorsAssumption DEF StillStep, SameWriters, Goto, heap, prod, wrt, hist, TypeOK, TypeControl, TypeProducers
<1>1. ASSUME NEW p \in Producers, BufferData(p) PROVE StillStep
    BY <1>1 DEF BufferData
<1>2. ASSUME NEW p \in Producers, StoreLoad(p) \/ StorePin(p) PROVE StillStep
    BY <1>2 DEF StoreLoad, StoreFailed, Return, StorePin
<1>a. ASSUME NEW p \in Producers, StoreUnpin(p) PROVE StillStep
    BY SMTT(60), <1>a DEF StoreUnpin, StoreFailed, Return
<1>3. ASSUME NEW a \in Actors, RotateLock(a) \/ RotateKeep(a) \/ RotateSwapPut(a) PROVE StillStep
    BY <1>3 DEF RotateLock, RotateKeep, RotateSwapPut
<1>4. ASSUME NEW a \in Actors, RotateStore(a) \/ RotateStorePut(a) PROVE StillStep
    BY <1>4 DEF RotateStore, ScanOn, RotateStorePut
<1>5. ASSUME NEW a \in Actors, RotateCheck(a) \/ NewStackGrow(a) PROVE StillStep
    BY SMTT(60), <1>5 DEF RotateCheck, RotateReturn, NewStackGrow
<1>6. CASE WriterCycle \/ AcquireRead \/ AcquireRefcount
    BY <1>6 DEF WriterCycle, AcquireRead, AcquireRefcount, AcquireOn
<1>7. CASE AcquireTake \/ SendStack
    BY <1>7 DEF AcquireTake, AcquireOn, SendStack
<1>8. CASE UNCHANGED vars
    BY <1>8 DEF vars
<1> QED
    BY <1>1, <1>2, <1>a, <1>3, <1>4, <1>5, <1>6, <1>7, <1>8 DEF Next, Store, Rotate, WriterStep

(* atomic_fetch_add: a place on top, or position past the end for good *)
LEMMA ReserveKeeps ==
    ASSUME TypeOK, Tiling, NEW p \in Producers, StoreReserve(p), NEW s, s = st[p]
    PROVE  Tiling'
<1> DEFINE new == Payload(p)'
<1>0. /\ s \in Stacks /\ pc[p] = "reserve"
      /\ UNCHANGED <<live, size, bytes_written, entries, job, st>>
      /\ position' = [position EXCEPT ![s] = @ + Alloc(p)]
    BY Pointed DEF StoreReserve, PinnedPCs
<1>1. /\ TypeHeap /\ Alloc(p) \in Nat /\ Alloc(p) > 0 /\ job[p].tok \in 0..MaxCalls
      /\ pc \in [Actors -> ProducerPCs \cup WriterPCs] /\ at \in [Producers -> Nat] /\ p \in Actors
    BY SMTT(60) DEF TypeOK, TypeProducers, Payloads, Alloc, Header, TypeControl
<1>2. \A q \in Producers : q # p => pc'[q] = pc[q] /\ at'[q] = at[q]
    BY <1>1 DEF StoreReserve, Goto
<1>3. \A q \in Producers : q # p => Payload(q)' = Payload(q)
    BY <1>0, <1>2 DEF Payload, Alloc
<1>4. \A r : r # s => WritersTo(r)' = WritersTo(r) /\ p \notin WritersTo(r)
    BY <1>0, <1>2 DEF WritersTo
<1> SUFFICES ASSUME NEW r \in live PROVE Placed(r)'
    BY <1>0 DEF Tiling
<1>5. r \in Stacks /\ Placed(r)
    BY <1>1 DEF TypeHeap, Tiling
<1>6. CASE r # s
  <2>1. position'[r] = position[r]
      BY <1>0, <1>1, <1>5, <1>6 DEF TypeHeap
  <2>2. \A q \in WritersTo(r) : Payload(q)' = Payload(q)
      BY <1>3, <1>4, <1>6 DEF WritersTo
  <2> QED
      BY <1>0, <1>4, <1>5, <1>6, <2>1, <2>2, PlacedFrame
<1>7. CASE r = s /\ position[s] + Alloc(p) > size[s]
  <2>1. pc'[p] = "unpin_failed"
      BY <1>1, <1>7 DEF StoreReserve, Goto
  <2>2. WritersTo(s)' = WritersTo(s) /\ p \notin WritersTo(s)
      BY <1>0, <1>2, <2>1 DEF WritersTo
  <2>3. \A q \in WritersTo(s) : Payload(q)' = Payload(q)
      BY <1>3, <2>2 DEF WritersTo
  <2>4. Reserved(s)' = Reserved(s)
      BY SMTT(60), <1>0, <2>2, <2>3 DEF Reserved
  <2>5. position'[s] > size'[s] /\ position'[s] \in Nat /\ size'[s] \in Nat
      BY SMTT(60), <1>0, <1>1, <1>7 DEF TypeHeap
  <2>6. \E top \in Nat : Laid(Reserved(s)', top) /\ (position'[s] <= size'[s] => top = position'[s])
      BY SMTT(60), <1>5, <1>7, <2>4, <2>5 DEF Placed
  <2>7. \A q \in WritersTo(s) : Payload(q) \notin entries[s]
      BY <1>5, <1>7 DEF Placed
  <2>8. \A q, u \in WritersTo(s) : Payload(q) = Payload(u) => q = u
      BY <1>5, <1>7 DEF Placed
  <2>9. IsFiniteSet(Cells(entries'[s])) /\ bytes_written'[s] = Cardinality(Cells(entries'[s]))
      BY <1>0, <1>5, <1>7 DEF Placed
  <2>10. \A q \in WritersTo(s)' : Payload(q)' \notin entries'[s]
      BY <1>0, <2>2, <2>3, <2>7
  <2>11. ASSUME NEW q \in WritersTo(s)', NEW u \in WritersTo(s)', Payload(q)' = Payload(u)' PROVE q = u
    <3>1. q \in WritersTo(s) /\ u \in WritersTo(s)
        BY <2>2
    <3>2. Payload(q) = Payload(u)
        BY <2>3, <2>11, <3>1
    <3> QED
        BY <2>8, <3>1, <3>2
  <2> QED
      BY <1>7, <2>6, <2>9, <2>10, <2>11 DEF Placed
<1>8. CASE r = s /\ ~(position[s] + Alloc(p) > size[s])
  <2>1. pc'[p] = "write" /\ at'[p] = position[s]
      BY <1>1, <1>8 DEF StoreReserve, Goto
  <2>2. WritersTo(s)' = WritersTo(s) \cup {p} /\ p \notin WritersTo(s)
      BY <1>0, <1>2, <2>1 DEF WritersTo
  <2>3. \A q \in WritersTo(s) : Payload(q)' = Payload(q)
      BY <1>3, <2>2 DEF WritersTo
  <2>4. position[s] \in Nat /\ size[s] \in Nat /\ position[s] <= size[s]
      BY SMTT(60), <1>0, <1>1, <1>8 DEF TypeHeap
  <2>5. new \in Entries /\ new.pos = position[s] /\ new.len = Alloc(p)
    <3>1. new = [tok |-> job[p].tok, pos |-> position[s], len |-> Alloc(p)]
        BY <1>0, <2>1 DEF Payload, Alloc
    <3> HIDE DEF new
    <3> QED
        BY SMTT(60), <1>1, <2>4, <3>1 DEF Entries
  <2>6. Laid(Reserved(s), position[s])
      BY <1>5, <1>8, <2>4 DEF Placed
  <2>7. Reserved(s) \in SUBSET Entries
    <3>1. \A q \in WritersTo(s) : Payload(q) \in Entries
        BY SMTT(60) DEF WritersTo, TypeOK, TypeProducers, Payloads, Payload, Alloc, Header, Entries
    <3> QED
        BY <1>0, <1>1, <3>1 DEF TypeHeap, Reserved
  <2>8. Reserved(s)' = Reserved(s) \cup {new}
      BY <1>0, <2>2, <2>3 DEF Reserved
  <2> HIDE DEF new
  <2>9. Laid(Reserved(s) \cup {new}, position[s] + Alloc(p)) /\ new \notin Reserved(s)
      BY <2>4, <2>5, <2>6, <2>7, LaidMore
  <2>10. position'[s] = position[s] + Alloc(p) /\ position'[s] \in Nat
      BY SMTT(60), <1>0, <1>1, <2>4 DEF TypeHeap
  <2>11. \E top \in Nat : Laid(Reserved(s)', top) /\ (position'[s] <= size'[s] => top = position'[s])
      BY <2>8, <2>9, <2>10
  <2>12. \A q \in WritersTo(s)' : Payload(q)' \notin entries'[s]
    <3>1. \A q \in WritersTo(s) : Payload(q)' \notin entries'[s]
        BY SMTT(60), <1>0, <1>5, <1>8, <2>3 DEF Placed
    <3>2. Payload(p)' \notin entries'[s]
        BY <1>0, <2>9 DEF new, Reserved
    <3> QED
        BY <2>2, <3>1, <3>2
  <2>13. ASSUME NEW q \in WritersTo(s)', NEW u \in WritersTo(s)', Payload(q)' = Payload(u)' PROVE q = u
    <3>1. \A w \in WritersTo(s) : Payload(w)' # Payload(p)'
        BY <2>3, <2>9 DEF new, Reserved
    <3>2. CASE q \in WritersTo(s) /\ u \in WritersTo(s)
      <4>1. Payload(q) = Payload(u)
          BY <2>3, <2>13, <3>2
      <4> QED
          BY <1>5, <1>8, <3>2, <4>1 DEF Placed
    <3> QED
        BY <2>2, <2>13, <3>1, <3>2
  <2>14. IsFiniteSet(Cells(entries'[s])) /\ bytes_written'[s] = Cardinality(Cells(entries'[s]))
      BY <1>0, <1>5, <1>8 DEF Placed
  <2> QED
      BY <1>8, <2>11, <2>12, <2>13, <2>14 DEF Placed
<1> QED
    BY <1>6, <1>7, <1>8

(* the memcpy and the count: a reserved place becomes an entry *)
LEMMA WriteKeeps ==
    ASSUME TypeOK, Tiling, NEW p \in Producers, StoreWrite(p), NEW s, s = st[p]
    PROVE  Tiling'
<1> DEFINE new == Payload(p)
<1>0. /\ s \in Stacks /\ pc[p] = "write"
      /\ UNCHANGED <<live, size, position, job, st, at>>
      /\ entries' = [entries EXCEPT ![s] = @ \cup {new}]
      /\ bytes_written' = [bytes_written EXCEPT ![s] = @ + Alloc(p)]
    BY Pointed DEF StoreWrite, PinnedPCs, prod, Payload
<1>1. /\ TypeHeap /\ p \in Actors /\ new \in Entries /\ new.len = Alloc(p)
      /\ pc \in [Actors -> ProducerPCs \cup WriterPCs]
    BY SMTT(60) DEF TypeOK, TypeProducers, Payloads, Alloc, Header, TypeControl, Payload, Entries
<1>2. pc'[p] = "unpin" /\ \A q \in Producers : q # p => pc'[q] = pc[q]
    BY <1>1 DEF StoreWrite, Goto
<1>3. \A q : Payload(q)' = Payload(q)
    BY <1>0 DEF Payload, Alloc
<1>4. \A r : r # s => WritersTo(r)' = WritersTo(r)
    BY <1>0, <1>2 DEF WritersTo
<1> SUFFICES ASSUME NEW r \in live PROVE Placed(r)'
    BY <1>0 DEF Tiling
<1>5. r \in Stacks /\ Placed(r)
    BY <1>1 DEF TypeHeap, Tiling
<1>6. CASE r # s
  <2>1. entries'[r] = entries[r] /\ bytes_written'[r] = bytes_written[r]
      BY <1>0, <1>1, <1>5, <1>6 DEF TypeHeap
  <2> QED
      BY <1>0, <1>3, <1>4, <1>5, <1>6, <2>1, PlacedFrame
<1>7. CASE r = s
  <2>1. p \in WritersTo(s) /\ WritersTo(s)' = WritersTo(s) \ {p}
      BY <1>0, <1>2 DEF WritersTo
  <2>2. entries'[s] = entries[s] \cup {new} /\ bytes_written'[s] = bytes_written[s] + Alloc(p)
      BY <1>0, <1>1 DEF TypeHeap
  <2>3. Reserved(s)' = Reserved(s)
      BY <1>3, <2>1, <2>2 DEF Reserved
  <2>4. /\ new \notin entries[s] /\ entries[s] \in SUBSET Entries
        /\ IsFiniteSet(Cells(entries[s])) /\ bytes_written[s] = Cardinality(Cells(entries[s]))
        /\ \A q \in WritersTo(s) : Payload(q) \notin entries[s]
        /\ \A q, u \in WritersTo(s) : Payload(q) = Payload(u) => q = u
      BY <1>0, <1>1, <1>5, <1>7, <2>1 DEF Placed, TypeHeap
  <2>5. \A f \in entries[s] : \A k \in Nat : ~(Covers(new, k) /\ Covers(f, k))
    <3>1. new \in Reserved(s) /\ entries[s] \subseteq Reserved(s)
        BY <2>1 DEF Reserved
    <3> HIDE DEF new
    <3> QED
        BY <1>5, <1>7, <2>4, <3>1 DEF Placed, Laid
  <2>6. /\ IsFiniteSet(Cells(entries'[s]))
        /\ bytes_written'[s] = Cardinality(Cells(entries'[s]))
    <3> HIDE DEF new
    <3> QED
        BY <1>1, <2>2, <2>4, <2>5, CellsMore
  <2>7. \A q \in WritersTo(s)' : Payload(q)' \notin entries'[s]
      BY <1>3, <2>1, <2>2, <2>4
  <2>8. \A q, u \in WritersTo(s)' : Payload(q)' = Payload(u)' => q = u
      BY <1>3, <2>1, <2>4
  <2>9. \E top \in Nat : Laid(Reserved(s)', top) /\ (position'[s] <= size'[s] => top = position'[s])
      BY <1>0, <1>5, <1>7, <2>3 DEF Placed
  <2> QED
      BY <1>7, <2>6, <2>7, <2>8, <2>9 DEF Placed
<1> QED
    BY <1>6, <1>7

(* Unpinned and StackOutlivesPin: nobody writes to a stack that is blanked *)
LEMMA TilingNext ==
    ASSUME IInv, ~raced, Tiling, [Next]_vars
    PROVE  Tiling'
<1>0. TypeOK /\ StackOutlivesPin /\ Counted /\ Ownership
    BY DEF IInv
<1>1. CASE StillStep
    BY <1>1, StillKeeps
<1>2. ASSUME NEW p \in Producers, StoreReserve(p) \/ StoreWrite(p) PROVE Tiling'
  <2>1. \A s : s = st[p] => Tiling'
      BY <1>0, <1>2, ReserveKeeps, WriteKeeps
  <2> QED
      BY <2>1
<1>3. ASSUME NEW a \in Actors, RotateSwap(a) PROVE Tiling'
  <2> DEFINE x == slots[scan]
  <2>0. UNCHANGED live /\ UNCHANGED <<job, st, at>>
      BY <1>3 DEF RotateSwap, prod
  <2>1. SameWriters
    <3>1. a \in Actors /\ pc[a] = "swap" /\ \E l \in {"swap", "swap_put", "store"} : pc' = [pc EXCEPT ![a] = l]
        BY <1>0, <1>3 DEF RotateSwap, ScanOn, Goto, TypeOK, TypeControl
    <3> QED
        BY <1>0, <2>0, <3>1 DEF SameWriters, TypeOK, TypeControl
  <2>2. CASE Reusable(a, x)
    <3>1. Blank(x, size[x]) /\ x \in Stacks /\ x \in live /\ refcount[x] = 0
        BY <1>0, <1>3, <2>2 DEF RotateSwap, Reusable, IsStackFree, TypeOK,
           TypeGlobals, TypeRotation, Ownership, ReachableIsLive
    <3>2. WritersTo(x) = {}
        BY <1>0, <3>1, Unpinned DEF WritersTo, PinnedPCs
    <3> QED
        BY <1>0, <2>0, <2>1, <3>1, <3>2, BlankKeeps
  <2>3. CASE ~Reusable(a, x)
    <3>1. UNCHANGED <<size, position, bytes_written, entries>>
        BY <1>3, <2>3 DEF RotateSwap
    <3> QED
        BY <2>0, <2>1, <3>1, StillKeeps DEF StillStep
  <2> QED
      BY <2>2, <2>3
<1>4. ASSUME NEW a \in Actors, NewStackAlloc(a) PROVE Tiling'
  <2>1. UNCHANGED <<job, st, at>>
      BY <1>4 DEF NewStackAlloc
  <2>2. SameWriters
    <3>1. pc[a] = "alloc" /\ \E l \in {"acq_read", "load"} : pc' = [pc EXCEPT ![a] = l]
        BY <1>4 DEF NewStackAlloc, RotateReturn, Goto
    <3> QED
        BY <1>0, <2>1, <3>1 DEF SameWriters, TypeOK, TypeControl
  <2>3. PICK s \in Stacks \ live : live' = live \cup {s} /\ Blank(s, nsize)
      BY <1>4 DEF NewStackAlloc
  <2>4. WritersTo(s) = {}
      BY <1>0 DEF WritersTo, StackOutlivesPin, PinnedPCs
  <2> QED
      BY <1>0, <2>2, <2>3, <2>4, BlankKeeps
<1>5. ASSUME FreeStack PROVE Tiling'
  <2>1. /\ UNCHANGED <<job, st, at>> /\ Blank(wstack, InitialSize) /\ live' \subseteq live
        /\ pc[Writer] = "free" /\ pc' = [pc EXCEPT ![Writer] = "acq_read"]
      BY <1>5 DEF FreeStack, Freed, Goto, prod
  <2>2. SameWriters
      BY <1>0, <2>1, ActorsAssumption DEF SameWriters, TypeOK, TypeControl
  <2>3. wstack \in Stacks
      BY <1>0, <2>1 DEF TypeOK, PointersLoaded, TypeWriter
  <2>4. WritersTo(wstack) = {}
      BY <1>0 DEF WritersTo, StackOutlivesPin, PinnedPCs
  <2> QED
      BY <1>0, <2>1, <2>2, <2>3, <2>4, BlankKeeps
<1> QED
    BY SMTT(60), <1>0, <1>1, <1>2, <1>3, <1>4, <1>5, StillOrNot

(* the first stack is empty *)
LEMMA TilingInit == Init => Tiling
<1> SUFFICES ASSUME Init, NEW s \in live PROVE Placed(s)
    BY DEF Tiling
<1>1. s \in Stacks /\ position[s] = 0 /\ bytes_written[s] = 0 /\ entries[s] = {}
    BY DEF Init
<1>2. WritersTo(s) = {}
    BY DEF Init, WritersTo
<1>3. Reserved(s) = {}
    BY <1>1, <1>2 DEF Reserved
<1>4. Laid({}, 0) /\ Cells({}) = {} /\ IsFiniteSet({}) /\ Cardinality({}) = 0
    BY SMTT(60), FS_EmptySet DEF Laid, Cells
<1>5. Laid(Reserved(s), 0)
    BY <1>3, <1>4
<1>6. IsFiniteSet(Cells(entries[s])) /\ bytes_written[s] = Cardinality(Cells(entries[s]))
    BY <1>1, <1>4
<1> QED
    BY <1>1, <1>2, <1>5, <1>6 DEF Placed

(* While neither window was hit, the payloads of a stack that no thread is  *)
(* in lie back to back up to bytes_written, whatever reservations, failed   *)
(* ones included, and writes of dd_store_data interleaved.                  *)
THEOREM BackToBack == Spec => []EntriesTiled
<1> DEFINE Inv == IInv /\ (~raced => Tiling)
<1>1. Init => Inv
    BY InvInit, TilingInit
<1>2. Inv /\ [Next]_vars => Inv'
  <2> SUFFICES ASSUME Inv, [Next]_vars PROVE Inv'
      OBVIOUS
  <2>1. IInv'
      BY InvNext
  <2>2. ~raced' => ~raced
      BY RacedStays
  <2> QED
      BY <2>1, <2>2, TilingNext
<1>3. Inv => EntriesTiled
  <2> SUFFICES ASSUME Inv, ~raced, NEW s \in live, refcount[s] = 0 PROVE Tiled(s)
      BY DEF EntriesTiled
  <2>1. TypeOK /\ Counted /\ Placed(s) /\ s \in Stacks
      BY DEF IInv, Tiling, TypeOK, TypeHeap
  <2>2. WritersTo(s) = {}
      BY <2>1, Unpinned DEF WritersTo, PinnedPCs
  <2> QED
      BY <2>1, <2>2, PlacedIsTiled
<1> QED
    BY <1>1, <1>2, <1>3, PTL DEF Spec

-----------------------------------------------------------------------------
(* What a step does to the calls, without the stacks *)
Begins(p) ==
    /\ pc[p] = "idle" /\ pc' = [pc EXCEPT ![p] = "load"]
    /\ ncalls' = ncalls + 1
    /\ \E n \in PayloadSizes : job' = [job EXCEPT ![p] = [tok |-> ncalls + 1, len |-> n]]
    /\ UNCHANGED <<accepted, rejected, done, entries>>
Refused ==
    /\ ncalls' = ncalls + 1
    /\ rejected' = rejected \cup {ncalls + 1}
    /\ UNCHANGED <<pc, job, accepted, done, entries>>
Stores(p) ==
    /\ pc[p] = "write" /\ pc' = [pc EXCEPT ![p] = "unpin"]
    /\ st[p] \in Stacks
    /\ entries' = [entries EXCEPT ![st[p]] = @ \cup {Payload(p)}]
    /\ UNCHANGED <<job, ncalls, accepted, rejected, done>>
Ends(p) ==
    /\ pc[p] # "idle" /\ pc' = [pc EXCEPT ![p] = "idle"]
    /\ job' = [job EXCEPT ![p] = NoJob]
    /\ \/ /\ pc[p] = "unpin"
          /\ accepted' = accepted \cup {job[p].tok} /\ rejected' = rejected
       \/ /\ pc[p] # "unpin"
          /\ rejected' = rejected \cup {job[p].tok} /\ accepted' = accepted
    /\ UNCHANGED <<ncalls, done, entries>>
Uploads ==
    /\ wstack \in Stacks
    /\ done' = done \cup {e.tok : e \in entries[wstack]}
    /\ \A p \in Producers : pc'[p] = pc[p]
    /\ UNCHANGED <<job, ncalls, accepted, rejected, entries>>
SameCalls ==
    /\ UNCHANGED <<job, ncalls, accepted, rejected, done>>
    /\ \A p \in Producers : pc'[p] = "idle" <=> pc[p] = "idle"
    /\ \A p \in Producers : pc'[p] = "unpin" <=> pc[p] = "unpin"
    /\ \A s \in Stacks : entries'[s] \subseteq entries[s]

LEMMA CallEffects ==
    ASSUME TypeOK, [Next]_vars
    PROVE  \/ \E p \in Producers : Begins(p) \/ Stores(p) \/ Ends(p)
           \/ Refused \/ Uploads \/ SameCalls
<1> USE ActorsAssumption DEF Goto, heap, prod, wrt, hist, TypeOK, TypeControl
<1>1. ASSUME NEW p \in Producers, BufferData(p) PROVE Begins(p) \/ Refused
    BY <1>1 DEF BufferData, Begins, Refused
<1>2. ASSUME NEW p \in Producers, StoreLoad(p) PROVE Ends(p) \/ SameCalls
  <2>1. CASE current_stack = NULL /\ attempt[p] # 1
      BY <1>2, <2>1 DEF StoreLoad, StoreFailed, Return, Ends
  <2>2. CASE ~(current_stack = NULL /\ attempt[p] # 1)
      BY <1>2, <2>2 DEF StoreLoad, StoreFailed, SameCalls
  <2> QED
      BY <2>1, <2>2
<1>3. ASSUME NEW p \in Producers, StorePin(p) \/ StoreReserve(p) PROVE SameCalls
    BY <1>3 DEF StorePin, StoreReserve, SameCalls
<1>4. ASSUME NEW p \in Producers, StoreWrite(p) PROVE Stores(p)
  <2>1. st[p] \in Stacks
      BY <1>4, Pointed DEF StoreWrite, PinnedPCs
  <2> QED
      BY <1>4, <2>1 DEF StoreWrite, Stores, Payload
<1>5. ASSUME NEW p \in Producers, StoreUnpin(p) PROVE Ends(p) \/ SameCalls
  <2>1. CASE pc[p] = "unpin"
      BY <1>5, <2>1 DEF StoreUnpin, Return, Ends
  <2>2. CASE pc[p] = "unpin_failed" /\ attempt[p] # 1
      BY <1>5, <2>2 DEF StoreUnpin, StoreFailed, Return, Ends
  <2>3. CASE pc[p] = "unpin_failed" /\ attempt[p] = 1
      BY <1>5, <2>3 DEF StoreUnpin, StoreFailed, SameCalls
  <2> QED
      BY <1>5, <2>1, <2>2, <2>3 DEF StoreUnpin
<1>6. ASSUME NEW a \in Actors, RotateLock(a) \/ RotateKeep(a) \/ RotateSwapPut(a) PROVE SameCalls
    BY <1>6 DEF RotateLock, RotateKeep, RotateSwapPut, SameCalls
<1>7. ASSUME NEW a \in Actors, RotateStore(a) \/ RotateStorePut(a) PROVE SameCalls
    BY <1>7 DEF RotateStore, ScanOn, RotateStorePut, SameCalls
<1>8. ASSUME NEW a \in Actors, RotateCheck(a) \/ NewStackGrow(a) PROVE SameCalls
    BY <1>8 DEF RotateCheck, RotateReturn, NewStackGrow, SameCalls
<1>9. ASSUME NEW a \in Actors, RotateSwap(a) PROVE SameCalls
  <2>1. \A s \in Stacks : entries'[s] \subseteq entries[s]
      BY <1>9 DEF RotateSwap, Blank, TypeHeap
  <2> QED
      BY <1>9, <2>1 DEF RotateSwap, ScanOn, SameCalls
<1>10. ASSUME NEW a \in Actors, NewStackAlloc(a) PROVE SameCalls
  <2>1. \A s \in Stacks : entries'[s] \subseteq entries[s]
      BY <1>10 DEF NewStackAlloc, Blank, TypeHeap
  <2> QED
      BY <1>10, <2>1 DEF NewStackAlloc, RotateReturn, SameCalls
<1>11. CASE WriterCycle \/ AcquireRead \/ AcquireRefcount
  <2>1. \A p \in Producers : pc'[p] = pc[p]
      BY <1>11 DEF WriterCycle, AcquireRead, AcquireRefcount, AcquireOn
  <2>2. UNCHANGED <<job, ncalls, accepted, rejected, done, entries>>
      BY <1>11 DEF WriterCycle, AcquireRead, AcquireRefcount
  <2> QED
      BY <2>1, <2>2 DEF SameCalls
<1>12. CASE AcquireTake
  <2>1. \A p \in Producers : pc'[p] = pc[p]
      BY <1>12 DEF AcquireTake, AcquireOn
  <2>2. UNCHANGED <<job, ncalls, accepted, rejected, done, entries>>
      BY <1>12 DEF AcquireTake
  <2> QED
      BY <2>1, <2>2 DEF SameCalls
<1>13. CASE SendStack
    BY <1>13 DEF SendStack, Uploads, TypeWriter, PointersLoaded
<1>14. CASE FreeStack
  <2>1. \A s \in Stacks : entries'[s] \subseteq entries[s]
      BY <1>14 DEF FreeStack, Blank, TypeHeap
  <2> QED
      BY <1>14, <2>1 DEF FreeStack, SameCalls
<1>15. CASE UNCHANGED vars
    BY <1>15 DEF vars, SameCalls
<1> QED
    BY <1>1, <1>2, <1>3, <1>4, <1>5, <1>6, <1>7, <1>8, <1>9, <1>10, <1>11, <1>12,
       <1>13, <1>14, <1>15 DEF Next, Store, Rotate, WriterStep

(* a call's number is its own, and its payload appears when it writes it *)
LEMMA ApartNext ==
    ASSUME TypeOK, CallsApart, [Next]_vars
    PROVE  CallsApart'
<1> DEFINE Busy(p) == pc[p] # "idle"
<1> USE ActorsAssumption, BoundsAssumption DEF CallsApart, Unseen, Holds
<1>0. /\ ncalls \in Nat /\ pc \in [Actors -> ProducerPCs \cup WriterPCs]
      /\ job \in [Producers -> Payloads] /\ entries \in [Stacks -> SUBSET Entries]
    BY SMTT(60) DEF TypeOK, TypeHistory, TypeControl, TypeProducers, TypeHeap
<1>1. ASSUME NEW p \in Producers, Begins(p) PROVE CallsApart'
    BY SMTT(60), <1>0, <1>1 DEF Begins
<1>2. ASSUME NEW p \in Producers, Stores(p) PROVE CallsApart'
  <2> DEFINE e == Payload(p)
  <2>1. e.tok = job[p].tok /\ entries' = [entries EXCEPT ![st[p]] = @ \cup {e}]
      BY <1>2 DEF Stores, Payload
  <2> HIDE DEF e
  <2>2. \A s \in Stacks : \A d \in entries'[s] : d \in entries[s] \/ d = e
      BY <1>0, <2>1
  <2>3. \A q \in Producers : q # p => pc'[q] = pc[q]
      BY <1>0, <1>2 DEF Stores
  <2>4. pc[p] = "write" /\ pc'[p] = "unpin" /\ UNCHANGED <<job, ncalls, accepted, rejected, done>>
      BY <1>0, <1>2 DEF Stores
  <2> QED
      BY SMTT(60), <2>1, <2>2, <2>3, <2>4
<1>3. ASSUME NEW p \in Producers, Ends(p) PROVE CallsApart'
    BY SMTT(60), <1>0, <1>3 DEF Ends
<1>4. CASE Refused
    BY SMTT(60), <1>0, <1>4 DEF Refused
<1>5. CASE Uploads
    BY SMTT(60), <1>0, <1>5 DEF Uploads
<1>6. CASE SameCalls
    BY <1>0, <1>6 DEF SameCalls
<1> QED
    BY <1>1, <1>2, <1>3, <1>4, <1>5, <1>6, CallEffects

(* no payload is in two stacks *)
LEMMA OnceNext ==
    ASSUME TypeOK, CallsApart, StoredOnce, [Next]_vars
    PROVE  StoredOnce'
<1> USE ActorsAssumption, BoundsAssumption DEF StoredOnce, Holds
<1>0. ncalls \in Nat /\ entries \in [Stacks -> SUBSET Entries]
    BY SMTT(60) DEF TypeOK, TypeHistory, TypeHeap
<1>1. CASE (\A s \in Stacks : entries'[s] \subseteq entries[s])
    BY SMTT(60), <1>0, <1>1 DEF CallsApart
<1>2. ASSUME NEW p \in Producers, Stores(p) PROVE StoredOnce'
  <2> DEFINE e == Payload(p)
  <2>1. e.tok = job[p].tok /\ entries' = [entries EXCEPT ![st[p]] = @ \cup {e}]
      BY <1>2 DEF Stores, Payload
  <2> HIDE DEF e
  <2>2. \A s \in Stacks : \A d \in entries'[s] : d \in entries[s] \/ (s = st[p] /\ d = e)
      BY <1>0, <2>1
  <2>3. \A s \in Stacks : \A d \in entries[s] : d.tok # e.tok
      BY <1>2, <2>1 DEF Stores, CallsApart, Unseen
  <2>4. ncalls' = ncalls
      BY <1>2 DEF Stores
  <2> QED
      BY <2>2, <2>3, <2>4
<1>3. \/ \E p \in Producers : Stores(p)
      \/ \A s \in Stacks : entries'[s] \subseteq entries[s]
    BY CallEffects DEF Begins, Ends, Refused, Uploads, SameCalls
<1> QED
    BY <1>1, <1>2, <1>3

(* a step that adds no payload and ends no call leaves the claims alone *)
LEMMA ClaimFrame ==
    ASSUME Claimed, accepted' = accepted,
           \A s \in live' : entries'[s] = {} \/ (s \in live /\ entries'[s] = entries[s]),
           \A p \in Producers : pc[p] = "unpin" =>
              pc'[p] = "unpin" /\ st'[p] = st[p] /\ job'[p] = job[p]
    PROVE  Claimed'
<1> SUFFICES ASSUME NEW s \in live', NEW e \in entries'[s], e.tok \notin accepted
             PROVE  \E p \in Producers : pc'[p] = "unpin" /\ st'[p] = s /\ job'[p].tok = e.tok
    BY DEF Claimed
<1>1. s \in live /\ e \in entries[s]
    OBVIOUS
<1>2. PICK p \in Producers : pc[p] = "unpin" /\ st[p] = s /\ job[p].tok = e.tok
    BY <1>1 DEF Claimed
<1> QED
    BY <1>2

(* a thread that is about to report success reports it in a step of its own *)
LEMMA QuietUnpin ==
    ASSUME TypeOK, QuietStep, [Next]_vars, NEW p \in Producers, pc[p] = "unpin"
    PROVE  pc'[p] = "unpin" /\ st'[p] = st[p] /\ job'[p] = job[p]
<1>1. pc'[p] \in PinnedPCs /\ st'[p] = st[p] /\ job'[p] = job[p]
    BY DEF QuietStep, PinnedPCs
<1>2. pc \in [Actors -> ProducerPCs \cup WriterPCs]
    BY DEF TypeOK, TypeControl
<1>3. pc'[p] = "unpin"
  <2>1. ASSUME NEW q \in Producers, Begins(q) \/ Ends(q) PROVE pc'[p] = "unpin"
    <3>1. p # q
        BY <1>1, <1>2, <2>1 DEF Begins, Ends, PinnedPCs
    <3> QED
        BY <1>2, <2>1, <3>1 DEF Begins, Ends
  <2>2. ASSUME NEW q \in Producers, Stores(q) PROVE pc'[p] = "unpin"
      BY <1>2, <2>2 DEF Stores
  <2>3. CASE Refused \/ Uploads \/ SameCalls
      BY <2>3 DEF Refused, Uploads, SameCalls
  <2> QED
      BY <2>1, <2>2, <2>3, CallEffects
<1> QED
    BY <1>1, <1>3

LEMMA ToClaim ==
    ASSUME ASSUME NEW s \in live', NEW e \in entries'[s], e.tok \notin accepted'
           PROVE  \E q \in Producers : pc'[q] = "unpin" /\ st'[q] = s /\ job'[q].tok = e.tok
    PROVE  Claimed'
BY DEF Claimed

(* what is in a stack was accepted, or its thread is still in the stack *)
LEMMA ClaimNext ==
    ASSUME IInv, Claimed, ~raced, ~raced', [Next]_vars
    PROVE  Claimed'
<1> USE ActorsAssumption, BoundsAssumption
<1>0. TypeOK /\ DataIsCounted /\ StackOutlivesPin
    BY DEF IInv
<1>1. CASE QuietStep
  <2>1. \A p \in Producers : pc[p] = "unpin" =>
          pc'[p] = "unpin" /\ st'[p] = st[p] /\ job'[p] = job[p]
      BY <1>0, <1>1, QuietUnpin
  <2> QED
      BY <1>1, <2>1, ClaimFrame DEF QuietStep
<1>2. ASSUME NEW p \in Producers, StorePin(p) PROVE Claimed'
  <2>1. \A q \in Producers : pc[q] = "unpin" =>
          pc'[q] = "unpin" /\ st'[q] = st[q] /\ job'[q] = job[q]
      BY <1>0, <1>2 DEF StorePin, Goto, prod, TypeOK, TypeControl
  <2> QED
      BY <1>2, <2>1, ClaimFrame DEF StorePin
<1>3. ASSUME NEW p \in Producers, StoreWrite(p) PROVE Claimed'
  <2>1. UNCHANGED <<live, accepted, st, job>>
      BY <1>3 DEF StoreWrite, prod, hist
  <2>2. pc[p] = "write" /\ pc' = [pc EXCEPT ![p] = "unpin"]
      BY <1>3 DEF StoreWrite, Goto
  <2>3. entries' = [entries EXCEPT ![st[p]] = @ \cup {Payload(p)}] /\ Payload(p).tok = job[p].tok
      BY <1>3 DEF StoreWrite, Payload
  <2>4. \A s \in live : \A e \in entries'[s] : e \in entries[s] \/ (s = st[p] /\ e = Payload(p))
      BY <1>0, <2>3 DEF TypeOK, TypeHeap
  <2>5. pc'[p] = "unpin" /\ \A q \in Producers : pc[q] = "unpin" => pc'[q] = "unpin"
      BY <1>0, <2>2 DEF TypeOK, TypeControl
  <2> SUFFICES ASSUME NEW s \in live', NEW e \in entries'[s], e.tok \notin accepted'
               PROVE  \E q \in Producers : pc'[q] = "unpin" /\ st'[q] = s /\ job'[q].tok = e.tok
      BY ToClaim
  <2>6. CASE e \in entries[s]
    <3>1. PICK q \in Producers : pc[q] = "unpin" /\ st[q] = s /\ job[q].tok = e.tok
        BY <2>1, <2>6 DEF Claimed
    <3> QED
        BY <2>1, <2>5, <3>1
  <2>7. CASE s = st[p] /\ e = Payload(p)
      BY <2>1, <2>3, <2>5, <2>7
  <2> QED
      BY <2>1, <2>4, <2>6, <2>7
<1>4. ASSUME NEW p \in Producers, StoreUnpin(p) PROVE Claimed'
  <2>1. UNCHANGED <<live, entries>>
      BY <1>4 DEF StoreUnpin
  <2>2. /\ \E l \in {"lock", "idle"} : pc' = [pc EXCEPT ![p] = l]
        /\ st' = [st EXCEPT ![p] = NULL]
        /\ job' \in {job, [job EXCEPT ![p] = NoJob]}
      BY <1>4 DEF StoreUnpin, StoreFailed, Return, Goto
  <2>3. accepted \subseteq accepted' /\ (pc[p] = "unpin" => job[p].tok \in accepted')
    <3>1. CASE pc[p] = "unpin"
      <4>1. accepted' = accepted \cup {job[p].tok}
          BY <1>4, <3>1 DEF StoreUnpin
      <4> QED
          BY <4>1
    <3>2. CASE pc[p] # "unpin"
        BY <1>4, <3>2 DEF StoreUnpin
    <3> QED
        BY <3>1, <3>2
  <2>4. \A q \in Producers : q # p => pc'[q] = pc[q] /\ st'[q] = st[q] /\ job'[q] = job[q]
      BY <1>0, <2>2 DEF TypeOK, TypeControl, TypeProducers
  <2> SUFFICES ASSUME NEW s \in live', NEW e \in entries'[s], e.tok \notin accepted'
               PROVE  \E q \in Producers : pc'[q] = "unpin" /\ st'[q] = s /\ job'[q].tok = e.tok
      BY ToClaim
  <2>5. PICK q \in Producers : pc[q] = "unpin" /\ st[q] = s /\ job[q].tok = e.tok
      BY <2>1, <2>3 DEF Claimed
  <2>6. q # p
      BY <2>3, <2>5
  <2> QED
      BY <2>4, <2>5, <2>6
<1>5. ASSUME NEW a \in Actors, RotateSwap(a) PROVE Claimed'
  <2>1. \A q \in Producers : pc[q] = "unpin" =>
          pc'[q] = "unpin" /\ st'[q] = st[q] /\ job'[q] = job[q]
      BY <1>0, <1>5 DEF RotateSwap, ScanOn, Goto, prod, TypeOK, TypeControl
  <2>2. \A s \in live' : entries'[s] = {} \/ (s \in live /\ entries'[s] = entries[s])
      BY <1>0, <1>5 DEF RotateSwap, Blank, TypeOK, TypeHeap
  <2>3. accepted' = accepted
      BY <1>5 DEF RotateSwap, hist
  <2> QED
      BY <2>1, <2>2, <2>3, ClaimFrame
<1>6. ASSUME NEW a \in Actors, NewStackAlloc(a) PROVE Claimed'
  <2>1. \A q \in Producers : pc[q] = "unpin" =>
          pc'[q] = "unpin" /\ st'[q] = st[q] /\ job'[q] = job[q]
    <3>1. \E l \in {"acq_read", "load"} : pc' = [pc EXCEPT ![a] = l]
        BY <1>6 DEF NewStackAlloc, RotateReturn, Goto
    <3>2. pc[a] = "alloc" /\ UNCHANGED <<st, job>>
        BY <1>6 DEF NewStackAlloc
    <3> QED
        BY <1>0, <3>1, <3>2 DEF TypeOK, TypeControl
  <2>2. \A s \in live' : entries'[s] = {} \/ (s \in live /\ entries'[s] = entries[s])
      BY <1>0, <1>6 DEF NewStackAlloc, Blank, TypeOK, TypeHeap
  <2>3. accepted' = accepted
      BY <1>6 DEF NewStackAlloc, hist
  <2> QED
      BY <2>1, <2>2, <2>3, ClaimFrame
<1>7. CASE AcquireTake \/ SendStack \/ FreeStack
  <2>0. \E l \in WriterPCs : pc' = [pc EXCEPT ![Writer] = l]
      BY <1>7 DEF AcquireTake, AcquireOn, SendStack, FreeStack, Goto, WriterPCs
  <2>1. \A q \in Producers : pc[q] = "unpin" =>
          pc'[q] = "unpin" /\ st'[q] = st[q] /\ job'[q] = job[q]
    <3>1. UNCHANGED <<st, job>>
        BY <1>7 DEF AcquireTake, SendStack, FreeStack, prod
    <3> QED
        BY <1>0, <2>0, <3>1 DEF TypeOK, TypeControl
  <2>2. \A s \in live' : entries'[s] = {} \/ (s \in live /\ entries'[s] = entries[s])
      BY <1>0, <1>7 DEF AcquireTake, SendStack, FreeStack, Freed, Blank, heap, TypeOK,
         TypeHeap
  <2>3. accepted' = accepted
      BY <1>7 DEF AcquireTake, SendStack, FreeStack, hist
  <2> QED
      BY <2>1, <2>2, <2>3, ClaimFrame
<1> QED
    BY <1>0, <1>1, <1>2, <1>3, <1>4, <1>5, <1>6, <1>7, QuietOrNot

LEMMA CallsInit == Init => CallsInv
<1> SUFFICES ASSUME Init PROVE CallsInv
    OBVIOUS
<1>1. CallsApart
    BY ActorsAssumption DEF Init, CallsApart
<1>2. StoredOnce /\ Claimed
    BY DEF Init, StoredOnce, Holds, Claimed
<1> QED
    BY <1>1, <1>2 DEF CallsInv

LEMMA CallsNext == IInv /\ CallsInv /\ [Next]_vars => CallsInv'
<1> SUFFICES ASSUME IInv, CallsInv, [Next]_vars PROVE CallsInv'
    OBVIOUS
<1>1. CallsApart' /\ StoredOnce'
    BY ApartNext, OnceNext DEF IInv, CallsInv
<1>2. ASSUME ~raced' PROVE Claimed'
    BY <1>2, RacedStays, ClaimNext DEF CallsInv
<1> QED
    BY <1>1, <1>2 DEF CallsInv

-----------------------------------------------------------------------------
(* The refinement *)

LEMMA InHeld == \A t : t \in Held <=> \E s \in live : s # wstack /\ Holds(s, t)
<1> TAKE t
<1>1. t \in Held <=> \E s \in live \ {wstack} : t \in Tokens(s)
    BY DEF Held
<1>2. \A s : t \in Tokens(s) <=> Holds(s, t)
    BY DEF Tokens, Holds
<1> QED
    BY <1>1, <1>2

LEMMA InHeldNext == \A t : t \in Held' <=> \E s \in live' : s # wstack' /\ Holds(s, t)'
<1> TAKE t
<1>1. t \in Held' <=> \E s \in live' \ {wstack'} : t \in Tokens(s)'
    BY DEF Held
<1>2. \A s : t \in Tokens(s)' <=> Holds(s, t)'
    BY DEF Tokens, Holds
<1> QED
    BY <1>1, <1>2

(* what the writer is sending is nowhere else *)
LEMMA SeenSomewhere ==
    ASSUME TypeOK, NEW t, Unseen(t)
    PROVE  t \notin Held \cup Sending \cup done
<1>1. t \notin Held
    BY InHeld DEF Unseen, TypeOK, TypeHeap
<1>2. t \notin Sending
    BY DEF Sending, Tokens, Unseen, Holds, TypeOK, TypeWriter
<1> QED
    BY <1>1, <1>2 DEF Unseen

(* A step that leaves the stored payloads, the calls that succeeded and the *)
(* writer's stack alone refuses a call or does nothing to the buffer.       *)
LEMMA RefusesAtMost ==
    ASSUME TypeOK, CallsApart, ~raced, ~raced', [Next]_vars,
           Held' = Held, Sending' = Sending, accepted' = accepted, done' = done
    PROVE  [Buffer!Next]_(Buffer!vars)
<1>0. raced' = raced
    BY TypeNext DEF TypeOK, TypeFlags
<1>1. CASE rejected' = rejected
    BY <1>0, <1>1 DEF Buffer!vars
<1>2. ASSUME NEW t, t \notin Held \cup Sending \cup done \cup accepted, rejected' = rejected \cup {t}
      PROVE  Buffer!Next
  <2>1. Buffer!Reject(t)
      BY <1>2 DEF Buffer!Reject, Buffer!Seen
  <2>2. t \in rejected'
      BY <1>2
  <2> QED
      BY <1>0, <2>1, <2>2 DEF Buffer!Next
<1>3. CASE Refused
  <2>1. ncalls + 1 \notin accepted \cup done /\ \A s \in Stacks : ~Holds(s, ncalls + 1)
      BY SMTT(60) DEF CallsApart, Holds, TypeOK, TypeHistory
  <2>2. ncalls + 1 \notin Held \cup Sending \cup done \cup accepted
      BY <2>1, SeenSomewhere DEF Unseen
  <2> QED
      BY <1>2, <1>3, <2>2 DEF Refused
<1>4. ASSUME NEW p \in Producers, Ends(p) PROVE [Buffer!Next]_(Buffer!vars)
  <2>1. CASE pc[p] = "unpin"
      BY <1>1, <1>4, <2>1 DEF Ends
  <2>2. CASE pc[p] # "unpin"
    <3>1. Unseen(job[p].tok) /\ job[p].tok \notin accepted
        BY <1>4, <2>2 DEF Ends, CallsApart
    <3>2. job[p].tok \notin Held \cup Sending \cup done \cup accepted
        BY <3>1, SeenSomewhere
    <3> QED
        BY <1>2, <1>4, <2>2, <3>2 DEF Ends
  <2> QED
      BY <2>1, <2>2
<1> QED
    BY <1>1, <1>3, <1>4, CallEffects DEF Begins, Stores, Uploads, SameCalls

(* a step that changes what no allocated stack holds keeps the view *)
LEMMA SameView ==
    ASSUME TypeOK, Ownership, wstack' = wstack, live \subseteq live',
           \A s \in live' : IF s \in live THEN entries'[s] = entries[s] ELSE entries'[s] = {}
    PROVE  Held' = Held /\ Sending' = Sending
<1>1. \A s \in live' : \A t : Holds(s, t)' <=> s \in live /\ Holds(s, t)
    BY DEF Holds
<1>2. \A t : t \in Held' <=> t \in Held
    BY <1>1, InHeld, InHeldNext
<1>3. wstack # NULL => wstack \in live
    BY DEF Ownership, ReachableIsLive
<1>4. Sending' = Sending
    BY <1>3 DEF Sending, Tokens
<1> QED
    BY <1>2, <1>4

(* the steps that neither store, accept, take, send nor free *)
LEMMA QuietView ==
    ASSUME IInv, CallsApart, ~raced, ~raced', [Next]_vars,
           \/ QuietStep
           \/ \E p \in Producers : StorePin(p) \/ (StoreUnpin(p) /\ pc[p] # "unpin")
           \/ \E a \in Actors : RotateSwap(a) \/ NewStackAlloc(a)
           \/ AcquireTake /\ wstack' = wstack
    PROVE  [Buffer!Next]_(Buffer!vars)
<1>0. TypeOK /\ Ownership /\ DataIsCounted
    BY DEF IInv
<1>1. CASE UNCHANGED <<wstack, live, entries, accepted, done>>
  <2>1. Held' = Held /\ Sending' = Sending
      BY <1>0, <1>1, SameView
  <2> QED
      BY <1>0, <1>1, <2>1, RefusesAtMost
<1>2. ASSUME NEW p \in Producers, StorePin(p) \/ (StoreUnpin(p) /\ pc[p] # "unpin")
      PROVE  UNCHANGED <<wstack, live, entries, accepted, done>>
    BY <1>2 DEF StorePin, StoreUnpin, wrt
<1>3. ASSUME AcquireTake, wstack' = wstack
      PROVE  UNCHANGED <<wstack, live, entries, accepted, done>>
    BY <1>3 DEF AcquireTake, heap
<1>4. ASSUME NEW a \in Actors, RotateSwap(a) PROVE [Buffer!Next]_(Buffer!vars)
  <2>1. slots[scan] \in Stacks \cup {NULL}
      BY <1>0 DEF TypeOK, TypeGlobals, TypeRotation
  <2>2. \A s \in Stacks : entries'[s] = entries[s]
    <3>1. CASE Reusable(a, slots[scan])
      <4>1. slots[scan] \in Stacks /\ entries[slots[scan]] = {}
          BY <1>0, <2>1, <3>1 DEF Reusable, IsStackFree, DataIsCounted
      <4>2. entries' = [entries EXCEPT ![slots[scan]] = {}]
          BY <1>4, <3>1 DEF RotateSwap, Blank
      <4> QED
          BY <1>0, <4>1, <4>2 DEF TypeOK, TypeHeap
    <3>2. CASE ~Reusable(a, slots[scan])
        BY <1>4, <3>2 DEF RotateSwap
    <3> QED
        BY <3>1, <3>2
  <2>3. UNCHANGED <<wstack, live, accepted, done>>
      BY <1>4 DEF RotateSwap, wrt, hist
  <2>4. Held' = Held /\ Sending' = Sending
    <3>1. \A s \in live' : IF s \in live THEN entries'[s] = entries[s] ELSE entries'[s] = {}
        BY <1>0, <2>2, <2>3 DEF TypeOK, TypeHeap
    <3> QED
        BY <1>0, <2>3, <3>1, SameView
  <2> QED
      BY <1>0, <2>3, <2>4, RefusesAtMost
<1>5. ASSUME NEW a \in Actors, NewStackAlloc(a) PROVE [Buffer!Next]_(Buffer!vars)
  <2>1. PICK x \in Stacks \ live : live' = live \cup {x} /\ entries' = [entries EXCEPT ![x] = {}]
      BY <1>5 DEF NewStackAlloc, Blank
  <2>2. UNCHANGED <<wstack, accepted, done>>
      BY <1>5 DEF NewStackAlloc, hist
  <2>3. Held' = Held /\ Sending' = Sending
    <3>1. \A s \in live' : IF s \in live THEN entries'[s] = entries[s] ELSE entries'[s] = {}
        BY <1>0, <2>1 DEF TypeOK, TypeHeap
    <3> QED
        BY <1>0, <2>1, <2>2, <3>1, SameView
  <2> QED
      BY <1>0, <2>2, <2>3, RefusesAtMost
<1> QED
    BY <1>1, <1>2, <1>3, <1>4, <1>5 DEF QuietStep

LEMMA WriteStores ==
    ASSUME IInv, CallsApart, ~raced, ~raced', NEW p \in Producers, StoreWrite(p)
    PROVE  Buffer!Next
<1> DEFINE t == job[p].tok
<1>0. TypeOK /\ StackOutlivesPin
    BY DEF IInv
<1>1. pc[p] = "write" /\ st[p] \in live /\ st[p] # wstack
    BY <1>0 DEF StoreWrite, StackOutlivesPin, PinnedPCs
<1>2. UNCHANGED <<live, wstack, accepted, rejected, done, raced>>
    BY DEF StoreWrite, wrt, hist
<1>3. entries' = [entries EXCEPT ![st[p]] = @ \cup {Payload(p)}] /\ Payload(p).tok = t
    BY DEF StoreWrite, Payload
<1>4. t \notin Held \cup Sending \cup done \cup accepted \cup rejected
  <2>1. Unseen(t) /\ t \notin accepted \cup rejected
      BY <1>1 DEF CallsApart
  <2> QED
      BY <1>0, <2>1, SeenSomewhere
<1>5. \A s \in live : \A u : Holds(s, u)' <=> Holds(s, u) \/ (s = st[p] /\ u = t)
    BY <1>0, <1>3 DEF Holds, TypeOK, TypeHeap
<1>6. Held' = Held \cup {t}
  <2>0. \A u : u \in Held' <=> \E s \in live : s # wstack /\ Holds(s, u)'
      BY <1>2, InHeldNext
  <2>1. \A u : u \in Held' <=> u \in Held \/ u = t
    <3> HIDE DEF t
    <3> QED
        BY <1>1, <1>5, <2>0, InHeld
  <2> HIDE DEF t
  <2> QED
      BY <2>1
<1>7. Sending' = Sending
    BY <1>0, <1>1, <1>2, <1>3 DEF Sending, Tokens, TypeOK, TypeHeap, TypeWriter
<1>8. Buffer!Store(t)
    BY <1>2, <1>4, <1>6, <1>7 DEF Buffer!Store, Buffer!Seen
<1> QED
    BY <1>2, <1>6, <1>8 DEF Buffer!Next

LEMMA UnpinAccepts ==
    ASSUME IInv, CallsApart, ~raced, ~raced', NEW p \in Producers, StoreUnpin(p), pc[p] = "unpin"
    PROVE  Buffer!Next
<1> DEFINE t == job[p].tok
<1>0. TypeOK /\ StackOutlivesPin /\ Written /\ Ownership
    BY DEF IInv
<1>1. st[p] \in live /\ st[p] # wstack /\ Holds(st[p], t)
    BY <1>0 DEF StackOutlivesPin, PinnedPCs, Written
<1>2. UNCHANGED <<live, entries, wstack, rejected, done, raced>> /\ accepted' = accepted \cup {t}
    BY DEF StoreUnpin, wrt
<1>3. Held' = Held /\ Sending' = Sending
    BY <1>0, <1>2, SameView
<1>4. t \in Held
    BY <1>1, InHeld
<1>5. t \notin accepted \cup rejected
    BY DEF CallsApart
<1>6. Buffer!Accept(t)
    BY <1>2, <1>3, <1>4, <1>5 DEF Buffer!Accept
<1> QED
    BY <1>2, <1>4, <1>6 DEF Buffer!Next

(* a taken stack holds accepted payloads only, since nobody is in it, and   *)
(* no other stack holds one of them                                         *)
LEMMA TakeTakes ==
    ASSUME IInv, CallsInv, ~raced, ~raced', AcquireTake, wstack' # wstack
    PROVE  Buffer!Next
<1>0. TypeOK /\ Ownership /\ Counted /\ CallsApart /\ StoredOnce /\ Claimed
    BY DEF IInv, CallsInv
<1>1. /\ wread \in Stacks /\ slots[wscan] = wread /\ refcount[wread] = 0
      /\ wstack = NULL /\ wstack' = wread
    BY <1>0, TakeCases
<1>2. UNCHANGED <<live, entries, accepted, rejected, done>>
    BY DEF AcquireTake, heap
<1>3. raced' = raced
    BY DEF AcquireTake
<1>4. wread \in live /\ wread # NULL
    BY <1>0, <1>1, ActorsAssumption DEF Ownership, ReachableIsLive, TypeOK, TypeWriter
<1>5. Sending = {} /\ Sending' = Tokens(wread)
    BY <1>1, <1>2, <1>4 DEF Sending, Tokens
<1>6. \A t : t \in Tokens(wread) <=> Holds(wread, t)
    BY DEF Tokens, Holds
<1>7. \A s \in live : s # wstack
    BY <1>0, <1>1, ActorsAssumption DEF TypeOK, TypeHeap
<1>8. Tokens(wread) \subseteq Held \cap accepted
  <2> SUFFICES ASSUME NEW t \in Tokens(wread) PROVE t \in Held /\ t \in accepted
      OBVIOUS
  <2>1. t \in Held
      BY <1>4, <1>6, <1>7, InHeld
  <2>2. PICK e \in entries[wread] : e.tok = t
      BY DEF Tokens
  <2>3. \A p \in Producers : pc[p] = "unpin" => st[p] # wread
      BY <1>0, <1>1, <1>4, Unpinned DEF PinnedPCs
  <2>4. t \in accepted
      BY <1>0, <1>4, <2>2, <2>3 DEF Claimed
  <2> QED
      BY <2>1, <2>4
<1>9. Held' = Held \ Tokens(wread)
  <2>1. \A t : t \in Held' <=> \E s \in live : s # wread /\ Holds(s, t)
      BY <1>1, <1>2, InHeldNext DEF Holds
  <2>2. \A s \in live : \A t : Holds(s, t) /\ Holds(wread, t) => s = wread
    <3> SUFFICES ASSUME NEW s \in live, NEW t, Holds(s, t), Holds(wread, t) PROVE s = wread
        OBVIOUS
    <3>1. s \in Stacks /\ t \in 1..ncalls
        BY <1>0, <1>1 DEF CallsApart, Holds, TypeOK, TypeHeap
    <3> QED
        BY <1>0, <1>1, <3>1 DEF StoredOnce
  <2>3. \A t : t \in Held' <=> t \in Held /\ ~Holds(wread, t)
      BY <1>7, <2>1, <2>2, InHeld
  <2>4. \A t : t \in Held' <=> t \in Held /\ t \notin Tokens(wread)
      BY <1>6, <2>3
  <2> QED
      BY <2>4
<1>10. Buffer!Take(Sending')
    BY <1>2, <1>5, <1>8, <1>9 DEF Buffer!Take
<1> QED
    BY <1>3, <1>10 DEF Buffer!Next

LEMMA SendSends ==
    ASSUME IInv, SendStack
    PROVE  Buffer!Next
<1>0. TypeOK /\ wstack # NULL
    BY DEF IInv, TypeOK, PointersLoaded, SendStack
<1>1. UNCHANGED <<live, entries, wstack, accepted, rejected, raced>>
    BY DEF SendStack, heap, wrt
<1>2. Held' = Held /\ Sending' = Sending
    BY <1>1 DEF Held, Sending, Tokens
<1>3. done' = done \cup Sending
    BY <1>0 DEF SendStack, Sending, Tokens
<1> QED
    BY <1>1, <1>2, <1>3 DEF Buffer!Next, Buffer!Send

LEMMA FreeDrops ==
    ASSUME IInv, ~raced, FreeStack
    PROVE  Buffer!Next
<1>0. TypeOK /\ Ownership /\ SentBeforeFree
    BY DEF IInv
<1>1. pc[Writer] = "free" /\ wstack # NULL /\ wstack \in Stacks /\ wstack' = NULL
    BY <1>0 DEF FreeStack, TypeOK, TypeWriter, PointersLoaded
<1>2. live' = live \ {wstack} /\ entries' = [entries EXCEPT ![wstack] = {}]
    BY DEF FreeStack, Freed, Blank
<1>3. UNCHANGED <<accepted, rejected, done, raced>>
    BY DEF FreeStack, hist
<1>4. Sending' = {} /\ Sending \subseteq done
    BY <1>0, <1>1 DEF Sending, Tokens, SentBeforeFree
<1>5. Held' = Held
  <2>1. \A s \in live' : s \in live /\ s # wstack /\ s # wstack' /\ entries'[s] = entries[s]
      BY <1>0, <1>1, <1>2, ActorsAssumption DEF TypeOK, TypeHeap
  <2>2. \A s \in live' : \A t : Holds(s, t)' <=> Holds(s, t)
      BY <2>1 DEF Holds
  <2>3. \A s : s \in live' <=> s \in live /\ s # wstack
      BY <1>2
  <2>4. \A t : t \in Held' <=> t \in Held
    <3> TAKE t
    <3>1. ASSUME t \in Held' PROVE t \in Held
        BY <2>1, <2>2, <3>1, InHeld, InHeldNext
    <3>2. ASSUME t \in Held PROVE t \in Held'
      <4>1. PICK s \in live : s # wstack /\ Holds(s, t)
          BY <3>2, InHeld
      <4>2. s \in live' /\ s # wstack' /\ Holds(s, t)'
          BY <2>1, <2>2, <2>3, <4>1
      <4> QED
          BY <4>2, InHeldNext
    <3> QED
        BY <3>1, <3>2
  <2> QED
      BY <2>4
<1> QED
    BY <1>3, <1>4, <1>5 DEF Buffer!Next, Buffer!Drop

(* every step of the stacks is a step of the buffer, or leaves it alone *)
LEMMA StepSimulation ==
    ASSUME IInv, CallsInv, [Next]_vars
    PROVE  [Buffer!Next]_(Buffer!vars)
<1>0. TypeOK /\ TypeOK' /\ CallsApart
    BY TypeNext DEF IInv, CallsInv
<1>1. CASE raced'
  <2>1. raced' = TRUE
      BY <1>0, <1>1 DEF TypeOK, TypeFlags
  <2> QED
      BY <2>1 DEF Buffer!Next, Buffer!Break
<1>2. CASE ~raced'
  <2>0. ~raced
      BY <1>2, RacedStays
  <2>1. ASSUME \/ QuietStep
               \/ \E p \in Producers : StorePin(p) \/ (StoreUnpin(p) /\ pc[p] # "unpin")
               \/ \E a \in Actors : RotateSwap(a) \/ NewStackAlloc(a)
               \/ AcquireTake /\ wstack' = wstack
        PROVE  [Buffer!Next]_(Buffer!vars)
      BY <1>0, <1>2, <2>0, <2>1, QuietView
  <2>2. ASSUME NEW p \in Producers, StoreWrite(p) PROVE Buffer!Next
      BY <1>0, <1>2, <2>0, <2>2, WriteStores
  <2>3. ASSUME NEW p \in Producers, StoreUnpin(p), pc[p] = "unpin" PROVE Buffer!Next
      BY <1>0, <1>2, <2>0, <2>3, UnpinAccepts
  <2>4. ASSUME AcquireTake, wstack' # wstack PROVE Buffer!Next
      BY <1>2, <2>0, <2>4, TakeTakes
  <2>5. CASE SendStack
      BY <2>5, SendSends
  <2>6. CASE FreeStack
      BY <2>0, <2>6, FreeDrops
  <2> QED
      BY <1>0, <2>1, <2>2, <2>3, <2>4, <2>5, <2>6, QuietOrNot
<1> QED
    BY <1>1, <1>2

LEMMA InitSimulation == Init => Buffer!Init
<1> SUFFICES ASSUME Init PROVE Buffer!Init
    BY SMTT(60)
<1>1. Sending = {}
    BY DEF Init, Sending
<1>2. \A t : t \notin Held
    BY InHeld DEF Init, Holds
<1>3. Held = {}
    BY <1>2
<1> QED
    BY <1>1, <1>3 DEF Init, Buffer!Init

(* The background sender's stacks implement the buffer of TraceBuffer: as   *)
(* long as no thread hits one of the two windows, a payload is held once    *)
(* from its store until its batch was sent, an accepted one is never lost   *)
(* and a refused one never stored.                                          *)
THEOREM Implements == Spec => ImplementsBuffer
<1>1. IInv /\ CallsInv /\ [Next]_vars => [Buffer!Next]_(Buffer!vars)
    BY StepSimulation
<1> QED
    BY <1>1, InitSimulation, InvInit, InvNext, CallsInit, CallsNext, PTL
       DEF Spec, ImplementsBuffer, Buffer!Spec
=============================================================================
