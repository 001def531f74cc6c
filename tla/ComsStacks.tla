----------------------------- MODULE ComsStacks -----------------------------
(***************************************************************************)
(* The buffer of the background sender (tracer/coms.c): PHP threads append *)
(* msgpack payloads to the current stack with atomic counters and no lock, *)
(* rotate it under stack_rotation_mutex when it is full, and the writer    *)
(* thread rotates it too, takes filled stacks out of the backlog array,    *)
(* sends and frees them.                                                   *)
(*                                                                         *)
(* A stack is an identity with a size, the atomics position, bytes_written *)
(* and refcount, and its entries.  Every shared access another thread can  *)
(* get in front of is a step of its own.  What a payload says is not       *)
(* modelled: a payload is the number of the buffer_data call it came from  *)
(* and its length.                                                         *)
(***************************************************************************)
EXTENDS Integers, FiniteSets

CONSTANTS
    Producers,      \* PHP threads
    Writer,         \* the background sender's thread
    Stacks,         \* addresses calloc can return for a stack
    NULL,
    MaxBacklog,     \* DD_TRACE_AGENT_MAX_BACKLOG_SIZE
    InitialSize,    \* initial_stack_size
    MaxPayload,     \* DD_TRACE_AGENT_MAX_PAYLOAD_SIZE
    PayloadSizes,   \* lengths the callers hand in
    MaxCalls        \* bound: calls of ddtrace_coms_buffer_data

ASSUME ActorsAssumption ==
    /\ IsFiniteSet(Producers)
    /\ Writer \notin Producers
    /\ NULL \notin Producers \cup {Writer}
    /\ NULL \notin Stacks

ASSUME BoundsAssumption ==
    /\ MaxBacklog \in Nat \ {0}
    /\ InitialSize \in Nat \ {0}
    /\ MaxPayload \in Nat
    /\ PayloadSizes \subseteq Nat \ {0}
    /\ MaxCalls \in Nat

VARIABLES
    \* ddtrace_coms_globals
    current_stack, slots, tmp_stack, stack_size,
    \* the stacks in memory
    live, size, position, bytes_written, refcount, entries,
    \* stack_rotation_mutex and the rotation its holder is in
    mutex, scan, nsize,
    \* PHP threads: control, payload, attempt, loaded pointer, reserved offset
    pc, job, attempt, st, at,
    \* writer thread: its rotation's allocate flag, its acquire scan, its stack
    alloc_new, wscan, wread, wstack,
    \* history: calls made, payloads accepted, rejected, uploaded or given up,
    \* and whether one of the two windows of the code has been hit
    ncalls, accepted, rejected, done, raced

globals == <<current_stack, slots, tmp_stack, stack_size>>
heap    == <<live, size, position, bytes_written, refcount, entries>>
rot     == <<mutex, scan, nsize>>
prod    == <<job, attempt, st, at>>
wrt     == <<alloc_new, wscan, wread, wstack>>
hist    == <<ncalls, accepted, rejected, done, raced>>
vars    == <<globals, heap, rot, pc, prod, wrt, hist>>

Actors == Producers \cup {Writer}
Slots  == 1..MaxBacklog

(* sizeof(size_t) + sizeof(group_id_t), written in front of every payload *)
Header == 12
(* the padding buffer_data asks for, on top of the payload, when it rotates *)
Padding == 2

NoJob == [tok |-> 0, len |-> 1]

Alloc(p) == job[p].len + Header

(* mutants of IsStackFree: one of its two conjuncts is forgotten *)
FreeIgnoringRefcount(s) == bytes_written[s] = 0
(* ddtrace_coms_is_stack_free *)
IsStackFree(s) == refcount[s] = 0 /\ bytes_written[s] = 0

-----------------------------------------------------------------------------
(* ddtrace_coms_minit: the first stack is current, the backlog is empty *)
Init ==
    /\ \E s \in Stacks : current_stack = s /\ live = {s}
    /\ slots = [i \in Slots |-> NULL]
    /\ tmp_stack = NULL
    /\ stack_size = InitialSize
    /\ size = [s \in Stacks |-> InitialSize]
    /\ position = [s \in Stacks |-> 0]
    /\ bytes_written = [s \in Stacks |-> 0]
    /\ refcount = [s \in Stacks |-> 0]
    /\ entries = [s \in Stacks |-> {}]
    /\ mutex = NULL /\ scan = 1 /\ nsize = InitialSize
    /\ pc = [a \in Actors |-> "idle"]
    /\ job = [p \in Producers |-> NoJob]
    /\ attempt = [p \in Producers |-> 1]
    /\ st = [p \in Producers |-> NULL]
    /\ at = [p \in Producers |-> 0]
    /\ alloc_new = TRUE /\ wscan = 1 /\ wread = NULL /\ wstack = NULL
    /\ ncalls = 0 /\ accepted = {} /\ rejected = {} /\ done = {}
    /\ raced = FALSE

(* dd_recycle_stack, and what calloc leaves: counters and data are zeroed *)
Blank(s, n) ==
    /\ size' = [size EXCEPT ![s] = n]
    /\ position' = [position EXCEPT ![s] = 0]
    /\ bytes_written' = [bytes_written EXCEPT ![s] = 0]
    /\ refcount' = [refcount EXCEPT ![s] = 0]
    /\ entries' = [entries EXCEPT ![s] = {}]

Goto(a, l) == pc' = [pc EXCEPT ![a] = l]

-----------------------------------------------------------------------------
(* ddtrace_coms_buffer_data and dd_store_data, run by a PHP thread.        *)

(* a payload longer than the limit is refused before anything is touched *)
BufferData(p) ==
    /\ pc[p] = "idle"
    /\ ncalls < MaxCalls
    /\ ncalls' = ncalls + 1
    /\ \E n \in PayloadSizes :
         IF n > MaxPayload
         THEN /\ rejected' = rejected \cup {ncalls'}
              /\ UNCHANGED <<pc, prod>>
         ELSE /\ job' = [job EXCEPT ![p] = [tok |-> ncalls', len |-> n]]
              /\ Goto(p, "load")
              /\ UNCHANGED <<rejected, attempt, st, at>>
    /\ UNCHANGED <<globals, heap, rot, wrt, accepted, done, raced>>

(* buffer_data returns, and its locals are gone *)
Return(p) ==
    /\ Goto(p, "idle")
    /\ job' = [job EXCEPT ![p] = NoJob]
    /\ attempt' = [attempt EXCEPT ![p] = 1]
    /\ st' = [st EXCEPT ![p] = NULL]
    /\ at' = [at EXCEPT ![p] = 0]

(* ENOMEM: the first time rotate and try once more, then give up *)
StoreFailed(p) ==
    IF attempt[p] = 1
    THEN /\ Goto(p, "lock")
         /\ st' = [st EXCEPT ![p] = NULL]
         /\ UNCHANGED <<rejected, job, attempt, at>>
    ELSE Return(p) /\ rejected' = rejected \cup {job[p].tok}

StoreLoad(p) ==
    /\ pc[p] = "load"
    /\ IF current_stack = NULL
       THEN StoreFailed(p)
       ELSE /\ st' = [st EXCEPT ![p] = current_stack]
            /\ Goto(p, "pin")
            /\ UNCHANGED <<rejected, job, attempt, at>>
    /\ UNCHANGED <<globals, heap, rot, wrt, ncalls, accepted, done, raced>>

(* mutant: the thread does not count itself in *)
PinWithoutCount(p) ==
    /\ pc[p] = "pin"
    /\ Goto(p, "reserve")
    /\ UNCHANGED <<globals, heap, rot, prod, wrt, hist>>

(* First window: the stack loaded a step ago may have been rotated out, or *)
(* sent and freed, by now.  raced records it.                              *)
StorePin(p) ==
    /\ pc[p] = "pin"
    /\ refcount' = [refcount EXCEPT ![st[p]] = @ + 1]
    /\ raced' = IF st[p] # current_stack THEN TRUE ELSE raced
    /\ Goto(p, "reserve")
    /\ UNCHANGED <<globals, live, size, position, bytes_written, entries, rot, prod, wrt,
                   ncalls, accepted, rejected, done>>

(* mutant: the header is not reserved *)
ReserveWithoutHeader(p) ==
    /\ pc[p] = "reserve"
    /\ position' = [position EXCEPT ![st[p]] = @ + job[p].len]
    /\ IF position[st[p]] + Alloc(p) > size[st[p]]
       THEN Goto(p, "unpin_failed") /\ UNCHANGED at
       ELSE Goto(p, "write") /\ at' = [at EXCEPT ![p] = position[st[p]]]
    /\ UNCHANGED <<globals, live, size, bytes_written, refcount, entries, rot,
                   job, attempt, st, wrt, hist>>

(* a reservation that does not fit is not taken back *)
StoreReserve(p) ==
    /\ pc[p] = "reserve"
    /\ position' = [position EXCEPT ![st[p]] = @ + Alloc(p)]
    /\ IF position[st[p]] + Alloc(p) > size[st[p]]
       THEN Goto(p, "unpin_failed") /\ UNCHANGED at
       ELSE Goto(p, "write") /\ at' = [at EXCEPT ![p] = position[st[p]]]
    /\ UNCHANGED <<globals, live, size, bytes_written, refcount, entries, rot,
                   job, attempt, st, wrt, hist>>

StoreWrite(p) ==
    /\ pc[p] = "write"
    /\ entries' = [entries EXCEPT ![st[p]] =
                     @ \cup {[tok |-> job[p].tok, pos |-> at[p], len |-> Alloc(p)]}]
    /\ bytes_written' = [bytes_written EXCEPT ![st[p]] = @ + Alloc(p)]
    /\ Goto(p, "unpin")
    /\ UNCHANGED <<globals, live, size, position, refcount, rot, prod, wrt, hist>>

(* mutant: the result of the first dd_store_data is ignored *)
UnpinAndRetry(p) ==
    /\ pc[p] \in {"unpin", "unpin_failed"}
    /\ StoreFailed(p)
    /\ refcount' = [refcount EXCEPT ![st[p]] = @ - 1]
    /\ UNCHANGED <<globals, live, size, position, bytes_written, entries, rot, wrt,
                   ncalls, accepted, done, raced>>

(* mutant: the failed reservation leaves its count behind *)
UnpinOnlyOnSuccess(p) ==
    /\ \/ /\ pc[p] = "unpin"
          /\ accepted' = accepted \cup {job[p].tok}
          /\ Return(p)
          /\ refcount' = [refcount EXCEPT ![st[p]] = @ - 1]
          /\ UNCHANGED rejected
       \/ /\ pc[p] = "unpin_failed"
          /\ StoreFailed(p)
          /\ UNCHANGED <<accepted, refcount>>
    /\ UNCHANGED <<globals, live, size, position, bytes_written, entries, rot, wrt,
                   ncalls, done, raced>>

StoreUnpin(p) ==
    /\ \/ /\ pc[p] = "unpin"
          /\ accepted' = accepted \cup {job[p].tok}
          /\ Return(p)
          /\ UNCHANGED rejected
       \/ /\ pc[p] = "unpin_failed"
          /\ StoreFailed(p)
          /\ UNCHANGED accepted
    /\ refcount' = [refcount EXCEPT ![st[p]] = @ - 1]
    /\ UNCHANGED <<globals, live, size, position, bytes_written, entries, rot, wrt,
                   ncalls, done, raced>>

-----------------------------------------------------------------------------
(* ddtrace_coms_threadsafe_rotate_stack: run by a PHP thread that found no *)
(* room and by the writer at every cycle, one at a time under the mutex.   *)

MinSize(a) == IF a = Writer THEN InitialSize ELSE job[a].len + Padding
AttemptAllocateNew(a) == IF a = Writer THEN alloc_new ELSE TRUE

(* a stack this rotation can write to: empty, unused and large enough *)
Reusable(a, x) == x # NULL /\ size[x] >= MinSize(a) /\ IsStackFree(x)

RotateReturn(a) ==
    /\ mutex' = NULL
    /\ nsize' = InitialSize
    /\ IF a = Writer
       THEN /\ Goto(a, "acq_read")
            /\ wscan' = 1
            /\ UNCHANGED attempt
       ELSE /\ Goto(a, "load")
            /\ attempt' = [attempt EXCEPT ![a] = 2]
            /\ UNCHANGED wscan

RotateLock(a) ==
    /\ pc[a] = "lock"
    /\ mutex = NULL
    /\ mutex' = a
    /\ Goto(a, "keep")
    /\ UNCHANGED <<globals, heap, scan, nsize, prod, wrt, hist>>

(* an empty, unused and large enough current stack is not swapped out *)
RotateKeep(a) ==
    /\ pc[a] = "keep"
    /\ IF current_stack = NULL \/ Reusable(a, current_stack)
       THEN Goto(a, "check") /\ UNCHANGED tmp_stack
       ELSE Goto(a, "swap") /\ tmp_stack' = current_stack
    /\ UNCHANGED <<current_stack, slots, stack_size, heap, rot, prod, wrt, hist>>

ScanOn(a, next) ==
    IF scan < MaxBacklog
    THEN scan' = scan + 1 /\ UNCHANGED pc
    ELSE scan' = 1 /\ Goto(a, next)

(* look for an empty stack of the array to swap with: recycle it and make  *)
(* it current; the slot still names it until RotateSwapPut                 *)
RotateSwap(a) ==
    /\ pc[a] = "swap"
    /\ LET x == slots[scan] IN
       \/ /\ Reusable(a, x)
          /\ Blank(x, size[x])
          /\ current_stack' = x
          /\ Goto(a, "swap_put")
          /\ UNCHANGED scan
       \/ /\ ~Reusable(a, x)
          /\ ScanOn(a, "store")
          /\ UNCHANGED <<size, position, bytes_written, refcount, entries, current_stack>>
    /\ UNCHANGED <<slots, tmp_stack, stack_size, live, mutex, nsize, prod, wrt, hist>>

RotateSwapPut(a) ==
    /\ pc[a] = "swap_put"
    /\ slots' = [slots EXCEPT ![scan] = tmp_stack]
    /\ tmp_stack' = NULL
    /\ scan' = 1
    /\ Goto(a, "check")
    /\ UNCHANGED <<current_stack, stack_size, heap, mutex, nsize, prod, wrt, hist>>

(* no empty stack: look for an empty slot, there is no current stack then *)
RotateStore(a) ==
    /\ pc[a] = "store"
    /\ \/ /\ slots[scan] = NULL
          /\ current_stack' = NULL
          /\ Goto(a, "store_put")
          /\ UNCHANGED <<scan, tmp_stack>>
       \/ /\ slots[scan] # NULL
          /\ ScanOn(a, "check")
          /\ tmp_stack' = IF scan = MaxBacklog THEN NULL ELSE tmp_stack
          /\ UNCHANGED current_stack
    /\ UNCHANGED <<slots, stack_size, heap, mutex, nsize, prod, wrt, hist>>

RotateStorePut(a) ==
    /\ pc[a] = "store_put"
    /\ slots' = [slots EXCEPT ![scan] = tmp_stack]
    /\ tmp_stack' = NULL
    /\ scan' = 1
    /\ Goto(a, "check")
    /\ UNCHANGED <<current_stack, stack_size, heap, mutex, nsize, prod, wrt, hist>>

(* the second half of dd_coms_unsafe_rotate_stack: without a current stack *)
(* the caller that may allocate goes on to dd_new_stack                    *)
RotateCheck(a) ==
    /\ pc[a] = "check"
    /\ IF current_stack = NULL /\ AttemptAllocateNew(a)
       THEN /\ nsize' = stack_size
            /\ Goto(a, "grow")
            /\ UNCHANGED <<mutex, attempt, wscan>>
       ELSE RotateReturn(a)
    /\ UNCHANGED <<globals, heap, scan, job, st, at, alloc_new, wread, wstack, hist>>

(* dd_new_stack: double while the payload does not fit and the limit allows *)
NewStackGrow(a) ==
    /\ pc[a] = "grow"
    /\ IF MinSize(a) > nsize /\ nsize <= MaxPayload \div 2
       THEN nsize' = 2 * nsize /\ UNCHANGED pc
       ELSE Goto(a, "alloc") /\ UNCHANGED nsize
    /\ UNCHANGED <<globals, heap, mutex, scan, prod, wrt, hist>>

(* the weak compare-exchange on stack_size is retried twice and may fail *)
NewStackAlloc(a) ==
    /\ pc[a] = "alloc"
    /\ \E s \in Stacks \ live :
         /\ live' = live \cup {s}
         /\ Blank(s, nsize)
         /\ current_stack' = s
    /\ stack_size' \in {stack_size, nsize}
    /\ RotateReturn(a)
    /\ UNCHANGED <<slots, tmp_stack, scan, job, st, at, alloc_new, wread, wstack, hist>>

Rotate(a) ==
    \/ RotateLock(a) \/ RotateKeep(a) \/ RotateSwap(a) \/ RotateSwapPut(a)
    \/ RotateStore(a) \/ RotateStorePut(a) \/ RotateCheck(a)
    \/ NewStackGrow(a) \/ NewStackAlloc(a)

-----------------------------------------------------------------------------
(* dd_writer_loop's body, and dd_coms_attempt_acquire_stack, which scans   *)
(* the array without the mutex.                                            *)

(* a cycle begins: allocate_new_stacks is on in operation, off in shutdown *)
WriterCycle ==
    /\ pc[Writer] = "idle"
    /\ alloc_new' \in BOOLEAN
    /\ Goto(Writer, "lock")
    /\ UNCHANGED <<globals, heap, rot, prod, wscan, wread, wstack, hist>>

AcquireOn ==
    /\ wread' = NULL
    /\ IF wscan < MaxBacklog
       THEN wscan' = wscan + 1 /\ Goto(Writer, "acq_read")
       ELSE wscan' = 1 /\ Goto(Writer, "idle")

AcquireRead ==
    /\ pc[Writer] = "acq_read"
    /\ IF slots[wscan] = NULL
       THEN AcquireOn
       ELSE /\ wread' = slots[wscan]
            /\ Goto(Writer, "acq_refcount")
            /\ UNCHANGED wscan
    /\ UNCHANGED <<globals, heap, rot, prod, alloc_new, wstack, hist>>

AcquireRefcount ==
    /\ pc[Writer] = "acq_refcount"
    /\ IF refcount[wread] = 0
       THEN Goto(Writer, "acq_take") /\ UNCHANGED <<wscan, wread>>
       ELSE AcquireOn
    /\ UNCHANGED <<globals, heap, rot, prod, alloc_new, wstack, hist>>

(* mutant: the slot keeps its pointer *)
KeepSlot(i) == slots

ClearSlot(i) == [slots EXCEPT ![i] = NULL]

(* Second window: since the slot and the refcount were read a PHP thread   *)
(* may have rotated the stack back in, written to it, or put another stack *)
(* into the slot.  raced records it.                                       *)
AcquireTake ==
    /\ pc[Writer] = "acq_take"
    /\ IF bytes_written[wread] > 0
       THEN /\ wstack' = wread
            /\ wread' = NULL
            /\ slots' = ClearSlot(wscan)
            /\ raced' = IF \/ slots[wscan] # wread
                           \/ current_stack = wread
                           \/ refcount[wread] # 0
                        THEN TRUE ELSE raced
            /\ Goto(Writer, "send")
            /\ UNCHANGED wscan
       ELSE AcquireOn /\ UNCHANGED <<slots, wstack, raced>>
    /\ UNCHANGED <<current_stack, tmp_stack, stack_size, heap, rot, prod, alloc_new,
                   ncalls, accepted, rejected, done>>

(* dd_curl_send_stack: uploaded or not, the payloads are gone after it *)
SendStack ==
    /\ pc[Writer] = "send"
    /\ done' = done \cup {e.tok : e \in entries[wstack]}
    /\ Goto(Writer, "free")
    /\ UNCHANGED <<globals, heap, rot, prod, wrt, ncalls, accepted, rejected, raced>>

(* dd_coms_free_stack *)
Freed(s) == live \ {s}

(* the address can be reused; what the memory holds meanwhile is blank *)
FreeStack ==
    /\ pc[Writer] = "free"
    /\ live' = Freed(wstack)
    /\ Blank(wstack, InitialSize)
    /\ wstack' = NULL
    /\ wscan' = 1
    /\ Goto(Writer, "acq_read")
    /\ UNCHANGED <<globals, rot, prod, alloc_new, wread, hist>>

-----------------------------------------------------------------------------
Store(p) ==
    \/ StoreLoad(p) \/ StorePin(p) \/ StoreReserve(p) \/ StoreWrite(p) \/ StoreUnpin(p)

WriterStep ==
    \/ WriterCycle \/ AcquireRead \/ AcquireRefcount \/ AcquireTake
    \/ SendStack \/ FreeStack

Next ==
    \/ \E p \in Producers : BufferData(p) \/ Store(p)
    \/ \E a \in Actors : Rotate(a)
    \/ WriterStep

Spec == Init /\ [][Next]_vars

(* A thread in the middle of a call or a cycle keeps running, and the      *)
(* writer starts a cycle at the latest when its flush interval is over.    *)
(* Nothing makes PHP buffer another payload.                               *)
FairSpec ==
    /\ Spec
    /\ \A p \in Producers : WF_vars(Store(p) \/ Rotate(p))
    /\ WF_vars(WriterStep \/ Rotate(Writer))

-----------------------------------------------------------------------------
(* Type invariant *)
Payloads == [tok : 0..MaxCalls, len : Nat \ {0}]
Entries  == [tok : 0..MaxCalls, pos : Nat, len : Nat \ {0}]

RotatePCs   == {"keep", "swap", "swap_put", "store", "store_put", "check", "grow", "alloc"}
ProducerPCs == RotatePCs \cup {"idle", "load", "pin", "reserve", "write", "unpin",
                               "unpin_failed", "lock"}
WriterPCs   == RotatePCs \cup {"idle", "lock", "acq_read", "acq_refcount", "acq_take",
                               "send", "free"}

TypeGlobals ==
    /\ current_stack \in Stacks \cup {NULL}
    /\ slots \in [Slots -> Stacks \cup {NULL}]
    /\ tmp_stack \in Stacks \cup {NULL}
    /\ stack_size \in Nat

TypeHeap ==
    /\ live \in SUBSET Stacks
    /\ size \in [Stacks -> Nat]
    /\ position \in [Stacks -> Nat]
    /\ bytes_written \in [Stacks -> Nat]
    /\ refcount \in [Stacks -> Int]
    /\ entries \in [Stacks -> SUBSET Entries]

TypeRotation ==
    /\ mutex \in Actors \cup {NULL}
    /\ scan \in Slots
    /\ nsize \in Nat

TypeControl ==
    /\ pc \in [Actors -> ProducerPCs \cup WriterPCs]
    /\ pc[Writer] \in WriterPCs
    /\ \A p \in Producers : pc[p] \in ProducerPCs

TypeProducers ==
    /\ job \in [Producers -> Payloads]
    /\ attempt \in [Producers -> {1, 2}]
    /\ st \in [Producers -> Stacks \cup {NULL}]
    /\ at \in [Producers -> Nat]

TypeWriter ==
    /\ wscan \in Slots
    /\ wread \in Stacks \cup {NULL}
    /\ wstack \in Stacks \cup {NULL}

TypeHistory ==
    /\ ncalls \in 0..MaxCalls
    /\ accepted \in SUBSET (0..MaxCalls)
    /\ rejected \in SUBSET (0..MaxCalls)
    /\ done \in SUBSET (0..MaxCalls)

TypeFlags == alloc_new \in BOOLEAN /\ raced \in BOOLEAN

PinnedPCs == {"reserve", "write", "unpin", "unpin_failed"}

(* a thread that dereferences a stack has loaded one before *)
PointersLoaded ==
    /\ \A p \in Producers : pc[p] \in PinnedPCs \cup {"pin"} => st[p] # NULL
    /\ pc[Writer] \in {"acq_refcount", "acq_take"} => wread # NULL
    /\ pc[Writer] \in {"send", "free"} <=> wstack # NULL

(* Every variable holds values of its C type, and no thread dereferences a *)
(* stack pointer it has not loaded.                                        *)
TypeOK ==
    /\ TypeGlobals /\ TypeHeap /\ TypeRotation /\ TypeControl
    /\ TypeProducers /\ TypeWriter /\ TypeHistory
    /\ TypeFlags /\ PointersLoaded

-----------------------------------------------------------------------------
(* What the buffer promises as long as neither window has been hit.        *)

Pinners(s) == {p \in Producers : pc[p] \in PinnedPCs /\ st[p] = s}

InArray(s) == \E i \in Slots : slots[i] = s
Reachable(s) == s # NULL /\ (s \in {current_stack, tmp_stack, wstack} \/ InArray(s))

(* the threads between the two stores that swap the current stack *)
MidSwap(i) == scan = i /\ \E a \in Actors : pc[a] = "swap_put"

(* A PHP thread that counted itself into refcount works on a stack that is *)
(* still allocated and that the writer has not taken: rotation, sending    *)
(* and freeing never overtake dd_store_data.                               *)
StackOutlivesPin ==
    \A p \in Producers : pc[p] \in PinnedPCs => st[p] \in live /\ st[p] # wstack
PinnedStackAlive == ~raced => StackOutlivesPin

(* A stack is in one place: it is current, or in one slot of the array, or *)
(* being sent, or in transit in a rotation.  Only between the two stores   *)
(* of a swap (dd_unsafe_store_or_swap_current_stack_for_empty_stack) does  *)
(* the slot still name the stack that just became current.                 *)
OneSlot == \A i, j \in Slots : i # j /\ slots[i] # NULL => slots[i] # slots[j]
SlotOrCurrent ==
    \A i \in Slots : slots[i] # NULL /\ slots[i] = current_stack => MidSwap(i)
SlotOrSending ==
    wstack # NULL => wstack # current_stack /\ \A i \in Slots : slots[i] # wstack
ReachableIsLive ==
    /\ {current_stack, tmp_stack, wstack} \subseteq live \cup {NULL}
    /\ \A i \in Slots : slots[i] \in live \cup {NULL}
SingleOwner ==
    ~raced => OneSlot /\ SlotOrCurrent /\ SlotOrSending /\ ReachableIsLive

(* The stacks in memory never outnumber the backlog, the current stack and *)
(* the one being sent: every stack taken out of the array is freed, none   *)
(* is leaked by a rotation.                                                *)
NoLeak == \A s \in live : Reachable(s)
MemoryBounded ==
    ~raced => NoLeak /\ Cardinality(live) <= MaxBacklog + 2

(* No payload that buffer_data accepted disappears before the writer sent  *)
(* the stack it is in.                                                     *)
Holds(s, t) == \E e \in entries[s] : e.tok = t
NothingLost ==
    ~raced => \A t \in accepted : t \in done \/ \E s \in live : Holds(s, t) /\ Reachable(s)

(* The entries of a stack nobody writes to lie back to back from offset 0  *)
(* to bytes_written: dd_msgpack_group_stack_by_id walks them by their      *)
(* lengths, so a hole or an overlap would corrupt the upload.              *)
Tiled(s) ==
    LET starts == {e.pos : e \in entries[s]}
        ends == {e.pos + e.len : e \in entries[s]}
    IN  /\ Cardinality(starts) = Cardinality(entries[s])
        /\ Cardinality(ends) = Cardinality(entries[s])
        /\ starts \cup {bytes_written[s]} = ends \cup {0}
EntriesTiled ==
    ~raced => \A s \in live : refcount[s] = 0 => Tiled(s)

(* What the writer is sending does not change under it: a taken stack is   *)
(* not appended to, recycled or rotated in.                                *)
SendingIsFrozen ==
    [][wstack # NULL /\ wstack' = wstack /\ ~raced' =>
         /\ entries'[wstack] = entries[wstack]
         /\ bytes_written'[wstack] = bytes_written[wstack]]_vars

(* Every accepted payload is sent in the end, whatever the backlog looks   *)
(* like, when the writer keeps cycling and the PHP threads keep running.   *)
EventuallySent ==
    \A t \in 1..MaxCalls : t \in accepted ~> (t \in done \/ raced)

-----------------------------------------------------------------------------
(* The inductive invariant.  MutexHeld and Transit hold in every state; the *)
(* rest as long as no window was hit.                                      *)

(* a thread is inside a rotation exactly when it holds the mutex *)
MutexHeld == \A a \in Actors : pc[a] \in RotatePCs <=> mutex = a

(* what a rotation has taken out of the globals so far *)
TransitPCs == {"swap", "store", "swap_put", "store_put"}
Transit ==
    /\ \A a \in Actors :
         /\ pc[a] \in {"swap", "store"} => tmp_stack = current_stack
         /\ pc[a] \in TransitPCs => tmp_stack # NULL
         /\ pc[a] \in {"store_put", "grow", "alloc"} => current_stack = NULL
         /\ pc[a] = "swap_put" => current_stack # NULL
         /\ pc[a] = "store_put" => slots[scan] = NULL
    /\ (\A a \in Actors : pc[a] \notin TransitPCs) => tmp_stack = NULL

Ownership ==
    /\ OneSlot /\ SlotOrCurrent /\ SlotOrSending /\ ReachableIsLive /\ NoLeak
    /\ wstack # NULL => wstack # tmp_stack
    /\ \A i \in Slots : slots[i] # NULL => slots[i] # tmp_stack
    /\ (\E a \in Actors : pc[a] = "swap_put") =>
          slots[scan] = current_stack /\ tmp_stack # current_stack

(* refcount counts the threads inside dd_store_data *)
Counted == \A s \in live : refcount[s] = Cardinality(Pinners(s))

(* what a stack holds is what was written to it since it was blank *)
DataIsCounted == \A s \in Stacks : bytes_written[s] = 0 => entries[s] = {}

(* a payload is in its stack when buffer_data is about to report success *)
Written ==
    \A p \in Producers : pc[p] = "unpin" => Holds(st[p], job[p].tok)
Kept == \A t \in accepted : t \in done \/ \E s \in live : Holds(s, t)
SentBeforeFree ==
    pc[Writer] = "free" => \A e \in entries[wstack] : e.tok \in done

IInv ==
    /\ TypeOK /\ MutexHeld /\ Transit /\ DataIsCounted
    /\ ~raced => Ownership /\ StackOutlivesPin /\ Counted
                /\ Written /\ Kept /\ SentBeforeFree

(* Calls, for ImplementsBuffer: a number belongs to one call, and its      *)
(* payload is nowhere before the call has written it.  These hold in every *)
(* state.                                                                  *)
Unseen(t) == t \notin done /\ \A s \in Stacks : ~Holds(s, t)
CallsApart ==
    /\ \A p \in Producers : pc[p] # "idle" =>
         /\ job[p].tok \in 1..ncalls
         /\ job[p].tok \notin accepted \cup rejected
         /\ pc[p] # "unpin" => Unseen(job[p].tok)
    /\ \A p, q \in Producers :
         pc[p] # "idle" /\ pc[q] # "idle" /\ job[p].tok = job[q].tok => p = q
    /\ accepted \cup rejected \cup done \subseteq 1..ncalls
    /\ \A s \in Stacks : \A e \in entries[s] : e.tok \in 1..ncalls
StoredOnce ==
    \A r, s \in Stacks : \A t \in 1..ncalls : Holds(r, t) /\ Holds(s, t) => r = s

(* what is in a stack was accepted or is about to be, by a thread in it *)
Claimed ==
    \A s \in live : \A e \in entries[s] :
      \/ e.tok \in accepted
      \/ \E p \in Producers : pc[p] = "unpin" /\ st[p] = s /\ job[p].tok = e.tok

CallsInv == CallsApart /\ StoredOnce /\ (~raced => Claimed)

-----------------------------------------------------------------------------
(* What the stacks hold, seen as one buffer.                               *)
Tokens(s) == {e.tok : e \in entries[s]}
Held == UNION {Tokens(s) : s \in live \ {wstack}}
Sending == IF wstack = NULL THEN {} ELSE Tokens(wstack)

Buffer == INSTANCE TraceBuffer WITH held <- Held, sending <- Sending, sent <- done, broken <- raced

(* The stacks, their counters and rotations implement the buffer: whatever *)
(* the interleaving, a payload is in it once, from its store until its     *)
(* batch was sent, and a refused one never (as long as no window was hit). *)
ImplementsBuffer == Buffer!Spec
=============================================================================
