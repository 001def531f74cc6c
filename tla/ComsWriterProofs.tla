-------------------------- MODULE ComsWriterProofs --------------------------
(***************************************************************************)
(* Proofs about ComsWriter, for any number of PHP threads, payloads and    *)
(* flushes: what PHP threads go by is true of the writer thread, and the   *)
(* child of pcntl_fork uploads nothing of its parent's.                    *)
(***************************************************************************)
EXTENDS ComsWriter, FiniteSetTheorems, TLAPS

(* The prover of a leaf that names no other. *)
USE ZenonT(60)

(* A thread that serves requests has a current stack, and a writer that    *)
(* has not been told to stop.                                              *)
ServeAt == {"idle"} \cup FlushAt
Serving == \E p \in Threads : pc[p] \in ServeAt
Served ==
    Serving =>
        /\ current \in SUBSET Payloads
        /\ writer.allocate_new_stacks /\ ~writer.shutdown_when_idle /\ wpc # "exit"

(* A shutdown, and a forked process, has one thread. *)
Alone(p) == \A q \in Threads : q # p => pc[q] = "gone"
OneThread ==
    /\ \A p \in Threads : pc[p] \in ShutdownAt => Alone(p)
    /\ hist.forked => \A p \in Threads : pc[p] # "gone" => Alone(p)
    /\ pid_changed => hist.forked

Visible ==
    writer.thread =>
        /\ wpc = "start" => writer.starting_up
        /\ wpc \notin {"start", "exited", "none"} => writer.running

(* As long as flushes do not overlap, each saves the configured interval. *)
Saved ==
    ~hist.overlapped =>
        /\ \A p \in Threads : pc[p] \in FlushAt => flush[p].saved
        /\ \A p, q \in Threads : pc[p] \in FlushAt /\ pc[q] \in FlushAt => p = q
        /\ (\A p \in Threads : pc[p] \in {"idle", "gone"}) => writer.interval

Buffered ==
    /\ IsFiniteSet(backlog)
    /\ wpc = "send" => taken \in SUBSET Payloads
    /\ writer.requests <= hist.requests

WriterInv == TypeOK /\ Served /\ OneThread /\ Visible /\ Saved /\ Buffered

(* What the writer can still send, and what it has sent, is the child's    *)
(* own.                                                                    *)
OwnStacks ==
    /\ ~pid_changed
    /\ hist.inherited \subseteq 1..hist.payloads
    /\ \A s \in backlog : s \cap hist.inherited = {}
    /\ current # NULL => current \cap hist.inherited = {}
    /\ taken # NULL => taken \cap hist.inherited = {}
    /\ hist.done \cap hist.inherited = {}

-----------------------------------------------------------------------------
LEMMA NewWriterIs ==
  /\ NewWriter \in Writers /\ NewWriter.requests = 0 /\ NewWriter.starting_up
  /\ NewWriter.allocate_new_stacks /\ ~NewWriter.shutdown_when_idle /\ NewWriter.interval
<1>1. 0 \in 0..MaxRequests
  BY SMTT(60), BoundsAssumption
<1>2. NewWriter \in Writers
  BY <1>1 DEF NewWriter, Writers
<1> QED BY <1>2 DEF NewWriter

LEMMA WriterInitInv == Init => WriterInv
<1> SUFFICES ASSUME Init PROVE WriterInv
  OBVIOUS
<1>1. NewWriter \in Writers /\ NewWriter.requests = 0
  BY NewWriterIs
<1>2. TypeOK
  <2>1. Cardinality({}) = 0
    BY FS_EmptySet
  <2>2. pc \in [Threads -> Control] /\ wpc \in WriterControl
    BY DEF Init, Control, WriterControl
  <2>3. flush \in [Threads -> [saved : BOOLEAN, cycled : BOOLEAN]]
    BY DEF Init
  <2>4. hist \in Hists
    <3>1. 0 \in 0..MaxPayloads /\ 0 \in 0..MaxFlushes /\ 0 \in 0..MaxRequests
      BY SMTT(60), BoundsAssumption
    <3> QED BY <3>1 DEF Init, Hists
  <2>5. /\ current \in Stacks /\ taken \in Stacks /\ backlog \subseteq SUBSET Payloads
        /\ Cardinality(backlog) <= MaxBacklog
    BY SMTT(60), <2>1, BoundsAssumption DEF Init, Stacks
  <2>6. processed \in BOOLEAN /\ cancelled \in BOOLEAN /\ pid_changed \in BOOLEAN /\ writer \in Writers
    BY <1>1 DEF Init
  <2> QED BY <2>2, <2>3, <2>4, <2>5, <2>6 DEF TypeOK
<1>3. Served
  BY DEF Init, Served, NewWriter
<1>4. OneThread
  BY DEF Init, OneThread, ShutdownAt
<1>5. Visible
  BY DEF Init, Visible, NewWriter
<1>6. Saved
  BY DEF Init, Saved, NewWriter, FlushAt
<1>7. Buffered
  BY SMTT(60), <1>1, FS_EmptySet DEF Init, Buffered
<1> QED BY <1>2, <1>3, <1>4, <1>5, <1>6, <1>7 DEF WriterInv

(* A step of a flush or of the shutdown: its thread goes on, and may set   *)
(* flags of the writer or wake it.                                         *)
LEMMA ThreadKeeps ==
  ASSUME WriterInv, NEW p \in Threads, NEW to,
         pc' = [pc EXCEPT ![p] = to],
         \/ pc[p] \in FlushAt /\ to \in FlushAt
         \/ pc[p] \in ShutdownAt /\ to \in ShutdownAt,
         writer' \in Writers, writer'.requests = writer.requests,
         writer'.running = writer.running, writer'.starting_up = writer.starting_up,
         writer'.thread => writer.thread,
         \/ pc[p] \in ShutdownAt
         \/ /\ writer'.allocate_new_stacks = writer.allocate_new_stacks
            /\ writer'.shutdown_when_idle = writer.shutdown_when_idle,
         wpc' = wpc \/ (wpc = "waiting" /\ wpc' = "rotate"), cancelled' \in BOOLEAN,
         UNCHANGED <<buffer, processed, flush, pid_changed, hist>>
  PROVE  WriterInv'
<1>1. /\ UNCHANGED <<current, backlog, taken>> /\ pc \in [Threads -> Control]
      /\ wpc \in WriterControl /\ wpc' \in WriterControl
  BY DEF buffer, WriterInv, TypeOK, WriterControl
<1>2. /\ \A q \in Threads : pc'[q] = IF q = p THEN to ELSE pc[q]
      /\ pc' \in [Threads -> Control]
  BY <1>1 DEF Control
<1>3. TypeOK'
  BY <1>1, <1>2 DEF WriterInv, TypeOK
<1>4. Served'
  <2>1. CASE pc[p] \in FlushAt /\ to \in FlushAt
    <3>1. /\ current \in SUBSET Payloads /\ wpc # "exit"
          /\ writer.allocate_new_stacks /\ ~writer.shutdown_when_idle
      BY <2>1 DEF WriterInv, Served, Serving, ServeAt
    <3>2. writer'.allocate_new_stacks /\ ~writer'.shutdown_when_idle
      BY <2>1, <3>1 DEF FlushAt, ShutdownAt
    <3> QED BY <1>1, <3>1, <3>2 DEF Served, Serving
  <2>2. CASE pc[p] \in ShutdownAt /\ to \in ShutdownAt
    <3>1. \A q \in Threads : pc'[q] \notin ServeAt
      BY <1>2, <2>2 DEF WriterInv, OneThread, Alone, ServeAt, FlushAt, ShutdownAt
    <3> QED BY <3>1 DEF Served, Serving
  <2> QED BY <2>1, <2>2
<1>5. OneThread'
  <2>1. \A q \in Threads : /\ pc'[q] = "gone" <=> pc[q] = "gone"
                           /\ pc'[q] \in ShutdownAt <=> pc[q] \in ShutdownAt
    BY <1>2 DEF FlushAt, ShutdownAt
  <2> QED BY <2>1 DEF WriterInv, OneThread, Alone
<1>6. Visible'
  BY DEF WriterInv, Visible
<1>7. Saved'
  <2>1. \A q \in Threads : pc'[q] \in FlushAt <=> pc[q] \in FlushAt
    BY <1>2 DEF FlushAt, ShutdownAt
  <2>2. pc'[p] \notin {"idle", "gone"}
    BY <1>2 DEF FlushAt, ShutdownAt
  <2> QED BY <2>1, <2>2 DEF WriterInv, Saved
<1>8. Buffered'
  BY <1>1 DEF WriterInv, Buffered
<1> QED BY <1>3, <1>4, <1>5, <1>6, <1>7, <1>8 DEF WriterInv

LEMMA TriggerIs ==
  ASSUME TriggerFlush
  PROVE  wpc' = wpc \/ (wpc = "waiting" /\ wpc' = "rotate")
  BY DEF TriggerFlush

LEMMA SyncKeeps ==
  ASSUME WriterInv, NEW p \in Threads, SyncSet(p) \/ SyncTrigger(p) \/ SyncCheck(p) \/ SyncTimeout(p)
  PROVE  WriterInv'
<1> USE DEF PStep, FlushAt, wthread
<1>1. writer \in Writers /\ cancelled \in BOOLEAN
  BY DEF WriterInv, TypeOK
<1>2. CASE SyncSet(p)
  <2>1. /\ writer' \in Writers /\ writer'.requests = writer.requests
        /\ writer'.running = writer.running /\ writer'.starting_up = writer.starting_up
        /\ writer'.thread = writer.thread /\ writer'.allocate_new_stacks = writer.allocate_new_stacks
        /\ writer'.shutdown_when_idle = writer.shutdown_when_idle
    BY <1>1, <1>2 DEF SyncSet, Writers
  <2> QED BY <1>1, <1>2, <2>1, ThreadKeeps DEF SyncSet
<1>3. CASE SyncTrigger(p)
  BY <1>1, <1>3, TriggerIs, ThreadKeeps DEF SyncTrigger
<1>4. CASE SyncCheck(p)
  <2>1. PICK to \in {"sync_restore", "sync_wait"} : pc[p] = "sync_check" /\ pc' = [pc EXCEPT ![p] = to]
    BY <1>4 DEF SyncCheck
  <2> QED BY <1>1, <1>4, <2>1, ThreadKeeps DEF SyncCheck
<1>5. CASE SyncTimeout(p)
  BY <1>1, <1>5, ThreadKeeps DEF SyncTimeout
<1> QED BY <1>2, <1>3, <1>4, <1>5

LEMMA ShutdownKeeps ==
  ASSUME WriterInv, NEW p \in Threads, Shutdown(p)
  PROVE  WriterInv'
<1> USE DEF PStep, wthread
<1>1. writer \in Writers /\ cancelled \in BOOLEAN /\ pid_changed \in BOOLEAN
  BY DEF WriterInv, TypeOK
<1>2. PICK to \in ShutdownAt : pc[p] \in ShutdownAt /\ pc' = [pc EXCEPT ![p] = to]
  BY DEF Shutdown, ShutdownAlloc, ShutdownIdle, ShutdownWake, ShutdownTimeout, ShutdownLeft,
         LoadRunning, LoadStartingUp, GraceTimeout, Detach, Join, ShutdownAt
<1>3. UNCHANGED <<buffer, processed, flush, pid_changed, hist>>
  BY DEF Shutdown, ShutdownAlloc, ShutdownIdle, ShutdownWake, ShutdownTimeout, ShutdownLeft,
         LoadRunning, LoadStartingUp, GraceTimeout, Detach, Join
<1>4. cancelled' \in BOOLEAN
  BY <1>1 DEF Shutdown, ShutdownAlloc, ShutdownIdle, ShutdownWake, ShutdownTimeout, ShutdownLeft,
         LoadRunning, LoadStartingUp, GraceTimeout, Detach, Join
<1>5. wpc' = wpc \/ (wpc = "waiting" /\ wpc' = "rotate")
  BY TriggerIs
     DEF Shutdown, ShutdownAlloc, ShutdownIdle, ShutdownWake, ShutdownTimeout, ShutdownLeft,
         LoadRunning, LoadStartingUp, GraceTimeout, Detach, Join
<1>6. \/ writer' = writer
      \/ writer' = [writer EXCEPT !.allocate_new_stacks = FALSE]
      \/ writer' = [writer EXCEPT !.shutdown_when_idle = TRUE]
      \/ writer' = [writer EXCEPT !.thread = FALSE]
  BY DEF Shutdown, ShutdownAlloc, ShutdownIdle, ShutdownWake, ShutdownTimeout, ShutdownLeft,
         LoadRunning, LoadStartingUp, GraceTimeout, Detach, Join
<1>7. /\ writer' \in Writers /\ writer'.requests = writer.requests
      /\ writer'.running = writer.running /\ writer'.starting_up = writer.starting_up
      /\ writer'.thread => writer.thread
  BY <1>1, <1>6 DEF Writers
<1> QED BY <1>2, <1>3, <1>4, <1>5, <1>7, ThreadKeeps

LEMMA RestoreKeeps ==
  ASSUME WriterInv, NEW p \in Threads, SyncRestore(p)
  PROVE  WriterInv'
<1>1. /\ pc[p] = "sync_restore" /\ pc' = [pc EXCEPT ![p] = "idle"]
      /\ writer' = [writer EXCEPT !.interval = flush[p].saved]
      /\ UNCHANGED <<current, backlog, taken, wpc, processed, cancelled, flush, pid_changed, hist>>
  BY DEF SyncRestore, PStep, buffer, wthread
<1>2. /\ pc \in [Threads -> Control] /\ writer \in Writers /\ flush[p].saved \in BOOLEAN
  BY DEF WriterInv, TypeOK
<1>3. /\ pc' \in [Threads -> Control] /\ \A q \in Threads : pc'[q] = IF q = p THEN "idle" ELSE pc[q]
  BY <1>1, <1>2 DEF Control
<1>4. /\ writer' \in Writers /\ writer'.requests = writer.requests
      /\ writer'.running = writer.running /\ writer'.starting_up = writer.starting_up
      /\ writer'.thread = writer.thread /\ writer'.allocate_new_stacks = writer.allocate_new_stacks
      /\ writer'.shutdown_when_idle = writer.shutdown_when_idle
      /\ writer'.interval = flush[p].saved
  BY <1>1, <1>2 DEF Writers
<1>5. TypeOK'
  BY <1>1, <1>3, <1>4 DEF WriterInv, TypeOK
<1>6. Served'
  <2>1. pc[p] \in ServeAt
    BY <1>1 DEF ServeAt, FlushAt
  <2> QED BY <1>1, <1>4, <2>1 DEF WriterInv, Served, Serving
<1>7. OneThread'
  <2>1. \A q \in Threads : /\ pc'[q] = "gone" <=> pc[q] = "gone"
                           /\ pc'[q] \in ShutdownAt <=> pc[q] \in ShutdownAt
    BY <1>1, <1>3 DEF ShutdownAt
  <2> QED BY <1>1, <2>1 DEF WriterInv, OneThread, Alone
<1>8. Visible'
  BY <1>1, <1>4 DEF WriterInv, Visible
<1>9. Saved'
  <2>1. \A q \in Threads : pc'[q] \in FlushAt => pc[q] \in FlushAt
    BY <1>3 DEF FlushAt
  <2>2. pc[p] \in FlushAt
    BY <1>1 DEF FlushAt
  <2> QED BY <1>1, <1>4, <2>1, <2>2 DEF WriterInv, Saved
<1>10. Buffered'
  BY <1>1, <1>4 DEF WriterInv, Buffered
<1> QED BY <1>5, <1>6, <1>7, <1>8, <1>9, <1>10 DEF WriterInv

LEMMA StartKeeps ==
  ASSUME WriterInv, NEW p \in Threads, SyncStart(p)
  PROVE  WriterInv'
<1> DEFINE o == hist.overlapped \/ Overlaps(p)  f == [saved |-> writer.interval, cycled |-> FALSE]
<1>1. /\ pc[p] = "idle" /\ pc' = [pc EXCEPT ![p] = "sync_set"]
      /\ hist' = [hist EXCEPT !.flushes = @ + 1, !.overlapped = o]
      /\ flush' = [flush EXCEPT ![p] = f] /\ hist.flushes < MaxFlushes
      /\ UNCHANGED <<writer, current, backlog, taken, wpc, processed, cancelled, pid_changed>>
  BY DEF SyncStart, PStep, buffer, wthread
<1>2. /\ pc \in [Threads -> Control] /\ writer \in Writers /\ writer.interval \in BOOLEAN
  BY DEF WriterInv, TypeOK, Writers
<1>3. /\ pc' \in [Threads -> Control] /\ \A q \in Threads : pc'[q] = IF q = p THEN "sync_set" ELSE pc[q]
  BY <1>1, <1>2 DEF Control, FlushAt
<1>4. /\ f \in [saved : BOOLEAN, cycled : BOOLEAN] /\ f.saved = writer.interval
  BY <1>2
<1>5. /\ flush' \in [Threads -> [saved : BOOLEAN, cycled : BOOLEAN]]
      /\ \A q \in Threads : flush'[q] = IF q = p THEN f ELSE flush[q]
  <2> HIDE DEF f
  <2> QED BY <1>1, <1>4 DEF WriterInv, TypeOK
<1>6. /\ hist'.overlapped = o /\ hist'.requests = hist.requests /\ hist'.forked = hist.forked
      /\ TypeOK'
  <2>1. o \in BOOLEAN /\ hist.flushes + 1 \in 0..MaxFlushes
    BY SMTT(60), <1>1, BoundsAssumption DEF WriterInv, TypeOK, Hists
  <2> HIDE DEF o
  <2>2. /\ hist'.overlapped = o /\ hist'.requests = hist.requests /\ hist'.forked = hist.forked
        /\ hist' \in Hists
    BY <1>1, <2>1 DEF WriterInv, TypeOK, Hists
  <2> QED BY <1>1, <1>3, <1>5, <2>2 DEF WriterInv, TypeOK
<1> HIDE DEF f, o
<1>7. Served'
  <2>1. pc[p] \in ServeAt
    BY <1>1 DEF ServeAt
  <2> QED BY <1>1, <2>1 DEF WriterInv, Served, Serving
<1>8. OneThread'
  <2>1. \A q \in Threads : /\ pc'[q] = "gone" <=> pc[q] = "gone"
                           /\ pc'[q] \in ShutdownAt <=> pc[q] \in ShutdownAt
    BY <1>1, <1>3 DEF ShutdownAt
  <2> QED BY SMTT(60), <1>1, <1>6, <2>1 DEF WriterInv, OneThread, Alone
<1>9. Visible'
  BY <1>1 DEF WriterInv, Visible
<1>10. Saved'
  <2> SUFFICES ASSUME ~hist'.overlapped
               PROVE  /\ \A q \in Threads : pc'[q] \in FlushAt => flush'[q].saved /\ q = p
                      /\ pc'[p] \notin {"idle", "gone"}
    BY DEF Saved
  <2>1. ~hist.overlapped /\ \A q \in Threads : q # p => pc[q] \notin FlushAt
    BY <1>6 DEF Overlaps, o
  <2>2. \A q \in Threads : pc[q] \in {"idle", "gone"}
    <3>1. \A q \in Threads : pc[q] \notin ShutdownAt
      BY <1>1 DEF WriterInv, OneThread, Alone, ShutdownAt
    <3> QED BY <1>1, <1>2, <2>1, <3>1 DEF Control
  <2>3. writer.interval
    BY <2>1, <2>2 DEF WriterInv, Saved
  <2> QED BY <1>3, <1>4, <1>5, <2>1, <2>3
<1>11. Buffered'
  BY <1>1, <1>6 DEF WriterInv, Buffered
<1> QED BY <1>6, <1>7, <1>8, <1>9, <1>10, <1>11 DEF WriterInv

LEMMA ShutdownStartKeeps ==
  ASSUME WriterInv, NEW p \in Threads, ShutdownStart(p)
  PROVE  WriterInv'
<1>1. /\ pc' = [q \in Threads |-> IF q = p THEN "sd_alloc" ELSE "gone"]
      /\ writer' = [writer EXCEPT !.interval = FALSE]
      /\ UNCHANGED <<current, backlog, taken, wpc, processed, cancelled, flush, pid_changed, hist>>
  BY DEF ShutdownStart, buffer, wthread
<1>3. /\ pc' \in [Threads -> Control] /\ \A q \in Threads : pc'[q] = IF q = p THEN "sd_alloc" ELSE "gone"
  BY <1>1 DEF Control, ShutdownAt
<1>4. /\ writer' \in Writers /\ writer'.requests = writer.requests
      /\ writer'.running = writer.running /\ writer'.starting_up = writer.starting_up
      /\ writer'.thread = writer.thread
  BY <1>1 DEF WriterInv, TypeOK, Writers
<1>5. TypeOK'
  BY <1>1, <1>3, <1>4 DEF WriterInv, TypeOK
<1>6. Served'
  BY <1>3 DEF Served, Serving, ServeAt, FlushAt
<1>7. OneThread'
  BY <1>1, <1>3 DEF WriterInv, OneThread, Alone, ShutdownAt
<1>8. Visible'
  BY <1>1, <1>4 DEF WriterInv, Visible
<1>9. Saved'
  BY <1>3 DEF Saved, FlushAt
<1>10. Buffered'
  BY <1>1, <1>4 DEF WriterInv, Buffered
<1> QED BY SMTT(60), <1>5, <1>6, <1>7, <1>8, <1>9, <1>10 DEF WriterInv

LEMMA ForkKeeps ==
  ASSUME WriterInv, NEW p \in Threads, Fork(p) \/ PlainFork(p)
  PROVE  WriterInv'
<1>1. PICK o \in BOOLEAN :
        /\ InChild(p, o)
        /\ o \/ Fork(p) \/ (~hist.overlapped /\ ~Overlaps(p))
  <2>1. CASE Fork(p)
    BY <2>1 DEF Fork
  <2>2. CASE PlainFork(p)
    <3>1. (hist.overlapped \/ Overlaps(p)) \in BOOLEAN
      BY DEF WriterInv, TypeOK, Hists
    <3> QED BY <2>2, <3>1 DEF PlainFork
  <2> QED BY <2>1, <2>2
<1>2. /\ pc[p] = "idle" /\ pc' = [q \in Threads |-> IF q = p THEN "idle" ELSE "gone"]
      /\ hist' = [hist EXCEPT !.forked = TRUE, !.inherited = 1..hist.payloads,
                            !.accepted = {}, !.done = {}, !.overlapped = o]
      /\ UNCHANGED flush
  BY <1>1 DEF InChild
<1>3. /\ pc' \in [Threads -> Control] /\ \A q \in Threads : pc'[q] = IF q = p THEN "idle" ELSE "gone"
  BY <1>2 DEF Control
<1>4. /\ hist'.overlapped = o /\ hist'.requests = hist.requests /\ hist'.forked = TRUE
      /\ hist' \in Hists
  <2>1. 1..hist.payloads \in SUBSET Payloads
    BY SMTT(60), BoundsAssumption DEF WriterInv, TypeOK, Hists, Payloads
  <2> QED BY <1>2, <2>1 DEF WriterInv, TypeOK, Hists
<1>5. OneThread'
  BY <1>3, <1>4 DEF OneThread, Alone, ShutdownAt
<1>6. CASE Fork(p)
  <2>1. /\ writer' = NewWriter /\ wpc' = "start" /\ processed' = FALSE /\ cancelled' = FALSE
        /\ current' = {} /\ backlog' = {} /\ taken' = NULL /\ UNCHANGED pid_changed
    BY <1>6 DEF Fork, NewThread, FreshBuffer
  <2>2. /\ NewWriter \in Writers /\ NewWriter.requests = 0 /\ NewWriter.starting_up
        /\ NewWriter.allocate_new_stacks /\ ~NewWriter.shutdown_when_idle /\ NewWriter.interval
    BY NewWriterIs
  <2>3. Cardinality({}) = 0 /\ IsFiniteSet({})
    BY FS_EmptySet
  <2>4. /\ current' \in Stacks /\ taken' \in Stacks /\ backlog' \subseteq SUBSET Payloads
        /\ Cardinality(backlog') <= MaxBacklog
    BY SMTT(60), <2>1, <2>3, BoundsAssumption DEF Stacks
  <2>5. TypeOK'
    BY <1>2, <1>3, <1>4, <2>1, <2>2, <2>4 DEF WriterInv, TypeOK, WriterControl
  <2>6. Served' /\ Visible'
    BY <2>1, <2>2 DEF Served, Visible
  <2>7. Saved'
    BY <1>3, <2>1, <2>2 DEF Saved, FlushAt
  <2>8. Buffered'
    BY SMTT(60), <1>4, <2>1, <2>2, <2>3 DEF WriterInv, TypeOK, Hists, Buffered
  <2> QED BY <1>5, <2>5, <2>6, <2>7, <2>8 DEF WriterInv
<1>7. CASE PlainFork(p)
  <2>1. /\ wpc' = "none" /\ cancelled' = FALSE /\ pid_changed' = TRUE
        /\ UNCHANGED <<writer, current, backlog, taken, processed>>
    BY <1>7 DEF PlainFork, buffer
  <2>5. TypeOK'
    BY <1>2, <1>3, <1>4, <2>1 DEF WriterInv, TypeOK, WriterControl
  <2>6. Served'
    <3>1. pc[p] \in ServeAt
      BY <1>2 DEF ServeAt
    <3> QED BY <2>1, <3>1 DEF WriterInv, Served, Serving
  <2>9. Visible'
    BY <2>1 DEF Visible
  <2>7. Saved'
    <3> SUFFICES ASSUME ~o PROVE writer.interval
      BY <1>3, <1>4, <2>1 DEF Saved, FlushAt
    <3>1. ~hist.overlapped /\ \A q \in Threads : q # p => pc[q] \notin FlushAt
      BY <1>1, <1>7 DEF Overlaps, Fork, PlainFork, NewThread
    <3>2. \A q \in Threads : pc[q] \notin ShutdownAt
      BY <1>2 DEF WriterInv, OneThread, Alone, ShutdownAt
    <3>3. \A q \in Threads : pc[q] \in {"idle", "gone"}
      BY <1>2, <3>1, <3>2 DEF WriterInv, TypeOK, Control
    <3> QED BY <3>1, <3>3 DEF WriterInv, Saved
  <2>8. Buffered'
    BY <1>4, <2>1 DEF WriterInv, Buffered
  <2> QED BY <1>5, <2>5, <2>6, <2>7, <2>8, <2>9 DEF WriterInv
<1> QED BY <1>6, <1>7

LEMMA PidKeeps ==
  ASSUME WriterInv, NEW p \in Threads, OnPidChange(p)
  PROVE  WriterInv'
<1>1. /\ pc[p] = "idle" /\ pid_changed /\ pid_changed' = FALSE
      /\ writer' = [NewWriter EXCEPT !.running = writer.running, !.requests = writer.requests]
      /\ wpc' = "start" /\ processed' = FALSE /\ cancelled' = FALSE
      /\ hist' = [hist EXCEPT !.overlapped = FALSE]
      /\ UNCHANGED <<current, backlog, taken, pc, flush>>
  BY DEF OnPidChange, NewThread, buffer
<1>2. /\ writer' \in Writers /\ writer'.requests = writer.requests /\ writer'.starting_up
      /\ writer'.allocate_new_stacks /\ ~writer'.shutdown_when_idle /\ writer'.interval
  <2>1. writer.running \in BOOLEAN /\ writer.requests \in 0..MaxRequests
    BY DEF WriterInv, TypeOK, Writers
  <2> QED BY <1>1, <2>1, NewWriterIs DEF Writers
<1>3. /\ hist'.overlapped = FALSE /\ hist'.requests = hist.requests /\ hist'.forked = hist.forked
      /\ hist' \in Hists
  BY <1>1 DEF WriterInv, TypeOK, Hists
<1>4. TypeOK'
  BY <1>1, <1>2, <1>3 DEF WriterInv, TypeOK, WriterControl
<1>5. Served'
  <2>1. pc[p] \in ServeAt
    BY <1>1 DEF ServeAt
  <2> QED BY <1>1, <1>2, <2>1 DEF WriterInv, Served, Serving
<1>6. OneThread'
  BY <1>1, <1>3 DEF WriterInv, OneThread, Alone
<1>7. Visible'
  BY <1>1, <1>2 DEF Visible
<1>8. Saved'
  <2>1. \A q \in Threads : pc[q] \notin FlushAt
    BY <1>1 DEF WriterInv, OneThread, Alone, FlushAt
  <2> QED BY <1>1, <1>2, <2>1 DEF Saved
<1>9. Buffered'
  BY <1>1, <1>2, <1>3 DEF WriterInv, Buffered
<1> QED BY SMTT(60), <1>4, <1>5, <1>6, <1>7, <1>8, <1>9 DEF WriterInv

(* A step that moves payloads, or the writer within its cycle. *)
LEMMA StackKeeps ==
  ASSUME WriterInv, UNCHANGED <<pc, cancelled, pid_changed>>,
         flush' \in [Threads -> [saved : BOOLEAN, cycled : BOOLEAN]],
         \A p \in Threads : flush'[p].saved = flush[p].saved,
         hist' \in Hists, hist'.forked = hist.forked, hist'.overlapped = hist.overlapped,
         writer' = writer \/ \E n \in 0..MaxRequests : writer' = [writer EXCEPT !.requests = n],
         writer'.requests <= hist'.requests,
         current' \in Stacks, taken' \in Stacks, backlog' \subseteq SUBSET Payloads,
         Cardinality(backlog') <= MaxBacklog, IsFiniteSet(backlog'),
         processed' \in BOOLEAN, wpc' \in WriterControl,
         \/ wpc' = wpc
         \/ wpc \notin {"start", "exited", "none"} /\ wpc' # "start",
         Serving => current' \in SUBSET Payloads /\ wpc' # "exit",
         wpc' = "send" => taken' \in SUBSET Payloads
  PROVE  WriterInv'
<1>1. /\ writer' \in Writers /\ writer'.running = writer.running
      /\ writer'.starting_up = writer.starting_up /\ writer'.thread = writer.thread
      /\ writer'.allocate_new_stacks = writer.allocate_new_stacks
      /\ writer'.shutdown_when_idle = writer.shutdown_when_idle
      /\ writer'.interval = writer.interval
  BY DEF WriterInv, TypeOK, Writers
<1>2. TypeOK'
  BY <1>1 DEF WriterInv, TypeOK, Hists
<1>3. Served'
  BY <1>1 DEF WriterInv, Served, Serving
<1>4. OneThread'
  BY SMTT(60) DEF WriterInv, OneThread, Alone
<1>5. Visible'
  BY <1>1 DEF WriterInv, Visible
<1>6. Saved'
  BY <1>1 DEF WriterInv, Saved
<1>7. Buffered'
  BY DEF Buffered
<1> QED BY <1>2, <1>3, <1>4, <1>5, <1>6, <1>7 DEF WriterInv

(* What holds of the variables such a step leaves alone. *)
LEMMA StackFacts ==
  ASSUME WriterInv
  PROVE  /\ flush \in [Threads -> [saved : BOOLEAN, cycled : BOOLEAN]]
         /\ hist \in Hists /\ writer.requests <= hist.requests
         /\ current \in Stacks /\ taken \in Stacks /\ backlog \subseteq SUBSET Payloads
         /\ Cardinality(backlog) <= MaxBacklog /\ IsFiniteSet(backlog)
         /\ processed \in BOOLEAN /\ wpc \in WriterControl
         /\ Serving => current \in SUBSET Payloads /\ wpc # "exit" /\ writer.allocate_new_stacks
         /\ wpc = "send" => taken \in SUBSET Payloads
  BY DEF WriterInv, TypeOK, Hists, Served, Buffered

LEMMA BacklogAdds ==
  ASSUME WriterInv, NEW s \in SUBSET Payloads, Rotatable
  PROVE  LET b == backlog \cup {s} IN
         b \subseteq SUBSET Payloads /\ IsFiniteSet(b) /\ Cardinality(b) <= MaxBacklog
<1>1. /\ IsFiniteSet(backlog) /\ Cardinality(backlog) < MaxBacklog /\ MaxBacklog \in Nat
      /\ backlog \subseteq SUBSET Payloads
  BY BoundsAssumption, StackFacts DEF Rotatable
<1>2. /\ IsFiniteSet(backlog \cup {s}) /\ Cardinality(backlog) \in Nat
      /\ Cardinality(backlog \cup {s}) \in {Cardinality(backlog), Cardinality(backlog) + 1}
  BY <1>1, FS_AddElement, FS_CardinalityType
<1> QED BY SMTT(60), <1>1, <1>2

LEMMA DataKeeps ==
  ASSUME WriterInv, NEW p \in Threads, BufferData(p)
  PROVE  WriterInv'
<1> DEFINE x == hist.payloads + 1
<1>1. /\ pc[p] = "idle" /\ hist.payloads < MaxPayloads
      /\ UNCHANGED <<writer, taken, processed, cancelled, pc, flush, pid_changed>>
  BY DEF BufferData
<1>2. Serving /\ current \in SUBSET Payloads /\ wpc # "exit"
  BY <1>1, StackFacts DEF Serving, ServeAt
<1>3. x \in 0..MaxPayloads /\ x \in Payloads
  BY SMTT(60), <1>1, BoundsAssumption, StackFacts DEF Hists, Payloads
<1>4. /\ hist' \in Hists /\ hist'.forked = hist.forked /\ hist'.overlapped = hist.overlapped
      /\ hist'.requests = hist.requests
  <2>1. \/ hist' = [hist EXCEPT !.payloads = x, !.accepted = @ \cup {x}]
        \/ hist' = [hist EXCEPT !.payloads = x]
    BY DEF BufferData
  <2> HIDE DEF x
  <2>2. hist \in Hists /\ hist.accepted \cup {x} \in SUBSET Payloads
    BY <1>3, StackFacts DEF Hists
  <2>3. CASE hist' = [hist EXCEPT !.payloads = x]
    BY <1>3, <2>2, <2>3 DEF Hists
  <2>4. CASE hist' = [hist EXCEPT !.payloads = x, !.accepted = @ \cup {x}]
    BY <1>3, <2>2, <2>4 DEF Hists
  <2> QED BY <2>1, <2>3, <2>4
<1>5. wpc' = wpc \/ (wpc = "waiting" /\ wpc' = "rotate")
  BY TriggerIs DEF BufferData
<1>6. /\ current' \in SUBSET Payloads
      /\ backlog' \subseteq SUBSET Payloads /\ Cardinality(backlog') <= MaxBacklog /\ IsFiniteSet(backlog')
  <2>1. \/ current' \in {current, current \cup {x}} /\ backlog' = backlog
        \/ Rotatable /\ current' = {x} /\ backlog' = backlog \cup {current}
    BY DEF BufferData
  <2> HIDE DEF x
  <2> QED BY <1>2, <1>3, <2>1, StackFacts, BacklogAdds
<1>7. wpc' \in WriterControl /\ (wpc' = "send" => wpc = "send") /\ wpc' # "exit"
      /\ \/ wpc' = wpc
         \/ wpc \notin {"start", "exited", "none"} /\ wpc' # "start"
  BY <1>2, <1>5, StackFacts DEF WriterControl
<1> QED BY <1>1, <1>4, <1>6, <1>7, StackFacts, StackKeeps DEF Stacks

LEMMA RequestKeeps ==
  ASSUME WriterInv, NEW p \in Threads, Rshutdown(p)
  PROVE  WriterInv'
<1>1. /\ pc[p] = "idle" /\ hist.requests < MaxRequests
      /\ hist' = [hist EXCEPT !.requests = @ + 1]
      /\ writer' = [writer EXCEPT !.requests = @ + 1]
      /\ UNCHANGED <<current, backlog, taken, processed, cancelled, pc, flush, pid_changed>>
  BY DEF Rshutdown, buffer
<1>2. Serving /\ current \in SUBSET Payloads /\ wpc # "exit"
  BY <1>1, StackFacts DEF Serving, ServeAt
<1>3. /\ writer.requests + 1 \in 0..MaxRequests /\ hist.requests + 1 \in 0..MaxRequests
      /\ writer.requests + 1 <= hist.requests + 1
  BY SMTT(60), <1>1, BoundsAssumption, StackFacts DEF WriterInv, TypeOK, Writers, Hists
<1>4. /\ hist' \in Hists /\ hist'.forked = hist.forked /\ hist'.overlapped = hist.overlapped
      /\ hist'.requests = hist.requests + 1
  BY <1>1, <1>3, StackFacts DEF Hists
<1>5. writer'.requests = writer.requests + 1
  BY <1>1 DEF WriterInv, TypeOK, Writers
<1>6. wpc' = wpc \/ (wpc = "waiting" /\ wpc' = "rotate")
  BY TriggerIs DEF Rshutdown
<1>7. wpc' \in WriterControl /\ (wpc' = "send" => wpc = "send") /\ wpc' # "exit"
      /\ \/ wpc' = wpc
         \/ wpc \notin {"start", "exited", "none"} /\ wpc' # "start"
  BY SMTT(60), <1>2, <1>6, StackFacts DEF WriterControl
<1>8. writer'.requests <= hist'.requests /\ \E n \in 0..MaxRequests : writer' = [writer EXCEPT !.requests = n]
  BY <1>1, <1>3, <1>4, <1>5
<1> QED BY <1>1, <1>2, <1>4, <1>7, <1>8, StackFacts, StackKeeps

-----------------------------------------------------------------------------
(* The steps of dd_writer_loop. *)
LEMMA StartedKeeps ==
  ASSUME WriterInv, WriterStarted
  PROVE  WriterInv'
<1>1. UNCHANGED <<current, backlog, taken, processed, cancelled, pc, flush, pid_changed, hist>>
  BY DEF WriterStarted, buffer
<1>2. /\ writer \in Writers /\ writer.thread \in BOOLEAN /\ writer.running \in BOOLEAN /\ writer.starting_up \in BOOLEAN
  BY DEF WriterInv, TypeOK, Writers
<1>3. /\ wpc \in {"start", "started"} /\ wpc' \in {"started", "cycle"} /\ writer' \in Writers
      /\ writer'.thread = writer.thread /\ writer'.requests = writer.requests
      /\ writer'.allocate_new_stacks = writer.allocate_new_stacks
      /\ writer'.shutdown_when_idle = writer.shutdown_when_idle
      /\ writer'.interval = writer.interval /\ (writer.thread => writer'.running)
  <2>1. CASE wpc = "start"
    <3>1. wpc' = "started" /\ writer' = [writer EXCEPT !.running = @ \/ writer.thread]
      BY <2>1 DEF WriterStarted, WStep
    <3> DEFINE r == writer.running \/ writer.thread
    <3>2. r \in BOOLEAN /\ (writer.thread => r) /\ writer' = [writer EXCEPT !.running = r]
      BY <1>2, <3>1
    <3> HIDE DEF r
    <3>3. /\ writer' \in Writers
          /\ writer'.thread = writer.thread /\ writer'.requests = writer.requests
          /\ writer'.allocate_new_stacks = writer.allocate_new_stacks
          /\ writer'.shutdown_when_idle = writer.shutdown_when_idle
          /\ writer'.interval = writer.interval /\ writer'.running = r
      BY <1>2, <3>2 DEF Writers
    <3> QED BY <2>1, <3>1, <3>2, <3>3
  <2>2. CASE wpc = "started"
    <3>1. wpc' = "cycle" /\ writer' = [writer EXCEPT !.starting_up = @ /\ ~writer.thread]
      BY <2>2 DEF WriterStarted, WStep
    <3> DEFINE r == writer.starting_up /\ ~writer.thread
    <3>2. r \in BOOLEAN /\ writer' = [writer EXCEPT !.starting_up = r]
      BY <1>2, <3>1
    <3> HIDE DEF r
    <3>3. /\ writer' \in Writers
          /\ writer'.thread = writer.thread /\ writer'.requests = writer.requests
          /\ writer'.allocate_new_stacks = writer.allocate_new_stacks
          /\ writer'.shutdown_when_idle = writer.shutdown_when_idle
          /\ writer'.interval = writer.interval /\ writer'.running = writer.running
      BY <1>2, <3>2 DEF Writers
    <3> QED BY <2>2, <3>1, <3>2, <3>3 DEF WriterInv, Visible
  <2> QED BY <2>1, <2>2 DEF WriterStarted, WStep
<1>4. TypeOK'
  BY <1>1, <1>3 DEF WriterInv, TypeOK, WriterControl
<1>5. Served'
  BY <1>1, <1>3 DEF WriterInv, Served, Serving
<1>6. OneThread'
  BY <1>1 DEF WriterInv, OneThread, Alone
<1>7. Visible'
  BY <1>3 DEF Visible
<1>8. Saved'
  BY <1>1, <1>3 DEF WriterInv, Saved
<1>9. Buffered'
  BY <1>1, <1>3 DEF WriterInv, Buffered
<1> QED BY <1>4, <1>5, <1>6, <1>7, <1>8, <1>9 DEF WriterInv

LEMMA CycleKeeps ==
  ASSUME WriterInv, WriterCycle
  PROVE  WriterInv'
<1>1. /\ wpc = "cycle" /\ wpc' = "interval"
      /\ flush' = [p \in Threads |-> [flush[p] EXCEPT !.cycled = TRUE]]
      /\ UNCHANGED <<writer, current, backlog, taken, processed, cancelled, pc, pid_changed, hist>>
  BY DEF WriterCycle, WStep, buffer
<1>2. /\ flush' \in [Threads -> [saved : BOOLEAN, cycled : BOOLEAN]]
      /\ \A p \in Threads : flush'[p].saved = flush[p].saved
  BY <1>1, StackFacts
<1>3. wpc' \in WriterControl
  BY <1>1 DEF WriterControl
<1> QED BY <1>1, <1>2, <1>3, StackFacts, StackKeeps

LEMMA WaitKeeps ==
  ASSUME WriterInv, WriterWait \/ WriterCancelled
  PROVE  WriterInv'
<1>1. UNCHANGED <<writer, current, backlog, taken, processed, cancelled, pc, flush, pid_changed, hist>>
  BY DEF WriterWait, WriterCancelled, buffer
<1>2. /\ wpc \in {"interval", "before_wait", "waiting", "send"}
      /\ wpc' \in {"before_wait", "waiting", "rotate", "cleanup"}
  BY DEF WriterWait, WriterCancelled, WStep
<1>3. /\ wpc' \in WriterControl /\ wpc \notin {"start", "exited", "none"}
      /\ wpc' # "start" /\ wpc' # "exit" /\ wpc' # "send"
  BY <1>2 DEF WriterControl
<1> QED BY <1>1, <1>3, StackFacts, StackKeeps

LEMMA RotateKeeps ==
  ASSUME WriterInv, WriterRotate
  PROVE  WriterInv'
<1>1. /\ wpc = "rotate" /\ wpc' = "acquire" /\ writer' = [writer EXCEPT !.requests = 0]
      /\ Rotate(writer.allocate_new_stacks) /\ processed' = FALSE
      /\ UNCHANGED <<taken, cancelled, pc, flush, pid_changed, hist>>
  BY DEF WriterRotate, WStep
<1>2. /\ current' \in Stacks /\ (Serving => current' \in SUBSET Payloads)
      /\ backlog' \subseteq SUBSET Payloads /\ Cardinality(backlog') <= MaxBacklog /\ IsFiniteSet(backlog')
  <2>1. CASE UNCHANGED <<current, backlog>>
    BY <2>1, StackFacts
  <2>2. CASE writer.thread
    <3>1. /\ backlog' = IF Rotatable THEN backlog \cup {current} ELSE backlog
          /\ current' = IF Rotatable \/ current = NULL
                        THEN IF writer.allocate_new_stacks THEN {} ELSE NULL
                        ELSE current
      BY <1>1, <2>2 DEF Rotate
    <3>2. current' \in Stacks /\ (Serving => current' \in SUBSET Payloads)
      BY <3>1, StackFacts DEF Stacks
    <3>3. CASE Rotatable
      <4>1. current \in SUBSET Payloads
        BY <3>3, StackFacts DEF Rotatable, Stacks
      <4> QED BY <3>1, <3>2, <3>3, <4>1, BacklogAdds
    <3> QED BY <3>1, <3>2, <3>3, StackFacts
  <2> QED BY <1>1, <2>1, <2>2 DEF Rotate
<1>3. /\ writer'.requests = 0 /\ 0 \in 0..MaxRequests /\ 0 <= hist.requests
  BY SMTT(60), <1>1, BoundsAssumption DEF WriterInv, TypeOK, Writers, Hists
<1>4. wpc' \in WriterControl /\ wpc' # "exit" /\ wpc' # "send" /\ processed' \in BOOLEAN
  BY <1>1 DEF WriterControl
<1> QED BY <1>1, <1>2, <1>3, <1>4, StackFacts, StackKeeps

LEMMA AcquireKeeps ==
  ASSUME WriterInv, WriterAcquire
  PROVE  WriterInv'
<1>1. /\ wpc = "acquire" /\ wpc' \in {"send", "tail"}
      /\ UNCHANGED <<writer, current, processed, cancelled, pc, flush, pid_changed, hist>>
  BY DEF WriterAcquire, WStep
<1>2. /\ taken' \in Stacks /\ (wpc' = "send" => taken' \in SUBSET Payloads)
      /\ backlog' \subseteq SUBSET Payloads /\ Cardinality(backlog') <= MaxBacklog /\ IsFiniteSet(backlog')
  <2>1. CASE UNCHANGED <<taken, backlog>> /\ (wpc' = "send" => taken # NULL)
    BY <2>1, StackFacts DEF Stacks
  <2>2. CASE \E s \in backlog : taken' = s /\ backlog' = backlog \ {s}
    <3>1. PICK s \in backlog : taken' = s /\ backlog' = backlog \ {s}
      BY <2>2
    <3>2. /\ IsFiniteSet(backlog \ {s}) /\ Cardinality(backlog \ {s}) \in Nat /\ Cardinality(backlog) \in Nat
          /\ Cardinality(backlog \ {s}) \in {Cardinality(backlog), Cardinality(backlog) - 1}
      BY StackFacts, FS_RemoveElement, FS_CardinalityType
    <3>3. Cardinality(backlog \ {s}) <= MaxBacklog
      BY SMTT(60), <3>2, StackFacts, BoundsAssumption
    <3> QED BY <3>1, <3>2, <3>3, StackFacts DEF Stacks
  <2> QED BY <2>1, <2>2 DEF WriterAcquire, WStep
<1>3. /\ wpc' \in WriterControl /\ wpc \notin {"start", "exited", "none"} /\ wpc' # "start" /\ wpc' # "exit"
  BY <1>1 DEF WriterControl
<1> QED BY <1>1, <1>2, <1>3, StackFacts, StackKeeps

LEMMA SendKeeps ==
  ASSUME WriterInv, WriterSend
  PROVE  WriterInv'
<1>1. /\ wpc = "send" /\ wpc' = "acquire" /\ taken' = NULL /\ processed' = TRUE
      /\ hist' = [hist EXCEPT !.done = @ \cup taken]
      /\ UNCHANGED <<writer, current, backlog, cancelled, pc, flush, pid_changed>>
  BY DEF WriterSend, WStep
<1>2. /\ hist' \in Hists /\ hist'.forked = hist.forked /\ hist'.overlapped = hist.overlapped
      /\ hist'.requests = hist.requests
  BY <1>1, StackFacts DEF Hists
<1>3. wpc' \in WriterControl /\ wpc' # "exit" /\ taken' \in Stacks
  BY <1>1 DEF WriterControl, Stacks
<1> QED BY <1>1, <1>2, <1>3, StackFacts, StackKeeps

LEMMA ExitKeeps ==
  ASSUME WriterInv, WriterExit
  PROVE  WriterInv'
<1>1. /\ wpc = "exit" /\ wpc' = "cleanup" /\ current' = NULL /\ backlog' = {}
      /\ UNCHANGED <<writer, taken, processed, cancelled, pc, flush, pid_changed, hist>>
  BY DEF WriterExit, WStep
<1>2. /\ current' \in Stacks /\ wpc' \in WriterControl /\ backlog' \subseteq SUBSET Payloads
      /\ Cardinality(backlog') <= MaxBacklog /\ IsFiniteSet(backlog')
  <2>1. Cardinality({}) = 0 /\ IsFiniteSet({})
    BY FS_EmptySet
  <2> QED BY SMTT(60), <1>1, <2>1, BoundsAssumption DEF Stacks, WriterControl
<1> QED BY <1>1, <1>2, StackFacts, StackKeeps

LEMMA TailKeeps ==
  ASSUME WriterInv, WriterTail
  PROVE  WriterInv'
<1>1. /\ wpc = "tail" /\ wpc' = IF ~processed /\ writer.shutdown_when_idle THEN "exit" ELSE "cycle"
      /\ UNCHANGED <<writer, current, backlog, taken, processed, cancelled, flush, pid_changed, hist>>
  BY DEF WriterTail, WStep, buffer
<1>2. /\ pc \in [Threads -> Control] /\ pc' \in [Threads -> Control]
      /\ \A p \in Threads : pc'[p] = pc[p] \/ (pc[p] = "sync_wait" /\ pc'[p] = "sync_check")
  BY DEF WriterTail, PStep, WriterInv, TypeOK, Control, FlushAt
<1>3. \A p \in Threads : /\ pc'[p] = "gone" <=> pc[p] = "gone"
                         /\ pc'[p] = "idle" <=> pc[p] = "idle"
                         /\ pc'[p] \in ShutdownAt <=> pc[p] \in ShutdownAt
                         /\ pc'[p] \in FlushAt <=> pc[p] \in FlushAt
  BY SMTT(60), <1>2 DEF ShutdownAt, FlushAt
<1>4. TypeOK'
  BY <1>1, <1>2 DEF WriterInv, TypeOK, WriterControl
<1>5. Served'
  BY <1>1, <1>3 DEF WriterInv, Served, Serving, ServeAt
<1>6. OneThread'
  BY <1>1, <1>3 DEF WriterInv, OneThread, Alone
<1>7. Visible'
  BY <1>1 DEF WriterInv, Visible
<1>8. Saved'
  BY <1>1, <1>3 DEF WriterInv, Saved
<1>9. Buffered'
  BY <1>1 DEF WriterInv, Buffered
<1> QED BY SMTT(60), <1>4, <1>5, <1>6, <1>7, <1>8, <1>9 DEF WriterInv

LEMMA FinishedKeeps ==
  ASSUME WriterInv, WriterFinished
  PROVE  WriterInv'
<1>1. /\ wpc = "cleanup" /\ wpc' = "exited"
      /\ UNCHANGED <<current, backlog, taken, processed, cancelled, flush, pid_changed, hist>>
  BY DEF WriterFinished, WStep, buffer
<1>2. writer' = writer \/ writer' = [writer EXCEPT !.running = FALSE]
  BY DEF WriterFinished
<1>3. /\ writer' \in Writers /\ writer'.requests = writer.requests
      /\ writer'.allocate_new_stacks = writer.allocate_new_stacks
      /\ writer'.shutdown_when_idle = writer.shutdown_when_idle
      /\ writer'.interval = writer.interval
  BY <1>2 DEF WriterInv, TypeOK, Writers
<1>4. /\ pc \in [Threads -> Control] /\ pc' \in [Threads -> Control]
      /\ \A p \in Threads : \/ pc'[p] = pc[p]
                            \/ pc[p] \in {"sd_wait", "sd_grace"} /\ pc'[p] \in {"sd_left", "sd_last"}
  <2>1. pc \in [Threads -> Control]
    BY DEF WriterInv, TypeOK
  <2>2. CASE pc' = pc
    BY <2>1, <2>2
  <2>3. CASE pc' = [p \in Threads |-> CASE pc[p] = "sd_wait"  -> "sd_left"
                                        [] pc[p] = "sd_grace" -> "sd_last"
                                        [] OTHER -> pc[p]]
    <3>1. \A p \in Threads : \/ pc'[p] = pc[p]
                             \/ pc[p] \in {"sd_wait", "sd_grace"} /\ pc'[p] \in {"sd_left", "sd_last"}
      BY <2>3
    <3>2. \A p \in Threads : pc'[p] \in Control
      BY <2>1, <3>1 DEF Control, ShutdownAt
    <3> QED BY <2>1, <2>3, <3>1, <3>2
  <2> QED BY <2>2, <2>3 DEF WriterFinished
<1>5. \A p \in Threads : /\ pc'[p] = "gone" <=> pc[p] = "gone"
                         /\ pc'[p] = "idle" <=> pc[p] = "idle"
                         /\ pc'[p] \in ShutdownAt <=> pc[p] \in ShutdownAt
                         /\ pc'[p] \in FlushAt <=> pc[p] \in FlushAt
  BY <1>4 DEF ShutdownAt, FlushAt
<1>6. TypeOK'
  BY <1>1, <1>3, <1>4 DEF WriterInv, TypeOK, WriterControl
<1>7. Served'
  BY <1>1, <1>3, <1>5 DEF WriterInv, Served, Serving, ServeAt
<1>8. OneThread'
  BY <1>1, <1>5 DEF WriterInv, OneThread, Alone
<1>9. Visible'
  BY <1>1 DEF Visible
<1>10. Saved'
  BY <1>1, <1>3, <1>5 DEF WriterInv, Saved
<1>11. Buffered'
  BY <1>1, <1>3 DEF WriterInv, Buffered
<1> QED BY SMTT(60), <1>6, <1>7, <1>8, <1>9, <1>10, <1>11 DEF WriterInv

LEMMA WriterStepInv == WriterInv /\ [Next]_vars => WriterInv'
<1> SUFFICES ASSUME WriterInv, [Next]_vars PROVE WriterInv'
  OBVIOUS
<1>1. CASE UNCHANGED vars
  <2>1. UNCHANGED <<writer, current, backlog, taken, wpc, processed, cancelled, pc, flush, pid_changed, hist>>
    BY <1>1 DEF vars, buffer, wthread
  <2> QED BY SMTT(60), <2>1 DEF WriterInv, TypeOK, Served, Serving, OneThread, Alone, Visible, Saved, Buffered
<1>2. CASE \E p \in Threads : Sync(p) \/ Shutdown(p)
  BY <1>2, SyncKeeps, RestoreKeeps, ShutdownKeeps DEF Sync
<1>3. CASE \E p \in Threads : Fork(p) \/ PlainFork(p) \/ OnPidChange(p)
  BY <1>3, ForkKeeps, PidKeeps
<1>4. CASE \E p \in Threads : BufferData(p) \/ Rshutdown(p) \/ SyncStart(p) \/ ShutdownStart(p)
  BY <1>4, DataKeeps, RequestKeeps, StartKeeps, ShutdownStartKeeps
<1>5. CASE WriterThread \/ WriterSend \/ WriterCancelled
  BY <1>5, StartedKeeps, CycleKeeps, WaitKeeps, RotateKeeps, AcquireKeeps, SendKeeps, TailKeeps,
     ExitKeeps, FinishedKeeps DEF WriterThread
<1> QED BY <1>1, <1>2, <1>3, <1>4, <1>5 DEF Next

(* tracer/coms.c: in every interleaving of any number of PHP threads with  *)
(* the writer, forks and a shutdown, a live writer looks alive to the      *)
(* shutdown, the interval is the configured one again after flushes that   *)
(* do not overlap, and the backlog keeps to its bound.                     *)
THEOREM WriterStaysInStep == Spec => []WriterInStep
<1>1. WriterInv => WriterInStep
  BY DEF WriterInv, WriterInStep, AliveIsVisible, IntervalRestored, Visible, Saved
<1> QED BY <1>1, WriterInitInv, WriterStepInv, PTL DEF Spec

-----------------------------------------------------------------------------
(* The stacks of a child of pcntl_fork. *)
LEMMA OwnSame ==
  ASSUME OwnStacks, UNCHANGED <<buffer, pid_changed>>, UNCHANGED hist \/
         (hist'.inherited = hist.inherited /\ hist'.payloads = hist.payloads /\ hist'.done = hist.done)
  PROVE  OwnStacks'
  BY DEF OwnStacks, buffer

LEMMA OwnStep ==
  ASSUME "plain" \notin Forks, WriterInv, OwnStacks, [Next]_vars
  PROVE  OwnStacks'
<1>0. hist \in Hists
  BY StackFacts
<1>1. CASE UNCHANGED vars
  BY <1>1, OwnSame DEF vars
<1>2. CASE \E p \in Threads : Sync(p) \/ Shutdown(p)
  <2>1. UNCHANGED <<buffer, pid_changed, hist>>
    BY <1>2 DEF Sync, SyncSet, SyncTrigger, SyncCheck, SyncTimeout, SyncRestore, Shutdown, ShutdownAlloc,
                ShutdownIdle, ShutdownWake, ShutdownTimeout, ShutdownLeft, LoadRunning, LoadStartingUp,
                GraceTimeout, Detach, Join
  <2> QED BY <2>1, OwnSame
<1>3. CASE \E p \in Threads : Rshutdown(p) \/ SyncStart(p) \/ ShutdownStart(p)
  <2>1. UNCHANGED <<buffer, pid_changed>>
    BY <1>3 DEF Rshutdown, SyncStart, ShutdownStart
  <2>2. hist'.inherited = hist.inherited /\ hist'.payloads = hist.payloads /\ hist'.done = hist.done
    BY <1>0, <1>3 DEF Rshutdown, SyncStart, ShutdownStart, Hists
  <2> QED BY <2>1, <2>2, OwnSame
<1>4. ASSUME NEW p \in Threads, BufferData(p)
      PROVE  OwnStacks'
  <2> DEFINE x == hist.payloads + 1
  <2>1. UNCHANGED <<taken, pid_changed>> /\ pc[p] = "idle"
    BY <1>4 DEF BufferData
  <2>2. /\ hist'.inherited = hist.inherited /\ hist'.done = hist.done /\ hist'.payloads = x
        /\ x \in Nat /\ hist.payloads \in Nat
    <3>1. \/ hist' = [hist EXCEPT !.payloads = x, !.accepted = @ \cup {x}]
          \/ hist' = [hist EXCEPT !.payloads = x]
      BY <1>4 DEF BufferData
    <3>2. x \in Nat /\ hist.payloads \in Nat
      BY SMTT(60), <1>0 DEF Hists
    <3> HIDE DEF x
    <3> QED BY <1>0, <3>1, <3>2 DEF Hists
  <2>3. hist.inherited \subseteq 1..x /\ x \notin hist.inherited
    BY SMTT(60), <2>2 DEF OwnStacks
  <2>4. \/ current' \in {current, current \cup {x}} /\ backlog' = backlog
        \/ current # NULL /\ current' = {x} /\ backlog' = backlog \cup {current}
    BY <1>4 DEF BufferData, Rotatable
  <2>5. current # NULL
    BY <2>1, StackFacts, ThreadsAssumption DEF Serving, ServeAt, Payloads
  <2>6. current \cap hist.inherited = {} /\ (current \cup {x}) \cap hist.inherited = {}
    BY <2>3, <2>5 DEF OwnStacks
  <2> HIDE DEF x
  <2> QED BY <2>1, <2>2, <2>3, <2>4, <2>6 DEF OwnStacks
<1>5. ASSUME NEW p \in Threads, Fork(p)
      PROVE  OwnStacks'
  <2>1. /\ current' = {} /\ backlog' = {} /\ taken' = NULL /\ UNCHANGED pid_changed
    BY <1>5 DEF Fork, FreshBuffer
  <2>2. hist'.inherited = 1..hist.payloads /\ hist'.payloads = hist.payloads /\ hist'.done = {}
    BY <1>0, <1>5 DEF Fork, InChild, Hists
  <2> QED BY <2>1, <2>2 DEF OwnStacks
<1>6. ASSUME NEW p \in Threads, PlainFork(p) \/ OnPidChange(p)
      PROVE  FALSE
  BY <1>6 DEF PlainFork, OnPidChange, OwnStacks
<1>7. CASE WriterStarted \/ WriterCycle \/ WriterWait \/ WriterTail \/ WriterFinished \/ WriterCancelled
  <2>1. UNCHANGED <<buffer, pid_changed, hist>>
    BY <1>7 DEF WriterStarted, WriterCycle, WriterWait, WriterTail, WriterFinished, WriterCancelled
  <2> QED BY SMTT(60), <2>1, OwnSame
<1>8. CASE WriterRotate
  <2>1. UNCHANGED <<taken, pid_changed, hist>>
    BY <1>8 DEF WriterRotate
  <2>2. /\ backlog' = backlog \/ (current # NULL /\ backlog' = backlog \cup {current})
        /\ current' \in {current, {}, NULL}
    BY <1>8 DEF WriterRotate, Rotate, Rotatable
  <2> QED BY <2>1, <2>2 DEF OwnStacks
<1>9. CASE WriterAcquire
  <2>1. UNCHANGED <<current, pid_changed, hist>> /\ backlog' \subseteq backlog /\ (taken' = taken \/ taken' \in backlog)
    BY <1>9 DEF WriterAcquire
  <2> QED BY <2>1 DEF OwnStacks
<1>10. CASE WriterSend
  <2>1. /\ UNCHANGED <<current, backlog, pid_changed>> /\ taken' = NULL
        /\ hist' = [hist EXCEPT !.done = @ \cup taken] /\ wpc = "send"
    BY <1>10 DEF WriterSend, WStep
  <2>2. /\ hist'.inherited = hist.inherited /\ hist'.payloads = hist.payloads
        /\ hist'.done = hist.done \cup taken
    BY <1>0, <2>1 DEF Hists
  <2>3. taken # NULL
    BY <2>1, StackFacts, ThreadsAssumption DEF Payloads
  <2> QED BY <2>1, <2>2, <2>3 DEF OwnStacks
<1>11. CASE WriterExit
  <2>1. UNCHANGED <<taken, pid_changed, hist>> /\ current' = NULL /\ backlog' = {}
    BY <1>11 DEF WriterExit
  <2> QED BY <2>1 DEF OwnStacks
<1> QED BY <1>1, <1>2, <1>3, <1>4, <1>5, <1>6, <1>7, <1>8, <1>9, <1>10, <1>11 DEF Next, WriterThread

(* tracer/coms.c, ddtrace_coms_clean_background_sender_after_fork: as long *)
(* as every fork is pcntl's, a child uploads none of the payloads that its *)
(* parent was handed.                                                      *)
THEOREM ChildIsClean ==
  ASSUME "plain" \notin Forks
  PROVE  Spec => []ChildSendsOnlyItsOwn
<1>1. Init => OwnStacks
  BY SMTT(60) DEF Init, OwnStacks
<1>2. WriterInv /\ OwnStacks /\ [Next]_vars => OwnStacks'
  BY OwnStep
<1>3. OwnStacks => ChildSendsOnlyItsOwn
  BY DEF OwnStacks, ChildSendsOnlyItsOwn
<1> QED BY <1>1, <1>2, <1>3, WriterInitInv, WriterStepInv, PTL DEF Spec
=============================================================================
