----------------------------- MODULE ComsWriter -----------------------------
(***************************************************************************)
(* The life of the background sender's thread (tracer/coms.c): start, the  *)
(* cycles of dd_writer_loop with their timed waits, the flush triggers of  *)
(* PHP threads, the synchronous flush, the shutdown with its time limit,   *)
(* cancellation and detach, and fork.                                      *)
(*                                                                         *)
(* The buffer is the abstraction of ComsStacks this needs: payloads in the *)
(* current stack, and at most MaxBacklog stacks behind it.  Time is not    *)
(* modelled: a timed wait may time out at any moment.  A condition         *)
(* variable reaches a thread only while it waits.                          *)
(***************************************************************************)
EXTENDS Integers, FiniteSets

CONSTANTS
    Threads,        \* PHP threads
    NULL,
    MaxBacklog,     \* DD_TRACE_AGENT_STACK_BACKLOG
    FlushAfter,     \* DD_TRACE_AGENT_FLUSH_AFTER_N_REQUESTS
    MaxPayloads,    \* bound: payloads handed in
    MaxRequests,    \* bound: requests ended
    MaxFlushes,     \* bound: synchronous flushes
    Forks,          \* how the process may be forked: "pcntl", "plain"
    MayShutDown     \* whether the process ends

ASSUME ThreadsAssumption == Threads # {} /\ \A s \in SUBSET (1..MaxPayloads) : s # NULL
ASSUME BoundsAssumption ==
    /\ MaxBacklog \in Nat \ {0} /\ FlushAfter \in Nat
    /\ MaxPayloads \in Nat /\ MaxRequests \in Nat /\ MaxFlushes \in Nat
    /\ Forks \subseteq {"pcntl", "plain"} /\ MayShutDown \in BOOLEAN

VARIABLES
    writer,     \* struct _writer_loop_data_t: thread says whether the thread
                \* variables are allocated, interval whether flush_interval > 0,
                \* requests is requests_since_last_flush
    current,    \* payloads in the current stack, or NULL
    backlog,    \* the stacks in the array
    taken,      \* writer->tmp_stack, the one being sent
    wpc,        \* control of the writer thread
    processed,  \* whether this cycle has sent a stack
    cancelled,  \* pthread_cancel was called
    pc,         \* control of each PHP thread
    flush,      \* each thread's synchronous flush: the saved interval, and whether
                \* writer_cycle moved on since it was read
    pid_changed,\* writer->current_pid is another process's
    hist        \* history: payloads handed in, accepted and sent, the ones of
                \* the parent process, whether two flushes have overlapped (or a
                \* fork another thread's), and how often things happened

buffer == <<current, backlog, taken>>
wthread == <<wpc, processed, cancelled>>
vars == <<writer, buffer, wthread, pc, flush, pid_changed, hist>>

Payloads == 1..MaxPayloads

-----------------------------------------------------------------------------
(* ddtrace_coms_init_and_start_writer on a fresh buffer: the thread exists *)
(* and has not run yet                                                     *)
NewWriter ==
    [thread |-> TRUE, running |-> FALSE, starting_up |-> TRUE, shutdown_when_idle |-> FALSE,
     allocate_new_stacks |-> TRUE, interval |-> TRUE, requests |-> 0]

Init ==
    /\ writer = NewWriter
    /\ current = {} /\ backlog = {} /\ taken = NULL
    /\ wpc = "start" /\ processed = FALSE /\ cancelled = FALSE
    /\ pc = [p \in Threads |-> "idle"]
    /\ flush = [p \in Threads |-> [saved |-> TRUE, cycled |-> FALSE]]
    /\ pid_changed = FALSE
    /\ hist = [payloads |-> 0, accepted |-> {}, done |-> {}, inherited |-> {},
               forked |-> FALSE, overlapped |-> FALSE, flushes |-> 0, requests |-> 0]

PStep(p, from, to) == pc[p] = from /\ pc' = [pc EXCEPT ![p] = to]

(* ddtrace_coms_trigger_writer_flush: lost unless the writer waits *)
TriggerFlush ==
    wpc' = IF writer.thread /\ wpc = "waiting" THEN "rotate" ELSE wpc

(* ddtrace_coms_threadsafe_rotate_stack, one step here *)
Rotatable == current \notin {NULL, {}} /\ Cardinality(backlog) < MaxBacklog
Rotate(alloc) ==
    IF ~writer.thread THEN UNCHANGED <<current, backlog>>
    ELSE /\ backlog' = IF Rotatable THEN backlog \cup {current} ELSE backlog
         /\ current' = IF Rotatable \/ current = NULL
                       THEN IF alloc THEN {} ELSE NULL
                       ELSE current

-----------------------------------------------------------------------------
(* What PHP threads do *)

(* ddtrace_coms_buffer_data: into the current stack, or, when it is full,  *)
(* into the next one if the backlog has room for the full one.  There is a *)
(* current stack as long as a PHP thread serves requests.                  *)
BufferData(p) ==
    /\ pc[p] = "idle" /\ hist.payloads < MaxPayloads
    /\ LET x == hist.payloads + 1
           accept == hist' = [hist EXCEPT !.payloads = x, !.accepted = @ \cup {x}]
       IN  \/ /\ current' = current \cup {x} /\ accept
              /\ TriggerFlush \/ UNCHANGED wpc      \* dd_is_memory_pressure_high
              /\ UNCHANGED backlog
           \/ /\ Rotatable
              /\ backlog' = backlog \cup {current} /\ current' = {x} /\ accept
              /\ TriggerFlush
           \/ /\ current # {} /\ ~Rotatable
              /\ hist' = [hist EXCEPT !.payloads = x]
              /\ TriggerFlush
              /\ UNCHANGED <<current, backlog>>
    /\ UNCHANGED <<writer, taken, processed, cancelled, pc, flush, pid_changed>>

(* ddtrace_coms_rshutdown, at the end of a request *)
Rshutdown(p) ==
    /\ pc[p] = "idle" /\ hist.requests < MaxRequests
    /\ hist' = [hist EXCEPT !.requests = @ + 1]
    /\ writer' = [writer EXCEPT !.requests = @ + 1]
    /\ IF writer'.requests > FlushAfter THEN TriggerFlush ELSE UNCHANGED wpc
    /\ UNCHANGED <<buffer, processed, cancelled, pc, flush, pid_changed>>

(* ddtrace_coms_synchronous_flush: read the cycle and the interval, ... *)
FlushAt == {"sync_set", "sync_trigger", "sync_check", "sync_wait", "sync_restore"}
Overlaps(p) == \E q \in Threads \ {p} : pc[q] \in FlushAt

SyncStart(p) ==
    /\ PStep(p, "idle", "sync_set")
    /\ writer.thread /\ hist.flushes < MaxFlushes
    /\ hist' = [hist EXCEPT !.flushes = @ + 1, !.overlapped = @ \/ Overlaps(p)]
    /\ flush' = [flush EXCEPT ![p] = [saved |-> writer.interval, cycled |-> FALSE]]
    /\ UNCHANGED <<writer, buffer, wthread, pid_changed>>

(* ... make the writer stop waiting, ... *)
SyncSet(p) ==
    /\ PStep(p, "sync_set", "sync_trigger")
    /\ writer' = [writer EXCEPT !.interval = FALSE]
    /\ UNCHANGED <<buffer, wthread, flush, pid_changed, hist>>

SyncTrigger(p) ==
    /\ PStep(p, "sync_trigger", "sync_check")
    /\ TriggerFlush
    /\ UNCHANGED <<writer, buffer, processed, cancelled, flush, pid_changed, hist>>

(* ... and wait until the cycle moved on or the writer is not running *)
SyncCheck(p) ==
    /\ PStep(p, "sync_check",
             IF flush[p].cycled \/ ~writer.running THEN "sync_restore" ELSE "sync_wait")
    /\ UNCHANGED <<writer, buffer, wthread, flush, pid_changed, hist>>

SyncTimeout(p) ==
    /\ PStep(p, "sync_wait", "sync_check")
    /\ UNCHANGED <<writer, buffer, wthread, flush, pid_changed, hist>>

SyncRestore(p) ==
    /\ PStep(p, "sync_restore", "idle")
    /\ writer' = [writer EXCEPT !.interval = flush[p].saved]
    /\ UNCHANGED <<buffer, wthread, flush, pid_changed, hist>>

-----------------------------------------------------------------------------
(* ddtrace_coms_flush_shutdown_writer_synchronous, called when the module  *)
(* shuts down: no other PHP thread is left                                 *)
ShutdownStart(p) ==
    /\ MayShutDown
    /\ pc[p] = "idle" /\ \A q \in Threads : pc[q] \in {"idle", "gone"}
    /\ writer' = [writer EXCEPT !.interval = FALSE]
    /\ pc' = [q \in Threads |-> IF q = p THEN "sd_alloc" ELSE "gone"]
    /\ UNCHANGED <<buffer, wthread, flush, pid_changed, hist>>

ShutdownAlloc(p) ==
    /\ PStep(p, "sd_alloc", "sd_idle")
    /\ writer' = [writer EXCEPT !.allocate_new_stacks = FALSE]
    /\ UNCHANGED <<buffer, wthread, flush, pid_changed, hist>>

ShutdownIdle(p) ==
    /\ PStep(p, "sd_idle", "sd_wake")
    /\ writer' = [writer EXCEPT !.shutdown_when_idle = TRUE]
    /\ UNCHANGED <<buffer, wthread, flush, pid_changed, hist>>

(* Wake the writer and wait for it, unless it has finished already: one    *)
(* step, as starting_up is read before running, and under the mutex the    *)
(* writer needs to finish.                                                 *)
ShutdownWake(p) ==
    /\ PStep(p, "sd_wake",
             IF writer.starting_up \/ writer.running THEN "sd_wait" ELSE "sd_left")
    /\ TriggerFlush
    /\ UNCHANGED <<writer, buffer, processed, cancelled, flush, pid_changed, hist>>

(* the time is up: cancel the thread, unless it is another process's *)
ShutdownTimeout(p) ==
    /\ PStep(p, "sd_wait", "sd_left")
    /\ cancelled' = ~pid_changed
    /\ UNCHANGED <<writer, buffer, wpc, processed, flush, pid_changed, hist>>

(* the mutex is released; only the thread's own process goes on to join *)
ShutdownLeft(p) ==
    /\ PStep(p, "sd_left", IF pid_changed THEN "down" ELSE "sd_check")
    /\ UNCHANGED <<writer, buffer, wthread, flush, pid_changed, hist>>

(* The three later tests load running, and, if it is FALSE, starting_up:   *)
(* "sd_check" without the mutex, "sd_locked" with it, and "sd_last".       *)
LoadRunning(p) ==
    /\ \/ PStep(p, "sd_check",  IF writer.running THEN "sd_locked" ELSE "sd_check2")
       \/ PStep(p, "sd_locked", IF writer.running THEN "sd_grace"  ELSE "sd_locked2")
       \/ PStep(p, "sd_last",   IF writer.running THEN "sd_detach" ELSE "sd_last2")
    /\ UNCHANGED <<writer, buffer, wthread, flush, pid_changed, hist>>

LoadStartingUp(p) ==
    /\ \/ PStep(p, "sd_check2",  IF writer.starting_up THEN "sd_locked" ELSE "sd_last")
       \/ PStep(p, "sd_locked2", IF writer.starting_up THEN "sd_grace"  ELSE "sd_last")
       \/ PStep(p, "sd_last2",   IF writer.starting_up THEN "sd_detach" ELSE "sd_join")
    /\ UNCHANGED <<writer, buffer, wthread, flush, pid_changed, hist>>

GraceTimeout(p) ==
    /\ PStep(p, "sd_grace", "sd_last")
    /\ UNCHANGED <<writer, buffer, wthread, flush, pid_changed, hist>>

(* mutant: the thread is joined whether it has stopped or not *)
AlwaysJoin(p) ==
    /\ PStep(p, "sd_detach", "sd_join")
    /\ UNCHANGED <<writer, buffer, wthread, flush, pid_changed, hist>>

(* detach a thread that did not stop, ... *)
Detach(p) ==
    /\ PStep(p, "sd_detach", "down")
    /\ writer' = [writer EXCEPT !.thread = FALSE]
    /\ UNCHANGED <<buffer, wthread, flush, pid_changed, hist>>

(* ... and join one that did *)
Join(p) ==
    /\ PStep(p, "sd_join", "down")
    /\ wpc = "exited"
    /\ writer' = [writer EXCEPT !.thread = FALSE]
    /\ UNCHANGED <<buffer, wthread, flush, pid_changed, hist>>

-----------------------------------------------------------------------------
(* Fork, seen from the child: the writer thread and the other PHP threads  *)
(* do not exist there.                                                     *)
InChild(p, overlapped) ==
    /\ pc[p] = "idle" /\ ~hist.forked
    /\ pc' = [q \in Threads |-> IF q = p THEN "idle" ELSE "gone"]
    /\ hist' = [hist EXCEPT !.forked = TRUE, !.inherited = 1..hist.payloads,
                            !.accepted = {}, !.done = {}, !.overlapped = overlapped]
    /\ UNCHANGED flush

NewThread == wpc' = "start" /\ processed' = FALSE /\ cancelled' = FALSE

(* mutant: the child keeps what the parent has buffered *)
KeepBuffer == UNCHANGED buffer

(* dd_unsafe_cleanup_dirty_stack_area, dd_coms_stack_shutdown and          *)
(* ddtrace_coms_minit: the parent's stacks are forgotten                   *)
FreshBuffer == current' = {} /\ backlog' = {} /\ taken' = NULL

(* pcntl_fork: ddtrace_coms_clean_background_sender_after_fork, then       *)
(* ddtrace_coms_init_and_start_writer                                      *)
Fork(p) ==
    /\ "pcntl" \in Forks
    /\ InChild(p, FALSE)
    /\ writer' = NewWriter /\ NewThread /\ FreshBuffer
    /\ UNCHANGED pid_changed

(* a fork the tracer is not told of: all memory is as it was *)
PlainFork(p) ==
    /\ "plain" \in Forks
    /\ InChild(p, hist.overlapped \/ Overlaps(p))
    /\ wpc' = "none" /\ cancelled' = FALSE
    /\ pid_changed' = TRUE
    /\ UNCHANGED <<writer, buffer, processed>>

(* ddtrace_coms_on_pid_change, at the start of the child's next request:   *)
(* running and the request count stay as the parent left them              *)
OnPidChange(p) ==
    /\ pc[p] = "idle" /\ pid_changed
    /\ pid_changed' = FALSE
    /\ writer' = [NewWriter EXCEPT !.running = writer.running, !.requests = writer.requests]
    /\ NewThread
    /\ hist' = [hist EXCEPT !.overlapped = FALSE]
    /\ UNCHANGED <<buffer, pc, flush>>

-----------------------------------------------------------------------------
(* dd_writer_loop *)

WStep(from, to) == wpc = from /\ wpc' = to

(* mutant: starting_up is cleared before running is set *)
StartedTooEarly ==
    /\ \/ /\ WStep("start", "started")
          /\ writer' = [writer EXCEPT !.starting_up = @ /\ ~writer.thread]
       \/ /\ WStep("started", "cycle")
          /\ writer' = [writer EXCEPT !.running = @ \/ writer.thread]
    /\ UNCHANGED <<buffer, processed, cancelled, pc, flush, pid_changed, hist>>

(* dd_signal_writer_started: two stores, none once the thread is detached *)
WriterStarted ==
    /\ \/ /\ WStep("start", "started")
          /\ writer' = [writer EXCEPT !.running = @ \/ writer.thread]
       \/ /\ WStep("started", "cycle")
          /\ writer' = [writer EXCEPT !.starting_up = @ /\ ~writer.thread]
    /\ UNCHANGED <<buffer, processed, cancelled, pc, flush, pid_changed, hist>>

(* mutant: a cycle without data does not count *)
CycleCountsData ==
    /\ WStep("cycle", "interval")
    /\ flush' = [p \in Threads |-> [flush[p] EXCEPT !.cycled = @ \/ processed]]
    /\ UNCHANGED <<writer, buffer, processed, cancelled, pc, pid_changed, hist>>

(* writer_cycle is incremented at the start of a cycle *)
WriterCycle ==
    /\ WStep("cycle", "interval")
    /\ flush' = [p \in Threads |-> [flush[p] EXCEPT !.cycled = TRUE]]
    /\ UNCHANGED <<writer, buffer, processed, cancelled, pc, pid_changed, hist>>

(* mutant: the wait has no time limit *)
WaitForTrigger ==
    /\ \/ WStep("interval", IF writer.interval THEN "before_wait" ELSE "rotate")
       \/ WStep("before_wait", IF writer.thread THEN "waiting" ELSE "rotate")
    /\ UNCHANGED <<writer, buffer, processed, cancelled, pc, flush, pid_changed, hist>>

(* The interval is read and waited for; a trigger that comes before the    *)
(* writer waits is lost.                                                   *)
WriterWait ==
    /\ \/ WStep("interval", IF writer.interval THEN "before_wait" ELSE "rotate")
       \/ WStep("before_wait", IF writer.thread THEN "waiting" ELSE "rotate")
       \/ WStep("waiting", "rotate")                    \* the wait times out
    /\ UNCHANGED <<writer, buffer, processed, cancelled, pc, flush, pid_changed, hist>>

WriterRotate ==
    /\ WStep("rotate", "acquire")
    /\ writer' = [writer EXCEPT !.requests = 0]
    /\ Rotate(writer.allocate_new_stacks)
    /\ processed' = FALSE
    /\ UNCHANGED <<taken, cancelled, pc, flush, pid_changed, hist>>

(* a stack taken before a fork is still there in the child and goes first *)
WriterAcquire ==
    /\ \/ /\ WStep("acquire", "send")
          /\ taken # NULL /\ UNCHANGED <<taken, backlog>>
       \/ /\ WStep("acquire", "send")
          /\ taken = NULL
          /\ \E s \in backlog : taken' = s /\ backlog' = backlog \ {s}
       \/ /\ WStep("acquire", "tail")
          /\ taken = NULL /\ backlog = {} /\ UNCHANGED <<taken, backlog>>
    /\ UNCHANGED <<writer, current, processed, cancelled, pc, flush, pid_changed, hist>>

(* dd_curl_send_stack and dd_coms_free_stack *)
WriterSend ==
    /\ WStep("send", "acquire")
    /\ hist' = [hist EXCEPT !.done = @ \cup taken]
    /\ taken' = NULL
    /\ processed' = TRUE
    /\ UNCHANGED <<writer, current, backlog, cancelled, pc, flush, pid_changed>>

(* mutant: the writer leaves on shutdown whether it has just sent or not *)
LeaveAtOnce ==
    /\ WStep("tail", IF writer.shutdown_when_idle THEN "exit" ELSE "cycle")
    /\ UNCHANGED <<writer, buffer, processed, cancelled, pc, flush, pid_changed, hist>>

(* An idle cycle after the shutdown was asked for is the last one.         *)
(* dd_signal_data_processed wakes one waiting flush.                       *)
WriterTail ==
    /\ WStep("tail", IF ~processed /\ writer.shutdown_when_idle THEN "exit" ELSE "cycle")
    /\ LET waiting == {p \in Threads : writer.thread /\ pc[p] = "sync_wait"}
       IN  \/ \E p \in waiting : PStep(p, "sync_wait", "sync_check")
           \/ waiting = {} /\ UNCHANGED pc
    /\ UNCHANGED <<writer, buffer, processed, cancelled, flush, pid_changed, hist>>

(* dd_coms_stack_shutdown: what is left in the buffer is gone *)
WriterExit ==
    /\ WStep("exit", "cleanup")
    /\ current' = NULL /\ backlog' = {}
    /\ UNCHANGED <<writer, taken, processed, cancelled, pc, flush, pid_changed, hist>>

(* pthread_cancel takes effect where the thread blocks *)
WriterCancelled ==
    /\ cancelled
    /\ \E l \in {"before_wait", "waiting", "send"} : WStep(l, "cleanup")
    /\ UNCHANGED <<writer, buffer, processed, cancelled, pc, flush, pid_changed, hist>>

(* dd_signal_writer_finished, which needs the mutex *)
WriterFinished ==
    /\ WStep("cleanup", "exited")
    /\ \A p \in Threads : pc[p] \notin {"sd_locked", "sd_locked2"}
    /\ IF writer.thread
       THEN /\ writer' = [writer EXCEPT !.running = FALSE]
            /\ pc' = [p \in Threads |-> CASE pc[p] = "sd_wait"  -> "sd_left"
                                          [] pc[p] = "sd_grace" -> "sd_last"
                                          [] OTHER -> pc[p]]
       ELSE UNCHANGED <<writer, pc>>
    /\ UNCHANGED <<buffer, processed, cancelled, flush, pid_changed, hist>>

-----------------------------------------------------------------------------
WriterThread ==
    \/ WriterStarted \/ WriterCycle \/ WriterWait \/ WriterRotate \/ WriterAcquire
    \/ WriterTail \/ WriterExit \/ WriterFinished

Sync(p) == SyncSet(p) \/ SyncTrigger(p) \/ SyncCheck(p) \/ SyncTimeout(p) \/ SyncRestore(p)

Shutdown(p) ==
    \/ ShutdownAlloc(p) \/ ShutdownIdle(p) \/ ShutdownWake(p) \/ ShutdownTimeout(p)
    \/ ShutdownLeft(p) \/ LoadRunning(p) \/ LoadStartingUp(p) \/ GraceTimeout(p)
    \/ Detach(p) \/ Join(p)

Next ==
    \/ \E p \in Threads :
         \/ BufferData(p) \/ Rshutdown(p) \/ SyncStart(p) \/ ShutdownStart(p)
         \/ Fork(p) \/ PlainFork(p) \/ OnPidChange(p)
         \/ Sync(p) \/ Shutdown(p)
    \/ WriterThread \/ WriterSend \/ WriterCancelled

Spec == Init /\ [][Next]_vars

(* A thread that can run runs, and a timed wait ends.  Nothing makes the   *)
(* agent answer, and an upload that hangs need not react to a cancel.      *)
HangingAgentSpec ==
    /\ Spec
    /\ WF_vars(WriterThread)
    /\ \A p \in Threads : WF_vars(Sync(p)) /\ WF_vars(Shutdown(p))

(* curl's time limit ends every upload *)
FairSpec == HangingAgentSpec /\ WF_vars(WriterSend)

-----------------------------------------------------------------------------
ShutdownAt == {"sd_alloc", "sd_idle", "sd_wake", "sd_wait", "sd_left", "sd_check",
               "sd_check2", "sd_locked", "sd_locked2", "sd_grace", "sd_last", "sd_last2",
               "sd_detach", "sd_join", "down"}
Control == {"idle", "gone"} \cup FlushAt \cup ShutdownAt
WriterControl == {"start", "started", "cycle", "interval", "before_wait", "waiting",
                  "rotate", "acquire", "send", "tail", "exit", "cleanup", "exited", "none"}
Writers == [thread : BOOLEAN, running : BOOLEAN, starting_up : BOOLEAN,
            shutdown_when_idle : BOOLEAN, allocate_new_stacks : BOOLEAN,
            interval : BOOLEAN, requests : 0..MaxRequests]
Stacks == (SUBSET Payloads) \cup {NULL}
Hists == [payloads : 0..MaxPayloads, accepted : SUBSET Payloads, done : SUBSET Payloads,
          inherited : SUBSET Payloads, forked : BOOLEAN, overlapped : BOOLEAN,
          flushes : 0..MaxFlushes, requests : 0..MaxRequests]

(* Every variable of the writer, the buffer and the threads has its type,  *)
(* and the backlog its bound.                                              *)
TypeOK ==
    /\ writer \in Writers
    /\ current \in Stacks /\ taken \in Stacks
    /\ backlog \subseteq SUBSET Payloads /\ Cardinality(backlog) <= MaxBacklog
    /\ wpc \in WriterControl /\ pc \in [Threads -> Control]
    /\ processed \in BOOLEAN /\ cancelled \in BOOLEAN /\ pid_changed \in BOOLEAN
    /\ flush \in [Threads -> [saved : BOOLEAN, cycled : BOOLEAN]]
    /\ hist \in Hists

(* As long as the writer thread lives and is not detached, running or      *)
(* starting_up says so: what lets the shutdown skip the wait and join      *)
(* (coms.c:1073, "ordering is important").                                 *)
AliveIsVisible ==
    writer.thread /\ wpc \notin {"exited", "none"} => writer.running \/ writer.starting_up

(* When no thread is inside a synchronous flush or the shutdown, the       *)
(* writer's interval is the configured one: every flush put it back.  Not  *)
(* so once two flushes have overlapped: the later one may have saved 0.    *)
IntervalRestored ==
    (\A p \in Threads : pc[p] \in {"idle", "gone"}) => writer.interval \/ hist.overlapped

(* What the PHP threads go by is true of the writer: it is visible as long *)
(* as it lives, its interval is the configured one again after a flush,    *)
(* and the backlog keeps to its bound.                                     *)
WriterInStep == TypeOK /\ AliveIsVisible /\ IntervalRestored

(* The child of pcntl_fork never uploads a payload its parent was handed:  *)
(* not from the current stack, the array or the stack in flight.           *)
ChildSendsOnlyItsOwn == hist.done \cap hist.inherited = {}

(* A shutdown that is asked for before the writer rotates sends everything *)
(* there is, however many cycles a full backlog needs, before the thread   *)
(* leaves on its own; a thread that was detached no longer rotates.       *)
BeforeRotation == {"start", "started", "cycle", "interval", "before_wait", "waiting", "rotate"}
ShutdownSends ==
    [](\A p \in Threads :
        pc[p] = "sd_wake" /\ wpc \in BeforeRotation =>
            [](wpc = "exit" /\ writer.thread => hist.accepted \subseteq hist.done))

(* A shutdown that finds a started writer ends, whatever the agent does:   *)
(* an upload that hangs is cancelled, and one that ignores it is detached. *)
ShutdownReturns ==
    \A p \in Threads : (pc[p] = "sd_alloc" /\ ~writer.starting_up) ~> (pc[p] = "down")

(* dd_trace_synchronous_flush returns, in a process that still has the     *)
(* thread that called it.                                                  *)
SyncFlushReturns ==
    \A p \in Threads : (pc[p] = "sync_set") ~> (pc[p] \in {"idle", "gone"})

(* What the buffer accepted is uploaded, in the first process and in a     *)
(* child once its own writer has been started, though triggers get lost.   *)
AcceptedIsUploaded ==
    \A x \in Payloads :
        (x \in hist.accepted /\ wpc # "none") ~> (x \in hist.done \/ x \notin hist.accepted)
=============================================================================
