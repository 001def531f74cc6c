# TLA+ verification of dd-trace-php

dd-trace-php is a PHP extension that traces PHP programs. PHP threads open and close spans, serialise finished traces and
hand them over for upload to the Datadog agent, through a background thread of the same process (the background sender) or
through a separate process (the sidecar). Functions are instrumented by hooks. Beside the tracer the repository holds a
security extension (appsec), which asks a helper process for verdicts on requests, a profiler, a loader and the PHP code of
the integrations.

This directory models the parts of it in which the order of steps matters: threads and processes that share state, and C
code that calls back into user code half way through an operation. The modules are translated from the source;
`PROJECT.json` maps every definition to its lines, lists all parts of the system, also those without a module, and the
hazards the properties are about.

## Parts

| Part | State | Meets | Module |
|---|---|---|---|
| Buffer of the background sender, `tracer/coms.c` | current stack, backlog array, per-stack `position`, `bytes_written`, `refcount` | PHP threads, writer thread | `ComsStacks`, against `TraceBuffer` |
| Thread of the background sender, `tracer/coms.c` | `running`, `starting_up`, `shutdown_when_idle`, interval, cycle counter, condition variables | PHP threads, buffer, fork | `ComsWriter` |
| Rate limiter, `tracer/limiter/limiter.c` | `hit_count`, `last_update`, `recent_total` in shared memory | forked processes | `Limiter` |
| Spans and span stacks, `tracer/span.c` and its callers | tree of stacks, active and root span, rings of closed spans, queue of closed stacks, counters, OpenTelemetry context | onClose handlers, destructors, fibers, user requests, flush, shutdown, fork | `SpanStacks` |
| Hooks and observers, `zend_abstract_interface` | hook tables per function, references, frames of running calls, observers | callbacks, class declarations, the engine | `HookTable` |
| Connection backoff of appsec, `helper_process.c` | packed word of failure count, lock and suppression time, shared by all workers | PHP workers | `HelperBackoff` |
| Requests of appsec, `request_lifecycle.c`, `commands_helpers.c`, `network.c` against `client.cpp` and `client.rs` | the extension's request and connection, messages in flight, the helper's client | extension, helper, remote configuration | `AppsecSession` |
| Threads of the helper, `runner.cpp`, `worker_pool.*`, `main.cpp` | queue, pending and live workers, `running`, `interrupted` | accept loop, workers, shutdown | `WorkerPool` |
| Schema sampler of the helper, `rcu.h`, `sampler.hpp` | generations, guards, garbage, hash tables of atomics | worker threads, rebuild threads | `Rcu`, `TimedSet` |

How they meet: `SpanStacks` ends with the flush whose payloads `ComsStacks` buffers and `ComsWriter` uploads; `ComsWriter`
uses the buffer in the form that `TraceBuffer` and the proofs of `ComsStacks` justify. `HookTable` decides which callbacks
run, and these open and close the spans of traced functions (`EnterTraced`, `LeaveTraced` of `SpanStacks`). `AppsecSession`
starts where `HelperBackoff` has let a worker connect; its helper side is one session of `WorkerPool`; `TimedSet` extends
`Rcu` and its rebuild threads are started from those sessions.

## Modules

### `ComsStacks` and `TraceBuffer`: the buffer

A stack is an address with a size, the three atomics and its entries; an entry is the number of the `buffer_data` call it
came from, its offset and its length. `current_stack`, `slots` and `tmp_stack` are the fields of `ddtrace_coms_globals`,
`live` the addresses that are allocated. Every access to shared memory that another thread can get in front of is a step:

| Code | Actions |
|---|---|
| `ddtrace_coms_buffer_data` | `BufferData`, `StoreFailed`, `Return` |
| `dd_store_data` | `StoreLoad`, `StorePin`, `StoreReserve`, `StoreWrite`, `StoreUnpin` |
| `ddtrace_coms_threadsafe_rotate_stack` and what it calls | `RotateLock`, `RotateKeep`, `RotateSwap`, `RotateSwapPut`, `RotateStore`, `RotateStorePut`, `RotateCheck`, `NewStackGrow`, `NewStackAlloc` |
| `dd_writer_loop` | `WriterCycle`, `SendStack`, `FreeStack` |
| `dd_coms_attempt_acquire_stack` | `AcquireRead`, `AcquireRefcount`, `AcquireTake` |

The code has two windows in which a thread acts on what it read before without holding anything: `dd_store_data` between
loading `current_stack` (`coms.c:148`) and incrementing `refcount` (`coms.c:156`), and the writer between reading a slot's
stack and clearing the slot. When a step of another thread falls into one of them, `raced` records it. The safety properties
say what holds until then (`~raced => ...`). The writer's `allocate_new_stacks` is a free choice per cycle here;
`ComsWriter` models when it is off.

`TraceBuffer` is what callers may rely on, without stacks: a payload is held from its store until its batch was sent, it is
stored and sent once, an accepted one is held, a refused one never gets in. `ImplementsBuffer` is the refinement: `held` are
the payloads of the entries that are not being sent, `sending` those in the writer's hands, `broken` is `raced`.

### `ComsWriter`: the thread

The buffer is the set of payloads in the current stack, the stacks of the array and the one in flight; a rotation is one
step, which its mutex justifies. `writer` holds the fields of `_writer_loop_data_t` (of the interval only whether it is the
configured one), `hist.overlapped` remembers that two flushes were under way at once, `wpc` is the place of the thread in
`dd_writer_loop`. Timed waits may end at any moment. A trigger reaches the writer only while it waits (`TriggerFlush`).
`Fork` is `pcntl_fork`, after which the code empties the buffer and starts a new writer; `PlainFork` is a fork the extension
does not see, after which `ddtrace_coms_on_pid_change` starts a writer on the inherited buffer (`OnPidChange`). After a fork
the model follows the child. `ddtrace_coms_flush_shutdown_writer_synchronous` is split where the writer can step in between.

### `Limiter`: the rate limiter

One action per atomic operation of `ddtrace_limiter_allow`: `Allow` (read the clock), `Exchange`, `LoadTotal`, `AddTotal`,
`Drain`, `Refill`, `Hit`, `Undo`. The integers have a width of `Width` values: the difference of times is unsigned and
wraps, and a product that does not fit `int64_t` is any of the values the supported processors give (`Converted`).
`hist.level` is the level of an ideal leaky bucket, the reference for calls that do not overlap.

### `SpanStacks`: spans, stacks and their flush

One PHP thread, but the C code calls into user code while it works: an onClose handler runs in the middle of a close, and
releasing an object during serialisation may destroy a span stack, which closes its spans. The C call stack is therefore a
variable: `calls` holds the frames (`close`, `drop`, `serialize`, `free`, ...) with the local variables that survive the
callback, and user code runs when it is empty or when its head is a handler. `h` is the heap: stacks and spans as records,
the tracer's globals, and four marks of what user code may do against the protocol, which the properties except and which
are explained above them (`lost`, `gone`, `upset`, `off`). The two chains of closed stacks keep their pointers, because they
share the field `next`; rings of closed spans are sets.

The actions are the userland functions (`StartSpan`, `StartTraceSpan`, `CloseSpan`, `TryDrop`, `CreateStack`, `SwitchStack`,
`CloseSpansUntil`, `Flush`, ...), traced functions, fibers, user requests, the ini settings that change at run time, fork,
request start and shutdown, and one action per step of each C frame.

### `HookTable`: hooks and observers

Hooks installed by name wait in `pending` until the class is declared, then live in the entry of the method's function
(`entries`); a hook on an abstract method is shared with the implementations, one on an internal method with the copies that
user classes inherit. A call (`frames`) runs begin callbacks, body and end callbacks; each of them is user code, which may
take any action: install, remove and exclude hooks, declare classes, call functions. `Continue` is the loop of
`zai_hook_continue` with the engine's hash iterators, which follow insertions and are reset when the entry is deleted;
`Grow` the reallocation of a call's memory when more hooks come than there was room for; `observed` the run-time caches in
which the interceptor has its handlers.

### `HelperBackoff`: the connection backoff

Each worker copies the shared word, compares it with the clock, takes the lock by compare-exchange, connects or fails, and
writes the word back by one more compare-exchange or by a plain store. Clock, crash of a worker at any step and the expiry
of the lock are actions. `stray` records that a lock was released after it had expired.

### `AppsecSession`: a request between extension and helper

The extension sends one command and waits for one reply (`x.pc` is the command it waits for, `x.toHelper` and `x.toExt` the
two directions of the stream); its actions are the request's start, verdict, user tracking and end, in the PHP and the user
request lifecycle, and what it does with each result. The helper's are its handlers, in both implementations. Faults: a
reply that comes after the timeout, a helper that dies at any moment, a script that ends at the memory limit while a reply
is half read, a request that is blocked while it starts, and remote configuration that enables, disables and moves.

### `Rcu` and `TimedSet`: the sampler

`Rcu` is the read-copy-update pointer: a guard is three steps (load the generation, publish it, load the data), an update
exchanges the data, increments the generation, looks at one reader at a time and erases. `TimedSet` extends it with the hash
table: every atomic access of `hit` is a step, the rebuild thread copies slot by slot and publishes through `Rcu`'s update.

### `WorkerPool`: the helper's threads

What is done under one lock is one step. A worker that waits on the condition variable is `waiting`, then `woken` until it
has the lock again; a wait ends by a notification or by itself. The runner accepts, launches and notifies;
`appsec_helper_shutdown` signals, joins, and after its deadline ends the process (`killed`).

## Runs

| Run | Instance | Shows |
|---|---|---|
| `coms_two_threads` | two PHP threads, one slot, three stacks, payloads of two sizes, three calls | no stack is freed or sent under a thread (`PinnedStackAlive`, `SendingIsFrozen`), or owned twice (`SingleOwner`), entries tile their stack (`EntriesTiled`), and the stacks implement `TraceBuffer` |
| `coms_liveness` | one PHP thread, fair threads | every accepted payload is sent |
| `writer_shutdown` | one thread, hanging agent, both forks, shutdown at any moment | a live writer is visible and a flush gives the interval back unless two overlapped (`WriterInStep`), a shutdown that comes before the writer's rotation sends everything, and one that finds it started ends |
| `writer_flush` | two threads that flush, `pcntl_fork`, uploads end | flushes return, payloads are uploaded although triggers get lost, a child sends only its own |
| `limiter` | two processes, limit 1, four calls, a clock of four ticks | alone a call is the leaky bucket, together they keep the long-term rate and leave no credit |
| `spans` | three spans, up to four stacks, ten workloads | pointers stay valid, a closed span is in one ring and sent once, counters are exact, nothing is left at the end of a request, the published context is the active span's, a drop leaves no open child |
| `hooks` | four programs over two class hierarchies, up to three hooks, calls nested twice | references and slots are consistent, hooks reach what they are meant for in order, every hook begins once, memories do not overlap, observers are there as long as hooks are |
| `backoff` | three workers, clock of six ticks | one worker at a time retries, no wait outlives the longest, a failure under a live lock is counted |
| `appsec_session` | three requests, two connections, two paths, both lifecycles, both helpers | replies, contexts and paths stay with the request they belong to |
| `sampler` | two threads, three numbers of which two collide, three calls | no table is freed under a thread or a rebuild, sizes and keys are exact, the time of an entry only moves on and a yes writes it (`AccessMovesOn`) |
| `sampler_destructor_claim` | the same set with its destructor | violation: the destructor does not wait for a rebuild |
| `worker_pool` | three workers, three connections, shutdown at any moment | no wakeup is lost, each connection is served, a stop ends, and the library is not unloaded under a worker |

Bounds. Two producers and one writer are the fewest for which a store meets a rotation of another thread and the writer's
scan; three calls on stacks that hold one or two payloads make each stack fill, rotate, be sent and its address be reused,
and one slot makes the backlog full at once. `UntilRaced` stops exploring behind a hit window, where the properties say
nothing. The limiter's width of 256 is far from what four calls reach except by a wrapped difference. A span workload
combines the calls that interact, as all of them together are out of reach: three spans are a root, a child and one a
handler opens; three stacks a root stack, one attached to it and one of another trace. Two hooks on one function and a
third that a callback adds make the loop, its iterator and the growth of the memory meet; the hierarchies have an interface
with an implementing, an inheriting and an overriding class, and an internal method with two generations of copies. Three
backoff workers let one hold a lock, one wait for it and one reset; the clock outlasts a lock and the longest wait. Three
requests let one leave something behind, the next meet it and a third show whether it is over. The `sampler` starts after a
few calls, in states the set reaches: one number seen, or a table filled up to the slot behind the last with its rebuild
under way. Symmetry is used in runs that check no liveness.

`CHECK_DEADLOCK FALSE` stands where all bounded calls may have been made or a process that shut down has ended. `spans`,
`hooks` and `appsec_session` check deadlock: a request can always go on or end.

Fairness. `coms_liveness`: weak fairness of each PHP thread inside a call and of the writer, which wakes at the latest when
its interval is over; nobody must call `buffer_data`. `HangingAgentSpec` (`writer_shutdown`): threads that can run do, timed
waits end, nothing is assumed of the upload nor of the effect of a cancellation. `FairSpec` of `ComsWriter` adds that
uploads end, which curl's timeout gives. `FairSpec` of `WorkerPool`: the runner and each worker run when they can, `accept`
and the timed wait end by their timeouts, and a session ends because its peer closes it; that the peer does is an assumption
about PHP, as `client::run_request` waits for a first message without a limit. Connections need not come and the signal
need not be sent.

## Proofs

Proved for any number of threads, processes, stacks, slots, readers or connections, from the assumptions named in the
modules. Every theorem is a lemma chain over an inductive invariant that is stronger than the property. A leaf that names no
prover is Zenon's (`USE ZenonT(60)` at the head of a module); SMT is named where there is arithmetic or a sequence.

**The buffer** (`ComsStacksProofs`, `ComsBufferProofs`; `ActorsAssumption`, `BoundsAssumption`). `TypeCorrect`, `PinSafety`, `Owned`, `Bounded`, `AcceptedIsKept`, `Frozen`, `BackToBack` and the
refinement `Implements`. `IInv` adds to the invariants

- `MutexHeld` and `Transit`: who is in a rotation, and what it has taken out of the globals so far. With them the two
  stores of a swap are seen as one move;
- `Ownership`: where every stack is, in the middle of a rotation too;
- `Counted`: `refcount` is the number of threads in the stack. This makes a count of zero mean that nobody is in it, which
  is what taking, recycling and freeing rest on;
- `DataIsCounted`: a stack with `bytes_written = 0` holds nothing, so recycling it loses nothing;
- `Written`, `Kept`, `SentBeforeFree`: where a payload is between its store and its upload.

`BackToBack` needs one invariant more, `Tiling`: what is written of a stack and what threads have reserved of it, together,
fill the bytes below `position` with no byte twice; once a reservation did not fit, `position` stays past the end and the
place where the last one ended takes its role. `bytes_written` is the number of bytes that the written entries cover. When
nobody is in the stack the two coincide.

Steps that do not touch a conjunct are dispatched by frame lemmas, so that each conjunct has one case per action that can
disturb it. The bound on memory is a counting argument: the live stacks are the image of the slots, the current stack and
the one in flight, and while `tmp_stack` holds another one, a slot is empty or names the current stack. For the refinement
`CallEffects` says what each step does to calls and payloads and forgets the stacks; with it calls keep apart
(`CallsApart`), a payload is in one entry (`StoredOnce`) that belongs to a call (`Claimed`), and every step maps to a step
of `TraceBuffer` or a stutter.

**The backoff** (`LimitsProofs`; `TimesAssumption`). `OneConnects`, `WaitsEnd`, `FailuresCounted`,
`FreeWithoutFailure`, `TypeCorrect`. The heart is `Pinned`: while the lock of a holder has not expired the shared word is
exactly what it wrote, so every other compare-exchange fails; a worker about to exchange expects a word whose time is over
(`PastTime`), never that of a holder in time.

**The sampler** (`SamplerProofs`). `HeldData` and `GarbageGoes` about `Rcu` alone; `SetUsesRcu`, every step of `TimedSet` is
a step of `Rcu` or leaves it alone, which gives `TablesStay`. The invariant relates three things that change at different
steps: garbage is the data of the generations since the last collection (`Generations`), a reader has published what it
loaded by the step it is at (`Published`), held data is at least as new as the published generation (`HeldIsRecent`), and a
scan has an oldest generation that covers every reader with replaced data, or has still to look at it (`ScanCovers`).

**The sampler's tables** (`TimedSetProofs`; `SetAssumption`). `SetIsConsistent`, `RebuildIsSafe`, `EntriesMoveOn`. The
invariant, and what a search and a step of a call do to it, is in `SamplerProofs`, the writing steps, the rebuild and the
theorems in `TimedSetProofs`. Together with the invariant of `Rcu`, `SetInv` says: a thread in a lookup holds a guard (`Guarded`); one rebuild runs at most, and
only it replaces and frees tables, so the one it copies stays (`OneRebuild`); no time in an entry or a call is ahead of the
clock (`Stamped`); every key lies where a search for it stops, and so does the slot a thread is about to claim (`Probed`);
size is the number of keys and of the insertions under way (`Sized`); a rebuild's heap has distinct keys from the part of
the table behind it (`Copied`). `Probed` is the heart: keys are never removed, so what a search has passed stays passed, two
threads that insert the same number meet at the same slot, and one of the two compare-exchanges fails. That the new table of
a rebuild has the property too is shown over `NewTable` by the least counterexample, as its definition is recursive.

**The writer** (`ComsWriterProofs`; `ThreadsAssumption`, `BoundsAssumption`). `WriterStaysInStep`, and, for forks that all go
through the pcntl hook, `ChildIsClean`. `WriterInv` adds to the types: as long as a thread serves requests there is a
current stack and the writer was not told to stop (`Served`); a shutdown and a forked process have one thread
(`OneThread`), which is what lets them write the writer's fields unguarded; which of `running` and `starting_up` is set at
each place of the loop (`Visible`); a flush under way saved the configured interval, and is the only one, unless some
overlapped (`Saved`). `OwnStacks` says that nothing a child can still send was inherited.

**The worker pool** (`LimitsProofs`; `PoolAssumption`). `NoneStranded`, `UnloadAlone`, `PoolTypeCorrect`, which here says that
`count` is the number of threads and `pending` the number in a wait. `NoLostWakeup` is inductive with these counts: a push
that found `pending > 0` found a worker in its wait, which either is woken or is still there for the notification.

**The limiter** (`LimitsProofs`; `LimiterAssumption`). `LeakyBucket`: calls that do not overlap keep `hit_count` at the level
of an ideal leaky bucket. Its hypothesis `Fits` says that the largest products of the code, what leaks out from the clock's
zero to its end and a full bucket with two hits, fit a machine integer; the run's constants satisfy it, and without it the
conversion of the code is undefined. The invariant is `Bucket`, which says for each place of the one call under way what
`hit_count` lacks or has too much, next to the types (`Shape`) and the order of the times (`TimesInOrder`).

**The appsec session** (`AppsecSessionProofs`, `AppsecStepsProofs`; `SessionAssumption`). `RepliesAreOwn`, `ContextIsOwn`,
`ShutdownIsMatched`, `PathIsFollowed`, for any number of requests, connections, commands and replies given up. None of the
four is inductive: each is about one command, and what that command finds depends on how all the others end. `SessionInv`
adds

- `Stream`: at most one message or reply is under way for the command waited for, those given up and a half read one not
  counted; only the head of the stream can be half read. This is what remains when a reply was given up, and all that
  `OwnReply` needs then;
- `Waits`: which request globals go with each command and with each reason it was sent for, so that what follows its result
  is known;
- `Session`, which speaks of a connection that is in step (`Live`): the message under way is the command waited for (`Mail`),
  the helper is in the request the extension thinks it is in at each command, and what its reply can say (`Context`), and it
  works with the path recorded, or with the one under way (`Follows`).

A handler of the extension runs through several operators between two waits. `Ready` and `Rest` are the invariant at the
states in between, `Good` at the next wait; each operator has a lemma from the one to the other, and an action is the chain of
its operators.

Only model-checked: liveness (outside of the prover's reach); `ShutdownSends`, a temporal formula with a nested box;
`LongTermRate`, whose bound sums over calls that interleave; `SpanStacks`; and `HookTable`, which is recursive over the class
hierarchy.

## What the models showed

One disagreement is a run: `sampler_destructor_claim`. `~timed_set` loops while its compare-exchange from false to true
succeeds (`sampler.hpp:229`), so it goes round once when nothing runs and not at all when a rebuild does, while the comment
two lines above says "we must wait for the update thread".

The properties are stated with the exceptions the code has. These came out while modelling:

- buffer: `architecture.md:75` speaks of a "thread-safe queue"; when a window is hit, a thread can store to a stack that is
  being sent or was freed. The properties hold until then;
- writer: it may exit with the current stack unsent when the shutdown's flags are set after its rotation (`coms.c:1222`,
  against "make the writer exit once it finishes the processing", `coms.c:1252`); `ShutdownSends` covers a shutdown before
  the rotation. A synchronous flush returns when the next cycle starts, not when it has sent (`coms.c:1477`, against
  "synchronously flushing all spans", `ddtrace.stub.php:1368`), and its timeout starts again each round. Two flushes that
  overlap can leave the interval at 0: the second saves the 0 of the first and restores it last (`IntervalRestored` excepts
  it). After a fork the tracer does not see, the child uploads the inherited stacks too;
- limiter: when a call is overtaken between its clock and its exchange the difference wraps; `LongTermRate` excepts such a
  history (`hist.backwards`);
- spans: a span opened in an onClose handler and left open can end up on no stack's chain and cannot be closed any more;
  after a handler switched stacks the OpenTelemetry context may name a closed span until the next switch;
  `close_spans_until` for a span that is not above looks for one past the root with an offset from a null pointer
  (`span.c:787`), which the model treats as not found;
- hooks: a hook on an internal method removed while the method runs stays in the entries of the copies
  (`SlotsAliveUnlessDeferred`); a hook that waited for a class which only inherits the method is not observed until the
  method is observed for another reason; excluding a declared class whose last hook it is looks the emptied entry up under
  another function (`hook.c:1411`, see `uhook.stub.php:159`), so exclusion is modelled for classes not yet declared;
- appsec: `push_addresses` keeps the connection after a timeout (`ddappsec.c:607`) while the other commands close it, so the
  next reply belongs to an earlier command (`late`); a committed user request that is not finished gets a second
  `request_shutdown` at the end of the PHP request; without a service and an environment the path follows only at the end of
  a request;
- sampler: a thread that retries its report after another one's report and a later access answers yes again before the
  interval is over (`sampler.hpp:160` takes the access for the absence of a report); an access that is retried writes the
  `last_reported` it read first over a newer report (`sampler.hpp:188`, where the comment says "we just update the last
  accessed time"); a full table gives all further numbers one shared slot; a rebuild that was overtaken publishes the older
  state of an entry;
- pool: two pushes before the one waiting worker wakes leave the second connection behind the first one's session; a signal
  between the test of `interrupted` and `accept` is made up for by the timeout of `accept`; connections still queued when
  the pool stops are dropped; a session that waits for its next request at the shutdown ends when its peer closes it or by
  `_exit` at the deadline. The few instructions of a worker's thread after it has left the count are not modelled.

## Not modelled

The map covers the code that changes shared or re-entered state; most of the repository is not of this kind. The reasons:

- conversion and parsing without state of several actors: the serialiser, propagation headers, configuration tables, tags,
  block pages, URI normalisation, generated headers (`components-rs/*.h`), and the adapters in PHP. They are functions of
  their input, which tests and fuzzing reach better than a model checker;
- integrations: one wrapper per library, each sequential;
- code whose concurrent half is in a library outside of the repository: the sidecar's transport and listener, the files of
  remote configuration, the span statistics in shared memory, the engine of the helper, the profiler's queues;
- the interceptor for PHP 7 and the variants of hooks for generators, closures, files and traits: the same hook tables over
  other engine structures;
- of the standalone limiter, one exchange per call: around a minute's turn the minute read before the exchange can be the
  older one, and several traces pass;
- of the helper's rate limiter, two counters under a mutex with a clock read before it;
- within the modelled files: what a payload or message says, the grouping of an upload by id, curl and its headers, logging,
  failing allocations, memory pressure beyond the choice to trigger a flush, weak memory orders (`Rcu` takes the fences as
  ordering the steps as written), the memory behind a detached thread's variables, and test-only entry points.
