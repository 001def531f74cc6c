----------------------------- MODULE WorkerPool -----------------------------
(***************************************************************************)
(* The threads of the C++ helper: the runner accepts connections           *)
(* (runner.cpp) and hands each to the worker pool (worker_pool.cpp, .hpp), *)
(* which queues it for a worker that waits or starts a new one, and        *)
(* appsec_helper_shutdown (main.cpp) interrupts the runner, which stops    *)
(* the pool, before the library is unloaded.                               *)
(*                                                                         *)
(* What is done under one lock is one step; a wait on a condition variable *)
(* gives the lock up, so a worker is "waiting", then "woken" until it has  *)
(* the lock again.  A wait ends by a notification or by itself: a timeout  *)
(* or a spurious wakeup.                                                   *)
(***************************************************************************)
EXTENDS Integers, Sequences, FiniteSets

CONSTANTS
    Threads,    \* threads of the pool
    Conns,      \* connections
    None        \* no connection

ASSUME PoolAssumption == IsFiniteSet(Threads) /\ None \notin Conns

VARIABLES
    runner,     \* the runner's step, and the connection it has accepted
    worker,     \* each worker's step, and its runnable: the connection
    data, pending,      \* queue_producer::queue
    count, running,     \* queue_producer::refcount, running_
    interrupted,
    shutdown,   \* where appsec_helper_shutdown is; "killed": it called _exit
    accepted,   \* connections that were launched
    served      \* connections whose session has begun

poolVars == <<runner, worker, data, pending, count, running, interrupted, shutdown, accepted, served>>

NoWorker == [at |-> "none", run |-> None]

PoolInit ==
    /\ runner = [at |-> "check", conn |-> None]
    /\ worker = [w \in Threads |-> NoWorker]
    /\ data = <<>> /\ pending = 0
    /\ count = 0 /\ running = TRUE
    /\ interrupted = FALSE /\ shutdown = "none"
    /\ accepted = {} /\ served = {}

Alive == shutdown # "killed"
RunnerGoto(l) == runner' = [at |-> l, conn |-> None]
WorkerGoto(w, l) == worker' = [worker EXCEPT ![w].at = l]
Wake(ws) == worker' = [w \in Threads |-> IF w \in ws THEN [worker[w] EXCEPT !.at = "woken"] ELSE worker[w]]
Sleeping == {w \in Threads : worker[w].at = "waiting"}

-----------------------------------------------------------------------------
(* runner::run *)
RunnerCheck ==
    /\ Alive /\ runner.at = "check"
    /\ RunnerGoto(IF interrupted THEN "stop" ELSE "accept")
    /\ UNCHANGED <<worker, data, pending, count, running, interrupted, shutdown, accepted, served>>

(* a connection, and interrupted is read again *)
Accept(c) ==
    /\ Alive /\ runner.at = "accept" /\ c \notin accepted
    /\ runner' = [at |-> "accepted", conn |-> c]
    /\ UNCHANGED <<worker, data, pending, count, running, interrupted, shutdown, accepted, served>>

(* the timeout, or an error that ends the loop *)
AcceptTimeout ==
    /\ Alive /\ runner.at = "accept"
    /\ RunnerGoto("check")
    /\ UNCHANGED <<worker, data, pending, count, running, interrupted, shutdown, accepted, served>>

AcceptFails ==
    /\ Alive /\ runner.at = "accept"
    /\ RunnerGoto("stop")
    /\ UNCHANGED <<worker, data, pending, count, running, interrupted, shutdown, accepted, served>>

RunnerRecheck ==
    /\ Alive /\ runner.at = "accepted"
    /\ IF interrupted THEN RunnerGoto("stop") ELSE runner' = [runner EXCEPT !.at = "launch"]
    /\ UNCHANGED <<worker, data, pending, count, running, interrupted, shutdown, accepted, served>>

(* launch: push for a worker that waits; nobody but this thread stops the  *)
(* pool, so it is running                                                  *)
Push ==
    /\ Alive /\ runner.at = "launch" /\ pending > 0
    /\ data' = Append(data, runner.conn)
    /\ accepted' = accepted \cup {runner.conn}
    /\ RunnerGoto("notify")
    /\ UNCHANGED <<worker, pending, count, running, interrupted, shutdown, served>>

(* notify_one: a worker that waits, if there is one *)
Notify ==
    /\ Alive /\ runner.at = "notify"
    /\ \/ Sleeping = {} /\ UNCHANGED worker
       \/ \E w \in Sleeping : Wake({w})
    /\ RunnerGoto("check")
    /\ UNCHANGED <<data, pending, count, running, interrupted, shutdown, accepted, served>>

(* mutant: the push that failed has moved the runnable away *)
SpawnEmpty(w) ==
    /\ Alive /\ runner.at = "launch" /\ pending = 0 /\ worker[w].at = "none"
    /\ count' = count + 1
    /\ worker' = [worker EXCEPT ![w] = [at |-> "check", run |-> None]]
    /\ accepted' = accepted \cup {runner.conn}
    /\ RunnerGoto("check")
    /\ UNCHANGED <<data, pending, running, interrupted, shutdown, served>>

(* launch: a new worker, which queue_consumer counts before it runs *)
Spawn(w) ==
    /\ Alive /\ runner.at = "launch" /\ pending = 0 /\ worker[w].at = "none"
    /\ count' = count + 1
    /\ worker' = [worker EXCEPT ![w] = [at |-> "check", run |-> runner.conn]]
    /\ accepted' = accepted \cup {runner.conn}
    /\ RunnerGoto("check")
    /\ UNCHANGED <<data, pending, running, interrupted, shutdown, served>>

(* stop: running_, then wait *)
Stop ==
    /\ Alive /\ runner.at = "stop"
    /\ running' = FALSE
    /\ RunnerGoto("wait")
    /\ UNCHANGED <<worker, data, pending, count, interrupted, shutdown, accepted, served>>

(* mutant: wait does not notify *)
WaitWithoutNotify ==
    /\ Alive /\ runner.at = "wait" /\ count = 0
    /\ RunnerGoto("exited") /\ UNCHANGED worker
    /\ UNCHANGED <<data, pending, count, running, interrupted, shutdown, accepted, served>>

(* mutant: wait notifies once and does not look at the count again *)
WaitOnce ==
    /\ Alive /\ runner.at = "wait"
    /\ RunnerGoto("exited") /\ Wake(Sleeping)
    /\ UNCHANGED <<data, pending, count, running, interrupted, shutdown, accepted, served>>

(* one turn of wait; its own wait may end at any time *)
AwaitWorkers ==
    /\ Alive /\ runner.at = "wait"
    /\ \/ count > 0 /\ Wake(Sleeping) /\ UNCHANGED runner
       \/ count = 0 /\ RunnerGoto("exited") /\ UNCHANGED worker
    /\ UNCHANGED <<data, pending, count, running, interrupted, shutdown, accepted, served>>

-----------------------------------------------------------------------------
(* work_handler: the loop's condition *)
WorkerCheck(w) ==
    /\ Alive /\ worker[w].at = "check"
    /\ WorkerGoto(w, IF running /\ worker[w].run # None THEN "start" ELSE "exit")
    /\ UNCHANGED <<runner, data, pending, count, running, interrupted, shutdown, accepted, served>>

(* client::run looks at running once more, then serves requests until the  *)
(* connection fails or is closed, or the pool stops                        *)
SessionStart(w) ==
    /\ Alive /\ worker[w].at = "start"
    /\ WorkerGoto(w, "session")
    /\ served' = IF running THEN served \cup {worker[w].run} ELSE served
    /\ UNCHANGED <<runner, data, pending, count, running, interrupted, shutdown, accepted>>

SessionEnd(w) ==
    /\ Alive /\ worker[w].at = "session"
    /\ worker' = [worker EXCEPT ![w] = [at |-> "pop", run |-> None]]
    /\ UNCHANGED <<runner, data, pending, count, running, interrupted, shutdown, accepted, served>>

(* pop *)
Take(w) ==
    /\ worker' = [worker EXCEPT ![w] = [at |-> "check", run |-> Head(data)]]
    /\ data' = Tail(data)

PopWait(w) ==
    /\ Alive /\ worker[w].at = "pop" /\ data = <<>>
    /\ pending' = pending + 1
    /\ WorkerGoto(w, "waiting")
    /\ UNCHANGED <<runner, data, count, running, interrupted, shutdown, accepted, served>>

PopTake(w) ==
    /\ Alive /\ worker[w].at = "pop" /\ data # <<>>
    /\ Take(w)
    /\ UNCHANGED <<runner, pending, count, running, interrupted, shutdown, accepted, served>>

WaitTimeout(w) ==
    /\ Alive /\ worker[w].at = "waiting"
    /\ Wake({w})
    /\ UNCHANGED <<runner, data, pending, count, running, interrupted, shutdown, accepted, served>>

(* mutant: a timeout is taken for an empty queue *)
WokenLeaves(w) ==
    /\ Alive /\ worker[w].at = "woken"
    /\ pending' = pending - 1
    /\ WorkerGoto(w, "check") /\ UNCHANGED data
    /\ UNCHANGED <<runner, count, running, interrupted, shutdown, accepted, served>>

PopWoken(w) ==
    /\ Alive /\ worker[w].at = "woken"
    /\ pending' = pending - 1
    /\ IF data = <<>> THEN WorkerGoto(w, "check") /\ UNCHANGED data ELSE Take(w)
    /\ UNCHANGED <<runner, count, running, interrupted, shutdown, accepted, served>>

(* ~queue_consumer *)
WorkerExit(w) ==
    /\ Alive /\ worker[w].at = "exit"
    /\ count' = count - 1
    /\ worker' = [worker EXCEPT ![w] = NoWorker]
    /\ UNCHANGED <<runner, data, pending, running, interrupted, shutdown, accepted, served>>

-----------------------------------------------------------------------------
(* appsec_helper_shutdown: interrupted, then the signal, which ends an     *)
(* accept but is lost before one                                           *)
Interrupt ==
    /\ shutdown = "none"
    /\ interrupted' = TRUE /\ shutdown' = "joining"
    /\ IF runner.at = "accept" THEN RunnerGoto("check") ELSE UNCHANGED runner
    /\ UNCHANGED <<worker, data, pending, count, running, accepted, served>>

Join ==
    /\ shutdown = "joining" /\ runner.at = "exited"
    /\ shutdown' = "returned"
    /\ UNCHANGED <<runner, worker, data, pending, count, running, interrupted, accepted, served>>

(* the deadline: _exit *)
Deadline ==
    /\ shutdown = "joining"
    /\ shutdown' = "killed"
    /\ UNCHANGED <<runner, worker, data, pending, count, running, interrupted, accepted, served>>

-----------------------------------------------------------------------------
RunnerStep ==
    \/ RunnerCheck \/ AcceptTimeout \/ RunnerRecheck
    \/ Push \/ Notify \/ (\E w \in Threads : Spawn(w)) \/ Stop \/ AwaitWorkers

WorkerStep(w) ==
    \/ WorkerCheck(w) \/ SessionStart(w) \/ SessionEnd(w)
    \/ PopWait(w) \/ PopTake(w) \/ PopWoken(w) \/ WorkerExit(w)

PoolNext ==
    \/ RunnerStep \/ AcceptFails \/ (\E c \in Conns : Accept(c))
    \/ \E w \in Threads : WorkerStep(w) \/ WaitTimeout(w)
    \/ Interrupt \/ Join \/ Deadline

PoolSpec == PoolInit /\ [][PoolNext]_poolVars

(* The threads run and sessions end.  Nobody has to connect or to shut     *)
(* down, and no progress may depend on a waiting worker's 60 seconds.      *)
FairSpec == PoolSpec /\ WF_poolVars(RunnerStep) /\ \A w \in Threads : WF_poolVars(WorkerStep(w))

-----------------------------------------------------------------------------
Live == {w \in Threads : worker[w].at # "none"}
Popping == {w \in Threads : worker[w].at \in {"waiting", "woken"}}

(* Every variable has its type; count is the number of threads and pending *)
(* the number of those between the two halves of a wait.                   *)
PoolTypeOK ==
    /\ runner \in [at : {"check", "accept", "accepted", "launch", "notify", "stop", "wait", "exited"},
                   conn : Conns \cup {None}]
    /\ worker \in [Threads -> [at : {"none", "check", "start", "session", "pop", "waiting", "woken", "exit"},
                               run : Conns \cup {None}]]
    /\ data \in Seq(Conns)
    /\ count = Cardinality(Live) /\ pending = Cardinality(Popping)
    /\ running \in BOOLEAN /\ interrupted \in BOOLEAN
    /\ shutdown \in {"none", "joining", "returned", "killed"}
    /\ accepted \subseteq Conns /\ served \subseteq accepted

(* While the pool runs, a queued connection is never left to workers that  *)
(* all sleep or have gone: one of them is on its way to the queue, or the  *)
(* notification is still to come and there is somebody to receive it.      *)
OnItsWay(w) ==
    \/ worker[w].at \in {"start", "session", "pop", "woken"}
    \/ worker[w].at = "check" /\ worker[w].run # None
NoLostWakeup ==
    running /\ data # <<>> =>
      \/ \E w \in Threads : OnItsWay(w)
      \/ runner.at = "notify" /\ Sleeping # {}

(* main.cpp:292: when appsec_helper_shutdown returns and the library may   *)
(* be unloaded, no worker is in a session or in the queue's code.          *)
WorkersGone == shutdown = "returned" => \A w \in Threads : worker[w].at = "none"

(* A connection that is launched gets its session, whatever the            *)
(* notifications race with, unless the pool stops first.                   *)
EachServed == \A c \in Conns : c \in accepted ~> c \in served \/ ~running \/ ~Alive

(* Once interrupted the runner leaves, stops the pool and exits, wherever  *)
(* the signal found it and whatever the workers were doing.                *)
StopReturns == interrupted ~> runner.at = "exited" \/ ~Alive
=============================================================================
