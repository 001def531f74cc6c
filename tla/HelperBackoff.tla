---------------------------- MODULE HelperBackoff ----------------------------
(***************************************************************************)
(* The connection backoff of the appsec extension                          *)
(* (appsec/src/extension/helper_process.c).  The PHP workers of a server   *)
(* share one 8-byte word with the number of failed connection attempts and *)
(* the time until which connecting is suppressed, and change it with       *)
(* compare-exchange.  hss is the worker's copy of the word: the expected   *)
(* value of its next compare-exchange, overwritten by one that fails.      *)
(*                                                                         *)
(* Time is counted in units of the caller's choice and does not wrap: the  *)
(* 56 bits of the word hold a monotonic clock in milliseconds.             *)
(***************************************************************************)
EXTENDS Integers

CONSTANTS Workers,         \* PHP workers
          LockTime,        \* MAX_LOCK_TIME_MS
          InitialWait,     \* _backoff_initial
          MaxExponent,     \* _backoff_max_exponent
          MaxFailed,       \* MAX_FAILED_COUNT
          MaxSuppression,  \* MAX_SUPPRESSION_TIME_MS
          MaxStall,        \* bound: time between reading the clock and the compare-exchange
          MaxTime          \* bound: the last value of the clock

\* _backoff_initial * pow(_backoff_base, MIN(new_failed_count - 1, _backoff_max_exponent))
Wait(n) == InitialWait * 2^(IF n - 1 < MaxExponent THEN n - 1 ELSE MaxExponent)

LongestWait == InitialWait * 2^MaxExponent

\* The times of helper_process.c are 3 s, 3 s, 2^10 and 4096 s: the longest wait is below the
\* longest suppression that is recognised as such.
ASSUME TimesAssumption ==
    /\ LockTime \in Nat \ {0} /\ InitialWait \in Nat \ {0} /\ MaxExponent \in Nat /\ MaxFailed \in Nat \ {0}
    /\ MaxSuppression \in Nat /\ MaxStall \in Nat /\ MaxTime \in Nat
    /\ LongestWait \in Nat /\ \A n \in 1..MaxFailed : Wait(n) \in Nat /\ Wait(n) <= LongestWait
    /\ LockTime <= LongestWait /\ LongestWait + MaxStall < MaxSuppression

VARIABLES
    shared,  \* *_shared_state
    now,     \* the monotonic clock
    pc,      \* where a worker is in dd_helper_mgr_acquire_conn, "ready" outside
    hss,     \* _mgr.hss
    cur,     \* the time the worker has read, 0 when it is done with it
    conn,    \* dd_conn_connected(&_mgr.conn)
    fresh,   \* _mgr.connected_this_req
    stray    \* ghost: a lock was released after it had expired

vars == <<shared, now, pc, hss, cur, conn, fresh, stray>>

Clear == [failed |-> 0, trying |-> FALSE, until |-> 0]

Go(w, label) == pc' = [pc EXCEPT ![w] = label]
See(w, state) == hss' = [hss EXCEPT ![w] = state]
ReadClock(w) == cur' = [cur EXCEPT ![w] = now]
Forget(w) == cur' = [cur EXCEPT ![w] = 0]

\* mutant: the difference is taken for a signed one of any size
SuppressedLong(until, time) == until > time /\ until - time < LongestWait

\* time_delta_ms < MAX_SUPPRESSION_TIME_MS: a time that has passed wraps to a large difference.
Suppressed(until, time) == until >= time /\ until - time < MaxSuppression

\* dd_helper_mgr_acquire_conn
Acquire(w) == /\ pc[w] = "ready" /\ ~conn[w] /\ Go(w, "load")
              /\ UNCHANGED <<shared, now, hss, cur, conn, fresh, stray>>

\* _skip_connecting: the load, then the comparison with the clock
Load(w) == /\ pc[w] = "load" /\ See(w, shared)
           /\ Go(w, IF shared.until = 0 THEN "lock" ELSE "check")
           /\ UNCHANGED <<shared, now, cur, conn, fresh, stray>>

Check(w) == /\ pc[w] = "check" /\ Go(w, IF Suppressed(hss[w].until, now) THEN "ready" ELSE "lock")
            /\ UNCHANGED <<shared, now, hss, cur, conn, fresh, stray>>

\* _try_lock_shared_state: its clock, then its loop of compare-exchanges
TryLock(w) == /\ pc[w] = "lock"
              /\ IF hss[w].failed = 0 THEN Go(w, "connect") /\ UNCHANGED cur ELSE Go(w, "exchange") /\ ReadClock(w)
              /\ UNCHANGED <<shared, now, hss, conn, fresh, stray>>

Locking(w) == [failed |-> hss[w].failed, trying |-> TRUE, until |-> cur[w] + LockTime]

ExchangeWins(w) == /\ pc[w] = "exchange" /\ shared = hss[w]
                   /\ shared' = Locking(w) /\ See(w, Locking(w)) /\ Go(w, "connect") /\ Forget(w)
                   /\ UNCHANGED <<now, conn, fresh, stray>>

\* mutant: after a failed exchange the new state is not compared with the clock
ExchangeRetries(w) == /\ pc[w] = "exchange" /\ shared # hss[w] /\ See(w, shared)
                      /\ IF shared.failed = 0 THEN Go(w, "connect") /\ Forget(w) ELSE UNCHANGED <<pc, cur>>
                      /\ UNCHANGED <<shared, now, conn, fresh, stray>>

ExchangeLoses(w) == /\ pc[w] = "exchange" /\ shared # hss[w] /\ See(w, shared)
                    /\ IF Suppressed(shared.until, cur[w]) THEN Go(w, "ready") /\ Forget(w)
                       ELSE IF shared.failed = 0 THEN Go(w, "connect") /\ Forget(w) ELSE UNCHANGED <<pc, cur>>
                    /\ UNCHANGED <<shared, now, conn, fresh, stray>>

Locked(w) == pc[w] = "connect" /\ hss[w].failed > 0
InTime(w) == now <= hss[w].until

\* The connection and the first exchange succeed: _release_shared_state_lock, which stores
\* unconditionally if it has locked.
Released(w) == [Clear EXCEPT !.failed = hss[w].failed]

Connected(w) ==
    /\ pc[w] = "connect" /\ Go(w, "ready")
    /\ conn' = [conn EXCEPT ![w] = TRUE] /\ fresh' = [fresh EXCEPT ![w] = TRUE]
    /\ IF Locked(w) THEN See(w, Released(w)) /\ shared' = Released(w) ELSE UNCHANGED <<hss, shared>>
    /\ stray' = (stray \/ (Locked(w) /\ ~InTime(w)))
    /\ UNCHANGED <<now, cur>>

NotConnected(w) == /\ pc[w] = "connect" /\ ReadClock(w) /\ Go(w, "fail")
                   /\ UNCHANGED <<shared, now, hss, conn, fresh, stray>>

\* dd_helper_close_conn: on the request that opened it, closing counts as a failure.
CloseConn(w) == /\ pc[w] = "ready" /\ conn[w] /\ conn' = [conn EXCEPT ![w] = FALSE]
                /\ IF fresh[w] THEN ReadClock(w) /\ Go(w, "fail") ELSE UNCHANGED <<cur, pc>>
                /\ UNCHANGED <<shared, now, hss, fresh, stray>>

\* mutant: the request's end clears the word whoever wrote it last
RshutdownStores(w) == /\ pc[w] = "ready" /\ See(w, Clear) /\ fresh' = [fresh EXCEPT ![w] = FALSE]
                      /\ shared' = IF fresh[w] /\ hss[w].failed > 0 /\ conn[w] THEN Clear ELSE shared
                      /\ UNCHANGED <<now, pc, cur, conn, stray>>

\* _inc_failed_counter: one compare-exchange, given up when it fails.
NewCount(w) == IF hss[w].failed < MaxFailed THEN hss[w].failed + 1 ELSE MaxFailed

FailedState(w) == [failed |-> NewCount(w), trying |-> FALSE, until |-> cur[w] + Wait(NewCount(w))]

IncFailed(w) == /\ pc[w] = "fail" /\ Go(w, "ready")
                /\ IF shared = hss[w] THEN shared' = FailedState(w) /\ UNCHANGED hss
                   ELSE See(w, shared) /\ UNCHANGED shared
                /\ Forget(w) /\ UNCHANGED <<now, conn, fresh, stray>>

\* dd_helper_rshutdown: _maybe_reset_failed_counter, then the request's state is cleared.
Rshutdown(w) == /\ pc[w] = "ready" /\ See(w, Clear) /\ fresh' = [fresh EXCEPT ![w] = FALSE]
                /\ shared' = IF fresh[w] /\ hss[w].failed > 0 /\ conn[w] /\ shared = hss[w] THEN Clear ELSE shared
                /\ UNCHANGED <<now, pc, cur, conn, stray>>

\* A worker is killed wherever it is, and another one takes its place.
Crash(w) == /\ Go(w, "ready") /\ See(w, Clear)
            /\ conn' = [conn EXCEPT ![w] = FALSE] /\ fresh' = [fresh EXCEPT ![w] = FALSE]
            /\ Forget(w) /\ UNCHANGED <<shared, now, stray>>

Waiting(w) == pc[w] \in {"exchange", "fail"}

Tick == /\ now < MaxTime /\ now' = now + 1 /\ \A w \in Workers : Waiting(w) => now < cur[w] + MaxStall
        /\ UNCHANGED <<shared, pc, hss, cur, conn, fresh, stray>>

Init == /\ shared = Clear /\ now = 1 /\ stray = FALSE
        /\ pc = [w \in Workers |-> "ready"] /\ hss = [w \in Workers |-> Clear]
        /\ cur = [w \in Workers |-> 0]
        /\ conn = [w \in Workers |-> FALSE] /\ fresh = [w \in Workers |-> FALSE]

Step(w) == \/ Acquire(w) \/ Load(w) \/ Check(w) \/ TryLock(w) \/ ExchangeWins(w) \/ ExchangeLoses(w)
           \/ Connected(w) \/ NotConnected(w) \/ CloseConn(w) \/ IncFailed(w) \/ Rshutdown(w) \/ Crash(w)

Next == Tick \/ \E w \in Workers : Step(w)

Spec == Init /\ [][Next]_vars

-----------------------------------------------------------------------------
States == [failed: 0..MaxFailed, trying: BOOLEAN, until: Nat]
Labels == {"ready", "load", "check", "lock", "exchange", "connect", "fail"}

\* The type invariant; the fields of the shared word keep their ranges.
TypeOK == /\ shared \in States /\ now \in Nat /\ stray \in BOOLEAN
          /\ pc \in [Workers -> Labels] /\ hss \in [Workers -> States] /\ cur \in [Workers -> Nat]
          /\ conn \in [Workers -> BOOLEAN] /\ fresh \in [Workers -> BOOLEAN]

\* With failures on record "only one process may attempt to connect at a time": while a lock has not
\* expired no other worker that saw failures is connecting.  A lock released too late ends this.
Exclusive == ~stray => \A v, w \in Workers : Locked(v) /\ Locked(w) /\ InTime(v) /\ InTime(w) => v = w

\* Whatever workers crash or race, connecting is suppressed for no longer than the longest wait, which
\* _skip_connecting still recognises as suppression: the backoff neither lasts for ever nor vanishes.
SuppressionBounded == shared.until <= now + LongestWait
                        /\ (shared.until >= now /\ shared.until # 0 => Suppressed(shared.until, now))

\* No suppression without a failure on record: every worker may connect.
NoFailureNoWait == shared.failed = 0 => shared = Clear

\* A worker that gave up a connection attempt in time has it counted, although it only tries once
\* and other workers lock, release and reset meanwhile.
FailureCounts == [][\A w \in Workers :
    IncFailed(w) /\ hss[w].trying /\ InTime(w) /\ ~stray => shared' = FailedState(w)]_vars
=============================================================================
