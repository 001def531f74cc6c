------------------------------ MODULE Limiter ------------------------------
(***************************************************************************)
(* The rate limiter of tracer/limiter/limiter.c: a leaky bucket in memory  *)
(* that forked processes share, worked on with single atomic operations.   *)
(* A call of ddtrace_limiter_allow makes up to seven of them, and calls of *)
(* several processes interleave.  Machine integers have a small width      *)
(* here, with wrap-around where the C code has it.                         *)
(***************************************************************************)
EXTENDS Integers, FiniteSets

CONSTANTS
    Procs,      \* processes sharing the memory
    Limit,      \* DD_TRACE_RATE_LIMIT, hits per second
    Second,     \* ZEND_NANO_IN_SEC: ticks per second, and what a hit weighs
    Width,      \* number of values of a machine integer, 2^64 in the code
    Start,      \* what the clock shows when the memory is set up
    MaxTicks,    \* bound: ticks
    MaxCalls    \* bound: calls

ASSUME LimiterAssumption ==
    /\ Procs # {}
    /\ Limit \in Nat \ {0} /\ Second \in Nat \ {0} /\ Width \in Nat \ {0} /\ Width % 2 = 0
    /\ Start \in Nat /\ MaxTicks \in Nat /\ MaxCalls \in Nat

VARIABLES
    hit_count, last_update, recent_total,   \* dd_limiter->window
    hrtime,                                    \* zend_hrtime
    call,                                   \* each process's call: its place and locals;
                                            \* elapsed is timeval - old_time, unsigned
    hist                                    \* history: calls begun and allowed, whether
                                            \* any overlapped, whether one found a later
                                            \* time than its own, and the level of a leaky
                                            \* bucket for as long as none overlap
window == <<hit_count, last_update, recent_total>>
limiterVars == <<window, hrtime, call, hist>>

MaxInt == (Width \div 2) - 1
MinInt == -(Width \div 2)
Int64 == MinInt..MaxInt

(* two's complement *)
Wrap(n) == ((n - MinInt) % Width) + MinInt

(* what a conversion that does not fit may give: the least integer on      *)
(* x86-64, the nearest one on arm64                                        *)
Converted(n) == IF n \in Int64 THEN {n} ELSE {MinInt, IF n > 0 THEN MaxInt ELSE MinInt}

Truncate(n, d) == IF n >= 0 THEN n \div d ELSE -((-n) \div d)

-----------------------------------------------------------------------------
(* ddtrace_limiter_create *)
LimiterInit ==
    /\ hit_count = 0 /\ last_update = 0 /\ recent_total = 0
    /\ hrtime = Start
    /\ call = [p \in Procs |-> [at |-> "idle", timeval |-> 0, elapsed |-> 0,
                                clear_counter |-> 0, previous |-> 0]]
    /\ hist = [calls |-> 0, allowed |-> 0, overlap |-> FALSE, backwards |-> FALSE,
               level |-> 0]

TimePasses ==
    /\ hrtime < Start + MaxTicks
    /\ hrtime' = hrtime + 1
    /\ UNCHANGED <<window, call, hist>>

(* ddtrace_limiter_allow: the clock is read, ... *)
Allow(p) ==
    /\ call[p].at = "idle" /\ hist.calls < MaxCalls
    /\ call' = [call EXCEPT ![p].at = "exchange", ![p].timeval = hrtime]
    /\ hist' = [hist EXCEPT !.calls = @ + 1,
                            !.overlap = @ \/ \E q \in Procs : call[q].at # "idle"]
    /\ UNCHANGED <<window, hrtime>>

(* mutant: the time of the last call is not kept *)
StaleTime(p) == last_update

(* what the exchange leaves in last_update *)
Stored(p) == call[p].timeval

(* ... exchanged for the last call's, which may be a later one, ... *)
Exchange(p) ==
    LET elapsed == (call[p].timeval - last_update) % Width
        leaked  == elapsed * Limit
    IN  /\ call[p].at = "exchange"
        /\ last_update' = Stored(p)
        /\ \E c \in Converted(leaked) :
             call' = [call EXCEPT ![p].at = "load", ![p].elapsed = elapsed,
                                  ![p].clear_counter = c]
        /\ hist' = [hist EXCEPT !.backwards = @ \/ last_update > call[p].timeval,
                                !.level = IF @ > leaked THEN @ - leaked ELSE 0]
        /\ UNCHANGED <<hit_count, recent_total, hrtime>>

(* ... recent_total loaded and then added to, ... *)
LoadTotal(p) ==
    /\ call[p].at = "load"
    /\ call' = [call EXCEPT ![p].at = "total", ![p].previous = recent_total]
    /\ UNCHANGED <<window, hrtime, hist>>

AddTotal(p) ==
    /\ call[p].at = "total"
    /\ \E decay \in Converted(Truncate(call[p].elapsed * call[p].previous, Second)) :
         recent_total' = Wrap(recent_total + Wrap(Second - decay))
    /\ call' = [call EXCEPT ![p].at = "drain"]
    /\ UNCHANGED <<hit_count, last_update, hrtime, hist>>

(* ... what has leaked out taken away, ... *)
Drain(p) ==
    /\ call[p].at = "drain"
    /\ hit_count' = Wrap(hit_count - call[p].clear_counter)
    /\ call' = [call EXCEPT ![p].at = IF hit_count < call[p].clear_counter THEN "refill"
                                      ELSE "hit",
                            ![p].previous = hit_count]
    /\ UNCHANGED <<last_update, recent_total, hrtime, hist>>

(* what was taken beyond what the bucket held *)
Excess(p) ==
    LET c == call[p] IN
    IF c.previous > 0 THEN Wrap(c.clear_counter - c.previous) ELSE c.clear_counter

(* ... given back if it was too much, ... *)
Refill(p) ==
    /\ call[p].at = "refill"
    /\ hit_count' = Wrap(hit_count + Excess(p))
    /\ call' = [call EXCEPT ![p].at = "hit"]
    /\ UNCHANGED <<last_update, recent_total, hrtime, hist>>

(* ... the hit counted ... *)
Hit(p) ==
    LET refused == hit_count >= Limit * Second
    IN  /\ call[p].at = "hit"
        /\ hit_count' = Wrap(hit_count + Second)
        /\ call' = [call EXCEPT ![p].at = IF refused THEN "undo" ELSE "idle"]
        /\ hist' = IF refused THEN hist
                   ELSE [hist EXCEPT !.allowed = @ + 1, !.level = @ + Second]
        /\ UNCHANGED <<last_update, recent_total, hrtime>>

(* mutant: a refused hit stays counted *)
KeepHit(p) ==
    /\ call[p].at = "undo"
    /\ call' = [call EXCEPT ![p].at = "idle"]
    /\ UNCHANGED <<window, hrtime, hist>>

(* ... and taken back when the bucket was full *)
Undo(p) ==
    /\ call[p].at = "undo"
    /\ hit_count' = Wrap(hit_count - Second)
    /\ call' = [call EXCEPT ![p].at = "idle"]
    /\ UNCHANGED <<last_update, recent_total, hrtime, hist>>

LimiterNext ==
    \/ TimePasses
    \/ \E p \in Procs :
         \/ Allow(p) \/ Exchange(p) \/ LoadTotal(p) \/ AddTotal(p) \/ Drain(p)
         \/ Refill(p) \/ Hit(p) \/ Undo(p)

LimiterSpec == LimiterInit /\ [][LimiterNext]_limiterVars

-----------------------------------------------------------------------------
Calls == [at : {"idle", "exchange", "load", "total", "drain", "refill", "hit", "undo"},
          timeval : 0..(Start + MaxTicks), elapsed : 0..(Width - 1),
          clear_counter : Int64, previous : Int64]

(* The shared words stay within their width, whatever a conversion that    *)
(* does not fit gives.                                                     *)
LimiterTypeOK ==
    /\ hit_count \in Int64 /\ recent_total \in Int64
    /\ last_update \in 0..(Start + MaxTicks) /\ hrtime \in Start..(Start + MaxTicks)
    /\ call \in [Procs -> Calls]
    /\ hist \in [calls : 0..MaxCalls, allowed : 0..MaxCalls, overlap : BOOLEAN,
                 backwards : BOOLEAN, level : Nat]

AtRest == \A p \in Procs : call[p].at = "idle"

(* Calls that do not overlap behave as a leaky bucket: hit_count is what   *)
(* was let in and has not leaked out, and never below zero.                *)
AloneIsExact == ~hist.overlap /\ AtRest => hit_count = hist.level

LetIn == hist.allowed * Second < (Limit + 1) * Second + Limit * hrtime
Owed == Second * (Cardinality(Procs) - 2)

(* However calls interleave, the shared words keep their width, and as     *)
(* long as no call stores a time older than the one it finds, the number   *)
(* let in is at most the limit, one more, and what leaks out at Limit per  *)
(* second on the limiter's clock.  Less than that cannot be said: while    *)
(* one call stands between its drain and its refill the others see all the *)
(* time since the last call as room.  A refused hit that is taken back     *)
(* after another call has emptied the bucket leaves a credit, which that   *)
(* call's own hit uses up: at rest the bucket owes at most one hit for     *)
(* each process beyond those two.                                          *)
LongTermRate ==
    /\ LimiterTypeOK
    /\ ~hist.backwards => LetIn /\ (AtRest => hit_count >= 0 \/ hit_count >= -Owed)
=============================================================================
