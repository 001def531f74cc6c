---------------------------- MODULE LimitsProofs ----------------------------
(***************************************************************************)
(* The proofs of three small components, each of its own state: the        *)
(* backoff of the connections to the appsec helper (HelperBackoff), the    *)
(* worker pool of the helper (WorkerPool) and the rate limiter (Limiter).  *)
(***************************************************************************)
EXTENDS HelperBackoff, WorkerPool, Limiter, FiniteSetTheorems, TLAPS

(* The prover of a leaf that names no other. *)
USE ZenonT(60)

-----------------------------------------------------------------------------
(***************************************************************************)
(* HelperBackoff, for any number of workers, any times that satisfy        *)
(* TimesAssumption and any length of the clock.                            *)
(*                                                                         *)
(* A holder is a worker that wrote its lock and has not given it up.  The  *)
(* heart of the inductive invariant is Pinned: while the lock of a holder  *)
(* has not expired the shared word is exactly what that worker wrote, so   *)
(* every compare-exchange of another worker fails.  A worker about to      *)
(* exchange expects a word whose time has passed (PastTime), hence never   *)
(* the one of a holder in time.                                            *)
(***************************************************************************)
Holder(w) == Locked(w) \/ (pc[w] = "fail" /\ hss[w].trying)

Encoded == NoFailureNoWait /\ \A w \in Workers : hss[w].failed = 0 => hss[w] = Clear

BoundedTimes == /\ now >= 1 /\ shared.until <= now + LongestWait
                /\ \A w \in Workers : hss[w].until <= now + LongestWait

Clocks == \A w \in Workers : Waiting(w) => cur[w] <= now /\ now <= cur[w] + MaxStall

PastTime == \A w \in Workers : pc[w] \in {"lock", "exchange"} => hss[w].until < now

Local == \A w \in Workers : /\ pc[w] = "exchange" => hss[w].failed > 0
                            /\ Locked(w) => hss[w].trying
                            /\ conn[w] => pc[w] = "ready"
                            /\ conn[w] /\ fresh[w] => ~hss[w].trying

Pinned == ~stray => \A w \in Workers : Holder(w) /\ InTime(w) => shared = hss[w]

OneHolder == ~stray => \A v, w \in Workers : Holder(v) /\ Holder(w) /\ InTime(v) /\ InTime(w) => v = w

IInv == TypeOK /\ Encoded /\ BoundedTimes /\ Clocks /\ PastTime /\ Local /\ Pinned /\ OneHolder

-----------------------------------------------------------------------------
\* The word a failure writes is well formed and suppresses for at most the longest wait.
LEMMA FailedStateOK ==
    ASSUME TypeOK, Clocks, NEW w \in Workers, pc[w] = "fail"
    PROVE  /\ FailedState(w) \in States /\ FailedState(w).failed > 0
           /\ FailedState(w).until <= now + LongestWait
  <1>1. NewCount(w) \in 1..MaxFailed
    BY SMTT(60), TimesAssumption DEF TypeOK, States, NewCount
  <1>2. Wait(NewCount(w)) \in Nat /\ Wait(NewCount(w)) <= LongestWait
    BY <1>1, TimesAssumption
  <1>3. cur[w] \in Nat /\ cur[w] <= now /\ now \in Nat /\ LongestWait \in Nat
    BY TimesAssumption DEF TypeOK, Clocks, Waiting
  <1> HIDE DEF NewCount, Wait, LongestWait
  <1> QED  BY SMTT(60), <1>1, <1>2, <1>3 DEF FailedState, States

\* The word a lock writes is well formed and suppresses for at most the longest wait.
LEMMA LockingOK ==
    ASSUME TypeOK, Clocks, NEW w \in Workers, pc[w] = "exchange"
    PROVE  /\ Locking(w) \in States /\ Locking(w).trying /\ Locking(w).failed = hss[w].failed
           /\ Locking(w).until <= now + LongestWait
  <1>1. cur[w] \in Nat /\ cur[w] <= now /\ now \in Nat /\ hss[w] \in States
    BY DEF TypeOK, Clocks, Waiting
  <1>2. LockTime \in Nat /\ LockTime <= LongestWait /\ LongestWait \in Nat
    BY TimesAssumption
  <1> HIDE DEF LongestWait
  <1> QED  BY SMTT(60), <1>1, <1>2 DEF Locking, States

\* A time that a worker finds not suppressed has passed: differences beyond the longest
\* suppression do not occur.
LEMMA NotSuppressedIsPast ==
    ASSUME NEW t \in Nat, NEW c \in Nat, NEW n \in Nat, c <= n, n <= c + MaxStall,
           t <= n + LongestWait, ~Suppressed(t, c)
    PROVE  t < c
  <1>1. MaxStall \in Nat /\ MaxSuppression \in Nat /\ LongestWait \in Nat /\ LongestWait + MaxStall < MaxSuppression
    BY TimesAssumption
  <1> HIDE DEF LongestWait
  <1> QED  BY SMTT(60), <1>1 DEF Suppressed

LEMMA ClearOK == Clear \in States /\ Clear.failed = 0 /\ Clear.until = 0 /\ Clear.trying = FALSE
  BY SMTT(60), TimesAssumption DEF Clear, States

LEMMA ReleasedOK ==
    ASSUME TypeOK, NEW w \in Workers, Locked(w)
    PROVE  Released(w) \in States /\ Released(w).failed > 0 /\ Released(w).until = 0 /\ ~Released(w).trying
  BY ClearOK DEF TypeOK, Locked, Released, Clear, States

LEMMA InitInv == Init => IInv
  <1> SUFFICES ASSUME Init PROVE IInv
    OBVIOUS
  <1>1. LongestWait \in Nat
    BY TimesAssumption
  <1> HIDE DEF LongestWait
  <1>2. TypeOK
    BY ClearOK DEF Init, TypeOK, Labels
  <1>3. Encoded /\ BoundedTimes /\ Clocks /\ PastTime /\ Local
    BY SMTT(60), <1>1, ClearOK DEF Init, Encoded, NoFailureNoWait, BoundedTimes, Clocks, Waiting, PastTime, Local, Locked
  <1>4. Pinned /\ OneHolder
    BY ClearOK DEF Init, Pinned, OneHolder, Holder, Locked
  <1> QED  BY <1>2, <1>3, <1>4 DEF IInv

\* Every action keeps the types.
LEMMA TypeInv ==
    ASSUME IInv, [Next]_vars
    PROVE  TypeOK'
  <1> USE DEF IInv
  <1>1. CASE UNCHANGED vars
    BY <1>1 DEF TypeOK, vars
  <1>2. CASE Tick
    BY SMTT(60), <1>2 DEF TypeOK, Tick
  <1>3. ASSUME NEW w \in Workers, Step(w) PROVE TypeOK'
    <2>1. CASE Acquire(w) \/ Load(w) \/ Check(w) \/ TryLock(w)
      BY SMTT(60), <2>1 DEF TypeOK, Labels, Acquire, Load, Check, TryLock, Go, See, ReadClock
    <2>2. CASE ExchangeWins(w)
      BY <2>2, LockingOK DEF TypeOK, Labels, ExchangeWins, Go, See, Forget
    <2>3. CASE ExchangeLoses(w)
      BY SMTT(60), <2>3 DEF TypeOK, Labels, ExchangeLoses, Go, See, Forget
    <2>4. CASE Connected(w)
      BY <2>4, ReleasedOK DEF TypeOK, Labels, Connected, Go, See
    <2>5. CASE NotConnected(w)
      BY <2>5 DEF TypeOK, Labels, NotConnected, Go, ReadClock
    <2>6. CASE CloseConn(w)
      BY SMTT(60), <2>6 DEF TypeOK, Labels, CloseConn, Go, ReadClock
    <2>7. CASE IncFailed(w)
      BY <2>7, FailedStateOK DEF TypeOK, Labels, IncFailed, Go, See, Forget
    <2>8. CASE Rshutdown(w)
      BY <2>8, ClearOK DEF TypeOK, Rshutdown, See
    <2>9. CASE Crash(w)
      BY <2>9, ClearOK DEF TypeOK, Labels, Crash, Go, See, Forget
    <2> QED  BY <1>3, <2>1, <2>2, <2>3, <2>4, <2>5, <2>6, <2>7, <2>8, <2>9 DEF Step
  <1> QED  BY <1>1, <1>2, <1>3 DEF Next

\* A word without failures is clear, in shared memory and in every copy.
LEMMA EncodedInv ==
    ASSUME IInv, [Next]_vars
    PROVE  Encoded'
  <1> USE DEF IInv
  <1>1. CASE UNCHANGED vars \/ Tick
    BY <1>1 DEF Encoded, NoFailureNoWait, Tick, vars
  <1>2. ASSUME NEW w \in Workers, Step(w) PROVE Encoded'
    <2>1. CASE Acquire(w) \/ Load(w) \/ Check(w) \/ TryLock(w) \/ NotConnected(w) \/ CloseConn(w)
      BY <2>1 DEF TypeOK, Encoded, NoFailureNoWait, Acquire, Load, Check, TryLock, NotConnected, CloseConn, See
    <2>2. CASE ExchangeWins(w)
      <3>1. hss[w].failed # 0
        BY SMTT(60), <2>2 DEF ExchangeWins, TypeOK, States, Local
      <3> QED  BY <2>2, <3>1, LockingOK DEF TypeOK, Encoded, NoFailureNoWait, ExchangeWins, See
    <2>3. CASE ExchangeLoses(w)
      BY <2>3 DEF TypeOK, Encoded, NoFailureNoWait, ExchangeLoses, See
    <2>4. CASE Connected(w)
      BY SMTT(60), <2>4, ReleasedOK DEF TypeOK, Encoded, NoFailureNoWait, Connected, See
    <2>5. CASE IncFailed(w)
      BY SMTT(60), <2>5, FailedStateOK DEF TypeOK, Encoded, NoFailureNoWait, IncFailed, See
    <2>6. CASE Rshutdown(w) \/ Crash(w)
      BY <2>6 DEF TypeOK, Encoded, NoFailureNoWait, Rshutdown, Crash, See
    <2> QED  BY <1>2, <2>1, <2>2, <2>3, <2>4, <2>5, <2>6 DEF Step
  <1> QED  BY <1>1, <1>2 DEF Next

\* No word suppresses beyond the longest wait.
LEMMA TimesInv ==
    ASSUME IInv, [Next]_vars
    PROVE  BoundedTimes'
  <1> USE DEF IInv
  <1>0. LongestWait \in Nat /\ now \in Nat /\ now >= 1
    BY TimesAssumption DEF TypeOK, BoundedTimes
  <1> HIDE DEF LongestWait
  <1>1. CASE UNCHANGED vars
    BY <1>1 DEF BoundedTimes, vars
  <1>2. CASE Tick
    BY SMTT(60), <1>0, <1>2 DEF TypeOK, States, BoundedTimes, Tick
  <1>3. ASSUME NEW w \in Workers, Step(w) PROVE BoundedTimes'
    <2>1. CASE Acquire(w) \/ Load(w) \/ Check(w) \/ TryLock(w) \/ NotConnected(w) \/ CloseConn(w)
      BY <2>1 DEF TypeOK, BoundedTimes, Acquire, Load, Check, TryLock, NotConnected, CloseConn, See
    <2>2. CASE ExchangeWins(w)
      BY <2>2, LockingOK DEF TypeOK, BoundedTimes, ExchangeWins, See
    <2>3. CASE ExchangeLoses(w)
      BY <2>3 DEF TypeOK, BoundedTimes, ExchangeLoses, See
    <2>4. CASE Connected(w)
      BY SMTT(60), <1>0, <2>4, ReleasedOK DEF TypeOK, BoundedTimes, Connected, See
    <2>5. CASE IncFailed(w)
      BY <2>5, FailedStateOK DEF TypeOK, BoundedTimes, IncFailed, See
    <2>6. CASE Rshutdown(w) \/ Crash(w)
      BY SMTT(60), <1>0, <2>6, ClearOK DEF TypeOK, BoundedTimes, Rshutdown, Crash, See
    <2> QED  BY <1>3, <2>1, <2>2, <2>3, <2>4, <2>5, <2>6 DEF Step
  <1> QED  BY <1>1, <1>2, <1>3 DEF Next

\* A worker that compares or writes a time has read the clock no longer than MaxStall ago.
LEMMA ClocksInv ==
    ASSUME IInv, [Next]_vars
    PROVE  Clocks'
  <1> USE DEF IInv
  <1>0. MaxStall \in Nat /\ now \in Nat
    BY TimesAssumption DEF TypeOK
  <1>1. CASE UNCHANGED vars
    BY <1>1 DEF Clocks, Waiting, vars
  <1>2. CASE Tick
    BY SMTT(60), <1>0, <1>2 DEF TypeOK, Clocks, Waiting, Tick
  <1>3. ASSUME NEW w \in Workers, Step(w) PROVE Clocks'
    <2>1. CASE Acquire(w) \/ Load(w) \/ Check(w) \/ TryLock(w)
      BY SMTT(60), <1>0, <2>1 DEF TypeOK, Clocks, Waiting, Acquire, Load, Check, TryLock, Go, ReadClock
    <2>2. CASE ExchangeWins(w) \/ ExchangeLoses(w)
      BY SMTT(60), <2>2 DEF TypeOK, Clocks, Waiting, ExchangeWins, ExchangeLoses, Go, Forget
    <2>3. CASE Connected(w) \/ NotConnected(w) \/ CloseConn(w)
      BY SMTT(60), <1>0, <2>3 DEF TypeOK, Clocks, Waiting, Connected, NotConnected, CloseConn, Go, ReadClock
    <2>4. CASE IncFailed(w) \/ Rshutdown(w) \/ Crash(w)
      BY SMTT(60), <2>4 DEF TypeOK, Clocks, Waiting, IncFailed, Rshutdown, Crash, Go, Forget
    <2> QED  BY <1>3, <2>1, <2>2, <2>3, <2>4 DEF Step
  <1> QED  BY <1>1, <1>2, <1>3 DEF Next

\* The word a worker is about to replace by its lock no longer suppresses anything.
LEMMA PastTimeInv ==
    ASSUME IInv, [Next]_vars
    PROVE  PastTime'
  <1> USE DEF IInv
  <1>0. now \in Nat /\ now >= 1 /\ MaxStall \in Nat /\ shared.until \in Nat
    BY TimesAssumption DEF TypeOK, States, BoundedTimes
  <1>1. CASE UNCHANGED vars
    BY <1>1 DEF PastTime, vars
  <1>2. CASE Tick
    BY SMTT(60), <1>0, <1>2 DEF TypeOK, States, PastTime, Tick
  <1>3. ASSUME NEW w \in Workers, Step(w) PROVE PastTime'
    <2>1. CASE Acquire(w) \/ TryLock(w)
      BY <2>1 DEF TypeOK, PastTime, Acquire, TryLock, Go
    <2>2. CASE Load(w)
      BY SMTT(60), <1>0, <2>2 DEF TypeOK, PastTime, Load, Go, See
    <2>3. CASE Check(w)
      <3>1. ~Suppressed(hss[w].until, now) => hss[w].until < now
        <4>1. hss[w].until \in Nat /\ hss[w].until <= now + LongestWait
          BY DEF TypeOK, States, BoundedTimes
        <4> QED  BY SMTT(60), <1>0, <4>1, NotSuppressedIsPast
      <3> QED  BY <2>3, <3>1 DEF TypeOK, PastTime, Check, Go
    <2>4. CASE ExchangeWins(w)
      BY <2>4 DEF TypeOK, PastTime, ExchangeWins, Go, See
    <2>5. CASE ExchangeLoses(w)
      <3>1. ~Suppressed(shared.until, cur[w]) => shared.until < now
        <4>1. cur[w] \in Nat /\ cur[w] <= now /\ now <= cur[w] + MaxStall
          BY <2>5 DEF TypeOK, Clocks, Waiting, ExchangeLoses
        <4>2. shared.until <= now + LongestWait
          BY DEF BoundedTimes
        <4>3. ~Suppressed(shared.until, cur[w]) => shared.until < cur[w]
          BY <1>0, <4>1, <4>2, NotSuppressedIsPast
        <4> QED  BY SMTT(60), <1>0, <4>1, <4>3
      <3> QED  BY <2>5, <3>1 DEF TypeOK, PastTime, ExchangeLoses, Go, See
    <2>6. CASE Connected(w) \/ NotConnected(w) \/ CloseConn(w)
      BY SMTT(60), <2>6 DEF TypeOK, PastTime, Connected, NotConnected, CloseConn, Go, See
    <2>7. CASE IncFailed(w) \/ Rshutdown(w) \/ Crash(w)
      BY SMTT(60), <2>7 DEF TypeOK, PastTime, IncFailed, Rshutdown, Crash, Go, See
    <2> QED  BY <1>3, <2>1, <2>2, <2>3, <2>4, <2>5, <2>6, <2>7 DEF Step
  <1> QED  BY <1>1, <1>2, <1>3 DEF Next

\* What a worker's own copy says at each point of the protocol.
LEMMA LocalInv ==
    ASSUME IInv, [Next]_vars
    PROVE  Local'
  <1> USE DEF IInv
  <1>1. CASE UNCHANGED vars \/ Tick
    BY <1>1 DEF Local, Locked, Tick, vars
  <1>2. ASSUME NEW w \in Workers, Step(w) PROVE Local'
    <2>1. CASE Acquire(w) \/ Load(w) \/ Check(w)
      BY SMTT(60), <2>1 DEF TypeOK, Local, Locked, Acquire, Load, Check, Go, See
    <2>2. CASE TryLock(w)
      BY SMTT(60), <2>2 DEF TypeOK, States, Local, Locked, TryLock, Go
    <2>3. CASE ExchangeWins(w)
      BY <2>3, LockingOK DEF TypeOK, Local, Locked, ExchangeWins, Go, See
    <2>4. CASE ExchangeLoses(w)
      BY SMTT(60), <2>4 DEF TypeOK, States, Local, Locked, ExchangeLoses, Go, See
    <2>5. CASE Connected(w)
      <3>1. ~Locked(w) => ~hss[w].trying
        BY SMTT(60), <2>5, ClearOK DEF TypeOK, States, Locked, Encoded, Connected
      <3> QED  BY SMTT(60), <2>5, <3>1, ReleasedOK DEF TypeOK, Local, Locked, Connected, Go, See
    <2>6. CASE NotConnected(w) \/ CloseConn(w)
      BY SMTT(60), <2>6 DEF TypeOK, Local, Locked, NotConnected, CloseConn, Go
    <2>7. CASE IncFailed(w)
      BY <2>7 DEF TypeOK, Local, Locked, IncFailed, Go, See
    <2>8. CASE Rshutdown(w) \/ Crash(w)
      BY SMTT(60), <2>8, ClearOK DEF TypeOK, Local, Locked, Rshutdown, Crash, Go, See
    <2> QED  BY <1>2, <2>1, <2>2, <2>3, <2>4, <2>5, <2>6, <2>7, <2>8 DEF Step
  <1> QED  BY <1>1, <1>2 DEF Next

\* While a lock is in time no other worker writes the shared word or takes a lock.
LEMMA OthersFail ==
    ASSUME IInv, ~stray', NEW v \in Workers, NEW w \in Workers, v # w,
           Step(v), Holder(w), InTime(w)
    PROVE  shared' = shared /\ ~ExchangeWins(v)
  <1> USE DEF IInv
  <1>0. ~stray
    BY DEF Step, Acquire, Load, Check, TryLock, ExchangeWins, ExchangeLoses, Connected, NotConnected, CloseConn,
           IncFailed, Rshutdown, Crash
  <1>1. shared = hss[w] /\ hss[w].trying /\ now <= hss[w].until
    BY <1>0 DEF Pinned, Holder, Local, InTime
  <1>2. ASSUME Holder(v), InTime(v) PROVE FALSE
    BY <1>0, <1>2 DEF OneHolder
  <1>3. ASSUME ExchangeWins(v) PROVE FALSE
    <2>1. hss[v].until < now /\ hss[v] = hss[w]
      BY <1>1, <1>3 DEF PastTime, ExchangeWins
    <2> QED  BY SMTT(60), <1>1, <2>1 DEF TypeOK, States
  <1>4. CASE Connected(v)
    BY <1>2, <1>3, <1>4 DEF Connected, Holder
  <1>5. CASE IncFailed(v)
    <2>1. shared = hss[v] => Holder(v) /\ InTime(v)
      BY <1>1, <1>5 DEF IncFailed, Holder, InTime
    <2> QED  BY <1>2, <1>3, <1>5, <2>1 DEF IncFailed
  <1>6. CASE Rshutdown(v)
    <2>1. fresh[v] /\ conn[v] => shared # hss[v]
      BY <1>1 DEF Local
    <2> QED  BY <1>3, <1>6, <2>1 DEF Rshutdown
  <1>7. CASE Acquire(v) \/ Load(v) \/ Check(v) \/ TryLock(v) \/ ExchangeLoses(v)
    BY <1>3, <1>7 DEF Acquire, Load, Check, TryLock, ExchangeLoses
  <1>8. CASE NotConnected(v) \/ CloseConn(v) \/ Crash(v)
    BY <1>3, <1>8 DEF NotConnected, CloseConn, Crash
  <1> QED  BY <1>3, <1>4, <1>5, <1>6, <1>7, <1>8 DEF Step

\* A step of one worker leaves what another one knows alone.
LEMMA OthersUnchanged ==
    ASSUME TypeOK, NEW v \in Workers, NEW w \in Workers, v # w, Step(v)
    PROVE  Holder(w)' = Holder(w) /\ InTime(w)' = InTime(w) /\ hss'[w] = hss[w]
  <1>1. pc'[w] = pc[w]
    BY DEF TypeOK, Step, Acquire, Load, Check, TryLock, ExchangeWins, ExchangeLoses, Connected, NotConnected,
           CloseConn, IncFailed, Rshutdown, Crash, Go
  <1>2. hss'[w] = hss[w] /\ now' = now
    BY DEF TypeOK, Step, Acquire, Load, Check, TryLock, ExchangeWins, ExchangeLoses, Connected, NotConnected,
           CloseConn, IncFailed, Rshutdown, Crash, See
  <1> QED  BY <1>1, <1>2 DEF Holder, Locked, InTime

\* A worker becomes a holder by winning its exchange, and stays one without writing.
LEMMA BecomesHolder ==
    ASSUME IInv, NEW w \in Workers, Step(w), Holder(w)'
    PROVE  \/ ExchangeWins(w)
           \/ Holder(w) /\ (InTime(w)' => InTime(w)) /\ shared' = shared /\ hss'[w] = hss[w]
  <1> USE DEF IInv
  <1>1. CASE Acquire(w) \/ Load(w) \/ Check(w)
    BY <1>1 DEF TypeOK, Labels, Holder, Locked, Acquire, Load, Check, Go
  <1>2. CASE TryLock(w)
    BY SMTT(60), <1>2 DEF TypeOK, Holder, Locked, TryLock, Go
  <1>3. CASE ExchangeLoses(w)
    BY SMTT(60), <1>3 DEF TypeOK, States, Holder, Locked, ExchangeLoses, Go, See
  <1>4. CASE Connected(w) \/ IncFailed(w) \/ Crash(w)
    BY <1>4 DEF TypeOK, Holder, Locked, Connected, IncFailed, Crash, Go
  <1>5. CASE NotConnected(w)
    <2>1. hss[w].trying => hss[w].failed > 0
      BY SMTT(60), ClearOK DEF TypeOK, States, Encoded
    <2> QED  BY <1>5, <2>1 DEF TypeOK, Holder, Locked, InTime, NotConnected, Go
  <1>6. CASE CloseConn(w)
    BY <1>6 DEF TypeOK, Local, Holder, Locked, CloseConn, Go
  <1>7. CASE Rshutdown(w)
    BY <1>7 DEF TypeOK, Holder, Locked, Rshutdown
  <1> QED  BY <1>1, <1>2, <1>3, <1>4, <1>5, <1>6, <1>7 DEF Step

LEMMA PinnedInv ==
    ASSUME IInv, [Next]_vars
    PROVE  Pinned'
  <1> SUFFICES ASSUME ~stray', NEW w \in Workers, Holder(w)', InTime(w)' PROVE shared' = hss'[w]
    BY DEF Pinned
  <1>1. CASE UNCHANGED vars
    BY <1>1 DEF IInv, Pinned, Holder, Locked, InTime, vars
  <1>2. CASE Tick
    <2>1. now <= now' /\ now \in Nat /\ now' \in Nat /\ hss[w].until \in Nat
      BY SMTT(60), <1>2 DEF IInv, TypeOK, States, Tick
    <2> QED  BY SMTT(60), <1>2, <2>1 DEF IInv, Pinned, Holder, Locked, InTime, Tick
  <1>3. ASSUME NEW v \in Workers, Step(v) PROVE shared' = hss'[w]
    <2>0. ~stray
      BY <1>3 DEF Step, Acquire, Load, Check, TryLock, ExchangeWins, ExchangeLoses, Connected, NotConnected,
                  CloseConn, IncFailed, Rshutdown, Crash
    <2>1. CASE v # w
      <3>1. Holder(w) /\ InTime(w) /\ hss'[w] = hss[w]
        BY <1>3, <2>1, OthersUnchanged DEF IInv
      <3>2. shared' = shared
        BY <1>3, <2>1, <3>1, OthersFail
      <3> QED  BY <2>0, <3>1, <3>2 DEF IInv, Pinned
    <2>2. CASE v = w /\ ExchangeWins(w)
      BY <2>2 DEF IInv, TypeOK, ExchangeWins, See
    <2>3. CASE v = w /\ ~ExchangeWins(w)
      <3>1. Holder(w) /\ InTime(w) /\ shared' = shared /\ hss'[w] = hss[w]
        BY <1>3, <2>3, BecomesHolder
      <3> QED  BY <2>0, <3>1 DEF IInv, Pinned
    <2> QED  BY <2>1, <2>2, <2>3
  <1> QED  BY <1>1, <1>2, <1>3 DEF Next

LEMMA OneHolderInv ==
    ASSUME IInv, [Next]_vars
    PROVE  OneHolder'
  <1> SUFFICES ASSUME ~stray', NEW v \in Workers, NEW w \in Workers, v # w,
                      Holder(v)', InTime(v)', Holder(w)', InTime(w)' PROVE FALSE
    BY DEF OneHolder
  <1>1. CASE UNCHANGED vars
    BY <1>1 DEF IInv, OneHolder, Holder, Locked, InTime, vars
  <1>2. CASE Tick
    <2>1. now <= now' /\ now \in Nat /\ now' \in Nat /\ hss[w].until \in Nat /\ hss[v].until \in Nat
      BY SMTT(60), <1>2 DEF IInv, TypeOK, States, Tick
    <2>2. InTime(v) /\ InTime(w)
      BY SMTT(60), <1>2, <2>1 DEF InTime, Tick
    <2> QED  BY <1>2, <2>2 DEF IInv, OneHolder, Holder, Locked, Tick
  <1>3. ASSUME NEW u \in Workers, Step(u) PROVE FALSE
    <2>0. ~stray
      BY <1>3 DEF Step, Acquire, Load, Check, TryLock, ExchangeWins, ExchangeLoses, Connected, NotConnected,
                  CloseConn, IncFailed, Rshutdown, Crash
    <2>1. ASSUME NEW x \in Workers, NEW y \in Workers, x # y, Holder(x)', InTime(x)', Holder(y)', InTime(y)',
                 u # y
          PROVE  Holder(x) /\ InTime(x)
      <3>1. Holder(y) /\ InTime(y)
        BY <1>3, <2>1, OthersUnchanged DEF IInv
      <3>2. CASE u = x
        BY <1>3, <2>1, <3>1, <3>2, OthersFail, BecomesHolder
      <3>3. CASE u # x
        BY <1>3, <2>1, <3>3, OthersUnchanged DEF IInv
      <3> QED  BY <3>2, <3>3
    <2>2. ASSUME u # w PROVE FALSE
      <3>1. Holder(v) /\ InTime(v)
        BY <2>1, <2>2
      <3>2. Holder(w) /\ InTime(w)
        BY <1>3, <2>2, OthersUnchanged DEF IInv
      <3> QED  BY <2>0, <3>1, <3>2 DEF IInv, OneHolder
    <2>3. ASSUME u # v PROVE FALSE
      <3>1. Holder(w) /\ InTime(w)
        BY <2>1, <2>3
      <3>2. Holder(v) /\ InTime(v)
        BY <1>3, <2>3, OthersUnchanged DEF IInv
      <3> QED  BY <2>0, <3>1, <3>2 DEF IInv, OneHolder
    <2> QED  BY <2>2, <2>3
  <1> QED  BY <1>1, <1>2, <1>3 DEF Next

-----------------------------------------------------------------------------
LEMMA Inductive == IInv /\ [Next]_vars => IInv'
  BY TypeInv, EncodedInv, TimesInv, ClocksInv, PastTimeInv, LocalInv, PinnedInv, OneHolderInv DEF IInv

LEMMA Always == Spec => []IInv
  BY InitInv, Inductive, PTL DEF Spec

\* The fields of the shared word and every worker's copy stay in their ranges.
THEOREM TypeCorrect == Spec => []TypeOK
  <1>1. IInv => TypeOK
    BY DEF IInv
  <1> QED  BY <1>1, Always, PTL

\* With failures on record one worker at a time connects, for any number of workers that crash,
\* race and retry, as long as no lock is released after its time.
THEOREM OneConnects == Spec => []Exclusive
  <1>1. IInv => Exclusive
    BY DEF IInv, Exclusive, OneHolder, Holder
  <1> QED  BY <1>1, Always, PTL

\* Connecting is never suppressed for longer than the longest wait, and never by a time that
\* _skip_connecting would take for one in the past.
THEOREM WaitsEnd == Spec => []SuppressionBounded
  <1>1. IInv => SuppressionBounded
    <2>1. ASSUME IInv PROVE SuppressionBounded
      <3>1. /\ LongestWait \in Nat /\ MaxStall \in Nat /\ MaxSuppression \in Nat /\ LongestWait + MaxStall < MaxSuppression
            /\ now \in Nat /\ shared.until \in Nat /\ shared.until <= now + LongestWait
        BY <2>1, TimesAssumption DEF IInv, TypeOK, States, BoundedTimes
      <3> HIDE DEF LongestWait
      <3> QED  BY SMTT(60), <3>1 DEF SuppressionBounded, Suppressed
    <2> QED  BY <2>1
  <1> QED  BY <1>1, Always, PTL

\* Without a failure on record nobody waits.
THEOREM FreeWithoutFailure == Spec => []NoFailureNoWait
  <1>1. IInv => NoFailureNoWait
    BY DEF IInv, Encoded
  <1> QED  BY <1>1, Always, PTL

\* The single compare-exchange of _inc_failed_counter does not lose the failure of a worker whose
\* lock is in time.
THEOREM FailuresCounted == Spec => FailureCounts
  <1>1. IInv => [\A w \in Workers : IncFailed(w) /\ hss[w].trying /\ InTime(w) /\ ~stray
                                      => shared' = FailedState(w)]_vars
    <2>1. ASSUME IInv, NEW w \in Workers, IncFailed(w), hss[w].trying, InTime(w), ~stray
          PROVE  shared' = FailedState(w)
      BY <2>1 DEF IInv, Pinned, Holder, IncFailed
    <2> QED  BY <2>1
  <1> QED  BY <1>1, Always, PTL DEF FailureCounts

-----------------------------------------------------------------------------
(***************************************************************************)
(* WorkerPool, for any number of worker threads and connections: the       *)
(* counts of the pool are exact, no wakeup is lost, and no worker is left  *)
(* when appsec_helper_shutdown returns.                                    *)
(***************************************************************************)
RunnerAt == {"check", "accept", "accepted", "launch", "notify", "stop", "wait", "exited"}
WorkerAt == {"none", "check", "start", "session", "pop", "waiting", "woken", "exit"}

(* PoolTypeOK without the counts. *)
Types ==
    /\ runner \in [at : RunnerAt, conn : Conns \cup {None}]
    /\ worker \in [Threads -> [at : WorkerAt, run : Conns \cup {None}]]
    /\ data \in Seq(Conns)
    /\ running \in BOOLEAN /\ interrupted \in BOOLEAN
    /\ shutdown \in {"none", "joining", "returned", "killed"}
    /\ accepted \subseteq Conns /\ served \subseteq accepted

Counted == count = Cardinality(Live) /\ pending = Cardinality(Popping)

(* Connections in the queue and with the workers were launched. *)
Known ==
    /\ runner.at \in {"accepted", "launch"} => runner.conn \in Conns
    /\ \A w \in Threads :
         /\ worker[w].run \in accepted \cup {None}
         /\ worker[w].at \in {"start", "session"} => worker[w].run # None
    /\ \A i \in 1..Len(data) : data[i] \in accepted

(* The runner exits when there is no worker left, and is joined then. *)
Exited ==
    /\ runner.at = "exited" => count = 0
    /\ shutdown = "returned" => runner.at = "exited"

PoolInv == Types /\ Counted /\ Known /\ NoLostWakeup /\ Exited

LEMMA TypesAre == PoolTypeOK <=> Types /\ Counted
  BY DEF PoolTypeOK, Types, Counted, RunnerAt, WorkerAt

LEMMA SetsFinite == IsFiniteSet(Live) /\ IsFiniteSet(Popping)
  BY FS_Subset, PoolAssumption DEF Live, Popping

LEMMA PoolInitInv == PoolInit => PoolInv
<1> SUFFICES ASSUME PoolInit PROVE PoolInv
  OBVIOUS
<1>1. Live = {} /\ Popping = {}
  BY DEF PoolInit, NoWorker, Live, Popping
<1>2. Counted
  BY <1>1, FS_EmptySet DEF PoolInit, Counted
<1>3. Types
  <2>1. worker \in [Threads -> [at : WorkerAt, run : Conns \cup {None}]]
    BY DEF PoolInit, NoWorker, WorkerAt
  <2>2. runner \in [at : RunnerAt, conn : Conns \cup {None}]
    BY DEF PoolInit, RunnerAt
  <2>3. data \in Seq(Conns) /\ accepted \subseteq Conns /\ served \subseteq accepted
    BY SMTT(60) DEF PoolInit
  <2> QED BY <2>1, <2>2, <2>3 DEF PoolInit, Types
<1>4. Known /\ Exited
  BY SMTT(60) DEF PoolInit, NoWorker, Known, Exited
<1>5. NoLostWakeup
  BY DEF PoolInit, NoLostWakeup
<1> QED BY <1>2, <1>3, <1>4, <1>5 DEF PoolInv

-----------------------------------------------------------------------------
(* A worker moves from one step to another, and nothing else is said. *)
Moves(w, from, to) ==
    /\ worker[w].at = from /\ worker'[w].at = to
    /\ \A v \in Threads \ {w} : worker'[v] = worker[v]

(* What a move does to the set of the workers at some of the steps. *)
LEMMA MoveCounts ==
  ASSUME NEW S, NEW n, NEW w \in Threads, NEW from, NEW to, Moves(w, from, to),
         n = Cardinality({v \in Threads : worker[v].at \in S})
  PROVE  LET m == Cardinality({v \in Threads : worker'[v].at \in S})
         IN  /\ from \in S /\ to \in S => m = n
             /\ from \notin S /\ to \notin S => m = n
             /\ from \notin S /\ to \in S => m = n + 1
             /\ from \in S /\ to \notin S => m = n - 1
<1> DEFINE A == {v \in Threads : worker[v].at \in S}
           B == {v \in Threads : worker'[v].at \in S}
<1>1. IsFiniteSet(A)
  BY FS_Subset, PoolAssumption
<1>2. Cardinality(A) \in Nat
  BY <1>1, FS_CardinalityType
<1>3. \A v \in Threads \ {w} : worker'[v].at = worker[v].at
  BY DEF Moves
<1>4. worker[w].at = from /\ worker'[w].at = to
  BY DEF Moves
<1>5. (from \in S /\ to \in S) \/ (from \notin S /\ to \notin S) => B = A
  BY SMTT(60), <1>3, <1>4
<1>6. from \notin S /\ to \in S => B = A \cup {w} /\ w \notin A
  BY SMTT(60), <1>3, <1>4
<1>7. from \in S /\ to \notin S => B = A \ {w} /\ w \in A
  BY SMTT(60), <1>3, <1>4
<1> HIDE DEF A, B
<1>8. Cardinality(A \cup {w}) = IF w \in A THEN Cardinality(A) ELSE Cardinality(A) + 1
  BY <1>1, FS_AddElement
<1>9. Cardinality(A \ {w}) = IF w \in A THEN Cardinality(A) - 1 ELSE Cardinality(A)
  BY <1>1, FS_RemoveElement
<1>10. /\ from \in S /\ to \in S => Cardinality(B) = Cardinality(A)
       /\ from \notin S /\ to \notin S => Cardinality(B) = Cardinality(A)
       /\ from \notin S /\ to \in S => Cardinality(B) = Cardinality(A) + 1
       /\ from \in S /\ to \notin S => Cardinality(B) = Cardinality(A) - 1
  BY <1>5, <1>6, <1>7, <1>8, <1>9
<1> QED BY <1>10 DEF A, B

LEMMA MovePool ==
  ASSUME Types, Types', Counted, NEW w \in Threads, NEW from, NEW to, Moves(w, from, to)
  PROVE  /\ Cardinality(Live') = IF from = "none" /\ to # "none" THEN count + 1
                                 ELSE IF from # "none" /\ to = "none" THEN count - 1 ELSE count
         /\ LET S == {"waiting", "woken"}
            IN  Cardinality(Popping') = IF from \notin S /\ to \in S THEN pending + 1
                                        ELSE IF from \in S /\ to \notin S THEN pending - 1 ELSE pending
<1> DEFINE L == WorkerAt \ {"none"}
           S == {"waiting", "woken"}
<1>1. from \in WorkerAt /\ to \in WorkerAt
  BY DEF Moves, Types
<1>2. Live = {v \in Threads : worker[v].at \in L} /\ Live' = {v \in Threads : worker'[v].at \in L}
  BY DEF Live, Types
<1>3. Popping = {v \in Threads : worker[v].at \in S} /\ Popping' = {v \in Threads : worker'[v].at \in S}
  BY DEF Popping
<1>4. count = Cardinality({v \in Threads : worker[v].at \in L})
  BY <1>2 DEF Counted
<1>5. pending = Cardinality({v \in Threads : worker[v].at \in S})
  BY <1>3 DEF Counted
<1>6. (from \in L <=> from # "none") /\ (to \in L <=> to # "none")
  BY <1>1
<1> HIDE DEF L, S
<1>7. Cardinality(Live') = IF from = "none" /\ to # "none" THEN count + 1
                           ELSE IF from # "none" /\ to = "none" THEN count - 1 ELSE count
  BY <1>2, <1>4, <1>6, MoveCounts
<1>8. Cardinality(Popping') = IF from \notin S /\ to \in S THEN pending + 1
                              ELSE IF from \in S /\ to \notin S THEN pending - 1 ELSE pending
  BY <1>3, <1>5, MoveCounts
<1> QED BY <1>7, <1>8 DEF S

(* Threads that wait are woken. *)
LEMMA WakeKeeps ==
  ASSUME Types, NEW ws \in SUBSET Sleeping, Wake(ws)
  PROVE  /\ worker' \in [Threads -> [at : WorkerAt, run : Conns \cup {None}]]
         /\ \A w \in Threads : worker'[w].run = worker[w].run
         /\ \A w \in Threads : worker'[w].at = IF w \in ws THEN "woken" ELSE worker[w].at
         /\ Live' = Live /\ Popping' = Popping
<1>1. \A w \in Threads :
        worker'[w] = IF w \in ws THEN [worker[w] EXCEPT !.at = "woken"] ELSE worker[w]
  BY DEF Wake
<1>2. \A w \in Threads : worker[w] \in [at : WorkerAt, run : Conns \cup {None}]
  BY DEF Types
<1>3. \A w \in Threads :
        /\ worker'[w] \in [at : WorkerAt, run : Conns \cup {None}]
        /\ worker'[w].run = worker[w].run
        /\ worker'[w].at = IF w \in ws THEN "woken" ELSE worker[w].at
  BY <1>1, <1>2 DEF WorkerAt
<1>4. worker' \in [Threads -> [at : WorkerAt, run : Conns \cup {None}]]
  BY <1>3 DEF Wake
<1>5. \A w \in ws : w \in Threads /\ worker[w].at = "waiting"
  BY DEF Sleeping
<1>6. Live' = Live /\ Popping' = Popping
  BY <1>3, <1>5 DEF Live, Popping
<1> QED BY <1>3, <1>4, <1>6

-----------------------------------------------------------------------------
(* Steps of the runner and of the shutdown that touch neither the workers  *)
(* nor the queue.                                                          *)
LEMMA PoolQuietKeeps ==
  ASSUME PoolInv,
         UNCHANGED <<worker, data, pending, count, accepted, served>>,
         runner' \in [at : RunnerAt, conn : Conns \cup {None}],
         runner'.at \in {"accepted", "launch"} => runner'.conn \in Conns,
         runner.at = "notify" => runner'.at = "notify",
         runner.at = "exited" <=> runner'.at = "exited",
         running' \in BOOLEAN, running' => running,
         interrupted' \in BOOLEAN,
         shutdown' \in {"none", "joining", "returned", "killed"},
         shutdown' = "returned" => runner.at = "exited"
  PROVE  PoolInv'
<1>1. Types' /\ Known' /\ Exited'
  BY DEF PoolInv, Types, Known, Exited
<1>2. Counted'
  BY DEF PoolInv, Counted, Live, Popping
<1>3. NoLostWakeup'
  BY DEF PoolInv, NoLostWakeup, OnItsWay, Sleeping
<1> QED BY <1>1, <1>2, <1>3 DEF PoolInv

LEMMA QuietSteps ==
  ASSUME PoolInv,
         \/ RunnerCheck \/ (\E c \in Conns : Accept(c)) \/ AcceptTimeout \/ AcceptFails
         \/ RunnerRecheck \/ Stop \/ Interrupt \/ Join \/ Deadline
  PROVE  PoolInv'
<1> USE DEF PoolInv, Types, RunnerAt, Alive, RunnerGoto
<1>1. CASE RunnerCheck
  BY <1>1, PoolQuietKeeps DEF RunnerCheck, Exited
<1>2. ASSUME NEW c \in Conns, Accept(c) PROVE PoolInv'
  BY <1>2, PoolQuietKeeps DEF Accept, Exited
<1>3. CASE AcceptTimeout
  BY <1>3, PoolQuietKeeps DEF AcceptTimeout, Exited
<1>4. CASE AcceptFails
  BY <1>4, PoolQuietKeeps DEF AcceptFails, Exited
<1>5. CASE RunnerRecheck
  BY SMTT(60), <1>5, PoolQuietKeeps DEF RunnerRecheck, Exited, Known
<1>6. CASE Stop
  BY <1>6, PoolQuietKeeps DEF Stop, Exited
<1>7. CASE Interrupt
  BY SMTT(60), <1>7, PoolQuietKeeps DEF Interrupt, Exited, Known
<1>8. CASE Join
  BY <1>8, PoolQuietKeeps DEF Join, Exited, Known
<1>9. CASE Deadline
  BY <1>9, PoolQuietKeeps DEF Deadline, Exited, Known
<1> QED BY <1>1, <1>2, <1>3, <1>4, <1>5, <1>6, <1>7, <1>8, <1>9

-----------------------------------------------------------------------------
LEMMA PushKeeps ==
  ASSUME PoolInv, Push
  PROVE  PoolInv'
<1> USE DEF PoolInv, Alive, RunnerGoto
<1>1. Types' /\ Known'
  <2>1. runner.conn \in Conns
    BY DEF Push, Known
  <2>2. data' \in Seq(Conns) /\ Len(data') = Len(data) + 1
        /\ \A i \in 1..Len(data') : data'[i] = IF i = Len(data) + 1 THEN runner.conn ELSE data[i]
    BY SMTT(60), <2>1 DEF Push, Types
  <2>3. runner' \in [at : RunnerAt, conn : Conns \cup {None}] /\ runner'.at = "notify"
    BY DEF Push, RunnerAt
  <2>4. \A i \in 1..Len(data') : data'[i] \in accepted'
    BY SMTT(60), <2>2 DEF Push, Known, Types
  <2> QED BY <2>1, <2>2, <2>3, <2>4 DEF Push, Types, Known
<1>2. Counted' /\ Exited'
  BY DEF Push, Counted, Live, Popping, Exited
<1>3. NoLostWakeup'
  <2>1. Popping # {}
    BY SMTT(60), SetsFinite, FS_EmptySet DEF Push, Counted
  <2>2. PICK w \in Threads : worker[w].at \in {"waiting", "woken"}
    BY <2>1 DEF Popping
  <2>3. worker' = worker /\ runner'.at = "notify"
    BY DEF Push
  <2>4. CASE worker[w].at = "waiting"
    BY <2>3, <2>4 DEF NoLostWakeup, Sleeping
  <2>5. CASE worker[w].at = "woken"
    BY <2>3, <2>5 DEF NoLostWakeup, OnItsWay
  <2> QED BY <2>2, <2>4, <2>5
<1> QED BY <1>1, <1>2, <1>3

(* notify_one, and the turns of wait *)
LEMMA NotifyKeeps ==
  ASSUME PoolInv, Notify \/ AwaitWorkers
  PROVE  PoolInv'
<1> USE DEF PoolInv, Alive, RunnerGoto
<1>1. CASE Notify /\ Sleeping = {} /\ UNCHANGED worker
  <2>1. Types' /\ Known' /\ Exited'
    BY <1>1 DEF Notify, Types, RunnerAt, Known, Exited
  <2>2. Counted'
    BY <1>1 DEF Notify, Counted, Live, Popping
  <2>3. NoLostWakeup'
    BY <1>1 DEF Notify, NoLostWakeup, OnItsWay
  <2> QED BY <2>1, <2>2, <2>3
<1>2. ASSUME Notify, NEW w \in Sleeping, Wake({w})
      PROVE  PoolInv'
  <2>1. /\ worker' \in [Threads -> [at : WorkerAt, run : Conns \cup {None}]]
        /\ \A v \in Threads : worker'[v].run = worker[v].run
        /\ \A v \in Threads : worker'[v].at = IF v \in {w} THEN "woken" ELSE worker[v].at
        /\ Live' = Live /\ Popping' = Popping
    BY <1>2, WakeKeeps
  <2>2. Types' /\ Exited'
    BY <1>2, <2>1 DEF Notify, Types, RunnerAt, Exited
  <2>3. Known'
    BY <1>2, <2>1 DEF Notify, Known, Types
  <2>4. Counted'
    BY <1>2, <2>1 DEF Notify, Counted
  <2>5. NoLostWakeup'
    BY <1>2, <2>1 DEF NoLostWakeup, OnItsWay, Sleeping
  <2> QED BY <2>2, <2>3, <2>4, <2>5
<1>3. CASE AwaitWorkers /\ count = 0
  <2>1. Types' /\ Known' /\ Exited'
    BY SMTT(60), <1>3 DEF AwaitWorkers, Types, RunnerAt, Known, Exited
  <2>4. UNCHANGED <<worker, count, pending>>
    BY SMTT(60), <1>3 DEF AwaitWorkers
  <2>2. Counted'
    BY <2>4 DEF Counted, Live, Popping
  <2>3. NoLostWakeup'
    BY SMTT(60), <1>3 DEF AwaitWorkers, NoLostWakeup, OnItsWay
  <2> QED BY SMTT(60), <2>1, <2>2, <2>3
<1>4. CASE AwaitWorkers /\ Wake(Sleeping) /\ UNCHANGED runner
  <2>1. /\ worker' \in [Threads -> [at : WorkerAt, run : Conns \cup {None}]]
        /\ \A v \in Threads : worker'[v].run = worker[v].run
        /\ \A v \in Threads : worker'[v].at = IF v \in Sleeping THEN "woken" ELSE worker[v].at
        /\ Live' = Live /\ Popping' = Popping
    BY <1>4, WakeKeeps
  <2>2. Types' /\ Exited'
    BY <1>4, <2>1 DEF AwaitWorkers, Types, Exited
  <2>3. Known'
    BY <1>4, <2>1 DEF AwaitWorkers, Known, Types, Sleeping
  <2>4. Counted'
    BY <1>4, <2>1 DEF AwaitWorkers, Counted
  <2>5. NoLostWakeup'
    <3>1. \A v \in Threads : OnItsWay(v) => OnItsWay(v)'
      BY <2>1 DEF OnItsWay
    <3>2. runner.at # "notify" /\ running' = running /\ data' = data
      BY <1>4 DEF AwaitWorkers
    <3> QED BY <3>1, <3>2 DEF NoLostWakeup
  <2> QED BY <2>2, <2>3, <2>4, <2>5
<1> QED BY <1>1, <1>2, <1>3, <1>4 DEF Notify, AwaitWorkers

-----------------------------------------------------------------------------
(* A step of a worker that is alive. *)
LEMMA StepKeeps ==
  ASSUME PoolInv, NEW w \in Threads, NEW from, NEW to, Moves(w, from, to),
         from # "none", from = "waiting" => to = "woken",
         UNCHANGED <<runner, running, interrupted, shutdown, accepted>>,
         worker' \in [Threads -> [at : WorkerAt, run : Conns \cup {None}]],
         worker'[w].run \in accepted \cup {None},
         to \in {"start", "session"} => worker'[w].run # None,
         data' \in Seq(Conns), \A i \in 1..Len(data') : data'[i] \in accepted,
         data' # <<>> => data # <<>>,
         served' \subseteq accepted,
         count' = IF to = "none" THEN count - 1 ELSE count,
         LET S == {"waiting", "woken"}
         IN  pending' = IF from \notin S /\ to \in S THEN pending + 1
                        ELSE IF from \in S /\ to \notin S THEN pending - 1 ELSE pending,
         running /\ data' # <<>> /\ OnItsWay(w) => OnItsWay(w)'
  PROVE  PoolInv'
<1>1. Types'
  BY DEF PoolInv, Types
<1>2. Counted'
  BY <1>1, MovePool DEF PoolInv, Counted
<1>3. Known'
  BY DEF PoolInv, Known, Moves
<1>4. Exited'
  <2>1. w \in Live
    BY DEF Live, Moves
  <2>2. count # 0
    BY <2>1, SetsFinite, FS_EmptySet DEF PoolInv, Counted
  <2> QED BY <2>2 DEF PoolInv, Exited
<1>5. NoLostWakeup'
  <2> SUFFICES ASSUME running, data' # <<>>
               PROVE  \/ \E v \in Threads : OnItsWay(v)'
                      \/ runner.at = "notify" /\ Sleeping' # {}
    BY DEF NoLostWakeup
  <2>1. \A v \in Threads : OnItsWay(v) => OnItsWay(v)'
    BY DEF OnItsWay, Moves
  <2>2. CASE \E v \in Threads : OnItsWay(v)
    BY <2>1, <2>2
  <2>3. CASE runner.at = "notify" /\ Sleeping # {}
    <3>1. PICK v \in Threads : worker[v].at = "waiting"
      BY <2>3 DEF Sleeping
    <3>2. CASE v = w
      BY <3>1, <3>2 DEF Moves, OnItsWay
    <3>3. CASE v # w
      BY <2>3, <3>1, <3>3 DEF Moves, Sleeping
    <3> QED BY <3>2, <3>3
  <2> QED BY <2>2, <2>3 DEF PoolInv, NoLostWakeup
<1> QED BY <1>1, <1>2, <1>3, <1>4, <1>5 DEF PoolInv

(* The step of a worker when only its place changes. *)
LEMMA GotoMoves ==
  ASSUME Types, NEW w \in Threads, NEW l \in WorkerAt, WorkerGoto(w, l)
  PROVE  /\ worker' \in [Threads -> [at : WorkerAt, run : Conns \cup {None}]]
         /\ worker'[w].run = worker[w].run /\ Moves(w, worker[w].at, l)
<1>1. worker' = [worker EXCEPT ![w].at = l]
  BY DEF WorkerGoto
<1>2. worker'[w] = [worker[w] EXCEPT !.at = l] /\ worker[w] \in [at : WorkerAt, run : Conns \cup {None}]
  BY <1>1 DEF Types
<1>3. worker'[w].run = worker[w].run /\ worker'[w].at = l
  BY <1>2
<1>4. \A v \in Threads \ {w} : worker'[v] = worker[v]
  BY <1>1 DEF Types
<1>5. worker' \in [Threads -> [at : WorkerAt, run : Conns \cup {None}]]
  BY <1>1 DEF Types
<1> QED BY <1>3, <1>4, <1>5 DEF Moves

(* The step of a worker that gets a new place and a new runnable. *)
LEMMA SetMoves ==
  ASSUME Types, NEW w \in Threads, NEW l \in WorkerAt, NEW c \in Conns \cup {None},
         worker' = [worker EXCEPT ![w] = [at |-> l, run |-> c]]
  PROVE  /\ worker' \in [Threads -> [at : WorkerAt, run : Conns \cup {None}]]
         /\ worker'[w].run = c /\ Moves(w, worker[w].at, l)
<1>1. worker'[w] = [at |-> l, run |-> c]
  BY DEF Types
<1>2. \A v \in Threads \ {w} : worker'[v] = worker[v]
  BY DEF Types
<1>3. worker' \in [Threads -> [at : WorkerAt, run : Conns \cup {None}]]
  BY DEF Types
<1> QED BY <1>1, <1>2, <1>3 DEF Moves

LEMMA WorkerKeeps ==
  ASSUME PoolInv, NEW w \in Threads, WorkerStep(w) \/ WaitTimeout(w)
  PROVE  PoolInv'
<1> USE DEF Alive, WorkerAt
<1>11. Types /\ Known
  BY DEF PoolInv
<1>0. /\ worker[w].run \in accepted \cup {None} /\ accepted \subseteq Conns
      /\ worker[w].at \in {"start", "session"} => worker[w].run # None
      /\ data \in Seq(Conns) /\ \A i \in 1..Len(data) : data[i] \in accepted
      /\ served \subseteq accepted
  <2>1. worker[w].run \in accepted \cup {None}
    BY <1>11 DEF Known
  <2>2. worker[w].at \in {"start", "session"} => worker[w].run # None
    BY <1>11 DEF Known
  <2>3. \A i \in 1..Len(data) : data[i] \in accepted
    BY <1>11 DEF Known
  <2>4. accepted \subseteq Conns /\ data \in Seq(Conns) /\ served \subseteq accepted
    BY <1>11 DEF Types
  <2> QED BY <2>1, <2>2, <2>3, <2>4
<1>1. CASE WorkerCheck(w)
  <2> DEFINE l == IF running /\ worker[w].run # None THEN "start" ELSE "exit"
  <2>1. /\ worker' \in [Threads -> [at : WorkerAt, run : Conns \cup {None}]]
        /\ worker'[w].run = worker[w].run /\ Moves(w, "check", l)
    BY <1>1, <1>11, GotoMoves DEF WorkerCheck
  <2>2. running /\ OnItsWay(w) => OnItsWay(w)'
    BY <1>1, <2>1 DEF WorkerCheck, OnItsWay, Moves
  <2>3. l \in {"start", "exit"} /\ (l = "start" => worker[w].run # None)
    OBVIOUS
  <2> HIDE DEF l
  <2> QED BY <1>0, <1>1, <2>1, <2>2, <2>3, StepKeeps DEF WorkerCheck
<1>2. CASE SessionStart(w)
  <2>1. /\ worker' \in [Threads -> [at : WorkerAt, run : Conns \cup {None}]]
        /\ worker'[w].run = worker[w].run /\ Moves(w, "start", "session")
    BY <1>2, <1>11, GotoMoves DEF SessionStart
  <2>2. OnItsWay(w)'
    BY <2>1 DEF OnItsWay, Moves
  <2>3. served' \subseteq accepted
    BY <1>0, <1>2 DEF SessionStart
  <2> QED BY <1>0, <1>2, <2>1, <2>2, <2>3, StepKeeps DEF SessionStart
<1>3. CASE SessionEnd(w)
  <2>1. /\ worker' \in [Threads -> [at : WorkerAt, run : Conns \cup {None}]]
        /\ worker'[w].run = None /\ Moves(w, "session", "pop")
    <3>1. /\ worker' = [worker EXCEPT ![w] = [at |-> "pop", run |-> None]]
          /\ worker[w].at = "session" /\ "pop" \in WorkerAt /\ None \in Conns \cup {None}
      BY <1>3 DEF SessionEnd
    <3>2. /\ worker' \in [Threads -> [at : WorkerAt, run : Conns \cup {None}]]
          /\ worker'[w].run = None /\ Moves(w, worker[w].at, "pop")
      BY <1>11, <3>1, SetMoves
    <3> QED BY <3>1, <3>2
  <2>2. OnItsWay(w)'
    BY <2>1 DEF OnItsWay, Moves
  <2> QED BY <1>0, <1>3, <2>1, <2>2, StepKeeps DEF SessionEnd
<1>4. CASE PopWait(w)
  <2>1. /\ worker' \in [Threads -> [at : WorkerAt, run : Conns \cup {None}]]
        /\ worker'[w].run = worker[w].run /\ Moves(w, "pop", "waiting")
    BY <1>4, <1>11, GotoMoves DEF PopWait
  <2> QED BY <1>0, <1>4, <2>1, StepKeeps DEF PopWait
<1>5. ASSUME data # <<>>, Take(w)
      PROVE  /\ worker' \in [Threads -> [at : WorkerAt, run : Conns \cup {None}]]
             /\ worker'[w].run \in accepted /\ Moves(w, worker[w].at, "check")
             /\ data' \in Seq(Conns) /\ \A i \in 1..Len(data') : data'[i] \in accepted
             /\ OnItsWay(w)'
  <2>1. Head(data) \in accepted
    BY SMTT(60), <1>0, <1>5
  <2>5. /\ data' \in Seq(Conns) /\ Len(data') = Len(data) - 1
        /\ \A i \in 1..Len(data') : data'[i] = data[i + 1]
    BY SMTT(60), <1>0, <1>5 DEF Take
  <2>2. \A i \in 1..Len(data') : data'[i] \in accepted
    <3> SUFFICES ASSUME NEW i \in 1..Len(data') PROVE data'[i] \in accepted
      OBVIOUS
    <3>1. i + 1 \in 1..Len(data)
      BY SMTT(60), <1>0, <2>5
    <3> QED BY <1>0, <2>5, <3>1
  <2>3. /\ worker' \in [Threads -> [at : WorkerAt, run : Conns \cup {None}]]
        /\ worker'[w].run = Head(data) /\ Moves(w, worker[w].at, "check")
    BY <1>0, <1>5, <1>11, <2>1, SetMoves DEF Take
  <2>4. OnItsWay(w)'
    BY <1>0, <2>1, <2>3, PoolAssumption DEF OnItsWay, Moves
  <2> QED BY <2>1, <2>2, <2>3, <2>4, <2>5
<1>6. CASE PopTake(w)
  BY <1>0, <1>5, <1>6, StepKeeps DEF PopTake
<1>7. CASE WaitTimeout(w)
  <2>1. /\ worker' \in [Threads -> [at : WorkerAt, run : Conns \cup {None}]]
        /\ \A v \in Threads : worker'[v].run = worker[v].run
        /\ \A v \in Threads : worker'[v].at = IF v \in {w} THEN "woken" ELSE worker[v].at
    BY SMTT(60), <1>7, <1>11, WakeKeeps DEF WaitTimeout, Sleeping
  <2>2. Moves(w, "waiting", "woken")
    <3>1. \A v \in Threads \ {w} : worker'[v] = worker[v]
      BY <1>7 DEF WaitTimeout, Wake
    <3> QED BY <1>7, <2>1, <3>1 DEF WaitTimeout, Moves
  <2>3. OnItsWay(w)'
    BY <2>1 DEF OnItsWay
  <2> QED BY <1>0, <1>7, <2>1, <2>2, <2>3, StepKeeps DEF WaitTimeout
<1>8. CASE PopWoken(w) /\ data = <<>>
  <2>1. /\ worker' \in [Threads -> [at : WorkerAt, run : Conns \cup {None}]]
        /\ worker'[w].run = worker[w].run /\ Moves(w, "woken", "check")
    BY <1>8, <1>11, GotoMoves DEF PopWoken
  <2> QED BY <1>0, <1>8, <2>1, StepKeeps DEF PopWoken
<1>9. CASE PopWoken(w) /\ data # <<>>
  BY <1>0, <1>5, <1>9, StepKeeps DEF PopWoken
<1>10. CASE WorkerExit(w)
  <2>1. /\ worker' \in [Threads -> [at : WorkerAt, run : Conns \cup {None}]]
        /\ worker'[w].run = None /\ Moves(w, "exit", "none")
    <3>1. /\ worker' = [worker EXCEPT ![w] = [at |-> "none", run |-> None]]
          /\ worker[w].at = "exit" /\ "none" \in WorkerAt /\ None \in Conns \cup {None}
      BY <1>10 DEF WorkerExit, NoWorker
    <3>2. /\ worker' \in [Threads -> [at : WorkerAt, run : Conns \cup {None}]]
          /\ worker'[w].run = None /\ Moves(w, worker[w].at, "none")
      BY <1>11, <3>1, SetMoves
    <3> QED BY <3>1, <3>2
  <2>2. ~OnItsWay(w)
    BY <1>10 DEF WorkerExit, OnItsWay
  <2> QED BY <1>0, <1>10, <2>1, <2>2, StepKeeps DEF WorkerExit
<1> QED BY <1>1, <1>2, <1>3, <1>4, <1>6, <1>7, <1>8, <1>9, <1>10 DEF WorkerStep

LEMMA SpawnKeeps ==
  ASSUME PoolInv, NEW w \in Threads, Spawn(w)
  PROVE  PoolInv'
<1> USE DEF PoolInv, Alive, RunnerGoto
<1>1. runner.conn \in Conns
  BY DEF Spawn, Known
<1>2. /\ worker' \in [Threads -> [at : WorkerAt, run : Conns \cup {None}]]
      /\ worker'[w].run = runner.conn /\ Moves(w, "none", "check")
  <2>1. /\ worker' = [worker EXCEPT ![w] = [at |-> "check", run |-> runner.conn]]
        /\ worker[w].at = "none" /\ "check" \in WorkerAt /\ runner.conn \in Conns \cup {None}
    BY <1>1 DEF Spawn, WorkerAt
  <2>2. /\ worker' \in [Threads -> [at : WorkerAt, run : Conns \cup {None}]]
        /\ worker'[w].run = runner.conn /\ Moves(w, worker[w].at, "check")
    BY <2>1, SetMoves
  <2> QED BY <2>1, <2>2
<1>3. Types'
  <2>1. runner' \in [at : RunnerAt, conn : Conns \cup {None}] /\ runner'.at = "check"
    BY DEF Spawn, RunnerAt
  <2>2. accepted' \subseteq Conns /\ served' \subseteq accepted'
    BY <1>1 DEF Spawn, Types
  <2> QED BY <1>2, <2>1, <2>2 DEF Spawn, Types
<1>4. Known'
  BY <1>2 DEF Spawn, Known, Moves
<1>5. Counted'
  <2>1. Cardinality(Live') = count + 1 /\ Cardinality(Popping') = pending
    BY SMTT(60), <1>2, <1>3, MovePool
  <2> QED BY <2>1 DEF Spawn, Counted
<1>6. Exited'
  BY DEF Spawn, Exited
<1>7. NoLostWakeup'
  <2>1. OnItsWay(w)'
    BY <1>1, <1>2, PoolAssumption DEF OnItsWay, Moves
  <2> QED BY <2>1 DEF NoLostWakeup
<1> QED BY <1>3, <1>4, <1>5, <1>6, <1>7

-----------------------------------------------------------------------------
LEMMA NextInv == PoolInv /\ [PoolNext]_poolVars => PoolInv'
<1> SUFFICES ASSUME PoolInv, [PoolNext]_poolVars PROVE PoolInv'
  OBVIOUS
<1>1. CASE PoolNext
  <2>1. CASE RunnerStep
    BY <2>1, QuietSteps, PushKeeps, NotifyKeeps, SpawnKeeps DEF RunnerStep
  <2>2. ASSUME NEW w \in Threads, WorkerStep(w) \/ WaitTimeout(w)
        PROVE  PoolInv'
    BY <2>2, WorkerKeeps
  <2>3. CASE AcceptFails \/ (\E c \in Conns : Accept(c)) \/ Interrupt \/ Join \/ Deadline
    BY <2>3, QuietSteps
  <2> QED BY <1>1, <2>1, <2>2, <2>3 DEF PoolNext
<1>2. CASE UNCHANGED poolVars
  <2>1. Types' /\ Known' /\ Exited'
    BY <1>2 DEF poolVars, PoolInv, Types, Known, Exited
  <2>2. Counted' /\ NoLostWakeup'
    BY <1>2 DEF poolVars, PoolInv, Counted, Live, Popping, NoLostWakeup, OnItsWay, Sleeping
  <2> QED BY <2>1, <2>2 DEF PoolInv
<1> QED BY <1>1, <1>2

LEMMA Invariant == PoolSpec => []PoolInv
  BY PoolInitInv, NextInv, PTL DEF PoolSpec

(* The variables of the pool have their types, and count and pending are   *)
(* the numbers of threads they stand for.                                  *)
THEOREM PoolTypeCorrect == PoolSpec => []PoolTypeOK
<1>1. PoolInv => PoolTypeOK
  BY TypesAre DEF PoolInv
<1> QED BY Invariant, <1>1, PTL

(* worker_pool.cpp, push: pending may be stale by the time of the          *)
(* notification, and still no queued connection is left to sleepers.       *)
THEOREM NoneStranded == PoolSpec => []NoLostWakeup
<1>1. PoolInv => NoLostWakeup
  BY DEF PoolInv
<1> QED BY Invariant, <1>1, PTL

(* main.cpp, appsec_helper_shutdown: it returns when no worker is left. *)
THEOREM UnloadAlone == PoolSpec => []WorkersGone
<1>1. PoolInv => WorkersGone
  <2> SUFFICES ASSUME PoolInv, shutdown = "returned" PROVE Live = {}
    BY DEF WorkersGone, Live
  <2>1. Cardinality(Live) = 0
    BY DEF PoolInv, Exited, Counted
  <2> QED BY <2>1, SetsFinite, FS_EmptySet
<1> QED BY Invariant, <1>1, PTL

-----------------------------------------------------------------------------
(***************************************************************************)
(* Limiter, for any limit and number of processes: calls of                *)
(* ddtrace_limiter_allow that do not overlap are a leaky bucket, as long   *)
(* as the products of the code fit a machine integer.                      *)
(***************************************************************************)
Full == Limit * Second
Horizon == Start + MaxTicks
MostLeaked == Horizon * Limit

(* No conversion of the code truncates: neither what leaks out since the    *)
(* clock's zero, which the first call of all takes away, nor a full bucket  *)
(* with the hit that filled it and the one that finds it full.              *)
Fits == MostLeaked <= MaxInt /\ Full + Second + Second <= MaxInt

Places == {"idle", "exchange", "load", "total", "drain", "refill", "hit", "undo"}
CallRecord == [at : Places, timeval : Nat, elapsed : Int, clear_counter : Int, previous : Int]
Shape ==
    /\ hit_count \in Int /\ recent_total \in Int
    /\ call \in [Procs -> CallRecord]
    /\ DOMAIN hist = {"calls", "allowed", "overlap", "backwards", "level"}
TimesInOrder ==
    /\ hrtime \in Start..Horizon /\ last_update \in 0..hrtime
    /\ \A p \in Procs : call[p].timeval <= hrtime

Busy(p) == call[p].at # "idle"

(* what is in the bucket at each place of the only call *)
BucketAt(p) ==
    LET c == call[p]
        level == hist.level
    IN  /\ c.at \in {"idle", "exchange", "hit"} => hit_count = level
        /\ c.at = "exchange" => last_update <= c.timeval
        /\ c.at \in {"load", "total", "drain"} =>
             /\ c.clear_counter \in 0..MostLeaked /\ hit_count \in 0..(Full + Second)
             /\ level = IF hit_count > c.clear_counter THEN hit_count - c.clear_counter ELSE 0
        /\ c.at = "refill" =>
             /\ c.clear_counter \in 0..MostLeaked /\ c.previous \in 0..c.clear_counter
             /\ level = 0 /\ hit_count = c.previous - c.clear_counter
        /\ c.at = "undo" => hit_count = level + Second

Bucket ==
    /\ hist.level \in 0..(Full + Second)
    /\ \A p, q \in Procs : Busy(p) /\ Busy(q) => p = q
    /\ AtRest => hit_count = hist.level
    /\ \A p \in Procs : Busy(p) => BucketAt(p)

-----------------------------------------------------------------------------
LEMMA Constants ==
    ASSUME Fits
    PROVE  /\ Full \in Nat /\ Second \in Nat /\ Horizon \in Nat /\ MostLeaked \in Nat /\ Start \in Nat
           /\ MaxInt \in Nat /\ MinInt = -MaxInt - 1 /\ Width = 2 * MaxInt + 2
           /\ Horizon <= MaxInt /\ MostLeaked <= MaxInt /\ Full + Second + Second <= MaxInt
<1>1. /\ Limit \in Nat /\ Limit > 0 /\ Second \in Nat /\ Second > 0 /\ Width \in Nat /\ Width > 0
      /\ Width % 2 = 0 /\ Start \in Nat /\ MaxTicks \in Nat
    BY SMTT(60), LimiterAssumption
<1>2. Full \in Nat /\ Horizon \in Nat /\ MostLeaked \in Nat
    BY SMTT(60), <1>1 DEF Full, Horizon, MostLeaked
<1>3. MaxInt \in Nat /\ MinInt = -MaxInt - 1 /\ Width = 2 * MaxInt + 2
    BY SMTT(60), <1>1 DEF MaxInt, MinInt
<1>4. Horizon <= MostLeaked
    BY SMTT(60), <1>1, <1>2 DEF MostLeaked
<1> QED
    BY SMTT(60), <1>1, <1>2, <1>3, <1>4 DEF Fits

LEMMA WrapFits ==
    ASSUME Fits, NEW n \in Int64
    PROVE  Wrap(n) = n
<1> DEFINE k == n - MinInt
<1>1. /\ MinInt \in Int /\ Width \in Nat /\ Width > 0 /\ n \in Int
      /\ k \in 0..(Width - 1)
    BY SMTT(60), Constants DEF Int64
<1>2. k % Width = k
  <2> HIDE DEF k
  <2> QED
      BY SMTT(60), <1>1
<1> QED
    BY SMTT(60), <1>1, <1>2 DEF Wrap

(* a step of the only call leaves the others idle *)
LEMMA OnlyCall ==
    ASSUME NEW p \in Procs, \A q \in Procs : q # p => ~Busy(q) /\ call'[q] = call[q],
           hist'.level \in 0..(Full + Second), BucketAt(p)'
    PROVE  Bucket'
<1>1. \A q \in Procs : q # p => ~Busy(q)'
    BY DEF Busy
<1>2. AtRest' => hit_count' = hist'.level
    BY DEF AtRest, BucketAt
<1> QED
    BY <1>1, <1>2 DEF Bucket

(* the exchange: what leaked since the last call, and no wrap-around *)
LEMMA ExchangeKeeps ==
    ASSUME Fits, Shape, TimesInOrder, Bucket, NEW p \in Procs, Exchange(p)
    PROVE  Bucket'
<1> DEFINE c == call[p]  passed == c.timeval - last_update  leaked == passed * Limit
<1>0. /\ Busy(p) /\ c.at = "exchange" /\ c.timeval \in 0..Horizon
      /\ hist.level \in 0..(Full + Second) /\ hit_count = hist.level
      /\ passed \in 0..Horizon
    BY SMTT(60), Constants DEF Exchange, Busy, Bucket, BucketAt, Shape, CallRecord, TimesInOrder
<1>1. passed % Width = passed
  <2>1. Width \in Nat /\ Width > 0 /\ passed \in 0..(Width - 1)
      BY SMTT(60), <1>0, Constants
  <2> HIDE DEF passed
  <2> QED
      BY SMTT(60), <2>1
<1>2. leaked \in 0..MostLeaked
  <2>1. Limit \in Nat
      BY LimiterAssumption
  <2> HIDE DEF passed
  <2> QED
      BY SMTT(60), <1>0, <2>1, Constants DEF MostLeaked
<1> HIDE DEF leaked
<1>3. Converted(leaked) = {leaked}
    BY SMTT(60), <1>2, Constants DEF Converted, Int64
<1>4. /\ call' = [call EXCEPT ![p].at = "load", ![p].elapsed = passed, ![p].clear_counter = leaked]
      /\ hist'.level = IF hist.level > leaked THEN hist.level - leaked ELSE 0
      /\ hit_count' = hit_count
  <2> HIDE DEF passed
  <2> QED
      BY <1>1, <1>3 DEF Exchange, Shape, CallRecord, passed, leaked
<1>5. /\ call'[p].at = "load" /\ call'[p].clear_counter = leaked
      /\ \A q \in Procs : q # p => call'[q] = call[q]
    BY <1>4 DEF Shape, CallRecord
<1>6. hist'.level \in 0..(Full + Second)
    BY SMTT(60), <1>0, <1>2, <1>4, Constants
<1>7. BucketAt(p)'
    BY <1>0, <1>2, <1>4, <1>5 DEF BucketAt
<1> QED
    BY <1>0, <1>5, <1>6, <1>7, OnlyCall DEF Bucket

(* the drain, which may take more than there is *)
LEMMA DrainKeeps ==
    ASSUME Fits, Shape, Bucket, NEW p \in Procs, Drain(p)
    PROVE  Bucket'
<1> DEFINE c == call[p]
<1>0. /\ Busy(p) /\ c.at = "drain" /\ c.clear_counter \in 0..MostLeaked
      /\ hit_count \in 0..(Full + Second) /\ hist'.level = hist.level
      /\ hist.level = IF hit_count > c.clear_counter THEN hit_count - c.clear_counter ELSE 0
      /\ hist.level \in 0..(Full + Second)
    BY DEF Drain, Busy, Bucket, BucketAt
<1>1. hit_count - c.clear_counter \in Int64
    BY SMTT(60), <1>0, Constants DEF Int64
<1>2. hit_count' = hit_count - c.clear_counter
    BY <1>1, WrapFits DEF Drain
<1>3. /\ call'[p].at = IF hit_count < c.clear_counter THEN "refill" ELSE "hit"
      /\ call'[p].previous = hit_count /\ call'[p].clear_counter = c.clear_counter
      /\ \A q \in Procs : q # p => call'[q] = call[q]
    BY DEF Drain, Shape, CallRecord
<1>4. BucketAt(p)'
    BY SMTT(60), <1>0, <1>2, <1>3, Constants DEF BucketAt
<1> QED
    BY <1>0, <1>3, <1>4, OnlyCall DEF Bucket

(* the refill gives back exactly what was taken too much *)
LEMMA RefillKeeps ==
    ASSUME Fits, Shape, Bucket, NEW p \in Procs, Refill(p)
    PROVE  Bucket'
<1> DEFINE c == call[p]
<1>0. /\ Busy(p) /\ c.at = "refill" /\ c.clear_counter \in 0..MostLeaked
      /\ c.previous \in 0..c.clear_counter /\ hist'.level = hist.level
      /\ hist.level = 0 /\ hit_count = c.previous - c.clear_counter
      /\ hist.level \in 0..(Full + Second)
    BY DEF Refill, Busy, Bucket, BucketAt
<1>1. c.clear_counter - c.previous \in Int64 /\ 0 \in Int64
    BY SMTT(60), <1>0, Constants DEF Int64
<1>2. Excess(p) = c.clear_counter - c.previous
    BY SMTT(60), <1>0, <1>1, WrapFits, Constants DEF Excess
<1>3. hit_count' = 0
    BY SMTT(60), <1>0, <1>1, <1>2, WrapFits, Constants DEF Refill
<1>4. /\ call'[p].at = "hit" /\ \A q \in Procs : q # p => call'[q] = call[q]
    BY DEF Refill, Shape, CallRecord
<1>5. BucketAt(p)'
    BY <1>0, <1>3, <1>4 DEF BucketAt
<1> QED
    BY <1>0, <1>4, <1>5, OnlyCall DEF Bucket

(* a hit is let in below the limit, and otherwise counted until undone *)
LEMMA HitKeeps ==
    ASSUME Fits, Shape, Bucket, NEW p \in Procs, Hit(p) \/ Undo(p)
    PROVE  Bucket'
<1> DEFINE c == call[p]
<1>0. Busy(p) /\ hist.level \in 0..(Full + Second) /\ BucketAt(p)
    BY DEF Hit, Undo, Busy, Bucket
<1>1. CASE Hit(p)
  <2>1. hit_count = hist.level /\ hit_count + Second \in Int64
      BY SMTT(60), <1>0, <1>1, Constants DEF Hit, BucketAt, Int64
  <2>2. hit_count' = hist.level + Second
      BY <1>1, <2>1, WrapFits DEF Hit
  <2>3. \A q \in Procs : q # p => call'[q] = call[q]
      BY <1>1 DEF Hit, Shape, CallRecord
  <2>4. CASE hit_count >= Full
    <3>1. call'[p].at = "undo" /\ hist' = hist
        BY <1>1, <2>4 DEF Hit, Shape, CallRecord, Full
    <3>2. BucketAt(p)'
        BY <2>2, <3>1 DEF BucketAt
    <3> QED
        BY <1>0, <2>3, <3>1, <3>2, OnlyCall DEF Bucket
  <2>5. CASE ~(hit_count >= Full)
    <3>1. call'[p].at = "idle" /\ hist'.level = hist.level + Second
        BY <1>1, <2>5 DEF Hit, Shape, CallRecord, Full
    <3>2. BucketAt(p)'
        BY <2>2, <3>1 DEF BucketAt
    <3>3. hist'.level \in 0..(Full + Second)
        BY SMTT(60), <1>0, <2>1, <2>5, <3>1, Constants
    <3> QED
        BY <1>0, <2>3, <3>2, <3>3, OnlyCall DEF Bucket
  <2> QED
      BY <2>4, <2>5
<1>2. CASE Undo(p)
  <2>1. hit_count = hist.level + Second /\ hit_count - Second = hist.level /\ hist.level \in Int64
      BY SMTT(60), <1>0, <1>2, Constants DEF Undo, BucketAt, Int64
  <2>2. hit_count' = hist.level /\ hist' = hist
      BY <1>2, <2>1, WrapFits DEF Undo
  <2>3. call'[p].at = "idle" /\ \A q \in Procs : q # p => call'[q] = call[q]
      BY <1>2 DEF Undo, Shape, CallRecord
  <2>4. BucketAt(p)'
      BY <2>2, <2>3 DEF BucketAt
  <2> QED
      BY <1>0, <2>2, <2>3, <2>4, OnlyCall DEF Bucket
<1> QED
    BY <1>1, <1>2

(* a call begins while no other is under way, or hist says so *)
LEMMA AllowKeeps ==
    ASSUME Fits, Shape, TimesInOrder, Bucket, NEW p \in Procs, Allow(p)
    PROVE  hist'.overlap \/ Bucket'
<1> SUFFICES ASSUME ~hist'.overlap PROVE Bucket'
    OBVIOUS
<1>1. hist' = [hist EXCEPT !.calls = hist.calls + 1,
                           !.overlap = hist.overlap \/ ~AtRest]
    BY DEF Allow, AtRest
<1>2. AtRest /\ hist'.level = hist.level
    BY <1>1 DEF Shape, CallRecord
<1>3. /\ call'[p].at = "exchange" /\ call'[p].timeval = hrtime /\ hit_count' = hit_count
      /\ last_update' = last_update /\ \A q \in Procs : q # p => call'[q] = call[q]
    BY SMTT(60) DEF Allow, Shape, CallRecord, window
<1>4. BucketAt(p)'
    BY SMTT(60), <1>2, <1>3 DEF BucketAt, TimesInOrder, Bucket
<1> QED
    BY <1>2, <1>3, <1>4, OnlyCall DEF Bucket, AtRest, Busy

(* steps that only move a call on, to a place where the same holds *)
LEMMA QuietKeeps ==
    ASSUME Shape, Bucket, NEW p \in Procs, LoadTotal(p) \/ AddTotal(p)
    PROVE  Bucket'
<1>0. Busy(p) /\ BucketAt(p) /\ call[p].at \in {"load", "total"}
    BY DEF Bucket, Busy, LoadTotal, AddTotal
<1>1. /\ call'[p].at \in {"total", "drain"} /\ call'[p].clear_counter = call[p].clear_counter
      /\ \A q \in Procs : q # p => call'[q] = call[q]
      /\ hit_count' = hit_count /\ hist' = hist
    BY SMTT(60) DEF LoadTotal, AddTotal, Shape, CallRecord, window
<1>2. BucketAt(p)'
    BY <1>0, <1>1 DEF BucketAt
<1> QED
    BY <1>0, <1>1, <1>2, OnlyCall DEF Bucket

LEMMA BucketNext ==
    ASSUME Fits, Shape, TimesInOrder, Bucket, [LimiterNext]_limiterVars
    PROVE  hist'.overlap \/ Bucket'
<1>1. CASE TimePasses \/ UNCHANGED limiterVars
    BY SMTT(60), <1>1 DEF TimePasses, limiterVars, window, Bucket, BucketAt, Busy, AtRest
<1> QED
    BY <1>1, AllowKeeps, ExchangeKeeps, QuietKeeps, DrainKeeps, RefillKeeps, HitKeeps DEF LimiterNext

(* the fields keep their types *)
LEMMA ShapeNext ==
    ASSUME Shape, TimesInOrder, [LimiterNext]_limiterVars
    PROVE  Shape'
<1>0. /\ Start \in Nat /\ MaxTicks \in Nat /\ Horizon = Start + MaxTicks /\ Limit \in Nat /\ Second \in Nat
      /\ hrtime \in Nat /\ last_update \in Nat /\ Width \in Nat /\ Width > 0 /\ MinInt \in Int /\ MaxInt \in Int
    BY SMTT(60), LimiterAssumption DEF Horizon, TimesInOrder, MinInt, MaxInt
<1>1. \A n \in Int : Wrap(n) \in Int
  <2> SUFFICES ASSUME NEW n \in Int PROVE Wrap(n) \in Int
      OBVIOUS
  <2> DEFINE k == n - MinInt
  <2>1. k \in Int
      BY SMTT(60), <1>0
  <2> HIDE DEF k
  <2>2. k % Width \in Int
      BY SMTT(60), <1>0, <2>1
  <2> QED
      BY SMTT(60), <1>0, <2>2 DEF Wrap, k
<1>2. \A n \in Int : Converted(n) \subseteq Int
    BY <1>0 DEF Converted
<1>3. CASE TimePasses \/ UNCHANGED limiterVars
    BY <1>3 DEF TimePasses, limiterVars, window, Shape, CallRecord
<1>4. ASSUME NEW p \in Procs, Allow(p) PROVE Shape'
  <2> DEFINE r == [call[p] EXCEPT !.at = "exchange", !.timeval = hrtime]
  <2>1. r \in CallRecord
      BY <1>0 DEF Shape, CallRecord, Places
  <2>2. call' = [call EXCEPT ![p] = r]
      BY <1>4 DEF Allow, Shape
  <2> HIDE DEF r
  <2>3. call' \in [Procs -> CallRecord]
      BY <2>1, <2>2 DEF Shape
  <2>4. DOMAIN hist' = DOMAIN hist
      BY <1>4 DEF Allow
  <2> QED
      BY <1>4, <2>3, <2>4 DEF Allow, window, Shape
<1>5. ASSUME NEW p \in Procs, Exchange(p) PROVE Shape'
  <2> DEFINE e == (call[p].timeval - last_update) % Width
  <2>1. call[p].timeval - last_update \in Int
      BY SMTT(60), <1>0 DEF Shape, CallRecord
  <2>2. e \in Int /\ e * Limit \in Int
      BY SMTT(60), <1>0, <2>1
  <2>3. /\ \E c \in Int : call' = [call EXCEPT ![p].at = "load", ![p].elapsed = e, ![p].clear_counter = c]
        /\ DOMAIN hist' = DOMAIN hist /\ UNCHANGED <<hit_count, recent_total>>
      BY <1>2, <1>5, <2>2 DEF Exchange
  <2> HIDE DEF e
  <2>4. PICK c \in Int : call' = [call EXCEPT ![p].at = "load", ![p].elapsed = e, ![p].clear_counter = c]
      BY <2>3
  <2> DEFINE r == [call[p] EXCEPT !.at = "load", !.elapsed = e, !.clear_counter = c]
  <2>5. r \in CallRecord
      BY <2>2 DEF Shape, CallRecord, Places
  <2>6. call' = [call EXCEPT ![p] = r]
      BY <2>4 DEF Shape
  <2> HIDE DEF r
  <2> QED
      BY <2>3, <2>5, <2>6 DEF Shape
<1>6. ASSUME NEW p \in Procs, LoadTotal(p) PROVE Shape'
  <2> DEFINE r == [call[p] EXCEPT !.at = "total", !.previous = recent_total]
  <2>1. r \in CallRecord
      BY <1>0 DEF Shape, CallRecord, Places
  <2>2. call' = [call EXCEPT ![p] = r]
      BY <1>6 DEF LoadTotal, Shape
  <2> HIDE DEF r
  <2>3. call' \in [Procs -> CallRecord]
      BY <2>1, <2>2 DEF Shape
  <2>4. DOMAIN hist' = DOMAIN hist
      BY <1>6 DEF LoadTotal
  <2> QED
      BY <1>6, <2>3, <2>4 DEF LoadTotal, window, Shape
<1>7. ASSUME NEW p \in Procs, AddTotal(p) PROVE Shape'
  <2> DEFINE t == Truncate(call[p].elapsed * call[p].previous, Second)
  <2>1. t \in Int
    <3>1. Second > 0 /\ call[p].elapsed * call[p].previous \in Int
        BY SMTT(60), LimiterAssumption DEF Shape, CallRecord
    <3> QED
        BY SMTT(60), <1>0, <3>1 DEF Truncate
  <2>2. \E d \in Int : recent_total' = Wrap(recent_total + Wrap(Second - d))
      BY <1>2, <1>7, <2>1 DEF AddTotal
  <2>3. recent_total' \in Int
      BY SMTT(60), <1>0, <1>1, <2>2 DEF Shape, CallRecord
  <2> QED
      BY SMTT(60), <1>7, <2>3 DEF AddTotal, Shape, CallRecord, Places
<1>8. ASSUME NEW p \in Procs, Drain(p) PROVE Shape'
  <2>1. hit_count' \in Int
      BY SMTT(60), <1>1, <1>8 DEF Drain, Shape, CallRecord
  <2>2. PICK a \in Places : call' = [call EXCEPT ![p].at = a, ![p].previous = hit_count]
      BY <1>8 DEF Drain, Places
  <2> DEFINE r == [call[p] EXCEPT !.at = a, !.previous = hit_count]
  <2>3. r \in CallRecord
      BY DEF Shape, CallRecord
  <2>4. call' = [call EXCEPT ![p] = r]
      BY <2>2 DEF Shape
  <2> HIDE DEF r
  <2>5. call' \in [Procs -> CallRecord]
      BY <2>3, <2>4 DEF Shape
  <2> QED
      BY <1>8, <2>1, <2>5 DEF Drain, Shape
<1>9. ASSUME NEW p \in Procs, Refill(p) PROVE Shape'
  <2>1. Excess(p) \in Int
      BY SMTT(60), <1>1 DEF Excess, Shape, CallRecord
  <2>2. hit_count' \in Int
      BY SMTT(60), <1>1, <1>9, <2>1 DEF Refill, Shape, CallRecord
  <2> QED
      BY SMTT(60), <1>9, <2>2 DEF Refill, Shape, CallRecord, Places
<1>10. ASSUME NEW p \in Procs, Hit(p) \/ Undo(p) PROVE Shape'
  <2>1. hit_count' \in Int
      BY SMTT(60), <1>0, <1>1, <1>10 DEF Hit, Undo, Shape, CallRecord
  <2>2. DOMAIN hist' = DOMAIN hist
      BY <1>10 DEF Hit, Undo
  <2> QED
      BY SMTT(60), <1>10, <2>1, <2>2 DEF Hit, Undo, Shape, CallRecord, Places
<1> QED
    BY <1>3, <1>4, <1>5, <1>6, <1>7, <1>8, <1>9, <1>10 DEF LimiterNext

(* what is stored as the time of the last call has been read from the clock *)
LEMMA ClocksNext ==
    ASSUME Shape, TimesInOrder, [LimiterNext]_limiterVars
    PROVE  TimesInOrder'
<1>0. Start \in Nat /\ MaxTicks \in Nat /\ Horizon = Start + MaxTicks
    BY LimiterAssumption DEF Horizon
<1>1. CASE TimePasses \/ UNCHANGED limiterVars
    BY SMTT(60), <1>0, <1>1 DEF TimePasses, limiterVars, window, Shape, CallRecord, TimesInOrder
<1>2. ASSUME NEW p \in Procs, Allow(p) PROVE TimesInOrder'
    BY SMTT(60), <1>0, <1>2 DEF Allow, window, Shape, CallRecord, TimesInOrder
<1>3. ASSUME NEW p \in Procs,
             Exchange(p) \/ LoadTotal(p) \/ AddTotal(p) \/ Drain(p) \/ Refill(p) \/ Hit(p) \/ Undo(p)
      PROVE TimesInOrder'
  <2>1. \A q \in Procs : call'[q].timeval = call[q].timeval
      BY SMTT(60), <1>3 DEF Exchange, LoadTotal, AddTotal, Drain, Refill, Hit, Undo, Shape, CallRecord
  <2>2. hrtime' = hrtime /\ last_update' \in {last_update, call[p].timeval}
      BY <1>3 DEF Exchange, Stored, LoadTotal, AddTotal, Drain, Refill, Hit, Undo, window
  <2> QED
      BY SMTT(60), <1>0, <2>1, <2>2 DEF Shape, CallRecord, TimesInOrder
<1> QED
    BY <1>1, <1>2, <1>3 DEF LimiterNext

(* calls that overlapped stay on record *)
LEMMA OverlapStays ==
    ASSUME Shape, hist.overlap, [LimiterNext]_limiterVars
    PROVE  hist'.overlap
<1>1. ASSUME NEW p \in Procs, Allow(p) PROVE hist'.overlap
  <2> DEFINE o == hist.overlap \/ \E q \in Procs : call[q].at # "idle"
  <2>1. o /\ hist' = [hist EXCEPT !.calls = hist.calls + 1, !.overlap = o]
      BY <1>1 DEF Allow
  <2> HIDE DEF o
  <2> QED
      BY <2>1 DEF Shape, CallRecord
<1>2. ASSUME NEW p \in Procs, Exchange(p) PROVE hist'.overlap
  <2> DEFINE b == hist.backwards \/ last_update > call[p].timeval
  <2>1. \E l : hist' = [hist EXCEPT !.backwards = b, !.level = l]
      BY <1>2 DEF Exchange
  <2> HIDE DEF b
  <2> QED
      BY <2>1 DEF Shape, CallRecord
<1>3. ASSUME NEW p \in Procs, LoadTotal(p) \/ AddTotal(p) \/ Drain(p) \/ Refill(p) \/ Hit(p) \/ Undo(p)
      PROVE hist'.overlap
    BY <1>3 DEF LoadTotal, AddTotal, Drain, Refill, Hit, Undo, Shape, CallRecord
<1>4. CASE TimePasses \/ UNCHANGED limiterVars
    BY <1>4 DEF TimePasses, limiterVars
<1> QED
    BY <1>1, <1>2, <1>3, <1>4 DEF LimiterNext

(* AloneIsExact: for any number of processes and any limit, calls that do   *)
(* not overlap behave as a leaky bucket.                                    *)
THEOREM LeakyBucket ==
    ASSUME Fits
    PROVE  LimiterSpec => []AloneIsExact
<1> DEFINE Inv == Shape /\ TimesInOrder /\ (hist.overlap \/ Bucket)
<1>1. LimiterInit => Inv
  <2> SUFFICES ASSUME LimiterInit PROVE Inv
      OBVIOUS
  <2>1. TimesInOrder
      BY SMTT(60), LimiterAssumption, Constants DEF LimiterInit, TimesInOrder, Horizon
  <2>2. Shape
      BY SMTT(60) DEF LimiterInit, Shape, CallRecord, Places
  <2>3. Bucket
      BY SMTT(60), Constants DEF LimiterInit, Bucket, Busy, AtRest
  <2> QED
      BY <2>1, <2>2, <2>3
<1>2. Inv /\ [LimiterNext]_limiterVars => Inv'
    BY ShapeNext, ClocksNext, OverlapStays, BucketNext
<1>3. Inv => AloneIsExact
    BY DEF AloneIsExact, Bucket
<1> QED
    BY <1>1, <1>2, <1>3, PTL DEF LimiterSpec
=============================================================================
