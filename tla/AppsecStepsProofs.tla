-------------------------- MODULE AppsecStepsProofs --------------------------
(***************************************************************************)
(* Every step of AppsecSession keeps its invariant (SessionInv), for any   *)
(* number of requests, connections, commands and replies given up: a reply *)
(* is never taken for another command's, the helper is inside the request  *)
(* the extension is in, and it works with the configuration the extension  *)
(* has recorded.                                                           *)
(***************************************************************************)
EXTENDS AppsecSessionProofs

(* The prover of a leaf that names no other. *)
USE ZenonT(60)

-----------------------------------------------------------------------------
(* Steps of the extension *)

LEMMA InvLater ==
  ASSUME SessionInv, NEW f, NEW h, Inv(f, h), x' = f, hlp' = h, cfg' = cfg, path' \in Paths,
         path' = path \/ f.pc # "client_init"
  PROVE  SessionInv'
<1>1. Typed(x, hlp)'
  BY DEF Inv, Typed
<1>2. Globals(x)'
  BY DEF Inv, Globals, Php
<1>3. Waits(x)'
  BY DEF Inv, Waits, Php, Begun, Cut
<1>5. Session(x, hlp)'
  <2> SUFFICES ASSUME Live(x, hlp)'
               PROVE  (Enables(hlp) /\ Mail(x) /\ Context(x, hlp) /\ Follows(x, hlp))'
    BY DEF Session
  <2>1. Enables(h) /\ Mail(f) /\ Context(f, h) /\ Follows(f, h)
    BY DEF Inv, Session, Live
  <2>2. Enables(hlp)'
    BY <2>1 DEF Enables
  <2>3. Mail(x)'
    BY <2>1 DEF Mail, ReplyName
  <2>4. Context(x, hlp)'
    BY SMTT(60), <2>1 DEF Context, Begun, Php
  <2>5. Follows(x, hlp)'
    BY <2>1 DEF Follows
  <2> QED
    BY <2>2, <2>3, <2>4, <2>5
<1>6. Stream(x, hlp, IF x.pc \in Commands THEN 1 ELSE 0)'
  BY DEF Inv, Stream, Asked, Answered, Half, Cut
<1> QED
  BY <1>1, <1>2, <1>3, <1>5, <1>6 DEF SessionInv, Inv, Config

LEMMA Steps ==
  ASSUME SessionInv, NEW next, Extension(next), path' = path, \A f \in next : Good(f)
  PROVE  SessionInv'
<1>1. x' \in next /\ cfg' = cfg /\ hlp' = Client(x')
  BY DEF Extension, FollowConnection, Client
<1>2. Inv(x', hlp') /\ path' \in Paths
  BY <1>1, Named DEF Good
<1> QED
  BY <1>1, <1>2, InvLater

LEMMA TornReply ==
  ASSUME NEW e, NEW reply, reply.type = "torn", e.pc \in Commands
  PROVE  Features(e, reply) = e /\ Result(e, reply) = "network"
<1>1. Result(e, reply) = "network"
  BY DEF Result, ReplyName, Commands
<1>2. reply.type # "config_features"
  OBVIOUS
<1> QED
  BY <1>1, <1>2 DEF Features

LEMMA ReceiveKeeps == SessionInv /\ Receive => SessionInv'
<1> SUFFICES ASSUME SessionInv, Receive PROVE SessionInv'
  OBVIOUS
<1> DEFINE reply == x.toExt[1]
           e == Read(x)
           g == Features(e, reply)
<1>0. x \in Exts /\ x.pc \in Commands /\ x.toExt # <<>> /\ path' = path
  BY ClientOfX DEF Receive
<1>1. x.toExt \in Seq(Replies)
  BY <1>0 DEF Exts
<1>2. Head(x.toExt) = reply
  BY <1>0, <1>1, TailOf
<1>3. CASE reply.type = "torn"
  <2>1. Cut(x)
    BY <1>0, <1>3 DEF Cut
  <2>2. Extension(Resume(x, "network"))
    <3>1. Features(x, reply) = x /\ Result(x, reply) = "network"
      BY <1>0, <1>3, TornReply
    <3> QED
      BY <1>2, <1>3, <3>1 DEF Receive
  <2> QED
    BY <1>0, <2>1, <2>2, NetworkGood, Steps
<1>4. CASE reply.type # "torn"
  <2>1. ~Cut(x)
    BY <1>4 DEF Cut
  <2>2. Extension(Resume(g, Result(e, reply)))
    BY <1>2, <1>4 DEF Receive, Read
  <2>3. Result(e, reply) = Result(x, reply) /\ Took(g, reply)
    <3> HIDE DEF g, e, reply
    <3>1. reply = x.toExt[1] /\ e = Read(x) /\ g = Features(e, reply)
      BY DEF g, e, reply
    <3> QED
      BY SMTT(60), <1>0, <1>4, <2>1, <3>1, Taken DEF Took
  <2>4. \A f \in Resume(g, Result(x, reply)) : Good(f)
    BY <1>0, <2>3, ReplyGood
  <2> QED
    BY <1>0, <2>2, <2>3, <2>4, Steps
<1> QED
  BY <1>3, <1>4

LEMMA TimedOutKeeps == SessionInv /\ TimedOut => SessionInv'
  BY NetworkGood, Steps DEF TimedOut

(* Where no reply is waited for. *)
LEMMA AtRest ==
  ASSUME SessionInv, x.pc \notin Commands
  PROVE  /\ x \in Exts /\ Ready(x) /\ Globals(x) /\ ~Cut(x) /\ Waits(x)
         /\ In(x, IF x.active /\ x.between THEN x.req ELSE 0)
         /\ x.pc # "out" => Rest(x) \/ x.pc = "rinit"
<1>0. /\ x \in Exts /\ hlp \in Helpers /\ (x.conn # 0 => Client(x) = hlp) /\ x.conn <= x.conns
      /\ Typed(x, hlp) /\ Stream(x, hlp, 0) /\ Globals(x) /\ Waits(x) /\ Session(x, hlp)
  BY Named, ClientOfX DEF Inv
<1>1. ~Cut(x)
  BY <1>0 DEF Waits, Commands
<1>2. x.pc \in {"out", "rinit", "run"}
  BY <1>0 DEF Exts
<1>3. CASE x.conn # 0
  <2>1. Client(x) = hlp
    BY <1>0, <1>3
  <2>2. Ready(x)
    BY <1>0, <2>1 DEF Ready, Session
  <2>3. In(x, IF x.active /\ x.between THEN x.req ELSE 0)
    BY <1>0, <1>2, <2>1 DEF In, Session, Context, Follows
  <2>4. x.pc = "run" => Rest(x)
    BY <1>0, <2>1, <2>2, <2>3 DEF Rest, Session, Context
  <2> QED
    BY <1>0, <1>1, <1>2, <2>2, <2>3, <2>4
<1>4. CASE x.conn = 0
  <2>1. Client(x) = Gone /\ ~Live(x, Gone)
    BY <1>4 DEF Client, Live
  <2>2. Gone \in Helpers /\ Gone.ctx = 0 /\ Gone.phase = "gone" /\ x.req \in Nat
    BY <1>0, SessionAssumption DEF Gone, Helpers, Exts
  <2>3. Typed(x, Gone)
    BY SMTT(60), <1>0, <2>2 DEF Typed
  <2>4. Stream(x, Gone, 0)
    BY <1>0, <1>4, <2>2 DEF Stream
  <2>5. Ready(x)
    BY <1>0, <2>1, <2>3, <2>4 DEF Ready
  <2>6. Rest(x) /\ In(x, IF x.active /\ x.between THEN x.req ELSE 0)
    BY <1>0, <2>1, <2>5 DEF Rest, In
  <2> QED
    BY <1>0, <1>1, <1>2, <2>5, <2>6
<1> QED
  BY <1>3, <1>4

LEMMA AtRun ==
  ASSUME SessionInv, x.pc = "run"
  PROVE  x \in Exts /\ Rest(x) /\ Ready(x) /\ Globals(x) /\ ~Cut(x) /\ x.why = "none"
<1>1. x.pc \notin Commands
  BY DEF Commands
<1> QED
  BY <1>1, AtRest DEF Waits

LEMMA RequestBeginKeeps == SessionInv /\ RequestBegin => SessionInv'
<1> SUFFICES ASSUME SessionInv, RequestBegin PROVE SessionInv'
  BY SMTT(60)
<1> DEFINE next == IF cfg.lifecycle = "php" THEN Begin(x) ELSE {Running(x)}
<1>0. x.pc = "rinit" /\ Extension(next) /\ path' = path
  BY DEF RequestBegin
<1>1. /\ x \in Exts /\ Ready(x) /\ Globals(x) /\ ~Cut(x) /\ Waits(x)
      /\ In(x, IF x.active /\ x.between THEN x.req ELSE 0)
  BY <1>0, AtRest DEF Commands
<1>2. ~x.between /\ ~x.done /\ x.span = 0 /\ x.req < MaxRequests
  BY <1>0, <1>1 DEF Waits
<1>3. In(x, 0)
  BY <1>1, <1>2
<1>4. ASSUME NEW f \in next PROVE Good(f)
  <2>1. CASE Php
    BY <1>1, <1>2, <1>3, <1>4, <2>1, BeginGood DEF Php
  <2>2. CASE ~Php
    <3>1. f = Running(x)
      BY <1>4, <2>2 DEF Php
    <3>2. Rest(x)
      BY <1>1, <1>2, <2>2 DEF Rest, Begun
    <3> QED
      BY <1>1, <3>1, <3>2, RunGood
  <2> QED
    BY <2>1, <2>2
<1> HIDE DEF next
<1> QED
  BY <1>0, <1>4, Steps

LEMMA UserBegun ==
  ASSUME SessionInv, x.pc = "run", cfg.lifecycle = "user"
  PROVE  /\ ~Php /\ x.req \in Nat
         /\ x.span # 0 => In(x, IF x.active /\ ~x.done THEN x.req ELSE 0)
         /\ x.span = 0 => ~x.between /\ ~x.done
         /\ x.span = 0 \/ x.done => In(x, 0)
<1>0. x \in Exts /\ Rest(x) /\ Globals(x) /\ ~Php
  BY AtRun DEF Php
<1>1. x.span # 0 => In(x, IF x.active /\ ~x.done THEN x.req ELSE 0)
  BY <1>0, RestIn DEF Begun
<1>2. x.span = 0 => ~x.between /\ ~x.done
  BY <1>0 DEF Globals
<1>3. x.done => ~x.between
  BY <1>0 DEF Globals
<1>4. In(x, IF x.active /\ x.between THEN x.req ELSE 0)
  BY <1>0 DEF Rest
<1>5. x.span = 0 \/ x.done => In(x, 0)
  BY <1>2, <1>3, <1>4
<1> QED
  BY <1>0, <1>1, <1>2, <1>5 DEF Exts

LEMMA StartUserReqKeeps == SessionInv /\ StartUserReq => SessionInv'
<1> SUFFICES ASSUME SessionInv, StartUserReq PROVE SessionInv'
  BY SMTT(60)
<1> DEFINE n == x.req + 1
           e == Spanned(x, n)
           next == IF x.span # 0 THEN Finish(x, "start") ELSE Begin(e)
<1>0. x.pc = "run" /\ cfg.lifecycle = "user" /\ x.req < MaxRequests /\ Extension(next) /\ path' = path
  BY DEF StartUserReq, Spanned
<1>1. x \in Exts /\ Rest(x) /\ Ready(x) /\ Globals(x) /\ ~Cut(x)
  BY <1>0, AtRun
<1>2. /\ ~Php /\ x.req \in Nat
      /\ x.span # 0 => In(x, IF x.active /\ ~x.done THEN x.req ELSE 0)
      /\ x.span = 0 => ~x.between /\ ~x.done
      /\ x.span = 0 \/ x.done => In(x, 0)
  BY <1>0, UserBegun
<1>3. ASSUME NEW f \in next PROVE Good(f)
  <2>1. CASE x.span # 0
    <3>1. Cause(x, "start")
      BY <1>0, <1>2 DEF Cause
    <3> QED
      BY <1>1, <1>2, <1>3, <2>1, <3>1, FinishGood
  <2>2. CASE x.span = 0
    <3>1. n \in Nat
      BY SMTT(60), <1>2
    <3>2. f \in Begin(e)
      BY <1>3, <2>2
    <3>3. n = x.req + 1
      OBVIOUS
    <3> HIDE DEF n
    <3>4. /\ Ready(e) /\ ~Cut(e) /\ ~e.between /\ ~e.done /\ e.span = n /\ e.req = x.req /\ In(e, 0)
      BY SMTT(60), <1>1, <1>2, <2>2, <3>1, SpannedReady
    <3> HIDE DEF e
    <3>5. e.span = (IF Php THEN 0 ELSE e.req + 1) /\ e.req < MaxRequests
      BY <1>0, <1>2, <3>3, <3>4
    <3> QED
      BY <3>2, <3>4, <3>5, BeginGood
  <2> QED
    BY <2>1, <2>2
<1> HIDE DEF next
<1> QED
  BY <1>0, <1>3, Steps

LEMMA ResponseCommitKeeps == SessionInv /\ ResponseCommit => SessionInv'
<1> SUFFICES ASSUME SessionInv, ResponseCommit PROVE SessionInv'
  BY SMTT(60)
<1>0. x.pc = "run" /\ cfg.lifecycle = "user" /\ x.span # 0 /\ Extension(Finish(x, "commit")) /\ path' = path
  BY DEF ResponseCommit
<1>1. x \in Exts /\ Rest(x) /\ Ready(x) /\ Globals(x) /\ ~Cut(x)
  BY <1>0, AtRun
<1>2. ~Php /\ In(x, IF x.active /\ ~x.done THEN x.req ELSE 0)
  BY <1>0, UserBegun
<1>3. Cause(x, "commit")
  BY <1>0, <1>2 DEF Cause
<1>4. \A f \in Finish(x, "commit") : Good(f)
  BY <1>1, <1>2, <1>3, FinishGood
<1> QED
  BY <1>0, <1>4, Steps

LEMMA RunStays ==
  ASSUME NEW e \in Exts, e.pc = "run", e.why = "none"
  PROVE  Running(e) = e
  BY DEF Running, Exts

LEMMA FinishUserReqKeeps ==
  ASSUME NEW own \in BOOLEAN
  PROVE  SessionInv /\ FinishUserReq(own) => SessionInv'
<1> SUFFICES ASSUME SessionInv, FinishUserReq(own) PROVE SessionInv'
  OBVIOUS
<1> DEFINE e == ResetGlobals(x)
           next == IF x.done \/ x.span = 0 THEN {e} ELSE Finish(IF own THEN x ELSE e, "finish")
<1>0. x.pc = "run" /\ cfg.lifecycle = "user" /\ Extension(next) /\ path' = path
  BY DEF FinishUserReq
<1>1. x \in Exts /\ Rest(x) /\ Ready(x) /\ Globals(x) /\ ~Cut(x) /\ x.why = "none"
  BY <1>0, AtRun
<1>2. /\ ~Php /\ x.req \in Nat
      /\ x.span # 0 => In(x, IF x.active /\ ~x.done THEN x.req ELSE 0)
      /\ x.span = 0 \/ x.done => In(x, 0)
  BY <1>0, UserBegun
<1>3. /\ Ready(e) /\ Globals(e) /\ ~Cut(e) /\ ~e.between /\ ~e.done /\ e.span = 0
      /\ \A n : In(x, n) => In(e, n)
  BY <1>1, ResetReady
<1>4. e \in Exts /\ e.pc = x.pc /\ e.why = x.why /\ (e.active <=> x.active) /\ e.req = x.req
  BY <1>1, ResetFields
<1>5. Cause(x, "finish") /\ Cause(e, "finish")
  BY <1>2 DEF Cause
<1>6. ASSUME NEW f \in next PROVE Good(f)
  <2>1. CASE x.done \/ x.span = 0
    <3>1. f = e
      BY <1>6, <2>1
    <3> HIDE DEF e
    <3>2. Running(e) = e
      BY <1>0, <1>1, <1>4, RunStays
    <3>3. Rest(e)
      BY <1>2, <1>3, <2>1 DEF Rest, Begun
    <3>4. Good(Running(e))
      BY <1>3, <3>3, RunGood
    <3> QED
      BY <3>1, <3>2, <3>4
  <2>2. CASE ~(x.done \/ x.span = 0) /\ own
    <3>1. f \in Finish(x, "finish")
      BY <1>6, <2>2
    <3> QED
      BY <1>1, <1>2, <1>5, <2>2, <3>1, FinishGood
  <2>3. CASE ~(x.done \/ x.span = 0) /\ ~own
    <3>1. f \in Finish(e, "finish")
      BY <1>6, <2>3
    <3> HIDE DEF e
    <3>2. In(e, IF x.active /\ ~x.done THEN x.req ELSE 0)
      BY <1>2, <1>3, <2>3
    <3>3. In(e, IF e.active /\ ~e.done THEN e.req ELSE 0)
      BY <1>3, <1>4, <2>3, <3>2
    <3> QED
      BY <1>3, <1>5, <3>1, <3>3, FinishGood
  <2> QED
    BY <2>1, <2>2, <2>3
<1> HIDE DEF next
<1> QED
  BY <1>0, <1>6, Steps

Counted(e) == [e EXCEPT !.execs = @ + 1]

LEMMA CountedFields ==
  ASSUME NEW e \in Exts, NEW f, f = Counted(e)
  PROVE  /\ f \in Exts
         /\ f.active = e.active /\ f.between = e.between /\ f.done = e.done /\ f.span = e.span
         /\ f.last = e.last /\ f.conn = e.conn /\ f.conns = e.conns /\ f.toHelper = e.toHelper
         /\ f.toExt = e.toExt /\ f.req = e.req /\ f.late = e.late
<1> DEFINE n == e.execs + 1
<1>1. n \in Nat
  BY SMTT(60) DEF Exts
<1>2. f = [e EXCEPT !.execs = n]
  BY DEF Counted
<1> HIDE DEF n
<1> QED
  BY <1>1, <1>2 DEF Exts

LEMMA RequestExecKeeps ==
  ASSUME NEW why \in {"push", "user"}
  PROVE  SessionInv /\ RequestExec(why) => SessionInv'
<1> SUFFICES ASSUME SessionInv, RequestExec(why) PROVE SessionInv'
  OBVIOUS
<1> DEFINE e == Counted(x)
           f == Ask(e, "request_exec", why)
           h == Client(e)
<1>0. /\ x.pc = "run" /\ x.between /\ x.active /\ x.conn # 0 /\ (why = "push" => x.late < MaxLate)
      /\ Extension({f}) /\ path' = path
  BY DEF RequestExec, Counted
<1>1. x \in Exts /\ Rest(x) /\ Ready(x) /\ Globals(x) /\ ~Cut(x)
  BY <1>0, AtRun
<1>2. /\ e \in Exts
      /\ e.active = x.active /\ e.between = x.between /\ e.done = x.done /\ e.span = x.span
      /\ e.last = x.last /\ e.conn = x.conn /\ e.conns = x.conns /\ e.toHelper = x.toHelper
      /\ e.toExt = x.toExt /\ e.req = x.req /\ e.late = x.late
  BY <1>1, CountedFields
<1> HIDE DEF e
<1>3. x.req \in Nat /\ x.req <= MaxRequests
  BY <1>1 DEF Ready, Typed, Exts
<1>4. Ready(e) /\ h = Client(x) /\ ~Cut(e) /\ (Live(e, h) <=> Live(x, h))
  BY SMTT(60), <1>1, <1>2, <1>3, ReadyFrame
<1>5. "request_exec" \in Commands /\ why \in Whys /\ e.conn # 0
  BY <1>0, <1>2 DEF Commands, Whys
<1>6. /\ Typed(f, h) /\ Client(f) = h /\ Stream(f, h, 1) /\ ~Cut(f)
      /\ Live(f, h) <=> Live(e, h)
      /\ Live(f, h) => Mail(f) /\ f.toHelper # <<>>
  BY SMTT(60), <1>4, <1>5, AskSends DEF Ready
<1>7. /\ f.pc = "request_exec" /\ f.between = e.between /\ f.done = e.done /\ f.span = e.span
      /\ f.conn = e.conn /\ f.req = e.req /\ f.active = e.active /\ f.last = e.last /\ f.why = why
      /\ f.late = e.late
  BY SMTT(60), <1>2, <1>5, AskFields
<1> HIDE DEF f
<1>8. f.active /\ f.between
  BY <1>0, <1>2, <1>7
<1>9. Globals(f)
  BY SMTT(60), <1>1, <1>2, <1>7 DEF Globals
<1>10. Waits(f)
  BY SMTT(60), <1>0, <1>2, <1>5, <1>6, <1>7, <1>8 DEF Waits
<1>11. ASSUME Live(f, h) PROVE Context(f, h) /\ Follows(f, h)
  <2>1. h.ctx = x.req /\ (~cfg.emptyEnv => h.path = x.last)
    BY SMTT(60), <1>0, <1>1, <1>4, <1>6, <1>11 DEF Rest, In
  <2> QED
    BY <1>2, <1>7, <2>1 DEF Context, Follows
<1>12. Good(f)
  BY SMTT(60), <1>4, <1>5, <1>6, <1>7, <1>9, <1>10, <1>11 DEF Good, Inv, Session, Ready
<1> QED
  BY <1>0, <1>12, Steps

LEMMA RequestEndKeeps == SessionInv /\ RequestEnd => SessionInv'
  BY AtRun, RshutdownGood, Steps DEF RequestEnd

(* The first reply has been read in part. *)
Torn1(e) == [e EXCEPT !.toExt[1].type = "torn"]

LEMMA TornFields ==
  ASSUME NEW e \in Exts, e.toExt # <<>>, NEW f, f = Torn1(e)
  PROVE  /\ f \in Exts /\ Cut(f) /\ Len(f.toExt) = Len(e.toExt)
         /\ \A i \in 2..Len(f.toExt) : f.toExt[i] = e.toExt[i]
         /\ f.active = e.active /\ f.between = e.between /\ f.done = e.done /\ f.span = e.span
         /\ f.last = e.last /\ f.conn = e.conn /\ f.conns = e.conns /\ f.toHelper = e.toHelper
         /\ f.req = e.req /\ f.late = e.late
<1> DEFINE r == [e.toExt[1] EXCEPT !.type = "torn"]
           s == [e.toExt EXCEPT ![1] = r]
<1>0. e.toExt \in Seq(Replies)
  BY DEF Exts
<1>1. e.toExt[1] \in Replies
  BY <1>0, TailOf
<1>2. r \in Replies /\ r.type = "torn"
  BY <1>1 DEF Replies
<1>3. f = [e EXCEPT !.toExt = s]
  BY DEF Torn1
<1> HIDE DEF r
<1>4. /\ s \in Seq(Replies) /\ Len(s) = Len(e.toExt) /\ s # <<>> /\ s[1] = r
      /\ \A i \in 2..Len(s) : s[i] = e.toExt[i]
  BY SMTT(60), <1>0, <1>2
<1> HIDE DEF s
<1>5. /\ f \in Exts /\ f.toExt = s
      /\ f.active = e.active /\ f.between = e.between /\ f.done = e.done /\ f.span = e.span
      /\ f.last = e.last /\ f.conn = e.conn /\ f.conns = e.conns /\ f.toHelper = e.toHelper
      /\ f.req = e.req /\ f.late = e.late
  BY <1>3, <1>4 DEF Exts
<1> QED
  BY <1>2, <1>4, <1>5 DEF Cut

LEMMA MemoryLimitKeeps == SessionInv /\ MemoryLimit => SessionInv'
<1> SUFFICES ASSUME SessionInv, MemoryLimit PROVE SessionInv'
  BY SMTT(60)
<1> DEFINE e == Torn1(x)
<1>0. x.pc = "request_exec" /\ x.toExt # <<>> /\ x.toExt[1].type # "torn" /\ Extension(Rshutdown(e)) /\ path' = path
  BY DEF MemoryLimit, Torn1
<1>1. /\ x \in Exts /\ hlp \in Helpers /\ x.conn # 0 /\ Client(x) = hlp /\ x.conn <= x.conns
      /\ Typed(x, hlp) /\ Stream(x, hlp, 1) /\ Globals(x) /\ Session(x, hlp)
      /\ x.active /\ x.between /\ x.late \in Nat
  BY <1>0, Named, ClientOfX DEF Inv, Waits, Commands, Exts
<1>2. /\ e \in Exts /\ Cut(e) /\ Len(e.toExt) = Len(x.toExt)
      /\ \A i \in 2..Len(e.toExt) : e.toExt[i] = x.toExt[i]
      /\ e.active = x.active /\ e.between = x.between /\ e.done = x.done /\ e.span = x.span
      /\ e.last = x.last /\ e.conn = x.conn /\ e.conns = x.conns /\ e.toHelper = x.toHelper
      /\ e.req = x.req /\ e.late = x.late
  BY <1>0, <1>1, TornFields
<1> HIDE DEF e
<1>3. e.active /\ e.between
  BY <1>1, <1>2
<1>4. /\ Client(e) = hlp /\ (Live(e, hlp) <=> Live(x, hlp)) /\ Half(e) = 1 /\ Half(x) = 0
      /\ Asked(e) = Asked(x) /\ Answered(e) = Answered(x)
  BY <1>0, <1>1, <1>2 DEF Client, Live, Half, Cut, Asked, Answered
<1>5. Typed(e, hlp)
  BY <1>1, <1>2 DEF Typed
<1>6. Stream(e, hlp, 0)
  <2>1. Asked(x) + Answered(x) <= x.late + 1 + Half(x)
    BY <1>1 DEF Stream
  <2>2. Asked(e) + Answered(e) <= e.late + 0 + Half(e)
    BY SMTT(60), <1>1, <1>2, <1>4, <2>1
  <2> QED
    BY SMTT(60), <1>1, <1>2, <1>4, <2>2 DEF Stream
<1>7. Globals(e) /\ Begun(e)
  BY <1>1, <1>2 DEF Globals, Begun
<1>8. Ready(e)
  BY <1>1, <1>2, <1>4, <1>5, <1>6 DEF Ready, Session
<1>9. Rest(e)
  <2>1. Live(e, hlp) => hlp.ctx = e.req /\ (~cfg.emptyEnv => hlp.path = e.last)
    BY <1>0, <1>1, <1>2, <1>4 DEF Session, Context, Follows
  <2> QED
    BY <1>3, <1>4, <1>7, <1>8, <2>1 DEF Rest, In
<1>10. \A f \in Rshutdown(e) : Good(f)
  BY <1>1, <1>2, <1>3, <1>7, <1>9, RshutdownGood
<1> QED
  BY <1>0, <1>10, Steps

LEMMA BailoutAtShutdownKeeps == SessionInv /\ BailoutAtShutdown => SessionInv'
<1> SUFFICES ASSUME SessionInv, BailoutAtShutdown PROVE SessionInv'
  BY SMTT(60)
<1> DEFINE e == ResetGlobals(x)
           g == Close(e)
<1>0. Extension({Place(g, "out")}) /\ path' = path
  BY DEF BailoutAtShutdown, Place
<1>1. x \in Exts /\ Typed(x, hlp) /\ x.conn <= x.conns
  BY Named, ClientOfX DEF Inv
<1>2. /\ e \in Exts /\ ~e.between /\ ~e.done /\ e.span = 0
      /\ e.conn = x.conn /\ e.conns = x.conns /\ e.toHelper = x.toHelper
      /\ e.toExt = x.toExt /\ e.req = x.req /\ e.late = x.late
  BY <1>1, ResetFields
<1> HIDE DEF e
<1>3. Typed(e, hlp)
  BY <1>1, <1>2 DEF Typed
<1>4. Ready(g) /\ ~Cut(g) /\ In(g, 0)
  BY <1>1, <1>2, <1>3, CloseReady
<1>5. ~g.between /\ ~g.done /\ g.span = 0
  BY SMTT(60), <1>2, CloseFields
<1> HIDE DEF g
<1>6. Globals(g)
  BY <1>5 DEF Globals
<1>7. Good(Place(g, "out"))
  BY <1>4, <1>5, <1>6, OutGood
<1> QED
  BY <1>0, <1>7, Steps

LEMMA RinitFields ==
  ASSUME NEW e \in Exts, NEW f, f = [e EXCEPT !.pc = "rinit"]
  PROVE  /\ f \in Exts /\ f.pc = "rinit" /\ f.why = e.why
         /\ f.active = e.active /\ f.between = e.between /\ f.done = e.done /\ f.span = e.span
         /\ f.last = e.last /\ f.conn = e.conn /\ f.conns = e.conns /\ f.toHelper = e.toHelper
         /\ f.toExt = e.toExt /\ f.req = e.req /\ f.late = e.late
  BY DEF Exts

LEMMA RinitKeeps ==
  ASSUME NEW p \in Paths
  PROVE  SessionInv /\ Rinit(p) => SessionInv'
<1> SUFFICES ASSUME SessionInv, Rinit(p) PROVE SessionInv'
  OBVIOUS
<1> DEFINE f == [x EXCEPT !.pc = "rinit"]
<1>0. x.pc = "out" /\ x.req < MaxRequests /\ x' = f /\ hlp' = hlp /\ cfg' = cfg /\ path' = p
  BY DEF Rinit
<1>1. x.pc \notin Commands /\ "rinit" \notin Commands
  BY <1>0 DEF Commands
<1>2. x \in Exts /\ Typed(x, hlp) /\ Globals(x) /\ Waits(x) /\ Session(x, hlp) /\ Stream(x, hlp, 0) /\ ~Cut(x)
  BY <1>1, Named, AtRest DEF Inv
<1>3. /\ f \in Exts /\ f.pc = "rinit" /\ f.why = x.why
      /\ f.active = x.active /\ f.between = x.between /\ f.done = x.done /\ f.span = x.span
      /\ f.last = x.last /\ f.conn = x.conn /\ f.conns = x.conns /\ f.toHelper = x.toHelper
      /\ f.toExt = x.toExt /\ f.req = x.req /\ f.late = x.late
  BY <1>2, RinitFields
<1> HIDE DEF f
<1>4. ~Cut(f) /\ Half(f) = Half(x) /\ Asked(f) = Asked(x) /\ Answered(f) = Answered(x)
      /\ (Live(f, hlp) <=> Live(x, hlp))
  BY <1>2, <1>3 DEF Cut, Half, Asked, Answered, Live
<1>5. Typed(f, hlp) /\ Globals(f) /\ Stream(f, hlp, 0)
  BY <1>2, <1>3, <1>4 DEF Typed, Globals, Stream
<1>6. Waits(f)
  BY <1>0, <1>1, <1>2, <1>3, <1>4 DEF Waits
<1>7. ASSUME Live(f, hlp) PROVE Enables(hlp) /\ Mail(f) /\ Context(f, hlp) /\ Follows(f, hlp)
  <2>1. f.toHelper = <<>> /\ f.toExt = <<>>
    BY <1>4, <1>5, <1>7, Quiet
  <2>2. Enables(hlp) /\ Context(x, hlp) /\ Follows(x, hlp)
    BY <1>2, <1>4, <1>7 DEF Session
  <2>3. Mail(f)
    BY <2>1 DEF Mail
  <2>4. Context(f, hlp)
    BY <1>0, <1>3, <2>1, <2>2 DEF Context
  <2>5. Follows(f, hlp)
    BY <1>0, <1>3, <2>2 DEF Follows
  <2> QED
    BY <2>2, <2>3, <2>4, <2>5
<1>8. Inv(f, hlp)
  BY <1>1, <1>3, <1>5, <1>6, <1>7 DEF Inv, Session
<1> QED
  BY <1>0, <1>3, <1>8, InvLater

LEMMA ChangePathKeeps ==
  ASSUME NEW p \in Paths
  PROVE  SessionInv /\ ChangePath(p) => SessionInv'
  BY Named, InvLater DEF ChangePath

-----------------------------------------------------------------------------
(* Steps of the helper *)

Answers(e, gone, replies) ==
    [e EXCEPT !.toHelper = IF gone THEN <<>> ELSE Tail(@), !.toExt = @ \o replies]

LEMMA AnswersFields ==
  ASSUME NEW e \in Exts, e.toHelper # <<>>, NEW gone \in BOOLEAN, NEW replies \in Seq(Replies),
         NEW f, f = Answers(e, gone, replies)
  PROVE  /\ f \in Exts /\ f.toHelper = (IF gone THEN <<>> ELSE Tail(e.toHelper))
         /\ f.toExt = e.toExt \o replies
         /\ f.pc = e.pc /\ f.why = e.why
         /\ f.active = e.active /\ f.between = e.between /\ f.done = e.done /\ f.span = e.span
         /\ f.last = e.last /\ f.conn = e.conn /\ f.conns = e.conns
         /\ f.req = e.req /\ f.late = e.late
<1> DEFINE m == IF gone THEN <<>> ELSE Tail(e.toHelper)
           s == e.toExt \o replies
<1>1. m \in Seq(Messages) /\ s \in Seq(Replies)
  <2>1. e.toHelper \in Seq(Messages) /\ e.toExt \in Seq(Replies)
    BY DEF Exts
  <2>2. Tail(e.toHelper) \in Seq(Messages) /\ <<>> \in Seq(Messages)
    BY SMTT(60), <2>1, TailOf
  <2> QED
    BY SMTT(60), <2>1, <2>2
<1>2. f = [e EXCEPT !.toHelper = m, !.toExt = s]
  BY DEF Answers
<1> HIDE DEF m, s
<1>3. /\ f \in Exts /\ f.toHelper = m /\ f.toExt = s
      /\ f.pc = e.pc /\ f.why = e.why
      /\ f.active = e.active /\ f.between = e.between /\ f.done = e.done /\ f.span = e.span
      /\ f.last = e.last /\ f.conn = e.conn /\ f.conns = e.conns
      /\ f.req = e.req /\ f.late = e.late
  BY <1>1, <1>2 DEF Exts
<1> QED
  BY <1>3 DEF m, s

(* At most one reply, and a whole one. *)
Single(replies) == replies = <<>> \/ \E r \in Replies : r.type # "torn" /\ replies = <<r>>

LEMMA SingleConcat ==
  ASSUME NEW s \in Seq(Replies), NEW replies, Single(replies)
  PROVE  /\ replies \in Seq(Replies) /\ s \o replies \in Seq(Replies)
         /\ Len(s \o replies) <= Len(s) + 1 /\ Len(s) \in Nat /\ Len(s \o replies) \in Nat
         /\ \A i \in 1..Len(s \o replies) :
              \/ i \in 1..Len(s) /\ (s \o replies)[i] = s[i]
              \/ i = Len(s) + 1 /\ (s \o replies)[i].type # "torn"
         /\ s # <<>> => s \o replies # <<>> /\ (s \o replies)[1] = s[1]
         /\ s = <<>> => s \o replies = replies
<1>1. CASE replies = <<>>
  BY SMTT(60), <1>1
<1>2. ASSUME NEW r \in Replies, r.type # "torn", replies = <<r>>
      PROVE  /\ replies \in Seq(Replies) /\ s \o replies \in Seq(Replies)
             /\ Len(s \o replies) = Len(s) + 1 /\ Len(s) \in Nat
             /\ \A i \in 1..Len(s) : (s \o replies)[i] = s[i]
             /\ (s \o replies)[Len(s) + 1] = r
             /\ s = <<>> => s \o replies = replies
  <2>1. s \o replies = Append(s, r) /\ replies \in Seq(Replies)
    BY SMTT(60), <1>2
  <2>2. s = <<>> => s \o replies = replies
    BY SMTT(60), <1>2
  <2> QED
    BY SMTT(60), <1>2, <2>1, <2>2
<1> QED
  BY SMTT(60), <1>1, <1>2 DEF Single

(* What a helper that stays has to be like once it has answered with the reply. *)
Settled(next, reply) ==
    /\ next.phase # "gone" /\ Enables(next)
    /\ x.pc \in {"client_init", "config_sync", "request_shutdown", "end_sync"} => next.ctx = 0
    /\ x.pc = "config_sync" =>
         reply.type = "config_features" \/ (reply.type = "config_sync" /\ reply.verdict = "ok")
    /\ x.pc = "request_init" =>
         \/ reply.type = "request_init" /\ reply.verdict \in Verdicts /\ next.ctx = x.req
         \/ reply.type = "config_features" /\ ~reply.on /\ ~cfg.fully /\ next.ctx = 0
    /\ x.pc = "request_exec" => next.ctx = x.req
    /\ ~cfg.emptyEnv => next.path = IF x.pc = "client_init" THEN path ELSE x.last

(* A message is under way on a connection in step: the command waited for. *)
LEMMA MailIs ==
  ASSUME SessionInv, Live(x, hlp), x.toHelper # <<>>
  PROVE  /\ x.pc \in Commands /\ x.toHelper[1].name = ReplyName(x)
         /\ Asked(x) = 1 /\ (~Cut(x) => x.toExt = <<>>)
         /\ x.toHelper[1].req = x.req /\ x.toHelper[1].again = x.done
         /\ x.toHelper[1].path = (IF x.pc = "client_init" THEN path ELSE x.last)
         /\ Context(x, hlp) /\ Follows(x, hlp) /\ Enables(hlp) /\ Waits(x)
<1> DEFINE n == IF x.pc \in Commands THEN 1 ELSE 0
<1>0. x \in Exts /\ Stream(x, hlp, n) /\ Session(x, hlp) /\ Waits(x)
  BY Named, ClientOfX DEF Inv
<1>1. Mail(x) /\ Context(x, hlp) /\ Follows(x, hlp) /\ Enables(hlp) /\ x.late = 0
  BY <1>0 DEF Session, Live
<1>2. x.toHelper \in Seq(Messages) /\ x.toExt \in Seq(Replies)
  BY <1>0 DEF Exts
<1>3. x.toHelper[1] \in Messages
  BY <1>2, TailOf
<1>4. x.pc \in Commands
  BY <1>0, <1>1, <1>3 DEF Mail, ReplyName, Messages, Commands, Exts
<1>5. Asked(x) \in Nat /\ Answered(x) \in Nat /\ Asked(x) >= 1 /\ (Answered(x) = 0 => x.toExt = <<>>)
      /\ (Cut(x) => Answered(x) >= 1)
  BY SMTT(60), <1>2 DEF Asked, Answered, Cut
<1>6. Asked(x) + Answered(x) <= 0 + 1 + Half(x)
  BY <1>0, <1>1, <1>4 DEF Stream
<1>7. Asked(x) = 1 /\ (~Cut(x) => x.toExt = <<>>)
  BY SMTT(60), <1>5, <1>6 DEF Half
<1> QED
  BY <1>0, <1>1, <1>4, <1>7 DEF Mail

LEMMA SettledContext ==
  ASSUME NEW f, NEW next, NEW reply, Settled(next, reply), x.pc \in Commands,
         f.toHelper = <<>>, f.pc = x.pc, f.req = x.req,
         x.pc # "request_shutdown" => f.toExt[1] = reply
  PROVE  Context(f, next)
<1>1. f.pc \notin {"out", "rinit", "run"}
  BY DEF Commands
<1>2. f.pc \in {"client_init", "config_sync", "request_shutdown", "end_sync"} => next.ctx = 0
  BY DEF Settled
<1>3. f.pc = "config_sync" =>
        f.toExt[1].type = "config_features" \/ (f.toExt[1].type = "config_sync" /\ f.toExt[1].verdict = "ok")
  BY DEF Settled
<1>4. f.pc = "request_init" =>
        \/ f.toExt[1].type = "request_init" /\ f.toExt[1].verdict \in Verdicts /\ next.ctx = f.req
        \/ f.toExt[1].type = "config_features" /\ ~f.toExt[1].on /\ ~cfg.fully /\ next.ctx = 0
  BY DEF Settled
<1>5. f.pc = "request_exec" => next.ctx = f.req
  BY DEF Settled
<1> QED
  BY <1>1, <1>2, <1>3, <1>4, <1>5 DEF Context

LEMMA AnswerKeeps ==
  ASSUME SessionInv, x.conn # 0, hlp.phase # "gone", x.toHelper # <<>>,
         NEW next \in Helpers, next.ctx <= x.req, NEW replies, Single(replies),
         next = Gone \/ (Live(x, hlp) => replies # <<>> /\ Settled(next, replies[1])),
         next.phase = "gone" => next = Gone,
         Answer(next, replies)
  PROVE  SessionInv'
<1> DEFINE gone == next = Gone
           f == Answers(x, gone, replies)
           n == IF x.pc \in Commands THEN 1 ELSE 0
<1>0. x' = f /\ hlp' = next /\ cfg' = cfg /\ path' = path /\ path' \in Paths
  BY Named DEF Answer, Answers
<1>1. /\ x \in Exts /\ Typed(x, hlp) /\ Globals(x) /\ Waits(x) /\ Session(x, hlp) /\ Stream(x, hlp, n)
      /\ x.toHelper \in Seq(Messages) /\ x.toExt \in Seq(Replies) /\ x.late \in Nat /\ n \in Nat
  BY Named, ClientOfX DEF Inv, Exts
<1>2. gone \in BOOLEAN
  OBVIOUS
<1>3. (gone <=> next = Gone)
  OBVIOUS
<1> HIDE DEF gone, n
<1>4. replies \in Seq(Replies)
  BY <1>1, SingleConcat
<1>5. /\ f \in Exts /\ f.toHelper = (IF gone THEN <<>> ELSE Tail(x.toHelper))
      /\ f.toExt = x.toExt \o replies
      /\ f.pc = x.pc /\ f.why = x.why
      /\ f.active = x.active /\ f.between = x.between /\ f.done = x.done /\ f.span = x.span
      /\ f.last = x.last /\ f.conn = x.conn /\ f.conns = x.conns
      /\ f.req = x.req /\ f.late = x.late
  BY SMTT(60), <1>1, <1>2, <1>4, AnswersFields
<1> HIDE DEF f
<1>6. /\ Len(f.toExt) <= Len(x.toExt) + 1 /\ Len(x.toExt) \in Nat /\ Len(f.toExt) \in Nat
      /\ \A i \in 1..Len(f.toExt) : \/ i \in 1..Len(x.toExt) /\ f.toExt[i] = x.toExt[i]
                                    \/ i = Len(x.toExt) + 1 /\ f.toExt[i].type # "torn"
      /\ x.toExt # <<>> => f.toExt # <<>> /\ f.toExt[1] = x.toExt[1]
      /\ x.toExt = <<>> => f.toExt = replies
  BY SMTT(60), <1>1, <1>5, SingleConcat
<1>7. /\ Len(Tail(x.toHelper)) = Len(x.toHelper) - 1 /\ Len(x.toHelper) \in Nat /\ Len(x.toHelper) >= 1
      /\ \A i \in 1..Len(Tail(x.toHelper)) :
           i + 1 \in 1..Len(x.toHelper) /\ Tail(x.toHelper)[i] = x.toHelper[i + 1]
  BY SMTT(60), <1>1, TailOf
<1>8. /\ Asked(f) \in Nat /\ Asked(x) \in Nat /\ Asked(f) <= Asked(x) - 1
      /\ Answered(f) <= Answered(x) + 1 /\ Answered(f) \in Nat /\ Answered(x) \in Nat
      /\ Asked(x) = 1 => f.toHelper = <<>>
  <2>1. Len(f.toHelper) \in Nat /\ Len(f.toHelper) <= Len(x.toHelper) - 1
    BY SMTT(60), <1>5, <1>7
  <2>2. Len(x.toHelper) = 1 => Tail(x.toHelper) = <<>>
    <3>1. Tail(x.toHelper) \in Seq(Messages)
      BY <1>1, TailOf
    <3> QED
      BY SMTT(60), <1>7, <3>1
  <2> QED
    BY <1>5, <1>6, <1>7, <2>1, <2>2 DEF Asked, Answered
<1>9. (Cut(f) <=> Cut(x)) /\ Half(f) = Half(x)
  <2>1. replies # <<>> => replies[1].type # "torn"
    BY SMTT(60) DEF Single
  <2> QED
    BY <1>6, <2>1 DEF Cut, Half
<1>10. Typed(f, next)
  <2>1. \A i \in 1..Len(f.toHelper) : f.toHelper[i].req <= f.req
    <3>1. \A i \in 1..Len(x.toHelper) : x.toHelper[i].req <= x.req
      BY <1>1 DEF Typed
    <3> QED
      BY SMTT(60), <1>5, <1>7, <3>1
  <2> QED
    BY <1>1, <1>5, <2>1 DEF Typed
<1>11. Globals(f) /\ Waits(f)
  BY SMTT(60), <1>1, <1>5, <1>9 DEF Globals, Waits, Begun
<1>12. Stream(f, next, n)
  <2>1. Asked(x) + Answered(x) <= x.late + n + Half(x) /\ Half(x) \in Nat
    BY <1>1 DEF Stream, Half
  <2>2. Asked(f) + Answered(f) <= f.late + n + Half(f)
    BY SMTT(60), <1>1, <1>5, <1>8, <1>9, <2>1
  <2>3. \A i \in 2..Len(f.toExt) : f.toExt[i].type # "torn"
    <3>1. \A i \in 2..Len(x.toExt) : x.toExt[i].type # "torn"
      BY <1>1 DEF Stream
    <3> QED
      BY SMTT(60), <1>6, <3>1
  <2>4. next.phase = "gone" => f.toHelper = <<>> /\ next.ctx = 0
    BY SMTT(60), <1>3, <1>5 DEF Gone
  <2> QED
    BY SMTT(60), <1>5, <2>2, <2>3, <2>4 DEF Stream
<1>13. ASSUME Live(f, next) PROVE Enables(next) /\ Mail(f) /\ Context(f, next) /\ Follows(f, next)
  <2>1. next # Gone /\ Live(x, hlp)
    BY SMTT(60), <1>5, <1>13 DEF Live, Gone
  <2>2. Asked(x) = 1 /\ (~Cut(x) => x.toExt = <<>>) /\ x.pc \in Commands
    BY <2>1, MailIs
  <2>3. replies # <<>> /\ Settled(next, replies[1]) /\ f.toHelper = <<>>
    BY <1>8, <2>1, <2>2
  <2>4. Cut(x) => x.pc = "request_shutdown"
    BY <1>1 DEF Waits
  <2>5. x.pc # "request_shutdown" => f.toExt = replies
    BY <1>6, <2>2, <2>4
  <2>6. Context(f, next)
    <3>1. x.pc # "request_shutdown" => f.toExt[1] = replies[1]
      BY <2>5
    <3> QED
      BY SMTT(60), <1>5, <2>2, <2>3, <3>1, SettledContext
  <2>7. Follows(f, next)
    BY <1>5, <2>3 DEF Follows, Settled
  <2>8. Enables(next) /\ Mail(f)
    BY <2>3 DEF Settled, Mail
  <2> QED
    BY <2>6, <2>7, <2>8
<1>14. Inv(f, next)
  BY <1>5, <1>10, <1>11, <1>12, <1>13 DEF Inv, Session, n
<1> QED
  BY <1>0, <1>14, InvLater

LEMMA PendingIs ==
  ASSUME SessionInv, NEW name, Pending(name)
  PROVE  /\ x.conn # 0 /\ hlp.phase # "gone" /\ x.toHelper # <<>> /\ Message = x.toHelper[1]
         /\ x \in Exts /\ hlp \in Helpers /\ hlp.ctx <= x.req /\ x.req \in Nat
         /\ Message \in Messages /\ Message.req <= x.req /\ Message.name = name
<1>0. Typed(x, hlp) /\ x.conn # 0 /\ hlp.phase # "gone" /\ x.toHelper # <<>> /\ Head(x.toHelper).name = name
  BY Named DEF Inv, Pending
<1>1. x \in Exts /\ hlp \in Helpers /\ hlp.ctx <= x.req /\ x.toHelper \in Seq(Messages) /\ x.req \in Nat
  BY <1>0 DEF Typed, Exts
<1>2. Head(x.toHelper) = x.toHelper[1] /\ x.toHelper[1] \in Messages /\ 1 \in 1..Len(x.toHelper)
  BY SMTT(60), <1>0, <1>1, TailOf
<1>3. x.toHelper[1].req <= x.req
  BY <1>0, <1>2 DEF Typed
<1> QED
  BY <1>0, <1>1, <1>2, <1>3 DEF Message

(* The message is the command waited for, if the connection is in step. *)
LEMMA PendingLive ==
  ASSUME SessionInv, NEW name, Pending(name), Live(x, hlp)
  PROVE  /\ x.pc \in Commands /\ ReplyName(x) = name /\ Message.req = x.req
         /\ Message.path = (IF x.pc = "client_init" THEN path ELSE x.last)
         /\ Context(x, hlp) /\ Follows(x, hlp) /\ Enables(hlp) /\ Waits(x)
  BY PendingIs, MailIs

LEMMA WholeReplies ==
  /\ \A t \in Commands \cup {"error"}, v \in Verdicts \cup {"error"} :
       Single(<<Reply(t, v)>>) /\ Reply(t, v) \in Replies /\ <<Reply(t, v)>>[1] = Reply(t, v)
  /\ \A on \in BOOLEAN :
       Single(<<ConfigFeatures(on)>>) /\ <<ConfigFeatures(on)>>[1] = ConfigFeatures(on)
  /\ Single(<<>>)
<1>1. ASSUME NEW t \in Commands \cup {"error"}, NEW v \in Verdicts \cup {"error"}
      PROVE  Reply(t, v) \in Replies /\ Reply(t, v).type # "torn"
  BY DEF Reply, Replies, Commands
<1>2. ASSUME NEW on \in BOOLEAN
      PROVE  ConfigFeatures(on) \in Replies /\ ConfigFeatures(on).type # "torn"
  BY DEF ConfigFeatures, Replies, Verdicts
<1> QED
  BY <1>1, <1>2 DEF Single

LEMMA GoneAnswer ==
  ASSUME SessionInv, NEW name, Pending(name), NEW replies, Single(replies), Answer(Gone, replies)
  PROVE  SessionInv'
<1>1. Gone \in Helpers /\ Gone.ctx = 0
  BY SessionAssumption DEF Gone, Helpers
<1>2. Gone.ctx <= x.req
  BY SMTT(60), <1>1, PendingIs
<1> QED
  BY <1>1, <1>2, PendingIs, AnswerKeeps

LEMMA StayAnswer ==
  ASSUME SessionInv, NEW name, Pending(name), NEW next \in Helpers, next.phase # "gone", next.ctx <= x.req,
         NEW reply \in Replies, reply.type # "torn", Answer(next, <<reply>>),
         Live(x, hlp) => Settled(next, reply)
  PROVE  SessionInv'
<1>1. Single(<<reply>>) /\ <<reply>> # <<>> /\ <<reply>>[1] = reply
  BY DEF Single
<1> DEFINE replies == <<reply>>
<1>2. Single(replies) /\ (Live(x, hlp) => replies # <<>> /\ Settled(next, replies[1])) /\ Answer(next, replies)
  BY <1>1
<1> HIDE DEF replies
<1> QED
  BY <1>2, PendingIs, AnswerKeeps

LEMMA HandleClientInitKeeps == SessionInv /\ HandleClientInit => SessionInv'
<1> SUFFICES ASSUME SessionInv, HandleClientInit PROVE SessionInv'
  BY SMTT(60)
<1> DEFINE p == Message.path
           next == [hlp EXCEPT !.phase = "serve", !.path = p]
           reply == Reply("client_init", "ok")
<1>0. Pending("client_init")
  BY DEF HandleClientInit
<1>1. hlp \in Helpers /\ hlp.ctx <= x.req /\ p \in Paths
  BY <1>0, PendingIs DEF Messages
<1>2. CASE Answer(Gone, <<Reply("client_init", "error")>>)
  <2>1. Single(<<Reply("client_init", "error")>>)
    BY WholeReplies DEF Commands
  <2> QED
    BY <1>0, <1>2, <2>1, GoneAnswer
<1>3. CASE Answer(next, <<reply>>)
  <2>1. reply \in Replies /\ reply.type # "torn"
    BY DEF Reply, Replies, Commands, Verdicts
  <2>2. Live(x, hlp) => /\ p = (IF x.pc = "client_init" THEN path ELSE x.last)
                        /\ ReplyName(x) = "client_init" /\ Context(x, hlp)
    BY <1>0, PendingLive
  <2> HIDE DEF reply, p
  <2>3. next \in Helpers /\ next.phase = "serve" /\ next.ctx = hlp.ctx /\ next.path = p
    BY <1>1 DEF Helpers
  <2> HIDE DEF next
  <2>4. ASSUME Live(x, hlp) PROVE Settled(next, reply)
    <3>1. x.pc = "client_init"
      BY <2>2, <2>4 DEF ReplyName
    <3>2. hlp.ctx = 0
      BY <2>2, <2>4, <3>1 DEF Context
    <3> QED
      BY <2>2, <2>3, <2>4, <3>1, <3>2 DEF Settled, Enables
  <2> QED
    BY <1>0, <1>1, <1>3, <2>1, <2>3, <2>4, StayAnswer
<1> QED
  BY <1>2, <1>3 DEF HandleClientInit

LEMMA HandleConfigSyncKeeps == SessionInv /\ HandleConfigSync => SessionInv'
<1> SUFFICES ASSUME SessionInv, HandleConfigSync PROVE SessionInv'
  BY SMTT(60)
<1> DEFINE p == Message.path
           on == Enabled(p)
           next == [hlp EXCEPT !.path = p, !.enabled = on]
           reply == IF on THEN ConfigFeatures(TRUE) ELSE Reply("config_sync", "ok")
<1>0. Pending("config_sync") /\ (Answer(Gone, <<>>) \/ Answer(next, <<reply>>))
  BY DEF HandleConfigSync
<1>1. hlp \in Helpers /\ hlp.ctx <= x.req /\ p \in Paths /\ hlp.phase # "gone"
  BY <1>0, PendingIs DEF Messages
<1>2. CASE Answer(Gone, <<>>)
  BY <1>0, <1>2, WholeReplies, GoneAnswer
<1>3. CASE Answer(next, <<reply>>)
  <2>1. /\ reply \in Replies /\ reply.type # "torn"
        /\ reply.type = "config_features" \/ (reply.type = "config_sync" /\ reply.verdict = "ok")
    BY DEF ConfigFeatures, Reply, Replies, Commands, Verdicts
  <2>2. Live(x, hlp) => /\ p = (IF x.pc = "client_init" THEN path ELSE x.last)
                        /\ ReplyName(x) = "config_sync" /\ Context(x, hlp) /\ x.pc \in Commands
    BY <1>0, PendingLive
  <2>3. on \in BOOLEAN
    BY DEF Enabled
  <2> HIDE DEF reply, p, on
  <2>4. next \in Helpers /\ next.phase = hlp.phase /\ next.ctx = hlp.ctx /\ next.path = p
    BY <1>1, <2>3 DEF Helpers
  <2> HIDE DEF next
  <2>5. ASSUME Live(x, hlp) PROVE Settled(next, reply)
    <3>1. x.pc = "config_sync" \/ x.pc = "end_sync"
      BY <2>2, <2>5 DEF ReplyName, Commands
    <3>2. hlp.ctx = 0
      BY <2>2, <2>5, <3>1 DEF Context
    <3> QED
      BY <1>1, <2>1, <2>2, <2>4, <2>5, <3>1, <3>2 DEF Settled, Enables
  <2> QED
    BY <1>0, <1>1, <1>3, <2>1, <2>4, <2>5, StayAnswer
<1> QED
  BY <1>0, <1>2, <1>3

LEMMA HandleRequestInitKeeps == SessionInv /\ HandleRequestInit => SessionInv'
<1> SUFFICES ASSUME SessionInv, HandleRequestInit PROVE SessionInv'
  BY SMTT(60)
<1> DEFINE n == Message.req
           off == [hlp EXCEPT !.enabled = FALSE]
           next == [hlp EXCEPT !.enabled = TRUE, !.ctx = n]
           no == ConfigFeatures(FALSE)
<1>0. /\ Pending("request_init")
      /\ \/ Answer(Gone, <<>>)
         \/ ~Enabled(hlp.path) /\ Answer(off, <<no>>)
         \/ Publish("request_init", next)
  BY DEF HandleRequestInit
<1>1. hlp \in Helpers /\ hlp.ctx <= x.req /\ n \in Nat /\ n <= x.req /\ hlp.phase # "gone"
  BY <1>0, PendingIs DEF Messages
<1>2. Live(x, hlp) => /\ x.pc = "request_init" /\ n = x.req /\ hlp.ctx = 0
                      /\ ~cfg.emptyEnv => hlp.path = x.last
  <2>1. Live(x, hlp) => /\ ReplyName(x) = "request_init" /\ n = x.req /\ Context(x, hlp) /\ Follows(x, hlp)
                        /\ x.toHelper # <<>>
    BY <1>0, PendingLive, PendingIs
  <2>2. Live(x, hlp) => x.pc = "request_init"
    BY <2>1 DEF ReplyName
  <2> QED
    BY <2>1, <2>2 DEF Context, Follows
<1> HIDE DEF n
<1>3. CASE Answer(Gone, <<>>)
  BY <1>0, <1>3, WholeReplies, GoneAnswer
<1>4. CASE ~Enabled(hlp.path) /\ Answer(off, <<no>>)
  <2>1. no \in Replies /\ no.type = "config_features" /\ ~no.on
    BY DEF ConfigFeatures, Replies, Verdicts
  <2>2. ~cfg.fully
    BY <1>4 DEF Enabled
  <2>3. off \in Helpers /\ off.phase = hlp.phase /\ off.ctx = hlp.ctx /\ off.path = hlp.path
    BY <1>1 DEF Helpers
  <2> HIDE DEF off, no
  <2>4. Live(x, hlp) => Settled(off, no)
    BY <1>1, <1>2, <2>1, <2>2, <2>3 DEF Settled, Enables
  <2> QED
    BY <1>0, <1>1, <1>4, <2>1, <2>3, <2>4, StayAnswer
<1>5. CASE Publish("request_init", next)
  <2>1. CASE Answer(Gone, <<Reply("error", "error")>>)
    <3>1. Single(<<Reply("error", "error")>>)
      BY WholeReplies
    <3> QED
      BY <1>0, <2>1, <3>1, GoneAnswer
  <2>2. ASSUME NEW v \in Verdicts, Answer(next, <<Reply("request_init", v)>>)
        PROVE  SessionInv'
    <3> DEFINE reply == Reply("request_init", v)
    <3>1. reply \in Replies /\ reply.type = "request_init" /\ reply.verdict = v
      BY DEF Reply, Replies, Commands
    <3>2. next \in Helpers /\ next.phase = hlp.phase /\ next.ctx = n /\ next.path = hlp.path /\ next.enabled
      BY <1>1 DEF Helpers
    <3>3. Answer(next, <<reply>>)
      BY <2>2
    <3> HIDE DEF next, reply
    <3>4. Live(x, hlp) => Settled(next, reply)
      BY <1>1, <1>2, <3>1, <3>2 DEF Settled, Enables
    <3> QED
      BY <1>0, <1>1, <3>1, <3>2, <3>3, <3>4, StayAnswer
  <2> QED
    BY <1>5, <2>1, <2>2 DEF Publish
<1> QED
  BY <1>0, <1>3, <1>4, <1>5

LEMMA PublishKeeps ==
  ASSUME SessionInv, NEW name \in Commands, Pending(name), NEW next \in Helpers, next.phase # "gone",
         next.ctx <= x.req, Publish(name, next),
         \A v \in Verdicts : Live(x, hlp) => Settled(next, Reply(name, v))
  PROVE  SessionInv'
<1>1. CASE Answer(Gone, <<Reply("error", "error")>>)
  <2>1. Single(<<Reply("error", "error")>>)
    BY WholeReplies
  <2> QED
    BY <1>1, <2>1, GoneAnswer
<1>2. ASSUME NEW v \in Verdicts, Answer(next, <<Reply(name, v)>>)
      PROVE  SessionInv'
  <2> DEFINE reply == Reply(name, v)
  <2>1. reply \in Replies /\ reply.type # "torn"
    BY DEF Reply, Replies, Commands
  <2>2. Answer(next, <<reply>>) /\ (Live(x, hlp) => Settled(next, reply))
    BY <1>2
  <2> HIDE DEF reply
  <2> QED
    BY <2>1, <2>2, StayAnswer
<1> QED
  BY <1>1, <1>2 DEF Publish

(* A command that the helper does not expect leaves its context alone. *)
LEMMA UnexpectedKeeps ==
  ASSUME SessionInv, NEW name \in {"request_exec", "request_shutdown"}, Pending(name), Unexpected, ~InRequest
  PROVE  SessionInv'
<1> DEFINE on == Enabled(hlp.path)
           next == [hlp EXCEPT !.enabled = on]
           reply == Reply("error", "error")
<1>0. hlp \in Helpers /\ hlp.ctx <= x.req /\ hlp.phase # "gone"
  BY PendingIs
<1>1. CASE cfg.runtime = "rust"
  <2>1. Answer(Gone, <<>>)
    BY <1>1 DEF Unexpected
  <2> QED
    BY <2>1, WholeReplies, GoneAnswer
<1>2. CASE cfg.runtime # "rust"
  <2>1. Answer(next, <<reply>>) /\ ~hlp.enabled
    BY <1>2 DEF Unexpected, InRequest
  <2>2. reply \in Replies /\ reply.type # "torn"
    BY DEF Reply, Replies
  <2>3. on \in BOOLEAN
    BY DEF Enabled
  <2> HIDE DEF reply, on
  <2>4. next \in Helpers /\ next.phase = hlp.phase /\ next.ctx = hlp.ctx /\ next.path = hlp.path
    BY <1>0, <2>3 DEF Helpers
  <2> HIDE DEF next
  <2>5. ASSUME Live(x, hlp) PROVE Settled(next, reply)
    <3>1. /\ ReplyName(x) = name /\ Context(x, hlp) /\ Follows(x, hlp) /\ Enables(hlp)
      BY <2>5, PendingLive
    <3>2. x.pc = name
      BY <3>1 DEF ReplyName
    <3>3. hlp.ctx = 0
      BY <1>2, <2>1, <3>1 DEF Enables
    <3> QED
      BY SMTT(60), <1>0, <2>4, <3>1, <3>2, <3>3 DEF Settled, Enables, Context, Follows
  <2> QED
    BY <1>0, <2>1, <2>2, <2>4, <2>5, StayAnswer
<1> QED
  BY <1>1, <1>2

LEMMA HandleRequestExecKeeps == SessionInv /\ HandleRequestExec => SessionInv'
<1> SUFFICES ASSUME SessionInv, HandleRequestExec PROVE SessionInv'
  BY SMTT(60)
<1> DEFINE n == IF hlp.ctx = 0 THEN Message.req ELSE hlp.ctx
           next == [hlp EXCEPT !.ctx = n]
<1>0. Pending("request_exec") /\ IF InRequest THEN Publish("request_exec", next) ELSE Unexpected
  BY DEF HandleRequestExec
<1>1. hlp \in Helpers /\ n \in Nat /\ n <= x.req /\ hlp.phase # "gone" /\ "request_exec" \in Commands
  BY <1>0, PendingIs DEF Messages, Helpers, Commands
<1>2. CASE InRequest
  <2>1. Live(x, hlp) => /\ x.pc = "request_exec" /\ n = x.req /\ (~cfg.emptyEnv => hlp.path = x.last)
                        /\ cfg.runtime # "rust" => hlp.enabled
    <3>1. Live(x, hlp) => /\ ReplyName(x) = "request_exec" /\ Message.req = x.req
                          /\ Context(x, hlp) /\ Follows(x, hlp)
      BY <1>0, PendingLive
    <3>2. Live(x, hlp) => x.pc = "request_exec"
      BY <3>1 DEF ReplyName
    <3>3. cfg.runtime # "rust" => hlp.enabled
      BY <1>2 DEF InRequest
    <3> QED
      BY <3>1, <3>2, <3>3 DEF Context, Follows
  <2> HIDE DEF n
  <2>2. next \in Helpers /\ next.phase = hlp.phase /\ next.ctx = n /\ next.path = hlp.path
        /\ next.enabled = hlp.enabled
    BY <1>1 DEF Helpers
  <2>3. Publish("request_exec", next)
    BY <1>0, <1>2
  <2> HIDE DEF next
  <2>4. ASSUME NEW reply, Live(x, hlp) PROVE Settled(next, reply)
    BY <1>1, <2>1, <2>2, <2>4 DEF Settled, Enables
  <2> QED
    BY SMTT(60), <1>0, <1>1, <2>2, <2>3, <2>4, PublishKeeps
<1>3. CASE ~InRequest
  BY <1>0, <1>3, UnexpectedKeeps
<1> QED
  BY <1>2, <1>3

LEMMA HandleRequestShutdownKeeps == SessionInv /\ HandleRequestShutdown => SessionInv'
<1> SUFFICES ASSUME SessionInv, HandleRequestShutdown PROVE SessionInv'
  BY SMTT(60)
<1> DEFINE next == [hlp EXCEPT !.ctx = 0]
<1>0. Pending("request_shutdown") /\ IF InRequest THEN Publish("request_shutdown", next) ELSE Unexpected
  BY DEF HandleRequestShutdown
<1>1. hlp \in Helpers /\ hlp.phase # "gone" /\ "request_shutdown" \in Commands /\ x.req \in Nat
  BY <1>0, PendingIs DEF Commands
<1>2. CASE InRequest
  <2>1. Live(x, hlp) => x.pc = "request_shutdown" /\ (~cfg.emptyEnv => hlp.path = x.last)
    <3>1. Live(x, hlp) => ReplyName(x) = "request_shutdown" /\ Follows(x, hlp)
      BY <1>0, PendingLive
    <3>2. Live(x, hlp) => x.pc = "request_shutdown"
      BY <3>1 DEF ReplyName
    <3> QED
      BY <3>1, <3>2 DEF Follows
  <2>2. next \in Helpers /\ next.phase = hlp.phase /\ next.ctx = 0 /\ next.path = hlp.path
    BY <1>1 DEF Helpers
  <2>3. Publish("request_shutdown", next)
    BY <1>0, <1>2
  <2> HIDE DEF next
  <2>4. ASSUME NEW reply, Live(x, hlp) PROVE Settled(next, reply)
    BY <1>1, <2>1, <2>2, <2>4 DEF Settled, Enables
  <2>5. next.ctx <= x.req
    BY SMTT(60), <1>1, <2>2
  <2> QED
    BY <1>0, <1>1, <2>2, <2>3, <2>4, <2>5, PublishKeeps
<1>3. CASE ~InRequest
  BY <1>0, <1>3, UnexpectedKeeps
<1> QED
  BY SMTT(60), <1>2, <1>3

LEMMA DeadFields ==
  ASSUME NEW e \in Exts, NEW f, f = [e EXCEPT !.toHelper = <<>>]
  PROVE  /\ f \in Exts /\ f.toHelper = <<>> /\ f.toExt = e.toExt /\ f.pc = e.pc /\ f.why = e.why
         /\ f.active = e.active /\ f.between = e.between /\ f.done = e.done /\ f.span = e.span
         /\ f.last = e.last /\ f.conn = e.conn /\ f.conns = e.conns /\ f.req = e.req /\ f.late = e.late
<1>1. <<>> \in Seq(Messages)
  BY SMTT(60)
<1> QED
  BY <1>1 DEF Exts

LEMMA HelperDiesKeeps == SessionInv /\ HelperDies => SessionInv'
<1> SUFFICES ASSUME SessionInv, HelperDies PROVE SessionInv'
  BY SMTT(60)
<1> DEFINE f == [x EXCEPT !.toHelper = <<>>]
           n == IF x.pc \in Commands THEN 1 ELSE 0
<1>0. x' = f /\ hlp' = Gone /\ cfg' = cfg /\ path' = path /\ path' \in Paths
  BY Named DEF HelperDies
<1>1. /\ x \in Exts /\ Typed(x, hlp) /\ Globals(x) /\ Waits(x) /\ Stream(x, hlp, n)
      /\ x.toHelper \in Seq(Messages) /\ x.toExt \in Seq(Replies) /\ x.late \in Nat /\ n \in Nat /\ x.req \in Nat
  BY Named, ClientOfX DEF Inv, Exts
<1>2. /\ f \in Exts /\ f.toHelper = <<>> /\ f.toExt = x.toExt /\ f.pc = x.pc /\ f.why = x.why
      /\ f.active = x.active /\ f.between = x.between /\ f.done = x.done /\ f.span = x.span
      /\ f.last = x.last /\ f.conn = x.conn /\ f.conns = x.conns /\ f.req = x.req /\ f.late = x.late
  BY <1>1, DeadFields
<1> HIDE DEF f, n
<1>3. Gone \in Helpers /\ Gone.ctx = 0 /\ Gone.phase = "gone" /\ ~Live(f, Gone)
  BY SessionAssumption DEF Gone, Helpers, Live
<1>4. (Cut(f) <=> Cut(x)) /\ Half(f) = Half(x) /\ Half(x) \in Nat /\ Answered(f) = Answered(x)
      /\ Answered(x) \in Nat /\ Asked(x) \in Nat /\ Asked(f) = 0
  BY SMTT(60), <1>1, <1>2 DEF Cut, Half, Answered, Asked
<1>5. Typed(f, Gone) /\ Globals(f) /\ Waits(f)
  <2>1. Typed(f, Gone)
    BY SMTT(60), <1>1, <1>2, <1>3 DEF Typed
  <2>2. Globals(f)
    BY <1>1, <1>2 DEF Globals
  <2>3. Waits(f)
    BY <1>1, <1>2, <1>4 DEF Waits, Begun
  <2> QED
    BY <2>1, <2>2, <2>3
<1>6. Stream(f, Gone, n)
  <2>1. Asked(x) + Answered(x) <= x.late + n + Half(x)
    BY <1>1 DEF Stream
  <2>2. Asked(f) + Answered(f) <= f.late + n + Half(f)
    BY SMTT(60), <1>1, <1>2, <1>4, <2>1
  <2> QED
    BY <1>1, <1>2, <1>3, <2>2 DEF Stream
<1>7. Inv(f, Gone)
  BY <1>2, <1>3, <1>5, <1>6 DEF Inv, Session, n
<1> QED
  BY <1>0, <1>7, InvLater

LEMMA RemoteConfigKeeps ==
  ASSUME NEW p
  PROVE  SessionInv /\ RemoteConfig(p) => SessionInv'
  BY Named, InvLater DEF RemoteConfig

-----------------------------------------------------------------------------
(* The invariant *)

LEMMA SessionInit == Init => SessionInv
<1> SUFFICES ASSUME Init PROVE SessionInv
  OBVIOUS
<1>0. cfg \in Config /\ path \in Paths /\ cfg.fully \in BOOLEAN
  BY SessionAssumption DEF Init, Config
<1> DEFINE b == cfg.fully
<1>1. x = [Idle EXCEPT !.active = b] /\ hlp = Gone /\ b \in BOOLEAN
  BY <1>0 DEF Init
<1> HIDE DEF b
<1>2. <<>> \in Seq(Messages) /\ <<>> \in Seq(Replies)
  BY SMTT(60)
<1>3. Idle \in Exts
  BY <1>2, SessionAssumption DEF Idle, Exts, Whys
<1>4. /\ x \in Exts /\ x.pc = "out" /\ x.why = "none" /\ ~x.between /\ ~x.done /\ x.span = 0 /\ x.conn = 0
      /\ x.conns = 0 /\ x.toHelper = <<>> /\ x.toExt = <<>> /\ x.req = 0 /\ x.late = 0
  <2>1. x \in Exts
    BY <1>1, <1>3 DEF Exts
  <2> QED
    BY <1>1, <2>1 DEF Idle
<1>5. hlp \in Helpers /\ hlp.ctx = 0 /\ hlp.phase = "gone"
  BY <1>1, SessionAssumption DEF Gone, Helpers
<1>6. x.pc \notin Commands /\ ~Cut(x) /\ Half(x) = 0 /\ Asked(x) = 0 /\ Answered(x) = 0 /\ ~Live(x, hlp)
  BY <1>4 DEF Commands, Cut, Half, Asked, Answered, Live
<1>7. Typed(x, hlp)
  BY SMTT(60), <1>4, <1>5, SessionAssumption DEF Typed
<1>8. Globals(x) /\ Waits(x)
  BY <1>4, <1>6 DEF Globals, Waits
<1>9. Stream(x, hlp, 0)
  BY SMTT(60), <1>4, <1>5, <1>6 DEF Stream
<1> QED
  BY <1>0, <1>6, <1>7, <1>8, <1>9 DEF SessionInv, Inv, Session

LEMMA SessionNext == SessionInv /\ [Next]_vars => SessionInv'
<1> SUFFICES ASSUME SessionInv, [Next]_vars PROVE SessionInv'
  OBVIOUS
<1>1. CASE UNCHANGED vars
  BY <1>1, Named, InvLater DEF vars
<1>2. ASSUME NEW p \in Paths, Rinit(p) \/ ChangePath(p) PROVE SessionInv'
  BY <1>2, RinitKeeps, ChangePathKeeps
<1>3. CASE RequestBegin \/ StartUserReq \/ ResponseCommit \/ RequestEnd
  BY <1>3, RequestBeginKeeps, StartUserReqKeeps, ResponseCommitKeeps, RequestEndKeeps
<1>4. ASSUME NEW own \in BOOLEAN, FinishUserReq(own) PROVE SessionInv'
  BY <1>4, FinishUserReqKeeps
<1>5. ASSUME NEW why \in {"push", "user"}, RequestExec(why) PROVE SessionInv'
  BY SMTT(60), <1>5, RequestExecKeeps
<1>6. CASE Receive \/ TimedOut \/ MemoryLimit \/ BailoutAtShutdown
  BY SMTT(60), <1>6, ReceiveKeeps, TimedOutKeeps, MemoryLimitKeeps, BailoutAtShutdownKeeps
<1>7. CASE HandleClientInit \/ HandleConfigSync \/ HandleRequestInit \/ HandleRequestExec \/ HandleRequestShutdown
  BY SMTT(60), <1>7, HandleClientInitKeeps, HandleConfigSyncKeeps, HandleRequestInitKeeps, HandleRequestExecKeeps,
     HandleRequestShutdownKeeps
<1>8. CASE HelperDies
  BY <1>8, HelperDiesKeeps
<1>9. ASSUME NEW p \in Paths \ {None}, RemoteConfig(p) PROVE SessionInv'
  BY <1>9, RemoteConfigKeeps
<1> QED
  BY <1>1, <1>2, <1>3, <1>4, <1>5, <1>6, <1>7, <1>8, <1>9 DEF Next

LEMMA SessionHolds == Spec => []SessionInv
  BY SessionInit, SessionNext, PTL DEF Spec

-----------------------------------------------------------------------------
(* The theorems *)

LEMMA TornIsCut == Torn <=> Cut(x)
  BY DEF Torn, Cut

(* Between two requests on a connection in step the helper is in none. *)
LEMMA BetweenIs ==
  ASSUME SessionInv, BetweenRequests, x.conn # 0, x.late = 0, ~Torn
  PROVE  hlp.ctx = 0 /\ (~cfg.emptyEnv /\ hlp.phase # "gone" => hlp.path = x.last)
<1>0. Globals(x) /\ Waits(x) /\ Session(x, hlp) /\ \E n : Stream(x, hlp, n)
  BY Named DEF Inv
<1>1. x.pc \in {"out", "run"} /\ ~x.between
  BY <1>0 DEF BetweenRequests, Waits, Globals, Php
<1>2. CASE hlp.phase = "gone"
  BY <1>0, <1>2 DEF Stream
<1>3. CASE hlp.phase # "gone"
  <2>1. Context(x, hlp) /\ Follows(x, hlp)
    BY <1>0, <1>3 DEF Session, Live
  <2> QED
    BY <1>1, <2>1 DEF Context, Follows
<1> QED
  BY <1>2, <1>3

LEMMA MailLive ==
  ASSUME SessionInv, x.toHelper # <<>>, x.late = 0
  PROVE  Live(x, hlp)
  BY Named DEF Inv, Stream, Live

(* Whatever timed out, was cut short or died, _imsg_recv reads the reply   *)
(* to the command _omsg_send sent last, or lags behind it by no more than  *)
(* the replies datadog_appsec_push_addresses gave up on: all other callers *)
(* of dd_command_exec end in dd_helper_close_conn, or in a stream that can *)
(* no longer be read.                                                      *)
THEOREM RepliesAreOwn == Spec => []OwnReply
<1>1. SessionInv => OwnReply
  <2> SUFFICES ASSUME SessionInv, x.pc \in Commands, ~Torn
               PROVE  Len(x.toHelper) + Len(x.toExt) <= 1 + x.late
    BY DEF OwnReply
  <2>1. x \in Exts /\ Stream(x, hlp, 1)
    BY Named, ClientOfX DEF Inv
  <2>2. x.toHelper \in Seq(Messages) /\ x.toExt \in Seq(Replies) /\ x.late \in Nat
    BY <2>1 DEF Exts
  <2>3. Asked(x) \in Nat /\ Answered(x) \in Nat
    BY SMTT(60), <2>2 DEF Asked, Answered
  <2>4. Asked(x) + Answered(x) <= x.late + 1 + 0
    BY <2>1, TornIsCut DEF Stream, Half
  <2>5. Asked(x) + Answered(x) <= 1 + x.late
    BY SMTT(60), <2>2, <2>3, <2>4
  <2> QED
    BY <2>5 DEF Asked, Answered
<1> QED
  BY <1>1, SessionHolds, PTL

(* The data of a request_exec is evaluated in the context that the         *)
(* request_init of its own request made in the helper, and no context is   *)
(* left on a connection that dd_req_lifecycle_rshutdown or                 *)
(* _finish_user_req keeps for the next request.                            *)
THEOREM ContextIsOwn == Spec => []OwnContext
<1>1. SessionInv => TypeOK
  <2> SUFFICES ASSUME SessionInv PROVE TypeOK
    OBVIOUS
  <2>1. Typed(x, hlp) /\ Globals(x) /\ path \in Paths /\ x \in Exts /\ hlp \in Helpers
    BY Named, ClientOfX DEF Inv
  <2>2. /\ x.pc \in Commands \cup {"out", "rinit", "run"} /\ x.why \in Whys
        /\ x.active \in BOOLEAN /\ x.between \in BOOLEAN /\ x.done \in BOOLEAN /\ x.last \in Paths
        /\ x.late \in Nat /\ x.req \in Nat /\ x.conn \in Nat /\ x.conns \in Nat
        /\ hlp.path \in Paths /\ hlp.ctx \in Nat
    BY <2>1 DEF Exts, Helpers
  <2>3. /\ x.late \in 0..MaxLate /\ x.req \in 0..MaxRequests /\ x.conn \in 0..x.conns
        /\ x.conns \in 0..MaxConns /\ hlp.ctx \in 0..x.req
    BY SMTT(60), <2>1, <2>2, SessionAssumption DEF Typed
  <2>4. x.span \in {0, x.req} /\ (x.done => x.span # 0)
    BY <2>1 DEF Globals
  <2> QED
    BY <2>1, <2>2, <2>3, <2>4 DEF TypeOK, Whys
<1>2. ASSUME SessionInv, x.toHelper # <<>>, x.toHelper[1].name = "request_exec", x.late = 0
      PROVE  hlp.ctx = x.toHelper[1].req
  <2>1. ReplyName(x) = "request_exec" /\ x.toHelper[1].req = x.req /\ Context(x, hlp)
    BY <1>2, MailLive, MailIs
  <2>2. x.pc = "request_exec"
    BY <2>1 DEF ReplyName
  <2> QED
    BY <2>1, <2>2 DEF Context
<1>3. SessionInv => OwnContext
  BY SMTT(60), <1>1, <1>2, BetweenIs DEF OwnContext
<1> QED
  BY <1>3, SessionHolds, PTL

(* A request_shutdown finds the helper inside the request it is about,     *)
(* unless it is the second one _finish_user_req or rshutdown sends after   *)
(* _response_commit: also after reconnections, blocked requests and a      *)
(* reply cut short by the memory limit.                                    *)
THEOREM ShutdownIsMatched == Spec => []ShutdownMatchesInit
<1>1. ASSUME SessionInv, x.toHelper # <<>>, x.toHelper[1].name = "request_shutdown", ~x.toHelper[1].again,
             x.late = 0
      PROVE  hlp.ctx = x.toHelper[1].req
  <2>1. /\ ReplyName(x) = "request_shutdown" /\ x.toHelper[1].req = x.req /\ x.toHelper[1].again = x.done
        /\ Context(x, hlp)
    BY <1>1, MailLive, MailIs
  <2>2. x.pc = "request_shutdown" /\ ~x.done
    BY <1>1, <2>1 DEF ReplyName
  <2> QED
    BY <1>1, <2>1, <2>2 DEF Context
<1>2. SessionInv => ShutdownMatchesInit
  BY <1>1 DEF ShutdownMatchesInit
<1> QED
  BY <1>2, SessionHolds, PTL

(* With a service and an environment configured, the helper works with the *)
(* remote configuration of the path in _last_rem_cfg_path whenever no      *)
(* request is under way, however often the tracer changed its path and the *)
(* connection was lost in between.                                         *)
THEOREM PathIsFollowed == Spec => []HelperFollowsPath
<1>1. SessionInv => HelperFollowsPath
  BY BetweenIs DEF HelperFollowsPath
<1> QED
  BY <1>1, SessionHolds, PTL

=============================================================================
