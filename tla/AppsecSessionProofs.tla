------------------------- MODULE AppsecSessionProofs -------------------------
(***************************************************************************)
(* The inductive invariant of AppsecSession, and that the handlers of the  *)
(* extension establish it again, for any number of requests, connections,  *)
(* commands and replies given up.  AppsecStepsProofs has the steps and     *)
(* what follows from the invariant.                                        *)
(*                                                                         *)
(* The invariant relates the extension's state e to the state h of the     *)
(* helper's client, so that it can be said of the states in the middle of  *)
(* a handler too: Ready for what an operator is given, Good for where the  *)
(* extension next waits.  What it says of the helper is said of a          *)
(* connection that is in step (Live): with a reply given up on it, only    *)
(* Stream is left, which bounds how far behind it can be.                  *)
(***************************************************************************)
EXTENDS AppsecSession, TLAPS

Whys == {"none", "push", "user", "php", "startup", "start", "commit", "finish", "end"}
Messages == [name : Commands, req : Nat, path : Paths, again : BOOLEAN]
Replies == [type : Commands \cup {"config_features", "error", "torn"},
            verdict : Verdicts \cup {"error"}, on : BOOLEAN]
Exts == [pc : Commands \cup {"out", "rinit", "run"}, why : Whys,
         active : BOOLEAN, between : BOOLEAN, done : BOOLEAN, span : Nat, last : Paths,
         conn : Nat, conns : Nat, toHelper : Seq(Messages), toExt : Seq(Replies),
         req : Nat, execs : Nat, late : Nat]
Helpers == [phase : {"gone", "init", "serve"}, enabled : BOOLEAN, ctx : Nat, path : Paths]

Php == cfg.lifecycle = "php"
Config == [lifecycle : Lifecycles, runtime : Runtimes, fully : BOOLEAN, emptyEnv : BOOLEAN]

(* The helper's client after a step of the extension to e. *)
Client(e) == IF e.conn = 0 THEN Gone ELSE IF e.conn # x.conn THEN Accepted ELSE hlp

Typed(e, h) ==
    /\ e \in Exts /\ h \in Helpers
    /\ e.late <= MaxLate /\ e.req <= MaxRequests /\ e.conn <= e.conns /\ e.conns <= MaxConns
    /\ h.ctx <= e.req
    /\ \A i \in 1..Len(e.toHelper) : e.toHelper[i].req <= e.req

(* The request globals of the extension. *)
Globals(e) ==
    /\ e.span \in {0, e.req}
    /\ e.done => ~e.between /\ e.span # 0
    /\ IF Php THEN e.span = 0 ELSE e.between => e.span # 0

(* The head of the stream was left half read. *)
Cut(e) == e.toExt # <<>> /\ e.toExt[1].type = "torn"
Half(e) == IF Cut(e) THEN 1 ELSE 0

(* Messages and replies under way. *)
Asked(e) == Len(e.toHelper)
Answered(e) == Len(e.toExt)

(* With n commands waited for, at most that many messages and replies are  *)
(* under way, those given up and a half read one not counted.              *)
Stream(e, h, n) ==
    /\ e.conn = 0 => e.toHelper = <<>> /\ e.toExt = <<>> /\ e.late = 0 /\ h.phase = "gone"
    /\ h.phase = "gone" => e.toHelper = <<>> /\ h.ctx = 0
    /\ \A i \in 2..Len(e.toExt) : e.toExt[i].type # "torn"
    /\ Asked(e) + Answered(e) <= e.late + n + Half(e)

(* A request is under way: one of PHP, or a user request. *)
Begun(e) == Php \/ e.span # 0

(* What has to be true of a command that may be waited for. *)
Waits(e) ==
    /\ IF e.pc \in Commands THEN e.conn # 0 ELSE e.why = "none"
    /\ e.pc \in {"out", "rinit", "end_sync"} => ~e.between /\ ~e.done /\ e.span = 0
    /\ e.pc = "rinit" => e.req < MaxRequests
    /\ e.pc \in {"client_init", "config_sync", "request_init"} => ~e.between /\ ~e.done /\ Begun(e)
    /\ e.pc = "request_init" => e.active
    /\ e.pc = "request_exec" => e.active /\ e.between /\ (e.why = "user" \/ (e.why = "push" /\ e.late < MaxLate))
    /\ e.pc = "request_shutdown" =>
         /\ e.active
         /\ e.why \in (IF Php THEN {"php", "startup"} ELSE {"start", "commit", "finish", "end"})
         /\ e.why = "start" => e.req < MaxRequests
         /\ e.why = "commit" => e.span # 0
    /\ e.pc = "end_sync" => cfg.emptyEnv
    /\ Cut(e) => e.pc = "request_shutdown"

(* No reply was given up on the connection, and the helper serves it. *)
Live(e, h) == e.conn # 0 /\ h.phase # "gone" /\ e.late = 0

(* A context of the C++ helper is one of a client that is enabled. *)
Enables(h) == cfg.runtime # "rust" /\ h.ctx # 0 => h.enabled

(* The message under way is the command waited for. *)
Mail(e) ==
    e.toHelper # <<>> =>
      /\ e.toHelper[1].name = ReplyName(e) /\ e.toHelper[1].req = e.req
      /\ e.toHelper[1].again = e.done
      /\ e.toHelper[1].path = IF e.pc = "client_init" THEN path ELSE e.last

(* Which request the helper is in, and what its reply says. *)
Context(e, h) ==
    /\ e.pc \in {"client_init", "config_sync", "end_sync"} => h.ctx = 0
    /\ e.pc = "config_sync" /\ e.toExt # <<>> =>
         e.toExt[1].type = "config_features" \/ (e.toExt[1].type = "config_sync" /\ e.toExt[1].verdict = "ok")
    /\ e.pc = "request_init" /\ e.toHelper # <<>> => h.ctx = 0
    /\ e.pc = "request_init" /\ e.toExt # <<>> =>
         \/ e.toExt[1].type = "request_init" /\ e.toExt[1].verdict \in Verdicts /\ h.ctx = e.req
         \/ e.toExt[1].type = "config_features" /\ ~e.toExt[1].on /\ ~cfg.fully /\ h.ctx = 0
    /\ e.pc = "request_exec" => h.ctx = e.req
    /\ e.pc = "request_shutdown" => h.ctx = IF e.toHelper # <<>> /\ ~e.done THEN e.req ELSE 0
    /\ e.pc \in {"out", "rinit", "run"} => h.ctx = IF e.active /\ e.between THEN e.req ELSE 0
    /\ e.pc = "run" /\ e.active /\ Begun(e) => e.between \/ e.done

(* Which configuration the helper works with. *)
Follows(e, h) ==
    ~cfg.emptyEnv =>
      /\ e.pc = "client_init" /\ e.toHelper = <<>> => h.path = path
      /\ e.pc = "config_sync" /\ e.toHelper = <<>> => h.path = e.last
      /\ e.pc \notin {"client_init", "config_sync"} => h.path = e.last

Session(e, h) == Live(e, h) => Enables(h) /\ Mail(e) /\ Context(e, h) /\ Follows(e, h)

Inv(e, h) ==
    /\ Typed(e, h) /\ Globals(e) /\ Waits(e) /\ Session(e, h)
    /\ Stream(e, h, IF e.pc \in Commands THEN 1 ELSE 0)

SessionInv ==
    /\ cfg \in Config /\ path \in Paths
    /\ Inv(x, hlp)

(* Inv where the extension next waits or runs, with the client the helper  *)
(* has by then, and what an operator needs of the state it is given.       *)
Good(e) == Inv(e, Client(e))
Ready(e) ==
    /\ Typed(e, Client(e)) /\ Stream(e, Client(e), 0)
    /\ Live(e, Client(e)) => Enables(Client(e))
    /\ x.conn <= e.conns

(* The helper is in request n, with the configuration of e. *)
In(e, n) == Live(e, Client(e)) => Client(e).ctx = n /\ (~cfg.emptyEnv => Client(e).path = e.last)

(* A state in which the script may run: the helper is in the request if    *)
(* the extension thinks so, and it is unless that is over.                 *)
Rest(e) ==
    /\ Ready(e) /\ Globals(e) /\ In(e, IF e.active /\ e.between THEN e.req ELSE 0)
    /\ Live(e, Client(e)) /\ e.active /\ Begun(e) => e.between \/ e.done

(* The prover of a leaf that names no other. *)
USE ZenonT(60)

-----------------------------------------------------------------------------
(* What the operators on the extension's state change. *)

LEMMA Named == SessionInv => Inv(x, hlp) /\ path \in Paths /\ None \in Paths
  BY SessionAssumption DEF SessionInv

LEMMA CloseFields ==
  ASSUME NEW e \in Exts, NEW f, f = Close(e)
  PROVE  /\ f \in Exts
         /\ f.conn = 0 /\ f.toHelper = <<>> /\ f.toExt = <<>> /\ f.late = 0
         /\ f.pc = e.pc /\ f.why = e.why /\ f.active = e.active /\ f.between = e.between
         /\ f.done = e.done /\ f.span = e.span /\ f.last = e.last /\ f.conns = e.conns
         /\ f.req = e.req /\ f.execs = e.execs
<1>1. <<>> \in Seq(Messages) /\ <<>> \in Seq(Replies)
  BY SMTT(60)
<1> QED
  BY <1>1 DEF Close, Exts

Place(e, c) == [e EXCEPT !.pc = c, !.why = "none"]

LEMMA PlaceFields ==
  ASSUME NEW e \in Exts, NEW c \in {"out", "run"}, NEW f, f = Place(e, c)
  PROVE  /\ f \in Exts
         /\ f.pc = c /\ f.why = "none"
         /\ f.active = e.active /\ f.between = e.between /\ f.done = e.done /\ f.span = e.span
         /\ f.last = e.last /\ f.conn = e.conn /\ f.conns = e.conns /\ f.toHelper = e.toHelper
         /\ f.toExt = e.toExt /\ f.req = e.req /\ f.execs = e.execs /\ f.late = e.late
  BY DEF Place, Exts, Whys

LEMMA ResetFields ==
  ASSUME NEW e \in Exts, NEW f, f = ResetGlobals(e)
  PROVE  /\ f \in Exts
         /\ f.between = FALSE /\ f.done = FALSE /\ f.span = 0
         /\ f.pc = e.pc /\ f.why = e.why /\ f.active = e.active
         /\ f.last = e.last /\ f.conn = e.conn /\ f.conns = e.conns /\ f.toHelper = e.toHelper
         /\ f.toExt = e.toExt /\ f.req = e.req /\ f.execs = e.execs /\ f.late = e.late
  BY DEF ResetGlobals, Exts

(* A command is sent, to a helper that has not gone. *)
LEMMA AskFields ==
  ASSUME SessionInv, NEW e \in Exts, NEW c \in Commands, NEW w \in Whys, NEW f, f = Ask(e, c, w)
  PROVE  /\ f \in Exts
         /\ f.pc = c /\ f.why = w
         /\ f.active = e.active /\ f.between = e.between /\ f.done = e.done /\ f.span = e.span
         /\ f.last = e.last /\ f.conn = e.conn /\ f.conns = e.conns
         /\ f.toExt = e.toExt /\ f.req = e.req /\ f.execs = e.execs /\ f.late = e.late
         /\ Client(f) = Client(e)
         /\ \E m \in Messages :
              /\ m.name = ReplyName(f) /\ m.req = e.req /\ m.again = e.done
              /\ m.path = IF c = "client_init" THEN path ELSE e.last
              /\ f.toHelper = IF Alive(e) THEN Append(e.toHelper, m) ELSE e.toHelper
<1> DEFINE m == [name |-> IF c = "end_sync" THEN "config_sync" ELSE c, req |-> e.req,
                 path |-> IF c = "client_init" THEN path ELSE e.last, again |-> e.done]
           q == IF Alive(e) THEN Append(e.toHelper, m) ELSE e.toHelper
<1>1. m \in Messages
  BY Named DEF Exts, Messages, Commands
<1>2. /\ m.name = (IF c = "end_sync" THEN "config_sync" ELSE c) /\ m.req = e.req /\ m.again = e.done
      /\ m.path = IF c = "client_init" THEN path ELSE e.last
  OBVIOUS
<1>3. f = [e EXCEPT !.pc = c, !.why = w, !.toHelper = q]
  BY DEF Ask, Send
<1> HIDE DEF m
<1>4. e.toHelper \in Seq(Messages) /\ q \in Seq(Messages)
  BY SMTT(60), <1>1 DEF Exts
<1> HIDE DEF q
<1>5. /\ f \in Exts /\ f.pc = c /\ f.why = w /\ f.toHelper = q
      /\ f.active = e.active /\ f.between = e.between /\ f.done = e.done /\ f.span = e.span
      /\ f.last = e.last /\ f.conn = e.conn /\ f.conns = e.conns
      /\ f.toExt = e.toExt /\ f.req = e.req /\ f.execs = e.execs /\ f.late = e.late
  BY <1>3, <1>4 DEF Exts
<1>6. ReplyName(f) = IF c = "end_sync" THEN "config_sync" ELSE c
  BY <1>5 DEF ReplyName
<1>7. Client(f) = Client(e)
  BY <1>5 DEF Client
<1> QED
  BY <1>1, <1>2, <1>5, <1>6, <1>7 DEF q

LEMMA ClientType ==
  ASSUME SessionInv, NEW e \in Exts
  PROVE  /\ Client(e) \in Helpers
         /\ e.conn # 0 => (Alive(e) <=> Client(e).phase # "gone")
         /\ e.conn = 0 => Client(e).phase = "gone" /\ Client(e).ctx = 0
<1>1. hlp \in Helpers /\ None \in Paths
  BY Named DEF Inv, Typed
<1>2. Gone \in Helpers /\ Gone.phase = "gone" /\ Gone.ctx = 0
  BY <1>1 DEF Gone, Helpers
<1>3. Accepted \in Helpers /\ Accepted.phase = "init"
  BY <1>1 DEF Accepted, Gone, Helpers
<1> QED
  BY <1>1, <1>2, <1>3 DEF Client, Alive

LEMMA AskSends ==
  ASSUME SessionInv, NEW e, NEW h, h = Client(e), Typed(e, h), Stream(e, h, 0), e.conn # 0,
         NEW c \in Commands, NEW w \in Whys, NEW f, f = Ask(e, c, w)
  PROVE  /\ Typed(f, h) /\ Client(f) = h /\ Stream(f, h, 1)
         /\ Cut(f) <=> Cut(e)
         /\ Live(f, h) <=> Live(e, h)
         /\ Live(f, h) => Mail(f) /\ f.toHelper # <<>> /\ (~Cut(f) => f.toExt = <<>>)
<1>0. e \in Exts
  BY DEF Typed
<1>1. PICK m \in Messages :
        /\ m.name = ReplyName(f) /\ m.req = e.req /\ m.again = e.done
        /\ m.path = IF c = "client_init" THEN path ELSE e.last
        /\ f.toHelper = IF Alive(e) THEN Append(e.toHelper, m) ELSE e.toHelper
  BY SMTT(60), <1>0, AskFields
<1>2. /\ f \in Exts /\ f.pc = c /\ f.done = e.done /\ f.last = e.last /\ f.conn = e.conn
      /\ f.conns = e.conns /\ f.toExt = e.toExt /\ f.req = e.req /\ f.late = e.late
      /\ Client(f) = h
  BY SMTT(60), <1>0, AskFields
<1>3. /\ e.toHelper \in Seq(Messages) /\ e.toExt \in Seq(Replies) /\ e.late \in Nat
      /\ e.req \in Nat
  BY <1>0 DEF Exts
<1>4. Alive(e) <=> h.phase # "gone"
  BY <1>0, ClientType
<1>5. \A i \in 1..Len(f.toHelper) : f.toHelper[i].req <= f.req
  BY SMTT(60), <1>1, <1>2, <1>3 DEF Typed
<1>6. (Cut(f) <=> Cut(e)) /\ (Live(f, h) <=> Live(e, h)) /\ Half(f) = Half(e) /\ Half(e) \in 0..1
  BY SMTT(60), <1>2 DEF Cut, Live, Half
<1>7. /\ Asked(f) \in Nat /\ Asked(e) \in Nat /\ Answered(e) \in Nat /\ Answered(f) = Answered(e)
      /\ Asked(f) <= Asked(e) + 1
  BY SMTT(60), <1>1, <1>2, <1>3 DEF Asked, Answered
<1>8. h.phase = "gone" => f.toHelper = <<>>
  BY <1>1, <1>4 DEF Stream
<1>9. Stream(f, h, 1)
  <2>1. Asked(f) + Answered(f) <= f.late + 1 + Half(f)
    <3>1. Asked(e) + Answered(e) <= e.late + 0 + Half(e)
      BY DEF Stream
    <3> QED
      BY SMTT(60), <1>2, <1>3, <1>6, <1>7, <3>1
  <2> QED
    BY <1>2, <1>8, <2>1 DEF Stream
<1>10. ASSUME Live(f, h) PROVE Mail(f) /\ f.toHelper # <<>> /\ (~Cut(f) => f.toExt = <<>>)
  <2>1. Asked(e) + Answered(e) <= Half(e)
    BY SMTT(60), <1>2, <1>3, <1>6, <1>7, <1>10 DEF Stream, Live
  <2>2. e.toHelper = <<>>
    <3>1. Answered(e) = 0 => Half(e) = 0
      BY SMTT(60), <1>3 DEF Half, Cut, Answered
    <3>2. Asked(e) = 0
      BY SMTT(60), <1>6, <1>7, <2>1, <3>1
    <3> QED
      BY SMTT(60), <1>3, <3>2 DEF Asked
  <2>3. f.toHelper = <<m>>
    BY SMTT(60), <1>1, <1>4, <1>10, <2>2 DEF Live
  <2>4. f.toHelper[1] = m /\ f.toHelper # <<>>
    BY SMTT(60), <2>3
  <2>5. ~Cut(f) => f.toExt = <<>>
    <3>1. ~Cut(e) => Answered(e) = 0
      BY SMTT(60), <1>7, <2>1 DEF Half
    <3> QED
      BY SMTT(60), <1>2, <1>3, <1>6, <3>1 DEF Answered
  <2> QED
    BY <1>1, <1>2, <2>4, <2>5 DEF Mail
<1> QED
  BY <1>2, <1>5, <1>6, <1>9, <1>10 DEF Typed

-----------------------------------------------------------------------------
(* Where the extension waits next *)

LEMMA SyncGood ==
  ASSUME SessionInv, NEW e, Ready(e), Globals(e), ~Cut(e), e.conn # 0, ~e.between, ~e.done, Begun(e),
         Live(e, Client(e)) => Client(e).ctx = 0, NEW f, f = Ask(e, "config_sync", "none")
  PROVE  Good(f)
<1> DEFINE h == Client(e)
<1>0. e \in Exts /\ "config_sync" \in Commands /\ "none" \in Whys
  BY DEF Ready, Typed, Commands, Whys
<1>1. /\ Typed(f, h) /\ Client(f) = h /\ Stream(f, h, 1) /\ ~Cut(f)
      /\ Live(f, h) <=> Live(e, h)
      /\ Live(f, h) => Mail(f) /\ f.toHelper # <<>> /\ f.toExt = <<>>
  BY SMTT(60), <1>0, AskSends DEF Ready
<1>2. /\ f.pc = "config_sync" /\ f.between = e.between /\ f.done = e.done /\ f.span = e.span
      /\ f.conn = e.conn /\ f.req = e.req
  BY SMTT(60), <1>0, AskFields
<1>3. Globals(f) /\ Waits(f)
  BY <1>1, <1>2 DEF Globals, Waits, Begun, Commands
<1>4. Live(f, h) => Context(f, h) /\ Follows(f, h)
  BY <1>1, <1>2 DEF Context, Follows
<1> QED
  BY <1>0, <1>1, <1>2, <1>3, <1>4 DEF Good, Inv, Session, Ready

LEMMA InitGood ==
  ASSUME SessionInv, NEW e, Ready(e), Globals(e), ~Cut(e), e.conn # 0, ~e.between, ~e.done, Begun(e),
         e.active, In(e, 0), NEW f, f = Ask(e, "request_init", "none")
  PROVE  Good(f)
<1> DEFINE h == Client(e)
<1>0. e \in Exts /\ "request_init" \in Commands /\ "none" \in Whys
  BY DEF Ready, Typed, Commands, Whys
<1>1. /\ Typed(f, h) /\ Client(f) = h /\ Stream(f, h, 1) /\ ~Cut(f)
      /\ Live(f, h) <=> Live(e, h)
      /\ Live(f, h) => Mail(f) /\ f.toHelper # <<>> /\ f.toExt = <<>>
  BY SMTT(60), <1>0, AskSends DEF Ready
<1>2. /\ f.pc = "request_init" /\ f.between = e.between /\ f.done = e.done /\ f.span = e.span
      /\ f.conn = e.conn /\ f.req = e.req /\ f.active /\ f.last = e.last
  BY SMTT(60), <1>0, AskFields
<1>3. Globals(f) /\ Waits(f)
  BY <1>1, <1>2 DEF Globals, Waits, Begun, Commands
<1>4. Live(f, h) => Context(f, h) /\ Follows(f, h)
  BY <1>1, <1>2 DEF Context, Follows, In
<1> QED
  BY <1>0, <1>1, <1>2, <1>3, <1>4 DEF Good, Inv, Session, Ready

(* The stream may have been cut before this one. *)
LEMMA ShutdownGood ==
  ASSUME SessionInv, NEW e, Ready(e), Globals(e), e.conn # 0, e.active,
         NEW w \in IF Php THEN {"php", "startup"} ELSE {"start", "commit", "finish", "end"},
         w = "start" => e.req < MaxRequests, w = "commit" => e.span # 0,
         In(e, IF e.done THEN 0 ELSE e.req), NEW f, f = Ask(e, "request_shutdown", w)
  PROVE  Good(f)
<1> DEFINE h == Client(e)
<1>0. e \in Exts /\ "request_shutdown" \in Commands /\ w \in Whys
  BY DEF Ready, Typed, Commands, Whys
<1>1. /\ Typed(f, h) /\ Client(f) = h /\ Stream(f, h, 1)
      /\ Live(f, h) <=> Live(e, h)
      /\ Live(f, h) => Mail(f) /\ f.toHelper # <<>>
  BY SMTT(60), <1>0, AskSends DEF Ready
<1>2. /\ f.pc = "request_shutdown" /\ f.between = e.between /\ f.done = e.done /\ f.span = e.span
      /\ f.conn = e.conn /\ f.req = e.req /\ f.active /\ f.last = e.last /\ f.why = w
  BY SMTT(60), <1>0, AskFields
<1>3. Globals(f) /\ Waits(f)
  BY <1>1, <1>2 DEF Globals, Waits, Begun, Commands
<1>4. Live(f, h) => Context(f, h) /\ Follows(f, h)
  BY <1>1, <1>2 DEF Context, Follows, In
<1> QED
  BY <1>0, <1>1, <1>2, <1>3, <1>4 DEF Good, Inv, Session, Ready

LEMMA EndSyncGood ==
  ASSUME SessionInv, NEW e, Ready(e), Globals(e), ~Cut(e), e.conn # 0, ~e.between, ~e.done, e.span = 0,
         cfg.emptyEnv, In(e, 0), NEW w \in Whys, NEW f, f = Ask(e, "end_sync", w)
  PROVE  Good(f)
<1> DEFINE h == Client(e)
<1>0. e \in Exts /\ "end_sync" \in Commands
  BY DEF Ready, Typed, Commands
<1>1. /\ Typed(f, h) /\ Client(f) = h /\ Stream(f, h, 1) /\ ~Cut(f)
      /\ Live(f, h) <=> Live(e, h)
      /\ Live(f, h) => Mail(f) /\ f.toHelper # <<>> /\ f.toExt = <<>>
  BY SMTT(60), <1>0, AskSends DEF Ready
<1>2. /\ f.pc = "end_sync" /\ f.between = e.between /\ f.done = e.done /\ f.span = e.span
      /\ f.conn = e.conn /\ f.req = e.req
  BY SMTT(60), <1>0, AskFields
<1>3. Globals(f) /\ Waits(f)
  BY <1>1, <1>2 DEF Globals, Waits, Begun, Commands
<1>4. Live(f, h) => Context(f, h) /\ Follows(f, h)
  BY <1>1, <1>2 DEF Context, Follows, In
<1> QED
  BY <1>0, <1>1, <1>2, <1>3, <1>4 DEF Good, Inv, Session, Ready

(* Between commands nothing is under way on a connection in step. *)
LEMMA Quiet ==
  ASSUME NEW e, NEW h, Typed(e, h), Stream(e, h, 0), ~Cut(e), Live(e, h)
  PROVE  e.toHelper = <<>> /\ e.toExt = <<>>
<1>1. e.toHelper \in Seq(Messages) /\ e.toExt \in Seq(Replies)
  BY DEF Typed, Exts
<1>2. Asked(e) \in Nat /\ Answered(e) \in Nat
  BY SMTT(60), <1>1 DEF Asked, Answered
<1>3. Asked(e) + Answered(e) <= 0 /\ e.late = 0
  BY SMTT(60) DEF Stream, Live, Half
<1>4. Asked(e) = 0 /\ Answered(e) = 0
  BY SMTT(60), <1>2, <1>3
<1> QED
  BY SMTT(60), <1>1, <1>4 DEF Asked, Answered

(* The extension goes back to the script, or to the server. *)
LEMMA PlaceGood ==
  ASSUME SessionInv, NEW e, Ready(e), Globals(e), ~Cut(e), NEW c \in {"out", "run"},
         c = "out" => ~e.between /\ ~e.done /\ e.span = 0,
         c = "run" => Rest(e),
         In(e, IF e.active /\ e.between THEN e.req ELSE 0), NEW f, f = Place(e, c)
  PROVE  Good(f)
<1> DEFINE h == Client(e)
<1>0. e \in Exts
  BY DEF Ready, Typed
<1>1. /\ f \in Exts
      /\ f.pc = c /\ f.why = "none"
      /\ f.active = e.active /\ f.between = e.between /\ f.done = e.done /\ f.span = e.span
      /\ f.last = e.last /\ f.conn = e.conn /\ f.conns = e.conns /\ f.toHelper = e.toHelper
      /\ f.toExt = e.toExt /\ f.req = e.req /\ f.execs = e.execs /\ f.late = e.late
  BY SMTT(60), <1>0, PlaceFields
<1>2. Client(f) = h /\ (Live(f, h) <=> Live(e, h)) /\ ~Cut(f) /\ Half(f) = Half(e)
      /\ Asked(f) = Asked(e) /\ Answered(f) = Answered(e)
  BY SMTT(60), <1>1 DEF Client, Live, Cut, Half, Asked, Answered
<1>3. Typed(f, h) /\ Stream(f, h, 0) /\ Globals(f)
  BY SMTT(60), <1>1, <1>2 DEF Typed, Stream, Ready, Globals
<1>4. f.pc \notin Commands
  BY <1>1 DEF Commands
<1>5. Waits(f)
  BY <1>1, <1>2, <1>4 DEF Waits
<1>6. ASSUME Live(f, h) PROVE Mail(f) /\ Context(f, h) /\ Follows(f, h)
  <2>1. f.toHelper = <<>> /\ f.toExt = <<>>
    BY <1>2, <1>3, <1>6, Quiet
  <2>2. Live(e, h)
    BY <1>2, <1>6
  <2>3. /\ h.ctx = (IF f.active /\ f.between THEN f.req ELSE 0)
        /\ ~cfg.emptyEnv => h.path = f.last
    BY <1>1, <2>2 DEF In
  <2>4. f.pc = "run" /\ f.active /\ Begun(f) => f.between \/ f.done
    BY <1>1, <2>2 DEF Begun, Rest
  <2> QED
    BY <1>1, <2>1, <2>3, <2>4 DEF Mail, Context, Follows
<1> QED
  BY <1>2, <1>3, <1>4, <1>5, <1>6 DEF Good, Inv, Session, Ready

LEMMA RunGood ==
  ASSUME SessionInv, NEW e, Rest(e), ~Cut(e)
  PROVE  Good(Running(e))
<1>1. Running(e) = Place(e, "run")
  BY DEF Running, Place
<1> QED
  BY <1>1, PlaceGood DEF Rest

LEMMA OutGood ==
  ASSUME SessionInv, NEW e, Ready(e), Globals(e), ~Cut(e), ~e.between, ~e.done, e.span = 0, In(e, 0)
  PROVE  Good(Place(e, "out"))
<1>1. In(e, IF e.active /\ e.between THEN e.req ELSE 0)
  OBVIOUS
<1> QED
  BY <1>1, PlaceGood

(* A connection that is closed leaves nothing to be said of the helper. *)
LEMMA CloseReady ==
  ASSUME SessionInv, NEW e, NEW h, Typed(e, h), x.conn <= e.conns, NEW f, f = Close(e)
  PROVE  /\ Ready(f) /\ ~Cut(f) /\ ~Live(f, Client(f)) /\ \A n : In(f, n)
         /\ Globals(e) => Globals(f)
<1>0. e \in Exts
  BY DEF Typed
<1>1. /\ f \in Exts
      /\ f.conn = 0 /\ f.toHelper = <<>> /\ f.toExt = <<>> /\ f.late = 0
      /\ f.between = e.between
      /\ f.done = e.done /\ f.span = e.span /\ f.conns = e.conns
      /\ f.req = e.req
  BY SMTT(60), <1>0, CloseFields
<1>2. Client(f) \in Helpers /\ Client(f).phase = "gone" /\ Client(f).ctx = 0
  BY <1>1, ClientType
<1>3. ~Cut(f) /\ ~Live(f, Client(f)) /\ (Globals(e) => Globals(f)) /\ Half(f) = 0
      /\ Asked(f) = 0 /\ Answered(f) = 0
  BY <1>1 DEF Cut, Live, Globals, Half, Asked, Answered
<1>4. Typed(f, Client(f))
  BY SMTT(60), <1>0, <1>1, <1>2, SessionAssumption DEF Typed, Exts
<1>5. Stream(f, Client(f), 0)
  BY SMTT(60), <1>1, <1>2, <1>3 DEF Stream
<1> QED
  BY <1>1, <1>3, <1>4, <1>5 DEF Ready, In

(* What a change of other fields leaves alone. *)
LEMMA ReadyFrame ==
  ASSUME SessionInv, NEW e, Ready(e), NEW f \in Exts, e.req <= f.req, f.req <= MaxRequests,
         f.conn = e.conn, f.conns = e.conns, f.toHelper = e.toHelper, f.toExt = e.toExt, f.late = e.late
  PROVE  /\ Ready(f) /\ Client(f) = Client(e)
         /\ Cut(f) <=> Cut(e)
         /\ Live(f, Client(f)) <=> Live(e, Client(e))
<1>1. Client(f) = Client(e) /\ (Cut(f) <=> Cut(e)) /\ Half(f) = Half(e)
      /\ Asked(f) = Asked(e) /\ Answered(f) = Answered(e)
  BY DEF Client, Cut, Half, Asked, Answered
<1>2. Live(f, Client(f)) <=> Live(e, Client(e))
  BY <1>1 DEF Live
<1>3. Stream(f, Client(f), 0)
  BY <1>1 DEF Stream, Ready
<1>4. Typed(f, Client(f))
  <2>1. /\ e \in Exts /\ Client(e) \in Helpers /\ e.req \in Nat /\ f.req \in Nat /\ Client(e).ctx \in Nat
        /\ e.toHelper \in Seq(Messages)
    BY DEF Ready, Typed, Exts, Helpers
  <2>2. ASSUME NEW i \in 1..Len(e.toHelper) PROVE e.toHelper[i].req <= f.req
    <3>1. e.toHelper[i] \in Messages /\ e.toHelper[i].req <= e.req
      BY SMTT(60), <2>1 DEF Ready, Typed
    <3>2. e.toHelper[i].req \in Nat
      BY <3>1 DEF Messages
    <3> QED
      BY SMTT(60), <2>1, <3>1, <3>2
  <2>3. Client(e).ctx <= f.req
    BY SMTT(60), <2>1 DEF Ready, Typed
  <2> QED
    BY <1>1, <2>2, <2>3 DEF Ready, Typed
<1> QED
  BY <1>1, <1>2, <1>3, <1>4 DEF Ready

Record(e, p) == [e EXCEPT !.last = p]

LEMMA RecordFields ==
  ASSUME NEW e \in Exts, NEW p \in Paths, NEW f, f = Record(e, p)
  PROVE  /\ f \in Exts
         /\ f.last = p
         /\ f.pc = e.pc /\ f.why = e.why /\ f.active = e.active /\ f.between = e.between
         /\ f.done = e.done /\ f.span = e.span
         /\ f.conn = e.conn /\ f.conns = e.conns /\ f.toHelper = e.toHelper
         /\ f.toExt = e.toExt /\ f.req = e.req /\ f.execs = e.execs /\ f.late = e.late
  BY DEF Record, Exts

LEMMA RecordReady ==
  ASSUME SessionInv, NEW e, Ready(e), NEW p \in Paths, NEW f, f = Record(e, p)
  PROVE  /\ Ready(f) /\ Client(f) = Client(e)
         /\ Cut(f) <=> Cut(e)
         /\ Live(f, Client(f)) <=> Live(e, Client(e))
         /\ Globals(e) => Globals(f)
<1>1. e \in Exts /\ e.req \in Nat /\ e.req <= MaxRequests
  BY DEF Ready, Typed, Exts
<1>2. /\ f \in Exts
      /\ f.between = e.between /\ f.done = e.done /\ f.span = e.span
      /\ f.conn = e.conn /\ f.conns = e.conns /\ f.toHelper = e.toHelper
      /\ f.toExt = e.toExt /\ f.req = e.req /\ f.late = e.late
  BY SMTT(60), <1>1, RecordFields
<1>3. Globals(e) => Globals(f)
  BY <1>2 DEF Globals
<1>4. e.req <= f.req /\ f.req <= MaxRequests
  BY SMTT(60), <1>1, <1>2
<1> QED
  BY <1>2, <1>3, <1>4, ReadyFrame

-----------------------------------------------------------------------------
(* The start of a request *)

(* The path the helper was last told, or will be told with this command. *)
LEMMA ConnectedGood ==
  ASSUME SessionInv, NEW e, Ready(e), Globals(e), ~Cut(e), e.conn # 0, ~e.between, ~e.done, Begun(e),
         Live(e, Client(e)) => /\ Client(e).ctx = 0
                               /\ ~cfg.emptyEnv => Client(e).path \in {path, e.last},
         NEW f \in Connected(e)
  PROVE  Good(f)
<1>0. e \in Exts /\ path \in Paths
  BY Named DEF Ready, Typed
<1>1. CASE PathChanged(e, TRUE) \/ (~e.active /\ ~cfg.fully)
  <2> DEFINE p == IF PathChanged(e, TRUE) THEN path ELSE e.last
             g == Record(e, p)
  <2>1. p \in Paths
    BY <1>0 DEF Exts
  <2>2. f = Ask(g, "config_sync", "none")
    BY <1>1 DEF Connected, Record
  <2> HIDE DEF p
  <2>3. /\ Ready(g) /\ Client(g) = Client(e) /\ ~Cut(g) /\ Globals(g)
        /\ Live(g, Client(g)) <=> Live(e, Client(e))
    BY <2>1, RecordReady
  <2>4. g.conn = e.conn /\ g.between = e.between /\ g.done = e.done /\ g.span = e.span
    BY SMTT(60), <1>0, <2>1, RecordFields
  <2> HIDE DEF g
  <2>5. ~g.between /\ ~g.done /\ Begun(g) /\ g.conn # 0
    BY <2>4 DEF Begun
  <2>6. Live(g, Client(g)) => Client(g).ctx = 0
    BY <2>3
  <2> QED
    BY <2>2, <2>3, <2>5, <2>6, SyncGood
<1>2. CASE ~(PathChanged(e, TRUE) \/ (~e.active /\ ~cfg.fully))
  <2>1. ~cfg.emptyEnv => path = e.last
    BY <1>2 DEF PathChanged
  <2>2. In(e, 0)
    BY <2>1 DEF In
  <2>3. CASE e.active
    <3>1. f = Ask(e, "request_init", "none")
      BY <1>2, <2>3 DEF Connected
    <3> QED
      BY <2>2, <2>3, <3>1, InitGood
  <2>4. CASE ~e.active
    <3>1. f = Running(e)
      BY <1>2, <2>4 DEF Connected
    <3>2. Rest(e)
      BY <2>2, <2>4 DEF Rest
    <3> QED
      BY <3>1, <3>2, RunGood
  <2> QED
    BY <2>3, <2>4
<1> QED
  BY <1>1, <1>2

LEMMA ClientInitGood ==
  ASSUME SessionInv, NEW e, Ready(e), Globals(e), ~Cut(e), e.conn # 0, ~e.between, ~e.done, Begun(e),
         Client(e).ctx = 0, NEW f, f = Ask(e, "client_init", "none")
  PROVE  Good(f)
<1> DEFINE h == Client(e)
<1>0. e \in Exts /\ "client_init" \in Commands /\ "none" \in Whys
  BY DEF Ready, Typed, Commands, Whys
<1>1. /\ Typed(f, h) /\ Client(f) = h /\ Stream(f, h, 1) /\ ~Cut(f)
      /\ Live(f, h) <=> Live(e, h)
      /\ Live(f, h) => Mail(f) /\ f.toHelper # <<>> /\ f.toExt = <<>>
  BY SMTT(60), <1>0, AskSends DEF Ready
<1>2. /\ f.pc = "client_init" /\ f.between = e.between /\ f.done = e.done /\ f.span = e.span
      /\ f.conn = e.conn /\ f.req = e.req
  BY SMTT(60), <1>0, AskFields
<1>3. Globals(f) /\ Waits(f)
  BY <1>1, <1>2 DEF Globals, Waits, Begun, Commands
<1>4. Live(f, h) => Context(f, h) /\ Follows(f, h)
  BY <1>1, <1>2 DEF Context, Follows
<1> QED
  BY <1>0, <1>1, <1>2, <1>3, <1>4 DEF Good, Inv, Session, Ready

Numbered(e) == [e EXCEPT !.req = @ + 1, !.execs = 0]
Fresh(e) == [e EXCEPT !.conn = e.conns + 1, !.conns = @ + 1]

LEMMA NumberedFields ==
  ASSUME NEW e \in Exts, NEW f, f = Numbered(e)
  PROVE  /\ f \in Exts /\ f.req = e.req + 1
         /\ f.active = e.active /\ f.between = e.between /\ f.done = e.done /\ f.span = e.span
         /\ f.last = e.last /\ f.conn = e.conn /\ f.conns = e.conns /\ f.toHelper = e.toHelper
         /\ f.toExt = e.toExt /\ f.late = e.late
<1> DEFINE r == e.req + 1  z == 0
<1>1. r \in Nat /\ z \in Nat
  BY SMTT(60) DEF Exts
<1>2. f = [e EXCEPT !.req = r, !.execs = z]
  BY DEF Numbered
<1> HIDE DEF r, z
<1>3. /\ f \in Exts /\ f.req = r
      /\ f.active = e.active /\ f.between = e.between /\ f.done = e.done /\ f.span = e.span
      /\ f.last = e.last /\ f.conn = e.conn /\ f.conns = e.conns /\ f.toHelper = e.toHelper
      /\ f.toExt = e.toExt /\ f.late = e.late
  BY <1>1, <1>2 DEF Exts
<1> QED
  BY <1>3 DEF r

LEMMA FreshFields ==
  ASSUME NEW e \in Exts, NEW f, f = Fresh(e)
  PROVE  /\ f \in Exts /\ f.conn = e.conns + 1 /\ f.conns = e.conns + 1
         /\ f.between = e.between /\ f.done = e.done /\ f.span = e.span
         /\ f.toHelper = e.toHelper /\ f.toExt = e.toExt /\ f.req = e.req /\ f.late = e.late
<1> DEFINE n == e.conns + 1
<1>1. n \in Nat
  BY SMTT(60) DEF Exts
<1>2. f = [e EXCEPT !.conn = n, !.conns = n]
  BY DEF Fresh
<1> HIDE DEF n
<1>3. /\ f \in Exts /\ f.conn = n /\ f.conns = n
      /\ f.between = e.between /\ f.done = e.done /\ f.span = e.span
      /\ f.toHelper = e.toHelper /\ f.toExt = e.toExt /\ f.req = e.req /\ f.late = e.late
  BY <1>1, <1>2 DEF Exts
<1> QED
  BY <1>3 DEF n

(* A request begins: the next number, on the connection there is, on a new *)
(* one or on none.                                                         *)
LEMMA BeginGood ==
  ASSUME SessionInv, NEW e, Ready(e), ~Cut(e), ~e.between, ~e.done, e.req < MaxRequests,
         e.span = IF Php THEN 0 ELSE e.req + 1, In(e, 0), NEW f \in Begin(e)
  PROVE  Good(f)
<1> DEFINE b == Numbered(e)
           n == Fresh(b)
<1>0. e \in Exts /\ e.req \in Nat /\ e.conns \in Nat /\ MaxRequests \in Nat
  BY SessionAssumption DEF Ready, Typed, Exts
<1>1. /\ b \in Exts /\ b.req = e.req + 1
      /\ b.active = e.active /\ b.between = e.between /\ b.done = e.done /\ b.span = e.span
      /\ b.last = e.last /\ b.conn = e.conn /\ b.conns = e.conns /\ b.toHelper = e.toHelper
      /\ b.toExt = e.toExt /\ b.late = e.late
  BY <1>0, NumberedFields
<1>2. f \in (IF e.conn # 0 THEN Connected(b)
             ELSE {Running(b)} \cup {g \in {Ask(n, "client_init", "none")} : g.conns <= MaxConns})
  BY DEF Begin, Numbered, Fresh
<1>3. /\ n \in Exts /\ n.conn = b.conns + 1 /\ n.conns = b.conns + 1
      /\ n.between = b.between /\ n.done = b.done /\ n.span = b.span
      /\ n.toHelper = b.toHelper /\ n.toExt = b.toExt /\ n.req = b.req /\ n.late = b.late
  BY <1>1, FreshFields
<1> HIDE DEF b, n
<1>4. e.req <= b.req /\ b.req <= MaxRequests
  BY SMTT(60), <1>0, <1>1
<1>5. /\ Ready(b) /\ Client(b) = Client(e) /\ ~Cut(b)
      /\ Live(b, Client(b)) <=> Live(e, Client(e))
  BY <1>1, <1>4, ReadyFrame
<1>6. ~b.between /\ ~b.done /\ Globals(b) /\ Begun(b)
  BY SMTT(60), <1>0, <1>1 DEF Globals, Begun
<1>7. In(b, 0)
  BY <1>1, <1>5 DEF In
<1>8. CASE e.conn # 0
  BY <1>1, <1>2, <1>5, <1>6, <1>7, <1>8, ConnectedGood DEF In
<1>9. CASE e.conn = 0 /\ f = Running(b)
  <2>1. ~Live(b, Client(b))
    BY <1>1, <1>9 DEF Live
  <2>2. Rest(b)
    BY <1>5, <1>6, <2>1 DEF Rest, In
  <2> QED
    BY <1>5, <1>9, <2>2, RunGood
<1>10. CASE e.conn = 0 /\ f = Ask(n, "client_init", "none") /\ f.conns <= MaxConns
  <2>1. f.conns = n.conns
    BY SMTT(60), <1>3, <1>10, AskFields DEF Commands, Whys
  <2>2. Client(n) = Accepted
    <3>1. x.conn \in Nat /\ x.conn <= e.conns
      BY Named DEF Ready, Inv, Typed, Exts
    <3>2. n.conn # 0 /\ n.conn # x.conn
      BY SMTT(60), <1>0, <1>1, <1>3, <3>1
    <3> QED
      BY <3>2 DEF Client
  <2>3. Accepted \in Helpers /\ Accepted.phase = "init" /\ Accepted.ctx = 0
    BY Named DEF Accepted, Gone, Helpers
  <2>4. n.toHelper = <<>> /\ n.toExt = <<>> /\ n.late = 0
    BY <1>1, <1>3, <1>10 DEF Ready, Stream
  <2>5. ~Cut(n) /\ Half(n) = 0 /\ Asked(n) = 0 /\ Answered(n) = 0
    BY <2>4 DEF Cut, Half, Asked, Answered
  <2>6. Stream(n, Accepted, 0)
    BY SMTT(60), <1>0, <1>1, <1>3, <2>3, <2>4, <2>5 DEF Stream
  <2>7. Typed(n, Accepted)
    <3>1. n.late <= MaxLate /\ n.conn <= n.conns /\ n.conns <= MaxConns
      BY SMTT(60), <1>0, <1>1, <1>3, <1>10, <2>1, <2>4, SessionAssumption
    <3>2. n.req <= MaxRequests /\ 0 <= n.req
      BY SMTT(60), <1>0, <1>1, <1>3, <1>4
    <3> QED
      BY SMTT(60), <1>3, <2>3, <2>4, <3>1, <3>2 DEF Typed
  <2>8. x.conn <= n.conns
    <3>1. x.conn \in Nat /\ x.conn <= e.conns
      BY SMTT(60), Named DEF Ready, Inv, Typed, Exts
    <3> QED
      BY SMTT(60), <1>0, <1>1, <1>3, <3>1
  <2>9. Ready(n)
    BY <2>2, <2>3, <2>6, <2>7, <2>8 DEF Ready, Enables
  <2>10. Globals(n) /\ Begun(n) /\ ~n.between /\ ~n.done
    BY <1>1, <1>3, <1>6 DEF Globals, Begun
  <2>11. n.conn # 0
    BY SMTT(60), <1>0, <1>1, <1>3
  <2> QED
    BY <1>10, <2>2, <2>3, <2>5, <2>9, <2>10, <2>11, ClientInitGood
<1> QED
  BY <1>2, <1>8, <1>9, <1>10

-----------------------------------------------------------------------------
(* The end of a request *)

LEMMA EndGood ==
  ASSUME SessionInv, NEW e, Ready(e), Globals(e), ~Cut(e), ~e.between, ~e.done, e.span = 0, In(e, 0),
         NEW w \in Whys
  PROVE  Good(EndSync(e, w))
<1> DEFINE g == Record(e, path)
<1>0. e \in Exts /\ path \in Paths
  BY Named DEF Ready, Typed
<1>1. EndSync(e, w) = IF cfg.emptyEnv /\ PathChanged(e, FALSE)
                      THEN IF e.conn = 0 THEN Place(g, "out") ELSE Ask(g, "end_sync", w)
                      ELSE Place(e, "out")
  BY DEF EndSync, Record, Place
<1>2. /\ Ready(g) /\ Client(g) = Client(e) /\ ~Cut(g) /\ Globals(g)
      /\ Live(g, Client(g)) <=> Live(e, Client(e))
  BY SMTT(60), <1>0, RecordReady
<1>3. g.conn = e.conn /\ g.between = e.between /\ g.done = e.done /\ g.span = e.span
  BY SMTT(60), <1>0, RecordFields
<1> HIDE DEF g
<1>4. ~g.between /\ ~g.done /\ g.span = 0
  BY <1>3
<1>5. cfg.emptyEnv => In(g, 0)
  BY <1>2 DEF In
<1>6. CASE ~(cfg.emptyEnv /\ PathChanged(e, FALSE))
  BY <1>1, <1>6, OutGood
<1>7. CASE cfg.emptyEnv /\ PathChanged(e, FALSE) /\ e.conn = 0
  BY <1>1, <1>2, <1>4, <1>5, <1>7, OutGood
<1>8. CASE cfg.emptyEnv /\ PathChanged(e, FALSE) /\ e.conn # 0
  BY <1>1, <1>2, <1>3, <1>4, <1>5, <1>8, EndSyncGood
<1> QED
  BY <1>6, <1>7, <1>8

LEMMA ResetReady ==
  ASSUME SessionInv, NEW e, Ready(e), NEW f, f = ResetGlobals(e)
  PROVE  /\ Ready(f) /\ Client(f) = Client(e) /\ Globals(f)
         /\ Cut(f) <=> Cut(e)
         /\ Live(f, Client(f)) <=> Live(e, Client(e))
         /\ ~f.between /\ ~f.done /\ f.span = 0
         /\ \A n : In(e, n) => In(f, n)
<1>1. e \in Exts /\ e.req \in Nat /\ e.req <= MaxRequests
  BY DEF Ready, Typed, Exts
<1>2. /\ f \in Exts
      /\ f.between = FALSE /\ f.done = FALSE /\ f.span = 0 /\ f.last = e.last
      /\ f.conn = e.conn /\ f.conns = e.conns /\ f.toHelper = e.toHelper
      /\ f.toExt = e.toExt /\ f.req = e.req /\ f.late = e.late
  BY <1>1, ResetFields
<1>3. Globals(f)
  BY <1>2 DEF Globals
<1>4. e.req <= f.req /\ f.req <= MaxRequests
  BY SMTT(60), <1>1, <1>2
<1>5. /\ Ready(f) /\ Client(f) = Client(e)
      /\ Cut(f) <=> Cut(e)
      /\ Live(f, Client(f)) <=> Live(e, Client(e))
  BY <1>2, <1>4, ReadyFrame
<1>6. \A n : In(e, n) => In(f, n)
  BY <1>2, <1>5 DEF In
<1> QED
  BY <1>2, <1>3, <1>5, <1>6

Spanned(e, n) == [e EXCEPT !.span = n]
Committed(e) == [e EXCEPT !.done = TRUE, !.between = FALSE]

LEMMA SpannedReady ==
  ASSUME SessionInv, NEW e, Ready(e), ~e.between, ~e.done, NEW n \in Nat, NEW f, f = Spanned(e, n)
  PROVE  /\ Ready(f)
         /\ Cut(f) <=> Cut(e)
         /\ ~f.between /\ ~f.done /\ f.span = n /\ f.req = e.req
         /\ \A k : In(e, k) => In(f, k)
<1>1. e \in Exts /\ e.req \in Nat /\ e.req <= MaxRequests
  BY DEF Ready, Typed, Exts
<1>2. /\ f \in Exts
      /\ ~f.between /\ ~f.done /\ f.span = n /\ f.last = e.last
      /\ f.conn = e.conn /\ f.conns = e.conns /\ f.toHelper = e.toHelper
      /\ f.toExt = e.toExt /\ f.req = e.req /\ f.late = e.late
  BY <1>1 DEF Spanned, Exts
<1>4. e.req <= f.req /\ f.req <= MaxRequests
  BY SMTT(60), <1>1, <1>2
<1>5. /\ Ready(f) /\ Client(f) = Client(e)
      /\ Cut(f) <=> Cut(e)
      /\ Live(f, Client(f)) <=> Live(e, Client(e))
  BY <1>2, <1>4, ReadyFrame
<1>6. \A k : In(e, k) => In(f, k)
  BY <1>2, <1>5 DEF In
<1> QED
  BY <1>2, <1>5, <1>6

LEMMA CommittedReady ==
  ASSUME SessionInv, NEW e, Ready(e), Globals(e), e.span # 0, NEW f, f = Committed(e)
  PROVE  /\ Ready(f) /\ Globals(f)
         /\ Cut(f) <=> Cut(e)
         /\ ~f.between /\ f.done
         /\ \A k : In(e, k) => In(f, k)
<1>1. e \in Exts /\ e.req \in Nat /\ e.req <= MaxRequests
  BY DEF Ready, Typed, Exts
<1>2. /\ f \in Exts
      /\ f.between = FALSE /\ f.done = TRUE /\ f.span = e.span /\ f.last = e.last
      /\ f.conn = e.conn /\ f.conns = e.conns /\ f.toHelper = e.toHelper
      /\ f.toExt = e.toExt /\ f.req = e.req /\ f.late = e.late
  BY <1>1 DEF Committed, Exts
<1>3. Globals(f)
  BY <1>2 DEF Globals
<1>4. e.req <= f.req /\ f.req <= MaxRequests
  BY SMTT(60), <1>1, <1>2
<1>5. /\ Ready(f) /\ Client(f) = Client(e)
      /\ Cut(f) <=> Cut(e)
      /\ Live(f, Client(f)) <=> Live(e, Client(e))
  BY <1>2, <1>4, ReadyFrame
<1>6. \A k : In(e, k) => In(f, k)
  BY <1>2, <1>5 DEF In
<1> QED
  BY <1>2, <1>3, <1>5, <1>6

(* Why a request_shutdown is sent. *)
Cause(e, w) ==
    /\ w \in IF Php THEN {"php", "startup"} ELSE {"start", "commit", "finish", "end"}
    /\ w = "start" => e.req < MaxRequests
    /\ w = "commit" => e.span # 0

LEMMA FinishedGood ==
  ASSUME SessionInv, NEW e, Ready(e), Globals(e), ~Cut(e), In(e, 0), NEW w, Cause(e, w),
         NEW f \in Finished(e, w)
  PROVE  Good(f)
<1> DEFINE g == ResetGlobals(e)
<1>1. /\ Ready(g) /\ Globals(g) /\ ~Cut(g) /\ ~g.between /\ ~g.done /\ g.span = 0 /\ In(g, 0)
  BY ResetReady
<1>2. CASE w \in {"php", "startup"}
  <2>1. f = EndSync(g, w)
    BY <1>2 DEF Finished
  <2>2. w \in Whys
    BY <1>2 DEF Whys
  <2> QED
    BY <1>1, <2>1, <2>2, EndGood
<1>3. CASE w = "start"
  <2> DEFINE s == Spanned(g, e.req + 1)
  <2>1. f \in Begin(s)
    BY <1>3 DEF Finished, Spanned
  <2>2. e.req + 1 \in Nat /\ ~Php /\ e.req < MaxRequests
    BY SMTT(60), <1>3 DEF Ready, Typed, Exts, Cause
  <2>3. g.req = e.req
    BY ResetFields DEF Ready, Typed
  <2> HIDE DEF g
  <2>4. Ready(s) /\ ~Cut(s) /\ ~s.between /\ ~s.done /\ s.span = e.req + 1 /\ s.req = e.req /\ In(s, 0)
    BY SMTT(60), <1>1, <2>2, <2>3, SpannedReady
  <2> HIDE DEF s
  <2> QED
    BY <2>1, <2>2, <2>4, BeginGood
<1>4. CASE w = "commit"
  <2> DEFINE c == Committed(e)
  <2>1. f = Running(c)
    BY <1>4 DEF Finished, Committed
  <2>2. Ready(c) /\ Globals(c) /\ ~Cut(c) /\ ~c.between /\ c.done /\ In(c, 0)
    BY <1>4, CommittedReady DEF Cause
  <2> HIDE DEF c
  <2>3. Rest(c)
    BY <2>2 DEF Rest
  <2> QED
    BY <2>1, <2>2, <2>3, RunGood
<1>5. CASE w = "finish"
  <2>1. f = Running(g)
    BY <1>5 DEF Finished
  <2>2. Rest(g)
    BY <1>1, <1>5 DEF Rest, Begun, Cause
  <2> QED
    BY <1>1, <2>1, <2>2, RunGood
<1>6. CASE w = "end"
  <2>1. f = Place(g, "out")
    BY <1>6 DEF Finished, Place
  <2> QED
    BY <1>1, <2>1, OutGood
<1> QED
  BY <1>2, <1>3, <1>4, <1>5, <1>6 DEF Cause

LEMMA FinishGood ==
  ASSUME SessionInv, NEW e, Ready(e), Globals(e), Cut(e) => e.conn # 0 /\ e.active,
         In(e, IF e.active /\ ~e.done THEN e.req ELSE 0), NEW w, Cause(e, w), NEW f \in Finish(e, w)
  PROVE  Good(f)
<1>1. CASE e.conn # 0 /\ e.active
  <2>1. f = Ask(e, "request_shutdown", w)
    BY <1>1 DEF Finish
  <2>2. In(e, IF e.done THEN 0 ELSE e.req)
    BY <1>1
  <2> QED
    BY <1>1, <2>1, <2>2, ShutdownGood DEF Cause
<1>2. CASE ~(e.conn # 0 /\ e.active)
  <2>1. f \in Finished(e, w)
    BY <1>2 DEF Finish
  <2>2. In(e, 0)
    BY <1>2 DEF In, Live
  <2> QED
    BY <1>2, <2>1, <2>2, FinishedGood
<1> QED
  BY <1>1, <1>2

(* At rest, a request that is not over is the helper's. *)
LEMMA RestIn ==
  ASSUME NEW e, Rest(e), Begun(e)
  PROVE  In(e, IF e.active /\ ~e.done THEN e.req ELSE 0)
<1>1. e.done => ~e.between
  BY DEF Rest, Globals
<1> QED
  BY <1>1 DEF Rest, In

LEMMA RshutdownGood ==
  ASSUME SessionInv, NEW e, Rest(e), Cut(e) => e.conn # 0 /\ e.active /\ Begun(e), NEW f \in Rshutdown(e)
  PROVE  Good(f)
<1>0. Ready(e) /\ Globals(e)
  BY DEF Rest
<1>1. CASE Php
  <2>1. f \in Finish(e, "php") /\ Begun(e) /\ Cause(e, "php")
    BY <1>1 DEF Rshutdown, Php, Begun, Cause
  <2> QED
    BY <1>0, <2>1, RestIn, FinishGood
<1>2. CASE ~Php /\ e.span # 0
  <2>1. f \in Finish(e, "end") /\ Begun(e) /\ Cause(e, "end")
    BY <1>2 DEF Rshutdown, Php, Begun, Cause
  <2> QED
    BY <1>0, <2>1, RestIn, FinishGood
<1>3. CASE ~Php /\ e.span = 0
  <2>1. f = Place(e, "out")
    BY <1>3 DEF Rshutdown, Php, Place
  <2>2. ~e.between /\ ~e.done /\ ~Cut(e)
    BY <1>0, <1>3 DEF Globals, Begun
  <2>3. In(e, 0)
    BY <2>2 DEF Rest
  <2> QED
    BY <1>0, <1>3, <2>1, <2>2, <2>3, OutGood
<1> QED
  BY <1>1, <1>2, <1>3

-----------------------------------------------------------------------------
(* The reply to a command *)

LEMMA ClientOfX ==
  ASSUME SessionInv
  PROVE  x \in Exts /\ hlp \in Helpers /\ (x.conn # 0 => Client(x) = hlp) /\ x.conn <= x.conns
  BY Named DEF Inv, Typed, Client

LEMMA LaterFields ==
  ASSUME NEW e \in Exts, NEW f, f = [e EXCEPT !.late = @ + 1]
  PROVE  /\ f \in Exts /\ f.late = e.late + 1
         /\ f.between = e.between /\ f.done = e.done /\ f.span = e.span
         /\ f.conn = e.conn /\ f.conns = e.conns /\ f.toHelper = e.toHelper
         /\ f.toExt = e.toExt /\ f.req = e.req
<1> DEFINE n == e.late + 1
<1>1. n \in Nat
  BY SMTT(60) DEF Exts
<1>2. f = [e EXCEPT !.late = n]
  OBVIOUS
<1> HIDE DEF n
<1>3. /\ f \in Exts /\ f.late = n
      /\ f.between = e.between /\ f.done = e.done /\ f.span = e.span
      /\ f.conn = e.conn /\ f.conns = e.conns /\ f.toHelper = e.toHelper
      /\ f.toExt = e.toExt /\ f.req = e.req
  BY SMTT(60), <1>1, <1>2 DEF Exts
<1> QED
  BY <1>3 DEF n

(* A reply that push_addresses does not wait for any longer. *)
LEMMA GiveUpGood ==
  ASSUME SessionInv, x.pc = "request_exec", x.why = "push", x.toExt = <<>>, NEW f, f = [x EXCEPT !.late = @ + 1]
  PROVE  Good(Running(f))
<1>0. /\ x \in Exts /\ hlp \in Helpers /\ x.conn # 0 /\ Client(x) = hlp /\ x.late \in Nat /\ x.late < MaxLate
      /\ Typed(x, hlp) /\ Stream(x, hlp, 1) /\ Globals(x)
  BY Named, ClientOfX DEF Inv, Waits, Commands, Exts
<1>1. /\ f \in Exts /\ f.late = x.late + 1
      /\ f.between = x.between /\ f.done = x.done /\ f.span = x.span
      /\ f.conn = x.conn /\ f.conns = x.conns /\ f.toHelper = x.toHelper
      /\ f.toExt = x.toExt /\ f.req = x.req
  BY SMTT(60), <1>0, LaterFields
<1>2. Client(f) = hlp /\ ~Live(f, Client(f)) /\ ~Cut(f) /\ Half(f) = 0 /\ Half(x) = 0
      /\ Asked(f) = Asked(x) /\ Answered(f) = Answered(x) /\ Globals(f)
  BY SMTT(60), <1>0, <1>1 DEF Client, Live, Cut, Half, Asked, Answered, Globals
<1>3. Typed(f, hlp)
  BY SMTT(60), <1>0, <1>1, SessionAssumption DEF Typed
<1>4. Stream(f, hlp, 0)
  <2>1. Asked(x) + Answered(x) <= x.late + 1 + Half(x)
    BY <1>0 DEF Stream
  <2>2. Asked(x) + Answered(x) <= f.late + 0 + Half(f)
    BY SMTT(60), <1>0, <1>1, <1>2, <2>1
  <2> QED
    BY SMTT(60), <1>0, <1>1, <1>2, <2>2 DEF Stream
<1>5. Rest(f)
  BY <1>0, <1>1, <1>2, <1>3, <1>4, ClientOfX DEF Rest, Ready, In
<1> QED
  BY <1>2, <1>5, RunGood

(* No reply, or half of one: the connection is closed. *)
LEMMA NetworkGood ==
  ASSUME SessionInv, x.pc \in Commands, x.toExt = <<>> \/ Cut(x), NEW f \in Resume(x, "network")
  PROVE  Good(f)
<1> DEFINE e == Close(x)
<1>0. Typed(x, hlp) /\ Globals(x) /\ Waits(x) /\ x \in Exts
  BY Named DEF Inv, Typed
<1>1. /\ Ready(e) /\ ~Cut(e) /\ ~Live(e, Client(e)) /\ Globals(e) /\ In(e, 0)
  BY <1>0, ClientOfX, CloseReady
<1>2. Good(Running(e))
  <2>1. Rest(e)
    BY <1>1 DEF Rest, In
  <2> QED
    BY <1>1, <2>1, RunGood
<1>3. /\ e \in Exts /\ e.between = x.between /\ e.done = x.done /\ e.span = x.span /\ e.req = x.req
      /\ e.why = x.why
  BY <1>0, CloseFields
<1>4. CASE x.pc \in {"client_init", "config_sync"}
  <2>1. f = Running(e)
    BY <1>4 DEF Resume, AfterClientInit, AfterSync
  <2> QED
    BY <1>2, <2>1
<1>5. CASE x.pc = "request_init"
  <2>1. f = Running([e EXCEPT !.between = @ \/ "network" \in {"ok", "record", "block"}])
    BY <1>5 DEF Resume, AfterInit
  <2>2. [e EXCEPT !.between = @ \/ "network" \in {"ok", "record", "block"}] = e
    BY <1>3 DEF Exts
  <2> QED
    BY <1>2, <2>1, <2>2
<1>6. CASE x.pc = "request_exec"
  <2>1. ~Cut(x)
    BY <1>0, <1>6 DEF Waits
  <2>2. f = Running(IF x.why = "user" THEN e ELSE [x EXCEPT !.late = @ + 1])
    BY <1>6 DEF Resume, AfterExec
  <2>3. x.why = "user" \/ x.why = "push"
    BY <1>0, <1>6 DEF Waits
  <2>4. CASE x.why = "user"
    BY <1>2, <2>2, <2>4
  <2>5. CASE x.why # "user" /\ x.why = "push"
    <3>1. f = Running([x EXCEPT !.late = @ + 1])
      BY <2>2, <2>5
    <3> QED
      BY <1>6, <2>1, <2>5, <3>1, GiveUpGood
  <2> QED
    BY <2>3, <2>4, <2>5
<1>7. CASE x.pc = "request_shutdown"
  <2>1. f \in Finished(e, x.why)
    BY <1>7 DEF Resume
  <2>2. Cause(e, x.why)
    BY <1>0, <1>3, <1>7 DEF Waits, Cause
  <2> QED
    BY <1>1, <2>1, <2>2, FinishedGood
<1>8. CASE x.pc = "end_sync"
  <2>1. f = Place(e, "out")
    BY <1>8 DEF Resume, Place
  <2>2. ~e.between /\ ~e.done /\ e.span = 0
    BY <1>0, <1>3, <1>8 DEF Waits
  <2> QED
    BY <1>1, <2>1, <2>2, OutGood
<1> QED
  BY <1>4, <1>5, <1>6, <1>7, <1>8 DEF Commands

Read(e) == [e EXCEPT !.toExt = Tail(@)]

LEMMA ReadFields ==
  ASSUME NEW e \in Exts, e.toExt # <<>>, NEW f, f = Read(e)
  PROVE  /\ f \in Exts /\ f.toExt = Tail(e.toExt) /\ f.active = e.active
         /\ f.pc = e.pc /\ f.why = e.why /\ f.between = e.between /\ f.done = e.done /\ f.span = e.span
         /\ f.last = e.last /\ f.conn = e.conn /\ f.conns = e.conns /\ f.toHelper = e.toHelper
         /\ f.req = e.req /\ f.execs = e.execs /\ f.late = e.late
<1> DEFINE rest == Tail(e.toExt)
<1>1. rest \in Seq(Replies)
  BY SMTT(60) DEF Exts
<1>2. f = [e EXCEPT !.toExt = rest]
  BY DEF Read
<1> HIDE DEF rest
<1>3. /\ f \in Exts /\ f.toExt = rest /\ f.active = e.active
      /\ f.pc = e.pc /\ f.why = e.why /\ f.between = e.between /\ f.done = e.done /\ f.span = e.span
      /\ f.last = e.last /\ f.conn = e.conn /\ f.conns = e.conns /\ f.toHelper = e.toHelper
      /\ f.req = e.req /\ f.execs = e.execs /\ f.late = e.late
  BY <1>1, <1>2 DEF Exts
<1> QED
  BY <1>3 DEF rest

(* The reply turns appsec on or off. *)
Switches(e, reply) ==
    reply.type = "config_features" /\ Result(e, reply) = "ok" /\ ~(cfg.fully /\ ~reply.on)

(* e is on or off as the reply says, if it says so. *)
Switched(f, e, reply) == f.active <=> (IF Switches(e, reply) THEN reply.on ELSE e.active)

LEMMA FeaturesFields ==
  ASSUME NEW e \in Exts, NEW reply \in Replies, NEW f, f = Features(e, reply)
  PROVE  /\ f \in Exts /\ Switched(f, e, reply)
         /\ f.pc = e.pc /\ f.why = e.why /\ f.between = e.between /\ f.done = e.done /\ f.span = e.span
         /\ f.last = e.last /\ f.conn = e.conn /\ f.conns = e.conns /\ f.toHelper = e.toHelper
         /\ f.toExt = e.toExt /\ f.req = e.req /\ f.execs = e.execs /\ f.late = e.late
<1>1. CASE Switches(e, reply)
  <2>1. f = [e EXCEPT !.active = reply.on] /\ reply.on \in BOOLEAN
    BY <1>1 DEF Features, Switches, Replies
  <2> QED
    BY SMTT(60), <1>1, <2>1 DEF Exts, Switched
<1>2. CASE ~Switches(e, reply)
  <2>1. f = e
    BY <1>2 DEF Features, Switches
  <2> QED
    BY <1>2, <2>1 DEF Switched
<1> QED
  BY <1>1, <1>2

LEMMA TailOf ==
  ASSUME NEW T, NEW s \in Seq(T), s # <<>>
  PROVE  /\ Tail(s) \in Seq(T) /\ Len(Tail(s)) = Len(s) - 1 /\ Len(s) \in Nat /\ Len(s) >= 1
         /\ Head(s) = s[1] /\ s[1] \in T
         /\ \A i \in 1..Len(Tail(s)) : i + 1 \in 2..Len(s) /\ Tail(s)[i] = s[i + 1]
  BY SMTT(60)

(* The state after the reply is read: nothing is waited for, and the       *)
(* helper has nothing of a connection in step left to do.                  *)
LEMMA Taken ==
  ASSUME SessionInv, x.pc \in Commands, x.toExt # <<>>, ~Cut(x),
         NEW reply, reply = x.toExt[1],
         NEW e, e = Read(x), NEW g, g = Features(e, reply)
  PROVE  /\ g \in Exts /\ reply \in Replies
         /\ Switched(g, x, reply)
         /\ g.pc = x.pc /\ g.why = x.why /\ g.between = x.between /\ g.done = x.done /\ g.span = x.span
         /\ g.last = x.last /\ g.req = x.req /\ g.conn # 0 /\ g.conn = x.conn
         /\ Result(e, reply) = Result(x, reply)
         /\ Client(g) = hlp /\ Ready(g) /\ ~Cut(g) /\ Globals(g)
         /\ Live(g, hlp) <=> Live(x, hlp)
         /\ Live(x, hlp) => x.toHelper = <<>>
<1> DEFINE s == x.toExt
<1>0. /\ x \in Exts /\ hlp \in Helpers /\ x.conn # 0 /\ x.conn <= x.conns
      /\ Typed(x, hlp) /\ Stream(x, hlp, 1) /\ Globals(x) /\ Session(x, hlp)
  BY Named, ClientOfX DEF Inv, Waits
<1>1. s = x.toExt /\ s # <<>> /\ s \in Seq(Replies) /\ x.toHelper \in Seq(Messages) /\ x.late \in Nat
  BY <1>0 DEF Exts
<1> HIDE DEF s
<1>2. /\ Tail(s) \in Seq(Replies) /\ Len(Tail(s)) = Len(s) - 1 /\ Len(s) \in Nat /\ Len(s) >= 1
      /\ reply \in Replies /\ s[1] = reply
      /\ \A i \in 1..Len(Tail(s)) : i + 1 \in 2..Len(s) /\ Tail(s)[i] = s[i + 1]
  BY <1>1, TailOf
<1>3. /\ e \in Exts /\ e.toExt = Tail(s) /\ e.active = x.active
      /\ e.pc = x.pc /\ e.why = x.why /\ e.between = x.between /\ e.done = x.done /\ e.span = x.span
      /\ e.last = x.last /\ e.conn = x.conn /\ e.conns = x.conns /\ e.toHelper = x.toHelper
      /\ e.req = x.req /\ e.execs = x.execs /\ e.late = x.late
  BY SMTT(60), <1>0, <1>1, ReadFields
<1>4. Result(e, reply) = Result(x, reply)
  BY <1>3 DEF Result, ReplyName
<1>6. /\ g \in Exts
      /\ Switched(g, e, reply)
      /\ g.pc = e.pc /\ g.why = e.why /\ g.between = e.between /\ g.done = e.done /\ g.span = e.span
      /\ g.last = e.last /\ g.conn = e.conn /\ g.conns = e.conns /\ g.toHelper = e.toHelper
      /\ g.toExt = e.toExt /\ g.req = e.req /\ g.execs = e.execs /\ g.late = e.late
  <2>1. e \in Exts /\ reply \in Replies
    BY <1>2, <1>3
  <2> QED
    BY SMTT(60), <2>1, FeaturesFields
<1>7. Client(g) = hlp
  BY SMTT(60), <1>0, <1>3, <1>6 DEF Client
<1>8. \A i \in 1..Len(g.toExt) : g.toExt[i].type # "torn"
  <2>1. \A i \in 2..Len(s) : s[i].type # "torn"
    BY <1>0, <1>1 DEF Stream
  <2>2. g.toExt = Tail(s)
    BY <1>3, <1>6
  <2> QED
    BY SMTT(60), <1>2, <2>1, <2>2
<1>9. ~Cut(g) /\ Half(g) = 0 /\ Half(x) = 0
  <2>1. g.toExt # <<>> => 1 \in 1..Len(g.toExt)
    BY SMTT(60), <1>2, <1>3, <1>6
  <2> QED
    BY <1>8, <2>1 DEF Cut, Half
<1>10. /\ Asked(g) = Asked(x) /\ Answered(g) = Answered(x) - 1 /\ Asked(x) \in Nat /\ Answered(x) \in Nat
       /\ Answered(x) >= 1 /\ (Asked(x) = 0 => x.toHelper = <<>>)
  <2>1. g.toExt = Tail(s) /\ g.toHelper = x.toHelper
    BY <1>3, <1>6
  <2> QED
    BY SMTT(60), <1>1, <1>2, <2>1 DEF Asked, Answered
<1>11. Asked(x) + Answered(x) <= x.late + 1 + Half(x)
  BY <1>0 DEF Stream
<1>12. Stream(g, hlp, 0)
  <2>1. Asked(g) + Answered(g) <= g.late + 0 + Half(g)
    <3>1. g.late = x.late
      BY <1>3, <1>6
    <3> QED
      BY SMTT(60), <1>1, <1>9, <1>10, <1>11, <3>1
  <2>2. \A i \in 2..Len(g.toExt) : g.toExt[i].type # "torn"
    BY SMTT(60), <1>2, <1>3, <1>6, <1>8
  <2> QED
    BY <1>0, <1>3, <1>6, <2>1, <2>2 DEF Stream
<1>13. Live(g, hlp) <=> Live(x, hlp)
  BY SMTT(60), <1>3, <1>6 DEF Live
<1>14. Live(x, hlp) => x.toHelper = <<>>
  <2>1. Live(x, hlp) => x.late = 0
    BY DEF Live
  <2> QED
    BY SMTT(60), <1>9, <1>10, <1>11, <2>1
<1>15. Typed(g, hlp)
  BY SMTT(60), <1>0, <1>3, <1>6 DEF Typed
<1>16. Globals(g)
  BY SMTT(60), <1>0, <1>3, <1>6 DEF Globals
<1>17. Ready(g)
  BY <1>0, <1>3, <1>6, <1>7, <1>12, <1>13, <1>15 DEF Ready, Session
<1>18. Switched(g, x, reply)
  BY SMTT(60), <1>3, <1>4, <1>6 DEF Switched, Switches
<1> QED
  BY SMTT(60), <1>0, <1>2, <1>3, <1>4, <1>18, <1>6, <1>7, <1>9, <1>13, <1>14, <1>16, <1>17

(* g is the state after the reply is read. *)
Took(g, reply) ==
    /\ reply \in Replies /\ reply = x.toExt[1] /\ x.toExt # <<>> /\ reply.type # "torn"
    /\ g \in Exts /\ Switched(g, x, reply)
    /\ g.pc = x.pc /\ g.why = x.why /\ g.between = x.between /\ g.done = x.done /\ g.span = x.span
    /\ g.last = x.last /\ g.req = x.req /\ g.conn # 0
    /\ Client(g) = hlp /\ Ready(g) /\ ~Cut(g) /\ Globals(g)
    /\ Live(g, hlp) => Live(x, hlp) /\ x.toHelper = <<>>

LEMMA Results ==
  ASSUME NEW reply \in Replies, reply.type # "torn", NEW e
  PROVE  Result(e, reply) \in {"ok", "record", "block", "error"}
  BY DEF Result, Replies, Verdicts

LEMMA OnlySwitch ==
  ASSUME NEW g, NEW reply, Switched(g, x, reply), reply.type # "config_features"
  PROVE  g.active <=> x.active
  BY DEF Switched, Switches

(* What SessionInv says of a connection that is in step once the reply is read. *)
LEMMA TookSession ==
  ASSUME SessionInv, NEW g, NEW reply, Took(g, reply)
  PROVE  /\ Waits(x) /\ x \in Exts /\ g \in Exts
         /\ Live(g, hlp) => Context(x, hlp) /\ Follows(x, hlp) /\ x.toHelper = <<>> /\ Enables(hlp)
  BY Named DEF Inv, Typed, Took, Session

LEMMA ClosedRuns ==
  ASSUME SessionInv, NEW e, Ready(e), Globals(e)
  PROVE  Good(Running(Close(e)))
<1>1. Typed(e, Client(e)) /\ x.conn <= e.conns
  BY DEF Ready
<1> DEFINE f == Close(e)
<1>2. Ready(f) /\ ~Cut(f) /\ ~Live(f, Client(f)) /\ Globals(f)
  BY <1>1, CloseReady
<1> HIDE DEF f
<1>3. Rest(f)
  BY <1>2 DEF Rest, In
<1>4. Good(Running(f))
  BY <1>2, <1>3, RunGood
<1> QED
  BY <1>4 DEF f

LEMMA TookClientInit ==
  ASSUME SessionInv, NEW g, NEW reply, Took(g, reply), x.pc = "client_init",
         NEW f \in AfterClientInit(g, Result(x, reply))
  PROVE  Good(f)
<1>0. /\ Waits(x) /\ x \in Exts /\ g \in Exts
      /\ Live(g, hlp) => Context(x, hlp) /\ Follows(x, hlp) /\ x.toHelper = <<>> /\ Enables(hlp)
  BY TookSession
<1>1. /\ Ready(g) /\ Globals(g) /\ ~Cut(g) /\ g.conn # 0 /\ Client(g) = hlp
      /\ g.between = x.between /\ g.done = x.done /\ g.span = x.span
  BY DEF Took
<1>2. CASE Result(x, reply) = "ok"
  <2>1. f \in Connected(g)
    BY <1>2 DEF AfterClientInit
  <2>2. ~g.between /\ ~g.done /\ Begun(g)
    BY <1>0, <1>1 DEF Waits, Begun
  <2>3. Live(g, hlp) => hlp.ctx = 0 /\ (~cfg.emptyEnv => hlp.path = path)
    BY <1>0 DEF Context, Follows
  <2> QED
    BY <1>1, <2>1, <2>2, <2>3, ConnectedGood
<1>3. CASE Result(x, reply) # "ok"
  <2>1. f = Running(Close(g))
    BY <1>3 DEF AfterClientInit
  <2> QED
    BY <1>1, <2>1, ClosedRuns
<1> QED
  BY <1>2, <1>3

LEMMA TookSync ==
  ASSUME SessionInv, NEW g, NEW reply, Took(g, reply), x.pc = "config_sync",
         NEW f \in AfterSync(g, Result(x, reply))
  PROVE  Good(f)
<1>0. /\ Waits(x) /\ x \in Exts /\ g \in Exts
      /\ Live(g, hlp) => Context(x, hlp) /\ Follows(x, hlp) /\ x.toHelper = <<>> /\ Enables(hlp)
  BY TookSession
<1>1. /\ Ready(g) /\ Globals(g) /\ ~Cut(g) /\ g.conn # 0 /\ Client(g) = hlp
      /\ g.between = x.between /\ g.done = x.done /\ g.span = x.span /\ g.last = x.last
      /\ reply \in Replies /\ reply.type # "torn" /\ reply = x.toExt[1] /\ x.toExt # <<>>
  BY DEF Took
<1>2. ~g.between /\ ~g.done /\ Begun(g)
  BY <1>0, <1>1 DEF Waits, Begun
<1>3. Live(g, hlp) => hlp.ctx = 0 /\ (~cfg.emptyEnv => hlp.path = g.last) /\ Result(x, reply) = "ok"
  BY <1>0, <1>1 DEF Context, Follows, Result, ReplyName
<1>4. In(g, 0)
  BY <1>1, <1>3 DEF In
<1>5. Result(x, reply) # "network"
  BY <1>1, Results
<1>6. CASE Result(x, reply) = "ok" /\ g.active
  <2>1. f = Ask(g, "request_init", "none")
    BY <1>6 DEF AfterSync
  <2> QED
    BY <1>1, <1>2, <1>4, <1>6, <2>1, InitGood
<1>7. CASE ~(Result(x, reply) = "ok" /\ g.active)
  <2>1. f = Running(g)
    BY <1>5, <1>7 DEF AfterSync
  <2>2. Rest(g)
    BY <1>1, <1>2, <1>3, <1>4, <1>7 DEF Rest
  <2> QED
    BY <1>1, <2>1, <2>2, RunGood
<1> QED
  BY <1>6, <1>7

(* The request has begun for the extension. *)
Entered(e, b) == [e EXCEPT !.between = b]

LEMMA EnteredFields ==
  ASSUME NEW e \in Exts, NEW b \in BOOLEAN, NEW f, f = Entered(e, b)
  PROVE  /\ f \in Exts /\ (f.between <=> b) /\ (f.active <=> e.active) /\ (f.done <=> e.done)
         /\ f.span = e.span /\ f.last = e.last
         /\ f.conn = e.conn /\ f.conns = e.conns /\ f.toHelper = e.toHelper
         /\ f.toExt = e.toExt /\ f.req = e.req /\ f.late = e.late
  BY DEF Entered, Exts

LEMMA TookInit ==
  ASSUME SessionInv, NEW g, NEW reply, Took(g, reply), x.pc = "request_init",
         NEW f \in AfterInit(g, Result(x, reply))
  PROVE  Good(f)
<1> DEFINE r == Result(x, reply)
           b == g.between \/ r \in {"ok", "record", "block"}
           e == Entered(g, b)
<1>0. /\ Waits(x) /\ x \in Exts /\ g \in Exts
      /\ Live(g, hlp) => Context(x, hlp) /\ Follows(x, hlp) /\ x.toHelper = <<>> /\ Enables(hlp)
  BY TookSession
<1>1. /\ Ready(g) /\ Globals(g) /\ ~Cut(g) /\ g.conn # 0 /\ Client(g) = hlp
      /\ g.between = x.between /\ g.done = x.done /\ g.span = x.span /\ g.last = x.last /\ g.req = x.req
      /\ reply \in Replies /\ reply.type # "torn" /\ reply = x.toExt[1] /\ x.toExt # <<>>
      /\ Switched(g, x, reply)
  BY DEF Took
<1>2. ~g.between /\ ~g.done /\ Begun(g) /\ x.active
  BY <1>0, <1>1 DEF Waits, Begun
<1>3. Live(g, hlp) => /\ r \in {"ok", "record", "block"}
                      /\ hlp.ctx = IF g.active THEN g.req ELSE 0
                      /\ ~cfg.emptyEnv => hlp.path = g.last
  <2>1. ASSUME Live(g, hlp)
        PROVE  \/ reply.type = "request_init" /\ reply.verdict \in Verdicts /\ hlp.ctx = x.req
               \/ reply.type = "config_features" /\ ~reply.on /\ ~cfg.fully /\ hlp.ctx = 0
    BY <1>0, <1>1, <2>1 DEF Context
  <2>2. ASSUME Live(g, hlp) PROVE ~cfg.emptyEnv => hlp.path = g.last
    BY <1>0, <1>1, <2>2 DEF Follows
  <2>3. ASSUME reply.type = "request_init", reply.verdict \in Verdicts
        PROVE  r \in {"ok", "record", "block"} /\ g.active
    <3>1. g.active
      BY <1>1, <1>2, <2>3, OnlySwitch
    <3> QED
      BY <2>3, <3>1 DEF Result, ReplyName, Verdicts
  <2>4. ASSUME reply.type = "config_features", ~reply.on, ~cfg.fully
        PROVE  r = "ok" /\ ~g.active
    <3>1. r = "ok"
      BY <2>4 DEF Result, ReplyName
    <3>2. Switches(x, reply)
      BY <2>4, <3>1 DEF Switches
    <3> QED
      BY <1>1, <2>4, <3>1, <3>2 DEF Switched
  <2> QED
    BY <1>1, <2>1, <2>2, <2>3, <2>4
<1>4. f \in IF r = "block" /\ Php THEN Finish(e, "startup") ELSE {Running(e)}
  BY DEF AfterInit, AbortAtBegin, Entered, Php
<1>5. b \in BOOLEAN /\ (r \in {"ok", "record", "block"} => b)
  BY <1>0 DEF Exts
<1> HIDE DEF r, b
<1>6. /\ e \in Exts /\ (e.between <=> b) /\ (e.active <=> g.active) /\ (e.done <=> g.done)
      /\ e.span = g.span /\ e.last = g.last
      /\ e.conn = g.conn /\ e.conns = g.conns /\ e.toHelper = g.toHelper
      /\ e.toExt = g.toExt /\ e.req = g.req /\ e.late = g.late
  BY SMTT(60), <1>0, <1>5, EnteredFields
<1> HIDE DEF e
<1>7. g.req \in Nat /\ g.req <= MaxRequests
  BY <1>0, <1>1 DEF Ready, Typed, Exts
<1>8. Ready(e) /\ Client(e) = hlp /\ ~Cut(e) /\ (Live(e, hlp) <=> Live(g, hlp))
  BY SMTT(60), <1>1, <1>6, <1>7, ReadyFrame
<1>9. Globals(e)
  BY <1>1, <1>2, <1>6 DEF Globals, Begun
<1>10. Rest(e)
  <2>1. In(e, IF e.active /\ e.between THEN e.req ELSE 0)
    BY <1>3, <1>5, <1>6, <1>8 DEF In
  <2>2. Live(e, hlp) => e.between
    BY <1>3, <1>5, <1>6, <1>8
  <2> QED
    BY <1>8, <1>9, <2>1, <2>2 DEF Rest
<1>11. CASE r = "block" /\ Php
  <2>1. Begun(e)
    BY <1>11 DEF Begun
  <2>2. Cause(e, "startup")
    BY <1>11 DEF Cause
  <2>3. In(e, IF e.active /\ ~e.done THEN e.req ELSE 0)
    BY <1>10, <2>1, RestIn
  <2> QED
    BY <1>4, <1>8, <1>9, <1>11, <2>2, <2>3, FinishGood
<1>12. CASE ~(r = "block" /\ Php)
  <2>1. f = Running(e)
    BY <1>4, <1>12
  <2> QED
    BY <1>8, <1>10, <2>1, RunGood
<1> QED
  BY <1>11, <1>12

LEMMA TookExec ==
  ASSUME SessionInv, NEW g, NEW reply, Took(g, reply), x.pc = "request_exec",
         NEW f \in AfterExec(g, Result(x, reply))
  PROVE  Good(f)
<1>0. /\ Waits(x) /\ x \in Exts /\ g \in Exts
      /\ Live(g, hlp) => Context(x, hlp) /\ Follows(x, hlp) /\ x.toHelper = <<>> /\ Enables(hlp)
  BY TookSession
<1>1. /\ Ready(g) /\ Globals(g) /\ ~Cut(g) /\ g.conn # 0 /\ Client(g) = hlp
      /\ g.between = x.between /\ g.done = x.done /\ g.span = x.span /\ g.last = x.last /\ g.req = x.req
      /\ reply \in Replies /\ reply.type # "torn" /\ Switched(g, x, reply)
  BY DEF Took
<1>2. g.active /\ g.between
  <2>1. x.active /\ x.between
    BY <1>0 DEF Waits
  <2>2. ~Switches(x, reply)
    BY DEF Switches, Result, ReplyName
  <2> QED
    BY <1>1, <2>1, <2>2 DEF Switched
<1>3. Rest(g)
  <2>1. Live(g, hlp) => hlp.ctx = g.req /\ (~cfg.emptyEnv => hlp.path = g.last)
    BY <1>0, <1>1 DEF Context, Follows
  <2> QED
    BY <1>1, <1>2, <2>1 DEF Rest, In
<1>4. f = Running(g) \/ f \in Rshutdown(g)
  <2>1. Result(x, reply) # "network"
    BY <1>1, Results
  <2> QED
    BY <2>1 DEF AfterExec, AbortMidRequest
<1> QED
  BY <1>1, <1>3, <1>4, RunGood, RshutdownGood

LEMMA TookShutdown ==
  ASSUME SessionInv, NEW g, NEW reply, Took(g, reply), x.pc = "request_shutdown",
         NEW f \in Finished(g, x.why)
  PROVE  Good(f)
<1>0. /\ Waits(x) /\ x \in Exts /\ g \in Exts
      /\ Live(g, hlp) => Context(x, hlp) /\ Follows(x, hlp) /\ x.toHelper = <<>> /\ Enables(hlp)
  BY TookSession
<1>1. /\ Ready(g) /\ Globals(g) /\ ~Cut(g) /\ Client(g) = hlp
      /\ g.span = x.span /\ g.last = x.last /\ g.req = x.req
  BY DEF Took
<1>2. In(g, 0)
  <2>1. Live(g, hlp) => hlp.ctx = 0 /\ (~cfg.emptyEnv => hlp.path = g.last)
    BY <1>0, <1>1 DEF Context, Follows
  <2> QED
    BY <1>1, <2>1 DEF In
<1>3. Cause(g, x.why)
  BY <1>0, <1>1 DEF Waits, Cause
<1> QED
  BY <1>1, <1>2, <1>3, FinishedGood

LEMMA TookEnd ==
  ASSUME SessionInv, NEW g, NEW reply, Took(g, reply), x.pc = "end_sync"
  PROVE  Good(Place(g, "out"))
<1>0. /\ Waits(x) /\ x \in Exts /\ g \in Exts
      /\ Live(g, hlp) => Context(x, hlp) /\ Follows(x, hlp) /\ x.toHelper = <<>> /\ Enables(hlp)
  BY TookSession
<1>1. /\ Ready(g) /\ Globals(g) /\ ~Cut(g) /\ Client(g) = hlp
      /\ g.between = x.between /\ g.done = x.done /\ g.span = x.span /\ g.last = x.last
  BY DEF Took
<1>2. In(g, 0)
  <2>1. Live(g, hlp) => hlp.ctx = 0 /\ (~cfg.emptyEnv => hlp.path = g.last)
    BY <1>0, <1>1 DEF Context, Follows
  <2> QED
    BY <1>1, <2>1 DEF In
<1>3. ~g.between /\ ~g.done /\ g.span = 0
  BY <1>0, <1>1 DEF Waits
<1> QED
  BY <1>1, <1>2, <1>3, OutGood

LEMMA ReplyGood ==
  ASSUME SessionInv, NEW g, NEW reply, Took(g, reply), x.pc \in Commands,
         NEW f \in Resume(g, Result(x, reply))
  PROVE  Good(f)
<1> DEFINE r == Result(x, reply)
<1>0. g.pc = x.pc /\ g.why = x.why /\ r # "network"
  BY Results DEF Took
<1>1. CASE x.pc = "client_init"
  BY <1>0, <1>1, TookClientInit DEF Resume
<1>2. CASE x.pc = "config_sync"
  BY <1>0, <1>2, TookSync DEF Resume
<1>3. CASE x.pc = "request_init"
  BY <1>0, <1>3, TookInit DEF Resume
<1>4. CASE x.pc = "request_exec"
  BY <1>0, <1>4, TookExec DEF Resume
<1>5. CASE x.pc = "request_shutdown"
  BY <1>0, <1>5, TookShutdown DEF Resume
<1>6. CASE x.pc = "end_sync"
  <2>1. f = Place(g, "out")
    BY <1>0, <1>6 DEF Resume, Place
  <2> QED
    BY <1>6, <2>1, TookEnd
<1> QED
  BY <1>1, <1>2, <1>3, <1>4, <1>5, <1>6 DEF Commands

=============================================================================
