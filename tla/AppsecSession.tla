---------------------------- MODULE AppsecSession ----------------------------
(***************************************************************************)
(* One PHP worker of the appsec extension and the helper process it asks   *)
(* for verdicts (appsec/src/extension/request_lifecycle.c and its commands *)
(* against appsec/src/helper/client.cpp or appsec/helper-rust/client.rs).  *)
(*                                                                         *)
(* The extension sends one command and waits for one reply; both travel on *)
(* one stream, so a reply that is late is read as the reply to the next    *)
(* command unless the connection is closed in between.  A message carries  *)
(* the request it is about; payloads are left out, a verdict is ok, record *)
(* or block (redirect is treated like block everywhere).                   *)
(*                                                                         *)
(* The PHP request drives appsec ("php"), or the user requests of the      *)
(* tracer do ("user").  A reply that takes too long and a helper that has  *)
(* gone away look the same to the extension: dd_network.                   *)
(***************************************************************************)
EXTENDS Naturals, Sequences

CONSTANTS Paths,        \* remote configuration paths, None included
          None,         \* the empty path
          Lifecycles,   \* the lifecycles checked, among "php" and "user"
          Runtimes,     \* the helpers checked, among "cpp" and "rust"
          MaxRequests,  \* bound: requests
          MaxConns,     \* bound: connections
          MaxExecs,     \* bound: request_exec commands of a request
          MaxLate       \* bound: replies given up on a connection that is kept

ASSUME SessionAssumption ==
    /\ None \in Paths
    /\ Lifecycles \subseteq {"php", "user"} /\ Runtimes \subseteq {"cpp", "rust"}
    /\ MaxRequests \in Nat /\ MaxConns \in Nat /\ MaxExecs \in Nat /\ MaxLate \in Nat

VARIABLES
    cfg,   \* the settings of the process
    path,  \* the tracer's remote configuration path
    asm,   \* the paths whose configuration enables appsec
    x,     \* the extension and its connection
    hlp    \* the helper's client for this connection

vars == <<cfg, path, asm, x, hlp>>

Verdicts == {"ok", "record", "block"}
Commands == {"client_init", "config_sync", "request_init", "request_exec", "request_shutdown", "end_sync"}

Idle == [pc |-> "out", why |-> "none", active |-> FALSE, between |-> FALSE, done |-> FALSE, span |-> 0,
         last |-> None, conn |-> 0, conns |-> 0, toHelper |-> <<>>, toExt |-> <<>>,
         req |-> 0, execs |-> 0, late |-> 0]

Gone == [phase |-> "gone", enabled |-> FALSE, ctx |-> 0, path |-> None]
Accepted == [Gone EXCEPT !.phase = "init"]

\* _check_enabled: appsec is enabled by the configuration or left to remote configuration.
Init ==
    /\ cfg \in [lifecycle : Lifecycles, runtime : Runtimes, fully : BOOLEAN, emptyEnv : BOOLEAN]
    /\ cfg.lifecycle = "user" => ~cfg.emptyEnv
    /\ path = None
    /\ asm \in SUBSET (Paths \ {None})
    /\ x = [Idle EXCEPT !.active = cfg.fully]
    /\ hlp = Gone

-----------------------------------------------------------------------------
(* The connection *)

\* dd_helper_close_conn
Close(e) == [e EXCEPT !.conn = 0, !.toHelper = <<>>, !.toExt = <<>>, !.late = 0]

\* _omsg_send: pc is the command whose reply the extension waits for.  Bytes for a helper that has
\* gone are lost.
Send(e, command, why, alive) ==
    [e EXCEPT !.pc = command, !.why = why,
              !.toHelper = IF alive
                           THEN Append(@, [name |-> IF command = "end_sync" THEN "config_sync" ELSE command,
                                           req |-> e.req, path |-> IF command = "client_init" THEN path ELSE e.last,
                                           again |-> e.done])
                           ELSE @]

Alive(e) == e.conn # 0 /\ (e.conn # x.conn \/ hlp.phase # "gone")
Ask(e, command, why) == Send(e, command, why, Alive(e))

\* _rem_cfg_path_changed
PathChanged(e, ignoreEmpty) ==
    /\ ~(ignoreEmpty /\ cfg.emptyEnv /\ e.last # None)
    /\ path # e.last

-----------------------------------------------------------------------------
(* The extension: each operator takes the extension's state to the set of  *)
(* states in which it next waits for a reply or runs PHP code.             *)

Running(e) == [e EXCEPT !.pc = "run", !.why = "none"]

\* _reset_globals
ResetGlobals(e) == [e EXCEPT !.span = 0, !.between = FALSE, !.done = FALSE]

\* mutant: config_sync is sent with the path before
ConnectedOldPath(e) ==
    IF PathChanged(e, TRUE) \/ (~e.active /\ ~cfg.fully)
    THEN {[Ask(e, "config_sync", "none") EXCEPT !.last = IF PathChanged(e, TRUE) THEN path ELSE @]}
    ELSE IF e.active THEN {Ask(e, "request_init", "none")} ELSE {Running(e)}

\* _do_request_begin from the point where it has a connection
Connected(e) ==
    IF PathChanged(e, TRUE) \/ (~e.active /\ ~cfg.fully)
    THEN {Ask([e EXCEPT !.last = IF PathChanged(e, TRUE) THEN path ELSE @], "config_sync", "none")}
    ELSE IF e.active THEN {Ask(e, "request_init", "none")} ELSE {Running(e)}

\* _do_request_begin with dd_helper_mgr_acquire_conn, which may give no connection (a failure, or
\* the backoff of module HelperBackoff).
Begin(e) ==
    LET begun == [e EXCEPT !.req = @ + 1, !.execs = 0]
        fresh == [begun EXCEPT !.conn = begun.conns + 1, !.conns = @ + 1]
    IN  IF e.conn # 0 THEN Connected(begun)
        ELSE {Running(begun)} \cup {f \in {Ask(fresh, "client_init", "none")} : f.conns <= MaxConns}

\* The end of _do_req_lifecycle_rshutdown: the synchronisation of the path for want of a service.
EndSync(e, why) ==
    LET changed == [e EXCEPT !.last = path]
    IN  IF cfg.emptyEnv /\ PathChanged(e, FALSE)
        THEN IF e.conn = 0 THEN [changed EXCEPT !.pc = "out", !.why = "none"] ELSE Ask(changed, "end_sync", why)
        ELSE [e EXCEPT !.pc = "out", !.why = "none"]

\* mutant: a commit does not note that the shutdown is done
FinishedUnnoted(e, why) ==
    CASE why \in {"php", "startup"} -> {EndSync(ResetGlobals(e), why)}
      [] why = "start"  -> Begin([ResetGlobals(e) EXCEPT !.span = e.req + 1])
      [] why = "commit" -> {Running([e EXCEPT !.between = FALSE])}
      [] why = "finish" -> {Running(ResetGlobals(e))}
      [] why = "end"    -> {[ResetGlobals(e) EXCEPT !.pc = "out", !.why = "none"]}

\* What follows request_shutdown: _do_request_finish_php in the PHP lifecycle, also when
\* _emit_error runs the shutdown of a request blocked at its start; and in the user's the callers of
\* _do_request_finish_user_req: _start_user_req, _response_commit, _finish_user_req and rshutdown.
Finished(e, why) ==
    CASE why \in {"php", "startup"} -> {EndSync(ResetGlobals(e), why)}
      [] why = "start"  -> Begin([ResetGlobals(e) EXCEPT !.span = e.req + 1])
      [] why = "commit" -> {Running([e EXCEPT !.done = TRUE, !.between = FALSE])}
      [] why = "finish" -> {Running(ResetGlobals(e))}
      [] why = "end"    -> {[ResetGlobals(e) EXCEPT !.pc = "out", !.why = "none"]}

\* _do_request_finish_php, _do_request_finish_user_req
Finish(e, why) ==
    IF e.conn # 0 /\ e.active THEN {Ask(e, "request_shutdown", why)} ELSE Finished(e, why)

\* dd_req_lifecycle_rshutdown
Rshutdown(e) ==
    IF cfg.lifecycle = "php" THEN Finish(e, "php")
    ELSE IF e.span # 0 THEN Finish(e, "end") ELSE {[e EXCEPT !.pc = "out", !.why = "none"]}

\* _emit_error during the start of the PHP request: it runs the extension's RSHUTDOWN, with the
\* verdict ignored, as PHP will not.
AbortAtBegin(e) == Finish(e, "startup")

\* dd_req_lifecycle_abort in the middle of a request: the error ends the script of a PHP request; in a user
\* request the blocking function is called and the script goes on.
AbortMidRequest(e) == IF cfg.lifecycle = "php" THEN Rshutdown(e) ELSE {Running(e)}

\* After a verdict to request_init.  The PHP lifecycle ends a blocked request there and then; the
\* user's gets the response to send, and may go on.
AfterInit(e, result) ==
    LET started == [e EXCEPT !.between = @ \/ result \in {"ok", "record", "block"}]
    IN  IF result = "block" /\ cfg.lifecycle = "php" THEN AbortAtBegin(started) ELSE {Running(started)}

\* mutant: neither caller closes the connection
AfterExecOpen(e, result) == IF result = "block" THEN AbortMidRequest(e) ELSE {Running(e)}

\* After request_exec: datadog_appsec_push_addresses ("push") keeps a connection that timed out,
\* dd_find_and_apply_verdict_for_user ("user") closes it.
AfterExec(e, result) ==
    CASE result = "network" -> {Running(IF e.why = "user" THEN Close(e) ELSE [e EXCEPT !.late = @ + 1])}
      [] result = "block" -> AbortMidRequest(e)
      [] OTHER -> {Running(e)}

\* The end of dd_helper_mgr_acquire_conn
AfterClientInit(e, result) == IF result = "ok" THEN Connected(e) ELSE {Running(Close(e))}

\* _do_request_begin after config_sync
AfterSync(e, result) ==
    CASE result = "network" -> {Running(Close(e))}
      [] result = "ok" /\ e.active -> {Ask(e, "request_init", "none")}
      [] OTHER -> {Running(e)}

\* What the extension does with the result of the command it waited for.
Resume(e, result) ==
    LET kept == IF result = "network" THEN Close(e) ELSE e
    IN  CASE e.pc = "client_init"      -> AfterClientInit(e, result)
          [] e.pc = "config_sync"      -> AfterSync(e, result)
          [] e.pc = "request_init"     -> AfterInit(kept, result)
          [] e.pc = "request_exec"     -> AfterExec(e, result)
          [] e.pc = "request_shutdown" -> Finished(kept, e.why)
          [] e.pc = "end_sync"         -> {[kept EXCEPT !.pc = "out", !.why = "none"]}

\* The name a reply must have to be the reply to the command.
ReplyName(e) == IF e.pc = "end_sync" THEN "config_sync" ELSE e.pc

\* _dd_command_exec: result of a reply.  config_features is for config_sync and request_init only;
\* any other reply of the wrong type is dd_error, which leaves the connection open.
Result(e, reply) ==
    CASE reply.type = "torn" -> "network"
      [] reply.type = "config_features" -> IF ReplyName(e) \in {"config_sync", "request_init"} THEN "ok" ELSE "error"
      [] reply.type = ReplyName(e) -> reply.verdict
      [] OTHER -> "error"

\* dd_command_process_config_features
Features(e, reply) ==
    IF reply.type = "config_features" /\ Result(e, reply) = "ok" /\ ~(cfg.fully /\ ~reply.on)
    THEN [e EXCEPT !.active = reply.on] ELSE e

\* The helper's client belongs to the connection.
FollowConnection ==
    hlp' = IF x'.conn = 0 THEN Gone ELSE IF x'.conn # x.conn THEN Accepted ELSE hlp

Extension(next) == x' \in next /\ FollowConnection /\ UNCHANGED <<cfg, asm>>

-----------------------------------------------------------------------------
(* Steps of the extension *)

\* PHP_RINIT: the tracer's RINIT ran before and has set its path.
Rinit(p) ==
    /\ x.pc = "out" /\ x.req < MaxRequests
    /\ path' = p
    /\ x' = [x EXCEPT !.pc = "rinit"]
    /\ UNCHANGED <<cfg, asm, hlp>>

\* dd_req_lifecycle_rinit
RequestBegin ==
    /\ x.pc = "rinit"
    /\ Extension(IF cfg.lifecycle = "php" THEN Begin(x) ELSE {Running(x)})
    /\ UNCHANGED path

\* The tracer follows a change of the service or environment.
ChangePath(p) ==
    /\ x.pc = "run" /\ p # path
    /\ path' = p
    /\ UNCHANGED <<cfg, asm, x, hlp>>

\* _start_user_req: the request before is finished first.
StartUserReq ==
    /\ x.pc = "run" /\ cfg.lifecycle = "user" /\ x.req < MaxRequests
    /\ Extension(IF x.span # 0 THEN Finish(x, "start") ELSE Begin([x EXCEPT !.span = x.req + 1]))
    /\ UNCHANGED path

\* _response_commit
ResponseCommit ==
    /\ x.pc = "run" /\ cfg.lifecycle = "user" /\ x.span # 0 /\ ~x.done
    /\ Extension(Finish(x, "commit"))
    /\ UNCHANGED path

\* _finish_user_req, for the current request or (not its span) another one: the globals are reset
\* and the shutdown is sent all the same.
FinishUserReq(own) ==
    /\ x.pc = "run" /\ cfg.lifecycle = "user"
    /\ Extension(IF x.done \/ x.span = 0 THEN {ResetGlobals(x)}
                 ELSE Finish(IF own THEN x ELSE ResetGlobals(x), "finish"))
    /\ UNCHANGED path

\* mutant: whether the helper is inside the request is not asked
RequestExecUntracked(why) ==
    /\ x.pc = "run" /\ x.active /\ x.conn # 0 /\ x.execs < MaxExecs
    /\ why = "push" => x.late < MaxLate
    /\ Extension({Ask([x EXCEPT !.execs = @ + 1], "request_exec", why)})
    /\ UNCHANGED path

\* datadog_appsec_push_addresses and dd_find_and_apply_verdict_for_user, while
\* dd_req_lifecycle_is_active.
RequestExec(why) ==
    /\ x.pc = "run" /\ x.between /\ x.active /\ x.conn # 0 /\ x.execs < MaxExecs
    /\ why = "push" => x.late < MaxLate
    /\ Extension({Ask([x EXCEPT !.execs = @ + 1], "request_exec", why)})
    /\ UNCHANGED path

\* PHP_RSHUTDOWN at the end of the script
RequestEnd ==
    /\ x.pc = "run"
    /\ Extension(Rshutdown(x))
    /\ UNCHANGED path

\* _imsg_recv finds a reply.  A reply read from its middle stays unreadable.
Receive ==
    /\ x.pc \in Commands /\ x.toExt # <<>>
    /\ LET reply == Head(x.toExt)
           read == IF reply.type = "torn" THEN x ELSE [x EXCEPT !.toExt = Tail(@)]
       IN  Extension(Resume(Features(read, reply), Result(read, reply)))
    /\ UNCHANGED path

\* The reply does not come in time, or the helper has gone.
TimedOut ==
    /\ x.pc \in Commands /\ x.toExt = <<>>
    /\ Extension(Resume(x, "network"))
    /\ UNCHANGED path

\* _recv_message_body meets the memory limit: the script is over, its reply half read.
MemoryLimit ==
    /\ x.pc = "request_exec" /\ x.toExt # <<>> /\ x.toExt[1].type # "torn"
    /\ Extension(Rshutdown([x EXCEPT !.toExt[1].type = "torn"]))
    /\ UNCHANGED path

\* dd_req_lifecycle_rshutdown catches a bailout.
BailoutAtShutdown ==
    /\ x.pc \in {"request_shutdown", "end_sync"} /\ x.why \in {"php", "startup", "end"}
    /\ Extension({[Close(ResetGlobals(x)) EXCEPT !.pc = "out", !.why = "none"]})
    /\ UNCHANGED path

-----------------------------------------------------------------------------
(* Steps of the helper *)

\* compute_client_status; asm_enabled of the configuration snapshot
Enabled(p) == cfg.fully \/ p \in asm

Reply(type, verdict) == [type |-> type, verdict |-> verdict, on |-> FALSE]
ConfigFeatures(on) == [type |-> "config_features", verdict |-> "ok", on |-> on]

\* The helper answers the first message, and ends the connection with a next state Gone.
Answer(next, replies) ==
    /\ x' = [x EXCEPT !.toHelper = IF next = Gone THEN <<>> ELSE Tail(@), !.toExt = @ \o replies]
    /\ hlp' = next
    /\ UNCHANGED <<cfg, path, asm>>

\* An evaluation by the WAF: a verdict, or an error that ends the connection.
Publish(name, next) ==
    \/ \E v \in Verdicts : Answer(next, <<Reply(name, v)>>)
    \/ Answer(Gone, <<Reply("error", "error")>>)

Pending(name) == x.conn # 0 /\ hlp.phase # "gone" /\ x.toHelper # <<>> /\ Head(x.toHelper).name = name
Message == Head(x.toHelper)

\* handle_command(client_init), handle_client_init: the service of the path is found or built.
HandleClientInit ==
    /\ Pending("client_init")
    /\ \/ Answer([hlp EXCEPT !.phase = "serve", !.path = Message.path], <<Reply("client_init", "ok")>>)
       \/ Answer(Gone, <<Reply("client_init", "error")>>)

\* handle_command(config_sync), do_request_loop_iter: the Rust helper takes it between requests only.
HandleConfigSync ==
    /\ Pending("config_sync")
    /\ LET on == Enabled(Message.path)
       IN  IF cfg.runtime = "rust" /\ hlp.ctx # 0 THEN Answer(Gone, <<>>)
           ELSE Answer([hlp EXCEPT !.path = Message.path, !.enabled = on],
                       <<IF on THEN ConfigFeatures(TRUE) ELSE Reply("config_sync", "ok")>>)

\* handle_command(request_init), do_request_loop_iter
HandleRequestInit ==
    /\ Pending("request_init")
    /\ LET on == Enabled(hlp.path)
       IN  IF cfg.runtime = "rust" /\ hlp.ctx # 0 THEN Answer(Gone, <<>>)
           ELSE IF ~on THEN Answer([hlp EXCEPT !.enabled = FALSE], <<ConfigFeatures(FALSE)>>)
           ELSE Publish("request_init", [hlp EXCEPT !.enabled = TRUE, !.ctx = Message.req])

\* A command the helper does not expect in its state: an error reply from the C++ helper, the end
\* of the connection for the Rust one.
Unexpected ==
    IF cfg.runtime = "rust" THEN Answer(Gone, <<>>)
    ELSE Answer([hlp EXCEPT !.enabled = Enabled(hlp.path)], <<Reply("error", "error")>>)

InRequest == IF cfg.runtime = "rust" THEN hlp.ctx # 0 ELSE hlp.enabled

\* handle_command(request_exec), run_request: the C++ helper makes up a context if it has none.
HandleRequestExec ==
    /\ Pending("request_exec")
    /\ IF InRequest
       THEN Publish("request_exec", [hlp EXCEPT !.ctx = IF @ = 0 THEN Message.req ELSE @])
       ELSE Unexpected

\* handle_command(request_shutdown), run_request: the context is freed.
HandleRequestShutdown ==
    /\ Pending("request_shutdown")
    /\ IF InRequest THEN Publish("request_shutdown", [hlp EXCEPT !.ctx = 0]) ELSE Unexpected

\* The helper process or its thread for this client ends.
HelperDies ==
    /\ hlp.phase # "gone"
    /\ hlp' = Gone
    /\ x' = [x EXCEPT !.toHelper = <<>>]
    /\ UNCHANGED <<cfg, path, asm>>

\* Remote configuration enables or disables appsec for a path.
RemoteConfig(p) ==
    /\ asm' = IF p \in asm THEN asm \ {p} ELSE asm \cup {p}
    /\ UNCHANGED <<cfg, path, x, hlp>>

Next ==
    \/ \E p \in Paths : Rinit(p) \/ ChangePath(p)
    \/ RequestBegin \/ StartUserReq \/ ResponseCommit \/ RequestEnd
    \/ \E own \in BOOLEAN : FinishUserReq(own)
    \/ \E why \in {"push", "user"} : RequestExec(why)
    \/ Receive \/ TimedOut \/ MemoryLimit \/ BailoutAtShutdown
    \/ HandleClientInit \/ HandleConfigSync \/ HandleRequestInit \/ HandleRequestExec \/ HandleRequestShutdown
    \/ HelperDies
    \/ \E p \in Paths \ {None} : RemoteConfig(p)

Spec == Init /\ [][Next]_vars

-----------------------------------------------------------------------------
(* Properties *)

\* The types of the state.
TypeOK ==
    /\ x.pc \in Commands \cup {"out", "rinit", "run"}
    /\ x.why \in {"none", "push", "user", "php", "startup", "start", "commit", "finish", "end"}
    /\ x.active \in BOOLEAN /\ x.between \in BOOLEAN /\ x.done \in BOOLEAN /\ x.late \in 0..MaxLate
    /\ x.span \in {0, x.req} /\ (x.done => x.span # 0) /\ x.req \in 0..MaxRequests /\ x.conn \in 0..x.conns /\ x.conns \in 0..MaxConns
    /\ x.last \in Paths /\ path \in Paths /\ hlp.path \in Paths /\ hlp.ctx \in 0..x.req

Torn == x.toExt # <<>> /\ x.toExt[1].type = "torn"

\* Whatever timed out or was cut short before, the reply the extension waits for is the reply to
\* the command it sent, or as many replies behind as push_addresses has given up on: every other
\* path that gives up on a reply closes the connection or leaves a stream that cannot be read.
OwnReply == x.pc \in Commands => Torn \/ Len(x.toHelper) + Len(x.toExt) <= 1 + x.late

\* A request_shutdown that is not the second one of a committed request finds the helper inside that
\* request.
ShutdownMatchesInit ==
    x.toHelper # <<>> /\ x.toHelper[1].name = "request_shutdown" /\ ~x.toHelper[1].again /\ x.late = 0
        => hlp.ctx = x.toHelper[1].req

BetweenRequests == x.pc = "out" \/ (cfg.lifecycle = "user" /\ x.pc = "run" /\ x.span = 0)

\* The data of a request_exec is evaluated in the context its own request_init made, and no context
\* outlives its request on a connection that is kept for the next.
OwnContext ==
    /\ TypeOK
    /\ x.toHelper # <<>> /\ x.toHelper[1].name = "request_exec" /\ x.late = 0 => hlp.ctx = x.toHelper[1].req
    /\ BetweenRequests /\ x.conn # 0 /\ x.late = 0 /\ ~Torn => hlp.ctx = 0

\* With a service and an environment configured, the helper works with the remote configuration of
\* the path the extension has recorded (_last_rem_cfg_path), over reconnections too.
HelperFollowsPath ==
    BetweenRequests /\ ~cfg.emptyEnv /\ x.conn # 0 /\ x.late = 0 /\ ~Torn /\ hlp.phase = "serve"
        => hlp.path = x.last
=============================================================================
