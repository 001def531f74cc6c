------------------------------ MODULE SpanStacks ------------------------------
(***************************************************************************)
(* Spans and span stacks of one PHP request (tracer/span.c, the userland   *)
(* functions of tracer/functions.c that drive them, fibers, user requests  *)
(* and the flush of auto_flush.c).                                         *)
(*                                                                         *)
(* Everything runs on one PHP thread, but the C code calls back into user  *)
(* code while it works: onClose handlers run in the middle of a close, and *)
(* releasing an object during serialization may destroy a span stack,      *)
(* which closes its spans.  The C call stack is therefore a variable,      *)
(* calls: its head is the innermost C frame, and user code runs when it is *)
(* empty or when its head is an onClose handler.                           *)
(*                                                                         *)
(* Rings of closed spans are sets (their order is never used), the chains  *)
(* of closed stacks keep their pointers: next is one field shared by two   *)
(* kinds of chain.  Objects are numbered in order of creation, 0 is NULL.  *)
(***************************************************************************)
EXTENDS Integers, FiniteSets, Sequences

CONSTANTS MaxSpans,    \* spans opened in one request
          MaxStacks,   \* span stacks there can be in one request
          MaxNested,   \* handlers and destructors running at once
          Fibers,      \* fibers of the request, 0 is the main one
          Workloads    \* what requests do: a set of kinds of calls and settings, a number of stacks

ASSUME BoundsAssumption == /\ MaxSpans \in Nat /\ MaxStacks \in Nat \ {0} /\ MaxNested \in Nat
                           /\ 0 \in Fibers /\ Fibers \subseteq Nat
                           /\ \A w \in Workloads : w.stacks \in 1..MaxStacks

VARIABLES
    h,       \* the heap: stacks, spans and the tracer's globals
    calls,   \* C frames of span.c, innermost first
    traced,  \* per fiber, the spans of the traced functions being executed
    saved,   \* per fiber, the stack kept in its context (0: not created)
    fiber,   \* the running fiber
    cfg      \* the ini settings, and whether the request is being served

vars == <<h, calls, traced, saved, fiber, cfg>>

AutoFinish == "autofinish" \in cfg.uses  \* DD_AUTOFINISH_SPANS
AutoFlush == "autoflush" \in cfg.uses    \* DD_TRACE_AUTO_FLUSH_ENABLED

Ending == cfg.phase = "ending"

NoContext == [root |-> 0, span |-> 0]

-----------------------------------------------------------------------------
(* Reading the heap. *)

OwnTop(g, s) == g.stk[s].active # 0 /\ g.spn[g.stk[s].active].stack = s

\* DDTrace\active_span(): the first stack up to the root stack with a span of its own on top.
ActiveSpan(g) ==
    LET end == g.stk[g.stk[g.active].rootStack].parent
        up[s \in 0..Len(g.stk)] ==
            IF s = end THEN 0 ELSE IF OwnTop(g, s) THEN g.stk[s].active ELSE up[g.stk[s].parent]
    IN up[g.active]

\* The spans from y up to the root, y included.
Chain(g, y) ==
    LET up[z \in 0..Len(g.spn)] == IF z = 0 THEN {} ELSE {z} \cup up[g.spn[z].parent]
    IN up[y]

\* Only userland spans lie above x on the chain of its stack.
HasTopInternal(g, x) ==
    LET down[y \in 0..Len(g.spn)] ==
            y # 0 /\ (y = x \/ (g.spn[y].type = "user" /\ down[g.spn[y].parent]))
    IN down[g.stk[g.spn[x].stack].active]

Closable(g, x) == HasTopInternal(g, x) /\ g.spn[x].type # "closed"

IsOpen(g, x) == g.spn[x].type # "closed" /\ ~g.spn[x].dropped /\ x \notin g.gone

-----------------------------------------------------------------------------
(* Stacks, the published OpenTelemetry context, and switching. *)

StoreSpanId(g, x) == IF g.otel.root = g.spn[x].root THEN [g EXCEPT !.otel.span = x] ELSE g

Attach(g) ==
    LET s == g.stk[g.active]
    IN [g EXCEPT !.otel = IF s.root = 0 \/ s.active = 0 \/ ActiveSpan(g) = 0 THEN NoContext
                          ELSE [root |-> s.root, span |-> ActiveSpan(g)],
                !.off = FALSE]

\* mutant: the context of the new stack is not published
SwitchOnly(g, s) == [g EXCEPT !.active = s]

Switch(g, s) == Attach([g EXCEPT !.active = s])

EmptyStack(parent, id) ==
    [live |-> TRUE, parent |-> parent, rootStack |-> id, root |-> 0, active |-> 0,
     closed |-> {}, flush |-> {}, next |-> 0, topClosed |-> 0]

NewRootStack(g) == [g EXCEPT !.stk = Append(@, EmptyStack(g.active, Len(@) + 1))]

NewStack(g) ==
    LET a == g.stk[g.active]
    IN [g EXCEPT !.stk = Append(@, [EmptyStack(g.active, a.rootStack)
                                     EXCEPT !.root = a.root, !.active = a.active])]

Newest(g) == Len(g.stk)

\* Opening on the primary stack first creates and enters a root stack.
StackFor(g) == IF g.stk[g.active].parent = 0 THEN Switch(NewRootStack(g), Newest(g) + 1) ELSE g

OpenSpan(f, type, handler) ==
    LET g    == StackFor(f)
        s    == g.active
        x    == Len(g.spn) + 1
        root == IF g.stk[s].root = 0 THEN x ELSE g.stk[s].root
        p    == IF root = x THEN 0 ELSE g.stk[s].active
        span == [type |-> type, stack |-> s, parent |-> p, root |-> root, kids |-> 0, kept |-> FALSE,
                 onClose |-> handler, dropped |-> FALSE, sent |-> 0, req |-> "none"]
        g1   == [g EXCEPT !.spn = Append([y \in DOMAIN g.spn |-> [g.spn[y] EXCEPT !.kids = IF y = p THEN @ + 1 ELSE @]], span),
                          !.stk[s].active = x, !.stk[s].root = root, !.open = @ + 1,
                          !.lost = IF Ending THEN @ \cup {x} ELSE @,
                          !.fault = @ \/ (p = 0 /\ root # x)]
    IN IF root = x THEN Attach(g1) ELSE StoreSpanId(g1, x)

CanOpen(g) == Len(g.spn) < MaxSpans /\ (g.stk[g.active].parent = 0 => Newest(g) < cfg.stacks)

-----------------------------------------------------------------------------
(* Closing: a span leaves its stack for the ring of closed spans; the last *)
(* span of a stack makes the ring flushable and links the stack.           *)

Enqueue(g, s) == [g EXCEPT !.stk[s].next = g.top, !.top = s]

\* mutant: a stack with attached stacks, already queued, is queued again
MarkTwice(g, s) ==
    LET st == g.stk[s]
        g1 == [g EXCEPT !.stk[s].closed = {}, !.stk[s].flush = @ \cup st.closed]
    IN IF st.closed = {} THEN g ELSE IF st.flush # {} THEN g1
       ELSE IF st.root # 0 /\ (g.spn[st.root].stack = s \/ g.spn[st.root].type = "closed") THEN Enqueue(g1, s)
       ELSE LET r == st.rootStack
                g2 == IF g1.stk[r].flush = {} /\ g1.stk[r].topClosed = 0 THEN Enqueue(g1, r) ELSE g1
            IN [g2 EXCEPT !.stk[s].next = g2.stk[r].topClosed, !.stk[r].topClosed = s]

MarkFlushable(g, s) ==
    LET st == g.stk[s]
        r  == st.rootStack
        g1 == [g EXCEPT !.stk[s].closed = {}, !.stk[s].flush = @ \cup st.closed]
        g2 == IF g1.stk[r].flush = {} /\ g1.stk[r].topClosed = 0 THEN Enqueue(g1, r) ELSE g1
    IN IF st.closed = {} THEN g
       ELSE IF st.flush # {} THEN g1
       ELSE IF st.root # 0 /\ (g.spn[st.root].stack = s \/ g.spn[st.root].type = "closed")
            THEN IF st.topClosed = 0 THEN Enqueue(g1, s) ELSE g1
       ELSE [g2 EXCEPT !.stk[s].next = g2.stk[r].topClosed, !.stk[r].topClosed = s]

ClosedRootStack(g, s) == g.stk[s].root = 0 \/ g.spn[g.stk[s].root].stack = s

CloseEntry(g, s) ==
    LET g1 == MarkFlushable(g, s)
        g2 == IF ClosedRootStack(g, s) THEN [g1 EXCEPT !.stk[s].root = 0] ELSE g1
        g3 == IF ClosedRootStack(g, s) /\ g.stk[s].rootStack = s /\ g.active = s
              THEN Switch(g2, g.stk[s].parent) ELSE g2
    IN IF g3.active = s THEN [g3 EXCEPT !.otel = NoContext] ELSE g3

Frame(op, id) == [op |-> op, id |-> id]

\* ddtrace_flush_tracer: with cycle collection it repeats until nothing is queued.
FlushFrame(cycles) == Frame("flush", IF cycles THEN 1 ELSE 0)
AutoFlushFrames(g, s) == IF ClosedRootStack(g, s) /\ AutoFlush THEN <<FlushFrame(FALSE)>> ELSE <<>>

IsEntry(g, x) == g.spn[x].parent = 0 \/ g.spn[g.spn[x].parent].stack # g.spn[x].stack

\* What leaves the chain of x's stack besides x when x is taken off it.
Stranded(g, x) == {y \in Chain(g, g.stk[g.spn[x].stack].active) : y > x /\ g.spn[y].stack = g.spn[x].stack}

\* mutant: a child that ends is still counted
KeepChild(g, x) == g

LoseChild(g, x) ==
    IF g.spn[x].parent = 0 THEN g ELSE [g EXCEPT !.spn[g.spn[x].parent].kids = @ - 1]

NotifyFinish(g, x) == IF g.spn[x].req = "started" THEN [g EXCEPT !.spn[x].req = "finished"] ELSE g

\* ddtrace_close_top_span_without_stack_swap after the onClose handlers, but for the flush.
TakeOff(g, x) ==
    LET s  == g.spn[x].stack
        p  == g.spn[x].parent
        g1 == LoseChild([g EXCEPT !.spn[x].type = "closed", !.stk[s].active = p, !.open = @ - 1,
                                  !.stk[s].closed = @ \cup {x}, !.lost = @ \cup Stranded(g, x), !.upset = @ \/ ~IsOpen(g, x),
                                  !.off = @ \/ s # g.active], x)
        g2 == IF p # 0 THEN [g1 EXCEPT !.spn[p].kept = TRUE] ELSE g1
        g3 == IF s = g.active /\ ~IsEntry(g, x) THEN StoreSpanId(g2, p) ELSE g2
        g4 == NotifyFinish(g3, x)
    IN IF IsEntry(g, x) THEN CloseEntry(g4, s) ELSE g4

CloseFlush(g, x) == IF IsEntry(g, x) THEN AutoFlushFrames(g, g.spn[x].stack) ELSE <<>>

-----------------------------------------------------------------------------
(* Dropping. *)

\* More than the two references of its stack and its owner: seen by another stack or a child.
Referenced(g, x) ==
    LET alive[y \in 1..Len(g.spn)] == \/ ~g.spn[y].dropped /\ g.spn[y].sent = 0 /\ y \notin g.gone
                                      \/ \E z \in y + 1..Len(g.spn) : g.spn[z].parent = y /\ alive[z]
    IN \/ \E s \in 1..Len(g.stk) : g.stk[s].live /\ s # g.spn[x].stack /\ g.stk[s].active = x
       \/ \E y \in 1..Len(g.spn) : g.spn[y].parent = x /\ alive[y]

\* dd_drop_span, after the flush that dropping the last span of a stack may cause.
DropEnd(g, x) == LET g1 == [NotifyFinish(g, x) EXCEPT !.spn[x].dropped = TRUE]
                 IN IF g.spn[x].root = x THEN g1 ELSE LoseChild(g1, x)

\* ddtrace_drop_span: a referenced root is rejected and closed instead.
Dropping(f, x, held) ==
    LET s  == f.spn[x].stack
        p  == f.spn[x].parent
        g  == IF s # f.active THEN Switch(f, s) ELSE f
        g1 == [g EXCEPT !.stk[s].active = p, !.open = @ - 1, !.lost = @ \cup Stranded(g, x),
                        !.upset = @ \/ ~IsOpen(g, x)]
        fl == AutoFlushFrames(g1, s)
    IN IF g.stk[s].root = x /\ held
       THEN [h |-> g, frames |-> IF Closable(g, x) THEN <<Frame("close", x)>> ELSE <<>>]
       ELSE IF g.stk[s].root = x
       THEN [h |-> DropEnd([Switch(g1, g.stk[s].parent) EXCEPT !.stk[s].root = 0], x), frames |-> <<>>]
       ELSE IF ~IsEntry(g, x) THEN [h |-> DropEnd(StoreSpanId(g1, p), x), frames |-> <<>>]
       ELSE IF fl = <<>> THEN [h |-> DropEnd(CloseEntry(g1, s), x), frames |-> <<>>]
       ELSE [h |-> CloseEntry(g1, s), frames |-> fl \o <<Frame("drop", x)>>]

Holds(g, x) == IF Referenced(g, x) THEN {TRUE} ELSE BOOLEAN

-----------------------------------------------------------------------------
(* Serializing the queue of closed stacks: G.top, each with its attached   *)
(* chain.  A serializing frame keeps the pointers the C loop has in hand.  *)

\* mutant: the ring stays on the stack while it is serialized
LoadKeepsRing(g, s, next, rest) ==
    [h |-> [g EXCEPT !.fault = @ \/ g.stk[s].flush = {}],
     frame |-> [op |-> "serialize", id |-> s, next |-> next, rest |-> rest, todo |-> g.stk[s].flush]]

Load(g, s, next, rest) ==
    [h |-> [g EXCEPT !.stk[s].flush = {}, !.fault = @ \/ g.stk[s].flush = {}],
     frame |-> [op |-> "serialize", id |-> s, next |-> next, rest |-> rest, todo |-> g.stk[s].flush]]

LoadRoot(f, r) ==
    LET n == f.stk[r].topClosed
        g == [f EXCEPT !.stk[r].topClosed = 0]
    IN IF f.stk[r].flush # {} THEN Load(g, r, n, f.stk[r].next)
       ELSE IF n # 0 THEN Load(g, n, f.stk[n].next, f.stk[r].next)
       ELSE [h |-> [g EXCEPT !.fault = TRUE], frame |-> Frame("pop", 0)]

Top == Head(calls)
In(op) == calls # <<>> /\ Top.op = op
Return(g) == h' = g /\ calls' = Tail(calls) /\ UNCHANGED <<traced, saved, fiber, cfg>>
Become(g, frames) == h' = g /\ calls' = frames \o Tail(calls) /\ UNCHANGED <<traced, saved, fiber, cfg>>
Call(g, frames) == h' = g /\ calls' = frames \o calls /\ UNCHANGED <<traced, saved, fiber, cfg>>

FlushTracer ==
    /\ In("flush")
    /\ IF h.top = 0 THEN Return(h)
       ELSE LET l == LoadRoot([h EXCEPT !.top = 0], h.top)
            IN IF Top.id = 1 THEN Call(l.h, <<l.frame>>) ELSE Become(l.h, <<l.frame>>)

SerializeSpan ==
    /\ In("serialize") /\ Top.todo # {}
    /\ LET x == CHOOSE y \in Top.todo : \A z \in Top.todo : y <= z
       IN Become([h EXCEPT !.spn[x].sent = @ + 1], <<[Top EXCEPT !.todo = @ \ {x}]>>)

SerializeNext ==
    /\ In("serialize") /\ Top.todo = {}
    /\ IF Top.next = 0 /\ Top.rest = 0 THEN Return(h)
       ELSE LET l == IF Top.next # 0 THEN Load(h, Top.next, h.stk[Top.next].next, Top.rest) ELSE LoadRoot(h, Top.rest)
            IN Become(l.h, <<l.frame>>)

-----------------------------------------------------------------------------
(* The C frames of closing and dropping. *)

\* ddtrace_close_span: userland spans above x go first, one per step.
CloseAbove ==
    /\ In("close")
    /\ LET x == Top.id
           s == h.spn[x].stack
           a == h.stk[s].active
           g == IF s # h.active THEN Switch(h, s) ELSE h
       IN IF OwnTop(h, s) /\ a # x /\ h.spn[a].type # "autoroot"
          THEN IF AutoFinish THEN Call(g, <<Frame("close", a)>>)
               ELSE \E held \in Holds(g, a) : LET d == Dropping(g, a, held) IN Call(d.h, d.frames)
          ELSE Become(g, <<Frame("top", x)>>)

\* ddtrace_close_top_span_without_stack_swap: the onClose handlers are taken off, then run.
CloseTop ==
    /\ In("top")
    /\ LET x == Top.id
       IN IF h.spn[x].onClose
          THEN Become([h EXCEPT !.spn[x].onClose = FALSE], <<Frame("handler", x)>>)
          ELSE Become(TakeOff(h, x), CloseFlush(h, x))

InHandler(e) == e.depth = Len(calls)

HandlerReturns ==
    /\ In("handler") /\ \A i \in 1..Len(traced[fiber]) : ~InHandler(traced[fiber][i])
    /\ LET x == Top.id
       IN IF IsOpen(h, x) THEN Become(TakeOff(h, x), CloseFlush(h, x)) ELSE Return(h)

DropReturns == In("drop") /\ Return(DropEnd(h, Top.id))

Restore == In("restore") /\ Return(Switch(h, Top.id))

\* ddtrace_close_userland_spans_until, after its check.
CloseUntil ==
    /\ In("until")
    /\ LET a == ActiveSpan(h)
       IN IF a # 0 /\ a # Top.id /\ h.spn[a].type # "internal" THEN Call(h, <<Frame("close", a)>>) ELSE Return(h)

\* Who refers to a stack: the tracer, other stacks, fibers, frames of traced functions and C frames.
Held(s, frames) ==
    \/ s \in {1, h.active} \/ h.stk[s].flush # {}
    \/ \E t \in 1..Newest(h) : h.stk[t].live /\ h.stk[t].parent = s
    \/ \E f \in Fibers : saved[f] = s \/ \E i \in 1..Len(traced[f]) : h.spn[traced[f][i].span].stack = s
    \/ \E i \in 1..Len(frames) :
           IF frames[i].op \in {"close", "top", "handler", "drop"} THEN h.spn[frames[i].id].stack = s
           ELSE frames[i].op \in {"serialize", "restore", "dtor", "all"} /\ frames[i].id = s

\* ddtrace_span_stack_dtor_obj; a stack referred to again, or with spans to flush, survives it.
StackDtor ==
    /\ In("dtor")
    /\ LET s == Top.id
       IN IF OwnTop(h, s) THEN Call(h, <<Frame("top", h.stk[s].active)>>)
          ELSE IF Held(s, Tail(calls)) THEN Return(h)
          ELSE Return([h EXCEPT !.stk[s].live = FALSE, !.stk[s].active = 0, !.stk[s].root = 0])

\* ddtrace_close_all_open_spans: from the newest stack there is at the call down to the first.
CloseAll ==
    /\ In("all")
    /\ LET own == {s \in 1..Newest(h) : s <= Top.id /\ h.stk[s].live /\ OwnTop(h, s)}
           s   == CHOOSE t \in own : \A u \in own : u <= t
           x   == h.stk[s].active
           loop == <<[Top EXCEPT !.id = s]>>
       IN IF own = {} THEN Return(h)
          ELSE IF AutoFinish \/ (Top.force /\ h.spn[x].type = "autoroot") THEN Become(h, <<Frame("close", x)>> \o loop)
          ELSE \E held \in Holds(h, x) : LET d == Dropping(h, x, held) IN Become(d.h, d.frames \o loop)

All(force) == [op |-> "all", id |-> MaxStacks + 1, force |-> force]

\* ddtrace_free_span_stacks: leave automatic root stacks, then drop every open chain and ring.
FreeStacks(g) ==
    LET out[s \in 0..Newest(g)] ==
            IF s # 0 /\ g.stk[s].root # 0 /\ g.spn[g.stk[s].root].stack = s THEN out[g.stk[s].parent] ELSE s
        dead == UNION {{y \in Chain(g, g.stk[s].active) : g.spn[y].stack = s} : s \in {t \in 1..Newest(g) : OwnTop(g, t)}}
        kids(x) == Cardinality({y \in dead : g.spn[y].parent = x})
        ring == UNION {g.stk[s].closed \cup g.stk[s].flush : s \in 1..Newest(g)}
    IN [g EXCEPT !.active = out[@], !.otel = NoContext, !.open = 0, !.top = 0, !.gone = @ \cup ring \cup g.lost,
                 !.stk = SubSeq([s \in DOMAIN g.stk |-> [g.stk[s] EXCEPT
                                    !.root = IF g.stk[s].active # 0 THEN 0 ELSE @, !.active = 0,
                                    !.closed = {}, !.flush = {}, !.topClosed = 0]], 1, Newest(g)),
                 !.spn = SubSeq([x \in DOMAIN g.spn |-> [g.spn[x] EXCEPT
                                    !.dropped = @ \/ x \in dead, !.kids = @ - kids(x),
                                    !.req = IF x \in dead /\ @ = "started" THEN "finished" ELSE @]], 1, Len(g.spn))]

\* The end of datadog_alter_dd_trace_disabled_config: tracing is off once the stacks are freed.
FreeAll == /\ In("free") /\ h' = FreeStacks(h) /\ calls' = Tail(calls)
           /\ cfg' = [cfg EXCEPT !.enabled = FALSE] /\ UNCHANGED <<traced, saved, fiber>>

-----------------------------------------------------------------------------
(* What user code does. *)

UserCode == (cfg.phase = "serving" /\ calls = <<>>) \/ In("handler")
Running(ops) == {i \in 1..Len(calls) : calls[i].op \in ops}
User(use) == UserCode /\ use \in cfg.uses \cup {"span"} /\ Cardinality(Running({"handler"})) <= MaxNested
Tracing(use) == User(use) /\ cfg.enabled

Stay == UNCHANGED <<traced, saved, fiber, cfg>>
Set(g) == h' = g /\ UNCHANGED calls

StartSpan == Tracing("span") /\ CanOpen(h) /\ Stay /\ \E handler \in {FALSE, "handler" \in cfg.uses} : Set(OpenSpan(h, "user", handler))

StartTraceSpan ==
    /\ Tracing("trace") /\ Len(h.spn) < MaxSpans /\ Newest(h) < cfg.stacks /\ Stay
    /\ Set(OpenSpan(Switch(NewRootStack(h), Newest(h) + 1), "user", FALSE))

CloseSpan ==
    /\ User("span") /\ ActiveSpan(h) # 0 /\ h.spn[ActiveSpan(h)].type = "user"
    /\ Call(h, <<Frame("close", ActiveSpan(h))>>)

\* Entering and leaving a traced function: keep is FALSE when its hook rejects the span.
EnterTraced ==
    /\ Tracing("traced") /\ CanOpen(h) /\ Set(OpenSpan(h, "internal", FALSE))
    /\ traced' = [traced EXCEPT ![fiber] = Append(@, [span |-> Len(h.spn) + 1, depth |-> Len(calls)])]
    /\ UNCHANGED <<saved, fiber, cfg>>

LeaveTraced(keep) ==
    /\ User("traced") /\ traced[fiber] # <<>>
    /\ LET e == traced[fiber][Len(traced[fiber])]
           x == e.span
       IN /\ InHandler(e) /\ (~keep => cfg.enabled)
          /\ traced' = [traced EXCEPT ![fiber] = SubSeq(@, 1, Len(@) - 1)] /\ UNCHANGED <<saved, fiber, cfg>>
          /\ IF h.spn[x].dropped THEN UNCHANGED <<h, calls>>
             ELSE IF keep
             THEN h' = h /\ calls' = IF Closable(h, x) THEN <<Frame("close", x)>> \o calls ELSE calls
             ELSE \E held \in Holds(h, x) :
                      LET d == Dropping(h, x, held) IN h' = d.h /\ calls' = d.frames \o calls

\* mutant: a span is dropped whether it has open children or not
TryDropParent(x) ==
    /\ User("drop") /\ ~h.spn[x].kept /\ ~h.spn[x].dropped
    /\ \E held \in Holds(h, x) : LET d == Dropping(h, x, held) IN Call(d.h, d.frames)

TryDrop(x) ==
    /\ User("drop") /\ ~h.spn[x].kept /\ ~h.spn[x].dropped /\ h.spn[x].kids = 0
    /\ h.stk[h.spn[x].stack].active = x
    /\ \E held \in Holds(h, x) :
           LET d == Dropping(h, x, held)
           IN Call(IF h.active # h.spn[x].stack /\ d.frames = <<>> THEN Switch(d.h, h.active) ELSE d.h,
                   IF h.active # h.spn[x].stack /\ d.frames # <<>> THEN d.frames \o <<Frame("restore", h.active)>> ELSE d.frames)

CreateStack == /\ User("stack") /\ Newest(h) < cfg.stacks /\ Stay
               /\ Set(IF cfg.enabled THEN Switch(NewStack(h), Newest(h) + 1) ELSE NewRootStack(h))

SwitchStack(s) == User("stack") /\ h.stk[s].live /\ s # h.active /\ Set(Switch(h, s)) /\ Stay

\* The check of ddtrace_close_userland_spans_until: x lies below userland spans only.  Past the
\* root the walk follows an offset from NULL, reads unmapped memory, and the process is at its end.
Reaches(g, x) ==
    LET down[y \in 0..Len(g.spn)] ==
            y # 0 /\ (y = x \/ (g.spn[y].type # "internal" /\ down[g.spn[y].parent]))
    IN x = 0 \/ down[ActiveSpan(g)]

CloseSpansUntil(x) ==
    User("until") /\ Reaches(h, x) /\ Call(h, <<Frame("until", x)>>)

\* DDTrace\flush() and dd_trace_close_all_spans_and_flush().
Flush == /\ User("flush")
         /\ \E cycles \in BOOLEAN :
                Call(h, (IF AutoFinish THEN <<Frame("until", 0)>> ELSE <<>>) \o <<FlushFrame(cycles)>>)

CloseAllAndFlush == User("closeall") /\ Call(h, <<All(TRUE), FlushFrame(TRUE)>>)

NotifyStart(x) == /\ User("request") /\ h.spn[x].root = x /\ h.spn[x].req = "none" /\ IsOpen(h, x)
                  /\ \A i \in 1..Len(calls) : calls[i].op \in {"close", "handler"} => calls[i].id # x
                  /\ Set([h EXCEPT !.spn[x].req = "started"]) /\ Stay

\* dd_ensure_root_span, from DDTrace\active_span() and DDTrace\root_span().
EnsureRoot == /\ Tracing("root") /\ cfg.genroot /\ h.stk[h.active].root = 0 /\ h.stk[h.active].parent = 0
              /\ CanOpen(h) /\ Set(OpenSpan(h, "autoroot", FALSE)) /\ Stay

\* ddtrace_span_alter_root_span_config: a fresh root alone on its stack is dropped with the setting.
AlterGenerateRoot ==
    /\ Tracing("root") /\ calls = <<>> /\ cfg' = [cfg EXCEPT !.genroot = ~@] /\ UNCHANGED <<traced, saved, fiber>>
    /\ LET s == h.active
           r == h.stk[s].root
       IN IF ~cfg.genroot
          THEN r = 0 /\ CanOpen(h) /\ Set(OpenSpan(h, "autoroot", FALSE))
          ELSE IF r = 0 THEN Set(h)
          ELSE /\ h.stk[s].active = r /\ h.stk[s].closed = {}
               /\ LET g == [h EXCEPT !.stk[s].root = 0]
                      d == Dropping(g, r, Referenced(g, r))
                  IN h' = d.h /\ calls' = d.frames \o <<Frame("restore", h.stk[h.spn[r].stack].parent)>>

DisableTracing == Tracing("toggle") /\ Call(h, <<All(FALSE), Frame("free", 0)>>)

EnableTracing ==
    /\ User("toggle") /\ calls = <<>> /\ ~cfg.enabled /\ cfg' = [cfg EXCEPT !.enabled = TRUE] /\ UNCHANGED <<traced, saved, fiber>>
    /\ LET g == [h EXCEPT !.top = 0, !.open = 0]
       IN IF cfg.genroot THEN CanOpen(h) /\ Set(OpenSpan(g, "autoroot", FALSE)) ELSE Set(g)

\* Fibers: each context has a stack of its own, swapped with the active one.
FiberInit(f) ==
    /\ User("fiber") /\ f # 0 /\ saved[f] = 0 /\ Newest(h) < cfg.stacks /\ Set(IF cfg.enabled THEN NewStack(h) ELSE NewRootStack(h))
    /\ saved' = [saved EXCEPT ![f] = Newest(h) + 1] /\ UNCHANGED <<traced, fiber, cfg>>

FiberSwitch(f) ==
    /\ User("fiber") /\ calls = <<>> /\ f # fiber /\ saved[f] # 0 /\ Set(Switch(h, saved[f]))
    /\ saved' = [saved EXCEPT ![fiber] = h.active] /\ fiber' = f /\ UNCHANGED <<traced, cfg>>

\* A fiber that ran to its end; its context drops the stack.
FiberDestroy(f) ==
    /\ User("fiber") /\ f \notin {0, fiber} /\ saved[f] # 0 /\ traced[f] = <<>> /\ Set(h)
    /\ saved' = [saved EXCEPT ![f] = 0] /\ UNCHANGED <<traced, fiber, cfg>>

\* Reference counting or cycle collection destroys a stack nothing refers to, in user code or
\* while serialized objects are released.
DestroyStack(s) ==
    /\ (UserCode \/ In("serialize")) /\ Running({"dtor"}) = {} /\ "destroy" \in cfg.uses
    /\ h.stk[s].live /\ ~Held(s, calls)
    /\ Call(h, <<Frame("dtor", s)>>)

\* The child of a fork forgets its parent's spans.
Fork ==
    /\ Tracing("fork") /\ calls = <<>> /\ Stay
    /\ LET g == FreeStacks(h)
       IN IF cfg.genroot THEN CanOpen(g) /\ Set(OpenSpan(g, "autoroot", FALSE)) ELSE Set(g)

\* mutant: the flush comes before the spans are closed
ShutdownFlushesFirst ==
    /\ cfg.phase = "serving" /\ calls = <<>> /\ cfg' = [cfg EXCEPT !.phase = "ending"]
    /\ calls' = IF cfg.enabled THEN <<FlushFrame(TRUE), All(TRUE), Frame("free", 0)>> ELSE <<>>
    /\ traced' = [f \in Fibers |-> <<>>] /\ UNCHANGED <<h, saved, fiber>>

\* dd_force_shutdown_tracing, then the next request.
Shutdown ==
    /\ cfg.phase = "serving" /\ calls = <<>> /\ cfg' = [cfg EXCEPT !.phase = "ending"]
    /\ calls' = IF cfg.enabled THEN <<All(TRUE), FlushFrame(TRUE), All(FALSE), Frame("free", 0)>> ELSE <<>>
    /\ traced' = [f \in Fibers |-> <<>>] /\ UNCHANGED <<h, saved, fiber>>

Heap0 == [stk |-> <<EmptyStack(0, 1)>>, spn |-> <<>>, active |-> 1, top |-> 0, open |-> 0, otel |-> NoContext,
          fault |-> FALSE, upset |-> FALSE, off |-> FALSE, lost |-> {}, gone |-> {}]

Fresh(c) == IF c.genroot THEN [OpenSpan(Heap0, "autoroot", FALSE) EXCEPT !.lost = {}] ELSE Heap0
Idle == calls = <<>> /\ traced = [f \in Fibers |-> <<>>] /\ saved = [f \in Fibers |-> 0] /\ fiber = 0

Begin(w) == [genroot |-> "genroot" \in w.uses, enabled |-> TRUE, uses |-> w.uses, stacks |-> w.stacks, phase |-> "serving"]

Init == Idle /\ (\E w \in Workloads : cfg = Begin(w)) /\ h = Fresh(cfg)

Rinit == /\ cfg.phase = "ending" /\ calls = <<>> /\ UNCHANGED calls
         /\ traced' = [f \in Fibers |-> <<>>] /\ saved' = [f \in Fibers |-> 0] /\ fiber' = 0
         /\ cfg' = Begin(cfg) /\ h' = Fresh(Begin(cfg))

CFrame == \/ FlushTracer \/ SerializeSpan \/ SerializeNext \/ CloseAbove \/ CloseTop \/ HandlerReturns
          \/ DropReturns \/ Restore \/ CloseUntil \/ StackDtor \/ CloseAll \/ FreeAll

Api == \/ StartSpan \/ StartTraceSpan \/ CloseSpan \/ CreateStack \/ Flush \/ CloseAllAndFlush
       \/ \E x \in 1..Len(h.spn) : TryDrop(x) \/ NotifyStart(x)
       \/ \E x \in 0..Len(h.spn) : CloseSpansUntil(x)
       \/ \E s \in 1..Newest(h) : SwitchStack(s) \/ DestroyStack(s)
       \/ EnterTraced \/ \E keep \in BOOLEAN : LeaveTraced(keep)

Engine == \/ EnsureRoot \/ AlterGenerateRoot \/ DisableTracing \/ EnableTracing \/ Fork \/ Shutdown \/ Rinit
          \/ \E f \in Fibers : FiberInit(f) \/ FiberSwitch(f) \/ FiberDestroy(f)

Next == CFrame \/ Api \/ Engine

Spec == Init /\ [][Next]_vars

-----------------------------------------------------------------------------
(* Properties.  Three ghosts of the heap bound them to the calls that keep *)
(* to the protocol: lost has the spans that user code left open where they *)
(* cannot be closed any more (opened in an onClose handler, above a traced *)
(* function whose span is rejected, or during shutdown), upset is set when *)
(* a span is closed or dropped a second time, off when a handler returns   *)
(* on another stack than the one being closed.                             *)

AllSpans == 1..Len(h.spn)
AllStacks == 1..Newest(h)
Frames(op) == {i \in 1..Len(calls) : calls[i].op = op}
BeingDropped == {calls[i].id : i \in Frames("drop")}
OpenNow == {x \in AllSpans : IsOpen(h, x)} \ BeingDropped

SpanRecord == [type: {"user", "internal", "autoroot", "closed"}, stack: 1..MaxStacks, parent: 0..MaxSpans,
               root: 1..MaxSpans, kids: Int, kept: BOOLEAN, onClose: BOOLEAN, dropped: BOOLEAN, sent: Nat,
               req: {"none", "started", "finished"}]
StackRecord == [live: BOOLEAN, parent: 0..MaxStacks, rootStack: 1..MaxStacks, root: 0..MaxSpans, active: 0..MaxSpans,
                closed: SUBSET (1..MaxSpans), flush: SUBSET (1..MaxSpans), next: 0..MaxStacks, topClosed: 0..MaxStacks]

\* The type invariant: pointers stay within the objects created.
TypeOK == /\ h.stk \in Seq(StackRecord) /\ h.spn \in Seq(SpanRecord)
          /\ h.active \in AllStacks /\ h.top \in 0..Newest(h) /\ (~h.upset => h.open \in 0..MaxSpans)
          /\ h.otel \in [root: 0..MaxSpans, span: 0..MaxSpans]
          /\ h.lost \cup h.gone \subseteq AllSpans
          /\ DOMAIN traced = Fibers /\ saved \in [Fibers -> 0..Newest(h)] /\ fiber \in Fibers

\* ddtrace_serialize_closed_spans dereferences closed_ring_flush of every stack it visits, and
\* ddtrace_open_span the active span of a stack that has a root: neither is ever NULL.
NoFault == ~h.fault

\* The k-th stack of the chain of next pointers that starts at s.
Nth(s) == LET nth[k \in 0..Newest(h)] == IF k = 0 THEN s ELSE IF nth[k - 1] = 0 THEN 0 ELSE h.stk[nth[k - 1]].next IN nth
Reachable(s) == {Nth(s)[k] : k \in 0..Newest(h)} \ {0}

\* The heads of the queue: DDTRACE_G(top_closed_stack) and what serializing loops have in hand.
Queue == {[at |-> 0, head |-> h.top]} \cup {[at |-> i, head |-> calls[i].rest] : i \in Frames("serialize")}
Queued == UNION {Reachable(e.head) : e \in Queue}
Attached == {[at |-> MaxStacks + i, head |-> calls[i].next] : i \in Frames("serialize")}
              \cup {[at |-> -r, head |-> h.stk[r].topClosed] : r \in Queued}

\* No queued stack has been freed: a stack with spans to flush holds a reference to itself.
QueueLive == \A s \in Queued : h.stk[s].live

\* The root span of a stack, a pointer without a reference, is kept alive by the chain of its active span.
RootPinned == ~h.upset => \A s \in AllStacks :
    h.stk[s].live /\ h.stk[s].root # 0 => h.stk[s].root \in Chain(h, h.stk[s].active)

\* No pointer of the span stacks is dangling or null where it is followed, and all stay in range.
PointersValid == TypeOK /\ NoFault /\ QueueLive /\ RootPinned

\* A closed span is sent at most once, and until then it is in exactly one ring of closed spans
\* or in the hands of one serializing loop, whatever the destructors and handlers do meanwhile.
InOneRing == \A x \in AllSpans :
    /\ h.spn[x].sent <= 1
    /\ h.spn[x].type = "closed" /\ h.spn[x].sent = 0 /\ x \notin h.gone /\ ~h.upset =>
           Cardinality({s \in AllStacks : h.stk[s].live /\ x \in h.stk[s].closed \cup h.stk[s].flush})
             + Cardinality({i \in Frames("serialize") : x \in calls[i].todo}) = 1

\* A stack with spans to flush is linked exactly once: on the queue, on the chain of a queued root
\* stack, or ahead of a serializing loop, although both chains share the field next.
LinkedOnce == ~h.upset => \A s \in AllStacks :
    h.stk[s].flush # {} => Cardinality({p \in (Queue \cup Attached) \X (0..Newest(h)) : Nth(p[1].head)[p[2]] = s}) = 1

\* No closed span is lost from the chains of the flush, or on two of them.
SentOnce == InOneRing /\ LinkedOnce

\* DDTRACE_G(open_spans_count), which gates the cycle collection of the flush loop, is exact.
Counters == ~h.upset => h.open = Cardinality(OpenNow)

\* active_child_spans, on which try_drop_span relies, counts the open children.
ChildCount == ~h.upset => \A x \in OpenNow :
    h.spn[x].kids = Cardinality({y \in AllSpans : IsOpen(h, y) /\ h.spn[y].parent = x})

\* Every open span can still be reached from the active span of its stack, hence be closed.
OpenOnChain == ~h.upset => \A x \in OpenNow \ h.lost : x \in Chain(h, h.stk[h.spn[x].stack].active)

\* What the tracer knows of open spans is exact: how many, how many below each, and where.
OpenIsExact == Counters /\ ChildCount /\ OpenOnChain

\* When shutdown frees the stacks, every span closed before has been flushed.
AllFlushed == Ending /\ In("free") /\ ~h.upset => \A s \in AllStacks : h.stk[s].closed \cup h.stk[s].flush \subseteq h.lost

\* A user request that was started is finished once its root span is closed or dropped.
RequestsFinished == \A x \in AllSpans : h.spn[x].type = "closed" \/ h.spn[x].dropped => h.spn[x].req # "started"

\* Nothing is left when the request is over: no closed span unsent, no user request unfinished.
NothingLeft == AllFlushed /\ RequestsFinished

\* Between calls the OpenTelemetry context published to profilers is that of the active span, or none.
OtelMatches == calls = <<>> /\ ~h.off /\ ~h.upset /\ h.otel # NoContext =>
    h.otel = [root |-> h.stk[h.active].root, span |-> ActiveSpan(h)]

\* A userland span is never dropped from under a child that stays open (try_drop_span, autofinish).
DropLeavesNoChild == [][Len(h'.spn) >= Len(h.spn) /\ ~h'.upset =>
    \A x \in AllSpans : h.spn[x].type = "user" /\ ~h.spn[x].dropped /\ h'.spn[x].dropped =>
        \A y \in AllSpans \ h'.lost : h.spn[y].parent = x => ~IsOpen(h', y)]_vars
=============================================================================
