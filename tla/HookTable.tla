------------------------------- MODULE HookTable -------------------------------
(***************************************************************************)
(* The hook tables of one PHP request and the calls of hooked functions    *)
(* (zend_abstract_interface/hook/hook.c, with the observer handling of     *)
(* interceptor/php8/interceptor.c, for PHP 8.2 and later).                 *)
(*                                                                         *)
(* A hook is installed on a method by name.  Until the class is declared   *)
(* it waits in a table of its own; then it lives in the entry of the       *)
(* method's function, and a hook on an abstract or an internal method is   *)
(* shared with the entries of the functions that implement or inherit it.  *)
(* Calling a function runs the begin callbacks of its entry in order, then *)
(* the body, then the end callbacks in reverse.  Callbacks and bodies are  *)
(* user code: they install, remove and exclude hooks, declare classes and  *)
(* call functions, while the loops over the entry are half way through.    *)
(*                                                                         *)
(* One method name stands for all; a class is named by itself.  Methods a  *)
(* user class inherits share the op_array of their parent, so they are one *)
(* function; an internal method is copied for each user class that         *)
(* inherits it, but the copies share one run-time cache.                   *)
(***************************************************************************)
EXTENDS Integers, FiniteSets, Sequences, SequencesExt, FiniteSetsExt

CONSTANTS None,
          Parent,      \* the parent of each class, or None
          Interfaces,  \* the interfaces of each class, inherited ones included
          Method,      \* the function of the method in each class
          Scope,       \* the class that declares each function
          AbstractFns, \* functions without a body
          InternalFns, \* functions of PHP extensions
          Programs,    \* what requests do: the classes they declare, hook and exclude, the hooks they install
          MaxDepth     \* nested calls of hooked functions

Classes == DOMAIN Parent
Fns == DOMAIN Scope

VARIABLES
    program,   \* the program of this request
    declared,  \* classes declared so far
    pending,   \* request_classes: the hooks of classes not declared yet
    entries,   \* zai_hook_resolved: the entry of each hooked function
    hooks,     \* the hooks, by id
    frames,    \* calls in progress with hooks, innermost last
    cached,    \* run-time caches with observer data: their function was called
    observed   \* run-time caches with our observer handlers

vars == <<program, declared, pending, entries, hooks, frames, cached, observed>>

\* What the operations of hook.c read and write.
State == [declared |-> declared, pending |-> pending, entries |-> entries, hooks |-> hooks,
          frames |-> frames, cached |-> cached, observed |-> observed]

Become(s) ==
    /\ declared' = s.declared
    /\ pending' = s.pending
    /\ entries' = s.entries
    /\ hooks' = s.hooks
    /\ frames' = s.frames
    /\ cached' = s.cached
    /\ observed' = s.observed
    /\ UNCHANGED program

-----------------------------------------------------------------------------
(* Classes. *)

RECURSIVE Ancestors(_)
Ancestors(c) == {c} \cup Interfaces[c] \cup (IF Parent[c] = None THEN {} ELSE Ancestors(Parent[c]))

InstanceOf(c, d) == d \in Ancestors(c)

\* The inheritors registered for c so far.
Inheritors(s, c) == {d \in s.declared : Parent[d] = c \/ c \in Interfaces[d]}

\* The classes reached from c by inheritance, not below one with an implementation.
RECURSIVE AbstractReach(_, _)
AbstractReach(s, c) ==
    LET below == Inheritors(s, c)
    IN below \cup UNION {AbstractReach(s, d) : d \in {e \in below : Method[e] \in AbstractFns}}

\* The classes reached from c whose method is a copy of the internal function of c.
RECURSIVE InternalReach(_, _)
InternalReach(s, c) ==
    LET below == {d \in Inheritors(s, c) : Method[d] \in InternalFns /\ Scope[Method[d]] = Scope[Method[c]]}
    IN below \cup UNION {InternalReach(s, d) : d \in below}

Excluded(hook, c) == hook.exclusions \cap Ancestors(c) # {}

\* A copy of an internal function: its run-time cache is the one of the original.
IsDuplicate(f, c) == f \in InternalFns /\ Scope[f] # c

RunTimeCache(f) == IF f \in InternalFns THEN Method[Scope[f]] ELSE f

-----------------------------------------------------------------------------
(* Entries. *)

NewEntry == [slots |-> <<>>, dynamic |-> 0, duplicates |-> 0, original |-> None]

Slot(id, shared) == [id |-> id, shared |-> shared]

Ids(slots) == {slots[i].id : i \in DOMAIN slots}

SlotOf(slots, id) == CHOOSE i \in DOMAIN slots : slots[i].id = id

With(f, x, e) == [y \in DOMAIN f \cup {x} |-> IF y = x THEN e ELSE f[y]]
Without(f, x) == [y \in DOMAIN f \ {x} |-> f[y]]

OnUpdateRemoveOnly(s, f, remove) ==
    IF remove THEN [s EXCEPT !.observed = @ \ {RunTimeCache(f)}] ELSE s

\* zai_interceptor_replace_observer: nothing to do before the first call.
OnUpdate(s, f, remove) ==
    IF RunTimeCache(f) \notin s.cached THEN s
    ELSE [s EXCEPT !.observed = IF remove THEN @ \ {RunTimeCache(f)} ELSE @ \cup {RunTimeCache(f)}]

\* The entry of f, with an entry for the function it is a copy of.
RECURSIVE EnsureEntry(_, _, _)
EnsureEntry(s, f, c) ==
    IF f \in DOMAIN s.entries THEN s
    ELSE IF IsDuplicate(f, c)
    THEN LET orig == Method[Parent[c]]
             t == EnsureEntry(s, orig, Parent[c])
         IN [t EXCEPT !.entries = With([@ EXCEPT ![orig].duplicates = @ + 1],
                                       f, [NewEntry EXCEPT !.original = orig])]
    ELSE OnUpdate([s EXCEPT !.entries = With(@, f, NewEntry)], f, FALSE)

\* zai_hook_sort_newest: after the last hook of a subclass, in front when there is none.
SortedPlace(s, slots, id) ==
    LET below == {i \in DOMAIN slots : InstanceOf(s.hooks[slots[i].id].scope, s.hooks[id].scope)}
    IN IF below = {} THEN 1 ELSE Max(below) + 1

\* The iterators over the entry of f go where `to' sends their position; one at 0 has lost its entry or is done.
Iterators(frs, f, to) ==
    SubSeq([i \in DOMAIN frs |-> IF frs[i].fn = f THEN [frs[i] EXCEPT !.pos = to[@]] ELSE frs[i]], 1, Len(frs))

InsertSlotShiftAll(s, f, slot) ==
    [s EXCEPT !.entries[f].slots = InsertAt(@, SortedPlace(s, @, slot.id), slot),
              !.entries[f].dynamic = @ + s.hooks[slot.id].dynamic,
              !.frames = Iterators(@, f, [pos \in Nat |-> IF pos > 0 THEN pos + 1 ELSE pos])]

\* The new bucket is spliced in, and iterators behind its place move with the buckets.
InsertSlot(s, f, slot) ==
    LET slots == s.entries[f].slots
        k == SortedPlace(s, slots, slot.id)
    IN [s EXCEPT !.entries[f].slots = InsertAt(slots, k, slot),
                 !.entries[f].dynamic = @ + s.hooks[slot.id].dynamic,
                 !.frames = Iterators(@, f, [pos \in Nat |-> IF k <= Len(slots) /\ pos >= k THEN pos + 1 ELSE pos])]

\* The hook itself is freed with the slot that owns it.
FreeHook(s, slot) == IF slot.shared THEN s ELSE [s EXCEPT !.hooks[slot.id].alive = FALSE]

DeleteSlot(s, f, id) ==
    LET slots == s.entries[f].slots
        k == SlotOf(slots, id)
    IN IF id \notin Ids(slots) THEN s
       ELSE FreeHook([s EXCEPT !.entries[f].slots = RemoveAt(slots, k),
                               !.frames = Iterators(@, f, [pos \in Nat |-> IF pos > k THEN pos - 1 ELSE pos])],
                     slots[k])

\* An entry is given up, and the one it was a copy of when nothing else needs it.
RECURSIVE RemoveEntry(_, _)
RemoveEntry(s, f) ==
    IF f \notin DOMAIN s.entries THEN s
    ELSE LET e == s.entries[f]
             orig == e.original
             t == IF orig = None THEN OnUpdate(s, f, TRUE)
                  ELSE LET u == [s EXCEPT !.entries[orig].duplicates = @ - 1]
                       IN IF u.entries[orig].duplicates = 0 /\ u.entries[orig].slots = <<>>
                          THEN RemoveEntry(u, orig) ELSE u
         IN FoldLeft(FreeHook, [t EXCEPT !.entries = Without(@, f),
                                         !.frames = Iterators(@, f, [pos \in Nat |-> 0])], e.slots)

RemoveIfEmpty(s, f) ==
    IF s.entries[f].slots = <<>> /\ s.entries[f].duplicates = 0 THEN RemoveEntry(s, f) ELSE s

-----------------------------------------------------------------------------
(* Installing. *)

InstallShared(s, id, c) ==
    LET t == EnsureEntry(s, Method[c], c)
    IN IF Excluded(s.hooks[id], c) THEN s
       ELSE IF id \in Ids(t.entries[Method[c]].slots) THEN t
       ELSE InsertSlot(t, Method[c], Slot(id, TRUE))

\* A hook on an abstract method goes to its implementations, one on an internal method to the copies.
Propagate(s, id, f) ==
    LET reach == IF s.hooks[id].abstract THEN AbstractReach(s, Scope[f])
                 ELSE IF f \in InternalFns THEN InternalReach(s, Scope[f]) ELSE {}
    IN FoldSet(LAMBDA c, t : InstallShared(t, id, c), s, reach)

\* zai_hook_request_install for a declared class.
InstallResolved(s, id, c) ==
    LET f == Method[c]
        t == EnsureEntry([s EXCEPT !.hooks[id].scope = c, !.hooks[id].abstract = f \in AbstractFns], f, c)
    IN Propagate(InsertSlot(t, f, Slot(id, FALSE)), id, f)

\* The class is not there yet: its hooks wait, in order.
InstallPending(s, id, c) ==
    LET e == IF c \in DOMAIN s.pending THEN s.pending[c] ELSE NewEntry
    IN [s EXCEPT !.pending = With(@, c, [e EXCEPT !.slots = Append(@, Slot(id, FALSE)),
                                                  !.dynamic = @ + s.hooks[id].dynamic])]

NewHook(c, kind) ==
    [on |-> c, scope |-> None, abstract |-> FALSE, dynamic |-> kind.dynamic, begin |-> kind.begin,
     removed |-> FALSE, refcount |-> 1, exclusions |-> {}, alive |-> TRUE]

\* DDTrace\install_hook() and the like.
InstallHook(c, kind) ==
    LET s == [State EXCEPT !.hooks = Append(@, NewHook(c, kind))]
        id == Len(s.hooks)
    IN /\ id <= program.hooks
       /\ c \in program.hooked
       /\ Become(IF c \in declared THEN InstallResolved(s, id, c) ELSE InstallPending(s, id, c))

-----------------------------------------------------------------------------
(* Declaring a class. *)

\* The hooks that waited for c: its function gets their entry, or they join the one it has.
ResolvePending(s, c) ==
    LET f == Method[c]
        e == s.pending[c]
        t == [s EXCEPT !.pending = Without(@, c)]
        Scoped(u, id, abs) == [u EXCEPT !.hooks[id].scope = c, !.hooks[id].abstract = abs]
        fresh == EnsureEntry([t EXCEPT !.cached = @ \ {f}], f, c)
        moved == [fresh EXCEPT !.entries[f].slots = e.slots, !.entries[f].dynamic = e.dynamic, !.cached = t.cached]
    IN IF f \in DOMAIN s.entries
       THEN FoldLeft(LAMBDA u, slot : Propagate(InsertSlot(Scoped(u, slot.id, TRUE), f, slot), slot.id, f),
                     t, e.slots)
       ELSE FoldLeft(LAMBDA u, slot : Propagate(Scoped(u, slot.id, f \in AbstractFns), slot.id, f),
                     moved, e.slots)

PrototypesParent(c) == {Method[p] : p \in {Parent[c]} \ {None}}

\* The functions whose hooks the new method inherits.
Prototypes(c) ==
    {Method[i] : i \in Interfaces[c]}
        \cup {Method[p] : p \in {q \in {Parent[c]} \ {None} :
                                    Method[q] \in AbstractFns \/ Method[c] \in InternalFns}}

MergeInherited(s, c, proto) ==
    IF proto \notin DOMAIN s.entries THEN s
    ELSE FoldLeft(LAMBDA t, slot :
                      IF Excluded(t.hooks[slot.id], c) THEN t
                      ELSE LET u == EnsureEntry(t, Method[c], c)
                           IN IF slot.id \in Ids(u.entries[Method[c]].slots) THEN u
                              ELSE InsertSlot(u, Method[c], Slot(slot.id, TRUE)),
                  s, s.entries[proto].slots)

\* zai_hook_resolve_class
DeclareClass(c) ==
    LET s == [State EXCEPT !.declared = @ \cup {c}]
        t == IF c \in DOMAIN s.pending THEN ResolvePending(s, c) ELSE s
    IN /\ c \in program.classes \ declared
       /\ Ancestors(c) \ {c} \subseteq declared
       /\ Become(IF Scope[Method[c]] = c \/ Method[c] \in InternalFns
                 THEN FoldSet(LAMBDA p, u : MergeInherited(u, c, p), t, Prototypes(c)) ELSE t)

-----------------------------------------------------------------------------
(* Removing and excluding. *)

RemoveShared(s, id, f, base) ==
    IF f \in DOMAIN s.entries /\ f # base THEN RemoveIfEmpty(DeleteSlot(s, f, id), f) ELSE s

RemoveBelow(s, id, reach, base) ==
    FoldSet(LAMBDA c, t : RemoveShared(t, id, Method[c], base), s, reach)

RemoveResolvedNow(s, id, f) ==
    LET t == [s EXCEPT !.entries[f].dynamic = @ - s.hooks[id].dynamic, !.hooks[id].refcount = @ - 1]
    IN RemoveIfEmpty(DeleteSlot(RemoveBelow(t, id, AbstractReach(t, Scope[f]), f), f, id), f)

\* zai_hook_remove_resolved: a hook with calls in progress is only marked.
RemoveResolved(s, id, f) ==
    LET t == [s EXCEPT !.entries[f].dynamic = @ - s.hooks[id].dynamic, !.hooks[id].refcount = @ - 1]
        u == IF t.hooks[id].abstract THEN RemoveBelow(t, id, AbstractReach(t, Scope[f]), f)
             ELSE IF f \in InternalFns THEN RemoveBelow(t, id, InternalReach(t, Scope[f]), None)
             ELSE t
    IN IF t.hooks[id].refcount > 0
       THEN [t EXCEPT !.hooks[id].removed = TRUE]
       ELSE RemoveIfEmpty(DeleteSlot(u, f, id), f)

RemovePending(s, id, c) ==
    LET e == s.pending[c]
        slots == RemoveAt(e.slots, SlotOf(e.slots, id))
    IN [s EXCEPT !.hooks[id].alive = FALSE, !.hooks[id].refcount = 0,
                 !.pending = IF slots = <<>> THEN Without(@, c)
                             ELSE [@ EXCEPT ![c] = [e EXCEPT !.slots = slots,
                                                             !.dynamic = @ - s.hooks[id].dynamic]]]

\* DDTrace\remove_hook($id)
RemoveHook(id) ==
    LET c == hooks[id].on
    IN /\ hooks[id].alive
       /\ ~hooks[id].removed
       /\ Become(IF c \in declared THEN RemoveResolved(State, id, Method[c]) ELSE RemovePending(State, id, c))

\* DDTrace\remove_hook($id, $class) before the class is declared.
ExcludeClass(id, c) ==
    /\ hooks[id].alive
    /\ ~hooks[id].removed
    /\ c \in program.excluded \ declared
    /\ Become([State EXCEPT !.hooks[id].exclusions = @ \cup {c}])

-----------------------------------------------------------------------------
(* Calls.  Memory is counted in units of a zai_hook_info. *)

\* Memory for the hooks the entry has when the call starts.
NewFrame(f, c, e) ==
    [fn |-> f, class |-> c, phase |-> "begin", pos |-> 1, infos |-> <<>>, started |-> Ids(e.slots),
     offset |-> Len(e.slots), size |-> Len(e.slots) + e.dynamic, allocated |-> Len(e.slots)]

GrowInPlace(fr, dynamic) ==
    [fr EXCEPT !.size = Max({@, fr.offset + dynamic + 2}), !.allocated = @ + 1]

\* One more hook than there is room for: the dynamic memory moves up by one info.
Grow(fr, dynamic) ==
    [fr EXCEPT !.infos = SubSeq([i \in DOMAIN @ |-> [@[i] EXCEPT !.offset = @ + 1]], 1, Len(@)),
               !.offset = @ + 1,
               !.size = Max({@, fr.offset + dynamic + 2}),
               !.allocated = @ + 1]

AddInfo(fr, id, dynamic) ==
    LET g == IF fr.offset + dynamic > fr.size \/ fr.allocated <= Len(fr.infos) THEN Grow(fr, dynamic) ELSE fr
    IN [g EXCEPT !.infos = Append(@, [id |-> id, offset |-> g.offset])]

Top(s) == Last(s.frames)
SetTop(s, fr) == [s EXCEPT !.frames = Append(Front(@), fr)]

Applies(s, fr, id) == ~s.hooks[id].removed /\ InstanceOf(fr.class, s.hooks[id].scope)

\* The loop of zai_hook_continue, up to the next begin callback or to the body.
RECURSIVE Continue(_)
Continue(s) ==
    LET fr == Top(s)
        slots == s.entries[fr.fn].slots
        id == slots[fr.pos].id
        next == [fr EXCEPT !.pos = @ + 1]
        t == [SetTop(s, AddInfo(next, id, s.hooks[id].dynamic)) EXCEPT !.hooks[id].refcount = @ + 1]
    IN IF fr.pos > Len(slots) THEN SetTop(s, [fr EXCEPT !.phase = "body", !.pos = 0])
       ELSE IF ~Applies(s, fr, id) THEN Continue(SetTop(s, next))
       ELSE IF s.hooks[id].begin THEN t ELSE Continue(t)

\* The first call of a function asks for its observers; without them no hook runs.
FirstCall(s, f) ==
    IF RunTimeCache(f) \in s.cached THEN s
    ELSE [s EXCEPT !.cached = @ \cup {RunTimeCache(f)},
                   !.observed = IF f \in DOMAIN s.entries THEN @ \cup {RunTimeCache(f)} ELSE @]

Call(c) ==
    LET f == Method[c]
        s == FirstCall(State, f)
    IN /\ c \in declared
       /\ f \notin AbstractFns
       /\ Len(frames) < MaxDepth
       /\ Become(IF RunTimeCache(f) \in s.observed /\ f \in DOMAIN entries /\ entries[f].slots # <<>>
                 THEN Continue([s EXCEPT !.frames = Append(@, NewFrame(f, c, entries[f]))]) ELSE s)

\* A begin callback returns: the loop goes on where its iterator is now, or the call is given up.
BeginReturns ==
    LET fr == Last(frames)
        moved == [fr EXCEPT !.offset = @ + hooks[Last(fr.infos).id].dynamic]
    IN /\ frames # <<>>
       /\ fr.phase = "begin"
       /\ Become(IF fr.pos > 0 THEN Continue(SetTop(State, moved))
                 ELSE IF fr.fn \in DOMAIN entries THEN Continue(SetTop(State, [moved EXCEPT !.pos = 1]))
                 ELSE SetTop(State, [moved EXCEPT !.phase = "body"]))

\* The end callbacks run from the last info to the first; phase "end" is inside one of them.
EndPhase(s) ==
    LET fr == Top(s)
    IN IF fr.infos = <<>> THEN [s EXCEPT !.frames = Front(@)]
       ELSE SetTop(s, [fr EXCEPT !.phase = "end", !.pos = 0, !.started = {},
                                 !.offset = 0, !.size = 0, !.allocated = 0])

BeginFails ==
    /\ frames # <<>>
    /\ Last(frames).phase = "begin"
    /\ Become(EndPhase(State))

BodyReturns ==
    /\ frames # <<>>
    /\ Last(frames).phase = "body"
    /\ Become(EndPhase(State))

\* The last reference of a removed hook: it leaves its entry, and the ones it was shared with.
Release(s, id, f) ==
    LET g == IF Slot(id, TRUE) \in ToSet(s.entries[f].slots) THEN Method[s.hooks[id].on] ELSE f
        t == IF g = f THEN s ELSE RemoveBelow(s, id, AbstractReach(s, s.hooks[id].on), g)
    IN IF f \notin DOMAIN s.entries \/ id \notin Ids(s.entries[f].slots) THEN s
       ELSE RemoveIfEmpty(DeleteSlot(t, g, id), g)

\* An end callback returns, and the call's reference to the hook is dropped.
EndReturns ==
    LET fr == Last(frames)
        id == Last(fr.infos).id
        s == [SetTop(State, [fr EXCEPT !.infos = Front(@)]) EXCEPT !.hooks[id].refcount = @ - 1]
    IN /\ frames # <<>>
       /\ fr.phase = "end"
       /\ Become(EndPhase(IF s.hooks[id].refcount = 0 THEN Release(s, id, fr.fn) ELSE s))

\* The request ends, its tables are cleaned and the next one starts.
NextRequest ==
    /\ frames = <<>>
    /\ program' \in Programs
    /\ declared' = program'.declared
    /\ pending' = <<>> /\ entries' = <<>> /\ hooks' = <<>> /\ frames' = <<>>
    /\ cached' = {} /\ observed' = {}

Init ==
    /\ program \in Programs
    /\ declared = program.declared
    /\ pending = <<>> /\ entries = <<>> /\ hooks = <<>> /\ frames = <<>>
    /\ cached = {} /\ observed = {}

Next ==
    \/ \E c \in Classes, kind \in program.kinds : InstallHook(c, kind)
    \/ \E c \in Classes : DeclareClass(c)
    \/ \E id \in DOMAIN hooks : RemoveHook(id)
    \/ \E id \in DOMAIN hooks, c \in Classes : ExcludeClass(id, c)
    \/ \E c \in Classes : Call(c)
    \/ BeginReturns
    \/ BeginFails
    \/ BodyReturns
    \/ EndReturns
    \/ NextRequest

Spec == Init /\ [][Next]_vars

-----------------------------------------------------------------------------
(* Properties. *)

\* Types, and an entry outlives the entries of its copies (internal_duplicate_count).
TypeOK ==
    /\ program \in Programs
    /\ declared \subseteq program.classes
    /\ DOMAIN pending \subseteq program.hooked \ declared
    /\ DOMAIN entries \subseteq Fns
    /\ \A f \in DOMAIN entries :
           /\ entries[f].slots \in Seq([id : DOMAIN hooks, shared : BOOLEAN])
           /\ entries[f].dynamic \in Nat /\ entries[f].duplicates \in Nat
           /\ entries[f].original \in DOMAIN entries \cup {None}
    /\ \A id \in DOMAIN hooks : hooks[id].refcount \in Nat /\ hooks[id].scope \in Classes \cup {None}
    /\ \A i \in DOMAIN frames : frames[i].phase \in {"begin", "body", "end"} /\ frames[i].pos \in Nat
    /\ observed \subseteq cached /\ cached \subseteq Fns

Held(fr) == {fr.infos[j].id : j \in DOMAIN fr.infos}

\* The reference count of a hook is the number of calls that hold it, and one more until it is removed:
\* whatever callbacks remove, in whatever nesting of calls, no call is left with a hook that was freed
\* and no hook without references stays (refcount of zai_hook_t).
RefcountExact ==
    \A id \in DOMAIN hooks :
        LET h == hooks[id]
            calls == Cardinality({i \in DOMAIN frames : id \in Held(frames[i])})
        IN IF h.alive THEN h.refcount > 0 /\ h.refcount = calls + (IF h.removed THEN 0 ELSE 1)
           ELSE calls = 0

\* Every slot of an entry points to a hook that was not freed, except the shared slots of a hook whose
\* removal had to wait for a call to return: zai_hook_remove cleans all the entries it was shared with.
SlotsAliveUnlessDeferred ==
    \A f \in DOMAIN entries : \A i \in DOMAIN entries[f].slots :
        LET slot == entries[f].slots[i]
        IN hooks[slot.id].alive \/ (slot.shared /\ hooks[slot.id].removed)

\* The references of the table are consistent, with its types.
TableConsistent == TypeOK /\ RefcountExact /\ SlotsAliveUnlessDeferred

\* The classes a hook on c is meant for: c, the implementations of an abstract method (of a class, those
\* right below it), the copies of an internal one.
MeantFor(c, d) ==
    \/ c = d
    \/ /\ Method[c] \in AbstractFns
       /\ \/ c \in Interfaces[d]
          \/ Parent[d] # None /\ Method[Parent[d]] = Method[c]
    \/ /\ Method[c] \in InternalFns
       /\ Scope[Method[d]] = Scope[Method[c]]
       /\ InstanceOf(d, c)

\* Whether the hook or the class comes first, a hook is in the entry of every declared class it is meant
\* for and that is not excluded (zai_hook_resolve_class and zai_hook_resolved_install do the same).
ReachesImplementations ==
    \A id \in DOMAIN hooks, d \in declared :
        /\ hooks[id].alive /\ ~hooks[id].removed
        /\ hooks[id].on \in declared
        /\ MeantFor(hooks[id].on, d) /\ ~Excluded(hooks[id], d)
        => Method[d] \in DOMAIN entries /\ id \in Ids(entries[Method[d]].slots)

\* However hooks and classes come, the hooks of a class precede those of its parents and interfaces
\* ("sort: children at the start, parents at the end").
ChildrenFirst ==
    \A f \in DOMAIN entries : \A i, j \in DOMAIN entries[f].slots :
        LET a == hooks[entries[f].slots[i].id].scope
            b == hooks[entries[f].slots[j].id].scope
        IN i < j /\ a # b => ~InstanceOf(b, a)

\* Each hook is in every entry it belongs to, at its place.
HooksInPlace == ReachesImplementations /\ ChildrenFirst

\* When the body starts, every hook that was there when the call started, was not removed since and
\* applies to the called class has begun exactly once, whatever its callbacks did to the entry
\* ("iterate the array in a safe way, i.e. handling possible updates at runtime").
EveryHookBegins ==
    [][\A i \in DOMAIN frames \cap DOMAIN frames' :
          frames[i].phase = "begin" /\ frames'[i].phase = "body" =>
              LET fr == frames'[i]
              IN /\ Cardinality(Held(fr)) = Len(fr.infos)
                 /\ \A id \in fr.started :
                        hooks[id].alive /\ ~hooks[id].removed /\ InstanceOf(fr.class, hooks[id].scope) =>
                            id \in Held(fr)]_vars

\* The dynamic memories of a call's hooks are inside its block, behind the infos, and do not overlap,
\* also when callbacks add hooks for which there was no room.
MemoryDisjoint ==
    \A i \in DOMAIN frames :
        LET fr == frames[i]
            from(j) == fr.infos[j].offset
            to(j) == fr.infos[j].offset + hooks[fr.infos[j].id].dynamic
        IN fr.phase # "end" =>
               /\ Len(fr.infos) <= fr.allocated
               /\ \A j \in DOMAIN fr.infos : fr.allocated <= from(j) /\ to(j) <= fr.size
               /\ \A j \in DOMAIN fr.infos : \A k \in 1..j - 1 : to(k) <= from(j)

\* The run-time cache of a called function has our observers exactly as long as it has hooks (itself or
\* through a copy), and every call that holds hooks gets to its end callbacks.  The exception: nothing
\* tells the cache of an inherited method about a hook that waited for the inheriting class.
ObserversFollowHooks ==
    /\ \A f \in DOMAIN entries :
           /\ entries[f].slots # <<>>
           /\ RunTimeCache(f) \in cached
           /\ \A id \in DOMAIN hooks : Method[hooks[id].on] = f => hooks[id].on = Scope[f]
           => RunTimeCache(f) \in observed
    /\ \A i \in DOMAIN frames : frames[i].infos # <<>> => RunTimeCache(frames[i].fn) \in observed
    /\ observed \subseteq DOMAIN entries

=============================================================================
