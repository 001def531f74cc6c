---------------------------- MODULE MCHookTable ----------------------------
(* Two small class hierarchies for HookTable. *)
EXTENDS HookTable

\* interface I; class C implements I; class D extends C (no method of its own); class E extends C.
\* class A is internal; class B extends A; class F extends B: copies of A's method.  class K is alone.
MCParent == [c \in {"I", "C", "D", "E", "A", "B", "F", "K"} |->
    CASE c \in {"D", "E"} -> "C" [] c = "B" -> "A" [] c = "F" -> "B" [] OTHER -> None]
MCInterfaces == [c \in DOMAIN MCParent |-> IF c \in {"C", "D", "E"} THEN {"I"} ELSE {}]
MCMethod == [c \in DOMAIN MCParent |->
    CASE c = "I" -> "I.m" [] c \in {"C", "D"} -> "C.m" [] c = "E" -> "E.m"
      [] c = "A" -> "A.m" [] c = "B" -> "B.m" [] c = "F" -> "F.m"
      [] c = "K" -> "K.m"]
MCScope == [f \in {"I.m", "C.m", "E.m", "A.m", "B.m", "F.m", "K.m"} |->
    CASE f = "I.m" -> "I" [] f = "C.m" -> "C" [] f = "E.m" -> "E" [] f = "K.m" -> "K" [] OTHER -> "A"]

\* A user hook has dynamic memory and a begin callback, an integration loader may have neither.
UserHook == [dynamic |-> 2, begin |-> TRUE]
LoaderHook == [dynamic |-> 0, begin |-> FALSE]

Program(all, start, hook, n) ==
    [classes |-> all, declared |-> start, hooked |-> hook, excluded |-> {},
     hooks |-> n, kinds |-> {UserHook}]
MCPrograms == {[Program({"I", "C", "D", "E"}, {"I"}, {"I", "C", "D"}, 2) EXCEPT !.excluded = {"E"}],
               Program({"I", "C"}, {}, {"I", "C"}, 3),
               [Program({"A", "B", "F"}, {"A"}, {"A"}, 2) EXCEPT !.kinds = {UserHook, LoaderHook}],
               [Program({"K"}, {"K"}, {"K"}, 3) EXCEPT !.kinds = {UserHook, LoaderHook}]}
=============================================================================
