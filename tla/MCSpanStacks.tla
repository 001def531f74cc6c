---------------------------- MODULE MCSpanStacks ----------------------------
(* Instances of SpanStacks: each workload combines the calls that interact. *)
EXTENDS SpanStacks

Default == {"autofinish", "autoflush"}
Uses(calling, n) == [uses |-> calling, stacks |-> n]

MCWorkloads == {Uses({"stack", "trace"} \cup Default, 4),
                Uses({"stack", "trace", "destroy"} \cup Default, 3),
                Uses({"stack", "destroy", "handler"} \cup Default, 3),
                Uses({"traced", "drop", "handler"} \cup Default, 3),
                Uses({"traced", "handler", "autoflush"}, 3),
                Uses({"fiber", "traced", "flush"} \cup Default, 3),
                Uses({"until", "request", "trace", "handler", "autofinish"}, 3),
                Uses({"fork", "trace", "flush", "request", "autofinish"}, 3),
                Uses({"stack", "drop", "destroy", "autoflush"}, 3),
                Uses({"genroot", "root", "toggle", "drop", "traced", "request", "closeall"}, 3)}
=============================================================================
