--------------------------- MODULE MCModuleGraph ---------------------------
(* Finite instances of ModuleGraph for TLC. *)
EXTENDS ModuleGraph
CONSTANTS a, b, c

\* All graphs of three modules in which a module requests some of the others, in
\* either order.
Requests(m) == {s \in UNION {[1 .. n -> Modules \ {m}] : n \in 0 .. 2} : IsInjective(s)}
AllGraphs   == {g \in [Modules -> UNION {Requests(m) : m \in Modules}] :
                   \A m \in Modules : g[m] \in Requests(m)}
\* With all graphs examined it does not matter which modules await, only how many.
Awaits      == {{}, {a}, {a, b}, {a, b, c}}
AtMostOne   == {{}} \union {{m} : m \in Modules}

\* a awaits at top level, b requests it, and so may c.
Chain       == {[m \in Modules |-> CASE m = a -> <<>> [] m = b -> <<a>> [] m = c -> <<b>>]}
OneAwaits   == {{a}}
NoneBroken  == {{}}
=============================================================================
