---------------------------- MODULE MCSpawnShim ----------------------------
(* Finite instances of SpawnShim for TLC. *)
EXTENDS SpawnShim

Opt(S, l, t)     == [streams |-> S, limit |-> l, timed |-> t]
Prog(o, e, x, f) == [writes |-> [k \in Kinds |-> IF k = "out" THEN o ELSE e],
                     endless |-> x, forks |-> f]

\* One process, a pipe and a buffer of two, a limit of two: the limit falls
\* between reads, inside a read, and later reads are cut whole.  One program uses
\* both pipes, the other writes more than limit and pipe hold, so that only
\* draining the pipe lets it finish.
OneOptions  == {Opt(Kinds, 2, FALSE)}
OnePrograms == {Prog(3, 1, FALSE, FALSE), Prog(5, 0, FALSE, FALSE)}
\* Two processes with deadlines, some that end by themselves, some with a
\* child of their own; no pipes, so that the list and the flags have room.
TwoOptions  == {Opt({}, 0, TRUE)}
TwoPrograms == {Prog(0, 0, FALSE, FALSE), Prog(0, 0, TRUE, TRUE)}
\* The contexts are interchangeable.
ContextSymmetry == Permutations(Contexts)
\* No pipes: what matters is the promises and the list.
BareOptions  == {Opt({}, 0, FALSE)}
BarePrograms == {Prog(0, 0, FALSE, FALSE)}
\* Deadlines, and processes that end only when they are made to.
DeadlineOptions  == {Opt({}, 0, TRUE)}
DeadlinePrograms == {Prog(0, 0, TRUE, FALSE)}
=============================================================================
