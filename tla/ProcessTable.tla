---------------------------- MODULE ProcessTable ----------------------------
(***************************************************************************)
(* What the spawn shim promises of child processes, without the threads,   *)
(* pipes and polls that bring it about: a bounded table of processes, each *)
(* of which starts once, ends, is reported at most once and then leaves.   *)
(***************************************************************************)
EXTENDS Integers, FiniteSets

CONSTANTS Procs,        \* the ids, 1 .. n
          TableSize     \* processes in the table at a time, 0 for no limit

VARIABLES phase,        \* free, running, ended, gone
          expired,      \* the deadline has been held against it
          reported      \* none, exit, timeout

tableVars == <<phase, expired, reported>>

InTable == {p \in Procs : phase[p] \in {"running", "ended"}}
Verdict(p) == IF expired[p] THEN "timeout" ELSE "exit"

Init == /\ phase = [p \in Procs |-> "free"]
        /\ expired = [p \in Procs |-> FALSE]
        /\ reported = [p \in Procs |-> "none"]

\* Ids are handed out in order and never again.
Start(p) == /\ phase[p] = "free"
            /\ \A q \in 1 .. p - 1 : phase[q] # "free"
            /\ TableSize > 0 => Cardinality(InTable) < TableSize
            /\ phase' = [phase EXCEPT ![p] = "running"]
            /\ UNCHANGED <<expired, reported>>

End(p) == /\ phase[p] = "running"
          /\ phase' = [phase EXCEPT ![p] = "ended"]
          /\ UNCHANGED <<expired, reported>>

\* Once: the verdict of a process that was reported does not change.
Expire(p) == /\ phase[p] \in {"running", "ended"}
             /\ ~expired[p]
             /\ reported[p] = "none"
             /\ expired' = [expired EXCEPT ![p] = TRUE]
             /\ UNCHANGED <<phase, reported>>

Report(p) == /\ phase[p] = "ended"
             /\ reported[p] = "none"
             /\ reported' = [reported EXCEPT ![p] = Verdict(p)]
             /\ UNCHANGED <<phase, expired>>

\* A process leaves with its report, after it, or unreported.
Leave(p) == /\ phase[p] = "ended"
            /\ phase' = [phase EXCEPT ![p] = "gone"]
            /\ reported' \in {reported} \union
                   (IF reported[p] = "none"
                    THEN {[reported EXCEPT ![p] = Verdict(p)]} ELSE {})
            /\ UNCHANGED expired

Next == \E p \in Procs :
            Start(p) \/ End(p) \/ Expire(p) \/ Report(p) \/ Leave(p)

Spec == Init /\ [][Next]_tableVars
=============================================================================
