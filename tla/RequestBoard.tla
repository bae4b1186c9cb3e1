---------------------------- MODULE RequestBoard ----------------------------
(***************************************************************************)
(* What asynchronous requests promise the scripts of one runtime after     *)
(* another, without the queues, workers and pumps that bring it about: a   *)
(* request is open until it is answered, once; what is still open when its *)
(* runtime ends is dropped; and only the answers of such dropped requests  *)
(* can take others with them.                                              *)
(***************************************************************************)
EXTENDS Integers

CONSTANT Reqs       \* 1 .. n, in the order asked

VARIABLE state      \* new, open, resolved, rejected, dropped

Open == {r \in Reqs : state[r] = "open"}
With(R, s) == [r \in Reqs |-> IF r \in R THEN s ELSE state[r]]

Init == state = [r \in Reqs |-> "new"]

Ask == \E r \in Reqs :
    /\ state[r] = "new"
    /\ \A q \in 1 .. r - 1 : state[q] # "new"
    /\ state' = With({r}, "open")

Settle == \E r \in Open, s \in {"resolved", "rejected"} : state' = With({r}, s)

EndRuntime == state' = With(Open, "dropped")

Lose == /\ \E r \in Reqs : state[r] = "dropped"
        /\ \E R \in SUBSET Open : state' = With(R, "dropped")

Next == Ask \/ Settle \/ EndRuntime \/ Lose

Spec == Init /\ [][Next]_state
=============================================================================
