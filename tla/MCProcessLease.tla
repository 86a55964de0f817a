--------------------------- MODULE MCProcessLease ---------------------------
EXTENDS ProcessLease, TLC

CONSTANTS p1, p2, p3, p4

Number == (p1 :> 1) @@ (p2 :> 2) @@ (p3 :> 3) @@ (p4 :> 1)

(* Starters p1 and p4 share a process number: one after the other. *)
PidOfStarter == [p \in Starters |-> Number[p]]
=============================================================================
