------------------------------ MODULE OneOwner ------------------------------
(***************************************************************************)
(* What the service promises about a Telegram authorization key: at any    *)
(* moment at most one party may use it, a running account runtime or an    *)
(* account mutation that replaces the stored key, and an owner whose       *)
(* connection could not be closed for certain is never succeeded.          *)
(***************************************************************************)
CONSTANTS
  Refs,     \* session references, one Telegram key each
  Parties   \* whoever may own a key

VARIABLES
  holders,  \* holders[r]: the parties that own the key of r
  stuck     \* stuck[r]: the owner of r could not be disposed

vars == <<holders, stuck>>

Init ==
  /\ holders = [r \in Refs |-> {}]
  /\ stuck   = [r \in Refs |-> FALSE]

(* A free key is taken by one party. *)
Acquire(r, p) ==
  /\ holders[r] = {}
  /\ holders' = [holders EXCEPT ![r] = {p}]
  /\ UNCHANGED stuck

(* The owner gives the key up, to nobody or directly to a successor. *)
Release(r, p) ==
  /\ ~stuck[r]
  /\ holders[r] = {p}
  /\ \/ holders' = [holders EXCEPT ![r] = {}]
     \/ \E q \in Parties : holders' = [holders EXCEPT ![r] = {q}]
  /\ UNCHANGED stuck

(* The owner is the last one: it keeps the key until the process ends. *)
GetStuck(r) ==
  /\ holders[r] # {}
  /\ stuck' = [stuck EXCEPT ![r] = TRUE]
  /\ UNCHANGED holders

Next ==
  \E r \in Refs :
    \/ GetStuck(r)
    \/ \E p \in Parties : Acquire(r, p) \/ Release(r, p)

Spec == Init /\ [][Next]_vars
=============================================================================
