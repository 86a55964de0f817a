------------------------------ MODULE MCDaemon ------------------------------
EXTENDS Daemon, TLC

CONSTANTS e1, e2, r1, r2

(* Two endpoints share an account; then one is withdrawn ... *)
Withdrawal == {(e1 :> r1) @@ (e2 :> r1), (e1 :> r1) @@ (e2 :> NoRef)}

(* ... or moves to another account. *)
Relocation == {(e1 :> r1) @@ (e2 :> r1), (e1 :> r1) @@ (e2 :> r2)}
=============================================================================
