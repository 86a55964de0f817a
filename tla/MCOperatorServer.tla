-------------------------- MODULE MCOperatorServer --------------------------
EXTENDS OperatorServer

CONSTANTS c1, c2

Plain(op) == [op |-> op, arg |-> "none"]
With(op, arg) == [op |-> op, arg |-> arg]
Auth == With("authenticate", "passphrase")

Scenario(start, kind, first, second) ==
  [posture |-> start, source |-> kind, sends |-> [c \in Conns |-> IF c = c1 THEN first ELSE second]]

(* The PIN changes under a login. *)
S1 == Scenario("hardened", "passphrase",
               <<Auth, With("login.begin", "phone")>>,
               <<Auth, With("pin.change", "keyfile")>>)

(* The first account decides the posture under an authenticated peer. *)
S2 == Scenario("none", "machine",
               <<With("login.begin", "qr"), With("login.commit", "keyfile")>>,
               <<Auth, Plain("account.remove")>>)

(* So does the first policy. *)
S3 == Scenario("none", "passphrase",
               <<With("login.begin", "phone"), Plain("login.cancel")>>,
               <<Plain("policy.apply")>>)

S4 == Scenario("smooth", "machine",
               <<Plain("status"), With("login.begin", "qr"), With("login.commit", "machine")>>,
               <<With("pin.set", "passphrase")>>)

(* Two peers guess; one asks for a stop. *)
S5 == Scenario("hardened", "passphrase",
               <<Auth, Auth, Plain("stop")>>,
               <<With("authenticate", "machine"), Auth, With("pin.remove", "passphrase")>>)

(* Two logins of one peer, one of which is committed. *)
S6 == Scenario("smooth", "machine",
               <<With("login.begin", "qr"), With("login.begin", "qr"), With("login.commit", "machine")>>,
               <<>>)

MCScenarios == {S1, S2, S3, S4, S5, S6}
=============================================================================
