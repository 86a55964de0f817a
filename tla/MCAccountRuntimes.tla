-------------------------- MODULE MCAccountRuntimes --------------------------
(* One reference, retired up to four times; references do not interact.     *)
EXTENDS AccountRuntimes, TLC
=============================================================================
