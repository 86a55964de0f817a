--------------------------- MODULE MCServiceStart ---------------------------
EXTENDS ServiceStart, TLC

CONSTANTS p1, p2, p3

PidOfDaemon == (p1 :> 1) @@ (p2 :> 2) @@ (p3 :> 3)
=============================================================================
