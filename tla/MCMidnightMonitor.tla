------------------------- MODULE MCMidnightMonitor -------------------------
(* Small instances of MidnightMonitor for TLC. *)
EXTENDS MidnightMonitor, TLC

CONSTANTS r1, r2
=============================================================================
