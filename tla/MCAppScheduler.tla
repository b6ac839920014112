--------------------------- MODULE MCAppScheduler ---------------------------
(* Model values for the run of AppScheduler.                               *)
EXTENDS AppScheduler

CONSTANTS a1, a2, t1, t2
=============================================================================
