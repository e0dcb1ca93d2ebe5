---------------------------- MODULE MCClockGraph ----------------------------
(* The clock and the chain of threads of quiz1/main.c. *)
EXTENDS ClockGraph
=============================================================================
