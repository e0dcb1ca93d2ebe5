---------------------------- MODULE MCMpmcDriver ----------------------------
(* Two producers and two consumers.                                         *)
EXTENDS MpmcDriver

\* Several rounds, and several items in one.
RoundsOrItems ==
    {[COUNTS_PER_THREAD |-> 1, ROUNDS |-> 3], [COUNTS_PER_THREAD |-> 2, ROUNDS |-> 1]}
=============================================================================
