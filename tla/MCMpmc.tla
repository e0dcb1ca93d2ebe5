------------------------------- MODULE MCMpmc -------------------------------
(* The queue with two consumers (threads 1 and 2) and two producers.        *)
EXTENDS Mpmc

\* Nodes of one cell, which are appended and reclaimed at every ticket, and
\* nodes of two cells, in which a cell is not its node.
OneCellOrTwo ==
    {[N |-> 1, threshold |-> 1, Counts |-> <<2, 1, 2, 1>>],
     [N |-> 2, threshold |-> 0, Counts |-> <<2, 1, 2, 1>>]}
=============================================================================
