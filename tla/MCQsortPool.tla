---------------------------- MODULE MCQsortPool ----------------------------
(* Two and three threads with arrays that make them share the work up to    *)
(* three times, and one thread with every short array of three values.      *)
EXTENDS QsortPool

Call(a, maxthreads, forkelem) ==
    [a |-> a, maxthreads |-> maxthreads, forkelem |-> forkelem]

Shared == {<<5, 6, 3, 6, 1, 4, 1, 4>>, <<0, 5, 3, 3, 5, 4, 2, 7, 7, 1, 6>>,
           <<5, 2, 6, 2, 1, 6, 0, 3, 4, 7, 0, 7, 1>>}

MCCalls ==
    {Call(a, maxthreads, 1) : a \in Shared, maxthreads \in {2, 3}}
    \cup {Call(a, 1, 2) : a \in UNION {[1 .. n -> 0 .. 2] : n \in 1 .. 6}}
=============================================================================
