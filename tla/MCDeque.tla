------------------------------ MODULE MCDeque ------------------------------
(* One deque, its owner and its thieves. *)
EXTENDS Deque

\* A deque that grows on a machine with strongly ordered stores, and one that
\* need not grow on a machine with weakly ordered ones.
GrowOrReorder == {<<"TSO", 0>>, <<"PSO", MaxArray>>}
GrowAndReorder == {<<"PSO", 0>>}

\* Thieves are interchangeable.
ThiefSymmetry == Permutations(Thieves)
=============================================================================
