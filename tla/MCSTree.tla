------------------------------ MODULE MCSTree ------------------------------
(* The tree with a few values and any sequence of operations. *)
EXTENDS STree
=============================================================================
