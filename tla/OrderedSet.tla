----------------------------- MODULE OrderedSet -----------------------------
(***************************************************************************)
(* What treeint_insert, treeint_find and treeint_remove promise: a set of  *)
(* integers.  A call is answered by whether its value was in the set.      *)
(***************************************************************************)
EXTENDS Integers

CONSTANT Keys

VARIABLES set, call, result

setVars == <<set, call, result>>

Ops == {"insert", "find", "remove"}
NoCall == <<"none">>

SetInit == set = {} /\ call = NoCall /\ result = FALSE

Call ==
    /\ call = NoCall
    /\ \E op \in Ops, a \in Keys : call' = <<op, a>>
    /\ UNCHANGED <<set, result>>

Answer ==
    /\ call # NoCall
    /\ result' = (call[2] \in set)
    /\ set' = CASE call[1] = "insert" -> set \cup {call[2]}
                [] call[1] = "find" -> set
                [] call[1] = "remove" -> set \ {call[2]}
    /\ call' = NoCall

Clear ==
    /\ call = NoCall
    /\ set' = {}
    /\ UNCHANGED <<call, result>>

SetNext == Call \/ Answer \/ Clear

SetSafety == SetInit /\ [][SetNext]_setVars

SetSpec == SetSafety /\ WF_setVars(Answer)
=============================================================================
