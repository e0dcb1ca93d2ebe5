--------------------------- MODULE AbstractDeque ---------------------------
(***************************************************************************)
(* What the work-stealing deques of quiz2/test1/work-steal.c promise.  The *)
(* owner of a queue pushes and takes at its tail; thieves steal at its     *)
(* head.  take is exact: it returns EMPTY if and only if the queue is      *)
(* empty.  steal may return EMPTY although there is an item (the owner's   *)
(* last push may not be visible yet), and ABORT only if another thread has *)
(* removed an item at the head since the steal began.                      *)
(***************************************************************************)
EXTENDS Naturals, Sequences, SequencesExt

CONSTANTS
    Queues, Threads,
    EMPTY, ABORT,
    BUSY       \* the operation has not returned yet

VARIABLES
    items,     \* items[q]: the queue, head first
    heads,     \* heads[q]: how many items have been removed at the head
    seen,      \* seen[t]: heads of the queue when t began to steal from it
               \* (0 when t is not stealing)
    result     \* result[t]: what the last operation of t returned

dequeVars == <<items, heads, seen, result>>

DequeInit ==
    /\ items = [q \in Queues |-> <<>>]
    /\ heads = [q \in Queues |-> 0]
    /\ seen = [t \in Threads |-> 0]
    /\ result = [t \in Threads |-> EMPTY]

Return(t, r) == result' = [result EXCEPT ![t] = r]

Push(q, x) ==
    /\ items' = [items EXCEPT ![q] = Append(@, x)]
    /\ UNCHANGED <<heads, seen, result>>

\* The last item is at the head as well: taking it may abort a thief.
Take(t, q) ==
    \/ /\ items[q] = <<>>
       /\ Return(t, EMPTY)
       /\ UNCHANGED <<items, heads, seen>>
    \/ /\ items[q] # <<>>
       /\ Return(t, Last(items[q]))
       /\ items' = [items EXCEPT ![q] = Front(@)]
       /\ heads' = [heads EXCEPT ![q] = IF Len(items[q]) = 1 THEN @ + 1 ELSE @]
       /\ UNCHANGED seen

StealBegin(t, q) ==
    /\ seen' = [seen EXCEPT ![t] = heads[q]]
    /\ Return(t, BUSY)
    /\ UNCHANGED <<items, heads>>

StealEnd(t, q) ==
    /\ \/ /\ items[q] # <<>>
          /\ heads[q] = seen[t]
          /\ Return(t, Head(items[q]))
          /\ items' = [items EXCEPT ![q] = Tail(@)]
          /\ heads' = [heads EXCEPT ![q] = @ + 1]
       \/ /\ heads[q] # seen[t]
          /\ Return(t, ABORT)
          /\ UNCHANGED <<items, heads>>
       \/ /\ Return(t, EMPTY)
          /\ UNCHANGED <<items, heads>>
    /\ seen' = [seen EXCEPT ![t] = 0]

-----------------------------------------------------------------------------
CONSTANTS Items, Owner(_)

DequeNext ==
    \E q \in Queues :
        \/ \E x \in Items : Push(q, x)
        \/ result[Owner(q)] = BUSY /\ Take(Owner(q), q)
        \/ \E t \in Threads \ {Owner(q)} :
              \/ result[t] # BUSY /\ StealBegin(t, q)
              \/ result[t] = BUSY /\ StealEnd(t, q)
        \/ /\ result[Owner(q)] # BUSY
           /\ Return(Owner(q), BUSY)
           /\ UNCHANGED <<items, heads, seen>>

DequeSpec == DequeInit /\ [][DequeNext]_dequeVars
=============================================================================
