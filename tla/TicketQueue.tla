---------------------------- MODULE TicketQueue ----------------------------
(***************************************************************************)
(* What the queue of quiz2/test2/mpmc.c promises.  Every operation draws a *)
(* ticket; an enqueue puts its item under its ticket, the dequeue with the *)
(* same ticket gets it, and blocks until it is there.  So items leave in   *)
(* the order of the tickets, each exactly once, although the operations    *)
(* overlap and end in any order.                                           *)
(***************************************************************************)
EXTENDS Naturals

CONSTANTS
    Producers, Consumers,
    Items,
    MaxTicket,    \* bound: the last ticket
    NULL

VARIABLES
    put_index, pop_index,    \* the next tickets
    ticket,                  \* ticket[t]: that of t's operation, NULL outside
    putAt, gotAt             \* what was put and what was got with each ticket

ticketVars == <<put_index, pop_index, ticket, putAt, gotAt>>

TicketInit ==
    /\ put_index = 0 /\ pop_index = 0
    /\ ticket = [t \in Producers \cup Consumers |-> NULL]
    /\ putAt = [k \in 0 .. MaxTicket |-> NULL]
    /\ gotAt = [k \in 0 .. MaxTicket |-> NULL]

\* What t's operation is about has been put, or got.
Put(p) == ticket[p] # NULL /\ putAt[ticket[p]] # NULL
Got(c) == ticket[c] # NULL /\ gotAt[ticket[c]] # NULL

\* The operation ends with this step, or later.
MayReturn(t) == ticket' = ticket \/ ticket' = [ticket EXCEPT ![t] = NULL]

EnqueueBegin(p) ==
    /\ ticket[p] = NULL
    /\ ticket' = [ticket EXCEPT ![p] = put_index]
    /\ put_index' = put_index + 1
    /\ UNCHANGED <<pop_index, putAt, gotAt>>

\* p puts one of the items of X.
Deposit(p, X) ==
    /\ ticket[p] # NULL /\ ~Put(p)
    /\ \E x \in X : putAt' = [putAt EXCEPT ![ticket[p]] = x]
    /\ MayReturn(p)
    /\ UNCHANGED <<put_index, pop_index, gotAt>>

DequeueBegin(c) ==
    /\ ticket[c] = NULL
    /\ ticket' = [ticket EXCEPT ![c] = pop_index]
    /\ pop_index' = pop_index + 1
    /\ UNCHANGED <<put_index, putAt, gotAt>>

Collect(c) ==
    /\ ticket[c] # NULL /\ ~Got(c)
    /\ putAt[ticket[c]] # NULL
    /\ gotAt' = [gotAt EXCEPT ![ticket[c]] = putAt[ticket[c]]]
    /\ MayReturn(c)
    /\ UNCHANGED <<put_index, pop_index, putAt>>

Return(t) ==
    /\ \/ t \in Producers /\ Put(t)
       \/ t \in Consumers /\ Got(t)
    /\ ticket' = [ticket EXCEPT ![t] = NULL]
    /\ UNCHANGED <<put_index, pop_index, putAt, gotAt>>

TicketNext ==
    \/ \E p \in Producers : EnqueueBegin(p) \/ Deposit(p, Items) \/ Return(p)
    \/ \E c \in Consumers : DequeueBegin(c) \/ Collect(c) \/ Return(c)

\* t's operation has to return: an enqueue always, a dequeue when its item is
\* there.
Due(t) == ticket[t] # NULL /\ (t \in Producers \/ putAt[ticket[t]] # NULL)

\* Every operation that has to return does.  (There are finitely many tickets
\* and an operation stays due until it returns, so that this is the same as
\* Due(t) ~> ticket[t] = NULL for every t.)
OperationsReturn == <>[](\A t \in Producers \cup Consumers : ~Due(t))

TicketSafety == TicketInit /\ [][TicketNext]_ticketVars

TicketSpec == TicketSafety /\ OperationsReturn
=============================================================================
