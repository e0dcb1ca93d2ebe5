----------------------------- MODULE MpmcDriver -----------------------------
(***************************************************************************)
(* quiz2/test2/mpmc.c: main, its producers and consumers, and the          *)
(* registration of their handles, on top of the queue that TicketQueue     *)
(* describes.  In each round main lets the consumers go, then the          *)
(* producers, waits for both, checks that every number has arrived, and    *)
(* clears the array for the next round.  pthread_create succeeds.          *)
(***************************************************************************)
EXTENDS Integers, FiniteSets

CONSTANTS
    N_THREADS,           \* producers, and consumers; 4 in the code
    Setups,              \* records with the fields
                         \*   COUNTS_PER_THREAD  items of a producer in a round,
                         \*                      an argument of the program
                         \*   ROUNDS             8 in the code
    N_HANDLES,           \* slots for handles of each kind, 128 in the code
    MaxTicket,           \* bound: tickets in the history variables
    NULL

Index == 0 .. N_THREADS - 1
Producers == {"producer"} \X Index
Consumers == {"consumer"} \X Index
Main == <<"main", 0>>
Threads == Producers \cup Consumers \cup {Main}
Slots == 0 .. N_HANDLES - 1

\* The arrays of handles are read up to the first NULL.
ASSUME DriverAssumption ==
    /\ N_THREADS \in Nat \ {0} /\ N_HANDLES \in Nat /\ N_THREADS < N_HANDLES
    /\ \A s \in Setups :
          /\ s.COUNTS_PER_THREAD \in Nat /\ s.ROUNDS \in Nat \ {0}
          /\ N_THREADS * s.COUNTS_PER_THREAD * s.ROUNDS <= MaxTicket
    /\ MaxTicket \in Nat
    /\ NULL \notin Threads \cup Nat

VARIABLES
    setup,      \* the member of Setups that is run
    put_index, pop_index, ticket, putAt, gotAt,   \* the queue
    handles,    \* handles[kind][i]: q->enqueue_handles and q->dequeue_handles
    waiting,    \* waiting[b]: the threads that wait at barrier b
    array,      \* the numbers whose entry is true
    pc,         \* pc[t]: next statement of t, "none" before t is created
    i,          \* i[t]: the counter of the loop t is in
    value,      \* value[c]: what c has dequeued
    round       \* the rounds main has completed

INSTANCE TicketQueue WITH Items <- 1 .. MaxTicket

COUNTS_PER_THREAD == setup.COUNTS_PER_THREAD
ROUNDS == setup.ROUNDS
Amount == N_THREADS * COUNTS_PER_THREAD

queue == <<setup, put_index, pop_index, ticket, putAt, gotAt>>
vars == <<queue, handles, waiting, array, pc, i, value, round>>

Init ==
    /\ setup \in Setups
    /\ TicketInit
    /\ handles = [kind \in {"producer", "consumer"} |-> [s \in Slots |-> NULL]]
    /\ waiting = [b \in {"enq", "deq", "prod", "cons"} |-> {}]
    /\ array = {}
    /\ pc = [t \in Threads |-> IF t = Main THEN "create" ELSE "none"]
    /\ i = [t \in Threads |-> 0]
    /\ value = [c \in Consumers |-> 0]
    /\ round = 0

-----------------------------------------------------------------------------
\* t stands at p, and is not held back by a barrier it came through.
At(t, p) == pc[t] = p /\ \A b \in DOMAIN waiting : t \notin waiting[b]
Goto(t, p) == pc' = [pc EXCEPT ![t] = p]

\* Mutant of Size: main is not counted.
SizeWithoutMain(b) == N_THREADS

\* The barriers of the registration are for one kind, those of the rounds for
\* one kind and main.
Size(b) == IF b \in {"enq", "deq"} THEN N_THREADS ELSE N_THREADS + 1

\* pthread_barrier_wait: the last thread to come releases all.
Wait(t, b, from, to) ==
    /\ At(t, from)
    /\ waiting' = [waiting EXCEPT ![b] = IF Cardinality(@) + 1 = Size(b) THEN {} ELSE @ \cup {t}]
    /\ Goto(t, to)
    /\ i' = [i EXCEPT ![t] = 0]
    /\ UNCHANGED <<queue, handles, array, value, round>>

-----------------------------------------------------------------------------
(* mpmc_queue_register *)

\* Mutant of NextSlot: a thread looks at the same slot again.
NextSlotSame(s) == s

NextSlot(s) == s + 1

RegisterLoad(t) ==
    /\ At(t, "register")
    /\ IF handles[t[1]][i[t]] = NULL
         THEN Goto(t, "register_cas") /\ UNCHANGED i
         ELSE i' = [i EXCEPT ![t] = NextSlot(@)] /\ UNCHANGED pc
    /\ UNCHANGED <<queue, handles, waiting, array, value, round>>

\* Mutant of Vacant: the slot is not compared again.
VacantOnce(t) == TRUE

\* The comparison of the compare-and-swap.
Vacant(t) == handles[t[1]][i[t]] = NULL

RegisterCas(t) ==
    /\ At(t, "register_cas")
    /\ IF Vacant(t)
         THEN /\ handles' = [handles EXCEPT ![t[1]][i[t]] = t]
              /\ Goto(t, "registered")
              /\ UNCHANGED i
         ELSE /\ i' = [i EXCEPT ![t] = NextSlot(@)]
              /\ Goto(t, "register")
              /\ UNCHANGED handles
    /\ UNCHANGED <<queue, waiting, array, value, round>>

-----------------------------------------------------------------------------
(* producer *)

\* Mutant of Item: the producers' numbers overlap.
ItemOverlapping(p) == 1 + i[p] + p[2]

Item(p) == 1 + i[p] + p[2] * COUNTS_PER_THREAD

EnqueueCall(p) ==
    /\ At(p, "enqueue") /\ i[p] < COUNTS_PER_THREAD
    /\ EnqueueBegin(p)
    /\ Goto(p, "enqueuing")
    /\ UNCHANGED <<setup, handles, waiting, array, i, value, round>>

EnqueueStep(p) ==
    /\ At(p, "enqueuing")
    /\ Deposit(p, {Item(p)}) \/ Return(p)
    /\ IF ticket'[p] = NULL
         THEN i' = [i EXCEPT ![p] = @ + 1] /\ Goto(p, "enqueue")
         ELSE UNCHANGED <<i, pc>>
    /\ UNCHANGED <<setup, handles, waiting, array, value, round>>

ProducerStep(p) ==
    \/ RegisterLoad(p) \/ RegisterCas(p) \/ Wait(p, "enq", "registered", "start")
    \/ Wait(p, "prod", "start", "enqueue")
    \/ EnqueueCall(p) \/ EnqueueStep(p)
    \/ i[p] = COUNTS_PER_THREAD /\ Wait(p, "prod", "enqueue", "start")

-----------------------------------------------------------------------------
(* consumer *)

DequeueCall(c) ==
    /\ At(c, "dequeue") /\ i[c] < COUNTS_PER_THREAD
    /\ DequeueBegin(c)
    /\ Goto(c, "dequeuing")
    /\ UNCHANGED <<setup, handles, waiting, array, i, value, round>>

DequeueStep(c) ==
    /\ At(c, "dequeuing")
    /\ Collect(c) \/ Return(c)
    /\ value' = [value EXCEPT ![c] = gotAt'[ticket[c]]]
    /\ IF ticket'[c] = NULL THEN Goto(c, "store") ELSE UNCHANGED pc
    /\ UNCHANGED <<setup, handles, waiting, array, i, round>>

\* A thread that has dequeued 0 ends.
Store(c) ==
    /\ At(c, "store")
    /\ IF value[c] = 0
         THEN Goto(c, "returned") /\ UNCHANGED <<array, i>>
         ELSE /\ array' = array \cup {value[c]}
              /\ i' = [i EXCEPT ![c] = @ + 1]
              /\ Goto(c, "dequeue")
    /\ UNCHANGED <<queue, handles, waiting, value, round>>

ConsumerStep(c) ==
    \/ RegisterLoad(c) \/ RegisterCas(c) \/ Wait(c, "deq", "registered", "start")
    \/ Wait(c, "cons", "start", "dequeue")
    \/ DequeueCall(c) \/ DequeueStep(c) \/ Store(c)
    \/ i[c] = COUNTS_PER_THREAD /\ Wait(c, "cons", "dequeue", "start")

-----------------------------------------------------------------------------
(* main *)

\* One producer and one consumer after the other.
Create(t) ==
    /\ At(Main, "create")
    /\ pc[t] = "none" /\ t[2] = i[Main] \div 2
    /\ t \in (IF i[Main] % 2 = 0 THEN Producers ELSE Consumers)
    /\ i' = [i EXCEPT ![Main] = @ + 1]
    /\ pc' = [pc EXCEPT ![t] = "register",
                        ![Main] = IF i[Main] + 1 = 2 * N_THREADS THEN "round" ELSE "create"]
    /\ UNCHANGED <<queue, handles, waiting, array, value, round>>

\* The check of one entry after the other; i counts those found to be true.
Verify ==
    /\ At(Main, "verify") /\ i[Main] < Amount
    /\ IF i[Main] + 1 \in array
         THEN i' = [i EXCEPT ![Main] = @ + 1] /\ UNCHANGED pc
         ELSE Goto(Main, "error") /\ UNCHANGED i
    /\ UNCHANGED <<queue, handles, waiting, array, value, round>>

Clear ==
    /\ \/ At(Main, "error")
       \/ At(Main, "verify") /\ i[Main] = Amount
    /\ array' = {}
    /\ round' = round + 1
    /\ Goto(Main, IF round + 1 = ROUNDS THEN "end" ELSE "round")
    /\ UNCHANGED <<queue, handles, waiting, i, value>>

MainStep ==
    \/ \E t \in Producers \cup Consumers : Create(t)
    \/ Wait(Main, "cons", "round", "go")
    \/ Wait(Main, "prod", "go", "produce")
    \/ Wait(Main, "prod", "produce", "consume")
    \/ Wait(Main, "cons", "consume", "verify")
    \/ Verify \/ Clear

-----------------------------------------------------------------------------
\* When main returns, the process ends with all its threads.
Steps ==
    /\ pc[Main] # "end"
    /\ MainStep \/ (\E p \in Producers : ProducerStep(p)) \/ (\E c \in Consumers : ConsumerStep(c))

Ended == pc[Main] = "end" /\ UNCHANGED vars

Next == Steps \/ Ended

\* Some thread goes on as long as one can.
Spec == Init /\ [][Next]_vars /\ WF_vars(Steps)

-----------------------------------------------------------------------------
\* When a consumer has an item, and may begin to reclaim nodes, every thread's
\* handle is in the arrays, once, and before the first NULL, so that the search
\* for the oldest node misses none.  (The state in which module Mpmc starts.)
EveryHandleSeen ==
    (\E c \in Consumers : Got(c)) =>
        \A kind \in DOMAIN handles :
            {handles[kind][s] : s \in Index} = {kind} \X Index

\* While main checks and clears the array, the round is over: nobody is inside
\* the queue or about to write the array, and the queue is empty.
RoundsApart ==
    pc[Main] \in {"verify", "error"} /\ At(Main, pc[Main]) =>
        /\ \A t \in Producers \cup Consumers : ticket[t] = NULL
        /\ \A c \in Consumers : pc[c] # "store"
        /\ put_index = pop_index /\ put_index = (round + 1) * Amount

\* In every round main finds every number, although it found them in the
\* round before, too: an entry says something about its own round only.
RoundVerified ==
    /\ pc[Main] # "error"
    /\ pc[Main] = "go" => array = {}

\* main runs all its rounds and returns.
DriverEnds == <>(pc[Main] = "end")
=============================================================================
