-------------------------------- MODULE Mpmc --------------------------------
(***************************************************************************)
(* quiz2/test2/mpmc.c: a queue for many producers and many consumers.  An  *)
(* operation draws a ticket from put_index or pop_index; the tickets are   *)
(* the cells of a linked list of nodes with N cells each, which the        *)
(* threads extend as they go.  The producer and the consumer of a ticket   *)
(* meet in its cell: each exchanges something into it, and who comes       *)
(* second completes the operation.  A consumer that comes first leaves the *)
(* address of a futex on its stack.  The consumer of the last cell of a    *)
(* node may free the nodes that no thread's handle needs any more.         *)
(*                                                                         *)
(* The state starts when all threads have passed the barriers of           *)
(* mpmc_queue_register.  Handles are numbered in the order in which they   *)
(* were registered, dequeuers first.  Nodes are pieces of memory that      *)
(* malloc hands out again after free.                                      *)
(***************************************************************************)
EXTENDS Integers, FiniteSets, Futex

CONSTANTS
    Setups,        \* the setups to consider, records with the fields
                   \*   N          cells per node, 4096 in the code
                   \*   threshold  nodes to keep before reclaiming, 8 by default
                   \*   Counts     bound: Counts[t] operations of thread t
    N_DEQ, N_ENQ,  \* consumers and producers, 4 each in the code
    MaxTicket,     \* bound: the last ticket that is drawn of each kind
    MaxNode,       \* bound: pieces of memory for nodes, less one
    NULL

Consumers == 1 .. N_DEQ
Producers == N_DEQ + 1 .. N_DEQ + N_ENQ
Memory == 0 .. MaxNode

Tickets == 0 .. MaxTicket

\* The contents of a cell: NULL, an item, or the address of a consumer's futex.
Item(p, k) == <<"item", p, k>>
Addr(c) == <<"addr", c, 0>>

Items == {Item(p, k) : p \in Producers, k \in Tickets}

ASSUME MpmcAssumption ==
    /\ N_DEQ \in Nat \ {0} /\ N_ENQ \in Nat
    /\ Threads = Consumers \cup Producers
    /\ MaxTicket \in Nat
    /\ MaxNode \in Nat /\ N_DEQ + N_ENQ <= MaxNode
    /\ NULL \notin Memory \cup Tickets
    /\ \A p \in Producers, k \in Tickets : Item(p, k) # NULL
    /\ \A c \in Consumers : Addr(c) # NULL
    /\ \A s \in Setups : s.N \in Nat \ {0} /\ s.threshold \in Int /\ s.Counts \in [Threads -> Nat]

VARIABLES
    setup,             \* the member of Setups that is run
    put_index, pop_index,
    init_node, init_id,
    next, id, cells,   \* the fields of the nodes
    allocated,         \* the memory that is allocated
    spare,             \* spare[t]: th->spare
    handle,            \* handle[t]: th->push of a producer, th->pop of a consumer
    pc,                \* pc[t]: next access of t
    loc,               \* loc[t]: the locals of its operation
    futex_addr,        \* futex_addr[c]: the local of mpmc_dequeue
    count,             \* count[t]: operations t has completed
    putAt, gotAt       \* history: what was put and got with each ticket

history == <<putAt, gotAt>>
indices == <<setup, put_index, pop_index>>
list == <<next, id, allocated, spare>>
memory == <<init_node, init_id, list, cells, handle>>
waits == <<queue, futex_addr>>
vars == <<indices, history, memory, pc, loc, waits, count>>

N == setup.N

NoLocals == [index |-> 0, curr |-> NULL, j |-> 0, min |-> NULL, init |-> 0, scan |-> 0,
             new |-> 0]

Blank == [k \in 0 .. N - 1 |-> NULL]

\* Each thread has a spare node from the start: mpmc_init_queue and
\* mpmc_queue_register.
Init ==
    /\ setup \in Setups
    /\ put_index = 0 /\ pop_index = 0
    /\ init_node = 0 /\ init_id = 0
    /\ next = [n \in Memory |-> NULL]
    /\ id = [n \in Memory |-> 0]
    /\ cells = [n \in Memory |-> Blank]
    /\ allocated = {init_node} \cup Threads
    /\ spare = [t \in Threads |-> t]
    /\ handle = [t \in Threads |-> init_node]
    /\ pc = [t \in Threads |-> "start"]
    /\ loc = [t \in Threads |-> NoLocals]
    /\ FutexInit(Consumers)
    /\ futex_addr = [c \in Consumers |-> 0]
    /\ count = [t \in Threads |-> 0]
    /\ putAt = [k \in Tickets |-> NULL]
    /\ gotAt = [k \in Tickets |-> NULL]

-----------------------------------------------------------------------------
(* mpmc_find_cell *)

At(t, p) == pc[t] = p
Goto(t, p) == pc' = [pc EXCEPT ![t] = p]

\* The operation of t draws ticket k; *ptr is its own handle.
Draw(t, k) ==
    /\ loc' = [loc EXCEPT ![t] = [NoLocals EXCEPT !.index = k, !.curr = handle[t],
                                                  !.j = id[handle[t]]]]
    /\ Goto(t, "find")

\* The cell t works on, once it has found it.
CellNode(t) == handle[t]
CellPos(t) == loc[t].index % N
Cell(t) == cells[CellNode(t)][CellPos(t)]
PutCell(t, v) == cells' = [cells EXCEPT ![CellNode(t)][CellPos(t)] = v]

Arrived(t) == loc[t].j >= loc[t].index \div N

\* The walk is over: the handle moves to the node.
FindReturn(t) ==
    /\ At(t, "find") /\ Arrived(t)
    /\ handle' = [handle EXCEPT ![t] = loc[t].curr]
    /\ Goto(t, IF t \in Producers THEN "enq_exchange" ELSE "spin")
    /\ UNCHANGED <<indices, history, init_node, init_id, list, cells, loc, waits, count>>

FindNext(t) ==
    /\ At(t, "find") /\ ~Arrived(t)
    /\ next[loc[t].curr] # NULL
    /\ loc' = [loc EXCEPT ![t].curr = next[@], ![t].j = @ + 1]
    /\ UNCHANGED <<indices, history, memory, pc, waits, count>>

\* There is no next node yet.
FindEnd(t) ==
    /\ At(t, "find") /\ ~Arrived(t)
    /\ next[loc[t].curr] = NULL
    /\ Goto(t, "find_cas")
    /\ UNCHANGED <<indices, history, memory, loc, waits, count>>

\* Mutant of SpareLeft: the appended node stays the spare node.
SpareLeftKept(tmp, appended) == tmp

\* What is left in th->spare when the thread has offered node tmp.
SpareLeft(tmp, appended) == IF appended THEN NULL ELSE tmp

\* Append the spare node, or one from malloc, unless another thread has
\* appended one meanwhile: then it stays a spare node (and its id, which the
\* next attempt sets again, does not matter).
FindCas(t) ==
    LET curr == loc[t].curr
        tmp == IF spare[t] # NULL THEN spare[t] ELSE CHOOSE n \in Memory : n \notin allocated
        appended == next[curr] = NULL
    IN  /\ At(t, "find_cas")
        /\ spare[t] # NULL \/ Memory \ allocated # {}
        /\ allocated' = allocated \cup {tmp}
        /\ IF appended
             THEN /\ next' = [next EXCEPT ![curr] = tmp]
                  /\ id' = [id EXCEPT ![tmp] = loc[t].j + 1]
             ELSE UNCHANGED <<next, id>>
        /\ spare' = [spare EXCEPT ![t] = SpareLeft(tmp, appended)]
        /\ loc' = [loc EXCEPT ![t].curr = next'[curr], ![t].j = @ + 1]
        /\ Goto(t, "find")
        /\ UNCHANGED <<indices, history, init_node, init_id, cells, handle, waits, count>>

-----------------------------------------------------------------------------
(* mpmc_enqueue *)

\* The operation returns.
Return(t) ==
    /\ Goto(t, "start")
    /\ loc' = [loc EXCEPT ![t] = NoLocals]
    /\ count' = [count EXCEPT ![t] = @ + 1]

EnqIndex(p) ==
    /\ At(p, "start") /\ count[p] < setup.Counts[p] /\ put_index \in Tickets
    /\ Draw(p, put_index)
    /\ put_index' = put_index + 1
    /\ UNCHANGED <<setup, pop_index, history, memory, waits, count>>

EnqExchange(p) ==
    /\ At(p, "enq_exchange")
    /\ PutCell(p, Item(p, count[p]))
    /\ putAt' = [putAt EXCEPT ![loc[p].index] = Item(p, count[p])]
    /\ \/ Cell(p) = NULL /\ Return(p)
       \/ /\ Cell(p) # NULL
          /\ Goto(p, "enq_store")
          /\ loc' = [loc EXCEPT ![p].curr = Cell(p)[2]]
          /\ UNCHANGED count
    /\ UNCHANGED <<indices, gotAt, init_node, init_id, list, handle, waits>>

\* The cell held the address of a consumer's futex: clear it, then wake.
EnqStore(p) ==
    /\ At(p, "enq_store")
    /\ futex_addr' = [futex_addr EXCEPT ![loc[p].curr] = 0]
    /\ Goto(p, "enq_wake")
    /\ UNCHANGED <<indices, history, memory, loc, queue, count>>

EnqWake(p) ==
    /\ At(p, "enq_wake")
    /\ FutexWake(loc[p].curr)
    /\ Return(p)
    /\ UNCHANGED <<indices, history, memory, futex_addr>>

-----------------------------------------------------------------------------
(* mpmc_dequeue *)

DeqIndex(c) ==
    /\ At(c, "start") /\ count[c] < setup.Counts[c] /\ pop_index \in Tickets
    /\ futex_addr' = [futex_addr EXCEPT ![c] = 1]
    /\ Draw(c, pop_index)
    /\ pop_index' = pop_index + 1
    /\ UNCHANGED <<setup, put_index, history, memory, queue, count>>

\* The consumer has the contents v of its cell: at "over" it is returned,
\* unless this was the last cell of a node.  futex_addr is not read any more
\* (0 stands for whatever it holds).
Over(c, v) ==
    /\ gotAt' = [gotAt EXCEPT ![loc[c].index] = v]
    /\ futex_addr' = [futex_addr EXCEPT ![c] = 0]
    /\ IF CellPos(c) = N - 1
         THEN Goto(c, "reclaim") /\ UNCHANGED <<loc, count>>
         ELSE Return(c)
    /\ UNCHANGED putAt

NotYet(c, p) == Goto(c, p) /\ UNCHANGED <<loc, futex_addr, count, history>>

\* The loop of 2^20 loads: it sees an item, or it sees none up to its end.
\* (The loads before that change nothing.)
Spin(c) ==
    /\ At(c, "spin")
    /\ IF Cell(c) # NULL THEN Over(c, Cell(c)) ELSE NotYet(c, "deq_exchange")
    /\ UNCHANGED <<indices, memory, queue>>

DeqExchange(c) ==
    /\ At(c, "deq_exchange")
    /\ PutCell(c, Addr(c))
    /\ IF Cell(c) # NULL THEN Over(c, Cell(c)) ELSE NotYet(c, "deq_wait")
    /\ UNCHANGED <<indices, init_node, init_id, list, handle, queue>>

\* Mutant of FutexHolds: the kernel does not compare.
FutexHoldsAlways(c) == TRUE

\* What the kernel compares before it puts the consumer to sleep.
FutexHolds(c) == futex_addr[c] = 1

DeqWait(c) ==
    /\ At(c, "deq_wait")
    /\ FutexWait(c, c, FutexHolds(c))
    /\ Goto(c, "deq_waiting")
    /\ UNCHANGED <<indices, history, memory, loc, futex_addr, count>>

\* Mutant of Cleared: one wake-up is enough, whoever it was meant for.
ClearedOrNot(c) == TRUE

\* The condition that ends the loop around futex_wait.
Cleared(c) == futex_addr[c] # 1

\* futex_wait returned: look at the futex, and at the cell if it was cleared.
DeqAwake(c) ==
    /\ At(c, "deq_waiting") /\ Awake(c)
    /\ IF Cleared(c) THEN Over(c, Cell(c)) ELSE NotYet(c, "deq_wait")
    /\ UNCHANGED <<indices, memory, queue>>

-----------------------------------------------------------------------------
(* The reclamation at the end of mpmc_dequeue *)

ReclaimLoad(c) ==
    /\ At(c, "reclaim")
    /\ IF id[handle[c]] - init_id >= setup.threshold /\ init_id >= 0
         THEN /\ loc' = [loc EXCEPT ![c].init = init_id]
              /\ Goto(c, "reclaim_cas")
              /\ UNCHANGED count
         ELSE Return(c)
    /\ UNCHANGED <<indices, history, memory, waits>>

\* Mutant of Taken: init_id is compared but not taken away.
TakenNot(c) == init_id

\* What the compare-and-swap of init_id leaves there.
Taken(c) == -1

\* Only one thread reclaims: init_id is -1 meanwhile.  curr is its init_node.
ReclaimCas(c) ==
    /\ At(c, "reclaim_cas")
    /\ IF init_id = loc[c].init
         THEN /\ init_id' = Taken(c)
              /\ loc' = [loc EXCEPT ![c].curr = init_node, ![c].scan = 1]
              /\ Goto(c, "scan")
              /\ UNCHANGED count
         ELSE Return(c) /\ UNCHANGED init_id
    /\ UNCHANGED <<indices, history, init_node, list, cells, handle, waits>>

\* Mutant of LastHandle: only the handles of dequeuers are looked at.
LastHandleOfDequeuers == N_DEQ

\* The arrays of handles are searched up to their ends.
LastHandle == N_DEQ + N_ENQ

\* One handle after the other, the dequeuers' first; min_node is the oldest
\* node so far, and the search stops when it is the init_node.
Scan(c) ==
    LET seen == handle[loc[c].scan]
        min == IF loc[c].scan = 1 \/ id[seen] < id[loc[c].min] THEN seen ELSE loc[c].min
    IN  /\ At(c, "scan")
        /\ loc' = [loc EXCEPT ![c].min = min, ![c].scan = @ + 1]
        /\ Goto(c, IF id[min] <= loc[c].init \/ loc[c].scan = LastHandle THEN "scanned" ELSE "scan")
        /\ UNCHANGED <<indices, history, memory, waits, count>>

ReclaimNothing(c) ==
    /\ At(c, "scanned")
    /\ id[loc[c].min] <= loc[c].init
    /\ init_id' = loc[c].init
    /\ Return(c)
    /\ UNCHANGED <<indices, history, init_node, list, cells, handle, waits>>

\* The new init_node is published before the old nodes are freed.
ReclaimPublish(c) ==
    /\ At(c, "scanned")
    /\ id[loc[c].min] > loc[c].init
    /\ init_node' = loc[c].min
    /\ init_id' = id[loc[c].min]
    /\ loc' = [loc EXCEPT ![c].new = id[loc[c].min]]
    /\ Goto(c, "free")
    /\ UNCHANGED <<indices, history, list, cells, handle, waits, count>>

\* What freed memory contains does not matter: mpmc_new_node clears it.
ReclaimFree(c) ==
    LET node == loc[c].curr
    IN  /\ At(c, "free")
        /\ allocated' = allocated \ {node}
        /\ next' = [next EXCEPT ![node] = NULL]
        /\ id' = [id EXCEPT ![node] = 0]
        /\ cells' = [cells EXCEPT ![node] = Blank]
        /\ IF next[node] = loc[c].min
             THEN Return(c)
             ELSE /\ loc' = [loc EXCEPT ![c].curr = next[node]]
                  /\ UNCHANGED <<pc, count>>
        /\ UNCHANGED <<indices, history, init_node, init_id, spare, handle, waits>>

-----------------------------------------------------------------------------
FindCell(t) == FindReturn(t) \/ FindNext(t) \/ FindEnd(t) \/ FindCas(t)

Enqueue(p) == EnqIndex(p) \/ EnqExchange(p) \/ EnqStore(p) \/ EnqWake(p)

Dequeue(c) == DeqIndex(c) \/ Spin(c) \/ DeqExchange(c) \/ DeqWait(c) \/ DeqAwake(c)

Reclaim(c) ==
    \/ ReclaimLoad(c) \/ ReclaimCas(c) \/ Scan(c)
    \/ ReclaimNothing(c) \/ ReclaimPublish(c) \/ ReclaimFree(c)

ThreadStep(t) ==
    \/ FindCell(t)
    \/ t \in Producers /\ Enqueue(t)
    \/ t \in Consumers /\ (Dequeue(t) \/ Reclaim(t))

\* Everybody has done its operations.
Quiet(t) == At(t, "start") /\ count[t] = setup.Counts[t]

Ended == (\A t \in Threads : Quiet(t)) /\ UNCHANGED vars

Steps == \E t \in Threads : ThreadStep(t)

Next == Ended \/ Steps

\* Some thread goes on as long as one can.  This is less than a scheduler
\* grants, and enough: no thread repeats a step for ever.
Spec == Init /\ [][Next]_vars /\ WF_vars(Steps)

-----------------------------------------------------------------------------
\* The queue is first in, first out by tickets: the k-th dequeue gets the k-th
\* item and nothing else, whoever comes to the cell first, so that no item is
\* lost, duplicated, or replaced by the address of a futex; an enqueue always
\* returns, and so does a dequeue whose item has been put.  A ticket is a
\* thread's from its fetch_add until it returns; an enqueue is done with its
\* exchange, a dequeue when it has read its cell.
Queue == INSTANCE TicketQueue WITH
    ticket <- [t \in Threads |-> IF At(t, "start") THEN NULL ELSE loc[t].index]

ImplementsQueue == Queue!TicketSpec

\* No thread reads or writes a node that has been freed: neither the node it
\* walks from, nor its cell, nor a node that a reclaimer looks at.
Uses(t) ==
    (IF pc[t] \in {"find", "find_cas", "free"} THEN {loc[t].curr} ELSE {})
      \cup {handle[t]}
      \cup (IF pc[t] \in {"scan", "scanned"} THEN {loc[t].min} \ {NULL} ELSE {})

NoUseAfterFree == \A t \in Threads : Uses(t) \subseteq allocated

\* The list from init_node on (what is before it is somebody's to free): after
\* a node comes the one with the next number, which is nobody's spare node, so
\* that none is appended twice.
Live == {n \in allocated : \A t \in Threads : spare[t] # n}
List == {n \in Live : id[n] >= id[init_node]}

ListIsConsecutive ==
    \A n \in List : next[n] # NULL => next[n] \in List /\ id[next[n]] = id[n] + 1

\* No lost wake-up: a consumer asleep on its futex has the address in its cell,
\* or a producer that took it from there is going to clear the futex and wake.
SleeperIsKnown ==
    \A c \in Consumers : c \in queue[c] =>
        \/ Cell(c) = Addr(c) /\ futex_addr[c] = 1
        \/ \E p \in Producers : pc[p] \in {"enq_store", "enq_wake"} /\ loc[p].curr = c

\* At most one thread reclaims, and it has taken init_id away meanwhile.
OneReclaimer ==
    Cardinality({c \in Consumers : pc[c] \in {"scan", "scanned"}})
        = IF init_id = -1 THEN 1 ELSE 0
=============================================================================
