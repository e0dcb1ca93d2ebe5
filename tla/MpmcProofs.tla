------------------------------ MODULE MpmcProofs ------------------------------
(***************************************************************************)
(* Theorems about the queue of quiz2/test2/mpmc.c, for any number of       *)
(* producers and consumers, of cells per node, of nodes and of tickets:    *)
(* first about its memory, the list that the threads append to, walk and   *)
(* free without locks; then about what it does with the items and the      *)
(* sleepers: it is the queue of TicketQueue, and no wake-up is lost.       *)
(***************************************************************************)
EXTENDS Mpmc, FiniteSetTheorems, TLAPS

-----------------------------------------------------------------------------
(* PART ONE: the list *)

-----------------------------------------------------------------------------
(* The inductive invariant *)

ProducerLabels == {"start", "find", "find_cas", "enq_exchange", "enq_store", "enq_wake"}

ConsumerLabels == {"start", "find", "find_cas", "spin", "deq_exchange", "deq_wait",
                   "deq_waiting", "reclaim", "reclaim_cas", "scan", "scanned", "free"}

Contents ==
    {NULL} \cup ({"item"} \X Producers \X Nat) \cup {Addr(c) : c \in Consumers}

Locals == [index : Tickets, curr : Memory \cup {NULL}, j : Nat, min : Memory \cup {NULL},
           init : Int, scan : Nat, new : Nat]

MpmcTypeOK ==
    /\ setup \in Setups
    /\ put_index \in 0 .. MaxTicket + 1 /\ pop_index \in 0 .. MaxTicket + 1
    /\ init_node \in Memory /\ init_id \in Int
    /\ next \in [Memory -> Memory \cup {NULL}]
    /\ id \in [Memory -> Nat]
    /\ cells \in [Memory -> [0 .. N - 1 -> Contents]]
    /\ allocated \subseteq Memory
    /\ spare \in [Threads -> Memory \cup {NULL}]
    /\ handle \in [Threads -> Memory]
    /\ pc \in [Threads -> ProducerLabels \cup ConsumerLabels]
    /\ \A p \in Producers : pc[p] \in ProducerLabels
    /\ \A c \in Consumers : pc[c] \in ConsumerLabels
    /\ loc \in [Threads -> Locals]
    /\ queue \in [Consumers -> SUBSET Threads]
    /\ futex_addr \in [Consumers -> {0, 1}]
    /\ count \in [Threads -> Nat]
    /\ putAt \in [Tickets -> Contents] /\ gotAt \in [Tickets -> Contents]

Walking == {"find", "find_cas"}

InReclaim == {"scan", "scanned", "free"}

\* A spare node is in no list and nobody else's; what is free points nowhere.
SpareOK ==
    /\ \A t \in Threads : spare[t] # NULL => spare[t] \in allocated /\ next[spare[t]] = NULL
    /\ \A t, u \in Threads : spare[t] # NULL /\ spare[t] = spare[u] => t = u
    /\ \A n \in Memory \ allocated : next[n] = NULL

\* The nodes that have been appended have numbers of their own.
IdsDistinct == \A m, n \in Live : id[m] = id[n] => m = n

\* The list is one: from init_node on, each node leads to the one with the next
\* number, up to the last, which has the greatest of all.
ListOK ==
    /\ init_node \in Live
    /\ ListIsConsecutive
    /\ \A n \in List : next[n] = NULL => \A m \in Live : id[m] <= id[n]

\* c is to free the nodes that n is one of: from loc[c].curr up to the node
\* that was published, which had the number loc[c].new then.
ToFree(c, n) == n \in Live /\ id[loc[c].curr] <= id[n] /\ id[n] < loc[c].new

\* These nodes are before init_node, and each leads to the next of them, or is
\* the last and leads to the published node; and no two threads share one.
GarbageOf(c) ==
    /\ ToFree(c, loc[c].curr) /\ loc[c].new <= id[init_node]
    /\ \A n \in Memory : ToFree(c, n) =>
          IF id[n] + 1 = loc[c].new
            THEN next[n] = loc[c].min
            ELSE next[n] \in Live /\ id[next[n]] = id[n] + 1 /\ next[n] # loc[c].min
    /\ \A d \in Consumers \ {c} : pc[d] = "free" =>
          loc[c].new <= id[loc[d].curr] \/ loc[d].new <= id[loc[c].curr]

GarbageOK == \A c \in Consumers : pc[c] = "free" => GarbageOf(c)

\* A handle is in the list, and so is the node its thread has walked to.
HandleOK(t) ==
    /\ handle[t] \in List
    /\ pc[t] \in Walking =>
          /\ loc[t].curr \in List
          /\ id[handle[t]] <= id[loc[t].curr] /\ loc[t].j = id[loc[t].curr]

HandlesOK == \A t \in Threads : HandleOK(t)

Reclaiming(c) == pc[c] \in {"scan", "scanned"}

\* init_id is the number of init_node unless a thread has taken it away to
\* reclaim, which only one does at a time.
ReclaimOK ==
    /\ init_id = -1 \/ init_id = id[init_node]
    /\ init_id = -1 <=> \E c \in Consumers : Reclaiming(c)
    /\ \A c, d \in Consumers : Reclaiming(c) /\ Reclaiming(d) => c = d
    /\ \A c \in Consumers :
          /\ Reclaiming(c) => loc[c].init = id[init_node] /\ loc[c].curr = init_node
          /\ pc[c] = "reclaim_cas" => loc[c].init >= 0

\* The oldest node so far is at most as new as the handles seen: a handle moves
\* on while the others are looked at, but only to later nodes.
ScanOf(c) ==
    /\ pc[c] \notin InReclaim => loc[c].min = NULL
    /\ pc[c] = "scan" =>
          /\ loc[c].scan \in Threads
          /\ loc[c].scan = 1 => loc[c].min = NULL
          /\ loc[c].scan # 1 =>
                /\ loc[c].min \in List
                /\ \A t \in Threads : t < loc[c].scan => id[loc[c].min] <= id[handle[t]]
    /\ pc[c] = "scanned" =>
          /\ loc[c].min \in List
          /\ id[loc[c].min] > loc[c].init =>
                \A t \in Threads : id[loc[c].min] <= id[handle[t]]

ScanOK == \A c \in Threads : ScanOf(c)

MemoryInv ==
    /\ MpmcTypeOK
    /\ SpareOK
    /\ IdsDistinct
    /\ ListOK
    /\ GarbageOK
    /\ HandlesOK
    /\ ReclaimOK
    /\ ScanOK

-----------------------------------------------------------------------------
(* Constants and arithmetic *)

\* What the assumption on the constants says of the sets of threads, nodes and
\* contents.
LEMMA Constants ==
    /\ N_DEQ \in Nat \ {0} /\ N_ENQ \in Nat /\ MaxTicket \in Nat /\ MaxNode \in Nat
    /\ Threads = 1 .. N_DEQ + N_ENQ
    /\ Consumers \subseteq Threads /\ Producers \subseteq Threads
    /\ Threads = Consumers \cup Producers /\ Consumers \cap Producers = {}
    /\ Threads \subseteq Memory /\ 0 \in Memory /\ 0 \notin Threads
    /\ NULL \notin Memory /\ NULL \notin Tickets /\ NULL \notin Threads
    /\ 0 \in Tickets
BY MpmcAssumption DEF Consumers, Producers, Memory, Tickets

\* A node has at least one cell, and every ticket has its cell in its node.
LEMMA Cells ==
    ASSUME setup \in Setups
    PROVE  /\ N \in Nat \ {0} /\ setup.threshold \in Int
           /\ \A k \in Tickets : k % N \in 0 .. N - 1 /\ k \div N \in Nat
<1>1. N \in Nat \ {0} /\ setup.threshold \in Int
  BY MpmcAssumption DEF N
<1>2. \A k \in Tickets : k % N \in 0 .. N - 1 /\ k \div N \in Nat
  BY <1>1, Constants DEF Tickets
<1> QED
  BY <1>1, <1>2

\* The contents of a cell: the second field of an item or an address is a
\* thread.
LEMMA ContentsFields ==
    /\ NULL \in Contents
    /\ \A p \in Producers : \A k \in Nat : Item(p, k) \in Contents
    /\ \A c \in Consumers : Addr(c) \in Contents
    /\ \A v \in Contents : v # NULL => v[2] \in Threads
BY Constants DEF Contents, Item, Addr

-----------------------------------------------------------------------------
(* Initial states *)

\* One node, one handle on it per thread, and a spare node for each.
LEMMA InitMemory == Init => MemoryInv
<1> SUFFICES ASSUME Init PROVE MemoryInv
  OBVIOUS
<1> USE Constants
<1>1. NoLocals \in Locals
  BY DEF NoLocals, Locals
<1>2. MpmcTypeOK
  <2>1. N \in Nat \ {0} /\ Blank \in [0 .. N - 1 -> Contents]
    BY Cells, ContentsFields DEF Init, Blank
  <2>2. cells \in [Memory -> [0 .. N - 1 -> Contents]]
    BY <2>1 DEF Init
  <2>3. /\ queue \in [Consumers -> SUBSET Threads]
        /\ futex_addr \in [Consumers -> {0, 1}]
        /\ putAt \in [Tickets -> Contents] /\ gotAt \in [Tickets -> Contents]
    BY ContentsFields DEF Init, FutexInit
  <2> QED
    BY <1>1, <2>2, <2>3 DEF Init, MpmcTypeOK, ProducerLabels, ConsumerLabels
<1>3. \A n : (n \in Live <=> n = 0) /\ (n \in List <=> n = 0)
  <2>1. init_node = 0 /\ allocated = {0} \cup Threads /\ id[0] = 0
        /\ \A t \in Threads : spare[t] = t
    BY DEF Init
  <2>2. \A n : n \in Live <=> n = 0
    BY <2>1 DEF Live
  <2> QED
    BY <2>1, <2>2 DEF List
<1>4. Live = {0} /\ List = {0}
  BY <1>3
<1>5. SpareOK
  BY DEF Init, SpareOK
<1>6. IdsDistinct
  BY <1>4 DEF IdsDistinct
<1>7. ListOK
  <2>1. next[0] = NULL /\ init_node = 0 /\ id[0] <= id[0]
    BY DEF Init
  <2>2. ListIsConsecutive
    BY <1>4, <2>1 DEF ListIsConsecutive
  <2> QED
    BY <1>4, <2>1, <2>2 DEF ListOK
<1>8. GarbageOK
  BY DEF Init, GarbageOK
<1>9. HandlesOK
  BY <1>4 DEF Init, HandlesOK, HandleOK, Walking
<1>10. ReclaimOK
  BY DEF Init, ReclaimOK, Reclaiming
<1>11. ScanOK
  BY DEF Init, ScanOK, ScanOf, NoLocals, InReclaim
<1> QED
  BY <1>2, <1>5, <1>6, <1>7, <1>8, <1>9, <1>10, <1>11 DEF MemoryInv

-----------------------------------------------------------------------------
(* Types *)

\* What the steps of a thread have in common: it goes somewhere, with some
\* locals, and the other threads stay where they are.
LocalStep(t, p, l) == pc' = [pc EXCEPT ![t] = p] /\ loc' = [loc EXCEPT ![t] = l]

RoleLabels(t) == IF t \in Producers THEN ProducerLabels ELSE ConsumerLabels

\* If the place is one of the thread's role and the locals are typed, so are
\* the new program counters and locals of all threads.
LEMMA LocalTypes ==
    ASSUME MpmcTypeOK, NEW t \in Threads, NEW p \in RoleLabels(t), NEW l \in Locals,
           LocalStep(t, p, l)
    PROVE  /\ pc' \in [Threads -> ProducerLabels \cup ConsumerLabels]
           /\ \A q \in Producers : pc'[q] \in ProducerLabels
           /\ \A c \in Consumers : pc'[c] \in ConsumerLabels
           /\ loc' \in [Threads -> Locals]
BY Constants DEF MpmcTypeOK, LocalStep, RoleLabels

\* The locals that the steps assign.
LEMMA LocalUpdates ==
    ASSUME NEW l \in Locals
    PROVE  /\ NoLocals \in Locals
           /\ \A n \in Memory : [l EXCEPT !.curr = n] \in Locals
           /\ \A n \in Memory : \A j \in Nat : [l EXCEPT !.curr = n, !.j = j] \in Locals
           /\ \A k \in Tickets : \A n \in Memory : \A j \in Nat :
                 [NoLocals EXCEPT !.index = k, !.curr = n, !.j = j] \in Locals
           /\ \A x \in Int : [l EXCEPT !.init = x] \in Locals
           /\ \A n \in Memory : [l EXCEPT !.curr = n, !.scan = 1] \in Locals
           /\ \A n \in Memory : \A x \in Nat : [l EXCEPT !.min = n, !.scan = x] \in Locals
           /\ \A x \in Nat : [l EXCEPT !.new = x] \in Locals
<1>1. NoLocals \in Locals
  BY Constants DEF Locals, NoLocals
<1>2. \A k \in Tickets : \A n \in Memory : \A j \in Nat :
         [NoLocals EXCEPT !.index = k, !.curr = n, !.j = j] \in Locals
  BY <1>1 DEF Locals
<1> QED
  BY <1>1, <1>2 DEF Locals

\* In a step of t to p with locals l, the variables that are not assigned keep
\* their types with the state they describe.
LEMMA FindTypes ==
    ASSUME MemoryInv, NEW t \in Threads, FindCell(t)
    PROVE  MpmcTypeOK'
<1>1. /\ MpmcTypeOK
      /\ loc[t] \in Locals /\ loc[t].j + 1 \in Nat
      /\ pc[t] \in Walking => loc[t].curr \in Memory
  BY DEF MemoryInv, MpmcTypeOK, HandlesOK, HandleOK, List, Live, Locals
<1> USE DEF indices, history, memory, list, waits, N
<1>2. CASE FindReturn(t)
  <2>1. LocalStep(t, IF t \in Producers THEN "enq_exchange" ELSE "spin", loc[t])
    BY <1>1, <1>2 DEF FindReturn, LocalStep, Goto, MpmcTypeOK
  <2>2. loc[t].curr \in Memory
    BY <1>1, <1>2 DEF FindReturn, Walking, At
  <2>3. (IF t \in Producers THEN "enq_exchange" ELSE "spin") \in RoleLabels(t)
    BY DEF RoleLabels, ProducerLabels, ConsumerLabels
  <2> QED
    BY <1>1, <1>2, <2>1, <2>2, <2>3, LocalTypes DEF FindReturn, MpmcTypeOK
<1>3. CASE FindNext(t)
  <2> DEFINE l == [loc[t] EXCEPT !.curr = next[loc[t].curr], !.j = loc[t].j + 1]
  <2>1. loc[t].curr \in Memory /\ next[loc[t].curr] \in Memory
    BY <1>1, <1>3 DEF FindNext, Walking, At, MpmcTypeOK
  <2>2. l \in Locals
    BY <1>1, <2>1, LocalUpdates
  <2>3. LocalStep(t, "find", l) /\ "find" \in RoleLabels(t)
    BY <1>1, <1>3 DEF FindNext, At, LocalStep, MpmcTypeOK, RoleLabels, ProducerLabels, ConsumerLabels
  <2> QED
    BY <1>1, <1>3, <2>2, <2>3, LocalTypes DEF FindNext, MpmcTypeOK
<1>4. CASE FindEnd(t)
  <2>1. LocalStep(t, "find_cas", loc[t]) /\ "find_cas" \in RoleLabels(t)
    BY <1>1, <1>4 DEF FindEnd, LocalStep, Goto, MpmcTypeOK, RoleLabels, ProducerLabels, ConsumerLabels
  <2> QED
    BY <1>1, <1>4, <2>1, LocalTypes DEF FindEnd, MpmcTypeOK
<1>5. CASE FindCas(t)
  <2> DEFINE curr == loc[t].curr
             tmp == IF spare[t] # NULL THEN spare[t] ELSE CHOOSE n \in Memory : n \notin allocated
             l == [loc[t] EXCEPT !.curr = next'[curr], !.j = loc[t].j + 1]
  <2>1. curr \in Memory
    BY <1>1, <1>5 DEF FindCas, Walking, At
  <2>2. tmp \in Memory
    BY <1>1, <1>5 DEF FindCas, MpmcTypeOK
  <2> HIDE DEF tmp
  <2>3. /\ allocated' \subseteq Memory
        /\ id' \in [Memory -> Nat]
        /\ next' \in [Memory -> Memory \cup {NULL}] /\ next'[curr] \in Memory
        /\ spare' \in [Threads -> Memory \cup {NULL}]
    <3>1. /\ allocated' = allocated \cup {tmp}
          /\ spare' = [spare EXCEPT ![t] = SpareLeft(tmp, next[curr] = NULL)]
          /\ IF next[curr] = NULL
               THEN /\ next' = [next EXCEPT ![curr] = tmp]
                    /\ id' = [id EXCEPT ![tmp] = loc[t].j + 1]
               ELSE UNCHANGED <<next, id>>
      BY <1>5 DEF FindCas, tmp
    <3> QED
      BY <1>1, <2>1, <2>2, <3>1 DEF SpareLeft, MpmcTypeOK
  <2>4. l \in Locals
    BY <1>1, <2>3, LocalUpdates
  <2>5. LocalStep(t, "find", l) /\ "find" \in RoleLabels(t)
    BY <1>1, <1>5 DEF FindCas, Goto, LocalStep, MpmcTypeOK, RoleLabels, ProducerLabels, ConsumerLabels
  <2>6. UNCHANGED <<indices, history, init_node, init_id, cells, handle, waits, count>>
    BY <1>5 DEF FindCas
  <2> HIDE DEF l
  <2> QED
    BY <1>1, <2>3, <2>4, <2>5, <2>6, LocalTypes DEF MpmcTypeOK
<1> QED
  BY <1>2, <1>3, <1>4, <1>5 DEF FindCell

\* The contents of a cell are put and taken whole.
LEMMA CellTypes ==
    ASSUME MpmcTypeOK, NEW t \in Threads
    PROVE  /\ Cell(t) \in Contents
           /\ \A v \in Contents : PutCell(t, v) => cells' \in [Memory -> [0 .. N - 1 -> Contents]]
           /\ loc[t].index \in Tickets
<1>1. loc[t].index \in Tickets /\ handle[t] \in Memory /\ setup \in Setups
  BY DEF MpmcTypeOK, Locals
<1>2. CellPos(t) \in 0 .. N - 1
  BY <1>1, Cells DEF CellPos
<1>3. cells \in [Memory -> [0 .. N - 1 -> Contents]]
  BY DEF MpmcTypeOK
<1>4. Cell(t) \in Contents
  BY <1>1, <1>2, <1>3 DEF Cell, CellNode
<1>5. ASSUME NEW v \in Contents, PutCell(t, v)
      PROVE  cells' \in [Memory -> [0 .. N - 1 -> Contents]]
  <2>1. cells' = [cells EXCEPT ![handle[t]] = [cells[handle[t]] EXCEPT ![CellPos(t)] = v]]
    BY <1>5 DEF PutCell, CellNode
  <2>2. [cells[handle[t]] EXCEPT ![CellPos(t)] = v] \in [0 .. N - 1 -> Contents]
    BY <1>1, <1>2, <1>3, <1>5
  <2> QED
    BY <1>1, <1>3, <2>1, <2>2
<1> QED
  BY <1>1, <1>4, <1>5

\* What a wake-up leaves of the queues of sleepers.
LEMMA WakeType ==
    ASSUME MpmcTypeOK, NEW w, FutexWake(w)
    PROVE  queue' \in [Consumers -> SUBSET Threads]
<1>1. queue \in [Consumers -> SUBSET Threads]
  BY DEF MpmcTypeOK
<1>2. CASE UNCHANGED queue
  BY <1>1, <1>2
<1>3. CASE \E t \in queue[w] : queue' = [queue EXCEPT ![w] = @ \ {t}]
  <2>1. PICK t \in queue[w] : queue' = [queue EXCEPT ![w] = queue[w] \ {t}]
    BY <1>3
  <2>2. \A c \in Consumers : queue'[c] \in SUBSET Threads
    BY <1>1, <2>1
  <2> QED
    BY <1>1, <2>1, <2>2
<1> QED
  BY <1>2, <1>3 DEF FutexWake

\* The types after a step of mpmc_enqueue.
LEMMA EnqueueTypes ==
    ASSUME MemoryInv, NEW p \in Producers, Enqueue(p)
    PROVE  MpmcTypeOK'
<1>1. /\ MpmcTypeOK /\ p \in Threads
      /\ loc[p] \in Locals /\ NoLocals \in Locals
      /\ handle[p] \in Memory /\ id[handle[p]] \in Nat
  BY Constants, LocalUpdates DEF MemoryInv, MpmcTypeOK
<1>2. ProducerLabels \subseteq RoleLabels(p)
  BY DEF RoleLabels
<1>3. Item(p, count[p]) \in Contents
  BY <1>1, ContentsFields DEF MpmcTypeOK
<1> USE DEF indices, history, memory, list, waits, N
<1>4. CASE EnqIndex(p)
  <2> DEFINE l == [NoLocals EXCEPT !.index = put_index, !.curr = handle[p], !.j = id[handle[p]]]
  <2>1. put_index \in Tickets /\ put_index' \in 0 .. MaxTicket + 1
    BY <1>4, Constants DEF EnqIndex, Tickets
  <2>3. l \in Locals
    BY <1>1, <2>1, LocalUpdates
  <2>2. LocalStep(p, "find", l) /\ "find" \in RoleLabels(p)
    BY <1>2, <1>4 DEF EnqIndex, Draw, Goto, LocalStep, ProducerLabels
  <2> QED
    BY <1>1, <1>4, <2>1, <2>2, <2>3, LocalTypes DEF EnqIndex, MpmcTypeOK
<1>5. CASE EnqExchange(p)
  <2>1. \E q, l : LocalStep(p, q, l) /\ q \in RoleLabels(p) /\ l \in Locals /\ count' \in [Threads -> Nat]
    <3>1. CASE Cell(p) = NULL /\ Return(p)
      <4>1. LocalStep(p, "start", NoLocals) /\ "start" \in RoleLabels(p)
        BY <1>2, <3>1 DEF Return, Goto, LocalStep, ProducerLabels
      <4>2. count' \in [Threads -> Nat]
        BY <1>1, <3>1 DEF Return, MpmcTypeOK
      <4> QED
        BY <1>1, <4>1, <4>2
    <3>2. CASE Cell(p) # NULL /\ Goto(p, "enq_store") /\ loc' = [loc EXCEPT ![p].curr = Cell(p)[2]] /\ UNCHANGED count
      <4>1. Cell(p)[2] \in Memory
        BY <1>1, <3>2, CellTypes, ContentsFields, Constants
      <4>2. LocalStep(p, "enq_store", [loc[p] EXCEPT !.curr = Cell(p)[2]]) /\ "enq_store" \in RoleLabels(p)
        BY <1>1, <1>2, <3>2 DEF Goto, LocalStep, ProducerLabels, MpmcTypeOK
      <4> QED
        BY <1>1, <3>2, <4>1, <4>2, LocalUpdates DEF MpmcTypeOK
    <3> QED
      BY <1>5, <3>1, <3>2 DEF EnqExchange
  <2>2. cells' \in [Memory -> [0 .. N - 1 -> Contents]] /\ putAt' \in [Tickets -> Contents]
    BY <1>1, <1>3, <1>5, CellTypes DEF EnqExchange, MpmcTypeOK
  <2>3. UNCHANGED <<indices, gotAt, init_node, init_id, list, handle, waits>>
    BY <1>5 DEF EnqExchange
  <2> QED
    BY <1>1, <2>1, <2>2, <2>3, LocalTypes DEF MpmcTypeOK
<1>6. CASE EnqStore(p)
  <2>1. LocalStep(p, "enq_wake", loc[p]) /\ "enq_wake" \in RoleLabels(p)
    BY <1>1, <1>2, <1>6 DEF EnqStore, Goto, LocalStep, ProducerLabels, MpmcTypeOK
  <2> QED
    BY <1>1, <1>6, <2>1, LocalTypes DEF EnqStore, MpmcTypeOK
<1>7. CASE EnqWake(p)
  <2>1. LocalStep(p, "start", NoLocals) /\ "start" \in RoleLabels(p)
    BY <1>2, <1>7 DEF EnqWake, Return, Goto, LocalStep, ProducerLabels
  <2>2. queue' \in [Consumers -> SUBSET Threads]
    BY <1>1, <1>7, WakeType DEF EnqWake
  <2> QED
    BY <1>1, <1>7, <2>1, <2>2, LocalTypes DEF EnqWake, Return, MpmcTypeOK
<1> QED
  BY <1>4, <1>5, <1>6, <1>7 DEF Enqueue

\* What a consumer does with the contents of its cell.
LEMMA OverTypes ==
    ASSUME MpmcTypeOK, NEW c \in Consumers, NEW v \in Contents, Over(c, v)
    PROVE  /\ gotAt' \in [Tickets -> Contents] /\ futex_addr' \in [Consumers -> {0, 1}]
           /\ count' \in [Threads -> Nat]
           /\ \E q \in RoleLabels(c), l \in Locals : LocalStep(c, q, l)
<1>1. c \in Threads /\ c \notin Producers /\ ConsumerLabels = RoleLabels(c)
  BY Constants DEF RoleLabels
<1>2. gotAt' \in [Tickets -> Contents] /\ futex_addr' \in [Consumers -> {0, 1}]
  BY DEF Over, MpmcTypeOK
<1>3. CASE CellPos(c) = N - 1
  <2>1. LocalStep(c, "reclaim", loc[c]) /\ loc[c] \in Locals /\ count' = count
    BY <1>1, <1>3 DEF Over, Goto, LocalStep, MpmcTypeOK
  <2> QED
    BY <1>1, <1>2, <2>1 DEF ConsumerLabels, MpmcTypeOK
<1>4. CASE CellPos(c) # N - 1
  <2>1. LocalStep(c, "start", NoLocals) /\ NoLocals \in Locals
    BY <1>1, <1>4, LocalUpdates DEF Over, Return, Goto, LocalStep, MpmcTypeOK
  <2>2. count' \in [Threads -> Nat]
    <3>1. count' = [count EXCEPT ![c] = @ + 1]
      BY <1>4 DEF Over, Return
    <3> QED
      BY <1>1, <3>1 DEF MpmcTypeOK
  <2> QED
    BY <1>1, <1>2, <2>1, <2>2 DEF ConsumerLabels
<1> QED
  BY <1>3, <1>4

\* The types after a step of mpmc_dequeue.
LEMMA DequeueTypes ==
    ASSUME MemoryInv, NEW c \in Consumers, Dequeue(c)
    PROVE  MpmcTypeOK'
<1>1. /\ MpmcTypeOK /\ c \in Threads
      /\ loc[c] \in Locals
      /\ handle[c] \in Memory /\ id[handle[c]] \in Nat
      /\ Cell(c) \in Contents
  BY Constants, CellTypes DEF MemoryInv, MpmcTypeOK
<1>2. ConsumerLabels = RoleLabels(c)
  BY Constants DEF RoleLabels
<1> USE DEF indices, history, memory, list, waits, N
<1>3. CASE DeqIndex(c)
  <2> DEFINE l == [NoLocals EXCEPT !.index = pop_index, !.curr = handle[c], !.j = id[handle[c]]]
  <2>1. pop_index \in Tickets /\ pop_index' \in 0 .. MaxTicket + 1
    BY <1>3, Constants DEF DeqIndex, Tickets
  <2>3. l \in Locals
    BY <1>1, <2>1, LocalUpdates
  <2>2. LocalStep(c, "find", l) /\ "find" \in RoleLabels(c)
    BY <1>2, <1>3 DEF DeqIndex, Draw, Goto, LocalStep, ConsumerLabels
  <2> QED
    BY <1>1, <1>3, <2>1, <2>2, <2>3, LocalTypes DEF DeqIndex, MpmcTypeOK
<1>4. ASSUME NEW q \in RoleLabels(c), NotYet(c, q)
      PROVE  /\ LocalStep(c, q, loc[c]) /\ UNCHANGED <<futex_addr, count, history>>
  BY <1>1, <1>4 DEF NotYet, Goto, LocalStep, MpmcTypeOK
<1>5. CASE Spin(c)
  <2>1. CASE Over(c, Cell(c))
    BY <1>1, <1>5, <2>1, OverTypes, LocalTypes DEF Spin, Over, MpmcTypeOK
  <2>2. CASE NotYet(c, "deq_exchange")
    <3>1. "deq_exchange" \in RoleLabels(c)
      BY <1>2 DEF ConsumerLabels
    <3> QED
      BY <1>1, <1>4, <1>5, <2>2, <3>1, LocalTypes DEF Spin, MpmcTypeOK
  <2> QED
    BY <1>5, <2>1, <2>2 DEF Spin
<1>6. CASE DeqExchange(c)
  <2>1. cells' \in [Memory -> [0 .. N - 1 -> Contents]]
    BY <1>1, <1>6, CellTypes, ContentsFields DEF DeqExchange
  <2>2. CASE Over(c, Cell(c))
    BY <1>1, <1>6, <2>1, <2>2, OverTypes, LocalTypes DEF DeqExchange, Over, MpmcTypeOK
  <2>3. CASE NotYet(c, "deq_wait")
    <3>1. "deq_wait" \in RoleLabels(c)
      BY <1>2 DEF ConsumerLabels
    <3> QED
      BY <1>1, <1>4, <1>6, <2>1, <2>3, <3>1, LocalTypes DEF DeqExchange, MpmcTypeOK
  <2> QED
    BY <1>6, <2>2, <2>3 DEF DeqExchange
<1>7. CASE DeqWait(c)
  <2>1. LocalStep(c, "deq_waiting", loc[c]) /\ "deq_waiting" \in RoleLabels(c)
    BY <1>1, <1>2, <1>7 DEF DeqWait, Goto, LocalStep, ConsumerLabels, MpmcTypeOK
  <2>2. queue' \in [Consumers -> SUBSET Threads]
    BY <1>1, <1>7 DEF DeqWait, FutexWait, MpmcTypeOK
  <2> QED
    BY <1>1, <1>7, <2>1, <2>2, LocalTypes DEF DeqWait, MpmcTypeOK
<1>8. CASE DeqAwake(c)
  <2>1. CASE Over(c, Cell(c))
    BY <1>1, <1>8, <2>1, OverTypes, LocalTypes DEF DeqAwake, Over, MpmcTypeOK
  <2>2. CASE NotYet(c, "deq_wait")
    <3>1. "deq_wait" \in RoleLabels(c)
      BY <1>2 DEF ConsumerLabels
    <3> QED
      BY <1>1, <1>4, <1>8, <2>2, <3>1, LocalTypes DEF DeqAwake, MpmcTypeOK
  <2> QED
    BY <1>8, <2>1, <2>2 DEF DeqAwake
<1> QED
  BY <1>3, <1>5, <1>6, <1>7, <1>8 DEF Dequeue

\* What the reclaimer reads of nodes: where it looks and what it frees.
LEMMA ReclaimReads ==
    ASSUME MemoryInv, NEW c \in Consumers
    PROVE  /\ pc[c] = "scan" => /\ loc[c].scan \in Threads
                                /\ loc[c].scan # 1 => loc[c].min \in List
           /\ pc[c] = "scanned" => loc[c].min \in List
           /\ pc[c] = "free" =>
                 /\ loc[c].curr \in Live
                 /\ IF id[loc[c].curr] + 1 = loc[c].new
                      THEN next[loc[c].curr] = loc[c].min
                      ELSE /\ next[loc[c].curr] \in Live
                           /\ id[next[loc[c].curr]] = id[loc[c].curr] + 1
                           /\ next[loc[c].curr] # loc[c].min
           /\ List \subseteq Live /\ Live \subseteq Memory /\ init_node \in List
<1>1. List \subseteq Live /\ Live \subseteq Memory
  BY DEF List, Live, MemoryInv, MpmcTypeOK
<1>2. init_node \in List
  BY DEF List, ListOK, MemoryInv, MpmcTypeOK
<1>3. c \in Threads
  BY Constants
<1>4. pc[c] = "free" => ToFree(c, loc[c].curr)
  BY DEF MemoryInv, GarbageOK, GarbageOf
<1> QED
  BY <1>1, <1>2, <1>3, <1>4 DEF MemoryInv, ScanOK, ScanOf, GarbageOK, GarbageOf, ToFree

\* The types after a step of the reclamation.
LEMMA ReclaimTypes ==
    ASSUME MemoryInv, NEW c \in Consumers, Reclaim(c)
    PROVE  MpmcTypeOK'
<1>1. /\ MpmcTypeOK /\ c \in Threads
      /\ loc[c] \in Locals /\ NoLocals \in Locals /\ loc[c].scan + 1 \in Nat
      /\ init_node \in Memory
  <2>1. MpmcTypeOK /\ c \in Threads /\ loc[c] \in Locals /\ init_node \in Memory
    BY Constants DEF MemoryInv, MpmcTypeOK
  <2>2. loc[c].scan + 1 \in Nat
    BY <2>1 DEF Locals
  <2> QED
    BY <2>1, <2>2, LocalUpdates
<1>2. ConsumerLabels = RoleLabels(c)
  BY Constants DEF RoleLabels
<1>3. ASSUME Return(c)
      PROVE  /\ LocalStep(c, "start", NoLocals) /\ "start" \in RoleLabels(c)
             /\ count' \in [Threads -> Nat]
  <2>1. count' = [count EXCEPT ![c] = @ + 1]
    BY <1>3 DEF Return
  <2> QED
    BY <1>1, <1>2, <1>3, <2>1 DEF Return, Goto, LocalStep, ConsumerLabels, MpmcTypeOK
<1> USE DEF indices, history, memory, list, waits, N
<1>4. CASE ReclaimLoad(c)
  <2>1. CASE Return(c)
    BY <1>1, <1>3, <1>4, <2>1, LocalTypes DEF ReclaimLoad, MpmcTypeOK
  <2>2. CASE /\ loc' = [loc EXCEPT ![c].init = init_id]
             /\ Goto(c, "reclaim_cas") /\ UNCHANGED count
    <3>1. LocalStep(c, "reclaim_cas", [loc[c] EXCEPT !.init = init_id]) /\ "reclaim_cas" \in RoleLabels(c)
      BY <1>1, <1>2, <2>2 DEF Goto, LocalStep, ConsumerLabels, MpmcTypeOK
    <3>2. [loc[c] EXCEPT !.init = init_id] \in Locals
      BY <1>1, LocalUpdates DEF MpmcTypeOK
    <3> QED
      BY <1>1, <1>4, <2>2, <3>1, <3>2, LocalTypes DEF ReclaimLoad, MpmcTypeOK
  <2> QED
    BY <1>4, <2>1, <2>2 DEF ReclaimLoad
<1>5. CASE ReclaimCas(c)
  <2>1. CASE Return(c) /\ UNCHANGED init_id
    BY <1>1, <1>3, <1>5, <2>1, LocalTypes DEF ReclaimCas, MpmcTypeOK
  <2>2. CASE /\ init_id' = Taken(c)
             /\ loc' = [loc EXCEPT ![c].curr = init_node, ![c].scan = 1]
             /\ Goto(c, "scan") /\ UNCHANGED count
    <3> DEFINE l == [loc[c] EXCEPT !.curr = init_node, !.scan = 1]
    <3>1. LocalStep(c, "scan", l) /\ "scan" \in RoleLabels(c)
      BY <1>1, <1>2, <2>2 DEF Goto, LocalStep, ConsumerLabels, MpmcTypeOK
    <3>2. l \in Locals
      BY <1>1, LocalUpdates
    <3> QED
      BY <1>1, <1>5, <2>2, <3>1, <3>2, LocalTypes DEF ReclaimCas, Taken, MpmcTypeOK
  <2> QED
    BY <1>5, <2>1, <2>2 DEF ReclaimCas
<1>6. CASE Scan(c)
  <2> DEFINE min == IF loc[c].scan = 1 \/ id[handle[loc[c].scan]] < id[loc[c].min]
                      THEN handle[loc[c].scan] ELSE loc[c].min
             p == IF id[min] <= loc[c].init \/ loc[c].scan = LastHandle THEN "scanned" ELSE "scan"
             l == [loc[c] EXCEPT !.min = min, !.scan = loc[c].scan + 1]
  <2>1. min \in Memory
    BY <1>1, <1>6, ReclaimReads DEF Scan, At, MpmcTypeOK
  <2>2. l \in Locals
    BY <1>1, <2>1, LocalUpdates
  <2>3. LocalStep(c, p, l) /\ p \in RoleLabels(c)
    BY <1>1, <1>2, <1>6 DEF Scan, Goto, LocalStep, ConsumerLabels, MpmcTypeOK
  <2> QED
    BY <1>1, <1>6, <2>2, <2>3, LocalTypes DEF Scan, MpmcTypeOK
<1>7. CASE ReclaimNothing(c)
  <2>1. Return(c) /\ init_id' \in Int
    BY <1>1, <1>7 DEF ReclaimNothing, Locals
  <2> QED
    BY <1>1, <1>3, <1>7, <2>1, LocalTypes DEF ReclaimNothing, MpmcTypeOK
<1>8. CASE ReclaimPublish(c)
  <2> DEFINE l == [loc[c] EXCEPT !.new = id[loc[c].min]]
  <2>1. loc[c].min \in Memory /\ id[loc[c].min] \in Nat
    BY <1>1, <1>8, ReclaimReads DEF ReclaimPublish, At, MpmcTypeOK
  <2>2. l \in Locals
    BY <1>1, <2>1, LocalUpdates
  <2>3. LocalStep(c, "free", l) /\ "free" \in RoleLabels(c)
    BY <1>1, <1>2, <1>8 DEF ReclaimPublish, Goto, LocalStep, ConsumerLabels, MpmcTypeOK
  <2> QED
    BY <1>1, <1>8, <2>1, <2>2, <2>3, LocalTypes DEF ReclaimPublish, MpmcTypeOK
<1>9. CASE ReclaimFree(c)
  <2> DEFINE node == loc[c].curr
  <2>1. node \in Memory
    BY <1>1, <1>9, ReclaimReads DEF ReclaimFree, At
  <2>2. /\ allocated' \subseteq Memory
        /\ next' \in [Memory -> Memory \cup {NULL}]
        /\ id' \in [Memory -> Nat]
        /\ cells' \in [Memory -> [0 .. N - 1 -> Contents]]
    <3>1. Blank \in [0 .. N - 1 -> Contents]
      BY ContentsFields DEF Blank
    <3> QED
      BY <1>1, <1>9, <2>1, <3>1 DEF ReclaimFree, MpmcTypeOK
  <2>3. UNCHANGED <<indices, history, init_node, init_id, spare, handle, waits>>
    BY <1>9 DEF ReclaimFree
  <2>4. CASE Return(c)
    BY <1>1, <1>3, <2>2, <2>3, <2>4, LocalTypes DEF MpmcTypeOK
  <2>5. CASE next[node] # loc[c].min
    <3>1. loc' = [loc EXCEPT ![c].curr = next[node]] /\ UNCHANGED <<pc, count>>
      BY <1>9, <2>5 DEF ReclaimFree
    <3>2. next[node] \in Memory
      BY <1>1, <1>9, <2>5, ReclaimReads DEF ReclaimFree, At
    <3>3. [loc[c] EXCEPT !.curr = next[node]] \in Locals
      BY <1>1, <3>2, LocalUpdates
    <3>4. LocalStep(c, "free", [loc[c] EXCEPT !.curr = next[node]]) /\ "free" \in RoleLabels(c)
      BY <1>1, <1>2, <1>9, <3>1 DEF ReclaimFree, At, LocalStep, ConsumerLabels, MpmcTypeOK
    <3> QED
      BY <1>1, <2>2, <2>3, <3>1, <3>3, <3>4, LocalTypes DEF MpmcTypeOK
  <2> QED
    BY <1>9, <2>4, <2>5 DEF ReclaimFree
<1> QED
  BY <1>4, <1>5, <1>6, <1>7, <1>8, <1>9 DEF Reclaim

\* No step takes a variable out of its type.
LEMMA TypeStep == ASSUME MemoryInv, [Next]_vars PROVE MpmcTypeOK'
<1>1. CASE UNCHANGED vars \/ Ended
  <2>1. UNCHANGED vars
    BY <1>1 DEF Ended
  <2> QED
    BY <2>1 DEF vars, indices, history, memory, list, waits, MemoryInv, MpmcTypeOK, N
<1>2. ASSUME NEW t \in Threads, ThreadStep(t)
      PROVE  MpmcTypeOK'
  BY <1>2, FindTypes, EnqueueTypes, DequeueTypes, ReclaimTypes DEF ThreadStep
<1> QED
  BY <1>1, <1>2 DEF Next, Steps

-----------------------------------------------------------------------------
(* Steps that leave the list alone *)

\* A thread that walks, or works on its cell, or decides whether to reclaim,
\* disturbs nobody, as long as its own handle and node are in the list and its
\* handle only moves to later nodes.
LEMMA OutsideReclaim ==
    ASSUME MemoryInv, MpmcTypeOK', NEW t \in Threads,
           UNCHANGED <<init_node, init_id, next, id>>, Live' = Live, SpareOK',
           \A u \in Threads \ {t} :
               pc'[u] = pc[u] /\ loc'[u] = loc[u] /\ handle'[u] = handle[u],
           pc[t] \notin InReclaim, pc'[t] \notin InReclaim, loc'[t].min = NULL,
           HandleOK(t)', id[handle[t]] <= id[handle'[t]],
           pc'[t] = "reclaim_cas" => loc'[t].init >= 0
    PROVE  MemoryInv'
<1>1. List' = List
  BY DEF List
<1>2. IdsDistinct' /\ ListOK'
  BY <1>1 DEF MemoryInv, IdsDistinct, ListOK, ListIsConsecutive
<1>3. \A c \in Consumers : c \in Threads /\ (pc'[c] \in InReclaim \/ pc[c] \in InReclaim => c # t)
  BY Constants
<1>4. GarbageOK'
  <2>1. \A c \in Consumers : pc'[c] = "free" => pc[c] = "free" /\ loc'[c] = loc[c]
    BY <1>3 DEF InReclaim
  <2> QED
    BY <2>1 DEF MemoryInv, GarbageOK, GarbageOf, ToFree
<1>5. HandlesOK'
  <2> SUFFICES ASSUME NEW u \in Threads \ {t} PROVE HandleOK(u)'
    BY DEF HandlesOK
  <2> QED
    BY <1>1 DEF MemoryInv, HandlesOK, HandleOK
<1>6. ReclaimOK'
  <2>1. \A c \in Consumers : /\ Reclaiming(c)' <=> Reclaiming(c)
                             /\ Reclaiming(c) => loc'[c] = loc[c]
    BY <1>3 DEF Reclaiming, InReclaim
  <2>2. \A c \in Consumers : pc'[c] = "reclaim_cas" => loc'[c].init >= 0
    BY <1>3 DEF MemoryInv, ReclaimOK
  <2> QED
    BY <2>1, <2>2 DEF MemoryInv, ReclaimOK
<1>7. ScanOK'
  <2>1. \A u \in Threads : id[handle[u]] <= id[handle'[u]] /\ id[handle[u]] \in Nat /\ id[handle'[u]] \in Nat
    <3>1. \A u \in Threads : handle[u] \in Memory /\ handle'[u] \in Memory
      BY DEF MemoryInv, MpmcTypeOK
    <3>2. \A n \in Memory : id[n] \in Nat /\ id[n] <= id[n]
      BY DEF MemoryInv, MpmcTypeOK
    <3> QED
      BY <3>1, <3>2
  <2>2. \A n \in List : id[n] \in Nat
    BY DEF MemoryInv, MpmcTypeOK, List, Live
  <2>3. \A n \in List, u \in Threads : id[n] <= id[handle[u]] => id[n] <= id[handle'[u]]
    BY <2>1, <2>2
  <2> QED
    BY <1>1, <2>3 DEF MemoryInv, ScanOK, ScanOf, InReclaim
<1> QED
  BY <1>2, <1>4, <1>5, <1>6, <1>7 DEF MemoryInv

\* The list does not change when nothing that it is made of does.
LEMMA ListKept ==
    ASSUME MemoryInv, UNCHANGED <<next, id, allocated, spare>>
    PROVE  Live' = Live /\ SpareOK'
BY DEF MemoryInv, SpareOK, Live

\* A step of t to p with locals l, which it is enough to look at.
LEMMA LocalEffect ==
    ASSUME MemoryInv, NEW t \in Threads, NEW p, NEW l, LocalStep(t, p, l)
    PROVE  /\ pc'[t] = p /\ loc'[t] = l
           /\ \A u \in Threads \ {t} : pc'[u] = pc[u] /\ loc'[u] = loc[u]
BY DEF LocalStep, MemoryInv, MpmcTypeOK

\* A thread that does not walk next has a handle as good as before.
LEMMA NotWalking ==
    ASSUME MemoryInv, MpmcTypeOK', NEW t \in Threads, NEW p, NEW l,
           UNCHANGED <<init_node, init_id, next, id, allocated, spare, handle>>,
           LocalStep(t, p, l), pc[t] \notin InReclaim,
           p \notin Walking \cup InReclaim, l.min = NULL,
           p = "reclaim_cas" => l.init >= 0
    PROVE  MemoryInv'
<1>1. Live' = Live /\ SpareOK' /\ List' = List
  BY ListKept DEF List
<1>2. /\ pc'[t] = p /\ loc'[t] = l
      /\ \A u \in Threads \ {t} : pc'[u] = pc[u] /\ loc'[u] = loc[u]
  BY LocalEffect
<1>3. HandleOK(t)' /\ id[handle[t]] <= id[handle'[t]]
  BY <1>1, <1>2 DEF MemoryInv, MpmcTypeOK, HandlesOK, HandleOK
<1> QED
  BY <1>1, <1>2, <1>3, OutsideReclaim

\* An operation begins: the thread walks from its handle.
LEMMA DrawMemory ==
    ASSUME MemoryInv, MpmcTypeOK', NEW t \in Threads, NEW k, Draw(t, k), At(t, "start"),
           UNCHANGED memory
    PROVE  MemoryInv'
<1> DEFINE l == [NoLocals EXCEPT !.index = k, !.curr = handle[t], !.j = id[handle[t]]]
<1>1. UNCHANGED <<init_node, init_id, next, id, allocated, spare, handle>>
  BY DEF memory, list
<1>2. Live' = Live /\ SpareOK' /\ List' = List
  BY <1>1, ListKept DEF List
<1>3. LocalStep(t, "find", l)
  BY DEF Draw, Goto, LocalStep
<1>4. l.curr = handle[t] /\ l.j = id[handle[t]] /\ l.min = NULL
  BY DEF NoLocals
<1> HIDE DEF l
<1>5. /\ pc'[t] = "find" /\ loc'[t] = l
      /\ \A u \in Threads \ {t} : pc'[u] = pc[u] /\ loc'[u] = loc[u]
  BY <1>3, LocalEffect
<1>6. HandleOK(t)' /\ id[handle[t]] <= id[handle'[t]]
  BY <1>1, <1>2, <1>4, <1>5 DEF MemoryInv, MpmcTypeOK, HandlesOK, HandleOK
<1> QED
  BY <1>1, <1>2, <1>4, <1>5, <1>6, OutsideReclaim DEF At, InReclaim

\* mpmc_enqueue does nothing to the list except through mpmc_find_cell.
LEMMA EnqueueMemory ==
    ASSUME MemoryInv, MpmcTypeOK', NEW p \in Producers, Enqueue(p)
    PROVE  MemoryInv'
<1>1. p \in Threads /\ loc[p] \in Locals /\ NoLocals.min = NULL
      /\ (pc[p] \notin InReclaim => loc[p].min = NULL)
  BY Constants DEF MemoryInv, MpmcTypeOK, ScanOK, ScanOf, NoLocals
<1> USE DEF memory, list
<1>2. CASE EnqIndex(p)
  BY <1>1, <1>2, DrawMemory DEF EnqIndex
<1>3. CASE EnqExchange(p)
  <2>1. pc[p] \notin InReclaim
        /\ UNCHANGED <<init_node, init_id, next, id, allocated, spare, handle>>
    BY <1>3 DEF EnqExchange, At, InReclaim
  <2>2. CASE Return(p)
    <3>1. LocalStep(p, "start", NoLocals)
      BY <2>2 DEF Return, Goto, LocalStep
    <3> QED
      BY <1>1, <2>1, <3>1, NotWalking DEF Walking, InReclaim
  <2>3. CASE Goto(p, "enq_store") /\ loc' = [loc EXCEPT ![p].curr = Cell(p)[2]]
    <3> DEFINE l == [loc[p] EXCEPT !.curr = Cell(p)[2]]
    <3>1. LocalStep(p, "enq_store", l)
      BY <1>1, <2>3 DEF Goto, LocalStep, MemoryInv, MpmcTypeOK
    <3>2. l.min = NULL
      BY <1>1, <2>1 DEF Locals
    <3> HIDE DEF l
    <3> QED
      BY <1>1, <2>1, <3>1, <3>2, NotWalking DEF Walking, InReclaim
  <2> QED
    BY <1>3, <2>2, <2>3 DEF EnqExchange
<1>4. CASE EnqStore(p)
  <2>1. LocalStep(p, "enq_wake", loc[p])
    BY <1>1, <1>4 DEF EnqStore, Goto, LocalStep, MemoryInv, MpmcTypeOK
  <2> QED
    BY <1>1, <1>4, <2>1, NotWalking DEF EnqStore, At, Walking, InReclaim
<1>5. CASE EnqWake(p)
  <2>1. LocalStep(p, "start", NoLocals)
    BY <1>5 DEF EnqWake, Return, Goto, LocalStep
  <2> QED
    BY <1>1, <1>5, <2>1, NotWalking DEF EnqWake, At, Walking, InReclaim
<1> QED
  BY <1>2, <1>3, <1>4, <1>5 DEF Enqueue

\* A consumer that has the contents of its cell goes on to reclaim or returns.
LEMMA OverMemory ==
    ASSUME MemoryInv, MpmcTypeOK', NEW c \in Consumers, NEW v, Over(c, v), pc[c] \notin InReclaim,
           UNCHANGED <<init_node, init_id, next, id, allocated, spare, handle>>
    PROVE  MemoryInv'
<1>1. c \in Threads /\ NoLocals.min = NULL /\ loc[c].min = NULL
  BY Constants DEF MemoryInv, ScanOK, ScanOf, NoLocals
<1>2. LocalStep(c, "reclaim", loc[c]) \/ LocalStep(c, "start", NoLocals)
  BY <1>1 DEF Over, Return, Goto, LocalStep, MemoryInv, MpmcTypeOK
<1> QED
  BY <1>1, <1>2, NotWalking DEF Walking, InReclaim

\* Neither does the part of mpmc_dequeue before the reclamation.
LEMMA DequeueMemory ==
    ASSUME MemoryInv, MpmcTypeOK', NEW c \in Consumers, Dequeue(c)
    PROVE  MemoryInv'
<1>1. c \in Threads /\ (pc[c] \notin InReclaim => loc[c].min = NULL)
  BY Constants DEF MemoryInv, ScanOK, ScanOf
<1>2. ASSUME NEW q, NotYet(c, q), pc[c] \notin InReclaim, q \in {"deq_exchange", "deq_wait"},
             UNCHANGED <<init_node, init_id, next, id, allocated, spare, handle>>
      PROVE  MemoryInv'
  <2>1. LocalStep(c, q, loc[c])
    BY <1>1, <1>2 DEF NotYet, Goto, LocalStep, MemoryInv, MpmcTypeOK
  <2> QED
    BY <1>1, <1>2, <2>1, NotWalking DEF Walking, InReclaim
<1> USE DEF memory, list
<1>3. CASE DeqIndex(c)
  BY <1>1, <1>3, DrawMemory DEF DeqIndex
<1>4. CASE Spin(c)
  BY <1>2, <1>4, OverMemory DEF Spin, At, InReclaim
<1>5. CASE DeqExchange(c)
  BY <1>2, <1>5, OverMemory DEF DeqExchange, At, InReclaim
<1>6. CASE DeqWait(c)
  <2>1. LocalStep(c, "deq_waiting", loc[c])
    BY <1>1, <1>6 DEF DeqWait, Goto, LocalStep, MemoryInv, MpmcTypeOK
  <2> QED
    BY <1>1, <1>6, <2>1, NotWalking DEF DeqWait, At, Walking, InReclaim
<1>7. CASE DeqAwake(c)
  BY <1>2, <1>7, OverMemory DEF DeqAwake, At, InReclaim
<1> QED
  BY <1>3, <1>4, <1>5, <1>6, <1>7 DEF Dequeue

\* The numbers of the nodes in the list, which the walks compare.
LEMMA ListFacts ==
    ASSUME MemoryInv
    PROVE  /\ \A n \in Live : n \in Memory /\ n \in allocated /\ id[n] \in Nat
           /\ \A n \in List : n \in Live /\ id[n] >= id[init_node]
           /\ \A n \in Live : id[n] >= id[init_node] => n \in List
           /\ init_node \in List
           /\ \A n \in List : next[n] # NULL =>
                 next[n] \in List /\ id[next[n]] = id[n] + 1 /\ next[n] # n
<1>1. \A n \in Live : n \in Memory /\ n \in allocated /\ id[n] \in Nat
  BY DEF MemoryInv, MpmcTypeOK, Live
<1>2. init_node \in List
  BY DEF MemoryInv, MpmcTypeOK, ListOK, List
<1>3. \A n \in List : n \in Live /\ id[n] >= id[init_node]
  BY DEF List
<1>4. \A n \in Live : id[n] >= id[init_node] => n \in List
  BY DEF List
<1>5. ASSUME NEW n \in List, next[n] # NULL
      PROVE  next[n] \in List /\ id[next[n]] = id[n] + 1 /\ next[n] # n
  BY <1>1, <1>3, <1>5 DEF MemoryInv, ListOK, ListIsConsecutive
<1> QED
  BY <1>1, <1>2, <1>3, <1>4, <1>5

\* The node that FindCas offers is in the list of nobody: the spare node of
\* the thread, or one that malloc returns.
LEMMA Offered ==
    ASSUME MemoryInv, NEW t \in Threads, NEW tmp,
           \/ spare[t] # NULL /\ tmp = spare[t]
           \/ spare[t] = NULL /\ tmp \in Memory \ allocated
    PROVE  /\ tmp \in Memory /\ tmp \notin Live /\ next[tmp] = NULL
           /\ \A u \in Threads \ {t} : spare[u] # tmp
           /\ \A n \in Live : n # tmp
<1>1. tmp \in Memory /\ next[tmp] = NULL
  BY DEF MemoryInv, SpareOK, MpmcTypeOK
<1>2. tmp \notin Live
  BY DEF Live
<1>3. \A u \in Threads \ {t} : spare[u] # tmp
  BY Constants DEF MemoryInv, SpareOK, MpmcTypeOK
<1> QED
  BY <1>1, <1>2, <1>3

\* Walking moves the handle at the end, and only to later nodes of the list.
LEMMA WalkMemory ==
    ASSUME MemoryInv, MpmcTypeOK', NEW t \in Threads, FindReturn(t) \/ FindNext(t) \/ FindEnd(t)
    PROVE  MemoryInv'
<1> DEFINE curr == loc[t].curr
<1>1. /\ loc[t] \in Locals /\ pc[t] \in Walking /\ loc[t].min = NULL
      /\ pc[t] \notin InReclaim /\ pc'[t] \notin InReclaim
  BY DEF FindReturn, FindNext, FindEnd, At, Goto, Walking, InReclaim, MemoryInv, MpmcTypeOK, ScanOK, ScanOf
<1>2. /\ curr \in List /\ id[handle[t]] <= id[curr] /\ loc[t].j = id[curr]
      /\ handle[t] \in List /\ id[handle[t]] \in Nat /\ id[curr] \in Nat
  BY <1>1, ListFacts DEF MemoryInv, HandlesOK, HandleOK
<1>3. UNCHANGED <<init_node, init_id, next, id, allocated, spare>>
  BY DEF FindReturn, FindNext, FindEnd, memory, list
<1>4. Live' = Live /\ SpareOK' /\ List' = List
  BY <1>3, ListKept DEF List
<1>5. CASE FindReturn(t)
  <2> DEFINE p == IF t \in Producers THEN "enq_exchange" ELSE "spin"
  <2>1. handle' = [handle EXCEPT ![t] = curr]
    BY <1>5 DEF FindReturn
  <2>2. LocalStep(t, p, loc[t]) /\ p \notin Walking
    BY <1>1, <1>5 DEF FindReturn, Goto, LocalStep, Walking, MemoryInv, MpmcTypeOK
  <2>3. /\ handle'[t] = curr /\ \A u \in Threads \ {t} : handle'[u] = handle[u]
        /\ pc'[t] = p /\ loc'[t] = loc[t]
        /\ \A u \in Threads \ {t} : pc'[u] = pc[u] /\ loc'[u] = loc[u]
    BY <2>1, <2>2, LocalEffect DEF MemoryInv, MpmcTypeOK
  <2>4. HandleOK(t)' /\ id[handle[t]] <= id[handle'[t]] /\ pc'[t] # "reclaim_cas"
    BY <1>2, <1>4, <2>2, <2>3 DEF HandleOK
  <2> QED
    BY <1>1, <1>3, <1>4, <2>3, <2>4, OutsideReclaim
<1>6. CASE FindNext(t)
  <2> DEFINE l == [loc[t] EXCEPT !.curr = next[curr], !.j = loc[t].j + 1]
  <2>1. LocalStep(t, "find", l) /\ handle' = handle
    BY <1>1, <1>6, ZenonT(30) DEF FindNext, At, LocalStep, MemoryInv, MpmcTypeOK, memory
  <2>2. l.curr = next[curr] /\ l.j = loc[t].j + 1 /\ l.min = NULL
    BY <1>1 DEF Locals
  <2>3. next[curr] \in List /\ id[next[curr]] = id[curr] + 1
    BY <1>2, <1>6, ListFacts DEF FindNext
  <2> HIDE DEF l
  <2>4. /\ pc'[t] = "find" /\ loc'[t] = l
        /\ \A u \in Threads \ {t} : pc'[u] = pc[u] /\ loc'[u] = loc[u]
    BY <2>1, LocalEffect
  <2>5. HandleOK(t)' /\ id[handle[t]] <= id[handle'[t]] /\ pc'[t] # "reclaim_cas"
    BY <1>2, <1>3, <1>4, <2>1, <2>2, <2>3, <2>4 DEF HandleOK
  <2> QED
    BY <1>1, <1>3, <1>4, <2>1, <2>2, <2>4, <2>5, OutsideReclaim
<1>7. CASE FindEnd(t)
  <2>1. LocalStep(t, "find_cas", loc[t]) /\ handle' = handle
    BY <1>1, <1>7 DEF FindEnd, Goto, LocalStep, MemoryInv, MpmcTypeOK, memory
  <2>2. /\ pc'[t] = "find_cas" /\ loc'[t] = loc[t]
        /\ \A u \in Threads \ {t} : pc'[u] = pc[u] /\ loc'[u] = loc[u]
    BY <2>1, LocalEffect
  <2>3. HandleOK(t)' /\ id[handle[t]] <= id[handle'[t]] /\ pc'[t] # "reclaim_cas"
    BY <1>2, <1>3, <1>4, <2>1, <2>2 DEF HandleOK
  <2> QED
    BY <1>1, <1>3, <1>4, <2>1, <2>2, <2>3, OutsideReclaim
<1> QED
  BY <1>5, <1>6, <1>7

\* The compare-and-swap at the end of the list appends the offered node there,
\* or finds that another thread has appended one and keeps it.
LEMMA AppendMemory ==
    ASSUME MemoryInv, MpmcTypeOK', NEW t \in Threads, FindCas(t)
    PROVE  MemoryInv'
<1> DEFINE curr == loc[t].curr
           tmp == IF spare[t] # NULL THEN spare[t] ELSE CHOOSE n \in Memory : n \notin allocated
           l == [loc[t] EXCEPT !.curr = next'[curr], !.j = loc[t].j + 1]
<1>1. /\ loc[t] \in Locals /\ pc[t] \in Walking /\ loc[t].min = NULL
      /\ pc[t] \notin InReclaim
  BY DEF FindCas, At, Walking, InReclaim, MemoryInv, MpmcTypeOK, ScanOK, ScanOf
<1>2. /\ curr \in List /\ curr \in Live /\ id[handle[t]] <= id[curr] /\ loc[t].j = id[curr]
      /\ handle[t] \in List /\ id[handle[t]] \in Nat /\ id[curr] \in Nat
  BY <1>1, ListFacts DEF MemoryInv, HandlesOK, HandleOK
<1>3. \/ spare[t] # NULL /\ tmp = spare[t]
      \/ spare[t] = NULL /\ tmp \in Memory \ allocated
  BY DEF FindCas
<1>4. /\ tmp \in Memory /\ tmp \notin Live /\ next[tmp] = NULL
      /\ \A u \in Threads \ {t} : spare[u] # tmp
      /\ \A n \in Live : n # tmp
  <2> HIDE DEF tmp
  <2> QED
    BY <1>3, Offered
<1>5. /\ allocated' = allocated \cup {tmp}
      /\ spare' = [spare EXCEPT ![t] = SpareLeft(tmp, next[curr] = NULL)]
      /\ IF next[curr] = NULL
           THEN /\ next' = [next EXCEPT ![curr] = tmp]
                /\ id' = [id EXCEPT ![tmp] = id[curr] + 1]
           ELSE UNCHANGED <<next, id>>
      /\ UNCHANGED <<init_node, init_id, handle>>
  BY <1>2 DEF FindCas
<1>6. LocalStep(t, "find", l)
  BY <1>1 DEF FindCas, Goto, LocalStep, MemoryInv, MpmcTypeOK
<1>7. l.curr = next'[curr] /\ l.j = id[curr] + 1 /\ l.min = NULL
  BY <1>1, <1>2 DEF Locals
<1> HIDE DEF l, tmp
<1>8. /\ pc'[t] = "find" /\ loc'[t] = l
      /\ \A u \in Threads \ {t} : pc'[u] = pc[u] /\ loc'[u] = loc[u]
  BY <1>6, LocalEffect
<1>9. \A n \in allocated : n # NULL
  BY Constants DEF MemoryInv, MpmcTypeOK
<1>10. CASE next[curr] # NULL
  <2>1. spare'[t] = tmp /\ \A u \in Threads \ {t} : spare'[u] = spare[u]
    BY <1>5, <1>10 DEF SpareLeft, MemoryInv, MpmcTypeOK
  <2>2. SpareOK'
    BY <1>3, <1>4, <1>5, <1>10, <2>1 DEF MemoryInv, SpareOK
  <2>3. Live' = Live
    <3>1. \A n : n \in Live' <=> n \in Live
      BY <1>3, <1>4, <1>5, <1>9, <2>1 DEF Live
    <3> QED
      BY <3>1
  <2>4. List' = List
    BY <1>5, <1>10, <2>3 DEF List
  <2>5. next[curr] \in List /\ id[next[curr]] = id[curr] + 1
    BY <1>2, <1>10, ListFacts
  <2>6. HandleOK(t)' /\ id[handle[t]] <= id[handle'[t]]
    BY <1>2, <1>5, <1>7, <1>8, <1>10, <2>4, <2>5 DEF HandleOK
  <2> QED
    BY <1>1, <1>5, <1>7, <1>8, <1>10, <2>2, <2>3, <2>6, OutsideReclaim DEF InReclaim
<1>11. CASE next[curr] = NULL
  <2>1. spare'[t] = NULL /\ \A u \in Threads \ {t} : spare'[u] = spare[u]
    BY <1>5, <1>11 DEF SpareLeft, MemoryInv, MpmcTypeOK
  <2>2. /\ next'[curr] = tmp /\ \A n \in Memory : n # curr => next'[n] = next[n]
        /\ id'[tmp] = id[curr] + 1 /\ \A n \in Memory : n # tmp => id'[n] = id[n]
    <3>1. curr \in Memory
      BY <1>2, ListFacts
    <3>2. next' = [next EXCEPT ![curr] = tmp] /\ id' = [id EXCEPT ![tmp] = id[curr] + 1]
      BY <1>5, <1>11
    <3> QED
      BY <1>4, <3>1, <3>2 DEF MemoryInv, MpmcTypeOK
  <2>3. \A n : n \in Live' <=> n \in Live \/ n = tmp
    <3>1. \A n \in allocated' : n # NULL
      BY <1>4, <1>5, <1>9, Constants
    <3>2. \A n \in allocated' :
              (\A u \in Threads : spare'[u] # n) <=> (\A u \in Threads \ {t} : spare[u] # n)
      BY <2>1, <3>1
    <3>3. \A n : n \in Live' <=> n \in allocated' /\ \A u \in Threads \ {t} : spare[u] # n
      BY <3>2 DEF Live
    <3>4. \A n \in allocated \ {tmp} : spare[t] # n
      BY <1>3, <1>9
    <3>5. \A n \in allocated \ {tmp} : n \in Live <=> \A u \in Threads \ {t} : spare[u] # n
      BY <3>4 DEF Live
    <3> QED
      BY <1>4, <1>5, <3>3, <3>5 DEF Live
  <2>4. \A n \in Live : n \in Live' /\ id'[n] = id[n] /\ (n # curr => next'[n] = next[n])
    BY <1>4, <2>2, <2>3, ListFacts
  <2>5. \A n : n \in List' <=> n \in List \/ n = tmp
    <3>1. id'[init_node'] = id[init_node]
      BY <1>5, <2>4, ListFacts
    <3>2. id[curr] + 1 >= id[init_node]
      BY <1>2, ListFacts
    <3> QED
      BY <2>2, <2>3, <2>4, <3>1, <3>2, ListFacts DEF List
  <2>6. next'[tmp] = NULL /\ tmp # curr /\ \A n \in Live : id[n] <= id[curr]
    BY <1>2, <1>4, <1>11, <2>2 DEF MemoryInv, ListOK
  <2>7. SpareOK'
    <3>1. \A u \in Threads \ {t} : spare[u] # curr
      BY <1>2 DEF Live
    <3>2. \A u \in Threads : spare'[u] # NULL => spare'[u] \in allocated' /\ next'[spare'[u]] = NULL
      <4> SUFFICES ASSUME NEW u \in Threads, spare'[u] # NULL
                   PROVE  spare'[u] \in allocated' /\ next'[spare'[u]] = NULL
        OBVIOUS
      <4>1. u # t /\ spare'[u] = spare[u] /\ spare[u] \in allocated /\ next[spare[u]] = NULL
        BY <2>1 DEF MemoryInv, SpareOK
      <4>2. spare[u] \in Memory /\ spare[u] # curr
        BY <3>1, <4>1 DEF MemoryInv, MpmcTypeOK
      <4> QED
        BY <1>5, <2>2, <4>1, <4>2
    <3>3. \A n \in Memory \ allocated' : next'[n] = NULL
      BY <1>2, <1>5, <2>2 DEF MemoryInv, SpareOK, Live
    <3> QED
      BY <2>1, <3>2, <3>3 DEF MemoryInv, SpareOK
  <2>8. IdsDistinct'
    <3> SUFFICES ASSUME NEW m \in Live', NEW n \in Live', id'[m] = id'[n]
                 PROVE  m = n
      BY DEF IdsDistinct
    <3>1. \A x \in Live : id'[x] < id'[tmp]
      BY <1>2, <2>2, <2>4, <2>6, ListFacts
    <3>2. CASE m = tmp \/ n = tmp
      BY <2>3, <3>1, <3>2, ListFacts, <2>4
    <3>3. CASE m # tmp /\ n # tmp
      BY <2>3, <2>4, <3>3 DEF MemoryInv, IdsDistinct
    <3> QED
      BY <3>2, <3>3
  <2>9. ListOK'
    <3>1. init_node' \in Live'
      BY <1>5, <2>4, ListFacts
    <3>2. ListIsConsecutive'
      <4> SUFFICES ASSUME NEW n \in List', next'[n] # NULL
                   PROVE  next'[n] \in List' /\ id'[next'[n]] = id'[n] + 1
        BY DEF ListIsConsecutive
      <4>1. CASE n = curr
        BY <1>2, <2>2, <2>4, <2>5, <4>1
      <4>2. CASE n # curr /\ n # tmp
        BY <2>4, <2>5, <4>2, ListFacts
      <4> QED
        BY <2>6, <4>1, <4>2
    <3>3. \A n \in List' : next'[n] = NULL => \A m \in Live' : id'[m] <= id'[n]
      <4> SUFFICES ASSUME NEW n \in List', next'[n] = NULL, NEW m \in Live'
                   PROVE  id'[m] <= id'[n]
        OBVIOUS
      <4>1. n = tmp
        <5> SUFFICES ASSUME n # tmp PROVE FALSE
          OBVIOUS
        <5>1. n \in List /\ n # curr /\ next[n] = NULL
          BY <1>4, <2>2, <2>4, <2>5, ListFacts, Constants
        <5>2. id[curr] <= id[n] /\ id[n] <= id[curr] /\ n \in Live
          BY <1>2, <1>11, <2>6, <5>1, ListFacts DEF MemoryInv, ListOK
        <5> QED
          BY <1>2, <5>1, <5>2, ListFacts DEF MemoryInv, IdsDistinct
      <4> QED
        BY <1>2, <2>2, <2>3, <2>4, <2>6, <4>1, ListFacts
    <3> QED
      BY <3>1, <3>2, <3>3 DEF ListOK
  <2>10. GarbageOK'
    <3> SUFFICES ASSUME NEW c \in Consumers, pc'[c] = "free"
                 PROVE  GarbageOf(c)'
      BY DEF GarbageOK
    <3>1. c \in Threads \ {t} /\ pc[c] = "free" /\ loc'[c] = loc[c] /\ GarbageOf(c)
      BY <1>8, Constants DEF MemoryInv, GarbageOK
    <3>2. /\ loc[c].new \in Nat /\ loc[c].curr \in Live /\ loc[c].new <= id[init_node]
          /\ id[init_node] \in Nat /\ id'[init_node'] = id[init_node]
      BY <1>5, <2>4, <3>1, ListFacts DEF GarbageOf, ToFree, MemoryInv, MpmcTypeOK, Locals
    <3>3. \A n : ToFree(c, n)' <=> ToFree(c, n)
      BY <1>2, <2>2, <2>3, <2>4, <3>1, <3>2, ListFacts DEF ToFree
    <3>4. \A n : ToFree(c, n) => n \in Live /\ n # curr /\ next'[n] = next[n] /\ id'[n] = id[n]
      BY <1>2, <2>4, <3>2, ListFacts DEF ToFree
    <3>5. \A n \in Memory : ToFree(c, n)' =>
              IF id'[n] + 1 = loc'[c].new
                THEN next'[n] = loc'[c].min
                ELSE next'[n] \in Live' /\ id'[next'[n]] = id'[n] + 1 /\ next'[n] # loc'[c].min
      BY <2>4, <3>1, <3>3, <3>4 DEF GarbageOf
    <3>6. \A d \in Consumers \ {c} : pc'[d] = "free" =>
              loc'[c].new <= id'[loc'[d].curr] \/ loc'[d].new <= id'[loc'[c].curr]
      <4> SUFFICES ASSUME NEW d \in Consumers \ {c}, pc'[d] = "free"
                   PROVE  loc'[c].new <= id'[loc'[d].curr] \/ loc'[d].new <= id'[loc'[c].curr]
        OBVIOUS
      <4>1. d \in Threads \ {t} /\ pc[d] = "free" /\ loc'[d] = loc[d] /\ GarbageOf(d)
        BY <1>8, Constants DEF MemoryInv, GarbageOK
      <4>2. id'[loc[d].curr] = id[loc[d].curr] /\ id'[loc[c].curr] = id[loc[c].curr]
        BY <2>4, <3>2, <4>1 DEF GarbageOf, ToFree
      <4> QED
        BY <3>1, <4>1, <4>2 DEF GarbageOf
    <3> QED
      BY <2>4, <3>1, <3>2, <3>3, <3>5, <3>6 DEF GarbageOf
  <2>11. HandlesOK'
    <3> SUFFICES ASSUME NEW u \in Threads PROVE HandleOK(u)'
      BY DEF HandlesOK
    <3>1. CASE u = t
      <4>1. handle[t] \in List /\ handle[t] \in List' /\ id'[handle[t]] = id[handle[t]]
        BY <1>2, <2>4, <2>5, ListFacts
      <4>2. loc'[t].curr = tmp /\ loc'[t].j = id'[tmp] /\ tmp \in List'
        BY <1>7, <1>8, <2>2, <2>5
      <4>3. id[handle[t]] <= id'[tmp]
        BY <1>2, <2>2
      <4> QED
        BY <1>5, <3>1, <4>1, <4>2, <4>3 DEF HandleOK
    <3>2. CASE u # t
      BY <1>5, <1>8, <2>4, <2>5, <3>2, ListFacts DEF MemoryInv, HandlesOK, HandleOK
    <3> QED
      BY <3>1, <3>2
  <2>12. ReclaimOK'
    <3>1. id'[init_node'] = id[init_node] /\ init_id' = init_id /\ init_node' = init_node
      BY <1>5, <2>4, ListFacts
    <3>2. \A c \in Consumers : /\ Reclaiming(c)' <=> Reclaiming(c)
                               /\ Reclaiming(c) \/ pc'[c] = "reclaim_cas" => pc'[c] = pc[c] /\ loc'[c] = loc[c]
      BY <1>1, <1>8, Constants DEF Reclaiming, InReclaim
    <3> QED
      BY <3>1, <3>2 DEF MemoryInv, ReclaimOK
  <2>13. ScanOK'
    <3> SUFFICES ASSUME NEW c \in Threads PROVE ScanOf(c)'
      BY DEF ScanOK
    <3>1. CASE c = t
      BY <1>7, <1>8, <3>1 DEF ScanOf, InReclaim
    <3>2. CASE c # t
      BY <1>5, <1>8, <2>4, <2>5, <3>2, ListFacts DEF MemoryInv, ScanOK, ScanOf, HandlesOK, HandleOK
    <3> QED
      BY <3>1, <3>2
  <2> QED
    BY <2>7, <2>8, <2>9, <2>10, <2>11, <2>12, <2>13 DEF MemoryInv
<1> QED
  BY <1>10, <1>11

-----------------------------------------------------------------------------
(* The reclamation *)

\* A reclaimer that looks at handles leaves the list, the handles and what is
\* being freed alone.
LEMMA LookingOn ==
    ASSUME MemoryInv, NEW c \in Consumers, NEW p, NEW l,
           UNCHANGED <<init_node, next, id, allocated, spare, handle>>,
           LocalStep(c, p, l), pc[c] # "free", p # "free", p \notin Walking
    PROVE  /\ SpareOK' /\ IdsDistinct' /\ ListOK' /\ GarbageOK' /\ HandlesOK'
           /\ List' = List
           /\ \A u \in Threads \ {c} : ScanOf(u)'
           /\ pc'[c] = p /\ loc'[c] = l
           /\ \A u \in Threads \ {c} : pc'[u] = pc[u] /\ loc'[u] = loc[u]
<1>1. c \in Threads /\ Live' = Live /\ SpareOK' /\ List' = List
  BY ListKept, Constants DEF List
<1>2. /\ pc'[c] = p /\ loc'[c] = l
      /\ \A u \in Threads \ {c} : pc'[u] = pc[u] /\ loc'[u] = loc[u]
  BY <1>1, LocalEffect
<1>3. IdsDistinct' /\ ListOK'
  BY <1>1 DEF MemoryInv, IdsDistinct, ListOK, ListIsConsecutive
<1>4. GarbageOK'
  <2>1. \A d \in Consumers : pc'[d] = "free" => pc[d] = "free" /\ loc'[d] = loc[d]
    BY <1>2, Constants
  <2> QED
    BY <1>1, <2>1 DEF MemoryInv, GarbageOK, GarbageOf, ToFree
<1>5. HandlesOK'
  BY <1>1, <1>2 DEF MemoryInv, HandlesOK, HandleOK
<1>6. \A u \in Threads \ {c} : ScanOf(u)'
  BY <1>1, <1>2 DEF MemoryInv, ScanOK, ScanOf
<1> QED
  BY <1>1, <1>2, <1>3, <1>4, <1>5, <1>6

\* One thread takes init_id away, and then nobody else can.
LEMMA TakeMemory ==
    ASSUME MemoryInv, MpmcTypeOK', NEW c \in Consumers, ReclaimCas(c), init_id = loc[c].init
    PROVE  MemoryInv'
<1> DEFINE l == [loc[c] EXCEPT !.curr = init_node, !.scan = 1]
<1>1. /\ c \in Threads /\ loc[c] \in Locals /\ loc[c].min = NULL /\ pc[c] = "reclaim_cas"
      /\ init_id >= 0 /\ init_id = id[init_node] /\ init_id' = -1
      /\ \A d \in Consumers : ~Reclaiming(d)
  <2>1. c \in Threads /\ loc[c] \in Locals /\ pc[c] = "reclaim_cas" /\ init_id' = -1
    BY Constants DEF ReclaimCas, At, Taken, MemoryInv, MpmcTypeOK
  <2>2. loc[c].min = NULL
    BY <2>1 DEF InReclaim, MemoryInv, ScanOK, ScanOf
  <2>3. init_id >= 0 /\ init_id # -1
    BY <2>1 DEF MemoryInv, ReclaimOK
  <2> QED
    BY <2>1, <2>2, <2>3 DEF MemoryInv, ReclaimOK
<1>2. LocalStep(c, "scan", l) /\ UNCHANGED <<init_node, next, id, allocated, spare, handle>>
  BY <1>1 DEF ReclaimCas, Goto, LocalStep, MemoryInv, MpmcTypeOK, list
<1>3. l.init = loc[c].init /\ l.curr = init_node /\ l.scan = 1 /\ l.min = NULL
  BY <1>1 DEF Locals
<1> HIDE DEF l
<1>4. /\ SpareOK' /\ IdsDistinct' /\ ListOK' /\ GarbageOK' /\ HandlesOK'
      /\ \A u \in Threads \ {c} : ScanOf(u)'
      /\ pc'[c] = "scan" /\ loc'[c] = l
      /\ \A u \in Threads \ {c} : pc'[u] = pc[u] /\ loc'[u] = loc[u]
  BY <1>1, <1>2, LookingOn DEF Walking
<1>5. ReclaimOK'
  <2>1. \A d \in Consumers : Reclaiming(d)' <=> d = c
    BY <1>1, <1>4, Constants DEF Reclaiming
  <2>2. loc'[c].init = id'[init_node'] /\ loc'[c].curr = init_node'
    BY <1>1, <1>2, <1>3, <1>4
  <2>3. \A d \in Consumers : pc'[d] = "reclaim_cas" => loc'[d].init >= 0
    BY <1>4, Constants DEF MemoryInv, ReclaimOK
  <2> QED
    BY <1>1, <2>1, <2>2, <2>3 DEF ReclaimOK
<1>6. ScanOf(c)'
  BY <1>3, <1>4, Constants DEF ScanOf, InReclaim
<1> QED
  BY <1>4, <1>5, <1>6 DEF MemoryInv, ScanOK

\* The search has looked at one more handle, and knows the oldest node of those
\* it has looked at.
LEMMA ScanMemory ==
    ASSUME MemoryInv, MpmcTypeOK', NEW c \in Consumers, Scan(c)
    PROVE  MemoryInv'
<1> DEFINE seen == handle[loc[c].scan]
           min == IF loc[c].scan = 1 \/ id[seen] < id[loc[c].min] THEN seen ELSE loc[c].min
           p == IF id[min] <= loc[c].init \/ loc[c].scan = LastHandle THEN "scanned" ELSE "scan"
           l == [loc[c] EXCEPT !.min = min, !.scan = loc[c].scan + 1]
<1>1. /\ c \in Threads /\ loc[c] \in Locals /\ pc[c] = "scan"
      /\ loc[c].scan \in Threads /\ Reclaiming(c)
      /\ loc[c].scan # 1 =>
            /\ loc[c].min \in List
            /\ \A t \in Threads : t < loc[c].scan => id[loc[c].min] <= id[handle[t]]
  BY Constants DEF Scan, At, MemoryInv, MpmcTypeOK, ScanOK, ScanOf, Reclaiming
<1>2. LocalStep(c, p, l) /\ UNCHANGED <<init_node, init_id, next, id, allocated, spare, handle>>
  BY <1>1 DEF Scan, Goto, LocalStep, MemoryInv, MpmcTypeOK, memory, list
<1>3. l.init = loc[c].init /\ l.curr = loc[c].curr /\ l.scan = loc[c].scan + 1 /\ l.min = min
  BY <1>1 DEF Locals
<1> HIDE DEF l
<1>4. p \in {"scan", "scanned"}
  OBVIOUS
<1>5. /\ SpareOK' /\ IdsDistinct' /\ ListOK' /\ GarbageOK' /\ HandlesOK'
      /\ List' = List
      /\ \A u \in Threads \ {c} : ScanOf(u)'
      /\ pc'[c] = p /\ loc'[c] = l
      /\ \A u \in Threads \ {c} : pc'[u] = pc[u] /\ loc'[u] = loc[u]
  <2> HIDE DEF p
  <2> QED
    BY <1>1, <1>2, <1>4, LookingOn DEF Walking
<1>6. ReclaimOK'
  <2> HIDE DEF p
  <2>1. \A d \in Consumers : Reclaiming(d)' <=> Reclaiming(d)
    BY <1>1, <1>4, <1>5, Constants DEF Reclaiming
  <2>2. loc'[c].init = loc[c].init /\ loc'[c].curr = loc[c].curr
    BY <1>3, <1>5
  <2>3. pc'[c] # "reclaim_cas"
    BY <1>4, <1>5
  <2> QED
    BY <1>1, <1>2, <1>5, <2>1, <2>2, <2>3, Constants DEF MemoryInv, ReclaimOK
<1>7. ScanOf(c)'
  <2>1. /\ \A t \in Threads : handle[t] \in List /\ id[handle[t]] \in Nat
        /\ \A n \in List : id[n] \in Nat
    BY ListFacts DEF MemoryInv, HandlesOK, HandleOK
  <2>2. min \in List /\ \A t \in Threads : t < loc[c].scan + 1 => id[min] <= id[handle[t]]
    <3>1. \A t \in Threads : t < loc[c].scan + 1 => t < loc[c].scan \/ t = loc[c].scan
      BY <1>1, Constants
    <3>2. CASE loc[c].scan = 1
      <4>1. \A t \in Threads : ~(t < loc[c].scan)
        BY <3>2, Constants
      <4> QED
        BY <1>1, <2>1, <3>1, <3>2, <4>1
    <3>3. CASE loc[c].scan # 1
      BY <1>1, <2>1, <3>1, <3>3
    <3> QED
      BY <3>2, <3>3
  <2>3. CASE p = "scan"
    <3>1. loc[c].scan # N_DEQ + N_ENQ
      BY <2>3 DEF LastHandle
    <3>2. loc[c].scan + 1 \in Threads /\ loc[c].scan + 1 # 1
      BY <1>1, <3>1, Constants
    <3> QED
      BY <1>2, <1>3, <1>5, <2>2, <2>3, <3>2 DEF ScanOf, InReclaim
  <2>4. CASE p = "scanned"
    <3>1. id[min] > loc[c].init => loc[c].scan = N_DEQ + N_ENQ
      <4>1. loc[c].init \in Int /\ id[min] \in Nat
        BY <1>1, <2>1, <2>2 DEF Locals
      <4> QED
        BY <2>4, <4>1 DEF LastHandle
    <3>2. id[min] > loc[c].init => \A t \in Threads : id[min] <= id[handle[t]]
      BY <2>2, <3>1, Constants
    <3> QED
      BY <1>2, <1>3, <1>5, <2>2, <2>4, <3>2 DEF ScanOf, InReclaim
  <2> QED
    BY <1>4, <2>3, <2>4
<1> QED
  BY <1>5, <1>6, <1>7 DEF MemoryInv, ScanOK

\* The search has found nothing to free: init_id is given back.
LEMMA NothingMemory ==
    ASSUME MemoryInv, MpmcTypeOK', NEW c \in Consumers, ReclaimNothing(c)
    PROVE  MemoryInv'
<1>1. /\ c \in Threads /\ pc[c] = "scanned" /\ Reclaiming(c) /\ NoLocals.min = NULL
      /\ init_id' = id[init_node] /\ id[init_node] \in Nat
  BY ListFacts, Constants DEF ReclaimNothing, At, MemoryInv, ReclaimOK, Reclaiming, NoLocals
<1>2. LocalStep(c, "start", NoLocals) /\ UNCHANGED <<init_node, next, id, allocated, spare, handle>>
  BY DEF ReclaimNothing, Return, Goto, LocalStep, list
<1>3. /\ SpareOK' /\ IdsDistinct' /\ ListOK' /\ GarbageOK' /\ HandlesOK'
      /\ \A u \in Threads \ {c} : ScanOf(u)'
      /\ pc'[c] = "start" /\ loc'[c] = NoLocals
      /\ \A u \in Threads \ {c} : pc'[u] = pc[u] /\ loc'[u] = loc[u]
  BY <1>1, <1>2, LookingOn DEF Walking
<1>4. ReclaimOK'
  <2>1. \A d \in Consumers : ~Reclaiming(d)'
    BY <1>1, <1>3, Constants DEF Reclaiming, MemoryInv, ReclaimOK
  <2>2. \A d \in Consumers : pc'[d] = "reclaim_cas" => loc'[d].init >= 0
    BY <1>3, Constants DEF MemoryInv, ReclaimOK
  <2> QED
    BY <1>1, <1>2, <2>1, <2>2 DEF ReclaimOK
<1>5. ScanOf(c)'
  BY <1>1, <1>3 DEF ScanOf
<1> QED
  BY <1>3, <1>4, <1>5 DEF MemoryInv, ScanOK

\* The oldest node that a handle needs becomes the first of the list; the ones
\* before it are for the reclaimer to free.
LEMMA PublishMemory ==
    ASSUME MemoryInv, MpmcTypeOK', NEW c \in Consumers, ReclaimPublish(c)
    PROVE  MemoryInv'
<1> DEFINE min == loc[c].min
           l == [loc[c] EXCEPT !.new = id[min]]
<1>1. /\ c \in Threads /\ loc[c] \in Locals /\ pc[c] = "scanned" /\ Reclaiming(c)
      /\ min \in List /\ id[min] > loc[c].init
      /\ \A t \in Threads : id[min] <= id[handle[t]]
      /\ loc[c].init = id[init_node] /\ loc[c].curr = init_node
  BY Constants DEF ReclaimPublish, At, MemoryInv, MpmcTypeOK, ScanOK, ScanOf, ReclaimOK, Reclaiming
<1>2. /\ init_node' = min /\ init_id' = id[min] /\ LocalStep(c, "free", l)
      /\ UNCHANGED <<next, id, allocated, spare, handle>>
  BY <1>1 DEF ReclaimPublish, Goto, LocalStep, MemoryInv, MpmcTypeOK, list
<1>3. l.curr = init_node /\ l.min = min /\ l.new = id[min]
  BY <1>1 DEF Locals
<1> HIDE DEF l
<1>4. /\ pc'[c] = "free" /\ loc'[c] = l
      /\ \A u \in Threads \ {c} : pc'[u] = pc[u] /\ loc'[u] = loc[u]
  BY <1>1, <1>2, LocalEffect
<1>5. /\ Live' = Live /\ SpareOK' /\ id'[init_node'] = id[min]
      /\ min \in Live /\ id[min] \in Nat /\ id[init_node] \in Nat /\ id[init_node] < id[min]
  BY <1>1, <1>2, ListKept, ListFacts
<1>6. \A n : n \in List' <=> n \in List /\ id[n] >= id[min]
  BY <1>2, <1>5, ListFacts DEF List
<1>7. IdsDistinct'
  BY <1>2, <1>5 DEF MemoryInv, IdsDistinct
<1>8. ListOK'
  <2>1. ListIsConsecutive'
    BY <1>2, <1>5, <1>6, ListFacts DEF ListIsConsecutive
  <2> QED
    BY <1>2, <1>5, <1>6, <2>1 DEF MemoryInv, ListOK
<1>9. \A d \in Consumers \ {c} : pc'[d] = "free" =>
          /\ pc[d] = "free" /\ loc'[d] = loc[d] /\ GarbageOf(d)
          /\ loc[d].new \in Nat /\ loc[d].new <= id[init_node]
  BY <1>4, Constants DEF MemoryInv, MpmcTypeOK, Locals, GarbageOK, GarbageOf
<1>10. GarbageOK'
  <2> SUFFICES ASSUME NEW d \in Consumers, pc'[d] = "free" PROVE GarbageOf(d)'
    BY DEF GarbageOK
  <2>1. CASE d = c
    <3>1. ToFree(c, loc[c].curr)'
      BY <1>2, <1>3, <1>4, <1>5, ListFacts DEF ToFree
    <3>2. ASSUME NEW n \in Memory, ToFree(c, n)'
          PROVE  IF id'[n] + 1 = loc'[c].new
                   THEN next'[n] = loc'[c].min
                   ELSE next'[n] \in Live' /\ id'[next'[n]] = id'[n] + 1 /\ next'[n] # loc'[c].min
      <4>1. n \in Live /\ id[init_node] <= id[n] /\ id[n] < id[min] /\ id[n] \in Nat
        BY <1>2, <1>3, <1>4, <1>5, <3>2, ListFacts DEF ToFree
      <4>2. n \in List /\ next[n] # NULL
        BY <1>1, <1>5, <4>1, ListFacts DEF MemoryInv, ListOK
      <4>3. next[n] \in Live /\ id[next[n]] = id[n] + 1
        BY <4>2, ListFacts
      <4>4. next[n] = min <=> id[n] + 1 = id[min]
        BY <1>5, <4>3 DEF MemoryInv, IdsDistinct
      <4> QED
        BY <1>2, <1>3, <1>4, <1>5, <4>3, <4>4
    <3>3. \A e \in Consumers \ {c} : pc'[e] = "free" => loc'[e].new <= id'[loc'[c].curr]
      BY <1>2, <1>3, <1>4, <1>9
    <3> QED
      BY <1>2, <1>3, <1>4, <1>5, <2>1, <3>1, <3>2, <3>3 DEF GarbageOf
  <2>2. CASE d # c
    <3>1. pc[d] = "free" /\ loc'[d] = loc[d] /\ GarbageOf(d) /\ loc[d].new \in Nat /\ loc[d].new <= id[init_node]
      BY <1>9, <2>2
    <3>2. \A n : ToFree(d, n)' <=> ToFree(d, n)
      BY <1>2, <1>5, <3>1 DEF ToFree
    <3>3. \A e \in Consumers \ {d} : pc'[e] = "free" =>
              loc'[d].new <= id'[loc'[e].curr] \/ loc'[e].new <= id'[loc'[d].curr]
      BY <1>2, <1>3, <1>4, <1>9, <3>1 DEF GarbageOf
    <3> QED
      BY <1>2, <1>5, <3>1, <3>2, <3>3 DEF GarbageOf
  <2> QED
    BY <2>1, <2>2
<1>11. HandlesOK'
  <2> SUFFICES ASSUME NEW t \in Threads PROVE HandleOK(t)'
    BY DEF HandlesOK
  <2>1. HandleOK(t) /\ handle[t] \in List' /\ id[handle[t]] \in Nat
    BY <1>1, <1>6, ListFacts DEF MemoryInv, HandlesOK, HandleOK
  <2>2. pc'[t] \in Walking => pc[t] \in Walking /\ loc'[t] = loc[t]
    BY <1>4 DEF Walking
  <2>3. pc'[t] \in Walking => loc[t].curr \in List'
    BY <1>1, <1>5, <1>6, <2>1, <2>2, ListFacts DEF HandleOK
  <2> QED
    BY <1>2, <2>1, <2>2, <2>3 DEF HandleOK
<1>12. ReclaimOK'
  <2>1. \A d \in Consumers : ~Reclaiming(d)'
    BY <1>1, <1>4, Constants DEF Reclaiming, MemoryInv, ReclaimOK
  <2>2. \A d \in Consumers : pc'[d] = "reclaim_cas" => loc'[d].init >= 0
    BY <1>4, Constants DEF MemoryInv, ReclaimOK
  <2> QED
    BY <1>2, <1>5, <2>1, <2>2 DEF ReclaimOK
<1>13. ScanOK'
  <2>1. \A d \in Threads : pc'[d] \notin {"scan", "scanned"}
    <3>1. \A d \in Producers : pc'[d] \notin {"scan", "scanned"}
      BY DEF MpmcTypeOK, ProducerLabels
    <3> QED
      BY <1>12, <1>2, <1>5, <3>1, Constants DEF ReclaimOK, Reclaiming
  <2>2. \A d \in Threads : pc'[d] \notin InReclaim => loc'[d].min = NULL
    BY <1>4 DEF MemoryInv, ScanOK, ScanOf, InReclaim
  <2> QED
    BY <2>1, <2>2 DEF ScanOK, ScanOf
<1> QED
  BY <1>5, <1>7, <1>8, <1>10, <1>11, <1>12, <1>13 DEF MemoryInv

\* A node before the list is freed, and the thread that frees it holds the one
\* after it next, until it comes to the node it has published.
LEMMA FreeMemory ==
    ASSUME MemoryInv, MpmcTypeOK', NEW c \in Consumers, ReclaimFree(c)
    PROVE  MemoryInv'
<1> DEFINE node == loc[c].curr
           l == [loc[c] EXCEPT !.curr = next[node]]
<1>1. /\ c \in Threads /\ loc[c] \in Locals /\ pc[c] = "free" /\ GarbageOf(c)
      /\ ToFree(c, node) /\ node \in Live /\ node \in Memory
      /\ id[node] \in Nat /\ loc[c].new \in Nat /\ id[init_node] \in Nat
      /\ id[node] < loc[c].new /\ loc[c].new <= id[init_node]
  <2>1. c \in Threads /\ loc[c] \in Locals /\ pc[c] = "free" /\ GarbageOf(c) /\ ToFree(c, node)
    BY Constants DEF ReclaimFree, At, MemoryInv, MpmcTypeOK, GarbageOK, GarbageOf
  <2>2. loc[c].new \in Nat
    BY <2>1 DEF Locals
  <2> QED
    BY <2>1, <2>2, ListFacts DEF ToFree, GarbageOf
<1>2. /\ allocated' = allocated \ {node}
      /\ next' = [next EXCEPT ![node] = NULL] /\ id' = [id EXCEPT ![node] = 0]
      /\ UNCHANGED <<init_node, init_id, spare, handle>>
  BY DEF ReclaimFree
<1>3. /\ next'[node] = NULL /\ \A n \in Memory : n # node => next'[n] = next[n] /\ id'[n] = id[n]
  BY <1>1, <1>2 DEF MemoryInv, MpmcTypeOK
<1>4. \A n : n \in Live' <=> n \in Live /\ n # node
  BY <1>2 DEF Live
<1>5. node \notin List /\ \A n \in List : n # node
  BY <1>1, ListFacts
<1>6. \A n \in Live' : n \in Live /\ n # node /\ next'[n] = next[n] /\ id'[n] = id[n]
  BY <1>3, <1>4, ListFacts
<1>7. \A n : n \in List' <=> n \in List
  <2>1. id'[init_node'] = id[init_node]
    BY <1>2, <1>3, <1>5, ListFacts
  <2> QED
    BY <1>4, <1>5, <1>6, <2>1, ListFacts DEF List
<1>8. \A n \in List : n \in Live' /\ next'[n] = next[n] /\ id'[n] = id[n]
  BY <1>4, <1>5, <1>6, ListFacts
<1>9. \A n \in Live' : id'[n] # id[node]
  BY <1>1, <1>6 DEF MemoryInv, IdsDistinct
\* Where the reclaimer goes.
<1>10. \/ /\ id[node] + 1 = loc[c].new /\ pc'[c] = "start" /\ loc'[c].min = NULL
       \/ /\ id[node] + 1 # loc[c].new /\ pc'[c] = "free"
          /\ next[node] \in Live' /\ id'[next[node]] = id[node] + 1
          /\ loc'[c].curr = next[node] /\ loc'[c].min = loc[c].min /\ loc'[c].new = loc[c].new
  <2>1. CASE next[node] = loc[c].min
    <3>1. id[node] + 1 = loc[c].new
      BY <1>1, <2>1 DEF GarbageOf
    <3>2. LocalStep(c, "start", NoLocals) /\ NoLocals.min = NULL
      BY <2>1 DEF ReclaimFree, Return, Goto, LocalStep, NoLocals
    <3> QED
      BY <1>1, <3>1, <3>2, LocalEffect
  <2>2. CASE next[node] # loc[c].min
    <3>1. id[node] + 1 # loc[c].new /\ next[node] \in Live /\ id[next[node]] = id[node] + 1
      BY <1>1, <2>2 DEF GarbageOf
    <3>2. next[node] # node
      BY <1>1, <3>1
    <3>3. LocalStep(c, "free", l)
      BY <1>1, <2>2 DEF ReclaimFree, LocalStep, MemoryInv, MpmcTypeOK
    <3>4. l.curr = next[node] /\ l.min = loc[c].min /\ l.new = loc[c].new
      BY <1>1 DEF Locals
    <3> HIDE DEF l
    <3>5. pc'[c] = "free" /\ loc'[c] = l
      BY <1>1, <3>3, LocalEffect
    <3> QED
      BY <1>4, <1>6, <3>1, <3>2, <3>4, <3>5
  <2> QED
    BY <2>1, <2>2
<1>11. \A u \in Threads \ {c} : pc'[u] = pc[u] /\ loc'[u] = loc[u]
  BY <1>1 DEF ReclaimFree, Return, Goto, MemoryInv, MpmcTypeOK
<1>12. SpareOK'
  <2>1. \A t \in Threads : spare[t] # node
    BY <1>1 DEF Live
  <2>2. \A t \in Threads : spare[t] # NULL => spare[t] \in allocated' /\ next'[spare[t]] = NULL
    BY <1>2, <1>3, <2>1 DEF MemoryInv, SpareOK, MpmcTypeOK
  <2>3. \A n \in Memory \ allocated' : next'[n] = NULL
    BY <1>2, <1>3 DEF MemoryInv, SpareOK
  <2> QED
    BY <1>2, <2>2, <2>3 DEF MemoryInv, SpareOK
<1>13. IdsDistinct'
  BY <1>6 DEF MemoryInv, IdsDistinct
<1>14. ListOK'
  <2>1. ListIsConsecutive'
    BY <1>7, <1>8, ListFacts DEF ListIsConsecutive
  <2>2. init_node' \in Live'
    BY <1>2, <1>8, ListFacts
  <2>3. \A n \in List : next[n] = NULL => \A m \in Live : id[m] <= id[n]
    BY DEF MemoryInv, ListOK
  <2> QED
    BY <1>6, <1>7, <1>8, <2>1, <2>2, <2>3 DEF ListOK
<1>15. GarbageOK'
  <2> SUFFICES ASSUME NEW d \in Consumers, pc'[d] = "free" PROVE GarbageOf(d)'
    BY DEF GarbageOK
  <2>1. id'[init_node'] = id[init_node]
    BY <1>2, <1>8, ListFacts
  <2>2. \A e \in Consumers \ {c} : pc'[e] = "free" =>
            /\ pc[e] = "free" /\ loc'[e] = loc[e] /\ GarbageOf(e) /\ loc[e].new \in Nat
            /\ loc[e].curr \in Live /\ id[loc[e].curr] \in Nat /\ id[loc[e].curr] < loc[e].new
            /\ loc[c].new <= id[loc[e].curr] \/ loc[e].new <= id[node]
    <3> SUFFICES ASSUME NEW e \in Consumers \ {c}, pc'[e] = "free"
                 PROVE  /\ pc[e] = "free" /\ loc'[e] = loc[e] /\ GarbageOf(e) /\ loc[e].new \in Nat
                        /\ loc[e].curr \in Live /\ id[loc[e].curr] \in Nat /\ id[loc[e].curr] < loc[e].new
                        /\ loc[c].new <= id[loc[e].curr] \/ loc[e].new <= id[node]
      OBVIOUS
    <3>1. pc[e] = "free" /\ loc'[e] = loc[e] /\ GarbageOf(e)
      BY <1>11, Constants DEF MemoryInv, GarbageOK
    <3>2. loc[e].new \in Nat
      BY Constants DEF MemoryInv, MpmcTypeOK, Locals
    <3> QED
      BY <1>1, <3>1, <3>2, ListFacts DEF GarbageOf, ToFree
  <2>3. CASE d = c
    <3>1. /\ id[node] + 1 # loc[c].new /\ next[node] \in Live' /\ id'[next[node]] = id[node] + 1
          /\ loc'[c].curr = next[node] /\ loc'[c].min = loc[c].min /\ loc'[c].new = loc[c].new
      BY <1>10, <2>3
    <3>2. ToFree(c, loc[c].curr)'
      BY <1>1, <3>1 DEF ToFree
    <3>3. ASSUME NEW n \in Memory, ToFree(c, n)'
          PROVE  IF id'[n] + 1 = loc'[c].new
                   THEN next'[n] = loc'[c].min
                   ELSE next'[n] \in Live' /\ id'[next'[n]] = id'[n] + 1 /\ next'[n] # loc'[c].min
      <4>1. n \in Live' /\ id[node] < id[n] /\ id[n] < loc[c].new /\ id[n] \in Nat
        BY <1>1, <1>6, <3>1, <3>3, ListFacts DEF ToFree
      <4>2. ToFree(c, n)
        BY <1>1, <1>6, <4>1 DEF ToFree
      <4>3. id[n] + 1 # loc[c].new => next[n] \in Live /\ id[next[n]] = id[n] + 1 /\ next[n] # loc[c].min
        BY <1>1, <4>2 DEF GarbageOf
      <4>4. id[n] + 1 # loc[c].new => next[n] \in Live'
        BY <1>1, <1>4, <4>1, <4>3
      <4>5. id[n] + 1 = loc[c].new => next[n] = loc[c].min
        BY <1>1, <4>2 DEF GarbageOf
      <4> QED
        BY <1>6, <3>1, <4>1, <4>3, <4>4, <4>5
    <3>4. \A e \in Consumers \ {c} : pc'[e] = "free" =>
              loc'[c].new <= id'[loc'[e].curr] \/ loc'[e].new <= id'[loc'[c].curr]
      <4> SUFFICES ASSUME NEW e \in Consumers \ {c}, pc'[e] = "free"
                   PROVE  loc'[c].new <= id'[loc'[e].curr] \/ loc'[e].new <= id'[loc'[c].curr]
        OBVIOUS
      <4>1. loc[e].curr # node
        BY <1>1, <2>2
      <4>2. id'[loc[e].curr] = id[loc[e].curr]
        BY <1>4, <1>6, <2>2, <4>1
      <4> QED
        BY <1>1, <2>2, <3>1, <4>2
    <3> QED
      BY <1>1, <2>1, <2>3, <3>1, <3>2, <3>3, <3>4 DEF GarbageOf
  <2>4. CASE d # c
    <3>1. /\ pc[d] = "free" /\ loc'[d] = loc[d] /\ GarbageOf(d) /\ loc[d].new \in Nat
          /\ loc[d].curr \in Live /\ id[loc[d].curr] \in Nat /\ id[loc[d].curr] < loc[d].new
          /\ loc[c].new <= id[loc[d].curr] \/ loc[d].new <= id[node]
      BY <2>2, <2>4
    <3>2. loc[d].curr \in Live' /\ id'[loc[d].curr] = id[loc[d].curr]
      BY <1>1, <1>4, <1>6, <3>1
    <3>3. \A n : ToFree(d, n)' => ToFree(d, n) /\ n \in Live' /\ id[n] \in Nat
      BY <1>6, <3>1, <3>2, ListFacts DEF ToFree
    <3>4. ASSUME NEW n \in Memory, ToFree(d, n)'
          PROVE  IF id'[n] + 1 = loc'[d].new
                   THEN next'[n] = loc'[d].min
                   ELSE next'[n] \in Live' /\ id'[next'[n]] = id'[n] + 1 /\ next'[n] # loc'[d].min
      <4>1. ToFree(d, n) /\ n \in Live' /\ id[n] \in Nat
        BY <3>3, <3>4
      <4>2. id[n] + 1 # loc[d].new => next[n] \in Live /\ id[next[n]] = id[n] + 1 /\ next[n] # loc[d].min
        BY <3>1, <4>1 DEF GarbageOf
      <4>3. id[n] + 1 # loc[d].new => next[n] # node
        BY <1>1, <3>1, <4>1, <4>2 DEF ToFree
      <4>4. id[n] + 1 = loc[d].new => next[n] = loc[d].min
        BY <3>1, <4>1 DEF GarbageOf
      <4> QED
        BY <1>4, <1>6, <3>1, <4>1, <4>2, <4>3, <4>4
    <3>5. \A e \in Consumers \ {d} : pc'[e] = "free" =>
              loc'[d].new <= id'[loc'[e].curr] \/ loc'[e].new <= id'[loc'[d].curr]
      <4> SUFFICES ASSUME NEW e \in Consumers \ {d}, pc'[e] = "free"
                   PROVE  loc'[d].new <= id'[loc'[e].curr] \/ loc'[e].new <= id'[loc'[d].curr]
        OBVIOUS
      <4>1. CASE e = c
        BY <1>1, <1>10, <3>1, <3>2, <4>1
      <4>2. CASE e # c
        <5>1. /\ loc'[e] = loc[e] /\ pc[e] = "free" /\ loc[e].curr \in Live /\ id[loc[e].curr] \in Nat
              /\ loc[e].curr # node
          BY <1>1, <2>2, <4>2
        <5>2. id'[loc[e].curr] = id[loc[e].curr]
          BY <1>4, <1>6, <5>1
        <5> QED
          BY <3>1, <3>2, <5>1, <5>2 DEF GarbageOf
      <4> QED
        BY <4>1, <4>2
    <3>6. ToFree(d, loc[d].curr)'
      BY <3>1, <3>2 DEF ToFree
    <3> QED
      BY <2>1, <3>1, <3>4, <3>5, <3>6 DEF GarbageOf
  <2> QED
    BY <2>3, <2>4
<1>16. HandlesOK'
  <2> SUFFICES ASSUME NEW t \in Threads PROVE HandleOK(t)'
    BY DEF HandlesOK
  <2>1. HandleOK(t)
    BY DEF MemoryInv, HandlesOK
  <2>2. pc'[t] \in Walking => pc[t] \in Walking /\ loc'[t] = loc[t]
    BY <1>10, <1>11 DEF Walking
  <2> QED
    BY <1>2, <1>7, <1>8, <2>1, <2>2 DEF HandleOK
<1>17. ReclaimOK'
  <2>1. id'[init_node'] = id[init_node]
    BY <1>2, <1>8, ListFacts
  <2>2. \A d \in Consumers : /\ Reclaiming(d)' <=> Reclaiming(d)
                             /\ Reclaiming(d) \/ pc'[d] = "reclaim_cas" => pc'[d] = pc[d] /\ loc'[d] = loc[d]
    BY <1>1, <1>10, <1>11, Constants DEF Reclaiming
  <2> QED
    BY <1>2, <2>1, <2>2 DEF MemoryInv, ReclaimOK
<1>18. ScanOK'
  <2> SUFFICES ASSUME NEW t \in Threads PROVE ScanOf(t)'
    BY DEF ScanOK
  <2>1. CASE t = c
    BY <1>10, <2>1 DEF ScanOf, InReclaim
  <2>2. CASE t # c
    <3>1. \A u \in Threads : handle[u] \in List
      BY DEF MemoryInv, HandlesOK, HandleOK
    <3> QED
      BY <1>2, <1>7, <1>8, <1>11, <2>2, <3>1 DEF MemoryInv, ScanOK, ScanOf
  <2> QED
    BY <2>1, <2>2
<1> QED
  BY <1>12, <1>13, <1>14, <1>15, <1>16, <1>17, <1>18 DEF MemoryInv

\* The decision to reclaim, which may come too late.
LEMMA DecideMemory ==
    ASSUME MemoryInv, MpmcTypeOK', NEW c \in Consumers,
           ReclaimLoad(c) \/ (ReclaimCas(c) /\ init_id # loc[c].init)
    PROVE  MemoryInv'
<1>1. /\ c \in Threads /\ loc[c] \in Locals /\ pc[c] \notin InReclaim
      /\ loc[c].min = NULL /\ NoLocals.min = NULL
      /\ UNCHANGED <<init_node, init_id, next, id, allocated, spare, handle>>
  <2>1. c \in Threads /\ loc[c] \in Locals /\ pc[c] \notin InReclaim /\ NoLocals.min = NULL
    BY Constants DEF ReclaimLoad, ReclaimCas, At, InReclaim, MemoryInv, MpmcTypeOK, NoLocals
  <2>2. loc[c].min = NULL
    BY <2>1 DEF MemoryInv, ScanOK, ScanOf
  <2> QED
    BY <2>1, <2>2 DEF ReclaimLoad, ReclaimCas, memory, list
<1>2. CASE Return(c)
  <2>1. LocalStep(c, "start", NoLocals)
    BY <1>2 DEF Return, Goto, LocalStep
  <2> QED
    BY <1>1, <2>1, NotWalking DEF Walking, InReclaim
<1>3. CASE /\ ReclaimLoad(c) /\ init_id >= 0 /\ loc' = [loc EXCEPT ![c].init = init_id]
           /\ Goto(c, "reclaim_cas")
  <2> DEFINE l == [loc[c] EXCEPT !.init = init_id]
  <2>1. LocalStep(c, "reclaim_cas", l)
    BY <1>1, <1>3 DEF Goto, LocalStep, MemoryInv, MpmcTypeOK
  <2>2. l.init = init_id /\ l.min = NULL
    BY <1>1 DEF Locals
  <2> HIDE DEF l
  <2> QED
    BY <1>1, <1>3, <2>1, <2>2, NotWalking DEF Walking, InReclaim
<1> QED
  BY <1>2, <1>3 DEF ReclaimLoad, ReclaimCas

-----------------------------------------------------------------------------
(* Theorems *)

\* The invariant holds initially and every step keeps it.
LEMMA MemoryStep == ASSUME MemoryInv, [Next]_vars PROVE MemoryInv'
<1>1. MpmcTypeOK'
  BY TypeStep
<1>2. CASE UNCHANGED vars
  <2>1. /\ List' = List /\ Live' = Live
        /\ UNCHANGED <<init_node, init_id, next, id, allocated, spare, handle, pc, loc>>
    BY <1>2 DEF vars, memory, list, List, Live
  <2>2. SpareOK' /\ IdsDistinct' /\ ListOK'
    BY <2>1 DEF MemoryInv, SpareOK, IdsDistinct, ListOK, ListIsConsecutive
  <2>3. GarbageOK' /\ HandlesOK'
    BY <2>1 DEF MemoryInv, GarbageOK, GarbageOf, ToFree, HandlesOK, HandleOK
  <2>4. ReclaimOK' /\ ScanOK'
    BY <2>1 DEF MemoryInv, ReclaimOK, Reclaiming, ScanOK, ScanOf
  <2> QED
    BY <1>1, <2>2, <2>3, <2>4 DEF MemoryInv
<1>3. ASSUME NEW t \in Threads, FindCell(t)
      PROVE  MemoryInv'
  BY <1>1, <1>3, WalkMemory, AppendMemory DEF FindCell
<1>4. ASSUME NEW c \in Consumers, Reclaim(c)
      PROVE  MemoryInv'
  BY <1>1, <1>4, DecideMemory, TakeMemory, ScanMemory, NothingMemory, PublishMemory, FreeMemory
  DEF Reclaim
<1> QED
  BY <1>1, <1>2, <1>3, <1>4, EnqueueMemory, DequeueMemory DEF Next, Ended, Steps, ThreadStep

\* What the list, the handles and the reclaimer are to each other, always.
THEOREM MemoryInvariant == Spec => []MemoryInv
<1>1. Init => MemoryInv
  BY InitMemory
<1>2. MemoryInv /\ [Next]_vars => MemoryInv'
  BY MemoryStep
<1> QED
  BY <1>1, <1>2, PTL DEF Spec

\* mpmc.c: every node that a thread dereferences, in the walk, at its cell and
\* in the reclamation, has not been freed, although only the handles protect
\* it, and they are read one after the other while their owners move on.
THEOREM NoUseAfterFreeAlways == Spec => []NoUseAfterFree
<1>1. MemoryInv => NoUseAfterFree
  <2> SUFFICES ASSUME MemoryInv, NEW t \in Threads PROVE Uses(t) \subseteq allocated
    BY DEF NoUseAfterFree
  <2>1. handle[t] \in allocated
    BY ListFacts DEF MemoryInv, HandlesOK, HandleOK
  <2>2. pc[t] \in {"find", "find_cas"} => loc[t].curr \in allocated
    BY ListFacts DEF MemoryInv, HandlesOK, HandleOK, Walking
  <2>3. pc[t] = "free" => t \in Consumers /\ loc[t].curr \in allocated
    BY Constants, ListFacts DEF MemoryInv, MpmcTypeOK, ProducerLabels, GarbageOK, GarbageOf, ToFree
  <2>4. pc[t] \in {"scan", "scanned"} => loc[t].min = NULL \/ loc[t].min \in allocated
    BY ListFacts DEF MemoryInv, ScanOK, ScanOf
  <2> QED
    BY <2>1, <2>2, <2>3, <2>4 DEF Uses
<1> QED
  BY <1>1, MemoryInvariant, PTL

\* mpmc_find_cell and the reclamation: the list is never cut, and no node is
\* appended twice, whoever appends to it, walks along it and frees its head.
THEOREM ListIsConsecutiveAlways == Spec => []ListIsConsecutive
<1>1. MemoryInv => ListIsConsecutive
  BY DEF MemoryInv, ListOK
<1> QED
  BY <1>1, MemoryInvariant, PTL

\* The compare-and-swap of init_id lets one thread reclaim at a time.
THEOREM OneReclaimerAlways == Spec => []OneReclaimer
<1>1. MemoryInv => OneReclaimer
  <2> SUFFICES ASSUME MemoryInv PROVE OneReclaimer
    OBVIOUS
  <2> DEFINE R == {c \in Consumers : pc[c] \in {"scan", "scanned"}}
  <2>1. \A c \in Consumers : c \in R <=> Reclaiming(c)
    BY DEF Reclaiming
  <2>2. CASE init_id = -1
    <3>1. PICK c \in R : TRUE
      BY <2>1, <2>2 DEF MemoryInv, ReclaimOK
    <3>2. R = {c}
      BY <2>1, <3>1 DEF MemoryInv, ReclaimOK
    <3> QED
      BY <2>2, <3>2, FS_Singleton DEF OneReclaimer
  <2>3. CASE init_id # -1
    <3>1. R = {}
      BY <2>1, <2>3 DEF MemoryInv, ReclaimOK
    <3> QED
      BY <2>3, <3>1, FS_EmptySet DEF OneReclaimer
  <2> QED
    BY <2>2, <2>3
<1> QED
  BY <1>1, MemoryInvariant, PTL

-----------------------------------------------------------------------------
(* PART TWO: the items and the sleepers *)

-----------------------------------------------------------------------------
(* The inductive invariant *)

\* The phases of an operation: its item is not put, or not got, yet; its
\* handle is on the node of its cell; it has left its address and waits.
BeforePut == {"find", "find_cas", "enq_exchange"}

BeforeGet == {"find", "find_cas", "spin", "deq_exchange", "deq_wait", "deq_waiting"}

AtCell == {"enq_exchange", "spin", "deq_exchange", "deq_wait", "deq_waiting"}

Waiting == {"deq_wait", "deq_waiting"}

\* Nothing is put or got with tickets that have not been drawn, and what is got
\* is what was put.
HistoryOK ==
    \A k \in Tickets :
        /\ putAt[k] \in Items \cup {NULL}
        /\ k >= put_index => putAt[k] = NULL
        /\ k >= pop_index => gotAt[k] = NULL
        /\ gotAt[k] # NULL => gotAt[k] = putAt[k]

\* A producer's ticket has been drawn, and its item is under it from its
\* exchange on; its items are told apart by numbers.
ProducerOK(p) ==
    /\ count[p] <= put_index
    /\ pc[p] # "start" =>
          /\ loc[p].index < put_index /\ count[p] < put_index
          /\ putAt[loc[p].index] = NULL <=> pc[p] \in BeforePut

ConsumerOK(c) ==
    pc[c] # "start" =>
        /\ loc[c].index < pop_index
        /\ gotAt[loc[c].index] = NULL <=> pc[c] \in BeforeGet

\* No two producers, and no two consumers, have the same ticket.
Distinct(T) ==
    \A t, u \in T :
        pc[t] # "start" /\ pc[u] # "start" /\ loc[t].index = loc[u].index => t = u

TicketsOK ==
    /\ HistoryOK
    /\ \A p \in Producers : ProducerOK(p)
    /\ \A c \in Consumers : ConsumerOK(c)
    /\ Distinct(Producers) /\ Distinct(Consumers)

NextTicket(t) == IF t \in Producers THEN put_index ELSE pop_index

\* A walk does not go past the node of its ticket, and a handle is never past
\* the node of the next ticket.
WalkOf(t) ==
    /\ pc[t] \in Walking => loc[t].j <= loc[t].index \div N
    /\ pc[t] = "find_cas" => loc[t].j < loc[t].index \div N
    /\ pc[t] \in AtCell => id[handle[t]] = loc[t].index \div N
    /\ id[handle[t]] <= (IF pc[t] = "start" THEN NextTicket(t) ELSE loc[t].index) \div N

WalksOK == \A t \in Threads : WalkOf(t)

\* A node that has not been appended has empty cells.
BlankOK ==
    /\ \A n \in Memory \ allocated : cells[n] = Blank
    /\ \A t \in Threads : spare[t] # NULL => cells[spare[t]] = Blank

\* The consumer of ticket k waits with its address in cell k of node n.
LeftAddress(n, k) ==
    \E c \in Consumers :
        /\ cells[n][k % N] = Addr(c) /\ pc[c] \in Waiting
        /\ loc[c].index = k /\ futex_addr[c] = 1

\* The cell of a ticket, from before the put until the get.
CellOf(n, k) ==
    /\ putAt[k] = NULL => cells[n][k % N] = NULL \/ LeftAddress(n, k)
    /\ putAt[k] # NULL /\ gotAt[k] = NULL => cells[n][k % N] = putAt[k]

\* This holds of all cells of the list, and items have only been put there or
\* before.
CellsOK ==
    /\ \A n \in List, k \in Tickets : id[n] = k \div N => CellOf(n, k)
    /\ \A n \in List, k \in Tickets : next[n] = NULL /\ putAt[k] # NULL => k \div N <= id[n]

\* p has taken the address of c from its cell and is going to clear its futex.
WillClear(p, c) == pc[p] = "enq_store" /\ loc[p].curr = c

WillWake(p, c) == pc[p] = "enq_wake" /\ loc[p].curr = c

\* A consumer's futex is set until its item has been put, and then somebody
\* knows that it has to be cleared, and that the consumer is to be woken.
FutexOf(c) ==
    /\ pc[c] \in BeforeGet \ Waiting => futex_addr[c] = 1
    /\ pc[c] \in Waiting /\ futex_addr[c] = 1 =>
          Cell(c) = Addr(c) \/ \E p \in Producers : WillClear(p, c)
    /\ pc[c] \in Waiting /\ futex_addr[c] # 1 => putAt[loc[c].index] # NULL
    /\ c \in queue[c] /\ futex_addr[c] # 1 => \E p \in Producers : WillWake(p, c)
    /\ \A t \in queue[c] : t = c /\ pc[c] = "deq_waiting"

\* The producer that has taken an address serves the consumer of its ticket.
ServesOf(p) ==
    /\ pc[p] = "enq_store" =>
          /\ loc[p].curr \in Consumers /\ pc[loc[p].curr] \in Waiting
          /\ loc[loc[p].curr].index = loc[p].index /\ futex_addr[loc[p].curr] = 1
    /\ pc[p] = "enq_wake" => loc[p].curr \in Consumers

FutexOK ==
    /\ \A c \in Consumers : FutexOf(c)
    /\ \A p \in Producers : ServesOf(p)

QueueInv ==
    /\ TicketsOK
    /\ WalksOK
    /\ BlankOK
    /\ CellsOK
    /\ FutexOK

-----------------------------------------------------------------------------
(* Arithmetic, contents, and what a step leaves alone *)

\* Division by the number of cells of a node is monotonic.
LEMMA DivMonotonic ==
    ASSUME NEW a \in Int, NEW b \in Int, NEW n \in Nat \ {0}, a <= b
    PROVE  a \div n <= b \div n
OBVIOUS

\* Two tickets with the same node and the same cell of it are the same.
LEMMA SameCell ==
    ASSUME NEW a \in Int, NEW b \in Int, NEW n \in Nat \ {0},
           a \div n = b \div n, a % n = b % n
    PROVE  a = b
<1>1. a = n * (a \div n) + (a % n) /\ b = n * (b \div n) + (b % n)
  OBVIOUS
<1> QED
  BY <1>1

\* Items, addresses and NULL are different things.
LEMMA Different ==
    /\ \A p \in Producers : \A k \in Tickets : Item(p, k) \in Items
    /\ NULL \notin Items
    /\ \A c \in Consumers : Addr(c) # NULL /\ Addr(c) \notin Items /\ Addr(c)[2] = c
    /\ \A c, d \in Consumers : Addr(c) = Addr(d) => c = d
<1>1. \A x \in Items : x # NULL /\ x[1] = "item"
  BY MpmcAssumption DEF Items, Item
<1>2. \A c \in Consumers : Addr(c) # NULL /\ Addr(c)[1] = "addr" /\ Addr(c)[2] = c
  BY MpmcAssumption DEF Addr
<1> QED
  BY <1>1, <1>2 DEF Items

\* The types that the following proofs use.
LEMMA Types ==
    ASSUME MpmcTypeOK
    PROVE  /\ N \in Nat \ {0}
           /\ put_index \in Nat /\ put_index <= MaxTicket + 1
           /\ pop_index \in Nat /\ pop_index <= MaxTicket + 1
           /\ \A t \in Threads :
                 /\ loc[t] \in Locals /\ loc[t].index \in Tickets /\ loc[t].j \in Nat
                 /\ loc[t].index % N \in 0 .. N - 1 /\ loc[t].index \div N \in Nat
                 /\ handle[t] \in Memory /\ id[handle[t]] \in Nat /\ count[t] \in Nat
           /\ \A k \in Tickets : k \in Nat /\ k <= MaxTicket /\ k % N \in 0 .. N - 1 /\ k \div N \in Nat
<1>1. setup \in Setups
  BY DEF MpmcTypeOK
<1>2. N \in Nat \ {0} /\ \A k \in Tickets : k % N \in 0 .. N - 1 /\ k \div N \in Nat
  BY <1>1, Cells
<1>3. put_index \in 0 .. MaxTicket + 1 /\ pop_index \in 0 .. MaxTicket + 1 /\ MaxTicket \in Nat
  BY Constants DEF MpmcTypeOK
<1>4. \A t \in Threads : loc[t] \in Locals /\ handle[t] \in Memory /\ id[handle[t]] \in Nat /\ count[t] \in Nat
  BY DEF MpmcTypeOK
<1>5. \A t \in Threads : loc[t].index \in Tickets /\ loc[t].j \in Nat
  BY <1>4 DEF Locals
<1> QED
  BY <1>2, <1>3, <1>4, <1>5 DEF Tickets

\* What is freed is not in the list.
LEMMA Freed ==
    ASSUME MemoryInv, NEW c \in Consumers, pc[c] = "free"
    PROVE  loc[c].curr \in Memory /\ \A n \in List : n # loc[c].curr /\ n \in Memory
<1>1. loc[c] \in Locals /\ GarbageOf(c)
  BY Constants DEF MemoryInv, MpmcTypeOK, GarbageOK
<1>2. loc[c].new \in Nat
  BY <1>1 DEF Locals
<1>3. /\ loc[c].curr \in Live /\ id[loc[c].curr] \in Nat /\ id[init_node] \in Nat
      /\ id[loc[c].curr] < loc[c].new /\ loc[c].new <= id[init_node]
  BY <1>1, ListFacts DEF GarbageOf, ToFree
<1>4. \A n \in List : n \in Memory /\ id[n] \in Nat /\ id[n] >= id[init_node]
  BY ListFacts
<1> QED
  BY <1>2, <1>3, <1>4, ListFacts

\* A step of one thread leaves the other threads alone, and the numbers of the
\* nodes of the list.
LEMMA Frame ==
    ASSUME MemoryInv, NEW t \in Threads, ThreadStep(t)
    PROVE  /\ setup' = setup /\ N' = N
           /\ \A u \in Threads \ {t} :
                 /\ pc'[u] = pc[u] /\ loc'[u] = loc[u] /\ handle'[u] = handle[u]
                 /\ count'[u] = count[u] /\ spare'[u] = spare[u]
           /\ \A n \in List : id'[n] = id[n]
<1>1. MpmcTypeOK
  BY DEF MemoryInv
<1> USE DEF indices, history, memory, list, waits
<1>2. CASE FindCell(t)
  <2>1. CASE FindReturn(t)
    BY <1>1, <2>1 DEF FindReturn, Goto, N, MpmcTypeOK
  <2>2. CASE FindNext(t) \/ FindEnd(t)
    <3>1. UNCHANGED <<setup, handle, id, spare, count>>
      BY <2>2 DEF FindNext, FindEnd
    <3>2. \A u \in Threads \ {t} : pc'[u] = pc[u] /\ loc'[u] = loc[u]
      BY <1>1, <2>2 DEF FindNext, FindEnd, Goto, MpmcTypeOK
    <3> QED
      BY <3>1, <3>2 DEF N
  <2>3. CASE FindCas(t)
    <3> DEFINE tmp == IF spare[t] # NULL THEN spare[t] ELSE CHOOSE n \in Memory : n \notin allocated
               app == next[loc[t].curr] = NULL
    <3>1. /\ \/ spare[t] # NULL /\ tmp = spare[t]
             \/ spare[t] = NULL /\ tmp \in Memory \ allocated
          /\ id' = IF app THEN [id EXCEPT ![tmp] = loc[t].j + 1] ELSE id
          /\ spare' = [spare EXCEPT ![t] = SpareLeft(tmp, app)]
      BY <2>3 DEF FindCas
    <3> HIDE DEF tmp, app
    <3>2. tmp \in Memory /\ \A n \in List : n # tmp /\ n \in Memory
      BY <3>1, Offered, ListFacts
    <3>3. \A n \in List : id'[n] = id[n]
      BY <1>1, <3>1, <3>2 DEF MpmcTypeOK
    <3>4. \A u \in Threads \ {t} : spare'[u] = spare[u]
      BY <1>1, <3>1 DEF MpmcTypeOK
    <3> QED
      BY <1>1, <2>3, <3>3, <3>4 DEF FindCas, Goto, N, MpmcTypeOK
  <2> QED
    BY <1>2, <2>1, <2>2, <2>3 DEF FindCell
<1>3. CASE t \in Producers /\ Enqueue(t)
  BY <1>1, <1>3 DEF Enqueue, EnqIndex, EnqExchange, EnqStore, EnqWake, Draw, Return, Goto, N, MpmcTypeOK
<1>4. CASE t \in Consumers /\ Dequeue(t)
  BY <1>1, <1>4 DEF Dequeue, DeqIndex, Spin, DeqExchange, DeqWait, DeqAwake, Over, NotYet, Draw, Return,
                    Goto, N, MpmcTypeOK
<1>5. CASE t \in Consumers /\ ReclaimFree(t)
  <2>1. \A n \in List : n # loc[t].curr /\ n \in Memory
    BY <1>5, Freed DEF ReclaimFree, At
  <2>2. \A n \in List : id'[n] = id[n]
    BY <1>1, <1>5, <2>1 DEF ReclaimFree, MpmcTypeOK
  <2> QED
    BY <1>1, <1>5, <2>2 DEF ReclaimFree, Return, Goto, N, MpmcTypeOK
<1>6. CASE t \in Consumers /\ Reclaim(t) /\ ~ReclaimFree(t)
  BY <1>1, <1>6 DEF Reclaim, ReclaimLoad, ReclaimCas, Scan, ReclaimNothing, ReclaimPublish, Return,
                    Goto, N, MpmcTypeOK
<1> QED
  BY <1>2, <1>3, <1>4, <1>5, <1>6 DEF ThreadStep

-----------------------------------------------------------------------------
(* What a step does to the tickets *)

\* The operation of t has a ticket, and has not put, or got, its item.
Pending(t) == IF t \in Producers THEN pc[t] \in BeforePut ELSE pc[t] \in BeforeGet

\* The operation of t goes on with its ticket, or ends.
Stays(t) ==
    pc[t] # "start" /\ pc'[t] # "start" /\ loc'[t].index = loc[t].index /\ count'[t] = count[t]

Leaves(t) == pc[t] # "start" /\ pc'[t] = "start" /\ count'[t] = count[t] + 1

\* The steps as the tickets see them: nothing happens, an operation begins,
\* puts, gets or ends.
Unseen(t) == Stays(t) /\ Pending(t)' = Pending(t) /\ UNCHANGED <<indices, history>>

Ends(t) == Leaves(t) /\ ~Pending(t) /\ UNCHANGED <<indices, history>>

Begins(t) ==
    /\ pc[t] = "start" /\ pc'[t] = "find" /\ count'[t] = count[t]
    /\ loc'[t].index = NextTicket(t) /\ NextTicket(t) \in Tickets
    /\ IF t \in Producers
         THEN put_index' = put_index + 1 /\ UNCHANGED pop_index
         ELSE pop_index' = pop_index + 1 /\ UNCHANGED put_index
    /\ UNCHANGED <<setup, history>>

Puts(p) ==
    /\ p \in Producers /\ Pending(p) /\ (Leaves(p) \/ (Stays(p) /\ ~Pending(p)'))
    /\ putAt' = [putAt EXCEPT ![loc[p].index] = Item(p, count[p])]
    /\ UNCHANGED <<indices, gotAt>>

Gets(c) ==
    /\ c \in Consumers /\ Pending(c) /\ (Leaves(c) \/ (Stays(c) /\ ~Pending(c)'))
    /\ putAt[loc[c].index] # NULL
    /\ gotAt' = [gotAt EXCEPT ![loc[c].index] = putAt[loc[c].index]]
    /\ UNCHANGED <<indices, putAt>>

\* A thread that works on a cell works on the cell of its ticket.
LEMMA OwnCell ==
    ASSUME MemoryInv, QueueInv, NEW t \in Threads, pc[t] \in AtCell
    PROVE  /\ handle[t] \in List /\ id[handle[t]] = loc[t].index \div N
           /\ Cell(t) = cells[handle[t]][loc[t].index % N]
           /\ CellOf(handle[t], loc[t].index)
<1>1. handle[t] \in List /\ id[handle[t]] = loc[t].index \div N
  BY DEF MemoryInv, HandlesOK, HandleOK, QueueInv, WalksOK, WalkOf
<1>2. loc[t].index \in Tickets
  BY Types DEF MemoryInv
<1>3. CellOf(handle[t], loc[t].index)
  BY <1>1, <1>2 DEF QueueInv, CellsOK
<1> QED
  BY <1>1, <1>3 DEF Cell, CellNode, CellPos

\* A consumer that finds something in its cell, or its futex cleared, finds the
\* item that was put with its ticket; and one that finds nothing is too early.
LEMMA Found ==
    ASSUME MemoryInv, QueueInv, NEW c \in Consumers, pc[c] \in {"spin", "deq_exchange"} \cup Waiting
    PROVE  /\ gotAt[loc[c].index] = NULL
           /\ pc[c] \in Waiting /\ futex_addr[c] # 1 =>
                 Cell(c) = putAt[loc[c].index] /\ putAt[loc[c].index] # NULL
           /\ pc[c] \notin Waiting =>
                 Cell(c) = putAt[loc[c].index] /\ futex_addr[c] = 1
<1>1. c \in Threads /\ pc[c] \in AtCell /\ pc[c] \in BeforeGet /\ pc[c] # "start"
  BY Constants DEF AtCell, BeforeGet, Waiting
<1>2. gotAt[loc[c].index] = NULL
  BY <1>1 DEF QueueInv, TicketsOK, ConsumerOK
<1>3. putAt[loc[c].index] # NULL => Cell(c) = putAt[loc[c].index]
  BY <1>1, <1>2, OwnCell DEF CellOf
<1>4. pc[c] \in Waiting /\ futex_addr[c] # 1 => putAt[loc[c].index] # NULL
  BY DEF QueueInv, FutexOK, FutexOf
<1>5. ASSUME pc[c] \notin Waiting, putAt[loc[c].index] = NULL
      PROVE  Cell(c) = NULL
  <2> SUFFICES ASSUME LeftAddress(handle[c], loc[c].index) PROVE FALSE
    BY <1>1, <1>5, OwnCell DEF CellOf
  <2>1. PICK d \in Consumers : pc[d] \in Waiting /\ loc[d].index = loc[c].index
    BY DEF LeftAddress
  <2>2. pc[d] # "start"
    BY <2>1 DEF Waiting
  <2> QED
    BY <1>1, <1>5, <2>1, <2>2 DEF QueueInv, TicketsOK, Distinct
<1>6. pc[c] \notin Waiting => futex_addr[c] = 1
  BY <1>1 DEF QueueInv, FutexOK, FutexOf
<1> QED
  BY <1>2, <1>3, <1>4, <1>5, <1>6

\* A consumer that has the contents v of its cell collects v.
LEMMA OverGets ==
    ASSUME MemoryInv, QueueInv, NEW c \in Consumers, NEW v, Over(c, v), UNCHANGED indices,
           pc[c] \in {"spin", "deq_exchange"} \cup Waiting,
           v = putAt[loc[c].index], v # NULL
    PROVE  Gets(c)
<1>1. c \in Threads /\ c \notin Producers /\ pc[c] \in BeforeGet /\ pc[c] # "start"
  BY Constants DEF BeforeGet, Waiting
<1>2. Leaves(c) \/ (Stays(c) /\ pc'[c] \notin BeforeGet)
  <2>1. CASE Return(c)
    BY <1>1, <2>1 DEF Return, Goto, Leaves, MemoryInv, MpmcTypeOK
  <2>2. CASE Goto(c, "reclaim") /\ UNCHANGED <<loc, count>>
    BY <1>1, <2>2 DEF Goto, Stays, BeforeGet, MemoryInv, MpmcTypeOK
  <2> QED
    BY <2>1, <2>2 DEF Over
<1> QED
  BY <1>1, <1>2 DEF Over, Gets, Pending

\* A consumer that does not have it yet goes on.
LEMMA NotYetUnseen ==
    ASSUME MemoryInv, NEW c \in Consumers, NEW q, NotYet(c, q), UNCHANGED indices,
           pc[c] \in BeforeGet, q \in BeforeGet
    PROVE  Unseen(c)
<1>1. c \in Threads /\ c \notin Producers
  BY Constants
<1>2. pc'[c] = q
  BY <1>1 DEF NotYet, Goto, MemoryInv, MpmcTypeOK
<1> QED
  BY <1>1, <1>2 DEF NotYet, Unseen, Stays, Pending, BeforeGet

\* Every step of a thread is one of these.
LEMMA TicketEffect ==
    ASSUME MemoryInv, QueueInv, NEW t \in Threads, ThreadStep(t)
    PROVE  Unseen(t) \/ Ends(t) \/ Begins(t) \/ Puts(t) \/ Gets(t)
<1>1. MpmcTypeOK /\ loc[t] \in Locals
  BY DEF MemoryInv, MpmcTypeOK
<1>2. ASSUME Return(t), pc[t] # "start", ~Pending(t), UNCHANGED <<indices, history>>
      PROVE  Ends(t)
  BY <1>1, <1>2 DEF Return, Goto, Leaves, Ends, MpmcTypeOK
<1>3. CASE FindCell(t)
  <2>1. /\ pc[t] \in Walking /\ pc'[t] \in Walking \cup {IF t \in Producers THEN "enq_exchange" ELSE "spin"}
        /\ UNCHANGED <<indices, history, count>>
    BY <1>1, <1>3 DEF FindCell, FindReturn, FindNext, FindEnd, FindCas, At, Goto, Walking, MpmcTypeOK
  <2>2. loc'[t].index = loc[t].index
    BY <1>1, <1>3 DEF FindCell, FindReturn, FindNext, FindEnd, FindCas, MpmcTypeOK, Locals
  <2> QED
    BY <2>1, <2>2 DEF Unseen, Stays, Pending, Walking, BeforePut, BeforeGet
<1>4. CASE t \in Producers /\ Enqueue(t)
  <2>1. CASE EnqIndex(t)
    BY <1>1, <1>4, <2>1 DEF EnqIndex, At, Draw, Goto, Begins, NextTicket, NoLocals, MpmcTypeOK
  <2>2. CASE EnqExchange(t)
    <3>1. pc[t] = "enq_exchange" /\ Pending(t)
      BY <1>4, <2>2 DEF EnqExchange, At, Pending, BeforePut
    <3>2. Leaves(t) \/ (Stays(t) /\ ~Pending(t)')
      <4>1. CASE Return(t)
        BY <1>1, <3>1, <4>1 DEF Return, Goto, Leaves, MpmcTypeOK
      <4>2. CASE Goto(t, "enq_store") /\ loc' = [loc EXCEPT ![t].curr = Cell(t)[2]] /\ UNCHANGED count
        <5>1. pc'[t] = "enq_store"
          BY <1>1, <4>2 DEF Goto, MpmcTypeOK
        <5>2. loc'[t].index = loc[t].index
          BY <1>1, <4>2 DEF MpmcTypeOK, Locals
        <5> QED
          BY <1>4, <3>1, <4>2, <5>1, <5>2 DEF Stays, Pending, BeforePut
      <4> QED
        BY <2>2, <4>1, <4>2 DEF EnqExchange
    <3> QED
      BY <1>4, <2>2, <3>1, <3>2 DEF EnqExchange, Puts, indices
  <2>3. CASE EnqStore(t)
    <3>1. pc[t] = "enq_store" /\ pc'[t] = "enq_wake" /\ UNCHANGED <<indices, history, loc, count>>
      BY <1>1, <2>3 DEF EnqStore, At, Goto, MpmcTypeOK
    <3> QED
      BY <1>4, <3>1 DEF Unseen, Stays, Pending, BeforePut
  <2>4. CASE EnqWake(t)
    BY <1>2, <1>4, <2>4 DEF EnqWake, At, Pending, BeforePut
  <2> QED
    BY <1>4, <2>1, <2>2, <2>3, <2>4 DEF Enqueue
<1>5. CASE t \in Consumers /\ Dequeue(t)
  <2>1. t \notin Producers
    BY <1>5, Constants
  <2>2. CASE DeqIndex(t)
    BY <1>1, <2>1, <2>2 DEF DeqIndex, At, Draw, Goto, Begins, NextTicket, NoLocals, MpmcTypeOK
  <2>3. CASE Spin(t) \/ DeqExchange(t)
    <3>1. pc[t] \in {"spin", "deq_exchange"} /\ pc[t] \notin Waiting /\ UNCHANGED indices
      BY <2>3 DEF Spin, DeqExchange, At, Waiting
    <3>2. CASE Over(t, Cell(t)) /\ Cell(t) # NULL
      BY <1>5, <3>1, <3>2, Found, OverGets
    <3>3. CASE NotYet(t, "deq_exchange") \/ NotYet(t, "deq_wait")
      BY <1>5, <3>1, <3>3, NotYetUnseen DEF BeforeGet
    <3> QED
      BY <2>3, <3>2, <3>3 DEF Spin, DeqExchange
  <2>4. CASE DeqWait(t)
    <3>1. pc[t] = "deq_wait" /\ pc'[t] = "deq_waiting" /\ UNCHANGED <<indices, history, loc, count>>
      BY <1>1, <2>4 DEF DeqWait, At, Goto, MpmcTypeOK
    <3> QED
      BY <2>1, <3>1 DEF Unseen, Stays, Pending, BeforeGet
  <2>5. CASE DeqAwake(t)
    <3>1. pc[t] = "deq_waiting" /\ pc[t] \in Waiting /\ UNCHANGED indices
      BY <2>5 DEF DeqAwake, At, Waiting
    <3>2. CASE Cleared(t) /\ Over(t, Cell(t))
      BY <1>5, <3>1, <3>2, Found, OverGets DEF Cleared
    <3>3. CASE NotYet(t, "deq_wait")
      BY <1>5, <3>1, <3>3, NotYetUnseen DEF BeforeGet
    <3> QED
      BY <2>5, <3>2, <3>3 DEF DeqAwake
  <2> QED
    BY <1>5, <2>2, <2>3, <2>4, <2>5 DEF Dequeue
<1>6. CASE t \in Consumers /\ Reclaim(t)
  <2>1. /\ t \notin Producers /\ pc[t] \in {"reclaim", "reclaim_cas", "scan", "scanned", "free"}
        /\ UNCHANGED <<indices, history>>
    BY <1>6, Constants DEF Reclaim, ReclaimLoad, ReclaimCas, Scan, ReclaimNothing, ReclaimPublish,
                           ReclaimFree, At
  <2>2. ~Pending(t) /\ pc[t] # "start"
    BY <2>1 DEF Pending, BeforeGet
  <2>3. CASE Return(t)
    BY <1>2, <2>1, <2>2, <2>3
  <2>4. CASE ~Return(t)
    <3>1. pc'[t] \in {"reclaim_cas", "scan", "scanned", "free"} /\ count' = count
      BY <1>1, <1>6, <2>1, <2>4 DEF Reclaim, ReclaimLoad, ReclaimCas, Scan, ReclaimNothing, ReclaimPublish,
                           ReclaimFree, At, Goto, MpmcTypeOK
    <3>2. loc'[t].index = loc[t].index
      BY <1>1, <1>6, <2>4 DEF Reclaim, ReclaimLoad, ReclaimCas, Scan, ReclaimNothing, ReclaimPublish,
                           ReclaimFree, MpmcTypeOK, Locals
    <3> QED
      BY <2>1, <2>2, <3>1, <3>2 DEF Unseen, Stays, Pending, BeforeGet
  <2> QED
    BY <2>3, <2>4
<1> QED
  BY <1>3, <1>4, <1>5, <1>6 DEF ThreadStep

\* Tickets of a kind are distinct after a step in which t keeps its ticket, or
\* loses it, or draws one that nobody has.
LEMMA DistinctKept ==
    ASSUME NEW T, NEW t \in T, Distinct(T),
           \A u \in T \ {t} : pc'[u] = pc[u] /\ loc'[u] = loc[u],
           \/ pc'[t] = "start"
           \/ pc[t] # "start" /\ loc'[t].index = loc[t].index
           \/ \A u \in T \ {t} : pc[u] # "start" => loc[u].index # loc'[t].index
    PROVE  Distinct(T)'
BY DEF Distinct

\* The tickets after a step.
LEMMA TicketsStep ==
    ASSUME MemoryInv, QueueInv, NEW t \in Threads, ThreadStep(t)
    PROVE  TicketsOK'
<1>1. /\ \A u \in Threads \ {t} : pc'[u] = pc[u] /\ loc'[u] = loc[u] /\ count'[u] = count[u]
      /\ MpmcTypeOK /\ TicketsOK
  BY Frame DEF MemoryInv, QueueInv
<1>2. /\ put_index \in Nat /\ pop_index \in Nat /\ put_index <= MaxTicket + 1 /\ MaxTicket \in Nat
      /\ \A u \in Threads : loc[u].index \in Tickets /\ loc[u].index \in Nat /\ count[u] \in Nat
      /\ \A k \in Tickets : k \in Nat
  BY <1>1, Types, Constants
<1>3. putAt \in [Tickets -> Contents] /\ gotAt \in [Tickets -> Contents]
  BY <1>1 DEF MpmcTypeOK
\* t is a producer or a consumer, and the others of its kind are told apart.
<1>4. /\ \A p \in Producers : p \in Threads /\ p \notin Consumers
      /\ \A c \in Consumers : c \in Threads /\ c \notin Producers
  BY Constants
<1>5. \A p \in Producers : Pending(p) <=> pc[p] \in BeforePut
  BY DEF Pending
<1>6. \A c \in Consumers : Pending(c) <=> pc[c] \in BeforeGet
  BY <1>4 DEF Pending
<1>7. \A p \in Producers : Pending(p)' <=> pc'[p] \in BeforePut
  BY DEF Pending
<1>8. \A c \in Consumers : Pending(c)' <=> pc'[c] \in BeforeGet
  BY <1>4 DEF Pending
<1>9. \A T \in {Producers, Consumers} :
          t \notin T /\ Distinct(T) => Distinct(T)'
  BY <1>1, <1>4 DEF Distinct
<1>10. CASE Unseen(t) \/ Ends(t)
  <2>1. /\ UNCHANGED <<put_index, pop_index, putAt, gotAt>>
        /\ pc'[t] = "start" \/ (pc[t] # "start" /\ loc'[t].index = loc[t].index)
    BY <1>10 DEF Unseen, Ends, Stays, Leaves, indices, history
  <2>2. HistoryOK'
    BY <1>1, <2>1 DEF TicketsOK, HistoryOK
  <2>3. \A p \in Producers : ProducerOK(p)'
    <3> SUFFICES ASSUME NEW p \in Producers PROVE ProducerOK(p)'
      OBVIOUS
    <3>1. ProducerOK(p)
      BY <1>1 DEF TicketsOK
    <3>2. CASE p = t
      <4>1. CASE Unseen(t)
        BY <1>5, <1>7, <2>1, <3>1, <3>2, <4>1 DEF Unseen, Stays, ProducerOK
      <4>2. CASE Ends(t)
        BY <1>2, <1>4, <2>1, <3>1, <3>2, <4>2 DEF Ends, Leaves, ProducerOK
      <4> QED
        BY <1>10, <4>1, <4>2
    <3>3. CASE p # t
      BY <1>1, <1>4, <2>1, <3>1, <3>3 DEF ProducerOK
    <3> QED
      BY <3>2, <3>3
  <2>4. \A c \in Consumers : ConsumerOK(c)'
    <3> SUFFICES ASSUME NEW c \in Consumers PROVE ConsumerOK(c)'
      OBVIOUS
    <3>1. ConsumerOK(c)
      BY <1>1 DEF TicketsOK
    <3>2. CASE c = t
      BY <1>6, <1>8, <1>10, <2>1, <3>1, <3>2 DEF Unseen, Stays, Ends, Leaves, ConsumerOK
    <3>3. CASE c # t
      BY <1>1, <1>4, <2>1, <3>1, <3>3 DEF ConsumerOK
    <3> QED
      BY <3>2, <3>3
  <2>5. Distinct(Producers)' /\ Distinct(Consumers)'
    BY <1>1, <1>4, <1>9, <2>1, DistinctKept DEF TicketsOK
  <2> QED
    BY <2>2, <2>3, <2>4, <2>5 DEF TicketsOK
<1>11. CASE Begins(t)
  <2>1. /\ put_index' \in Nat /\ pop_index' \in Nat
        /\ put_index <= put_index' /\ pop_index <= pop_index'
        /\ UNCHANGED <<putAt, gotAt>> /\ loc'[t].index < NextTicket(t)'
        /\ loc'[t].index = NextTicket(t) /\ pc'[t] = "find" /\ count'[t] = count[t]
        /\ NextTicket(t) \in Tickets /\ pc[t] = "start"
    BY <1>2, <1>11 DEF Begins, NextTicket, history
  <2>2. HistoryOK'
    BY <1>1, <1>2, <2>1 DEF TicketsOK, HistoryOK
  <2>3. \A p \in Producers : ProducerOK(p)'
    <3> SUFFICES ASSUME NEW p \in Producers PROVE ProducerOK(p)'
      OBVIOUS
    <3>1. ProducerOK(p)
      BY <1>1 DEF TicketsOK
    <3>2. CASE p = t
      <4>1. putAt[put_index] = NULL /\ put_index' = put_index + 1 /\ loc'[p].index = put_index
        BY <1>1, <1>2, <1>11, <3>2 DEF Begins, NextTicket, TicketsOK, HistoryOK
      <4> QED
        BY <1>2, <1>4, <2>1, <3>1, <3>2, <4>1 DEF ProducerOK, BeforePut
    <3>3. CASE p # t
      BY <1>1, <1>2, <1>4, <2>1, <3>1, <3>3 DEF ProducerOK
    <3> QED
      BY <3>2, <3>3
  <2>4. \A c \in Consumers : ConsumerOK(c)'
    <3> SUFFICES ASSUME NEW c \in Consumers PROVE ConsumerOK(c)'
      OBVIOUS
    <3>1. ConsumerOK(c)
      BY <1>1 DEF TicketsOK
    <3>2. CASE c = t
      <4>1. gotAt[pop_index] = NULL /\ pop_index' = pop_index + 1 /\ loc'[c].index = pop_index
        BY <1>1, <1>2, <1>4, <1>11, <3>2 DEF Begins, NextTicket, TicketsOK, HistoryOK
      <4> QED
        BY <1>2, <2>1, <3>2, <4>1 DEF ConsumerOK, BeforeGet
    <3>3. CASE c # t
      BY <1>1, <1>2, <1>4, <2>1, <3>1, <3>3 DEF ConsumerOK
    <3> QED
      BY <3>2, <3>3
  <2>5. Distinct(Producers)'
    <3>1. \A p \in Producers : pc[p] # "start" => loc[p].index < put_index
      BY <1>1 DEF TicketsOK, ProducerOK
    <3>2. t \in Producers => \A p \in Producers \ {t} : pc[p] # "start" => loc[p].index # loc'[t].index
      BY <1>2, <1>4, <2>1, <3>1 DEF NextTicket
    <3> QED
      BY <1>1, <1>4, <1>9, <3>2, DistinctKept DEF TicketsOK
  <2>6. Distinct(Consumers)'
    <3>1. \A c \in Consumers : pc[c] # "start" => loc[c].index < pop_index
      BY <1>1 DEF TicketsOK, ConsumerOK
    <3>2. t \in Consumers => \A c \in Consumers \ {t} : pc[c] # "start" => loc[c].index # loc'[t].index
      BY <1>2, <1>4, <2>1, <3>1 DEF NextTicket
    <3> QED
      BY <1>1, <1>4, <1>9, <3>2, DistinctKept DEF TicketsOK
  <2> QED
    BY <2>2, <2>3, <2>4, <2>5, <2>6 DEF TicketsOK
<1>12. CASE Puts(t)
  <2> DEFINE k == loc[t].index
  <2>1. /\ t \in Producers /\ pc[t] # "start" /\ pc[t] \in BeforePut /\ k \in Tickets
        /\ UNCHANGED <<put_index, pop_index, gotAt>>
        /\ pc'[t] = "start" \/ loc'[t].index = loc[t].index
    BY <1>2, <1>4, <1>5, <1>12 DEF Puts, Stays, Leaves, indices
  <2>2. ProducerOK(t) /\ putAt[k] = NULL /\ k < put_index /\ count[t] < put_index /\ gotAt[k] = NULL
    BY <1>1, <2>1 DEF TicketsOK, ProducerOK, HistoryOK
  <2>3. Item(t, count[t]) \in Items /\ Item(t, count[t]) # NULL
    <3>1. count[t] \in Tickets
      BY <1>2, <1>4, <2>1, <2>2 DEF Tickets
    <3> QED
      BY <2>1, <3>1, Different
  <2>4. /\ putAt'[k] = Item(t, count[t]) /\ \A j \in Tickets \ {k} : putAt'[j] = putAt[j]
    BY <1>3, <1>12, <2>1 DEF Puts
  <2>5. HistoryOK'
    BY <1>1, <1>2, <2>1, <2>2, <2>3, <2>4 DEF TicketsOK, HistoryOK
  <2>6. \A p \in Producers : ProducerOK(p)'
    <3> SUFFICES ASSUME NEW p \in Producers PROVE ProducerOK(p)'
      OBVIOUS
    <3>1. ProducerOK(p)
      BY <1>1 DEF TicketsOK
    <3>2. CASE p = t
      <4>1. CASE Leaves(t)
        BY <1>2, <1>4, <2>1, <2>2, <3>2, <4>1 DEF Leaves, ProducerOK
      <4>2. CASE Stays(t) /\ ~Pending(t)'
        BY <1>7, <2>1, <2>2, <2>3, <2>4, <3>2, <4>2 DEF Stays, ProducerOK
      <4> QED
        BY <1>12, <4>1, <4>2 DEF Puts
    <3>3. CASE p # t
      <4>1. pc[p] # "start" => loc[p].index # k
        BY <1>1, <2>1, <3>3 DEF TicketsOK, Distinct
      <4> QED
        BY <1>1, <1>2, <1>4, <2>1, <2>4, <3>1, <3>3, <4>1 DEF ProducerOK
    <3> QED
      BY <3>2, <3>3
  <2>7. \A c \in Consumers : ConsumerOK(c)'
    BY <1>1, <1>4, <2>1 DEF TicketsOK, ConsumerOK
  <2>8. Distinct(Producers)' /\ Distinct(Consumers)'
    BY <1>1, <1>4, <1>9, <2>1, DistinctKept DEF TicketsOK
  <2> QED
    BY <2>5, <2>6, <2>7, <2>8 DEF TicketsOK
<1>13. CASE Gets(t)
  <2> DEFINE k == loc[t].index
  <2>1. /\ t \in Consumers /\ pc[t] # "start" /\ pc[t] \in BeforeGet /\ k \in Tickets
        /\ UNCHANGED <<put_index, pop_index, putAt>> /\ putAt[k] # NULL
        /\ pc'[t] = "start" \/ loc'[t].index = loc[t].index
    BY <1>2, <1>4, <1>6, <1>13 DEF Gets, Stays, Leaves, indices
  <2>2. k < pop_index
    BY <1>1, <2>1 DEF TicketsOK, ConsumerOK
  <2>3. gotAt'[k] = putAt[k] /\ \A j \in Tickets \ {k} : gotAt'[j] = gotAt[j]
    BY <1>3, <1>13, <2>1 DEF Gets
  <2>4. HistoryOK'
    BY <1>1, <1>2, <2>1, <2>2, <2>3 DEF TicketsOK, HistoryOK
  <2>5. \A c \in Consumers : ConsumerOK(c)'
    <3> SUFFICES ASSUME NEW c \in Consumers PROVE ConsumerOK(c)'
      OBVIOUS
    <3>1. CASE c = t
      <4>1. CASE Leaves(t)
        BY <3>1, <4>1 DEF Leaves, ConsumerOK
      <4>2. CASE Stays(t) /\ ~Pending(t)'
        BY <1>8, <2>1, <2>2, <2>3, <3>1, <4>2 DEF Stays, ConsumerOK
      <4> QED
        BY <1>13, <4>1, <4>2 DEF Gets
    <3>2. CASE c # t
      <4>1. pc[c] # "start" => loc[c].index # k
        BY <1>1, <2>1, <3>2 DEF TicketsOK, Distinct
      <4> QED
        BY <1>1, <1>2, <1>4, <2>1, <2>3, <3>2, <4>1 DEF TicketsOK, ConsumerOK
    <3> QED
      BY <3>1, <3>2
  <2>6. \A p \in Producers : ProducerOK(p)'
    BY <1>1, <1>4, <2>1 DEF TicketsOK, ProducerOK
  <2>7. Distinct(Producers)' /\ Distinct(Consumers)'
    BY <1>1, <1>4, <1>9, <2>1, DistinctKept DEF TicketsOK
  <2> QED
    BY <2>4, <2>5, <2>6, <2>7 DEF TicketsOK
<1> QED
  BY <1>10, <1>11, <1>12, <1>13, TicketEffect

-----------------------------------------------------------------------------
(* The walks *)

\* Only mpmc_find_cell moves handles, and only after it a thread works on its
\* cell.
LEMMA AfterFind ==
    ASSUME MemoryInv, NEW t \in Threads, ThreadStep(t), ~FindCell(t)
    PROVE  /\ handle' = handle /\ pc[t] \notin Walking
           /\ pc'[t] \in AtCell => pc[t] \in AtCell
           /\ pc'[t] \in Walking => pc[t] = "start" /\ loc'[t].j = id[handle[t]] /\ pc'[t] = "find"
<1>1. MpmcTypeOK
  BY DEF MemoryInv
<1> USE DEF memory, list, At, Goto, AtCell, Walking, Return, Draw
<1>2. CASE t \in Producers /\ Enqueue(t)
  <2>1. CASE EnqIndex(t)
    BY <1>1, <2>1 DEF EnqIndex, NoLocals, MpmcTypeOK
  <2>2. CASE EnqExchange(t) \/ EnqStore(t) \/ EnqWake(t)
    BY <1>1, <2>2 DEF EnqExchange, EnqStore, EnqWake, MpmcTypeOK
  <2> QED
    BY <1>2, <2>1, <2>2 DEF Enqueue
<1>3. CASE t \in Consumers /\ Dequeue(t)
  <2>1. CASE DeqIndex(t)
    BY <1>1, <2>1 DEF DeqIndex, NoLocals, MpmcTypeOK
  <2>2. CASE Spin(t) \/ DeqExchange(t) \/ DeqWait(t) \/ DeqAwake(t)
    BY <1>1, <2>2 DEF Spin, DeqExchange, DeqWait, DeqAwake, Over, NotYet, MpmcTypeOK
  <2> QED
    BY <1>3, <2>1, <2>2 DEF Dequeue
<1>4. CASE t \in Consumers /\ Reclaim(t)
  BY <1>1, <1>4 DEF Reclaim, ReclaimLoad, ReclaimCas, Scan, ReclaimNothing, ReclaimPublish, ReclaimFree,
                    MpmcTypeOK
<1> QED
  BY <1>2, <1>3, <1>4 DEF ThreadStep

\* What a step of mpmc_find_cell does to the walk: it goes one node further, or
\* the handle moves to the node it has come to.
LEMMA WalkEffect ==
    ASSUME MemoryInv, NEW t \in Threads, FindCell(t)
    PROVE  /\ pc[t] \in Walking /\ loc'[t].index = loc[t].index
           /\ \/ /\ pc'[t] \in AtCell /\ pc'[t] \notin Walking /\ Arrived(t) /\ pc[t] = "find"
                 /\ handle'[t] = loc[t].curr
              \/ /\ pc'[t] = "find_cas" /\ ~Arrived(t) /\ loc'[t].j = loc[t].j /\ handle' = handle
              \/ /\ pc'[t] = "find" /\ (pc[t] = "find_cas" \/ ~Arrived(t))
                 /\ loc'[t].j = loc[t].j + 1 /\ handle' = handle
<1>1. MpmcTypeOK /\ loc[t] \in Locals
  BY DEF MemoryInv, MpmcTypeOK
<1> USE DEF memory, list, At, Goto, AtCell, Walking
<1>2. CASE FindReturn(t)
  BY <1>1, <1>2 DEF FindReturn, MpmcTypeOK
<1>3. CASE FindNext(t)
  BY <1>1, <1>3 DEF FindNext, MpmcTypeOK, Locals
<1>4. CASE FindEnd(t)
  BY <1>1, <1>4 DEF FindEnd, MpmcTypeOK
<1>5. CASE FindCas(t)
  BY <1>1, <1>5 DEF FindCas, MpmcTypeOK, Locals
<1> QED
  BY <1>2, <1>3, <1>4, <1>5 DEF FindCell

\* The walks after a step.
LEMMA WalksStep ==
    ASSUME MemoryInv, QueueInv, NEW t \in Threads, ThreadStep(t)
    PROVE  WalksOK'
<1>1. /\ N' = N /\ MpmcTypeOK /\ MpmcTypeOK'
      /\ \A u \in Threads \ {t} :
            pc'[u] = pc[u] /\ loc'[u] = loc[u] /\ handle'[u] = handle[u]
      /\ \A n \in List : id'[n] = id[n]
  BY Frame, TypeStep DEF MemoryInv, Next, Steps
<1>2. /\ N \in Nat \ {0} /\ put_index \in Nat /\ pop_index \in Nat
      /\ put_index' \in Nat /\ pop_index' \in Nat
      /\ put_index <= put_index' /\ pop_index <= pop_index'
  <2>1. put_index \in Nat /\ pop_index \in Nat /\ N \in Nat \ {0}
    BY <1>1, Types
  <2> QED
    BY <2>1, TicketEffect DEF Unseen, Ends, Begins, Puts, Gets, indices
<1>3. \A u \in Threads :
          /\ WalkOf(u) /\ handle[u] \in List /\ id'[handle[u]] = id[handle[u]] /\ id[handle[u]] \in Nat
          /\ loc[u].index \in Nat /\ loc[u].index \div N \in Nat
          /\ NextTicket(u) \in Nat /\ NextTicket(u)' \in Nat /\ NextTicket(u) <= NextTicket(u)'
          /\ NextTicket(u) \div N \in Nat
  <2>1. \A u \in Threads : NextTicket(u) \in Nat /\ NextTicket(u)' \in Nat /\ NextTicket(u) <= NextTicket(u)'
    BY <1>2 DEF NextTicket
  <2>2. \A u \in Threads : handle[u] \in List /\ id'[handle[u]] = id[handle[u]]
    BY <1>1 DEF MemoryInv, HandlesOK, HandleOK
  <2>3. \A u \in Threads : loc[u].index \in Nat /\ loc[u].index \div N \in Nat /\ id[handle[u]] \in Nat
    BY <1>1, Types
  <2>4. \A u \in Threads : NextTicket(u) \div N \in Nat
    BY <1>2, <2>1
  <2> QED
    BY <2>1, <2>2, <2>3, <2>4 DEF QueueInv, WalksOK
<1>4. \A u \in Threads : NextTicket(u) \div N <= NextTicket(u)' \div N /\ NextTicket(u)' \div N \in Nat
  <2> SUFFICES ASSUME NEW u \in Threads
               PROVE  NextTicket(u) \div N <= NextTicket(u)' \div N /\ NextTicket(u)' \div N \in Nat
    OBVIOUS
  <2> DEFINE a == NextTicket(u)
             b == NextTicket(u)'
  <2>1. a \in Nat /\ b \in Nat /\ a <= b
    BY <1>3
  <2> HIDE DEF a, b
  <2>2. a \div N <= b \div N /\ b \div N \in Nat
    BY <1>2, <2>1, DivMonotonic
  <2> QED
    BY <2>2 DEF a, b
<1>5. ASSUME NEW u \in Threads \ {t} PROVE WalkOf(u)'
  BY <1>1, <1>3, <1>4 DEF WalkOf
<1>6. CASE FindCell(t)
  <2>1. /\ loc[t].curr \in List /\ loc[t].j = id[loc[t].curr] /\ loc[t].j \in Nat
        /\ loc[t].j <= loc[t].index \div N
        /\ id'[loc[t].curr] = id[loc[t].curr]
        /\ id[handle[t]] <= loc[t].index \div N /\ pc[t] # "start"
    BY <1>1, <1>3, <1>6, WalkEffect, Types DEF WalkOf, Walking, MemoryInv, HandlesOK, HandleOK
  <2>2. Arrived(t) <=> loc[t].j >= loc[t].index \div N
    BY DEF Arrived
  <2>3. pc[t] = "find_cas" => loc[t].j < loc[t].index \div N
    BY <1>3 DEF WalkOf
  <2>4. WalkOf(t)'
    <3>1. CASE /\ pc'[t] \in AtCell /\ pc'[t] \notin Walking /\ Arrived(t) /\ pc[t] = "find"
               /\ handle'[t] = loc[t].curr
      BY <1>1, <1>3, <1>6, <2>1, <2>2, <3>1, WalkEffect DEF WalkOf, Walking, AtCell
    <3>2. CASE pc'[t] = "find_cas" /\ ~Arrived(t) /\ loc'[t].j = loc[t].j /\ handle' = handle
      BY <1>1, <1>3, <1>6, <2>1, <2>2, <3>2, WalkEffect DEF WalkOf, AtCell
    <3>3. CASE /\ pc'[t] = "find" /\ (pc[t] = "find_cas" \/ ~Arrived(t))
               /\ loc'[t].j = loc[t].j + 1 /\ handle' = handle
      <4>1. loc[t].j + 1 <= loc[t].index \div N
        BY <1>3, <2>1, <2>2, <2>3, <3>3
      <4> QED
        BY <1>1, <1>3, <1>6, <2>1, <3>3, <4>1, WalkEffect DEF WalkOf, AtCell
    <3> QED
      BY <1>6, <3>1, <3>2, <3>3, WalkEffect
  <2> QED
    BY <1>5, <2>4 DEF WalksOK
<1>7. CASE ~FindCell(t)
  <2>1. /\ handle' = handle /\ pc[t] \notin Walking
        /\ pc'[t] \in AtCell => pc[t] \in AtCell
        /\ pc'[t] \in Walking => pc[t] = "start" /\ loc'[t].j = id[handle[t]] /\ pc'[t] = "find"
    BY <1>7, AfterFind
  <2>2. CASE pc[t] # "start" /\ pc'[t] # "start" /\ loc'[t].index = loc[t].index
    <3>1. pc'[t] \notin Walking
      BY <2>1, <2>2
    <3> QED
      BY <1>1, <1>3, <1>5, <2>1, <2>2, <3>1 DEF WalkOf, WalksOK, Walking
  <2>3. CASE pc[t] # "start" /\ pc'[t] = "start"
    <3>1. loc[t].index <= NextTicket(t)
      <4>1. CASE t \in Producers
        <5>1. ProducerOK(t)
          BY <4>1 DEF QueueInv, TicketsOK
        <5>2. loc[t].index < put_index
          BY <2>3, <5>1 DEF ProducerOK
        <5> QED
          BY <1>2, <1>3, <4>1, <5>2 DEF NextTicket
      <4>2. CASE t \in Consumers
        <5>1. ConsumerOK(t) /\ t \notin Producers
          BY <4>2, Constants DEF QueueInv, TicketsOK
        <5>2. loc[t].index < pop_index
          BY <2>3, <5>1 DEF ConsumerOK
        <5> QED
          BY <1>2, <1>3, <5>1, <5>2 DEF NextTicket
      <4> QED
        BY <4>1, <4>2, Constants
    <3>2. loc[t].index \div N <= NextTicket(t) \div N
      <4> DEFINE a == loc[t].index
                 b == NextTicket(t)
      <4>1. N \in Nat \ {0} /\ a \in Nat /\ b \in Nat /\ a <= b
        BY <1>2, <1>3, <3>1
      <4> HIDE DEF a, b
      <4>2. a \div N <= b \div N
        BY ONLY <4>1, DivMonotonic
      <4> QED
        BY <4>2 DEF a, b
    <3> QED
      BY <1>1, <1>3, <1>4, <1>5, <2>1, <2>3, <3>2 DEF WalkOf, WalksOK, Walking, AtCell
  <2>4. CASE pc[t] = "start" /\ pc'[t] = "find" /\ loc'[t].index = NextTicket(t)
    BY <1>1, <1>3, <1>5, <2>1, <2>4 DEF WalkOf, WalksOK, Walking, AtCell
  <2> QED
    BY <2>2, <2>3, <2>4, TicketEffect DEF Unseen, Ends, Begins, Puts, Gets, Stays, Leaves
<1> QED
  BY <1>6, <1>7

-----------------------------------------------------------------------------
(* The cells *)

Exchanging(t) == pc[t] \in {"enq_exchange", "deq_exchange"}

\* An exchange changes one cell; apart from that only the cells of a node that
\* is freed change, and they become empty.
LEMMA CellsEffect ==
    ASSUME MemoryInv, QueueInv, NEW t \in Threads, ThreadStep(t)
    PROVE  \/ /\ Exchanging(t) /\ UNCHANGED <<next, id, init_node, allocated, spare, handle>>
              /\ handle[t] \in List
              /\ \A n \in Memory : n # handle[t] => cells'[n] = cells[n]
              /\ \A j \in 0 .. N - 1 : j # loc[t].index % N => cells'[handle[t]][j] = cells[handle[t]][j]
              /\ pc[t] = "enq_exchange" => cells'[handle[t]][loc[t].index % N] = Item(t, count[t])
              /\ pc[t] = "deq_exchange" => cells'[handle[t]][loc[t].index % N] = Addr(t)
           \/ /\ ~Exchanging(t) /\ UNCHANGED <<cells, handle>> /\ FindCell(t)
           \/ ~Exchanging(t) /\ UNCHANGED <<cells, next, id, allocated, spare, handle>>
           \/ ~Exchanging(t) /\ t \in Consumers /\ ReclaimFree(t) /\ UNCHANGED handle
           \/ ~Exchanging(t) /\ FindReturn(t) /\ UNCHANGED <<cells, next, id, allocated, spare>>
<1>1. /\ cells \in [Memory -> [0 .. N - 1 -> Contents]]
      /\ loc[t].index % N \in 0 .. N - 1 /\ handle[t] \in Memory /\ handle[t] \in List
  BY Types DEF MemoryInv, MpmcTypeOK, HandlesOK, HandleOK
<1> USE DEF memory, list, At
<1>2. ASSUME NEW v, PutCell(t, v)
      PROVE  /\ \A n \in Memory : n # handle[t] => cells'[n] = cells[n]
             /\ \A j \in 0 .. N - 1 : j # loc[t].index % N => cells'[handle[t]][j] = cells[handle[t]][j]
             /\ cells'[handle[t]][loc[t].index % N] = v
  BY <1>1, <1>2 DEF PutCell, CellNode, CellPos
<1>3. CASE FindCell(t)
  <2>1. ~Exchanging(t) /\ UNCHANGED cells
    BY <1>3 DEF FindCell, FindReturn, FindNext, FindEnd, FindCas, Exchanging
  <2>2. FindReturn(t) => UNCHANGED <<next, id, allocated, spare>>
    BY DEF FindReturn
  <2>3. ~FindReturn(t) => UNCHANGED handle
    BY <1>3 DEF FindCell, FindNext, FindEnd, FindCas
  <2> QED
    BY <1>3, <2>1, <2>2, <2>3
<1>4. CASE t \in Producers /\ Enqueue(t)
  <2>1. CASE EnqExchange(t)
    BY <1>1, <1>2, <2>1 DEF EnqExchange, Exchanging
  <2>2. CASE EnqIndex(t) \/ EnqStore(t) \/ EnqWake(t)
    BY <2>2 DEF EnqIndex, EnqStore, EnqWake, Exchanging
  <2> QED
    BY <1>4, <2>1, <2>2 DEF Enqueue
<1>5. CASE t \in Consumers /\ Dequeue(t)
  <2>1. CASE DeqExchange(t)
    BY <1>1, <1>2, <2>1 DEF DeqExchange, Exchanging
  <2>2. CASE DeqIndex(t) \/ Spin(t) \/ DeqWait(t) \/ DeqAwake(t)
    BY <2>2 DEF DeqIndex, Spin, DeqWait, DeqAwake, Exchanging
  <2> QED
    BY <1>5, <2>1, <2>2 DEF Dequeue
<1>6. CASE t \in Consumers /\ Reclaim(t)
  BY <1>6 DEF Reclaim, ReclaimLoad, ReclaimCas, Scan, ReclaimNothing, ReclaimPublish, ReclaimFree, Exchanging
<1> QED
  BY <1>3, <1>4, <1>5, <1>6 DEF ThreadStep

\* What is not appended stays empty.
LEMMA BlankStep ==
    ASSUME MemoryInv, QueueInv, NEW t \in Threads, ThreadStep(t)
    PROVE  BlankOK'
<1>1. Blank' = Blank /\ MpmcTypeOK /\ BlankOK
  BY Frame DEF Blank, MemoryInv, QueueInv
<1>2. CASE UNCHANGED <<cells, allocated, spare>>
  BY <1>1, <1>2 DEF BlankOK
<1>3. CASE FindCas(t)
  <2> DEFINE tmp == IF spare[t] # NULL THEN spare[t] ELSE CHOOSE n \in Memory : n \notin allocated
             app == next[loc[t].curr] = NULL
  <2>1. /\ \/ spare[t] # NULL /\ tmp = spare[t]
           \/ spare[t] = NULL /\ tmp \in Memory \ allocated
        /\ allocated' = allocated \cup {tmp}
        /\ spare' = [spare EXCEPT ![t] = SpareLeft(tmp, app)]
        /\ cells' = cells
    BY <1>3 DEF FindCas
  <2> HIDE DEF tmp, app
  <2>2. cells[tmp] = Blank
    BY <1>1, <2>1 DEF BlankOK
  <2> QED
    BY <1>1, <2>1, <2>2 DEF BlankOK, SpareLeft, MpmcTypeOK
<1>4. CASE FindReturn(t) \/ FindNext(t) \/ FindEnd(t)
  <2>1. UNCHANGED <<cells, allocated, spare>>
    BY <1>4 DEF FindReturn, FindNext, FindEnd, memory, list
  <2> QED
    BY <1>2, <2>1
<1>5. CASE t \in Consumers /\ ReclaimFree(t)
  <2>1. loc[t].curr \in Memory
    BY <1>5, Freed DEF ReclaimFree, At
  <2> QED
    BY <1>1, <1>5, <2>1 DEF BlankOK, ReclaimFree, MpmcTypeOK
<1>6. CASE Exchanging(t) /\ ~FindCell(t)
  <2>1. /\ UNCHANGED <<allocated, spare>> /\ handle[t] \in List
        /\ \A n \in Memory : n # handle[t] => cells'[n] = cells[n]
    BY <1>6, CellsEffect
  <2>2. handle[t] \in allocated /\ \A u \in Threads : spare[u] # handle[t]
    BY <2>1 DEF List, Live
  <2> QED
    BY <1>1, <2>1, <2>2 DEF BlankOK, MpmcTypeOK
<1> QED
  BY <1>2, <1>3, <1>4, <1>5, <1>6, CellsEffect DEF FindCell

\* The list after a step: what was in it, and what has been appended to its
\* end, with empty cells.
LEMMA ListEffect ==
    ASSUME MemoryInv, QueueInv, NEW t \in Threads, ThreadStep(t), NEW n \in List'
    PROVE  \/ n \in List /\ id'[n] = id[n] /\ (next'[n] = next[n] \/ next'[n] # NULL)
           \/ /\ UNCHANGED cells /\ cells[n] = Blank /\ Unseen(t)
              /\ \E m \in List : next[m] = NULL /\ id'[n] = id[m] + 1
<1>1. MpmcTypeOK /\ \A m \in List : id'[m] = id[m]
  BY Frame DEF MemoryInv
<1>2. n \in Live' /\ id'[n] >= id'[init_node']
  BY DEF List
<1>3. CASE FindCas(t)
  <2> DEFINE curr == loc[t].curr
             tmp == IF spare[t] # NULL THEN spare[t] ELSE CHOOSE m \in Memory : m \notin allocated
             app == next[curr] = NULL
  <2>1. /\ \/ spare[t] # NULL /\ tmp = spare[t]
           \/ spare[t] = NULL /\ tmp \in Memory \ allocated
        /\ allocated' = allocated \cup {tmp}
        /\ spare' = [spare EXCEPT ![t] = SpareLeft(tmp, app)]
        /\ IF app
             THEN /\ next' = [next EXCEPT ![curr] = tmp]
                  /\ id' = [id EXCEPT ![tmp] = loc[t].j + 1]
             ELSE UNCHANGED <<next, id>>
        /\ UNCHANGED <<cells, init_node>>
    BY <1>3 DEF FindCas
  <2>2. curr \in List /\ loc[t].j = id[curr] /\ pc[t] = "find_cas"
    BY <1>3 DEF FindCas, At, Walking, MemoryInv, HandlesOK, HandleOK
  <2> HIDE DEF tmp
  <2>3. tmp \in Memory /\ tmp \notin Live /\ \A m \in Live : m # tmp
    BY <2>1, Offered
  <2>4. CASE n = tmp
    <3>1. app
      BY <1>1, <1>2, <2>1, <2>4 DEF Live, SpareLeft, MpmcTypeOK
    <3>2. id'[tmp] = id[curr] + 1
      BY <1>1, <2>1, <2>2, <2>3, <3>1 DEF MpmcTypeOK
    <3>3. cells[tmp] = Blank
      BY <2>1 DEF QueueInv, BlankOK
    <3>4. Unseen(t)
      BY <1>3, <2>2, TicketEffect, WalkEffect DEF FindCell, Ends, Begins, Puts, Gets, Leaves, Pending,
         BeforePut, BeforeGet, AtCell, Walking, FindCas, At, Goto, MpmcTypeOK
    <3> QED
      BY <2>1, <2>2, <2>4, <3>1, <3>2, <3>3, <3>4
  <2>5. CASE n # tmp
    <3>1. n \in allocated /\ n \in Memory /\ n # NULL
      BY <1>1, <1>2, <2>1, <2>5, Constants DEF Live, MpmcTypeOK
    <3>2. \A u \in Threads : spare[u] # n
      BY <1>1, <1>2, <2>1, <2>5, <3>1 DEF Live, MpmcTypeOK
    <3>3. n \in Live
      BY <3>1, <3>2 DEF Live
    <3>4. id'[n] = id[n]
      BY <1>1, <2>1, <2>5, <3>1 DEF MpmcTypeOK
    <3>5. n \in List
      BY <1>1, <1>2, <2>1, <3>3, <3>4, ListFacts
    <3>6. next'[n] = next[n] \/ next'[n] = tmp
      BY <1>1, <2>1, <2>2, <3>1 DEF MpmcTypeOK
    <3> QED
      BY <2>3, <3>4, <3>5, <3>6, Constants
  <2> QED
    BY <2>4, <2>5
<1>4. CASE t \in Consumers /\ ReclaimFree(t)
  <2>1. /\ loc[t].curr \in Memory /\ \A m \in List : m # loc[t].curr /\ m \in Memory
    BY <1>4, Freed DEF ReclaimFree, At
  <2>2. n # loc[t].curr /\ n \in Live
    BY <1>2, <1>4 DEF ReclaimFree, Live
  <2>3. n \in Memory
    BY <2>2, ListFacts
  <2>4. id'[n] = id[n] /\ next'[n] = next[n] /\ init_node' = init_node
    BY <1>1, <1>4, <2>2, <2>3 DEF ReclaimFree, MpmcTypeOK
  <2>5. n \in List
    BY <1>1, <1>2, <2>2, <2>4, ListFacts
  <2> QED
    BY <2>4, <2>5
<1>5. CASE UNCHANGED <<next, id, allocated, spare>>
  <2>1. n \in Live
    BY <1>2, <1>5 DEF Live
  <2>2. id[init_node] <= id[init_node']
    <3>1. CASE t \in Consumers /\ ReclaimPublish(t)
      <4>1. t \in Threads /\ loc[t].init = id[init_node] /\ init_node' = loc[t].min
            /\ id[loc[t].min] > loc[t].init /\ loc[t].min \in List
        BY <3>1, Constants DEF ReclaimPublish, At, MemoryInv, ReclaimOK, Reclaiming, ScanOK, ScanOf
      <4> QED
        BY <4>1, ListFacts
    <3>2. init_node' = init_node \/ (t \in Consumers /\ ReclaimPublish(t))
      BY DEF ThreadStep, FindCell, FindReturn, FindNext, FindEnd, FindCas, Enqueue, EnqIndex,
             EnqExchange, EnqStore, EnqWake, Dequeue, DeqIndex, Spin, DeqExchange, DeqWait, DeqAwake,
             Reclaim, ReclaimLoad, ReclaimCas, Scan, ReclaimNothing, ReclaimFree, memory
    <3> QED
      BY <3>1, <3>2, ListFacts
  <2>3. id[n] >= id[init_node]
    <3>1. init_node' \in Memory /\ id[init_node'] \in Nat
      BY <1>1, TypeStep DEF MpmcTypeOK, Next, Steps
    <3> QED
      BY <1>2, <1>5, <2>1, <2>2, <3>1, ListFacts
  <2> QED
    BY <1>5, <2>1, <2>3, ListFacts
<1>6. CASE FindReturn(t) \/ FindNext(t) \/ FindEnd(t)
  <2>1. UNCHANGED <<next, id, allocated, spare>>
    BY <1>6 DEF FindReturn, FindNext, FindEnd, memory, list
  <2> QED
    BY <1>5, <2>1
<1> QED
  BY <1>3, <1>4, <1>5, <1>6, CellsEffect DEF FindCell

\* A consumer's futex is only touched by the consumer, and by the producer that
\* clears it; and a consumer whose futex is set goes on waiting.
LEMMA FutexEffect ==
    ASSUME MemoryInv, QueueInv, NEW t \in Threads, ThreadStep(t), NEW c \in Consumers
    PROVE  /\ c # t => \/ futex_addr'[c] = futex_addr[c]
                       \/ WillClear(t, c) /\ EnqStore(t) /\ t \in Producers
           /\ c = t /\ pc[c] \in Waiting /\ futex_addr[c] = 1 =>
                 /\ pc'[c] \in Waiting /\ loc' = loc /\ futex_addr' = futex_addr
                 /\ UNCHANGED <<handle, cells, history>> /\ (DeqWait(c) \/ DeqAwake(c))
<1>1. MpmcTypeOK
  BY DEF MemoryInv
<1> USE DEF waits, At, Goto
<1>2. CASE FindCell(t)
  BY <1>2 DEF FindCell, FindReturn, FindNext, FindEnd, FindCas, Waiting
<1>3. CASE t \in Producers /\ Enqueue(t)
  <2>1. CASE EnqStore(t)
    BY <1>1, <1>3, <2>1, Constants DEF EnqStore, WillClear, MpmcTypeOK
  <2>2. CASE EnqIndex(t) \/ EnqExchange(t) \/ EnqWake(t)
    BY <1>3, <2>2, Constants DEF EnqIndex, EnqExchange, EnqWake
  <2> QED
    BY <1>3, <2>1, <2>2 DEF Enqueue
<1>4. CASE t \in Consumers /\ Dequeue(t)
  <2>1. c # t => futex_addr'[c] = futex_addr[c]
    BY <1>1, <1>4 DEF Dequeue, DeqIndex, Spin, DeqExchange, DeqWait, DeqAwake, Over, NotYet, MpmcTypeOK
  <2>2. ASSUME c = t, pc[c] \in Waiting, futex_addr[c] = 1
        PROVE  /\ pc'[c] \in Waiting /\ loc' = loc /\ futex_addr' = futex_addr
               /\ UNCHANGED <<handle, cells, history>> /\ (DeqWait(c) \/ DeqAwake(c))
    <3>1. DeqWait(c) \/ DeqAwake(c)
      BY <1>4, <2>2 DEF Dequeue, DeqIndex, Spin, DeqExchange, Waiting
    <3>2. CASE DeqWait(c)
      BY <1>1, <2>2, <3>2 DEF DeqWait, Waiting, memory, MpmcTypeOK
    <3>3. CASE DeqAwake(c)
      BY <1>1, <2>2, <3>3 DEF DeqAwake, Cleared, NotYet, Waiting, memory, MpmcTypeOK
    <3> QED
      BY <3>1, <3>2, <3>3
  <2> QED
    BY <2>1, <2>2
<1>5. CASE t \in Consumers /\ Reclaim(t)
  BY <1>5 DEF Reclaim, ReclaimLoad, ReclaimCas, Scan, ReclaimNothing, ReclaimPublish, ReclaimFree, Waiting
<1> QED
  BY <1>2, <1>3, <1>4, <1>5 DEF ThreadStep

\* An address stays in its cell until the item is exchanged for it.
LEMMA LeftAddressKept ==
    ASSUME MemoryInv, QueueInv, NEW t \in Threads, ThreadStep(t),
           NEW n \in List, NEW k \in Tickets,
           putAt[k] = NULL, cells'[n][k % N] = cells[n][k % N], LeftAddress(n, k)
    PROVE  LeftAddress(n, k)'
<1>1. PICK c \in Consumers : /\ cells[n][k % N] = Addr(c) /\ pc[c] \in Waiting
                             /\ loc[c].index = k /\ futex_addr[c] = 1
  BY DEF LeftAddress
<1>2. c \in Threads /\ N' = N /\ (c # t => pc'[c] = pc[c] /\ loc'[c] = loc[c])
  BY Frame, Constants
<1>3. CASE c = t
  BY <1>1, <1>2, <1>3, FutexEffect DEF LeftAddress
<1>4. CASE c # t
  <2>1. ~(WillClear(t, c) /\ t \in Producers)
    <3> SUFFICES ASSUME WillClear(t, c), t \in Producers PROVE FALSE
      OBVIOUS
    <3>1. loc[t].index = k
      BY <1>1 DEF WillClear, QueueInv, FutexOK, ServesOf
    <3>2. putAt[k] # NULL
      BY <3>1 DEF WillClear, QueueInv, TicketsOK, ProducerOK, BeforePut
    <3> QED
      BY <3>2
  <2>2. futex_addr'[c] = 1
    BY <1>1, <1>4, <2>1, FutexEffect
  <2> QED
    BY <1>1, <1>2, <1>4, <2>2 DEF LeftAddress
<1> QED
  BY <1>3, <1>4

\* What the history of a ticket goes through in a step.
LEMMA HistoryEffect ==
    ASSUME MemoryInv, QueueInv, NEW t \in Threads, ThreadStep(t), NEW k \in Tickets
    PROVE  /\ putAt'[k] = putAt[k] \/ (Puts(t) /\ k = loc[t].index /\ putAt[k] = NULL /\ putAt'[k] = Item(t, count[t]))
           /\ gotAt'[k] = gotAt[k] \/ (Gets(t) /\ k = loc[t].index /\ gotAt'[k] # NULL)
           /\ gotAt[k] # NULL => gotAt'[k] # NULL
<1>1. putAt \in [Tickets -> Contents] /\ gotAt \in [Tickets -> Contents] /\ loc[t].index \in Tickets
  BY Types DEF MemoryInv, MpmcTypeOK
<1>2. CASE Unseen(t) \/ Ends(t) \/ Begins(t)
  BY <1>2 DEF Unseen, Ends, Begins, history
<1>3. CASE Puts(t)
  <2>1. putAt[loc[t].index] = NULL
    BY <1>3 DEF Puts, Stays, Leaves, Pending, QueueInv, TicketsOK, ProducerOK
  <2> QED
    BY <1>1, <1>3, <2>1 DEF Puts
<1>4. CASE Gets(t)
  BY <1>1, <1>4 DEF Gets
<1> QED
  BY <1>2, <1>3, <1>4, TicketEffect

\* The exchanges, and what they are for: with an exchange of a producer its
\* item is put, with one of a consumer it is got or the address is left.
LEMMA ExchangeEffect ==
    ASSUME MemoryInv, QueueInv, NEW t \in Threads, ThreadStep(t), Exchanging(t)
    PROVE  /\ pc[t] = "enq_exchange" => t \in Producers /\ Puts(t) /\ EnqExchange(t)
           /\ pc[t] = "deq_exchange" =>
                 /\ t \in Consumers /\ DeqExchange(t)
                 /\ \/ Gets(t)
                    \/ /\ putAt[loc[t].index] = NULL /\ pc'[t] = "deq_wait" /\ loc' = loc
                       /\ futex_addr'[t] = 1
<1>1. MpmcTypeOK
  BY DEF MemoryInv
<1>2. CASE pc[t] = "enq_exchange"
  <2>1. t \in Producers /\ EnqExchange(t)
    BY <1>1, <1>2, Constants DEF ThreadStep, FindCell, FindReturn, FindNext, FindEnd, FindCas, Enqueue, EnqIndex,
       EnqStore, EnqWake, At, MpmcTypeOK, ConsumerLabels
  <2>2. putAt' # putAt
    <3>1. /\ putAt' = [putAt EXCEPT ![loc[t].index] = Item(t, count[t])]
          /\ putAt[loc[t].index] = NULL /\ count[t] < put_index
      BY <1>2, <2>1 DEF EnqExchange, QueueInv, TicketsOK, ProducerOK, BeforePut
    <3>2. /\ loc[t].index \in Tickets /\ count[t] \in Nat
          /\ put_index \in Nat /\ put_index <= MaxTicket + 1 /\ MaxTicket \in Nat
      BY <1>1, Types, Constants
    <3>3. count[t] \in Tickets
      BY <3>1, <3>2 DEF Tickets
    <3>4. Item(t, count[t]) # NULL
      BY <2>1, <3>3, Different
    <3>5. putAt'[loc[t].index] = Item(t, count[t])
      BY <1>1, <3>1, <3>2 DEF MpmcTypeOK
    <3> QED
      BY <3>1, <3>4, <3>5
  <2> QED
    BY <1>2, <2>1, <2>2, TicketEffect DEF Unseen, Ends, Begins, Gets, history
<1>3. CASE pc[t] = "deq_exchange"
  <2>1. t \in Consumers /\ DeqExchange(t)
    BY <1>1, <1>3, Constants DEF ThreadStep, FindCell, FindReturn, FindNext, FindEnd, FindCas, Dequeue, DeqIndex,
       Spin, DeqWait, DeqAwake, Reclaim, ReclaimLoad, ReclaimCas, Scan, ReclaimNothing, ReclaimPublish,
       ReclaimFree, At, MpmcTypeOK, ProducerLabels
  <2>2. Cell(t) = putAt[loc[t].index] /\ futex_addr[t] = 1
    BY <1>3, <2>1, Found DEF Waiting
  <2>3. CASE Cell(t) # NULL
    BY <1>3, <2>1, <2>2, <2>3, OverGets DEF DeqExchange
  <2>4. CASE Cell(t) = NULL
    BY <1>1, <1>3, <2>1, <2>2, <2>4 DEF DeqExchange, NotYet, Goto, MpmcTypeOK
  <2> QED
    BY <1>3, <2>1, <2>3, <2>4
<1> QED
  BY <1>2, <1>3 DEF Exchanging

\* Only the exchange puts an item.
LEMMA PutsExchange ==
    ASSUME MemoryInv, NEW t \in Threads, ThreadStep(t), Puts(t)
    PROVE  pc[t] = "enq_exchange"
<1>1. /\ t \in Producers /\ pc[t] \in BeforePut
      /\ pc'[t] = "start" \/ pc'[t] \notin BeforePut
      /\ pc'[t] \in ProducerLabels
  BY TypeStep DEF Puts, Pending, Leaves, MpmcTypeOK, Next, Steps
<1>2. CASE FindCell(t)
  BY <1>1, <1>2, WalkEffect DEF AtCell, Walking, BeforePut, ProducerLabels
<1>3. CASE ~FindCell(t)
  BY <1>1, <1>3, AfterFind DEF Walking, BeforePut
<1> QED
  BY <1>2, <1>3

\* What holds of a cell stays so while nothing is exchanged into it.
LEMMA CellKept ==
    ASSUME MemoryInv, QueueInv, NEW t \in Threads, ThreadStep(t),
           NEW n \in List, NEW k \in Tickets, id[n] = k \div N,
           cells'[n][k % N] = cells[n][k % N], ~(Puts(t) /\ loc[t].index = k)
    PROVE  CellOf(n, k)'
<1>1. N' = N /\ CellOf(n, k)
  BY Frame DEF QueueInv, CellsOK
<1>2. putAt'[k] = putAt[k] /\ (gotAt[k] # NULL => gotAt'[k] # NULL)
  BY HistoryEffect
<1>3. CASE putAt[k] = NULL
  BY <1>1, <1>2, <1>3, LeftAddressKept DEF CellOf
<1>4. CASE putAt[k] # NULL
  BY <1>1, <1>2, <1>4 DEF CellOf
<1> QED
  BY <1>3, <1>4

\* What holds of the cell of a ticket after its exchange.
LEMMA CellExchanged ==
    ASSUME MemoryInv, QueueInv, NEW t \in Threads, ThreadStep(t), Exchanging(t),
           NEW n \in List, NEW k \in Tickets, n = handle[t], k = loc[t].index
    PROVE  CellOf(n, k)'
<1>1. /\ N' = N
      /\ pc[t] = "enq_exchange" => cells'[n][k % N] = Item(t, count[t])
      /\ pc[t] = "deq_exchange" => cells'[n][k % N] = Addr(t)
  BY Frame, CellsEffect
<1>2. CASE pc[t] = "enq_exchange"
  <2>1. Puts(t)
    BY <1>2, ExchangeEffect
  <2>2. putAt'[k] = Item(t, count[t])
    BY <1>1, <2>1 DEF Puts, MemoryInv, MpmcTypeOK
  <2>3. putAt'[k] # NULL
    <3>1. /\ t \in Producers /\ count[t] < put_index
      BY <1>2, <2>1 DEF Puts, QueueInv, TicketsOK, ProducerOK
    <3>2. /\ count[t] \in Nat /\ put_index \in Nat /\ put_index <= MaxTicket + 1 /\ MaxTicket \in Nat
      BY Types, Constants DEF MemoryInv
    <3>3. count[t] \in Tickets
      BY <3>1, <3>2 DEF Tickets
    <3> QED
      BY <2>2, <3>1, <3>3, Different
  <2> QED
    BY <1>1, <1>2, <2>2, <2>3 DEF CellOf
<1>3. CASE pc[t] = "deq_exchange"
  <2>1. t \in Consumers /\ t \notin Producers
    BY <1>3, ExchangeEffect, Constants
  <2>2. CASE Gets(t)
    <3>1. putAt'[k] # NULL /\ gotAt'[k] # NULL
      BY <1>1, <2>2 DEF Gets, MemoryInv, MpmcTypeOK
    <3> QED
      BY <3>1 DEF CellOf
  <2>3. CASE putAt[k] = NULL /\ pc'[t] = "deq_wait" /\ loc' = loc /\ futex_addr'[t] = 1
    <3>1. putAt'[k] = NULL
      BY <1>1, <2>1, <2>3, HistoryEffect DEF Puts
    <3>2. LeftAddress(n, k)'
      BY <1>1, <1>3, <2>1, <2>3 DEF LeftAddress, Waiting
    <3> QED
      BY <3>1, <3>2 DEF CellOf
  <2> QED
    BY <1>3, <2>2, <2>3, ExchangeEffect
<1> QED
  BY <1>2, <1>3 DEF Exchanging

\* The cells after a step.
LEMMA CellsStep ==
    ASSUME MemoryInv, QueueInv, NEW t \in Threads, ThreadStep(t)
    PROVE  CellsOK'
<1>1. N' = N /\ loc[t].index \in Tickets /\ N \in Nat \ {0}
  BY Frame, Types DEF MemoryInv
<1>2. ASSUME NEW n \in List, NEW k \in Tickets, id[n] = k \div N
      PROVE  CellOf(n, k)'
  <2>1. n \in Memory /\ k \in Nat /\ k % N \in 0 .. N - 1 /\ loc[t].index \in Nat
    BY ListFacts, Types DEF MemoryInv
  <2>2. CASE ~Exchanging(t)
    <3>1. ~Puts(t)
      BY <2>2, PutsExchange DEF Exchanging
    <3>2. cells'[n] = cells[n]
      <4>1. CASE UNCHANGED cells
        BY <4>1
      <4>2. CASE t \in Consumers /\ ReclaimFree(t)
        <5>1. n # loc[t].curr
          BY <4>2, Freed DEF ReclaimFree, At
        <5> QED
          BY <2>1, <4>2, <5>1 DEF ReclaimFree, MemoryInv, MpmcTypeOK
      <4> QED
        BY <2>2, <4>1, <4>2, CellsEffect
    <3> QED
      BY <1>2, <3>1, <3>2, CellKept
  <2>3. CASE Exchanging(t)
    <3>1. handle[t] \in List /\ id[handle[t]] = loc[t].index \div N
      BY <2>3, OwnCell DEF Exchanging, AtCell
    <3>2. CASE loc[t].index = k
      <4>1. n = handle[t]
        BY <1>2, <3>1, <3>2, ListFacts DEF MemoryInv, IdsDistinct, List
      <4> QED
        BY <1>2, <2>3, <3>2, <4>1, CellExchanged
    <3>3. CASE loc[t].index # k
      <4>1. n = handle[t] => k % N # loc[t].index % N
        BY <1>1, <1>2, <2>1, <3>1, <3>3, SameCell
      <4>2. cells'[n][k % N] = cells[n][k % N]
        BY <2>1, <2>3, <4>1, CellsEffect
      <4> QED
        BY <1>2, <3>3, <4>2, CellKept
    <3> QED
      BY <3>2, <3>3
  <2> QED
    BY <2>2, <2>3
<1>3. ASSUME NEW n \in List, NEW k \in Tickets, next[n] = NULL, putAt'[k] # NULL
      PROVE  k \div N <= id[n]
  <2>1. CASE putAt[k] # NULL
    BY <1>3, <2>1 DEF QueueInv, CellsOK
  <2>2. CASE putAt[k] = NULL
    <3>1. Puts(t) /\ k = loc[t].index
      BY <1>3, <2>2, HistoryEffect
    <3>2. handle[t] \in List /\ id[handle[t]] = k \div N
      BY <3>1, PutsExchange, OwnCell DEF AtCell
    <3> QED
      BY <1>3, <3>2 DEF MemoryInv, ListOK, List
  <2> QED
    BY <2>1, <2>2
<1>4. ASSUME NEW n \in List', NEW k \in Tickets,
             NEW m \in List, next[m] = NULL, id'[n] = id[m] + 1, Unseen(t), UNCHANGED cells,
             cells[n] = Blank
      PROVE  /\ id'[n] = k \div N => CellOf(n, k)'
             /\ putAt'[k] # NULL => k \div N <= id'[n]
  <2>1. putAt' = putAt /\ k % N \in 0 .. N - 1 /\ id[m] \in Nat /\ k \div N \in Nat
    BY <1>4, ListFacts, Types DEF Unseen, history, MemoryInv
  <2>2. putAt[k] # NULL => k \div N <= id[m]
    BY <1>4 DEF QueueInv, CellsOK
  <2>3. cells'[n][k % N] = NULL
    BY <1>4, <2>1 DEF Blank
  <2>4. ASSUME id'[n] = k \div N PROVE putAt'[k] = NULL
    BY <1>4, <2>1, <2>2, <2>4
  <2> QED
    BY <1>1, <1>4, <2>1, <2>2, <2>3, <2>4 DEF CellOf
<1>5. ASSUME NEW n \in List', NEW k \in Tickets
      PROVE  /\ id'[n] = k \div N => CellOf(n, k)'
             /\ next'[n] = NULL /\ putAt'[k] # NULL => k \div N <= id'[n]
  <2>1. CASE n \in List /\ id'[n] = id[n] /\ (next'[n] = next[n] \/ next'[n] # NULL)
    BY <1>2, <1>3, <2>1
  <2>2. CASE /\ UNCHANGED cells /\ cells[n] = Blank /\ Unseen(t)
             /\ \E m \in List : next[m] = NULL /\ id'[n] = id[m] + 1
    BY <1>4, <2>2
  <2> QED
    BY <2>1, <2>2, ListEffect
<1> QED
  BY <1>1, <1>5 DEF CellsOK

-----------------------------------------------------------------------------
(* The futexes *)

\* A producer comes to clear a futex from its exchange, and to wake from there.
LEMMA ProducerEffect ==
    ASSUME MemoryInv, QueueInv, NEW t \in Producers, ThreadStep(t)
    PROVE  /\ pc[t] = "enq_store" =>
                 EnqStore(t) /\ pc'[t] = "enq_wake" /\ loc' = loc /\ futex_addr'[loc[t].curr] = 0
           /\ pc[t] = "enq_wake" => EnqWake(t)
           /\ pc[t] = "enq_exchange" /\ Cell(t) # NULL =>
                 pc'[t] = "enq_store" /\ loc'[t].curr = Cell(t)[2]
           /\ pc'[t] = "enq_store" => pc[t] = "enq_exchange" /\ Cell(t) # NULL
           /\ pc'[t] = "enq_wake" => pc[t] = "enq_store"
<1>1. MpmcTypeOK /\ t \in Threads /\ t \notin Consumers /\ loc[t] \in Locals
  BY Constants DEF MemoryInv, MpmcTypeOK
<1> USE DEF At, Goto
<1>2. CASE FindCell(t)
  BY <1>1, <1>2 DEF FindCell, FindReturn, FindNext, FindEnd, FindCas, MpmcTypeOK
<1>3. CASE EnqIndex(t)
  BY <1>1, <1>3 DEF EnqIndex, Draw, MpmcTypeOK
<1>4. CASE EnqExchange(t)
  <2>1. pc[t] = "enq_exchange"
    BY <1>4 DEF EnqExchange
  <2>2. CASE Cell(t) = NULL /\ Return(t)
    BY <1>1, <2>1, <2>2 DEF Return, MpmcTypeOK
  <2>3. CASE Cell(t) # NULL /\ Goto(t, "enq_store") /\ loc' = [loc EXCEPT ![t].curr = Cell(t)[2]]
    BY <1>1, <2>1, <2>3 DEF MpmcTypeOK, Locals
  <2> QED
    BY <1>4, <2>2, <2>3 DEF EnqExchange
<1>5. CASE EnqStore(t)
  <2>1. loc[t].curr \in Consumers
    BY <1>5 DEF EnqStore, QueueInv, FutexOK, ServesOf
  <2> QED
    BY <1>1, <1>5, <2>1 DEF EnqStore, MpmcTypeOK
<1>6. CASE EnqWake(t)
  BY <1>1, <1>6 DEF EnqWake, Return, MpmcTypeOK
<1> QED
  BY <1>1, <1>2, <1>3, <1>4, <1>5, <1>6 DEF ThreadStep, Enqueue

\* Who sleeps on a futex: its consumer, from its futex_wait until a producer
\* wakes it.
LEMMA QueueEffect ==
    ASSUME MemoryInv, QueueInv, NEW t \in Threads, ThreadStep(t), NEW c \in Consumers
    PROVE  \/ queue'[c] = queue[c] /\ ~WillWake(t, c)
           \/ c = t /\ DeqWait(c) /\ futex_addr[c] = 1 /\ queue'[c] = queue[c] \cup {c}
           \/ /\ t \in Producers /\ WillWake(t, c) /\ queue'[c] \subseteq queue[c]
              /\ queue[c] \subseteq {c} => queue'[c] = {}
<1>1. queue \in [Consumers -> SUBSET Threads]
  BY DEF MemoryInv, MpmcTypeOK
<1> USE DEF waits, At, WillWake
<1>2. CASE FindCell(t)
  BY <1>2 DEF FindCell, FindReturn, FindNext, FindEnd, FindCas
<1>3. CASE t \in Producers /\ Enqueue(t)
  <2>1. CASE EnqWake(t)
    <3>1. pc[t] = "enq_wake" /\ loc[t].curr \in Consumers
      BY <1>3, <2>1 DEF EnqWake, QueueInv, FutexOK, ServesOf
    <3>2. CASE queue[loc[t].curr] = {} /\ queue' = queue
      BY <1>3, <3>1, <3>2
    <3>3. CASE \E u \in queue[loc[t].curr] : queue' = [queue EXCEPT ![loc[t].curr] = @ \ {u}]
      BY <1>1, <1>3, <3>1, <3>3 DEF WillWake
    <3> QED
      BY <2>1, <3>2, <3>3 DEF EnqWake, FutexWake
  <2>2. CASE EnqIndex(t) \/ EnqExchange(t) \/ EnqStore(t)
    BY <2>2 DEF EnqIndex, EnqExchange, EnqStore
  <2> QED
    BY <1>3, <2>1, <2>2 DEF Enqueue
<1>4. CASE t \in Consumers /\ Dequeue(t)
  <2>1. CASE DeqWait(t)
    BY <1>1, <1>4, <2>1 DEF DeqWait, FutexWait, FutexHolds
  <2>2. CASE DeqIndex(t) \/ Spin(t) \/ DeqExchange(t) \/ DeqAwake(t)
    BY <2>2 DEF DeqIndex, Spin, DeqExchange, DeqAwake
  <2> QED
    BY <1>4, <2>1, <2>2 DEF Dequeue
<1>5. CASE t \in Consumers /\ Reclaim(t)
  BY <1>5 DEF Reclaim, ReclaimLoad, ReclaimCas, Scan, ReclaimNothing, ReclaimPublish, ReclaimFree
<1> QED
  BY <1>2, <1>3, <1>4, <1>5 DEF ThreadStep

\* A consumer that takes a step sleeps nowhere, and if it sleeps after it, its
\* futex was set.
LEMMA OwnQueue ==
    ASSUME MemoryInv, QueueInv, NEW t \in Consumers, ThreadStep(t)
    PROVE  queue'[t] = {} \/ (queue'[t] = {t} /\ pc'[t] = "deq_waiting" /\ futex_addr'[t] = 1)
<1>1. MpmcTypeOK /\ t \in Threads /\ t \notin Producers
  BY Constants DEF MemoryInv
<1>2. \A u \in queue[t] : u = t /\ pc[t] = "deq_waiting"
  BY DEF QueueInv, FutexOK, FutexOf
<1>3. queue[t] = {}
  <2>1. CASE pc[t] # "deq_waiting"
    BY <1>2, <2>1
  <2>2. CASE pc[t] = "deq_waiting"
    <3>1. DeqAwake(t)
      BY <1>1, <2>2 DEF ThreadStep, FindCell, FindReturn, FindNext, FindEnd, FindCas, Dequeue, DeqIndex, Spin,
         DeqExchange, DeqWait, Reclaim, ReclaimLoad, ReclaimCas, Scan, ReclaimNothing, ReclaimPublish,
         ReclaimFree, At
    <3>2. t \notin queue[t]
      BY <1>1, <3>1 DEF DeqAwake, Awake, MpmcTypeOK
    <3> QED
      BY <1>2, <3>2
  <2> QED
    BY <2>1, <2>2
<1>4. CASE queue'[t] = queue[t]
  BY <1>3, <1>4
<1>5. CASE DeqWait(t) /\ futex_addr[t] = 1 /\ queue'[t] = queue[t] \cup {t}
  BY <1>1, <1>3, <1>5 DEF DeqWait, Goto, MpmcTypeOK
<1> QED
  BY <1>1, <1>4, <1>5, QueueEffect

\* What a step of a consumer makes of its futex: it is not used any more, or
\* it is set and the consumer is on its way, or has just left its address, or
\* waits as before.
LEMMA OwnFutex ==
    ASSUME MemoryInv, QueueInv, NEW t \in Consumers, ThreadStep(t)
    PROVE  \/ pc'[t] \notin BeforeGet
           \/ pc'[t] \in BeforeGet \ Waiting /\ futex_addr'[t] = 1
           \/ pc'[t] \in Waiting /\ futex_addr'[t] = 1 /\ Cell(t)' = Addr(t)
           \/ /\ pc[t] \in Waiting /\ pc'[t] \in Waiting
              /\ UNCHANGED <<futex_addr, cells, handle, history, loc, setup>>
<1>1. MpmcTypeOK /\ t \in Threads /\ t \notin Producers
  BY Constants DEF MemoryInv
<1>2. pc[t] \in BeforeGet \ Waiting => futex_addr[t] = 1
  BY DEF QueueInv, FutexOK, FutexOf
<1> USE DEF At, Goto, BeforeGet, Waiting
<1>3. ASSUME NEW v, Over(t, v) PROVE pc'[t] \notin BeforeGet
  BY <1>1, <1>3 DEF Over, Return, MpmcTypeOK
<1>4. CASE FindCell(t)
  <2>1. pc[t] \in BeforeGet \ Waiting /\ pc'[t] \in BeforeGet \ Waiting
    BY <1>1, <1>4 DEF FindCell, FindReturn, FindNext, FindEnd, FindCas, MpmcTypeOK
  <2>2. futex_addr' = futex_addr
    BY <1>4 DEF FindCell, FindReturn, FindNext, FindEnd, FindCas, waits
  <2> QED
    BY <1>2, <2>1, <2>2
<1>5. CASE DeqIndex(t)
  BY <1>1, <1>5 DEF DeqIndex, Draw, MpmcTypeOK
<1>6. CASE Spin(t)
  BY <1>1, <1>2, <1>3, <1>6 DEF Spin, NotYet, MpmcTypeOK
<1>7. CASE DeqExchange(t)
  <2>1. CASE NotYet(t, "deq_wait")
    <3>1. pc[t] = "deq_exchange" /\ pc'[t] = "deq_wait" /\ futex_addr' = futex_addr /\ loc' = loc /\ N' = N
      BY <1>1, <1>7, <2>1, Frame DEF DeqExchange, NotYet, MpmcTypeOK
    <3>2. handle' = handle /\ cells'[handle[t]][loc[t].index % N] = Addr(t)
      BY <1>1, <3>1, CellsEffect DEF Exchanging
    <3> QED
      BY <1>2, <3>1, <3>2 DEF Cell, CellNode, CellPos
  <2> QED
    BY <1>3, <1>7, <2>1 DEF DeqExchange
<1>8. CASE DeqWait(t)
  BY <1>1, <1>8 DEF DeqWait, MpmcTypeOK, memory, indices
<1>9. CASE DeqAwake(t)
  <2>1. CASE NotYet(t, "deq_wait")
    BY <1>1, <1>9, <2>1 DEF DeqAwake, NotYet, MpmcTypeOK, memory, indices
  <2> QED
    BY <1>3, <1>9, <2>1 DEF DeqAwake
<1>10. CASE Reclaim(t)
  BY <1>1, <1>10 DEF Reclaim, ReclaimLoad, ReclaimCas, Scan, ReclaimNothing, ReclaimPublish, ReclaimFree,
     Return, MpmcTypeOK
<1> QED
  BY <1>1, <1>4, <1>5, <1>6, <1>7, <1>8, <1>9, <1>10 DEF ThreadStep, Dequeue

\* An address stays in the cell until the producer of the ticket takes it, who
\* is then going to clear the futex.
LEMMA AddressTaken ==
    ASSUME MemoryInv, QueueInv, NEW t \in Threads, ThreadStep(t),
           NEW c \in Consumers, c # t, pc[c] \in Waiting, Cell(c) = Addr(c)
    PROVE  Cell(c)' = Addr(c) \/ (t \in Producers /\ WillClear(t, c)')
<1>1. /\ c \in Threads /\ N' = N /\ N \in Nat \ {0} /\ pc[c] \in AtCell /\ pc[c] # "start"
      /\ loc'[c] = loc[c] /\ handle'[c] = handle[c]
      /\ loc[c].index \in Nat /\ loc[t].index \in Nat /\ loc[c].index % N \in 0 .. N - 1
      /\ handle[c] \in Memory
  BY Constants, Frame, Types DEF MemoryInv, Tickets, AtCell, Waiting
<1>2. handle[c] \in List /\ id[handle[c]] = loc[c].index \div N /\ Cell(c) = cells[handle[c]][loc[c].index % N]
  BY <1>1, OwnCell
<1>3. Cell(c)' = cells'[handle[c]][loc[c].index % N]
  BY <1>1 DEF Cell, CellNode, CellPos
<1>4. CASE Exchanging(t)
  <2>1. handle[t] \in List /\ id[handle[t]] = loc[t].index \div N /\ Cell(t) = cells[handle[t]][loc[t].index % N]
    BY <1>4, OwnCell DEF Exchanging, AtCell
  <2>2. CASE loc[t].index = loc[c].index
    <3>1. t \in Producers /\ pc[t] = "enq_exchange"
      BY <1>1, <1>4, <2>2, ExchangeEffect DEF Exchanging, QueueInv, TicketsOK, Distinct
    <3>2. handle[t] = handle[c]
      BY <1>2, <2>1, <2>2 DEF MemoryInv, IdsDistinct, List
    <3>3. Cell(t) = Addr(c) /\ Addr(c) # NULL /\ Addr(c)[2] = c
      BY <1>2, <2>1, <2>2, <3>2, Different
    <3> QED
      BY <3>1, <3>3, ProducerEffect DEF WillClear
  <2>3. CASE loc[t].index # loc[c].index
    <3>1. handle[t] = handle[c] => loc[c].index % N # loc[t].index % N
      BY <1>1, <1>2, <2>1, <2>3, SameCell
    <3>2. cells'[handle[c]][loc[c].index % N] = cells[handle[c]][loc[c].index % N]
      BY <1>1, <1>4, <3>1, CellsEffect
    <3> QED
      BY <1>2, <1>3, <3>2
  <2> QED
    BY <2>2, <2>3
<1>5. CASE ~Exchanging(t)
  <2>1. cells'[handle[c]] = cells[handle[c]]
    <3>1. CASE t \in Consumers /\ ReclaimFree(t)
      <4>1. handle[c] # loc[t].curr
        BY <1>2, <3>1, Freed DEF ReclaimFree, At
      <4> QED
        BY <1>1, <3>1, <4>1 DEF ReclaimFree, MemoryInv, MpmcTypeOK
    <3> QED
      BY <1>5, <3>1, CellsEffect
  <2> QED
    BY <1>2, <1>3, <2>1
<1> QED
  BY <1>4, <1>5

\* The futexes of the others after a step.
LEMMA OtherFutex ==
    ASSUME MemoryInv, QueueInv, NEW t \in Threads, ThreadStep(t), NEW c \in Consumers, c # t
    PROVE  FutexOf(c)'
<1>1. /\ c \in Threads /\ pc'[c] = pc[c] /\ loc'[c] = loc[c] /\ FutexOf(c)
      /\ loc[c].index \in Tickets
      /\ \A p \in Producers : p # t => pc'[p] = pc[p] /\ loc'[p] = loc[p]
  BY Constants, Frame, Types DEF QueueInv, FutexOK, MemoryInv
<1>2. putAt[loc[c].index] # NULL => putAt'[loc[c].index] # NULL
  BY <1>1, HistoryEffect
<1>3. CASE t \in Producers /\ WillClear(t, c)
  <2>1. pc[c] \in Waiting /\ loc[c].index = loc[t].index
    BY <1>3 DEF WillClear, QueueInv, FutexOK, ServesOf
  <2>2. putAt[loc[c].index] # NULL
    BY <1>3, <2>1 DEF WillClear, QueueInv, TicketsOK, ProducerOK, BeforePut
  <2>3. WillWake(t, c)' /\ futex_addr'[c] = 0
    BY <1>3, ProducerEffect DEF WillClear, WillWake
  <2>4. queue'[c] = queue[c]
    BY <1>1, <1>3, QueueEffect DEF WillClear, WillWake
  <2> QED
    BY <1>1, <1>2, <1>3, <2>1, <2>2, <2>3, <2>4 DEF FutexOf
<1>4. CASE ~(t \in Producers /\ WillClear(t, c))
  <2>1. futex_addr'[c] = futex_addr[c]
    BY <1>4, FutexEffect
  <2>2. queue'[c] \subseteq queue[c]
    BY <1>1, QueueEffect
  <2>3. ASSUME pc[c] \in Waiting, futex_addr[c] = 1
        PROVE  Cell(c)' = Addr(c) \/ \E p \in Producers : WillClear(p, c)'
    <3>1. CASE Cell(c) = Addr(c)
      BY <2>3, <3>1, AddressTaken
    <3>2. CASE Cell(c) # Addr(c)
      <4>1. PICK p \in Producers : WillClear(p, c)
        BY <1>1, <2>3, <3>2 DEF FutexOf
      <4> QED
        BY <1>1, <1>4, <4>1 DEF WillClear
    <3> QED
      BY <3>1, <3>2
  <2>4. ASSUME c \in queue'[c], futex_addr[c] # 1
        PROVE  \E p \in Producers : WillWake(p, c)'
    <3>1. PICK p \in Producers : WillWake(p, c)
      BY <1>1, <2>2, <2>4 DEF FutexOf
    <3>2. CASE p # t
      BY <1>1, <3>1, <3>2 DEF WillWake
    <3>3. CASE p = t
      <4>1. queue[c] \subseteq {c}
        BY <1>1 DEF FutexOf
      <4> QED
        BY <1>1, <2>4, <3>1, <3>3, <4>1, QueueEffect
    <3> QED
      BY <3>2, <3>3
  <2> QED
    BY <1>1, <1>2, <2>1, <2>2, <2>3, <2>4 DEF FutexOf
<1> QED
  BY <1>3, <1>4

\* The consumer's own futex after its step.
LEMMA OwnFutexStep ==
    ASSUME MemoryInv, QueueInv, NEW t \in Consumers, ThreadStep(t)
    PROVE  FutexOf(t)'
<1>1. /\ t \in Threads /\ t \notin Producers /\ FutexOf(t)
      /\ \A p \in Producers : p # t /\ pc'[p] = pc[p] /\ loc'[p] = loc[p]
  BY Constants, Frame DEF QueueInv, FutexOK
<1>2. /\ \A u \in queue'[t] : u = t /\ pc'[t] = "deq_waiting"
      /\ t \in queue'[t] => futex_addr'[t] = 1
  BY OwnQueue
<1>3. CASE pc'[t] \notin BeforeGet
  BY <1>2, <1>3 DEF FutexOf, BeforeGet, Waiting
<1>4. CASE pc'[t] \in BeforeGet \ Waiting /\ futex_addr'[t] = 1
  BY <1>2, <1>4 DEF FutexOf
<1>5. CASE pc'[t] \in Waiting /\ futex_addr'[t] = 1 /\ Cell(t)' = Addr(t)
  BY <1>2, <1>5 DEF FutexOf
<1>6. CASE pc[t] \in Waiting /\ pc'[t] \in Waiting /\ UNCHANGED <<futex_addr, cells, handle, history, loc, setup>>
  <2>1. Cell(t)' = Cell(t) /\ putAt' = putAt
    BY <1>6 DEF Cell, CellNode, CellPos, N, history
  <2>2. \A p \in Producers : WillClear(p, t) => WillClear(p, t)'
    BY <1>1 DEF WillClear
  <2> QED
    BY <1>1, <1>2, <1>6, <2>1, <2>2 DEF FutexOf
<1> QED
  BY <1>3, <1>4, <1>5, <1>6, OwnFutex

\* Whom a producer serves after a step.
LEMMA ServesStep ==
    ASSUME MemoryInv, QueueInv, NEW t \in Threads, ThreadStep(t), NEW p \in Producers
    PROVE  ServesOf(p)'
<1>1. /\ p \in Threads /\ ServesOf(p)
      /\ \A u \in Threads : u # t => pc'[u] = pc[u] /\ loc'[u] = loc[u]
      /\ Consumers \subseteq Threads /\ Consumers \cap Producers = {}
  BY Constants, Frame DEF QueueInv, FutexOK
<1>2. CASE p # t
  <2>1. ASSUME pc[p] = "enq_store"
        PROVE  /\ pc'[loc[p].curr] \in Waiting
               /\ loc'[loc[p].curr].index = loc[p].index /\ futex_addr'[loc[p].curr] = 1
    <3> DEFINE c == loc[p].curr
    <3>1. c \in Consumers /\ pc[c] \in Waiting /\ loc[c].index = loc[p].index /\ futex_addr[c] = 1
      BY <1>1, <2>1 DEF ServesOf
    <3> HIDE DEF c
    <3>2. CASE c = t
      BY <3>1, <3>2, FutexEffect DEF c
    <3>3. CASE c # t
      <4>1. ~(t \in Producers /\ WillClear(t, c))
        <5> SUFFICES ASSUME t \in Producers, WillClear(t, c) PROVE FALSE
          OBVIOUS
        <5>1. loc[c].index = loc[t].index /\ pc[t] = "enq_store"
          BY DEF WillClear, QueueInv, FutexOK, ServesOf
        <5> QED
          BY <1>2, <2>1, <3>1, <5>1 DEF QueueInv, TicketsOK, Distinct
      <4>2. futex_addr'[c] = 1
        BY <3>1, <3>3, <4>1, FutexEffect
      <4> QED
        BY <1>1, <3>1, <3>3, <4>2 DEF c
    <3> QED
      BY <3>2, <3>3
  <2> QED
    BY <1>1, <1>2, <2>1 DEF ServesOf
<1>3. CASE p = t
  <2>1. ASSUME pc'[t] = "enq_store"
        PROVE  /\ loc'[t].curr \in Consumers /\ pc'[loc'[t].curr] \in Waiting
               /\ loc'[loc'[t].curr].index = loc'[t].index /\ futex_addr'[loc'[t].curr] = 1
    <3>1. pc[t] = "enq_exchange" /\ Cell(t) # NULL /\ loc'[t].curr = Cell(t)[2]
      BY <1>3, <2>1, ProducerEffect
    <3>2. Cell(t) = cells[handle[t]][loc[t].index % N] /\ CellOf(handle[t], loc[t].index)
      BY <3>1, OwnCell DEF AtCell
    <3>3. putAt[loc[t].index] = NULL
      BY <1>3, <3>1 DEF QueueInv, TicketsOK, ProducerOK, BeforePut
    <3>4. LeftAddress(handle[t], loc[t].index)
      BY <3>1, <3>2, <3>3 DEF CellOf
    <3>5. PICK c \in Consumers : /\ Cell(t) = Addr(c) /\ pc[c] \in Waiting
                                 /\ loc[c].index = loc[t].index /\ futex_addr[c] = 1
      BY <3>2, <3>4 DEF LeftAddress
    <3>6. loc'[t].curr = c /\ c # t /\ c \in Threads
      BY <1>1, <1>3, <3>1, <3>5, Different
    <3>7. futex_addr'[c] = 1
      BY <3>1, <3>5, <3>6, FutexEffect DEF WillClear
    <3>8. loc'[t].index = loc[t].index
      BY <1>3, <2>1, <3>1, TicketEffect DEF Unseen, Ends, Begins, Puts, Gets, Stays, Leaves
    <3> QED
      BY <1>1, <3>5, <3>6, <3>7, <3>8
  <2>2. pc'[t] = "enq_wake" => loc'[t].curr \in Consumers
    BY <1>1, <1>3, ProducerEffect DEF ServesOf
  <2> QED
    BY <1>3, <2>1, <2>2 DEF ServesOf
<1> QED
  BY <1>2, <1>3

\* The futexes after a step.
LEMMA FutexStep ==
    ASSUME MemoryInv, QueueInv, NEW t \in Threads, ThreadStep(t)
    PROVE  FutexOK'
BY OtherFutex, OwnFutexStep, ServesStep DEF FutexOK

-----------------------------------------------------------------------------
(* The invariant, and no lost wake-up *)

\* Nothing is put, nobody walks or waits.
LEMMA InitQueue == Init => QueueInv
<1> SUFFICES ASSUME Init PROVE QueueInv
  OBVIOUS
<1>1. MemoryInv
  BY InitMemory
<1>2. /\ N \in Nat \ {0} /\ \A k \in Tickets : k % N \in 0 .. N - 1 /\ k \in Nat
      /\ \A n \in List : n \in Memory
      /\ Consumers \subseteq Threads /\ Producers \subseteq Threads
  BY <1>1, Types, ListFacts, Constants DEF MemoryInv
<1>3. TicketsOK
  BY <1>2 DEF Init, TicketsOK, HistoryOK, ProducerOK, ConsumerOK, Distinct
<1>4. WalksOK
  <2>1. 0 \div N = 0
    BY <1>2
  <2>2. \A t \in Threads : pc[t] = "start" /\ id[handle[t]] = 0 /\ NextTicket(t) = 0
    BY Constants DEF Init, NextTicket
  <2> QED
    BY <2>1, <2>2 DEF WalksOK, WalkOf, Walking, AtCell
<1>5. BlankOK
  BY Constants DEF Init, BlankOK
<1>6. CellsOK
  BY <1>2 DEF Init, CellsOK, CellOf, Blank
<1>7. FutexOK
  BY <1>2 DEF Init, FutexInit, FutexOK, FutexOf, ServesOf, BeforeGet, Waiting
<1> QED
  BY <1>3, <1>4, <1>5, <1>6, <1>7 DEF QueueInv

\* Every step keeps it.
LEMMA QueueStep == ASSUME MemoryInv, QueueInv, [Next]_vars PROVE QueueInv'
<1>1. CASE UNCHANGED vars
  <2> USE <1>1 DEF vars, indices, history, memory, list, waits
  <2>1. TicketsOK'
    BY DEF QueueInv, TicketsOK, HistoryOK, ProducerOK, ConsumerOK, Distinct
  <2>2. WalksOK'
    BY DEF QueueInv, WalksOK, WalkOf, NextTicket, N
  <2>3. BlankOK'
    BY DEF QueueInv, BlankOK, Blank, N
  <2>4. CellsOK'
    BY DEF QueueInv, CellsOK, CellOf, LeftAddress, List, Live, N
  <2>5. FutexOK'
    BY DEF QueueInv, FutexOK, FutexOf, ServesOf, WillClear, WillWake, Cell, CellNode, CellPos, N
  <2> QED
    BY <2>1, <2>2, <2>3, <2>4, <2>5 DEF QueueInv
<1>2. ASSUME NEW t \in Threads, ThreadStep(t)
      PROVE  QueueInv'
  BY <1>2, TicketsStep, WalksStep, BlankStep, CellsStep, FutexStep DEF QueueInv
<1> QED
  BY <1>1, <1>2 DEF Next, Ended, Steps

\* What the cells, the tickets and the futexes are to each other, always.
THEOREM QueueInvariant == Spec => []QueueInv
<1>1. Init => QueueInv
  BY InitQueue
<1>2. MemoryInv /\ QueueInv /\ [Next]_vars => QueueInv'
  BY QueueStep
<1> QED
  BY <1>1, <1>2, MemoryInvariant, PTL DEF Spec

\* mpmc_dequeue and mpmc_enqueue: a consumer that sleeps has its address in
\* its cell, where the producer finds it, or the producer that took it from
\* there has yet to clear the futex or to wake: whichever of them came first,
\* and at whatever point the other one was.
THEOREM SleeperIsKnownAlways == Spec => []SleeperIsKnown
<1>1. QueueInv => SleeperIsKnown
  <2> SUFFICES ASSUME QueueInv, NEW c \in Consumers, c \in queue[c]
               PROVE  \/ Cell(c) = Addr(c) /\ futex_addr[c] = 1
                      \/ \E p \in Producers :
                            pc[p] \in {"enq_store", "enq_wake"} /\ loc[p].curr = c
    BY DEF SleeperIsKnown
  <2>1. pc[c] = "deq_waiting" /\ pc[c] \in Waiting /\ FutexOf(c)
    BY DEF QueueInv, FutexOK, FutexOf, Waiting
  <2>2. CASE futex_addr[c] = 1
    BY <2>1, <2>2 DEF FutexOf, WillClear
  <2>3. CASE futex_addr[c] # 1
    BY <2>1, <2>3 DEF FutexOf, WillWake
  <2> QED
    BY <2>2, <2>3
<1> QED
  BY <1>1, QueueInvariant, PTL

-----------------------------------------------------------------------------
(* The queue implements TicketQueue *)

\* The ticket of each thread, as Queue sees it.
TicketOf == [t \in Threads |-> IF At(t, "start") THEN NULL ELSE loc[t].index]

\* Only the ticket of the thread that takes a step changes, and those of the
\* threads in an operation are tickets.
LEMMA TicketOfEffect ==
    ASSUME MemoryInv, NEW t \in Threads, ThreadStep(t)
    PROVE  /\ TicketOf[t] = IF pc[t] = "start" THEN NULL ELSE loc[t].index
           /\ loc[t].index \in Tickets /\ loc[t].index # NULL
           /\ TicketOf' = [TicketOf EXCEPT ![t] = IF pc'[t] = "start" THEN NULL ELSE loc'[t].index]
<1>1. loc[t].index \in Tickets /\ loc[t].index # NULL
  BY Types, Constants DEF MemoryInv
<1>2. \A u \in Threads \ {t} : pc'[u] = pc[u] /\ loc'[u] = loc[u]
  BY Frame
<1> QED
  BY <1>1, <1>2 DEF TicketOf, At

\* Every step begins or ends an operation, puts or gets an item, or changes
\* nothing that TicketQueue tells apart.
LEMMA StepRefines ==
    ASSUME MemoryInv, QueueInv, [Next]_vars
    PROVE  [Queue!TicketNext]_<<put_index, pop_index, TicketOf, putAt, gotAt>>
<1>1. CASE UNCHANGED vars
  BY <1>1 DEF vars, indices, history, TicketOf, At
<1>2. ASSUME NEW t \in Threads, ThreadStep(t)
      PROVE  [Queue!TicketNext]_<<put_index, pop_index, TicketOf, putAt, gotAt>>
  <2> DEFINE k == loc[t].index
             m == [TicketOf EXCEPT ![t] = NULL]
  <2>1. /\ TicketOf[t] = IF pc[t] = "start" THEN NULL ELSE k
        /\ k \in Tickets /\ k # NULL
        /\ TicketOf' = [TicketOf EXCEPT ![t] = IF pc'[t] = "start" THEN NULL ELSE loc'[t].index]
    BY <1>2, TicketOfEffect
  <2>2. /\ Stays(t) => TicketOf' = TicketOf /\ TicketOf[t] = k
        /\ Leaves(t) => TicketOf' = m /\ TicketOf[t] = k
    BY <2>1 DEF Stays, Leaves, TicketOf
  <2>3. t \in Producers \/ t \in Consumers
    BY Constants
  <2>4. /\ t \in Producers /\ pc[t] # "start" => (putAt[k] = NULL <=> Pending(t))
        /\ t \notin Producers /\ pc[t] # "start" => (gotAt[k] = NULL <=> Pending(t))
    BY <2>3 DEF QueueInv, TicketsOK, ProducerOK, ConsumerOK, Pending
  <2>5. CASE Unseen(t)
    BY <2>2, <2>5 DEF Unseen, indices, history
  <2>6. CASE Ends(t)
    <3>1. Leaves(t) /\ pc[t] # "start" /\ ~Pending(t) /\ UNCHANGED <<indices, history>>
      BY <2>6 DEF Ends, Leaves
    <3>2. CASE t \in Producers
      <4>1. Queue!Return(t)
        BY <2>1, <2>2, <2>4, <3>1, <3>2 DEF Queue!Return, Queue!Put, TicketOf, indices, history
      <4> QED
        BY <3>2, <4>1 DEF Queue!TicketNext
    <3>3. CASE t \notin Producers
      <4>1. Queue!Return(t)
        BY <2>1, <2>2, <2>3, <2>4, <3>1, <3>3 DEF Queue!Return, Queue!Got, TicketOf, indices, history
      <4> QED
        BY <2>3, <3>3, <4>1 DEF Queue!TicketNext
    <3> QED
      BY <3>2, <3>3
  <2>7. CASE Begins(t)
    <3>1. TicketOf[t] = NULL /\ TicketOf' = [TicketOf EXCEPT ![t] = NextTicket(t)]
      BY <2>1, <2>7 DEF Begins
    <3>2. CASE t \in Producers
      <4>1. Queue!EnqueueBegin(t)
        BY <2>7, <3>1, <3>2 DEF Begins, NextTicket, Queue!EnqueueBegin, TicketOf, history
      <4> QED
        BY <3>2, <4>1 DEF Queue!TicketNext
    <3>3. CASE t \notin Producers
      <4>1. Queue!DequeueBegin(t)
        BY <2>7, <3>1, <3>3 DEF Begins, NextTicket, Queue!DequeueBegin, TicketOf, history
      <4> QED
        BY <2>3, <3>3, <4>1 DEF Queue!TicketNext
    <3> QED
      BY <3>2, <3>3
  <2>8. CASE Puts(t)
    <3>1. /\ t \in Producers /\ pc[t] # "start" /\ Pending(t)
          /\ putAt' = [putAt EXCEPT ![k] = Item(t, count[t])] /\ UNCHANGED <<indices, gotAt>>
      BY <2>8 DEF Puts, Stays, Leaves
    <3>2. count[t] \in Tickets
      <4>1. count[t] \in Nat /\ put_index \in Nat /\ put_index <= MaxTicket + 1 /\ MaxTicket \in Nat
        BY Types, Constants DEF MemoryInv
      <4>2. count[t] < put_index
        BY <3>1 DEF QueueInv, TicketsOK, ProducerOK
      <4> QED
        BY <4>1, <4>2 DEF Tickets
    <3>3. TicketOf[t] = k /\ (TicketOf' = TicketOf \/ TicketOf' = m)
      BY <2>2, <2>8 DEF Puts
    <3>4. Queue!Deposit(t, Items)
      BY <2>1, <2>4, <3>1, <3>2, <3>3, Different DEF Queue!Deposit, Queue!Put, Queue!MayReturn, TicketOf, indices
    <3> QED
      BY <3>1, <3>4 DEF Queue!TicketNext
  <2>9. CASE Gets(t)
    <3>1. /\ t \in Consumers /\ t \notin Producers /\ pc[t] # "start" /\ Pending(t) /\ putAt[k] # NULL
          /\ gotAt' = [gotAt EXCEPT ![k] = putAt[k]] /\ UNCHANGED <<indices, putAt>>
      BY <2>9, Constants DEF Gets, Stays, Leaves
    <3>2. TicketOf[t] = k /\ (TicketOf' = TicketOf \/ TicketOf' = m)
      BY <2>2, <2>9 DEF Gets
    <3>3. Queue!Collect(t)
      BY <2>1, <2>4, <3>1, <3>2 DEF Queue!Collect, Queue!Got, Queue!MayReturn, TicketOf, indices
    <3> QED
      BY <3>1, <3>3 DEF Queue!TicketNext
  <2> QED
    BY <1>2, <2>5, <2>6, <2>7, <2>8, <2>9, TicketEffect
<1> QED
  BY <1>1, <1>2 DEF Next, Ended, Steps

\* mpmc.c implements the safety part of the queue of TicketQueue: the k-th
\* dequeue gets the k-th item, whichever of the two came to the cell first,
\* each item once, and no operation returns before its item was put or got.
THEOREM QueueImplementsTickets == Spec => Queue!TicketSafety
<1>1. Init => Queue!TicketInit
  <2> SUFFICES ASSUME Init PROVE Queue!TicketInit
    OBVIOUS
  <2>1. TicketOf = [t \in Producers \cup Consumers |-> NULL]
    BY Constants DEF Init, TicketOf, At
  <2> QED
    BY <2>1 DEF Init, Queue!TicketInit, TicketOf, Tickets
<1>2. MemoryInv /\ QueueInv /\ [Next]_vars => [Queue!TicketNext]_Queue!ticketVars
  BY StepRefines DEF Queue!ticketVars, TicketOf
<1> QED
  BY <1>1, <1>2, MemoryInvariant, QueueInvariant, PTL DEF Spec, Queue!TicketSafety
=============================================================================
