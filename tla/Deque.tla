------------------------------- MODULE Deque -------------------------------
(***************************************************************************)
(* quiz2/test1/work-steal.c: one Chase-Lev deque.  The owner pushes and    *)
(* takes at `bottom', thieves steal at `top' with a compare-and-swap.      *)
(*                                                                         *)
(* The owner's stores go through a buffer before they reach the memory the *)
(* thieves read.  With the order "TSO" they leave it in program order      *)
(* (x86); with "PSO" stores to different locations overtake each other     *)
(* unless a release fence stands between them, as C11 lets them.  The      *)
(* owner reads its own pending stores; a seq_cst fence and a seq_cst       *)
(* read-modify-write wait until the buffer is empty.  Thieves only load    *)
(* (in program order: their loads are acquire or depend on each other) and *)
(* compare-and-swap.                                                       *)
(*                                                                         *)
(* Items are numbered in the order they are pushed; size_t has SizeT       *)
(* values, and 2^64 in the code.                                           *)
(***************************************************************************)
EXTENDS Naturals, Sequences, SequencesExt

CONSTANTS
    Thieves, Worker,
    EMPTY, ABORT,
    BUSY,           \* not a value of the code: the operation has not returned
    SizeT,
    Machines,       \* pairs <<store order, number of the first array>>
    MaxPush,        \* bound: items ever pushed
    MaxArray        \* bound: the number of the last array

\* Arrays are numbered by their size.  init's size_hint is 8 in the program.
Arrays == 0 .. MaxArray
ArraySize(k) == 2 ^ k

\* Items are numbers here and pointers in the code, where EMPTY and ABORT are
\* pointers to nothing.  The last line is arithmetic, for provers that do not
\* know powers.
ASSUME DequeAssumption ==
    /\ MaxPush \in Nat /\ MaxArray \in Nat
    /\ MaxPush <= ArraySize(MaxArray)
    /\ SizeT \in Nat /\ MaxPush < SizeT
    /\ Machines \subseteq {"TSO", "PSO"} \X Arrays
    /\ Worker \notin Thieves
    /\ {EMPTY, ABORT, BUSY} \cap Nat = {} /\ BUSY \notin {EMPTY, ABORT}
    /\ 2 ^ 0 = 1 /\ \A k \in Arrays : 2 ^ k \in Nat \ {0} /\ 2 ^ (k + 1) = 2 * 2 ^ k

Junk == 0          \* what malloc left in an entry
FENCE == <<"fence", 0, 0>>

\* The locations the owner writes, and array k's entry for index j.
BOTTOM == <<"bottom", 0, 0>>
ARRAY == <<"array", 0, 0>>
Entry(k, j) == <<"entry", k, j % ArraySize(k)>>
Locations ==
    {BOTTOM, ARRAY} \cup UNION {{Entry(k, j) : j \in 0 .. ArraySize(k) - 1} : k \in Arrays}

VARIABLES
    order,     \* the order in which the machine makes stores visible
    top,       \* q->top
    mem,       \* the other locations, as thieves see them
    pending,   \* the owner's stores that have not reached mem, oldest first
    pc,        \* pc[t]: next step of the operation of t
    loc,       \* loc[p]: the locals t, b, a and x of the operation of p
    pushed,    \* number of items pushed
    items,     \* history: the items in the deque, head first
    result     \* result[p]: what the last take or steal returned

vars == <<order, top, mem, pending, pc, loc, pushed, items, result>>

Procs == Thieves \cup {Worker}
NoLocals == [t |-> 0, b |-> 0, a |-> 0, x |-> 0]

\* init: an empty deque with an array of uninitialised entries.
Init ==
    /\ \E machine \in Machines :
          /\ order = machine[1]
          /\ mem = [l \in Locations |-> IF l = ARRAY THEN machine[2] ELSE 0]
    /\ top = 0
    /\ pending = <<>>
    /\ pc = [p \in Procs |-> "idle"]
    /\ loc = [p \in Procs |-> NoLocals]
    /\ pushed = 0
    /\ items = <<>>
    /\ result = [p \in Procs |-> EMPTY]

-----------------------------------------------------------------------------
(* Memory *)

\* What location l holds once the first n stores of s have reached memory m.
HeldAfter(m, s, n, l) ==
    LET writes == {i \in 1 .. n : s[i][1] = l}
    IN  IF writes = {} THEN m[l] ELSE s[Max(writes)][2]

\* What the owner reads at location l: its last pending store, or memory.
Own(l) == HeldAfter(mem, pending, Len(pending), l)

Store(l, v) == <<l, v>>

\* The n-th pending store may reach memory.
MayCommit(n) ==
    /\ pending[n][1] # FENCE
    /\ IF order = "TSO"
         THEN \A m \in 1 .. n - 1 : pending[m][1] = FENCE
         ELSE \A m \in 1 .. n - 1 : pending[m][1] \notin {FENCE, pending[n][1]}

\* A store reaches memory.  Fences with nothing before them are used up.
Commit ==
    \E n \in DOMAIN pending :
        /\ MayCommit(n)
        /\ mem' = [mem EXCEPT ![pending[n][1]] = pending[n][2]]
        /\ LET rest == RemoveAt(pending, n)
           IN  pending' = IF rest # <<>> /\ Head(rest)[1] = FENCE
                            THEN Tail(rest) ELSE rest
        /\ UNCHANGED <<top, pc, loc, pushed, items, result>>

\* Arithmetic of size_t.
Plus1(n) == (n + 1) % SizeT
Minus(m, n) == (m + SizeT - n) % SizeT

-----------------------------------------------------------------------------
(* push *)

Full(b, a) == Minus(b, top) > ArraySize(a) - 1

\* The loads of bottom, top and array, and the test for a full array.
PushLoad ==
    LET b == Own(BOTTOM)
        a == Own(ARRAY)
    IN  /\ pc[Worker] = "idle"
        /\ pushed < MaxPush
        /\ loc' = [loc EXCEPT ![Worker].b = b, ![Worker].a = a]
        /\ pc' = [pc EXCEPT ![Worker] = IF Full(b, a) THEN "resize" ELSE "push_store"]
        /\ UNCHANGED <<top, mem, pending, pushed, items, result>>

\* resize: the live entries are copied to an array of twice the size, and the
\* new array is stored with a relaxed store.
Resize ==
    LET a == loc[Worker].a
        live == [n \in 1 .. Own(BOTTOM) - top |->
                    Store(Entry(a + 1, top + n - 1), Own(Entry(a, top + n - 1)))]
    IN  /\ pc[Worker] = "resize"
        /\ pending' = pending \o live \o <<Store(ARRAY, a + 1)>>
        /\ loc' = [loc EXCEPT ![Worker].a = a + 1]
        /\ pc' = [pc EXCEPT ![Worker] = "push_store"]
        /\ UNCHANGED <<top, mem, pushed, items, result>>

\* Mutant of ReleaseFence: there is none.
ReleaseFenceOmitted == <<>>

ReleaseFence == <<Store(FENCE, 0)>>

\* Store the item, release fence, store bottom.
PushStore ==
    LET b == loc[Worker].b
        x == pushed + 1
    IN  /\ pc[Worker] = "push_store"
        /\ pending' = pending \o <<Store(Entry(loc[Worker].a, b), x)>> \o ReleaseFence
                              \o <<Store(BOTTOM, Plus1(b))>>
        /\ pushed' = x
        /\ items' = Append(items, x)
        /\ loc' = [loc EXCEPT ![Worker] = NoLocals]
        /\ pc' = [pc EXCEPT ![Worker] = "idle"]
        /\ UNCHANGED <<top, mem, result>>

-----------------------------------------------------------------------------
(* take *)

\* Thread p's operation returns r.
Finish(p, r) ==
    /\ result' = [result EXCEPT ![p] = r]
    /\ loc' = [loc EXCEPT ![p] = NoLocals]
    /\ pc' = [pc EXCEPT ![p] = "idle"]

\* x leaves the deque.
TakeOut(x) ==
    IF \E n \in DOMAIN items : items[n] = x
      THEN items' = RemoveAt(items, CHOOSE n \in DOMAIN items : items[n] = x)
      ELSE UNCHANGED items

\* Reserve the last index.  The program never takes before it has pushed.
TakeStore ==
    LET b == Minus(Own(BOTTOM), 1)
    IN  /\ pc[Worker] = "idle"
        /\ pushed > 0
        /\ loc' = [loc EXCEPT ![Worker].b = b, ![Worker].a = Own(ARRAY)]
        /\ pending' = Append(pending, Store(BOTTOM, b))
        /\ result' = [result EXCEPT ![Worker] = BUSY]
        /\ pc' = [pc EXCEPT ![Worker] = "take_top"]
        /\ UNCHANGED <<top, mem, pushed, items>>

\* Mutant of SeqCstFence: there is none.
SeqCstFenceOmitted == TRUE

\* The fence between the store of bottom and the load of top: all stores have
\* become visible.
SeqCstFence == pending = <<>>

\* The load of top and, unless the deque is empty, of the last entry.
TakeTop ==
    LET b == loc[Worker].b
        x == Own(Entry(loc[Worker].a, b))
    IN  /\ pc[Worker] = "take_top"
        /\ SeqCstFence
        /\ \/ /\ top < b
              /\ Finish(Worker, x)
              /\ TakeOut(x)
              /\ UNCHANGED pending
           \/ /\ top = b
              /\ loc' = [loc EXCEPT ![Worker].t = top, ![Worker].x = x]
              /\ pc' = [pc EXCEPT ![Worker] = "take_cas"]
              /\ UNCHANGED <<pending, items, result>>
           \/ /\ top > b
              /\ Finish(Worker, EMPTY)
              /\ pending' = Append(pending, Store(BOTTOM, Plus1(b)))
              /\ UNCHANGED items
        /\ UNCHANGED <<top, mem, pushed>>

\* The compare-and-swap of top, for the owner and for thieves: p wins the
\* entry it has read, or returns `lost'.
CasTop(p, lost) ==
    LET x == loc[p].x
    IN  \/ /\ top = loc[p].t
           /\ top' = Plus1(top)
           /\ TakeOut(x)
           /\ Finish(p, x)
        \/ /\ top # loc[p].t
           /\ Finish(p, lost)
           /\ UNCHANGED <<top, items>>

\* The last item: compete with the thieves for it, then restore bottom.
TakeCas ==
    /\ pc[Worker] = "take_cas"
    /\ CasTop(Worker, EMPTY)
    /\ pending' = Append(pending, Store(BOTTOM, Plus1(loc[Worker].b)))
    /\ UNCHANGED <<mem, pushed>>

-----------------------------------------------------------------------------
(* steal *)

StealTop(p) ==
    /\ pc[p] = "idle"
    /\ loc' = [loc EXCEPT ![p].t = top]
    /\ result' = [result EXCEPT ![p] = BUSY]
    /\ pc' = [pc EXCEPT ![p] = "steal_bottom"]
    /\ UNCHANGED <<top, mem, pending, pushed, items>>

StealBottom(p) ==
    /\ pc[p] = "steal_bottom"
    /\ \/ /\ loc[p].t < mem[BOTTOM]
          /\ pc' = [pc EXCEPT ![p] = "steal_array"]
          /\ UNCHANGED <<loc, result>>
       \/ /\ loc[p].t >= mem[BOTTOM]
          /\ Finish(p, EMPTY)
    /\ UNCHANGED <<top, mem, pending, pushed, items>>

StealArray(p) ==
    /\ pc[p] = "steal_array"
    /\ loc' = [loc EXCEPT ![p].a = mem[ARRAY]]
    /\ pc' = [pc EXCEPT ![p] = "steal_entry"]
    /\ UNCHANGED <<top, mem, pending, pushed, items, result>>

StealEntry(p) ==
    /\ pc[p] = "steal_entry"
    /\ loc' = [loc EXCEPT ![p].x = mem[Entry(loc[p].a, loc[p].t)], ![p].a = 0]
    /\ pc' = [pc EXCEPT ![p] = "steal_cas"]
    /\ UNCHANGED <<top, mem, pending, pushed, items, result>>

StealCas(p) ==
    /\ pc[p] = "steal_cas"
    /\ CasTop(p, ABORT)
    /\ UNCHANGED <<mem, pending, pushed>>

-----------------------------------------------------------------------------
WorkerStep == PushLoad \/ Resize \/ PushStore \/ TakeStore \/ TakeTop \/ TakeCas

ThiefStep(p) ==
    StealTop(p) \/ StealBottom(p) \/ StealArray(p) \/ StealEntry(p) \/ StealCas(p)

Next ==
    /\ Commit \/ WorkerStep \/ \E p \in Thieves : ThiefStep(p)
    /\ UNCHANGED order

Spec == Init /\ [][Next]_vars

-----------------------------------------------------------------------------
\* The comment on EMPTY and ABORT (work-steal.c:45): nobody uses an entry that
\* was never initialised.
NoUninitialisedEntry == \A p \in Procs : result[p] # Junk

\* The deque implements the abstract one: every item leaves it at most once,
\* at the right end, and take returns EMPTY only when nothing is left.
DequeRef == INSTANCE AbstractDeque WITH
    Queues <- {"q"}, Threads <- Procs,
    Items <- 1 .. MaxPush, Owner <- LAMBDA q : Worker,
    items <- [q \in {"q"} |-> items],
    heads <- [q \in {"q"} |-> top],
    seen <- [p \in Procs |-> IF p \in Thieves THEN loc[p].t ELSE 0],
    result <- result

ImplementsDeque == DequeRef!DequeSpec
=============================================================================
