# A TLA+ model of sysprog_linux2023_summer

The repository is a collection of small C programs about synchronisation and
data structures: a mutex and a condition variable built on futexes, a program
that exercises them, a work-stealing scheduler, a blocking queue for many
producers and consumers, a multi-threaded quicksort, a self-balancing tree and
two exercises.  This directory models them in TLA+, checks the models with TLC
and proves theorems about them with TLAPS.

Conventions: a module keeps the names of the C functions and variables where
TLA+ allows it; an action is one atomic access of the C code (a load, a store,
a read-modify-write, a system call) together with the thread-local computation
that follows it, unless its module says otherwise; data is abstracted to what
the properties distinguish.  `pc` or `op` is the program counter.

## 1. Inventory

| component | source | state | operations | hard behaviour |
|---|---|---|---|---|
| futex wrappers | `quiz1/futex.h` | the kernel's wait queues | wait, wake, requeue | compare-and-sleep is atomic, which waiter is woken is not specified, wait may return for no reason |
| mutex | `quiz1/mutex.h` | one word: LOCKED, SLEEPING | lock (spin, then sleep), trylock, unlock | three ways to take the lock, relaxed accesses with one fence, lost wake-ups |
| condition variable | `quiz1/cond.h` | a counter | wait (spin, then sleep), signal, broadcast | notification between unlock and sleep, requeued waiters that nobody would wake |
| clock and chain of threads | `quiz1/main.c` | ticks, one flag per node, loop counters | clock_wait/tick/stop, node_wait/signal | notification outside the mutex, flags that hold one signal, stop racing with ticks |
| spinlock, atomics | `quiz1/spinlock.h`, `quiz1/atomic.h` | one flag | lock, unlock | the spinlock is used by no program |
| work-stealing deque | `quiz2/test1/work-steal.c` | top, bottom, a growing ring of entries | push, resize, take, steal | last-item race, store order, stale arrays, wrap-around |
| work-stealing scheduler | the same | deques, a count, a flag | thread, do_work, join_work, tasks | termination, use after free of the continuation |
| queue for many producers and consumers | `quiz2/test2/mpmc.c` | a list of nodes of cells, two tickets, handles | enqueue, dequeue, reclamation | rendezvous in a cell, late wake-ups, concurrent append, freeing nodes under other threads |
| driver of that queue | the same | arrays of handles, barriers, an array of flags | registration, producer, consumer, main | threads race for slots, rounds fenced by two barriers |
| multi-threaded quicksort | `quiz1/question2/qsort_mt*.c`, `homework1/test_gamma/qsort_mt.c` | a pool of threads with states, an idle count | allocate, work, terminate | a state written under two mutexes, termination by counting, failure while the pool is built |
| priority inversion | `quiz1/question3/priority_inversion/` | two mutexes and a shared counter | three threads of different priority, main | a busy wait above a lock holder |
| S-Tree | `homework1/test_alpha/main.c` | nodes with parent, children, hint | insert, remove, update, rotate | stale hints, pointer surgery at the root and next to the removed node |
| align_up | `homework1/test_beta/main.c` | none | one function | wrap-around |
| container_of example, scripts | `homework1/reference`, `*.py` | none | none | none |

How they interact: `main.c` and `qsort_mt.c` call cond.h, which calls mutex.h;
both call futex.h.  The scheduler calls the deques.  `mpmc.c` makes its own
futex calls.  `quiz1/question2` and `quiz1/question3` hold copies of the
headers whose algorithms are the same.  The threads of a program share memory
and nothing else: there are no messages, no persistence and no restart, so
crashes and lost messages do not arise; interleavings, the order in which
stores become visible, wake-ups and termination do.

What makes each part correct:

* mutex: exclusion, the owner sees what earlier owners wrote, a wanted mutex
  does not stay free while its waiters sleep;
* condition variable: no waiter misses a notification that came after it
  loaded the counter, and the mutex keeps its promises when waiters are
  moved to its queue;
* clock and chain: the chain is a binary counter that reaches 2^N_NODES
  exactly, no signal is overwritten, the program ends;
* deque: every item leaves once and at the right end, also while it is being
  resized and whatever the thieves read;
* scheduler: every task runs once, the continuation last and only once, and
  every thread ends;
* queue: the k-th dequeue gets the k-th item, nobody uses a freed node, no
  consumer sleeps unknown to everybody, all operations return;
* driver: every thread's handle is in the arrays before one of them is read,
  no round touches the array of another, every number arrives in every round;
* quicksort: the pieces that threads sort never overlap and none is lost on
  its way between threads, the pool ends when the array is sorted and only
  then, also if it could not be built, and the result is sorted;
* S-Tree: whatever the hints say, child and parent pointers agree, the search
  order holds, no node is lost, and the tree answers like a set;
* priority inversion: with inheritance nobody between holds up the high
  thread, and both builds end.

PROJECT.json lists the hazards, each at its line, with the properties that
watch it.

## 2. Modules

    Futex <- Mutex <- Monitor <- MonitorClients   (general client; MonitorProofs)
      |        |         ^------ ClockGraph       (quiz1/main.c; ClockGraphProofs)
      |        +-- implements Lock; MonitorProofs, part one
      +----- Mpmc, implements TicketQueue <- MpmcDriver; MpmcDriverProofs
               +-- MpmcProofs
    AbstractDeque <- WorkSteal; WorkStealProofs
      ^-- implemented by Deque; DequeProofs
    Qsort <- QsortPool; QsortPoolProofs
    OrderedSet, implemented by STree; STreeProofs
    PriorityInversion

* **Futex** - the kernel's wait queues: `FutexWait` is compare-and-queue in one
  step, `FutexWake` takes any waiter, `FutexRequeue` wakes one and moves the
  rest.  `FutexSpurious` is a return without a wake-up.
* **Lock** - the abstract mutex: threads ask, one is granted it when nobody
  owns it, the owner releases it; a wanted mutex does not stay free.
* **Mutex** - mutex.h.  `op[t]` is the next access of thread t, `arg[t]` its
  mutex, `ret[t]` where it goes on.  The word is the set of its flags.
  `owners`, `view` and `pub` are history variables: `view[m]` are the threads
  whose view of memory includes the last critical section under m, and
  `pub[m]` says that the word's present value carries it (it was written by
  the releasing exchange or by relaxed read-modify-writes after it, which
  continue its release sequence).
* **Monitor** - cond.h on top of it: `seq[m]` is the counter of the condition
  variable used with m, `seen[t]` the value thread t loaded.
* **MonitorClients** - any client that follows the rules: holds at most one
  mutex, waits with the mutex it holds, notifies with or without it.
* **ClockGraph** - main.c as a client of Monitor: `pc[t]` is the line of
  main.c, and every call is made step by step through Monitor.
* **AbstractDeque** - a deque as a sequence; a steal has a beginning and an
  end because a thief decides on what it read earlier: it may find the deque
  empty although it is not any more, and aborts only if the head moved.
* **Deque** - the Chase-Lev deque.  `mem` is what thieves see; the owner's
  stores wait in `pending`.  `order = "TSO"`: they become visible in
  program order (x86); `"PSO"`: stores to different locations overtake each
  other unless a release fence is between them.  `Machines` lists the orders
  a run considers, each with the array the deque starts with.  The seq_cst fence of take
  waits for the buffer to drain.  The compare-and-swap is on `top`, which only
  read-modify-writes change.
* **WorkSteal** - the scheduler on the abstract deques.
* **TicketQueue** - what the queue promises: operations draw tickets, an
  enqueue puts its item under its ticket, the dequeue of the same ticket gets
  it (`TicketSafety`), and an operation that can return does
  (`OperationsReturn`).
* **Mpmc** - the queue of mpmc.c.  Nodes are pieces of memory that malloc hands
  out again; `handle[t]` is the pointer a thread walks from, `loc[t]` the locals
  of its operation; `put_index` and `pop_index` are the tickets.  `putAt` and
  `gotAt` are history variables.  `ImplementsQueue` maps it to TicketQueue: a
  ticket is held from the fetch-and-add until the function returns, an item is
  put by the exchange of mpmc_enqueue, and got when mpmc_dequeue reaches `over`.
  `List` is the list that ListIsConsecutive speaks of: the nodes from init_node
  on.  Those before it belong to the threads that free them, and two of those
  may hold neighbouring parts, so that what is true of the list is not true of
  all memory that has not been freed.
* **MpmcDriver** - the rest of mpmc.c on top of TicketQueue: the race for slots
  in mpmc_queue_register, `producer`, `consumer` and `main`.  A barrier is the
  set of threads that wait at it; the last to come empties it.  `array` is the
  set of the numbers whose entry is true.
* **Qsort** - what one pass of `qsort_algo` does to a piece of the array:
  insertion sort, choice of the pivot, the partition with its four pointers,
  the comparison with the width of its integers.  The loops are recursive
  functions on records of the loop variables.  Their domains `Inserting` and
  `Scans` are the records whose pointers stay in the piece, so that a pointer
  that left it would stop TLC, and is excluded by the proofs.  `SortedBy`, what
  libc's qsort returns and what the result is compared with, says of each
  position how many elements are smaller and not greater than what is there.
* **QsortPool** - `qsort_mt` and its threads.  A pass is one step, because
  threads touch disjoint pieces, which PiecesDisjoint shows; its recursive
  call and its loop become the list `todo[i]` of pieces.  The mutexes are
  abstract, as Lock and ImplementsLock justify; `asleep` is the wait for the
  condition variable.  `qsort_mt_orig.c` and `test_gamma/qsort_mt.c` have the
  same algorithm on pthread mutexes.
* **OrderedSet** - a set with calls that are answered in one step.
* **STree** - `test_alpha/main.c`.  A node is its value; a step is one turn of
  a search loop, the pointer surgery of one insertion or removal, or one call
  of the recursive `st_update`, which climbs the tree as the variable `n`.
  The program has one thread, so that nothing can come between the statements
  of a step.
* **PriorityInversion** - the demonstration in its two builds (`FIX_PI`), on one
  processor.  `Runs(t, p)` is the SCHED_FIFO rule: no runnable thread has a
  higher effective priority; with FIX_PI the owner of a mutex inherits that of
  its waiters.  main is an ordinary thread, see Fairness.
* **MonitorProofs**, **ClockGraphProofs**, **DequeProofs**, **WorkStealProofs**,
  **MpmcProofs**, **MpmcDriverProofs**, **QsortPoolProofs**, **STreeProofs** - the
  theorems.
* **MC...** - what TLC checks.

Definitions whose comment begins with "Mutant of" are variants of the next
definition with a plausible mistake.  No specification uses them; they show,
when put in the place of the definition, that a property notices the mistake.

## 3. Runs

| run | configuration | states | shows |
|---|---|---|---|
| mutex | `MCMutex.cfg`: 3 threads, 1 mutex, 2 spins | 2 thousand | MutexTypeOK, MutualExclusion, OwnerSeesWrites, SleepersAreRemembered, ImplementsLock (with its liveness) |
| monitor | `MCMonitor.cfg`: 3 threads, 2 notifications, spurious returns | 177 thousand | RequeuedAreRemembered, BroadcastMissesNobody, MonitorImplementsLock |
| clock_graph | `MCClockGraph.cfg`: 2 nodes and main | 233 thousand | NoSignalOverwritten, NoLostWakeup, ClockCountsToTheEnd, Termination |
| deque | `MCDeque.cfg`: 2 thieves, 4 items; strongly ordered stores and arrays of 1, 2 and 4 entries, or weakly ordered stores and one array of 4 | 284 thousand | NoUninitialisedEntry, ImplementsDeque |
| work_steal | `MCWorkSteal.cfg`: 3 threads with 2 tasks each | 105 thousand | RunsAtMostOnce, CountIsOutstanding, NoUseAfterFree, Termination |
| mpmc | `MCMpmc.cfg`: 2 consumers and 2 producers with 3 items, nodes of 1 cell and `threshold` 1, or of 2 cells and `threshold` 0 | 521 thousand | NoUseAfterFree, ListIsConsecutive, SleeperIsKnown, OneReclaimer, ImplementsQueue (with its liveness) |
| mpmc_driver | `MCMpmcDriver.cfg`: 2 producers and 2 consumers, 3 slots of each kind, 3 rounds of 1 item or 1 round of 2 | 482 thousand | EveryHandleSeen, RoundsApart, RoundVerified, DriverEnds |
| qsort_pool | `MCQsortPool.cfg`: arrays of 8, 11 and 13 elements with 2 and 3 threads, and every array of up to 6 elements with values 0 to 2 and one thread | 20 thousand | WokenForAReason, PiecesDisjoint, NothingLost, IdleIsCounted, PoolOutlivesThreads, Sorts, Returns |
| s_tree | `MCSTree.cfg`: 5 values, any sequence of operations | 57 thousand | ParentsAgree, SearchTree, ImplementsSet, Returns |
| priority_inversion | `PriorityInversion.cfg`: both builds | 3 hundred | NoInversion, Termination |

Deadlock is checked in every run; a program that has ended is an explicit
self-loop (`Ended`).

Why the bounds are enough:

* Three threads are the smallest number with an owner, a sleeper and a third
  one that takes the lock, wakes or notifies in between; the proofs of the
  mutex hold for any number.  MUTEX_SPINS is 1 or 2 instead of 128: a
  failed attempt changes nothing but the counter, so a longer loop repeats
  the same steps.  COND_SPINS is 1 likewise.
* The counter of a condition variable has more values than there are
  notifications (`NotifyBound < SeqValues`), so that it does not wrap within
  one wait.  In the code it wraps after 2^32 notifications, which within one
  cond_wait would defeat the comparison.  In ClockGraph nothing bounds the
  notifications but the program: 7 are the most for two nodes (`CounterAssumption`).
* N_NODES = 2 has a thread without a parent, a thread with one, and main; the
  clock counts to 4, so that both branches of the loop run several times in
  both threads.
* The deque grows twice, from 1 to 4 entries, wraps around in each array, and
  has thieves that hold a pointer to every earlier array.  `MaxPush` bounds the
  items.  Thieves are symmetric, and no liveness is checked there.
* Two tasks per queue make a queue with items at both ends.
* A node of one cell makes every ticket the last of its node, which is when
  nodes are appended and reclaimed; nodes of two cells distinguish a cell from
  its node.  `threshold` is 0 or 1 instead of 8, so that nodes are reclaimed
  within so few operations.  `Counts` bounds the operations of each thread (one
  consumer and one producer have two), `MaxTicket` the tickets, and `MaxNode`
  leaves more memory than the runs need, and freed nodes are the first to be
  allocated again.
* Two rounds are enough for an entry of one round to be mistaken in the next,
  and the third starts from barriers that have been used twice; two items per
  round make the loops of the threads turn and their numbers differ.  `MaxTicket`
  is the length of the histories, enough for all the items of a setup.  One slot
  more than threads is the NULL at which the search for handles stops.
* The priority inversion has the threads and the mutexes of the program.
* The quicksort switches to insertion sort below 3 elements instead of 7
  (`SMALL`) and takes the pivot of nine above 6 instead of 40 (`NINTHER`), so
  that short arrays pass through every branch and are shared out up to three
  times; `forkelem` is 1 there.  Numbers have 4 bits (`W`) and the elements
  use the lower half of them, as `rand()` does.  The assumption that there is
  at least one thread is the program's own need: `-h 0` is accepted by `main`,
  and `pool[0]` is then outside the pool.
* Five values make trees of every shape up to five nodes, with every set of
  hints that operations can leave; replacements have their deep case (a
  replacement that is not a child and has a subtree) from four nodes on.

Fairness.  Every thread that can take a step takes one eventually (the
operating system schedules threads).  In Mutex and MonitorClients only the
library's own steps are fair: a client may keep a mutex for ever.  Spurious
returns are possible but not fair, in QsortPool too.  In STree the calls are
not fair, but a call that was made is finished.  In Mpmc and MpmcDriver it is
enough that some thread goes on as long as one can, which is less than a
scheduler grants.  In PriorityInversion main is fair although real-time threads
spin above it, because the kernel leaves ordinary threads a share of each
processor; a real-time thread below others has no such promise, and its
`Runs` is simply false meanwhile.  ClockGraph and Mpmc have no spurious
returns: these programs install no signal handlers.  (With endlessly many of
them the mutex, which is not fair to its waiters, could starve main.)  A late
futex wake of mpmc.c, meant for an earlier dequeue, is modelled.

## 4. What the code does and its documentation does not say

Two runs end with a counterexample; each checks one sentence of the
repository.

* `deque_resize_relaxed`: under the C11 memory model a thief may see the array
  that `resize` stores with a relaxed store before the entries copied into it,
  and return an uninitialised entry.  On x86 the store order excludes it: that
  is what the run deque shows.
* `stree_list`: `test_alpha/main.c:3` calls the tree self-balancing, and line 38
  says that hints approximate the longest chain under a node.  A rotation sets
  the hint of the node that it lowers and not of the one that it lifts, which
  keeps a hint that may be far too small.  Inserting 1, 5, 4, 3, 2 leaves a
  list; so does 1, N, N - 1, ..., 2 for longer ones.  Only the shape suffers:
  s_tree shows the rest.

Without a run of their own:

* the comment at `mpmc.c:240` says that the order of wait and comparison
  prevents a use after free of the futex.  A consumer can leave `mpmc_dequeue`
  between the producer's store of 0 (`mpmc.c:206`) and its wake (`mpmc.c:207`),
  because its futex wait returns at once, and the wake is then given the address
  of a dead local.  Mpmc has this behaviour (`EnqWake` after the consumer's
  `Over`); it is harmless as long as that stack page exists, at worst an unneeded
  wake-up of the consumer's next dequeue, which ImplementsQueue covers;
* `mpmc.c:394` compares the result of pthread_create with -1; it returns a
  positive error number, so that a failure is not noticed and the others wait at
  the registration barrier for ever;
* `priority_inversion/mutex.h:15` sets the protocol of attributes that nobody has
  initialised; with any type, robustness or sharing the threads of this program
  do the same;

* the comment on `clock_stop` (`quiz1/main.c:48`) says that it subtracts one
  from ticks; it sets it to -1;
* `quiz1/hackmd.md:69` and `:119` say that of two threads the second runs half
  as often as the first.  It may enter its loop once more, because it waits for
  the clock before it waits for its parent;
* `take` on a deque that was never pushed to computes `0 - 1` in size_t and
  would return an uninitialised entry; the program pushes first;
* `num_compare` is not an order for numbers that are 2^31 or more apart;
  `rand()` yields none.

## 5. Proofs

`MonitorProofs`, part one, proves about Mutex, for every set of threads and mutexes
and every MUTEX_SPINS > 0 (`MutexSpinsAssumption`, the only assumption):

* `TypeCorrect` - MutexTypeOK is inductive as it stands.
* `MutexExcludes` - MutualExclusion, from the inductive invariant LockInv:
  LOCKED is set exactly while there is an owner, and whoever is about to
  exchange the word in mutex_unlock is an owner.  Without the second part an
  unlock by a stranger would free an owned mutex.
* `MutexPublishes` - OwnerSeesWrites, from ViewInv: the word of a free mutex
  carries the last writes.  It needs LockInv.
* `MutexWakes` - SleepersAreRemembered, from SleepInv: a sleeper is asleep on
  the mutex it is locking.  The delicate step is the exchange of a woken
  thread, which sets SLEEPING again, and the wake-up, after which the woken
  thread itself is the one that will announce the others.
* `MutexImplementsLock` - the safety part of ImplementsLock: a step of mutex.h
  is a request, a grant, a release, or a stutter of the abstract lock.

`WorkStealProofs` proves about WorkSteal, for every number of threads and of
tasks per queue (`WorkStealAssumption`: both are positive, a thread owns the
queue of its number, and the special pointers differ from the tasks):

* `EachTaskOnce` - RunsAtMostOnce; `CountExact` - CountIsOutstanding;
  `ContinuationAlive` - NoUseAfterFree; all from `SchedulerCorrect`, the
  invariant SchedulerInv.  Its parts: a task is at one position of one queue
  (QueuedOnce) or in one hand (HeldOnce); what is queued or about to be run
  has not been run, and what was freed has (RunLater); and the continuation is
  run by one thread only, when the count has come to zero (ContinuesOnce).
  The count equals the number of queued tasks and of hands, so that a thread
  that is still to decrement it keeps it above zero, and only the thread that
  brings it to zero continues.  The delicate step is finding a task
  (`FindInv`, over `Removal` for both ends of a queue), which moves it from
  one set to the other and so leaves the sum alone.

The proof rests on AbstractDeque, which Deque implements by the next theorems.

`DequeProofs` proves about Deque, for every number of thieves, of items and of
arrays (`DequeAssumption`: the last array holds all items, size_t does not
overflow, and what the prover does not know of powers of two):

* `DequeInvAlways` - DequeInv is inductive.  What thieves see is memory after
  some of the pending stores, so that the invariant speaks of every such view
  (`Held(n, l)`: what location l holds after the first n of them).  `top` and
  bottom delimit the items and these fit into the array (SizesOK); the owner finds
  every item in its array (ContentsOK); and an item below a bottom that a thief
  has seen is in the array that the thief sees then or later, in that view and in
  all later ones (VisibleOK): the three loads of steal, in their order.  ThiefOK
  carries that to the thieves on their way: as long as `top` is what a thief has
  loaded, what it reads, or has read, is the first item.  A store that overtakes
  others changes the views; WeakOK says why it may: a fence follows each
  store of an entry, and no bottom before it lets thieves have that entry.
  PushStore (an entry is overwritten one round later: SizesOK), Resize (a
  new array that is visible has its entries) and Commit are the delicate steps.
* `NoUninitialisedEntryAlways` - NoUninitialisedEntry.
* `DequeImplements` - ImplementsDeque, complete, since the abstract deque has no
  fairness: a step of Deque is a push, a take, the beginning or the end of a
  steal, or a stutter.  A take returns where it loads `top` or wins or loses the
  compare-and-swap.

These theorems have the hypothesis `OnlyTSOGrows`: on machines without store order
the first array holds all items.  The program does not guarantee it; without it
they are false, as the run deque_resize_relaxed shows.  The machines of the
run deque satisfy it.

`MonitorProofs`, part two, proves about Monitor under the client of MonitorClients, for
every set of threads and mutexes, every number of spins and of values of the
counter that the notifications do not exhaust (`NotifyBoundAssumption`):

* `MonitorInvariant` - MonitorInv is inductive.  To the invariants of the mutex
  it adds where a thread goes on after mutex_lock and mutex_unlock, and that it
  does not have the mutex meanwhile (PlacesOK); which queue of the kernel each
  sleeper is in (SleepersPlaced); and that the counter never falls behind what
  a waiter has loaded, and is ahead of it when a broadcast has come after the
  load (SeenOK, DueOK): the comparison in futex_wait then fails.
* `MonitorExcludes` - MutualExclusion and OwnerSeesWrites on the way through
  cond_wait; `RequeuedAreRememberedAlways`, `BroadcastMissesNobodyAlways` - the
  invariants of the run monitor.  The first is the reason for the fetch_or at
  the end of cond_wait: a broadcast moves threads to the queue of the mutex without
  setting SLEEPING, so that the one that it wakes has to set it for the others.
* `MonitorImplements` - the safety part of MonitorImplementsLock, step by step.

`ClockGraphProofs` proves about ClockGraph, for every number of nodes
(`GraphAssumption`, whose last line is what the prover does not know of powers of
two):

* `GraphInvariant` - GraphInv: the chain of threads is a binary counter.  One
  token goes around (OneToken): whoever has it is going to tick or to signal, or
  it lies in the flag of a node.  Each thread hands it on every second time, so
  that what it has done is twice what has come to the next thread, plus its
  digit (CounterOK), and the clock shows what has come to thread 0.  StopOK and
  NodeOK say what a thread can still do after clock_stop.
* `NoSignalOverwrittenAlways` - NoSignalOverwritten, also for a thread that has not
  noticed the stop yet.
* `CountsToTheEnd` - ClockCountsToTheEnd.  The bound is `RoomToTick`: while the
  thread with the token is going to tick, its digit is 0 and no flag is set, so
  that, from the last thread to the first, the token has come to each of the
  threads less than 2^k times, k being how many threads follow it and itself.
* `WakeInvariant` - WakeInv adds to GraphInv what holds of the library under
  main.c.  LibraryOK says where a thread inside the library goes on and what it
  can wait for there.  WakeOK is why a wake-up is not lost: a thread that is in
  cond_wait waits for what has not happened, or the counter is no longer the one
  it has loaded, or a thread has changed the data and is going to notify
  (Announces), or is already doing so (Sends).  "No longer the one it has loaded"
  needs counters that do not come around.  That of a node is at most the round
  `i[n]` of its thread (SignalsOK).  That of the clock follows the ticks, each of
  which is broadcast once; when the clock has been stopped, main broadcasts, and
  each thread that did not know yet can do so once more (Broadcasters,
  BroadcastsOK), which makes 2^N_NODES + N_NODES + 1.  `CounterAssumption` says
  that the width of the counter exceeds it; the program has 16 nodes and 32 bits.
* `NoLostWakeupAlways` - NoLostWakeup.

`MpmcProofs`, part one, proves about Mpmc, for all numbers of producers and consumers, of
cells per node, of operations, of nodes and tickets and every `threshold`
(`MpmcAssumption`):

* `MemoryInvariant` - MemoryInv is inductive.  Beside the types: a spare node is
  one thread's and in no list (SpareOK); appended nodes have different numbers
  (IdsDistinct); the list is consecutive and its last node has the greatest of
  all numbers (ListOK); a reclaimer has a stretch of nodes before init_node to
  itself (GarbageOf); handles and the nodes that threads walk over are in the
  list (HandlesOK); only one thread scans (ReclaimOK), and no handle it has
  looked at is before the least node it has seen (ScanOK).  The delicate step is
  ReclaimPublish: what it cuts off is what no handle can reach, because handles
  only move forward and each has been looked at since init_id was taken.
* `NoUseAfterFreeAlways`, `ListIsConsecutiveAlways`, `OneReclaimerAlways` follow.

Part two goes on from there with what the queue is for:

* `QueueInvariant` - QueueInv: a ticket is drawn once (TicketsOK); a walk never
  goes past the node of its ticket, nor a handle past the node of the next one
  (WalksOK, which is what makes handle and ticket name one cell); nodes that are
  not appended are blank (BlankOK); the content of the cell of a ticket follows
  from whether its item was put, its consumer left an address, or both have
  gone (CellsOK); and whoever took an address clears and wakes the futex of the
  consumer of its own ticket (FutexOK).
* `SleeperIsKnownAlways` - a sleeper is in its cell or in the hands of a
  producer.
* `QueueImplementsTickets` - a step of Mpmc is a step of TicketQueue or a
  stutter: the safety part of ImplementsQueue.

`MpmcDriverProofs` proves about MpmcDriver, for any number of threads, of items
and of rounds (`DriverAssumption`: at least one thread and one round, fewer
threads of a kind than slots, as the search for handles needs a NULL at the end,
and histories as long as all rounds need):

* `DriverInvariant` - DriverInv.  Producers and consumers are two `Kinds` that do
  the same at barriers of their own.  A round is `Open` for a kind from the time
  main and all its threads have met at its barrier until they meet there again,
  and then `Finished` until main clears the array.  Who waits at a barrier
  follows from the phase and the place of each thread (DoorOK, GateOK), so that
  the last to come finds everybody there; this is where the number at which a
  barrier opens is used (`LastOfAll`).  The slots are filled from the first on,
  each by a thread of its own (SlotsOK), so that a thread that finds its slot
  taken has another one to look at (`NextSlotExists`).  Both indices of the queue are
  the tickets of the earlier rounds and those that the threads have drawn in
  this one, as their loop counters say (CountOK, `DrawOne`); what a producer has
  put is under a ticket of the round (ItemsOK), and what a ticket gave is in the
  array or in the hands of one consumer (ArrayOK).
* `RoundComplete` - when all consumers have ended the round every number is in
  the array: as many tickets were drawn by consumers as by producers, so they
  are the same tickets.
* `EveryHandleSeenAlways`, `RoundsApartAlways`, `RoundVerifiedAlways` follow.

`QsortPoolProofs`, part one, proves what one pass of qsort_algo does, for every array of
`Elements`, every piece of it and all parameters (`QsortAssumption`: SMALL is at
least 2, NINTHER not less, W positive, and the two facts about powers of two
that the prover does not know):

* the loops of Qsort are recursive functions, and a recursive definition is a
  CHOOSE: `LoopExists` shows that the function of a loop exists, `LoopEnds`,
  by the minimum principle of well-founded relations, that it ends in a stopped
  state which keeps the loop's invariant.  That is the induction that the proofs
  need; the library's induction theorems take an operator and cannot be used.
* `NumCompare` - on what rand() yields, the sign of the wrapped difference is the
  order of the numbers.
* `InsertionSorts` - insertion sort rearranges its piece, orders it unless it is
  stopped by its limit, moves no element over a boundary that already separates
  the piece, and makes at most n * n swaps (so that the limit used for short
  pieces stops nothing).
* `PassPartitions` - the scan keeps equals at both ends, less and greater
  inside (`ScanStepGoes`, `PartitionResult`), the exchanges bring the equals to
  the middle (`PartsChangeSides`, `GatherResult`), and the parts that are left
  are shorter than the piece, so that the recursion ends.

Part two proves about QsortPool, for every call (`PoolAssumption`:
at least one thread):

* `PoolInvariant` - PoolInv: who holds which mutex (HoldersOK), where a thread can
  be by its state (PlacesOK), how far main has come (MainOK), that nobody works
  once somebody terminates (OverOK), and IdleIsCounted, without which a thread
  could terminate the pool while another one works.  `IdleIsCountedAlways` and
  `PoolOutlivesThreadsAlways` follow.
* `DataInvariant` - DataInv: pieces of one thread or of two are apart (PiecesOK),
  exactly the busy threads have pieces (TodoOK), and the array is a
  rearrangement of the input in which two elements are in order unless they are
  in a common piece (SortingOK).  A pass keeps the last by PassPartitions.
* `WokenForAReasonAlways`, `PiecesDisjointAlways`, `NothingLostAlways`,
  `SortsAlways`: when no piece is left, a rearrangement in order is the sorted
  input.  So qsort_mt sorts every array, with any number of threads and after
  any failure to create one, if it returns; that it returns is model-checked.

`STreeProofs` proves about STree, for every finite set of integers as its
values and whatever the hints are (`STreeAssumption`):

* `STreeInvariant` - STreeInv is inductive.  "The nodes below k" is a set that
  a recursion along the pointers computes, and a proof that follows them would
  need an induction for each rotation.  STreeInv says instead that there is a
  function `sub` from nodes to sets that fits the pointers (`Tree`): parents and
  children agree (Agree), `sub[k]` is k between the `sub` of its children in the
  search order (Split), and the parent of a node other than k in `sub[k]` is in
  `sub[k]`, too (Climb).  Each kind of pointer surgery then is a lemma that gives
  the new `sub`: `RotateTree`, `UnlinkTree` (a node with at most one child
  leaves), `RenameTree` (a node takes the place of another), `AttachTree`, and
  `ReplaceTree`, which is st_replace_right from unlinking and renaming.  A mirrored
  tree is a tree of the reverse order (`MirrorTree`), so that the left cases
  follow from the right ones.  Besides, STreeInv says that a node outside the
  tree has no pointers (Blank; insertion relies on calloc for it), where `p`, `n`
  and the parent of a new node are (Places), and that a search is on the way to
  its value (OnTheWay).
* `ParentsAgreeAlways`, `SearchTreeAlways` - ParentsAgree and SearchTree.
* `UnderIsSub` - the recursion of the model, Under, computes `sub`: it goes down a
  level of the tree at each of its turns, and each turn leaves fewer nodes.
  `FirstNode` shows in the same way that the loops of st_first and st_last end, at the
  least and the greatest node.  The induction is by the minimum principle
  (`LeastExists`, `UpTo`) on the number of turns.
* `SetSafetyAlways` - the safety part of ImplementsSet: a call is answered at the
  step that inserts, unlinks, finds the value or falls out of the tree, because
  a search that is on the way finds what the tree has; nothing else changes the
  set, and treeint_destroy ends with the empty one.

Model-checked only: the liveness of the lock, the queue, the scheduler, the tree
and all others (temporal reasoning with ENABLED is out of the prover's reach), and
NoInversion and Termination of PriorityInversion, which are temporal.  Every
invariant that a passing run checks is a theorem.

## 6. Plan

Done: the futex, the mutex, the condition variable and their program; the
deque and the scheduler; the queue with its abstract specification and its
driver; the quicksort and its pool; the tree; the priority inversion; the
proofs of all of them but the last.  Every step of the plan has been taken; what
is left to TLC is what section 5 says the prover cannot do.

## 7. Not modelled

The pthread variants of the headers (`USE_PTHREADS`), which are the C
library's, except as far as PriorityInversion uses them; timing, output and
argument parsing, and with them the `main` of the quicksort, which is
sequential; the spinlock of `spinlock.h`, which no program uses; `align_up`, one
expression without state; the container_of example and the scripts, which keep
no state; failures of pthread_create outside `qsort_mt`; failures of malloc and
calloc (that of the pool in `qsort_mt` behaves like a failure to create the
first thread).  Loads are not reordered in any model, and only Deque reorders
stores; in Mutex the effect of the memory orders is expressed by `view` and
`pub`.
