----------------------------- MODULE ClockGraph -----------------------------
(***************************************************************************)
(* quiz1/main.c: a chain of N_NODES threads and a clock, the program that  *)
(* exercises mutex.h and cond.h.  Thread n waits for the clock, then for   *)
(* the node before it, and then in turn ticks the clock and signals its    *)
(* own node; main stops the clock when it has ticked 2^N_NODES times.      *)
(*                                                                         *)
(* Node n, its thread and its mutex are the number n; main and the clock   *)
(* share the number N_NODES.  pc[t] is the next line of main.c of thread   *)
(* t, which runs it when it is not inside the library (op[t] = "idle").    *)
(* pthread_create is taken to succeed: all threads exist from the start.   *)
(***************************************************************************)
EXTENDS Monitor, Integers

CONSTANT N_NODES    \* 16 in the code

Nodes == 0 .. N_NODES - 1
Main == N_NODES
Clock == N_NODES

\* The last line is arithmetic, for provers that do not know powers.
ASSUME GraphAssumption ==
    /\ N_NODES \in Nat \ {0}
    /\ Threads = Nodes \cup {Main}
    /\ Mutexes = Nodes \cup {Clock}
    /\ 2 ^ 0 = 1 /\ \A n \in Nodes : 2 ^ n \in Nat /\ 2 ^ (n + 1) = 2 * 2 ^ n

\* The counter of a condition variable does not come around: it has 32 bits,
\* and N_NODES is 16.
ASSUME CounterAssumption == SeqValues > 2 ^ N_NODES + N_NODES + 1

VARIABLES
    pc,         \* pc[t]: where t is in main.c
    ticks,      \* clock.ticks
    ready,      \* ready[n]: node n's flag
    i,          \* i[n]: the loop counter of thread_func
    bit,        \* bit[n]: the local of that name
    running     \* running[n]: what the last clock_wait of thread n returned

graphVars == <<pc, ticks, ready, i, bit, running>>
vars == <<monitorVars, graphVars>>

LastTick == 2 ^ N_NODES

Init ==
    /\ MonitorInit
    /\ pc = [t \in Threads |-> IF t = Main THEN "tick_lock" ELSE "wait_lock"]
    /\ ticks = 0
    /\ ready = [n \in Nodes |-> FALSE]
    /\ i = [n \in Nodes |-> 1]
    /\ bit = [n \in Nodes |-> FALSE]
    /\ running = [n \in Nodes |-> TRUE]

\* Thread t, not inside the library, goes from line p of main.c to line q.
Go(t, p, q) ==
    /\ pc[t] = p
    /\ op[t] = "idle"
    /\ pc' = [pc EXCEPT ![t] = q]

\* A call that only enters mutex.h.
Lock(t, m) == MutexLock(t, m, "idle") /\ UNCHANGED condVars
Unlock(t, m) == MutexUnlock(t, m, "idle") /\ UNCHANGED condVars

-----------------------------------------------------------------------------
(* clock_wait(clock, Target(t)) *)

Target(t) == IF t = Main THEN LastTick ELSE i[t]

ClockWaitLock(t) ==
    /\ Go(t, "wait_lock", "wait_test")
    /\ Lock(t, Clock)
    /\ UNCHANGED <<ticks, ready, i, bit, running>>

\* Mutant of MustWait: a stopped clock is waited for.
MustWaitStopped(t) == ticks < Target(t)

MustWait(t) == ticks >= 0 /\ ticks < Target(t)

ClockWaitAgain(t) ==
    /\ Go(t, "wait_test", "wait_test")
    /\ MustWait(t)
    /\ CondWait(t, Clock)
    /\ UNCHANGED <<ticks, ready, i, bit, running>>

\* What thread n does in the body of its loop once it need not wait any more.
Work(n) == IF bit[n] THEN "signal_lock" ELSE "tick_lock"

ClockWaitReturn(t) ==
    LET reached == ticks >= Target(t)
    IN  /\ Go(t, "wait_test",
              IF t = Main THEN "stop_lock"
              ELSE IF ~reached THEN "signal_lock"
              ELSE IF t = 0 THEN Work(t) ELSE "parent_lock")
        /\ ~MustWait(t)
        /\ Unlock(t, Clock)
        /\ running' = IF t = Main THEN running ELSE [running EXCEPT ![t] = reached]
        /\ UNCHANGED <<ticks, ready, i, bit>>

-----------------------------------------------------------------------------
(* clock_tick and clock_stop *)

ClockTickLock(t) ==
    /\ Go(t, "tick_lock", "tick_add")
    /\ Lock(t, Clock)
    /\ UNCHANGED <<ticks, ready, i, bit, running>>

\* Mutant of Tick: a stopped clock ticks.
TickStopped(n) == n + 1

Tick(n) == IF n >= 0 THEN n + 1 ELSE n

ClockTickAdd(t) ==
    /\ Go(t, "tick_add", "tick_broadcast")
    /\ ticks' = Tick(ticks)
    /\ Unlock(t, Clock)
    /\ UNCHANGED <<ready, i, bit, running>>

\* The end of the loop body of thread n: bit = !bit, ++i.
NextIteration(n) ==
    /\ bit' = [bit EXCEPT ![n] = ~@]
    /\ i' = [i EXCEPT ![n] = @ + 1]

ClockTickBroadcast(t) ==
    /\ Go(t, "tick_broadcast", "wait_lock")
    /\ CondBroadcast(t, Clock)
    /\ IF t = Main THEN UNCHANGED <<i, bit>> ELSE NextIteration(t)
    /\ UNCHANGED <<ticks, ready, running>>

ClockStopLock ==
    /\ Go(Main, "stop_lock", "stop_set")
    /\ Lock(Main, Clock)
    /\ UNCHANGED <<ticks, ready, i, bit, running>>

ClockStopSet ==
    /\ Go(Main, "stop_set", "stop_broadcast")
    /\ ticks' = -1
    /\ Unlock(Main, Clock)
    /\ UNCHANGED <<ready, i, bit, running>>

ClockStopBroadcast ==
    /\ Go(Main, "stop_broadcast", "join")
    /\ CondBroadcast(Main, Clock)
    /\ UNCHANGED <<ticks, ready, i, bit, running>>

\* pthread_join of every thread.
Join ==
    /\ Go(Main, "join", "done")
    /\ \A n \in Nodes : pc[n] = "done" /\ op[n] = "idle"
    /\ UNCHANGED <<monitorVars, ticks, ready, i, bit, running>>

-----------------------------------------------------------------------------
(* node_wait(self->parent) and node_signal(self) *)

NodeWaitLock(n) ==
    /\ Go(n, "parent_lock", "parent_test")
    /\ Lock(n, n - 1)
    /\ UNCHANGED <<ticks, ready, i, bit, running>>

NodeWaitAgain(n) ==
    /\ Go(n, "parent_test", "parent_test")
    /\ ~ready[n - 1]
    /\ CondWait(n, n - 1)
    /\ UNCHANGED <<ticks, ready, i, bit, running>>

\* Mutant of Consumed: the flag stays set.
ConsumedNot == TRUE

\* The flag of a node after its child has waited for it.
Consumed == FALSE

NodeWaitReturn(n) ==
    /\ Go(n, "parent_test", Work(n))
    /\ ready[n - 1]
    /\ ready' = [ready EXCEPT ![n - 1] = Consumed]
    /\ Unlock(n, n - 1)
    /\ UNCHANGED <<ticks, i, bit, running>>

NodeSignalLock(n) ==
    /\ Go(n, "signal_lock", "signal_set")
    /\ Lock(n, n)
    /\ UNCHANGED <<ticks, ready, i, bit, running>>

NodeSignalSet(n) ==
    /\ Go(n, "signal_set", "signal_cond")
    /\ ready' = [ready EXCEPT ![n] = TRUE]
    /\ Unlock(n, n)
    /\ UNCHANGED <<ticks, i, bit, running>>

\* The signal in the loop, or the last one, after which the thread ends.
NodeSignalCond(n) ==
    /\ Go(n, "signal_cond", IF running[n] THEN "wait_lock" ELSE "done")
    /\ CondSignal(n, n)
    /\ IF running[n] THEN NextIteration(n) ELSE UNCHANGED <<i, bit>>
    /\ UNCHANGED <<ticks, ready, running>>

-----------------------------------------------------------------------------
NodeStep(n) ==
    \/ NodeWaitLock(n) \/ NodeWaitAgain(n) \/ NodeWaitReturn(n)
    \/ NodeSignalLock(n) \/ NodeSignalSet(n) \/ NodeSignalCond(n)

MainStep == ClockStopLock \/ ClockStopSet \/ ClockStopBroadcast \/ Join

ClockStep(t) ==
    \/ ClockWaitLock(t) \/ ClockWaitAgain(t) \/ ClockWaitReturn(t)
    \/ ClockTickLock(t) \/ ClockTickAdd(t) \/ ClockTickBroadcast(t)

ThreadStep(t) ==
    \/ ClockStep(t)
    \/ t \in Nodes /\ NodeStep(t)
    \/ t = Main /\ MainStep
    \/ LibraryStep(t) /\ UNCHANGED graphVars

\* The program has ended.
Ended == pc[Main] = "done" /\ UNCHANGED vars

Next == Ended \/ \E t \in Threads : ThreadStep(t)

\* Every thread is scheduled again and again.  futex_wait returns only when
\* somebody calls futex_wake: the program installs no signal handler and never
\* reuses the memory of a futex (MonitorClients has spurious returns; with
\* endlessly many of them the mutex, which is not fair, could starve main).
Spec ==
    /\ Init
    /\ [][Next]_vars
    /\ \A t \in Threads : WF_vars(ThreadStep(t))

-----------------------------------------------------------------------------
\* The clock counts 0, 1, .. 2^N_NODES by ones and is stopped only then: the
\* chain of threads is a binary counter, so that no late clock_tick changes
\* the clock between the moment main sees the last tick and clock_stop.
ClockCountsToTheEnd ==
    [][ticks' # ticks =>
         \/ ticks' = ticks + 1 /\ ticks >= 0 /\ ticks < LastTick
         \/ ticks' = -1 /\ ticks = LastTick]_ticks

\* node.ready holds one signal only.  It is never set while it is still set,
\* so no signal is lost, as long as the signaller has not seen the stop: the
\* child has always consumed the previous one.
NoSignalOverwritten ==
    \A n \in Nodes :
        pc[n] = "signal_set" /\ op[n] = "idle" /\ running[n] => ~ready[n]

\* No lost wake-up: a thread asleep on a condition variable although what it
\* waits for has happened will be woken, because the thread that made it
\* happen, or that changed the data after it, has not notified yet.
WillNotify(u, m) ==
    \/ /\ op[u] \in {"signal_wake", "broadcast_requeue"}
       /\ arg[u] = m
    \/ /\ m = Clock
       /\ pc[u] \in {"tick_broadcast", "stop_broadcast"}
    \/ m = u /\ m \in Nodes /\ pc[u] = "signal_cond"

NoLostWakeup ==
    /\ \A t \in queue[SeqWord(Clock)] :
          MustWait(t) \/ \E u \in Threads : WillNotify(u, Clock)
    /\ \A n \in Nodes : queue[SeqWord(n)] # {} /\ ready[n] =>
          \E u \in Threads : WillNotify(u, n)

\* The program ends: the clock gets to 2^N_NODES, and after clock_stop every
\* thread leaves its loop, also one that waits for its parent by then.
Termination == <>(pc[Main] = "done")
=============================================================================
