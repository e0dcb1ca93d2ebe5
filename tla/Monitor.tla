------------------------------ MODULE Monitor ------------------------------
(***************************************************************************)
(* quiz1/cond.h on top of mutex.h: the condition variable is a counter     *)
(* that every signal and broadcast increments.  A waiter remembers the     *)
(* counter, releases the mutex, and sleeps only if the counter still has   *)
(* the remembered value.  A broadcast does not wake the sleepers but moves *)
(* them to the futex of the mutex, where unlock will wake them one by one. *)
(*                                                                         *)
(* Each mutex m has one condition variable, whose counter is seq[m]; that  *)
(* is how every program of the repository uses them.                       *)
(***************************************************************************)
EXTENDS Mutex

CONSTANTS
    COND_SPINS,    \* loads of the counter before sleeping; 128 in the code
    SeqValues      \* number of values of the counter: 2^32 in the code

ASSUME CondAssumption ==
    /\ COND_SPINS \in Nat
    /\ SeqValues \in Nat \ {0}

VARIABLES
    seq,       \* seq[m]: the counter of the condition variable of m
    seen       \* seen[t]: the value t loaded at the start of cond_wait

condVars == <<seq, seen>>
monitorVars == <<mutexVars, condVars>>

MonitorInit ==
    /\ MutexInit
    /\ seq = [m \in Mutexes |-> 0]
    /\ seen = [t \in Threads |-> 0]

\* Mutant of NextSeq: the counter is not incremented.
NextSeqSame(n) == n

NextSeq(n) == (n + 1) % SeqValues

\* t continues at control point p, changing nothing else of mutex.h.
GoTo(t, p) ==
    /\ op' = [op EXCEPT ![t] = p]
    /\ UNCHANGED <<state, arg, ret, owners, view, pub>>

-----------------------------------------------------------------------------
(* cond_wait *)

\* The counter is loaded while the mutex is still held; then mutex_unlock.
CondWait(t, m) ==
    /\ seen' = [seen EXCEPT ![t] = seq[m]]
    /\ MutexUnlock(t, m, "cond_spin")
    /\ UNCHANGED seq

\* mutex_lock on the way out of cond_wait, continuing at p.
Relock(t, p) ==
    /\ op' = [op EXCEPT ![t] = "trylock_load"]
    /\ ret' = [ret EXCEPT ![t] = p]
    /\ spins' = [spins EXCEPT ![t] = 0]
    /\ UNCHANGED <<queue, state, arg, owners, view, pub>>

\* The local variable seq is not used any more.
Forget(t) == seen' = [seen EXCEPT ![t] = 0]

\* One load of the counter in the spin loop.  If it moved, cond_wait locks the
\* mutex and returns at once; after the last load the thread goes to sleep.
CondSpin(t) ==
    /\ op[t] = "cond_spin"
    /\ spins[t] < COND_SPINS
    /\ \/ /\ seq[arg[t]] # seen[t]
          /\ Relock(t, "idle")
          /\ Forget(t)
       \/ /\ seq[arg[t]] = seen[t]
          /\ spins' = [spins EXCEPT ![t] = @ + 1]
          /\ GoTo(t, "cond_spin")
          /\ UNCHANGED <<queue, seen>>
    /\ UNCHANGED seq

\* Mutant of SeqHolds: the kernel does not compare the counter.
SeqHoldsAlways(t) == TRUE

\* futex_wait finds the value that cond_wait loaded.
SeqHolds(t) == seq[arg[t]] = seen[t]

\* Mutant of AfterWait: cond_wait ends with mutex_lock.
AfterWaitNothing == "idle"

\* Where cond_wait goes on when it has the mutex after futex_wait.
AfterWait == "cond_fetch_or"

CondFutexWait(t) ==
    /\ op[t] = "cond_spin"
    /\ spins[t] = COND_SPINS
    /\ \/ /\ SeqHolds(t)
          /\ FutexWait(t, SeqWord(arg[t]), TRUE)
          /\ spins' = [spins EXCEPT ![t] = 0]
          /\ GoTo(t, "cond_asleep")
       \/ /\ ~SeqHolds(t)
          /\ Relock(t, AfterWait)
    /\ Forget(t)
    /\ UNCHANGED seq

\* futex_wait returned, whichever queue the thread was woken from.
CondFutexReturn(t) ==
    /\ op[t] = "cond_asleep"
    /\ Awake(t)
    /\ Relock(t, AfterWait)
    /\ UNCHANGED condVars

\* Mutant of Marked: the word is left alone.
MarkedNot(flags) == flags

Marked(flags) == flags \cup {SLEEPING}

\* With the mutex held: other waiters may have been moved to the mutex's queue
\* by the same broadcast, so the coming unlock has to wake one.
CondFetchOr(t) ==
    /\ op[t] = "cond_fetch_or"
    /\ state' = [state EXCEPT ![arg[t]] = Marked(@)]
    /\ op' = [op EXCEPT ![t] = "idle"]
    /\ UNCHANGED <<queue, arg, ret, spins, owners, view, pub, condVars>>

-----------------------------------------------------------------------------
(* cond_signal and cond_broadcast; the mutex need not be held. *)

\* The first access of both: fetch_add on the counter.
Notify(t, m, next) ==
    /\ op[t] = "idle"
    /\ seq' = [seq EXCEPT ![m] = NextSeq(@)]
    /\ op' = [op EXCEPT ![t] = next]
    /\ arg' = [arg EXCEPT ![t] = m]
    /\ UNCHANGED <<queue, state, ret, spins, owners, view, pub, seen>>

CondSignal(t, m) == Notify(t, m, "signal_wake")
CondBroadcast(t, m) == Notify(t, m, "broadcast_requeue")

SignalWake(t) ==
    /\ op[t] = "signal_wake"
    /\ FutexWake(SeqWord(arg[t]))
    /\ GoTo(t, "idle")
    /\ UNCHANGED <<spins, condVars>>

BroadcastRequeue(t) ==
    /\ op[t] = "broadcast_requeue"
    /\ FutexRequeue(SeqWord(arg[t]), StateWord(arg[t]))
    /\ GoTo(t, "idle")
    /\ UNCHANGED <<spins, condVars>>

-----------------------------------------------------------------------------
CondStep(t) ==
    \/ CondSpin(t)
    \/ CondFutexWait(t)
    \/ CondFutexReturn(t)
    \/ CondFetchOr(t)
    \/ SignalWake(t)
    \/ BroadcastRequeue(t)

\* One step of mutex.h or cond.h by thread t.
LibraryStep(t) ==
    \/ MutexStep(t) /\ UNCHANGED condVars
    \/ CondStep(t)

\* t is inside the library.
Busy(t) == op[t] # "idle"
=============================================================================
