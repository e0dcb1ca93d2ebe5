--------------------------- MODULE MonitorClients ---------------------------
(***************************************************************************)
(* mutex.h and cond.h under the most general client that follows their     *)
(* rules: a thread holds at most one mutex, waits only on the condition    *)
(* variable of the mutex it holds, and signals or broadcasts whenever it   *)
(* likes, with or without the mutex (main.c does it without, qsort_mt.c    *)
(* with it).                                                               *)
(***************************************************************************)
EXTENDS Monitor

CONSTANT NotifyBound    \* bound: signals and broadcasts per condition variable

ASSUME NotifyBoundAssumption == NotifyBound \in Nat /\ NotifyBound < SeqValues

VARIABLE due    \* history: threads that were in cond_wait when a broadcast
                \* began and have not left it since

clientVars == <<monitorVars, due>>

\* t loaded the counter of m and has not started to lock m again.
InCondWait(t, m) ==
    /\ arg[t] = m
    /\ \/ op[t] \in {"cond_spin", "cond_asleep"}
       \/ op[t] \in {"unlock_exchange", "unlock_wake"} /\ ret[t] = "cond_spin"

StillWaiting == due' = {t \in due : \E m \in Mutexes : InCondWait(t, m)'}

HoldsNone(t) == \A m \in Mutexes : t \notin owners[m]

ClientCall(t, m) ==
    /\ op[t] = "idle"
    /\ \/ HoldsNone(t) /\ MutexLock(t, m, "idle") /\ UNCHANGED condVars
       \/ t \in owners[m] /\ MutexUnlock(t, m, "idle") /\ UNCHANGED condVars
       \/ t \in owners[m] /\ CondWait(t, m)
       \/ seq[m] < NotifyBound /\ CondSignal(t, m)
    /\ StillWaiting

ClientBroadcast(t, m) ==
    /\ seq[m] < NotifyBound
    /\ CondBroadcast(t, m)
    /\ due' = due \cup {u \in Threads : InCondWait(u, m)}

ClientInit == MonitorInit /\ due = {}

ClientNext ==
    \E t \in Threads :
        \/ LibraryStep(t) /\ StillWaiting
        \/ SpuriousReturn(t) /\ UNCHANGED condVars /\ StillWaiting
        \/ \E m \in Mutexes : ClientCall(t, m) \/ ClientBroadcast(t, m)

\* Only the library's own steps are fair.
ClientSpec ==
    /\ ClientInit
    /\ [][ClientNext]_clientVars
    /\ \A t \in Threads : WF_clientVars(LibraryStep(t) /\ StillWaiting)

-----------------------------------------------------------------------------
\* No lost wake-up on the mutex, requeued waiters included: if a thread sleeps
\* on the mutex then SLEEPING is set, or a thread is on its way to wake a
\* sleeper or to set the flag - with its exchange, or, for a thread leaving
\* cond_wait, with the fetch_or that follows its mutex_lock.
WillWakeOrMark(t, m) ==
    \/ WillWake(t, m)
    \/ /\ arg[t] = m
       /\ \/ op[t] = "cond_asleep" /\ Awake(t)
          \/ op[t] \in LockOps /\ ret[t] = "cond_fetch_or" /\ Awake(t)
          \/ op[t] = "cond_fetch_or"

RequeuedAreRemembered ==
    \A m \in Mutexes :
        \/ queue[StateWord(m)] = {}
        \/ SLEEPING \in state[m]
        \/ \E t \in Threads : WillWakeOrMark(t, m)

\* A broadcast misses nobody: a thread that was in cond_wait when a broadcast
\* began does not sleep on the counter any more, unless a broadcast is still
\* between its increment and its requeue.  In particular a waiter that was
\* about to sleep finds the counter changed.
BroadcastMissesNobody ==
    \A t \in due : \A m \in Mutexes :
        t \in queue[SeqWord(m)] =>
            \E u \in Threads : op[u] = "broadcast_requeue" /\ arg[u] = m

\* mutex.h together with cond.h still implements the abstract lock and its
\* deadlock freedom.  A waiter asks for the mutex again as soon as it has been
\* woken or moved to the mutex's queue.
Wanting(t, m) ==
    /\ arg[t] = m
    /\ \/ op[t] \in LockOps
       \/ op[t] = "cond_asleep" /\ t \notin queue[SeqWord(m)]

MonitorLockRef == INSTANCE Lock WITH
    want <- [m \in Mutexes |-> {t \in Threads : Wanting(t, m)}],
    owners <- owners

MonitorImplementsLock == MonitorLockRef!LockSpec
=============================================================================
