-------------------------------- MODULE Lock --------------------------------
(***************************************************************************)
(* What mutex_t promises, whatever its implementation does with futexes:   *)
(* a thread that asked for a mutex may be granted it when nobody owns it,  *)
(* at most one thread owns it, and as long as somebody wants a free mutex  *)
(* one of those threads is granted it.  There is no promise about which    *)
(* one: the lock is not FIFO.                                              *)
(***************************************************************************)
CONSTANTS Threads, Mutexes

VARIABLES
    want,      \* want[m]: the threads that are asking for m
    owners     \* owners[m]: the threads that own m

lockVars == <<want, owners>>

LockInit ==
    /\ want = [m \in Mutexes |-> {}]
    /\ owners = [m \in Mutexes |-> {}]

\* Several threads may start asking at once: a broadcast does that to all the
\* waiters of a condition variable.
Request(S, m) ==
    /\ S \cap (want[m] \cup owners[m]) = {}
    /\ want' = [want EXCEPT ![m] = @ \cup S]
    /\ UNCHANGED owners

Grant(t, m) ==
    /\ t \in want[m]
    /\ owners[m] = {}
    /\ owners' = [owners EXCEPT ![m] = {t}]
    /\ want' = [want EXCEPT ![m] = @ \ {t}]

Release(t, m) ==
    /\ owners[m] = {t}
    /\ owners' = [owners EXCEPT ![m] = {}]
    /\ UNCHANGED want

LockNext ==
    \E m \in Mutexes :
        \/ \E S \in SUBSET Threads : Request(S, m)
        \/ \E t \in Threads : Grant(t, m) \/ Release(t, m)

LockSafety == LockInit /\ [][LockNext]_lockVars

\* The deadlock freedom of the lock: a wanted mutex does not stay free.
LockSpec ==
    /\ LockSafety
    /\ \A m \in Mutexes : WF_lockVars(\E t \in Threads : Grant(t, m))
=============================================================================
