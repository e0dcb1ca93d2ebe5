------------------------------- MODULE Mutex -------------------------------
(***************************************************************************)
(* quiz1/mutex.h: a mutex made of one atomic word and a futex.             *)
(*                                                                         *)
(* The module is a library of steps and a specification of its own.  A     *)
(* thread inside mutex_lock or mutex_unlock is at the control point op[t], *)
(* working on the mutex arg[t]; every step below is one atomic access of   *)
(* the C code (a load, a read-modify-write, a futex system call).  When    *)
(* the operation is over the thread continues at ret[t]: "idle" is the     *)
(* caller's own code, the other values are the rest of cond_wait, which    *)
(* module Monitor adds.                                                    *)
(*                                                                         *)
(* The word is the set of its flags, so that fetch_or is a union.          *)
(*                                                                         *)
(* `owners', `view' and `pub' are history variables.  Every critical       *)
(* section is taken to write the data the mutex protects; view[m] are the  *)
(* threads whose view of memory includes the last of those writes, and     *)
(* pub[m] says that the release sequence of the word's present value       *)
(* carries them, so that an acquire fence after reading it obtains them.   *)
(***************************************************************************)
EXTENDS Naturals, Futex

CONSTANTS
    Mutexes,
    MUTEX_SPINS    \* attempts to take the lock before sleeping; 128 in the code

ASSUME MutexSpinsAssumption == MUTEX_SPINS \in Nat \ {0}

LOCKED == "LOCKED"
SLEEPING == "SLEEPING"

\* The futex words: mutex_t.state, and cond_t.seq of the condition variable
\* that is used with the mutex.
StateWord(m) == <<"state", m>>
SeqWord(m) == <<"seq", m>>
Words == {"state", "seq"} \X Mutexes

VARIABLES
    state,     \* state[m]: the flags set in the word of m
    op,        \* op[t]: the next access of t inside the library, or "idle"
    arg,       \* arg[t]: the mutex of the operation
    ret,       \* ret[t]: where t continues after mutex_lock or mutex_unlock
    spins,     \* spins[t]: the counter of the spin loop
    owners,    \* owners[m]: the threads that returned from mutex_lock(m)
    view,      \* view[m]: the threads that see the last writes under m
    pub        \* pub[m]: the word carries those writes

mutexVars == <<queue, state, op, arg, ret, spins, owners, view, pub>>

MutexInit ==
    /\ FutexInit(Words)
    /\ state = [m \in Mutexes |-> {}]
    /\ op = [t \in Threads |-> "idle"]
    /\ \E m \in Mutexes : arg = [t \in Threads |-> m]
    /\ ret = [t \in Threads |-> "idle"]
    /\ spins = [t \in Threads |-> 0]
    /\ owners = [m \in Mutexes |-> {}]
    /\ view = [m \in Mutexes |-> Threads]
    /\ pub = [m \in Mutexes |-> TRUE]

-----------------------------------------------------------------------------
(* mutex_lock *)

\* The call: the thread enters the spin loop.
MutexLock(t, m, continue) ==
    /\ op' = [op EXCEPT ![t] = "trylock_load"]
    /\ arg' = [arg EXCEPT ![t] = m]
    /\ ret' = [ret EXCEPT ![t] = continue]
    /\ UNCHANGED <<queue, state, spins, owners, view, pub>>

\* Mutant of TrylockFailed: the loop counts one attempt too many.
TrylockFailedLate(t) ==
    LET again == spins[t] < MUTEX_SPINS
    IN  /\ spins' = [spins EXCEPT ![t] = IF again THEN @ + 1 ELSE 0]
        /\ op' = [op EXCEPT ![t] = IF again THEN "trylock_load" ELSE "exchange"]
        /\ UNCHANGED <<owners, view, pub>>

\* mutex_trylock returned false: spin again, or give up and go to sleep.
TrylockFailed(t) ==
    LET again == spins[t] + 1 < MUTEX_SPINS
    IN  /\ spins' = [spins EXCEPT ![t] = IF again THEN @ + 1 ELSE 0]
        /\ op' = [op EXCEPT ![t] = IF again THEN "trylock_load" ELSE "exchange"]
        /\ UNCHANGED <<owners, view, pub>>

\* A relaxed access by t has just set LOCKED in a word where it was clear, and
\* the acquire fence follows: t owns the mutex, obtains what the word carries
\* and makes its own writes, which nobody else sees yet.
Acquired(t) ==
    LET m == arg[t]
    IN  /\ owners' = [owners EXCEPT ![m] = @ \cup {t}]
        /\ view' = [view EXCEPT ![m] = IF t \in @ \/ pub[m] THEN {t} ELSE {}]
        /\ pub' = [pub EXCEPT ![m] = FALSE]
        /\ spins' = [spins EXCEPT ![t] = 0]
        /\ op' = [op EXCEPT ![t] = ret[t]]

\* mutex_trylock looks at the word first.
TrylockLoad(t) ==
    /\ op[t] = "trylock_load"
    /\ IF LOCKED \in state[arg[t]]
         THEN TrylockFailed(t)
         ELSE /\ op' = [op EXCEPT ![t] = "trylock_fetch_or"]
              /\ UNCHANGED <<spins, owners, view, pub>>
    /\ UNCHANGED <<queue, state, arg, ret>>

\* Mutant of TrylockFetchOr: the previous flags are ignored.
TrylockFetchOrBlind(t) ==
    /\ op[t] = "trylock_fetch_or"
    /\ state' = [state EXCEPT ![arg[t]] = @ \cup {LOCKED}]
    /\ Acquired(t)
    /\ UNCHANGED <<queue, arg, ret>>

TrylockFetchOr(t) ==
    /\ op[t] = "trylock_fetch_or"
    /\ state' = [state EXCEPT ![arg[t]] = @ \cup {LOCKED}]
    /\ IF LOCKED \in state[arg[t]] THEN TrylockFailed(t) ELSE Acquired(t)
    /\ UNCHANGED <<queue, arg, ret>>

\* After the spin loop, and each time the thread wakes up: announce a sleeper
\* and see whether the mutex was free.
LockExchange(t) ==
    /\ op[t] = "exchange"
    /\ state' = [state EXCEPT ![arg[t]] = {LOCKED, SLEEPING}]
    /\ IF LOCKED \in state[arg[t]]
         THEN /\ op' = [op EXCEPT ![t] = "futex_wait"]
              /\ UNCHANGED <<spins, owners, view, pub>>
         ELSE Acquired(t)
    /\ UNCHANGED <<queue, arg, ret>>

\* Mutant of LockFutexWait: the kernel does not compare the word.
LockFutexWaitBlind(t) ==
    /\ op[t] = "futex_wait"
    /\ FutexWait(t, StateWord(arg[t]), TRUE)
    /\ op' = [op EXCEPT ![t] = "asleep"]
    /\ UNCHANGED <<state, arg, ret, spins, owners, view, pub>>

LockFutexWait(t) ==
    LET equal == state[arg[t]] = {LOCKED, SLEEPING}
    IN  /\ op[t] = "futex_wait"
        /\ FutexWait(t, StateWord(arg[t]), equal)
        /\ op' = [op EXCEPT ![t] = IF equal THEN "asleep" ELSE "exchange"]
        /\ UNCHANGED <<state, arg, ret, spins, owners, view, pub>>

LockFutexReturn(t) ==
    /\ op[t] = "asleep"
    /\ Awake(t)
    /\ op' = [op EXCEPT ![t] = "exchange"]
    /\ UNCHANGED <<queue, state, arg, ret, spins, owners, view, pub>>

-----------------------------------------------------------------------------
(* mutex_unlock *)

MutexUnlock(t, m, continue) ==
    /\ op' = [op EXCEPT ![t] = "unlock_exchange"]
    /\ arg' = [arg EXCEPT ![t] = m]
    /\ ret' = [ret EXCEPT ![t] = continue]
    /\ UNCHANGED <<queue, state, spins, owners, view, pub>>

\* Mutant of UnlockExchange: a relaxed exchange, which publishes nothing.
UnlockExchangeRelaxed(t) ==
    LET m == arg[t]
    IN  /\ op[t] = "unlock_exchange"
        /\ state' = [state EXCEPT ![m] = {}]
        /\ owners' = [owners EXCEPT ![m] = @ \ {t}]
        /\ op' = [op EXCEPT ![t] =
                     IF SLEEPING \in state[m] THEN "unlock_wake" ELSE ret[t]]
        /\ UNCHANGED <<queue, arg, ret, spins, view, pub>>

\* Mutant of UnlockExchange: nobody is woken.
UnlockExchangeQuiet(t) ==
    LET m == arg[t]
    IN  /\ op[t] = "unlock_exchange"
        /\ state' = [state EXCEPT ![m] = {}]
        /\ owners' = [owners EXCEPT ![m] = @ \ {t}]
        /\ pub' = [pub EXCEPT ![m] = t \in view[m]]
        /\ op' = [op EXCEPT ![t] = ret[t]]
        /\ UNCHANGED <<queue, arg, ret, spins, view>>

\* The release: the mutex is free from here on and the word carries the view
\* of t.  The flags the word had decide whether t must wake somebody.
UnlockExchange(t) ==
    LET m == arg[t]
    IN  /\ op[t] = "unlock_exchange"
        /\ state' = [state EXCEPT ![m] = {}]
        /\ owners' = [owners EXCEPT ![m] = @ \ {t}]
        /\ pub' = [pub EXCEPT ![m] = t \in view[m]]
        /\ op' = [op EXCEPT ![t] =
                     IF SLEEPING \in state[m] THEN "unlock_wake" ELSE ret[t]]
        /\ UNCHANGED <<queue, arg, ret, spins, view>>

UnlockWake(t) ==
    /\ op[t] = "unlock_wake"
    /\ FutexWake(StateWord(arg[t]))
    /\ op' = [op EXCEPT ![t] = ret[t]]
    /\ UNCHANGED <<state, arg, ret, spins, owners, view, pub>>

-----------------------------------------------------------------------------
\* One step of mutex.h by thread t.
MutexStep(t) ==
    \/ TrylockLoad(t)
    \/ TrylockFetchOr(t)
    \/ LockExchange(t)
    \/ LockFutexWait(t)
    \/ LockFutexReturn(t)
    \/ UnlockExchange(t)
    \/ UnlockWake(t)

SpuriousReturn(t) ==
    /\ FutexSpurious(t)
    /\ UNCHANGED <<state, op, arg, ret, spins, owners, view, pub>>

\* The most general client that follows the rules of a mutex: it locks a mutex
\* while it holds none and unlocks the one it holds.
ClientLock(t, m) ==
    /\ op[t] = "idle"
    /\ \A n \in Mutexes : t \notin owners[n]
    /\ MutexLock(t, m, "idle")

ClientUnlock(t, m) ==
    /\ op[t] = "idle"
    /\ t \in owners[m]
    /\ MutexUnlock(t, m, "idle")

MutexNext ==
    \E t \in Threads :
        \/ MutexStep(t)
        \/ SpuriousReturn(t)
        \/ \E m \in Mutexes : ClientLock(t, m) \/ ClientUnlock(t, m)

\* A thread inside the library keeps running; nothing is assumed of clients
\* (they may keep a mutex for ever) nor of spurious wake-ups.
MutexSpec ==
    /\ MutexInit
    /\ [][MutexNext]_mutexVars
    /\ \A t \in Threads : WF_mutexVars(MutexStep(t))

-----------------------------------------------------------------------------
MutexOps == {"trylock_load", "trylock_fetch_or", "exchange", "futex_wait",
             "asleep", "unlock_exchange", "unlock_wake"}

\* Every variable has its type; the word never has SLEEPING without LOCKED.
MutexTypeOK ==
    /\ queue \in [Words -> SUBSET Threads]
    /\ state \in [Mutexes -> {{}, {LOCKED}, {LOCKED, SLEEPING}}]
    /\ op \in [Threads -> MutexOps \cup {"idle"}]
    /\ arg \in [Threads -> Mutexes]
    /\ ret \in [Threads -> {"idle"}]
    /\ spins \in [Threads -> 0 .. MUTEX_SPINS - 1]
    /\ owners \in [Mutexes -> SUBSET Threads]
    /\ view \in [Mutexes -> SUBSET Threads]
    /\ pub \in [Mutexes -> BOOLEAN]

\* Mutual exclusion: two threads never own a mutex together, although the lock
\* is taken by three different read-modify-writes and given up by a fourth
\* that ignores what the word contains.
MutualExclusion ==
    \A m \in Mutexes : \A t, u \in owners[m] : t = u

\* A critical section sees the writes of all earlier ones under the mutex:
\* the relaxed accesses plus the acquire fence of mutex_lock synchronise with
\* the release exchange of mutex_unlock, also when other threads' relaxed
\* exchanges come in between.
OwnerSeesWrites ==
    \A m \in Mutexes : owners[m] \subseteq view[m]

\* No lost wake-up: if a thread sleeps on the mutex, then whoever unlocks will
\* be told to wake somebody (SLEEPING is set), or somebody is already on the
\* way to wake a sleeper or to announce one with its exchange.
WillWake(t, m) ==
    /\ arg[t] = m
    /\ \/ op[t] \in {"unlock_wake", "exchange"}
       \/ op[t] = "asleep" /\ Awake(t)

SleepersAreRemembered ==
    \A m \in Mutexes :
        \/ queue[StateWord(m)] = {}
        \/ SLEEPING \in state[m]
        \/ \E t \in Threads : WillWake(t, m)

\* mutex.h implements the abstract lock, its deadlock freedom included: the
\* threads asking for m are those inside mutex_lock(m).
LockOps == {"trylock_load", "trylock_fetch_or", "exchange", "futex_wait", "asleep"}

MutexLockRef == INSTANCE Lock WITH
    want <- [m \in Mutexes |-> {t \in Threads : arg[t] = m /\ op[t] \in LockOps}],
    owners <- owners

ImplementsLock == MutexLockRef!LockSpec
=============================================================================
